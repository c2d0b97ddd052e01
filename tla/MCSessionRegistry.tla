------------------------- MODULE MCSessionRegistry -------------------------
(***************************************************************************)
(* SessionRegistry with one session in use: whether its wrapper is always  *)
(* reachable or may be cut off depends on which session it is, so one run  *)
(* covers both.  Without a cap sessions do not affect each other.          *)
(***************************************************************************)
EXTENDS SessionRegistry

\* Bound: a session is in use once it is launched or a kill names it.
Used == {s \in Sessions : client[s] # "new" \/ kills[s] > 0}

SoloNext == Next /\ Cardinality(Used') <= 1

SoloSpec == Init /\ [][SoloNext]_vars /\ Fairness
=============================================================================
