---------------------------- MODULE MCCollabRelay ----------------------------
(***************************************************************************)
(* CollabRelay within one load: two generations of hosts and a guest, or a *)
(* host and two guests with one binary frame.  Hosts are interchangeable   *)
(* and so are guests, so one of each always comes first; unlike a symmetry *)
(* set this keeps the liveness check sound.                                *)
(***************************************************************************)
EXTENDS CollabRelay

CONSTANT MaxConns  \* bound: connections made

FirstHost  == CHOOSE h \in Hosts : TRUE
FirstGuest == CHOOSE g \in Guests : TRUE

Used == {c \in Conns : phase[c] # "new"}

Bounded ==
  /\ Cardinality(Used) <= MaxConns
  /\ Cardinality(Used \cap Guests) > 1 => frames <= 1
  /\ Used \cap Hosts # {} => FirstHost \in Used
  /\ Used \cap Guests # {} => FirstGuest \in Used

LoadNext == Next /\ Bounded'

LoadSpec == Init /\ [][LoadNext]_vars /\ Fairness
=============================================================================
