----------------------------- MODULE TerminalStream -----------------------------
(***************************************************************************)
(* What a wrapper promises about its terminal on a connection to the       *)
(* dashboard, and all it promises.  The terminal's output is a sequence of *)
(* chunks, numbered from 1.  From the moment the wrapper streams, chunks   *)
(* are shown in order, none twice; one is skipped only if the wrapper lost *)
(* it or is dropping the connection.  Off the pty it loses one only when   *)
(* it holds a backlog of chunks not yet shown, so none falls between the   *)
(* start of the stream, or a repaint, and what is shown then.  Over tmux   *)
(* chunks are lost at any time: until tmux has attached its client, and    *)
(* while it has paused the pane.  A repaint shows the terminal as it was   *)
(* at some moment since the stream was started; only a capture of tmux     *)
(* that failed is blank.                                                   *)
(***************************************************************************)
EXTENDS Naturals

CONSTANTS
  OverTmux,  \* the terminal is read through tmux
  Backlog    \* chunks the wrapper holds back before it loses one

VARIABLES
  rendered,  \* chunks the terminal has put out
  up,        \* the wrapper streams
  dropping,  \* it is giving the connection up
  since,     \* the last chunk before the stream was started
  shown,     \* the last chunk shown
  screen,    \* the chunks a browser's screen is made of
  lost       \* chunks the wrapper lost

vars == <<rendered, up, dropping, since, shown, screen, lost>>

Init ==
  /\ rendered = 0
  /\ ~up /\ ~dropping
  /\ since = 0 /\ shown = 0
  /\ screen = {} /\ lost = {}

Render ==
  /\ rendered' = rendered + 1
  /\ UNCHANGED <<up, dropping, since, shown, screen, lost>>

\* A connection streams; it may be given up at once if the wrapper is stopping.
Begin ==
  /\ ~up /\ up'
  /\ dropping' \in BOOLEAN
  /\ since' \in 0..rendered /\ shown' = since'
  /\ screen' = {}
  /\ UNCHANGED <<rendered, lost>>

Show(m) ==
  /\ up
  /\ m > shown
  /\ dropping \/ (shown + 1)..(m - 1) \subseteq lost
  /\ shown' = m
  /\ screen' = screen \cup {m}
  /\ UNCHANGED <<rendered, up, dropping, since, lost>>

Paint(n) ==
  /\ up
  /\ n >= since \/ (OverTmux /\ n = 0)
  /\ screen' = 1..n
  /\ UNCHANGED <<rendered, up, dropping, since, shown, lost>>

Lose(m) ==
  /\ up
  /\ m > shown
  /\ OverTmux \/ m > shown + Backlog
  /\ lost' = lost \cup {m}
  /\ UNCHANGED <<rendered, up, dropping, since, shown, screen>>

Drop ==
  /\ up /\ dropping'
  /\ UNCHANGED <<rendered, up, since, shown, screen, lost>>

End ==
  /\ up /\ ~up' /\ ~dropping'
  /\ UNCHANGED <<rendered, since, shown, screen, lost>>

Next ==
  \/ Render \/ Begin \/ Drop \/ End
  \/ \E m \in 1..rendered : Show(m) \/ Lose(m)
  \/ \E n \in 0..rendered : Paint(n)

Spec == Init /\ [][Next]_vars
=============================================================================
