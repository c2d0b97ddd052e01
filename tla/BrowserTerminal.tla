--------------------------- MODULE BrowserTerminal ---------------------------
(***************************************************************************)
(* One terminal page and the dashboard handler behind it: terminal.js with *)
(* its socket, fit timer and resize observer, handleTerminalWS with its    *)
(* read loop, the tmux control client between the handler and the session, *)
(* and the connection with what is in flight each way.                     *)
(*                                                                         *)
(* The browser runs one event at a time, so an event handler is one action *)
(* with everything it calls; the handler of the dashboard is split where   *)
(* it talks to tmux or to the socket.  A grid is its number of rows.       *)
(***************************************************************************)
EXTENDS Naturals, Sequences, FiniteSets

CONSTANTS
  Boxes,       \* rows the page's container has room for; 0 while it is hidden
  InputSizes,  \* bytes typed or pasted at once
  MaxInput,    \* tmuxctl's limit on one input
  ReadLimit,   \* the socket library's limit on one message
  OutQueue,    \* capacity of the control client's output channel
  MaxActs,     \* bound: inputs and container changes, and chunks next to them
  MaxChunks,   \* bound: chunks of output, if the user does nothing
  PageWrite    \* the page was rendered for a caller who may type

ASSUME BrowserAssumption ==
  /\ Boxes \subseteq Nat /\ InputSizes \subseteq Nat
  /\ MaxInput \in Nat /\ ReadLimit \in Nat /\ OutQueue \in Nat \ {0}
  /\ MaxActs \in Nat /\ MaxChunks \in Nat /\ PageWrite \in BOOLEAN

VARIABLES
  \* the page
  ws,         \* the page's socket: "connecting", "open" or "null"
  onData,     \* keystrokes are wired to the socket
  noted,      \* stdin is off and the read-only note is shown
  rows,       \* the grid of the page's terminal
  observed,   \* the room the resize observer last reported
  fitTimer,   \* a refit is due
  closed,     \* the page called close
  shown,      \* what was written to the terminal
  box, moves, \* the container, and how often it changed
  typed,      \* inputs handed to onData
  \* the connection
  conn,       \* "opening", "refused", "up" or "over"
  up, down,   \* messages in flight to the dashboard and to the page
  early,      \* the last resize was sent before hello was read
  \* the dashboard
  srv,        \* where the handler is
  reader,     \* its read loop: "off", "on" or "ended"
  canWrite, asked, \* the caller's permission and the rows in the URL
  \* the control client and the session
  grid,       \* the client's grid
  out,        \* output the client holds
  produced,   \* chunks the session produced
  dropped, unsent, \* those the client dropped, and those tmux did not send it
  entered,    \* inputs the session got, by their place in typed
  alive

pageVars    == <<ws, onData, noted, rows, observed, fitTimer, closed, shown>>
userVars    == <<box, moves, typed>>
netVars     == <<conn, up, down, early>>
handlerVars == <<srv, reader, canWrite, asked>>
tmuxVars    == <<grid, out, produced, dropped, unsent, entered, alive>>
vars == <<pageVars, userVars, netVars, handlerVars, tmuxVars>>

-----------------------------------------------------------------------------
(* Values *)

Page    == {"connecting", "open", "null"}
Handler == {"idle", "accepted", "greeted", "captured", "stream", "done"}

\* The control client's process runs.
Attached == srv \in {"greeted", "captured", "stream"}

\* What fit() finds: the note takes a row from the terminal.
Room == IF noted /\ box > 0 THEN box - 1 ELSE box

\* xterm's grid before it was ever fitted.
DefaultRows == 24

\* fit() throws while the container is hidden, and the grid stays.
SafeFit(r) == IF Room = 0 THEN r ELSE Room

\* A size out of bounds is replaced.
TermSize(r) == IF r < 5 \/ r > 200 THEN 40 ELSE r

\* Length of the base64 text, in the JSON around it.
B64Len(n) == 4 * ((n + 2) \div 3)
FrameLen(n) == B64Len(n) + 22

\* Mutant: the channel is left open when the control client ends.
OutNeverClosed == FALSE
OutClosed == ~alive

-----------------------------------------------------------------------------
\* The script has run to its end: the terminal is fitted, the socket is being
\* opened with the grid in its URL, and the observer is installed.
Init ==
  /\ box \in Boxes /\ noted = FALSE
  /\ rows = SafeFit(DefaultRows) /\ asked = rows
  /\ ws = "connecting" /\ onData = FALSE /\ fitTimer = FALSE /\ closed = FALSE
  /\ observed = 0
  /\ shown = <<>> /\ typed = <<>> /\ moves = 0
  /\ conn = "opening" /\ up = <<>> /\ down = <<>> /\ early = FALSE
  /\ srv = "idle" /\ reader = "off" /\ canWrite \in BOOLEAN
  /\ grid = 0 /\ out = <<>> /\ produced = 0
  /\ dropped = {} /\ unsent = {}
  /\ entered = <<>> /\ alive = TRUE

-----------------------------------------------------------------------------
(* The page *)

\* The bounds: a user who acts and a session with much output are looked at
\* apart.
Acts == Len(typed) + moves
MayAct == Acts + produced < MaxActs
MayOutput == produced < MaxChunks /\ (Acts = 0 \/ Acts + produced < MaxActs)

Greeted == onData \/ noted

\* send: nothing unless the socket is open; lost if the connection is over.
\* Mutant: a message overtakes those in flight.
SendOvertaking(m) == up' = IF ws = "open" /\ conn = "up" THEN <<m>> \o up ELSE up
Send(m) == up' = IF ws = "open" /\ conn = "up" THEN Append(up, m) ELSE up

Dim(line) == shown' = Append(shown, <<line, 0>>)

\* shutdown: the handlers are taken off the socket before it is closed, so
\* nothing that is still in flight is read; the close travels behind what was
\* sent.
\* Mutant: the handlers stay on the socket.
ShutdownKeepsHandlers ==
  /\ ws' = ws
  /\ onData' = FALSE
  /\ up' = IF conn \in {"opening", "up"} THEN Append(up, <<"close", 0>>) ELSE up
  /\ down' = IF down = <<>> THEN down ELSE Tail(down)
Shutdown ==
  /\ ws' = "null"
  /\ onData' = FALSE
  /\ up' = IF ws # "null" /\ conn \in {"opening", "up"}
           THEN Append(up, <<"close", 0>>) ELSE up
  /\ down' = <<>>

OnOpen ==
  /\ ws = "connecting"
  /\ conn \in {"up", "over"}
  /\ ws' = "open"
  /\ UNCHANGED <<onData, noted, rows, observed, fitTimer, closed, shown>>
  /\ UNCHANGED <<userVars, netVars, handlerVars, tmuxVars>>

Receive(tag) == ws = "open" /\ down # <<>> /\ Head(down)[1] = tag

\* A binary frame: terminal bytes.
OnBinary ==
  /\ Receive("snapshot") \/ Receive("chunk")
  /\ shown' = Append(shown, Head(down))
  /\ down' = Tail(down)
  /\ UNCHANGED <<ws, onData, noted, rows, observed, fitTimer, closed>>
  /\ UNCHANGED <<userVars, conn, up, early, handlerVars, tmuxVars>>

\* The server's grid is adopted, and keystrokes are wired or stdin is turned
\* off for good.  The page knows the permission it was rendered with, the
\* server the one the caller had when the socket was opened.
OnHello ==
  /\ Receive("hello")
  /\ rows' = Head(down)[2]
  /\ IF canWrite /\ PageWrite THEN onData' = TRUE /\ UNCHANGED noted
                              ELSE noted' = TRUE /\ UNCHANGED onData
  /\ down' = Tail(down)
  /\ UNCHANGED <<ws, observed, fitTimer, closed, shown>>
  /\ UNCHANGED <<userVars, conn, up, early, handlerVars, tmuxVars>>

\* exit and error: the closing line, and the socket is torn down.
OnExitOrError ==
  /\ Receive("exit") \/ Receive("error")
  /\ Dim(IF Receive("exit") THEN "session ended" ELSE "error")
  /\ Shutdown
  /\ UNCHANGED <<noted, rows, observed, fitTimer, closed>>
  /\ UNCHANGED <<userVars, conn, early, handlerVars, tmuxVars>>

\* The browser reports the close after everything that arrived before it.
OnClose ==
  /\ ws # "null"
  /\ conn = "refused" \/ (conn = "over" /\ down = <<>>)
  /\ Dim("disconnected")
  /\ Shutdown
  /\ UNCHANGED <<noted, rows, observed, fitTimer, closed>>
  /\ UNCHANGED <<userVars, conn, early, handlerVars, tmuxVars>>

\* The observer reports a size it has not reported: the refit is put off.
OnObserve ==
  /\ ~closed
  /\ Room # observed
  /\ observed' = Room
  /\ fitTimer' = TRUE
  /\ UNCHANGED <<ws, onData, noted, rows, closed, shown>>
  /\ UNCHANGED <<userVars, netVars, handlerVars, tmuxVars>>

\* Mutant: the refit is not reported.
FitFiresSilently ==
  /\ fitTimer /\ fitTimer' = FALSE
  /\ rows' = SafeFit(rows)
  /\ UNCHANGED <<ws, onData, noted, observed, closed, shown>>
  /\ UNCHANGED <<userVars, netVars, handlerVars, tmuxVars>>

\* The refit, reported if it changed the grid.
FitFires ==
  /\ fitTimer
  /\ fitTimer' = FALSE
  /\ rows' = SafeFit(rows)
  /\ IF rows' # rows
     THEN /\ Send(<<"resize", rows'>>)
          /\ early' = IF up' # up THEN ~Greeted ELSE early
     ELSE UNCHANGED <<up, early>>
  /\ UNCHANGED <<ws, onData, noted, observed, closed, shown>>
  /\ UNCHANGED <<userVars, conn, down, handlerVars, tmuxVars>>

\* A key, or a paste of any length, which onData hands over whole.
Type(n) ==
  /\ onData
  /\ MayAct
  /\ typed' = Append(typed, n)
  /\ Send(<<"input", Len(typed')>>)
  /\ UNCHANGED <<pageVars, box, moves, conn, down, early, handlerVars, tmuxVars>>

\* Mutant: the refit stays due.
CloseLeavesTimer ==
  /\ ~closed /\ closed' = TRUE
  /\ Shutdown
  /\ UNCHANGED <<fitTimer, noted, rows, observed, shown>>
  /\ UNCHANGED <<userVars, conn, early, handlerVars, tmuxVars>>

\* close: the refit is called off, the observer disconnected, the socket torn
\* down and the terminal disposed of.
Close ==
  /\ ~closed
  /\ closed' = TRUE
  /\ fitTimer' = FALSE
  /\ Shutdown
  /\ UNCHANGED <<noted, rows, observed, shown>>
  /\ UNCHANGED <<userVars, conn, early, handlerVars, tmuxVars>>

\* The window, or what is around the terminal, changes.
BoxMoves ==
  /\ ~closed
  /\ MayAct
  /\ moves' = moves + 1
  /\ box' \in Boxes \ {box}
  /\ UNCHANGED <<pageVars, typed, netVars, handlerVars, tmuxVars>>

-----------------------------------------------------------------------------
(* The connection *)

\* The connection breaks, or what the dashboard sent last is lost with it.
Breaks ==
  /\ conn \in {"up", "over"}
  /\ conn' = "over"
  /\ \E n \in 0..Len(down) : down' = SubSeq(down, 1, n)
  /\ UNCHANGED <<pageVars, userVars, up, early, handlerVars, tmuxVars>>

\* A message for the page; a page that let go of its socket reads no more.
Deliver(m) == down' = IF ws = "null" THEN down ELSE Append(down, m)

-----------------------------------------------------------------------------
(* handleTerminalWS *)

To(h) == srv' = h

\* No such session, no permission or no terminal: no upgrade.
Refuse ==
  /\ srv = "idle"
  /\ To("done") /\ conn' = "refused"
  /\ UNCHANGED <<pageVars, userVars, up, down, early, reader, canWrite, asked, tmuxVars>>

Accept ==
  /\ srv = "idle"
  /\ To("accepted") /\ conn' = "up"
  /\ UNCHANGED <<pageVars, userVars, up, down, early, reader, canWrite, asked, tmuxVars>>

\* The handler returns: the control client and the socket are closed, and the
\* read loop fails.
Return ==
  /\ To("done")
  /\ conn' = "over"
  /\ reader' = "ended"
  /\ out' = <<>>
  /\ UNCHANGED <<canWrite, asked, early, up>>

\* tmux cannot be started.
AttachFails ==
  /\ srv = "accepted"
  /\ IF conn = "up" THEN Deliver(<<"error", 0>>) ELSE UNCHANGED down
  /\ Return
  /\ UNCHANGED <<pageVars, userVars, grid, produced, dropped, unsent, entered, alive>>

\* The control client is started and sized before anything renders, and the
\* page is told the size it got.  Nobody waits for tmux to attach the client.
Attach ==
  /\ srv = "accepted" /\ conn = "up"
  /\ grid' = TermSize(asked)
  /\ Deliver(<<"hello", grid'>>)
  /\ To("greeted")
  /\ UNCHANGED <<pageVars, userVars, conn, up, early, reader, canWrite, asked>>
  /\ UNCHANGED <<out, produced, dropped, unsent, entered, alive>>

\* The screen as tmux has it now, or nothing if it cannot be captured.
Snapshot ==
  /\ srv = "greeted" /\ conn = "up"
  /\ \/ alive /\ Deliver(<<"snapshot", produced>>)
     \/ UNCHANGED down
  /\ To("captured")
  /\ UNCHANGED <<pageVars, userVars, conn, up, early, reader, canWrite, asked, tmuxVars>>

\* Mutant: what the client holds is thrown away, as if the snapshot showed it.
StartReadingAfresh ==
  /\ srv = "captured"
  /\ To("stream") /\ reader' = "on"
  /\ out' = <<>>
  /\ UNCHANGED <<pageVars, userVars, netVars, canWrite, asked>>
  /\ UNCHANGED <<grid, produced, dropped, unsent, entered, alive>>
\* Only now is anything the page sends read.
StartReading ==
  /\ srv = "captured"
  /\ To("stream") /\ reader' = "on"
  /\ UNCHANGED <<pageVars, userVars, netVars, canWrite, asked, tmuxVars>>

Forward ==
  /\ srv = "stream" /\ conn = "up" /\ out # <<>>
  /\ Deliver(<<"chunk", Head(out)>>)
  /\ out' = Tail(out)
  /\ UNCHANGED <<pageVars, userVars, conn, up, early, handlerVars>>
  /\ UNCHANGED <<grid, produced, dropped, unsent, entered, alive>>

\* The output channel is closed behind the last chunk.
Exit ==
  /\ srv = "stream" /\ out = <<>> /\ OutClosed
  /\ IF conn = "up" THEN Deliver(<<"exit", 0>>) ELSE UNCHANGED down
  /\ Return
  /\ UNCHANGED <<pageVars, userVars, grid, produced, dropped, unsent, entered, alive>>

\* A write fails.
WriteFails ==
  /\ srv \in {"accepted", "greeted"} \/ (srv = "stream" /\ out # <<>>)
  /\ conn = "over"
  /\ Return
  /\ UNCHANGED <<pageVars, userVars, down, grid, produced, dropped, unsent, entered, alive>>

\* Mutant: the end of the read loop does not end the handler.
CancelledLate == srv = "stream" /\ reader = "ended" /\ out # <<>>
\* The read loop ended and took the context with it.
Cancelled == srv = "stream" /\ reader = "ended"

HandlerCancelled ==
  /\ Cancelled
  /\ Return
  /\ UNCHANGED <<pageVars, userVars, down, grid, produced, dropped, unsent, entered, alive>>

\* A terminal is cut after a day, whatever it is doing.
IdleTimeout ==
  /\ srv = "stream"
  /\ Return
  /\ UNCHANGED <<pageVars, userVars, down, grid, produced, dropped, unsent, entered, alive>>

-----------------------------------------------------------------------------
(* termReadLoop *)

Reads(tag) == reader = "on" /\ up # <<>> /\ Head(up)[1] = tag
InputSize == typed[Head(up)[2]]

\* Keystrokes go to the session unless the caller may not type, the paste is
\* too long for one tmux command or the session is gone; nobody is told.
ReadInput ==
  /\ Reads("input")
  /\ FrameLen(InputSize) <= ReadLimit
  /\ entered' = IF canWrite /\ InputSize <= MaxInput /\ alive
                THEN Append(entered, Head(up)[2]) ELSE entered
  /\ up' = Tail(up)
  /\ UNCHANGED <<pageVars, userVars, conn, down, early, handlerVars>>
  /\ UNCHANGED <<grid, out, produced, dropped, unsent, alive>>

\* A message over the library's limit ends the connection.
ReadTooLong ==
  /\ Reads("input")
  /\ FrameLen(InputSize) > ReadLimit
  /\ reader' = "ended"
  /\ conn' = "over"
  /\ UNCHANGED <<pageVars, userVars, up, down, early, srv, canWrite, asked, tmuxVars>>

\* A resize is applied for every caller, one who may not type included.
ReadResize ==
  /\ Reads("resize")
  /\ grid' = TermSize(Head(up)[2])
  /\ up' = Tail(up)
  /\ UNCHANGED <<pageVars, userVars, conn, down, early, handlerVars>>
  /\ UNCHANGED <<out, produced, dropped, unsent, entered, alive>>

\* The page's close, or the end of a broken connection.
ReadFails ==
  /\ reader = "on"
  /\ Reads("close") \/ (conn = "over" /\ up = <<>>)
  /\ reader' = "ended"
  /\ UNCHANGED <<pageVars, userVars, netVars, srv, canWrite, asked, tmuxVars>>

-----------------------------------------------------------------------------
(* The session, and the control client's read loop *)

\* Mutant: the queue is asked whether it holds too much already.
EmitOver(c) ==
  IF Len(out) <= OutQueue THEN out' = Append(out, c) /\ UNCHANGED dropped
                          ELSE dropped' = dropped \cup {c} /\ UNCHANGED out
\* Output the handler does not fetch in time is dropped.
Emit(c) ==
  IF Len(out) < OutQueue THEN out' = Append(out, c) /\ UNCHANGED dropped
                         ELSE dropped' = dropped \cup {c} /\ UNCHANGED out

\* tmux sends the client what the session puts out once it has attached it,
\* which is at any time after it was started, the capture being another client
\* that may be served first; and not while it has paused the pane for a client
\* that fell behind.
Output ==
  /\ alive /\ srv # "done" /\ MayOutput
  /\ produced' = produced + 1
  /\ \/ ~Attached /\ UNCHANGED <<out, dropped, unsent>>
     \/ Attached /\ Emit(produced') /\ UNCHANGED unsent
     \/ Attached /\ unsent' = unsent \cup {produced'} /\ UNCHANGED <<out, dropped>>
  /\ UNCHANGED <<pageVars, userVars, netVars, handlerVars, grid, entered, alive>>

SessionEnds ==
  /\ alive /\ alive' = FALSE
  /\ UNCHANGED <<pageVars, userVars, netVars, handlerVars>>
  /\ UNCHANGED <<grid, out, produced, dropped, unsent, entered>>

-----------------------------------------------------------------------------
PageEvent == OnOpen \/ OnBinary \/ OnHello \/ OnExitOrError \/ OnClose
PageTimer == OnObserve \/ FitFires
User      == Close \/ BoxMoves \/ \E n \in InputSizes : Type(n)
Handle    == \/ Accept \/ Refuse \/ Attach \/ AttachFails \/ Snapshot
             \/ StartReading \/ Forward \/ Exit \/ WriteFails \/ HandlerCancelled
ReadLoop  == ReadInput \/ ReadTooLong \/ ReadResize \/ ReadFails
Session   == Output \/ SessionEnds

Next == \/ PageEvent \/ PageTimer \/ User \/ Handle \/ IdleTimeout \/ ReadLoop
        \/ Breaks \/ Session

\* The browser dispatches events, the handler and its read loop run; users,
\* sessions and the network do as they like.
Fairness == WF_vars(PageEvent) /\ WF_vars(Handle) /\ WF_vars(ReadLoop)

Spec == Init /\ [][Next]_vars
FairSpec == Spec /\ Fairness

-----------------------------------------------------------------------------
(* Properties *)

Message == ({"hello", "resize"} \X Nat) \cup ({"snapshot"} \X (0..MaxChunks))
           \cup ({"chunk"} \X (1..MaxChunks)) \cup ({"input"} \X (1..MaxActs))
           \cup ({"exit", "error", "close"} \X {0})
ClosingLine == {"session ended", "error", "disconnected"} \X {0}

\* Every variable stays in its range; the control client never holds more than
\* its queue.
TypeOK ==
  /\ ws \in Page /\ conn \in {"opening", "refused", "up", "over"}
  /\ onData \in BOOLEAN /\ noted \in BOOLEAN /\ fitTimer \in BOOLEAN /\ closed \in BOOLEAN
  /\ early \in BOOLEAN /\ canWrite \in BOOLEAN /\ alive \in BOOLEAN
  /\ rows \in Nat /\ observed \in Nat /\ asked \in Nat /\ grid \in Nat /\ box \in Boxes
  /\ shown \in Seq(Message \cup ClosingLine)
  /\ up \in Seq(Message) /\ down \in Seq(Message)
  /\ typed \in Seq(InputSizes) /\ moves \in Nat /\ Acts <= MaxActs
  /\ srv \in Handler /\ reader \in {"off", "on", "ended"}
  /\ out \in Seq(1..MaxChunks) /\ Len(out) <= OutQueue
  /\ produced \in 0..MaxChunks /\ dropped \cup unsent \subseteq 1..MaxChunks
  /\ entered \in Seq(1..MaxActs)

\* A page is told once that its terminal is over, after all output, and once
\* it was told nothing is written any more: whichever of exit, error, the
\* close of the socket and the page's own close come together.
OneClosingLine ==
  \A i \in 1..Len(shown) : shown[i] \in ClosingLine => i = Len(shown)

\* After close no event touches the disposed terminal: not the refit that was
\* due, not a message in flight, not the close of the socket.
DisposedIsLeftAlone == [][closed => UNCHANGED <<rows, shown, onData, noted>>]_vars

\* What is shown goes on where what was shown before it ends, the snapshot or a
\* chunk.  What is missing in between was dropped by a full queue, or never sent
\* by tmux, which had not attached the client yet or had paused the pane; it is
\* nothing that was queued.  A chunk may show again what the snapshot shows, but
\* none comes again after a later one, nor the snapshot over what was streamed.
OutputContinues ==
  \A i \in 2..Len(shown) :
    /\ shown[i-1][1] = "chunk" => shown[i][1] # "snapshot"
    /\ shown[i][1] = "chunk" =>
         /\ shown[i-1][1] = "chunk" => shown[i-1][2] < shown[i][2]
         /\ (shown[i-1][2] + 1)..(shown[i][2] - 1) \subseteq dropped \cup unsent

\* The session gets what was typed in the order it was typed, nothing twice,
\* and everything typed before something it got but for pastes over the limit.
InputInOrder ==
  /\ \A i, j \in 1..Len(entered) : i < j => entered[i] < entered[j]
  /\ \A j \in 1..Len(entered) : \A k \in 1..(entered[j] - 1) :
       typed[k] > MaxInput \/ \E i \in 1..(j - 1) : entered[i] = k

\* The page and the session have the same grid once the page has read hello
\* and no resize is on its way, unless its last resize crossed hello or the
\* container holds fewer rows than the server accepts.
GridsAgree ==
  /\ ws = "open" /\ Greeted /\ conn = "up" /\ srv = "stream"
  /\ \A i \in 1..Len(up) : up[i][1] # "resize"
  /\ ~early /\ TermSize(rows) = rows
  => grid = rows

\* When the session ends, an open page is told that its terminal is over.
SessionEndIsShown ==
  ~alive ~> closed \/ (shown # <<>> /\ shown[Len(shown)] \in ClosingLine)

\* When a page leaves, or its terminal ends, the handler returns and takes
\* the control client with it.
LeavingFreesClient == ws = "null" ~> srv = "done"
=============================================================================
