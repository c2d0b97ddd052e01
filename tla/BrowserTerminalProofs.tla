------------------------ MODULE BrowserTerminalProofs ------------------------
(***************************************************************************)
(* The invariants the Browser run checks and its action property, for any  *)
(* sizes of the container, of inputs and of the queues, and any limits.    *)
(*                                                                         *)
(* Output: what was shown, what is in flight and what the control client   *)
(* holds are one stream of chunks, as long as nothing cut it (Live); its   *)
(* numbers grow, and a number missing from it was dropped or not sent.     *)
(* Input: the numbers entered and in flight grow, and one missing from     *)
(* both that should be there was lost with a connection that is over.      *)
(* Grids: the last resize in flight, or the client's grid when there is    *)
(* none, is the page's.                                                    *)
(***************************************************************************)
EXTENDS BrowserTerminal, TLAPS

-----------------------------------------------------------------------------
(* The page *)

\* A page that called close has let go of its socket and its timer; keystrokes
\* are wired to an open socket only; a closing line is the last line and goes
\* with the socket, which is not read any more.
PageShut ==
  /\ closed => ws = "null" /\ ~fitTimer
  /\ onData => ws = "open"
  /\ ws = "null" => down = <<>>
  /\ ws # "null" => \A i \in 1..Len(shown) : shown[i] \notin ClosingLine

-----------------------------------------------------------------------------
(* Output *)

\* What still gets through to the page.
Live == srv # "done" /\ conn = "up" /\ ws # "null"

IsChunk(s, i) == i \in 1..Len(s) /\ s[i][1] = "chunk"
IsData(s, i)  == i \in 1..Len(s) /\ s[i][1] \in {"snapshot", "chunk"}

Has(s, k) == \E i \in 1..Len(s) : s[i][1] = "chunk" /\ s[i][2] = k
Holds(k)  == \E i \in 1..Len(out) : out[i] = k

\* Where output can be, by where the handler is.
OutputPlaced ==
  /\ \A i \in 1..Len(shown) : IsData(shown, i) \/ shown[i] \in ClosingLine
  /\ srv \in {"idle", "accepted"} => out = <<>>
  /\ srv \in {"idle", "accepted", "greeted"} =>
       /\ \A i \in 1..Len(down) : ~IsData(down, i)
       /\ \A i \in 1..Len(shown) : ~IsData(shown, i)
  /\ conn = "opening" <=> srv = "idle"
  /\ srv = "idle" => reader = "off"

\* The numbers of the chunks grow from what was shown over what is in flight to
\* what the client holds; the snapshot comes before every chunk.
OutputGrows ==
  /\ \A i, j : IsChunk(shown, i) /\ IsChunk(shown, j) /\ i < j => shown[i][2] < shown[j][2]
  /\ \A i, j : IsChunk(down, i) /\ IsChunk(down, j) /\ i < j => down[i][2] < down[j][2]
  /\ \A i, j : IsChunk(shown, i) /\ IsChunk(down, j) => shown[i][2] < down[j][2]
  /\ \A i, j : IsChunk(shown, i) /\ IsData(shown, j) /\ shown[j][1] = "snapshot" => j < i
  /\ \A i, j : IsChunk(down, i) /\ IsData(down, j) /\ down[j][1] = "snapshot" => j < i
  /\ \A i, j : IsChunk(shown, i) /\ IsData(down, j) => down[j][1] # "snapshot"
  /\ \A i : IsChunk(shown, i) => shown[i][2] <= produced
  /\ \A i : IsChunk(down, i) => down[i][2] <= produced
  /\ Live => /\ \A i, j \in 1..Len(out) : i < j => out[i] < out[j]
             /\ \A i \in 1..Len(out) : out[i] <= produced
             /\ \A i : \A j \in 1..Len(out) : IsChunk(shown, i) => shown[i][2] < out[j]
             /\ \A i : \A j \in 1..Len(out) : IsChunk(down, i) => down[i][2] < out[j]

\* Seen(x): the page was sent the output up to x and then on from there.
Seen(x) == \/ \E i : IsData(shown, i) /\ shown[i][2] = x
           \/ \E i : IsData(down, i) /\ down[i][2] = x
Kept(k) == k \in dropped \cup unsent \/ Has(shown, k) \/ Has(down, k)

\* A chunk that is missing between two others was dropped, or never sent to the
\* client; while the stream is live so was one that is missing at its end.
OutputWhole ==
  /\ \A x, y, k \in Nat : Seen(x) /\ (Has(shown, y) \/ Has(down, y)) /\ x < k /\ k < y => Kept(k)
  /\ Live => /\ \A x, k \in Nat : Seen(x) /\ x < k /\ k <= produced => Kept(k) \/ Holds(k)
             /\ \A x, k \in Nat : Holds(x) /\ x < k /\ k <= produced => k \in dropped \cup unsent \/ Holds(k)

-----------------------------------------------------------------------------
(* Input *)

IsInput(i) == i \in 1..Len(up) /\ up[i][1] = "input"
Sent(k)    == \E i : IsInput(i) /\ up[i][2] = k
Got(k)     == \E i \in 1..Len(entered) : entered[i] = k

\* The numbers of the inputs grow from what was entered to what is in flight,
\* and none is ahead of what was typed.
InputGrows ==
  /\ \A i, j \in 1..Len(entered) : i < j => entered[i] < entered[j]
  /\ \A i, j : IsInput(i) /\ IsInput(j) /\ i < j => up[i][2] < up[j][2]
  /\ \A i : \A j \in 1..Len(entered) : IsInput(i) => entered[j] < up[i][2]
  /\ \A i : IsInput(i) => up[i][2] <= Len(typed)
  /\ \A j \in 1..Len(entered) : entered[j] <= Len(typed)

\* What the session should have got and did not is in flight, or was lost by a
\* connection that was over before anything else was sent.
InputWhole ==
  /\ \A j \in 1..Len(entered) : \A k \in 1..(entered[j] - 1) : typed[k] > MaxInput \/ Got(k)
  /\ canWrite /\ alive => \A k \in 1..Len(typed) :
       \/ typed[k] > MaxInput \/ Got(k) \/ Sent(k)
       \/ conn = "over" /\ \A m \in Nat : Got(m) \/ Sent(m) => m < k
  /\ ws = "open" => conn \in {"up", "over"}

-----------------------------------------------------------------------------
(* Grids *)

IsResize(i) == i \in 1..Len(up) /\ up[i][1] = "resize"
IsHello(i)  == i \in 1..Len(down) /\ down[i][1] = "hello"

\* The one hello is the handler's first message; a page that read it knows the
\* client's grid, or the client is about to get the page's.
Grids ==
  /\ ws = "connecting" => ~Greeted
  /\ srv \in {"idle", "accepted"} => ~Greeted /\ \A i : ~IsHello(i)
  /\ \A i : IsHello(i) => ~Greeted
  /\ \A i, j : IsHello(i) /\ IsHello(j) => i = j
  /\ ws # "null" /\ ~Greeted /\ ~early =>
                           /\ \A i : ~IsResize(i)
                           /\ \A i : IsHello(i) => down[i][2] = grid
  /\ ws = "open" /\ Greeted /\ conn = "up" /\ ~early /\ TermSize(rows) = rows =>
       /\ \A i : IsResize(i) /\ (\A j : IsResize(j) => j <= i) => up[i][2] = rows
       /\ (\A i : ~IsResize(i)) => grid = rows

IInv ==
  /\ TypeOK
  /\ PageShut /\ OneClosingLine
  /\ OutputPlaced /\ OutputGrows /\ OutputWhole
  /\ InputGrows /\ InputWhole
  /\ Grids

-----------------------------------------------------------------------------
(* Lemmas *)

\* The messages there are, and what is in one.
LEMMA Messages ==
  /\ \A n \in Nat : <<"hello", n>> \in Message /\ <<"resize", n>> \in Message
  /\ \A n \in 0..MaxChunks : <<"snapshot", n>> \in Message
  /\ \A n \in 1..MaxChunks : <<"chunk", n>> \in Message
  /\ \A n \in 1..MaxActs : <<"input", n>> \in Message
  /\ <<"exit", 0>> \in Message /\ <<"error", 0>> \in Message /\ <<"close", 0>> \in Message
  /\ \A line \in {"session ended", "error", "disconnected"} : <<line, 0>> \in ClosingLine
BY DEF Message, ClosingLine

\* What the second field of a message is, and that no output is a closing line.
LEMMA MessageParts ==
  ASSUME NEW m \in Message
  PROVE  /\ m[2] \in Nat
         /\ m[1] = "snapshot" => m[2] \in 0..MaxChunks
         /\ m[1] = "chunk" => m[2] \in 1..MaxChunks
         /\ m[1] = "input" => m[2] \in 1..MaxActs
         /\ m[1] \in {"snapshot", "chunk", "hello"} => m \notin ClosingLine
<1>6. m \in ClosingLine => m[1] \in {"session ended", "error", "disconnected"}
  BY DEF ClosingLine
<1>1. CASE m \in {"hello", "resize"} \X Nat
  <2>1. m[1] \in {"hello", "resize"} /\ m[2] \in Nat
    BY <1>1
  <2>2. /\ m[2] \in Nat
        /\ m[1] = "snapshot" => m[2] \in 0..MaxChunks
        /\ m[1] = "chunk" => m[2] \in 1..MaxChunks
        /\ m[1] = "input" => m[2] \in 1..MaxActs
    BY <2>1, BrowserAssumption
  <2> QED BY <1>6, <2>1, <2>2
<1>2. CASE m \in {"snapshot"} \X (0..MaxChunks)
  <2>1. m[1] \in {"snapshot"} /\ m[2] \in 0..MaxChunks
    BY <1>2
  <2>2. /\ m[2] \in Nat
        /\ m[1] = "snapshot" => m[2] \in 0..MaxChunks
        /\ m[1] = "chunk" => m[2] \in 1..MaxChunks
        /\ m[1] = "input" => m[2] \in 1..MaxActs
    BY <2>1, BrowserAssumption
  <2> QED BY <1>6, <2>1, <2>2
<1>3. CASE m \in {"chunk"} \X (1..MaxChunks)
  <2>1. m[1] \in {"chunk"} /\ m[2] \in 1..MaxChunks
    BY <1>3
  <2>2. /\ m[2] \in Nat
        /\ m[1] = "snapshot" => m[2] \in 0..MaxChunks
        /\ m[1] = "chunk" => m[2] \in 1..MaxChunks
        /\ m[1] = "input" => m[2] \in 1..MaxActs
    BY <2>1, BrowserAssumption
  <2> QED BY <1>6, <2>1, <2>2
<1>4. CASE m \in {"input"} \X (1..MaxActs)
  <2>1. m[1] \in {"input"} /\ m[2] \in 1..MaxActs
    BY <1>4
  <2>2. /\ m[2] \in Nat
        /\ m[1] = "snapshot" => m[2] \in 0..MaxChunks
        /\ m[1] = "chunk" => m[2] \in 1..MaxChunks
        /\ m[1] = "input" => m[2] \in 1..MaxActs
    BY <2>1, BrowserAssumption
  <2> QED BY <1>6, <2>1, <2>2
<1>5. CASE m \in {"exit", "error", "close"} \X {0}
  <2>1. m[1] \in {"exit", "error", "close"} /\ m[2] \in {0}
    BY <1>5
  <2>2. /\ m[2] \in Nat
        /\ m[1] = "snapshot" => m[2] \in 0..MaxChunks
        /\ m[1] = "chunk" => m[2] \in 1..MaxChunks
        /\ m[1] = "input" => m[2] \in 1..MaxActs
    BY <2>1, BrowserAssumption
  <2> QED BY <1>6, <2>1, <2>2
<1> QED BY <1>1, <1>2, <1>3, <1>4, <1>5 DEF Message

\* Sequences of a set stay sequences of it when a member is appended.
LEMMA AppendTyped ==
  ASSUME NEW S, NEW s \in Seq(S), NEW e \in S
  PROVE  Append(s, e) \in Seq(S)
OBVIOUS

\* What is taken off a sequence of a set, and what remains.
LEMMA TailTyped ==
  ASSUME NEW S, NEW s \in Seq(S), s # <<>>
  PROVE  /\ Head(s) \in S /\ Tail(s) \in Seq(S)
         /\ Len(Tail(s)) = Len(s) - 1 /\ Len(s) \in Nat
OBVIOUS

\* What is where after an Append.
LEMMA AppendAt ==
  ASSUME NEW S, NEW s \in Seq(S), NEW e
  PROVE  /\ Len(s) \in Nat /\ Len(Append(s, e)) = Len(s) + 1
         /\ \A i \in 1..Len(s) : Append(s, e)[i] = s[i]
         /\ Append(s, e)[Len(s) + 1] = e
         /\ \A i \in 1..Len(Append(s, e)) : i \in 1..Len(s) \/ i = Len(s) + 1
<1>1. s \in Seq(S \cup {e}) /\ e \in S \cup {e}
  OBVIOUS
<1>2. Len(s) \in Nat /\ Len(Append(s, e)) = Len(s) + 1
  BY <1>1
<1>3. \A i \in 1..Len(Append(s, e)) : i \in 1..Len(s) \/ i = Len(s) + 1
  BY <1>2
<1> QED BY <1>1, <1>3

\* What is where after a Tail.
LEMMA TailAt ==
  ASSUME NEW S, NEW s \in Seq(S), s # <<>>
  PROVE  /\ Len(s) \in Nat \ {0} /\ Len(Tail(s)) = Len(s) - 1
         /\ Head(s) = s[1]
         /\ \A i \in 1..(Len(s) - 1) : Tail(s)[i] = s[i + 1]
OBVIOUS

\* What the page takes off the connection is a message.
LEMMA ReceivedTyped ==
  ASSUME TypeOK, down # <<>>
  PROVE  Head(down) \in Message /\ Tail(down) \in Seq(Message)
BY DEF TypeOK

\* shutdown leaves the page and both directions of the connection in range.
LEMMA ShutdownTyped ==
  ASSUME TypeOK, Shutdown
  PROVE  ws' \in Page /\ onData' \in BOOLEAN /\ up' \in Seq(Message) /\ down' \in Seq(Message)
<1>1. up' = up \/ up' = Append(up, <<"close", 0>>)
  BY DEF Shutdown
<1>2. <<"close", 0>> \in Message /\ up \in Seq(Message)
  BY Messages DEF TypeOK
<1>3. up' \in Seq(Message)
  BY <1>1, <1>2, AppendTyped
<1>4. ws' \in Page /\ onData' \in BOOLEAN /\ down' = <<>>
  BY DEF Shutdown, Page
<1> QED BY <1>3, <1>4

\* A closing line may be written after anything shown.
LEMMA DimTyped ==
  ASSUME TypeOK, NEW line \in {"session ended", "error", "disconnected"}, Dim(line)
  PROVE  shown' \in Seq(Message \cup ClosingLine)
<1>1. <<line, 0>> \in ClosingLine
  BY Messages
<1>2. <<line, 0>> \in Message \cup ClosingLine /\ shown \in Seq(Message \cup ClosingLine)
  BY <1>1 DEF TypeOK
<1> QED BY <1>2, AppendTyped DEF Dim

\* The handler only delivers messages.
LEMMA DeliverTyped ==
  ASSUME TypeOK, NEW m \in Message, Deliver(m)
  PROVE  down' \in Seq(Message)
BY DEF TypeOK, Deliver

\* The page only sends messages.
LEMMA SendTyped ==
  ASSUME TypeOK, NEW m \in Message, Send(m)
  PROVE  up' \in Seq(Message)
BY DEF TypeOK, Send

\* Every grid the page or the server computes is a number of rows.
LEMMA Sizes ==
  ASSUME TypeOK
  PROVE  Room \in Nat /\ SafeFit(rows) \in Nat /\ \A r \in Nat : TermSize(r) \in Nat
<1>1. box \in Nat
  BY BrowserAssumption DEF TypeOK
<1> QED BY <1>1 DEF Room, SafeFit, TermSize, TypeOK

\* Every step keeps every variable in its range.
LEMMA TypeOKStep ==
  ASSUME TypeOK, [Next]_vars
  PROVE  TypeOK'
<1> USE DEF pageVars, userVars, netVars, handlerVars, tmuxVars
<1>1. CASE OnOpen
  BY <1>1, SMT DEF TypeOK, Page, Handler, Acts, OnOpen
<1>2. CASE OnBinary
  BY <1>2, SMT DEF TypeOK, Page, Handler, Acts, OnBinary, Receive
<1>3. CASE OnHello
  <2>1. Head(down) \in Message /\ Tail(down) \in Seq(Message)
    BY <1>3, ReceivedTyped DEF OnHello, Receive
  <2>2. Head(down)[2] \in Nat
    BY <2>1, MessageParts
  <2>3. onData' \in BOOLEAN /\ noted' \in BOOLEAN
    BY <1>3 DEF OnHello, TypeOK
  <2>4. /\ rows' = Head(down)[2] /\ down' = Tail(down)
        /\ UNCHANGED <<ws, observed, fitTimer, closed, shown>>
        /\ UNCHANGED <<userVars, conn, up, early, handlerVars, tmuxVars>>
    BY <1>3 DEF OnHello
  <2> QED BY <2>1, <2>2, <2>3, <2>4, SMT DEF TypeOK, Acts
<1>4. CASE OnExitOrError
  <2>1. ws' \in Page /\ onData' \in BOOLEAN /\ up' \in Seq(Message) /\ down' \in Seq(Message)
    BY <1>4, ShutdownTyped DEF OnExitOrError
  <2>2. shown' \in Seq(Message \cup ClosingLine)
    BY <1>4, DimTyped DEF OnExitOrError
  <2>3. /\ UNCHANGED <<noted, rows, observed, fitTimer, closed>>
        /\ UNCHANGED <<userVars, conn, early, handlerVars, tmuxVars>>
    BY <1>4 DEF OnExitOrError
  <2> QED BY <2>1, <2>2, <2>3, SMT DEF TypeOK, Acts
<1>5. CASE OnClose
  <2>1. ws' \in Page /\ onData' \in BOOLEAN /\ up' \in Seq(Message) /\ down' \in Seq(Message)
    BY <1>5, ShutdownTyped DEF OnClose
  <2>2. shown' \in Seq(Message \cup ClosingLine)
    BY <1>5, DimTyped DEF OnClose
  <2>3. /\ UNCHANGED <<noted, rows, observed, fitTimer, closed>>
        /\ UNCHANGED <<userVars, conn, early, handlerVars, tmuxVars>>
    BY <1>5 DEF OnClose
  <2> QED BY <2>1, <2>2, <2>3, SMT DEF TypeOK, Acts
<1>6. CASE OnObserve
  <2>1. observed' \in Nat /\ fitTimer' \in BOOLEAN
    BY <1>6, Sizes DEF OnObserve
  <2>2. /\ UNCHANGED <<ws, onData, noted, rows, closed, shown>>
        /\ UNCHANGED <<userVars, netVars, handlerVars, tmuxVars>>
    BY <1>6 DEF OnObserve
  <2> QED BY <2>1, <2>2, SMT DEF TypeOK, Acts
<1>7. CASE FitFires
  <2>1. rows' \in Nat
    BY <1>7, Sizes DEF FitFires
  <2>2. up' \in Seq(Message)
    BY <1>7, <2>1, SendTyped, Messages DEF FitFires, TypeOK
  <2>3. early' \in BOOLEAN
    BY <1>7 DEF FitFires, TypeOK, Greeted
  <2>4. /\ UNCHANGED <<ws, onData, noted, observed, closed, shown>> /\ fitTimer' \in BOOLEAN
        /\ UNCHANGED <<userVars, conn, down, handlerVars, tmuxVars>>
    BY <1>7 DEF FitFires
  <2> QED BY <2>1, <2>2, <2>3, <2>4, SMT DEF TypeOK, Acts
<1>8. CASE Close
  <2>1. ws' \in Page /\ onData' \in BOOLEAN /\ up' \in Seq(Message) /\ down' \in Seq(Message)
    BY <1>8, ShutdownTyped DEF Close
  <2>2. /\ closed' \in BOOLEAN /\ fitTimer' \in BOOLEAN
        /\ UNCHANGED <<noted, rows, observed, shown>>
        /\ UNCHANGED <<userVars, conn, early, handlerVars, tmuxVars>>
    BY <1>8 DEF Close
  <2> QED BY <2>1, <2>2, SMT DEF TypeOK, Acts
<1>9. ASSUME NEW n \in InputSizes, Type(n) PROVE TypeOK'
  <2>1. typed' = Append(typed, n) /\ Acts + produced < MaxActs /\ Send(<<"input", Len(typed')>>)
    BY <1>9 DEF Type, MayAct
  <2>2. typed' \in Seq(InputSizes) /\ Len(typed') = Len(typed) + 1
    BY <2>1 DEF TypeOK
  <2>3. Len(typed') \in 1..MaxActs /\ Len(typed') + moves <= MaxActs
    BY <2>1, <2>2, BrowserAssumption DEF TypeOK, Acts
  <2>4. up' \in Seq(Message)
    BY <2>1, <2>3, SendTyped, Messages
  <2>5. UNCHANGED <<pageVars, box, moves, conn, down, early, handlerVars, tmuxVars>>
    BY <1>9 DEF Type
  <2> QED BY <2>2, <2>3, <2>4, <2>5, SMT DEF TypeOK, Acts
<1>10. CASE BoxMoves
  <2>1. moves' = moves + 1 /\ Acts + produced < MaxActs /\ box' \in Boxes
    BY <1>10 DEF BoxMoves, MayAct
  <2>2. moves' \in Nat /\ Len(typed) + moves' <= MaxActs
    BY <2>1, BrowserAssumption DEF TypeOK, Acts
  <2>3. UNCHANGED <<pageVars, typed, netVars, handlerVars, tmuxVars>>
    BY <1>10 DEF BoxMoves
  <2> QED BY <2>1, <2>2, <2>3, SMT DEF TypeOK, Acts
<1>11. CASE Accept
  BY <1>11, SMT DEF TypeOK, Page, Handler, Acts, Accept, To
<1>12. CASE Refuse
  BY <1>12, SMT DEF TypeOK, Page, Handler, Acts, Refuse, To
<1>13. CASE Attach
  <2>1. grid' \in Nat
    BY <1>13, Sizes DEF Attach, TypeOK
  <2>2. down' \in Seq(Message)
    BY <1>13, <2>1, DeliverTyped, Messages DEF Attach
  <2>3. /\ srv' \in Handler
        /\ UNCHANGED <<pageVars, userVars, conn, up, early, reader, canWrite, asked>>
        /\ UNCHANGED <<out, produced, dropped, unsent, entered, alive>>
    BY <1>13 DEF Attach, To, Handler
  <2> QED BY <2>1, <2>2, <2>3, SMT DEF TypeOK, Acts
<1>14. CASE AttachFails
  <2>1. down' \in Seq(Message)
    BY <1>14, DeliverTyped, Messages DEF AttachFails, TypeOK
  <2>2. /\ srv' \in Handler /\ conn' = "over" /\ reader' = "ended" /\ out' = <<>>
        /\ UNCHANGED <<canWrite, asked, early, up>>
        /\ UNCHANGED <<pageVars, userVars, grid, produced, dropped, unsent, entered, alive>>
    BY <1>14 DEF AttachFails, Return, To, Handler
  <2>3. out' \in Seq(1..MaxChunks) /\ Len(out') <= OutQueue
    BY <2>2, BrowserAssumption
  <2> QED BY <2>1, <2>2, <2>3, SMT DEF TypeOK, Acts
<1>15. CASE Snapshot
  <2>1. <<"snapshot", produced>> \in Message
    BY Messages DEF TypeOK
  <2>2. down' \in Seq(Message)
    BY <1>15, <2>1, DeliverTyped DEF Snapshot, TypeOK
  <2>3. /\ srv' \in Handler
        /\ UNCHANGED <<pageVars, userVars, conn, up, early, reader, canWrite, asked, tmuxVars>>
    BY <1>15 DEF Snapshot, To, Handler
  <2> QED BY <2>2, <2>3, SMT DEF TypeOK, Acts
<1>16. CASE StartReading
  BY <1>16, SMT DEF TypeOK, Page, Handler, Acts, StartReading, To
<1>17. CASE Forward
  <2>0. out # <<>> /\ out' = Tail(out) /\ Deliver(<<"chunk", Head(out)>>)
    BY <1>17 DEF Forward
  <2>1. Head(out) \in 1..MaxChunks /\ out' \in Seq(1..MaxChunks) /\ Len(out') <= OutQueue
    <3>1. out \in Seq(1..MaxChunks) /\ Len(out) <= OutQueue /\ OutQueue \in Nat
      BY BrowserAssumption DEF TypeOK
    <3>2. out # <<>>
      BY <2>0
    <3>3. /\ Head(out) \in 1..MaxChunks /\ Tail(out) \in Seq(1..MaxChunks)
          /\ Len(Tail(out)) = Len(out) - 1 /\ Len(out) \in Nat
      BY <3>1, <3>2, TailTyped
    <3>4. Len(Tail(out)) <= OutQueue
      BY <3>1, <3>3
    <3> QED BY <2>0, <3>3, <3>4
  <2>2. down' \in Seq(Message)
    BY <2>0, <2>1, DeliverTyped, Messages
  <2>3. /\ UNCHANGED <<pageVars, userVars, conn, up, early, handlerVars>>
        /\ UNCHANGED <<grid, produced, dropped, unsent, entered, alive>>
    BY <1>17 DEF Forward
  <2> QED BY <2>1, <2>2, <2>3, SMT DEF TypeOK, Acts
<1>18. CASE Exit
  <2>1. down' \in Seq(Message)
    BY <1>18, DeliverTyped, Messages DEF Exit, TypeOK
  <2>2. /\ srv' \in Handler /\ conn' = "over" /\ reader' = "ended" /\ out' = <<>>
        /\ UNCHANGED <<canWrite, asked, early, up>>
        /\ UNCHANGED <<pageVars, userVars, grid, produced, dropped, unsent, entered, alive>>
    BY <1>18 DEF Exit, Return, To, Handler
  <2>3. out' \in Seq(1..MaxChunks) /\ Len(out') <= OutQueue
    BY <2>2, BrowserAssumption
  <2> QED BY <2>1, <2>2, <2>3, SMT DEF TypeOK, Acts
<1>19. CASE WriteFails
  <2>1. down' \in Seq(Message)
    BY <1>19 DEF WriteFails, TypeOK
  <2>2. /\ srv' \in Handler /\ conn' = "over" /\ reader' = "ended" /\ out' = <<>>
        /\ UNCHANGED <<canWrite, asked, early, up>>
        /\ UNCHANGED <<pageVars, userVars, grid, produced, dropped, unsent, entered, alive>>
    BY <1>19 DEF WriteFails, Return, To, Handler
  <2>3. out' \in Seq(1..MaxChunks) /\ Len(out') <= OutQueue
    BY <2>2, BrowserAssumption
  <2> QED BY <2>1, <2>2, <2>3, SMT DEF TypeOK, Acts
<1>20. CASE HandlerCancelled
  <2>1. down' \in Seq(Message)
    BY <1>20 DEF HandlerCancelled, TypeOK
  <2>2. /\ srv' \in Handler /\ conn' = "over" /\ reader' = "ended" /\ out' = <<>>
        /\ UNCHANGED <<canWrite, asked, early, up>>
        /\ UNCHANGED <<pageVars, userVars, grid, produced, dropped, unsent, entered, alive>>
    BY <1>20 DEF HandlerCancelled, Return, To, Handler
  <2>3. out' \in Seq(1..MaxChunks) /\ Len(out') <= OutQueue
    BY <2>2, BrowserAssumption
  <2> QED BY <2>1, <2>2, <2>3, SMT DEF TypeOK, Acts
<1>21. CASE IdleTimeout
  <2>1. down' \in Seq(Message)
    BY <1>21 DEF IdleTimeout, TypeOK
  <2>2. /\ srv' \in Handler /\ conn' = "over" /\ reader' = "ended" /\ out' = <<>>
        /\ UNCHANGED <<canWrite, asked, early, up>>
        /\ UNCHANGED <<pageVars, userVars, grid, produced, dropped, unsent, entered, alive>>
    BY <1>21 DEF IdleTimeout, Return, To, Handler
  <2>3. out' \in Seq(1..MaxChunks) /\ Len(out') <= OutQueue
    BY <2>2, BrowserAssumption
  <2> QED BY <2>1, <2>2, <2>3, SMT DEF TypeOK, Acts
<1>22. CASE ReadInput
  <2>1. Head(up) \in Message /\ Head(up)[1] = "input" /\ up' \in Seq(Message)
    BY <1>22 DEF ReadInput, Reads, TypeOK
  <2>2. Head(up)[2] \in 1..MaxActs
    BY <2>1, MessageParts
  <2>3. entered' \in Seq(1..MaxActs)
    <3>1. entered' = entered \/ entered' = Append(entered, Head(up)[2])
      BY <1>22 DEF ReadInput
    <3> QED BY <2>2, <3>1, AppendTyped DEF TypeOK
  <2>4. /\ UNCHANGED <<pageVars, userVars, conn, down, early, handlerVars>>
        /\ UNCHANGED <<grid, out, produced, dropped, unsent, alive>>
    BY <1>22 DEF ReadInput
  <2> QED BY <2>1, <2>3, <2>4, SMT DEF TypeOK, Acts
<1>23. CASE ReadTooLong
  BY <1>23, SMT DEF TypeOK, Page, Handler, Acts, ReadTooLong, Reads
<1>24. CASE ReadResize
  <2>1. Head(up) \in Message /\ up' \in Seq(Message)
    BY <1>24 DEF ReadResize, Reads, TypeOK
  <2>2. grid' \in Nat
    BY <1>24, <2>1, MessageParts, Sizes DEF ReadResize
  <2>3. /\ UNCHANGED <<pageVars, userVars, conn, down, early, handlerVars>>
        /\ UNCHANGED <<out, produced, dropped, unsent, entered, alive>>
    BY <1>24 DEF ReadResize
  <2> QED BY <2>1, <2>2, <2>3, SMT DEF TypeOK, Acts
<1>25. CASE ReadFails
  BY <1>25, SMT DEF TypeOK, Page, Handler, Acts, ReadFails, Reads
<1>26. CASE Breaks
  BY <1>26, SMT DEF TypeOK, Page, Handler, Acts, Breaks
<1>27. CASE Output
  <2>1. produced' \in 1..MaxChunks
    BY <1>27, BrowserAssumption DEF Output, MayOutput, TypeOK
  <2>2. /\ out' \in Seq(1..MaxChunks) /\ Len(out') <= OutQueue
        /\ dropped' \cup unsent' \subseteq 1..MaxChunks
    <3>1. /\ out' = out \/ (Len(out) < OutQueue /\ out' = Append(out, produced'))
          /\ dropped' = dropped \/ dropped' = dropped \cup {produced'}
          /\ unsent' = unsent \/ unsent' = unsent \cup {produced'}
      BY <1>27, Zenon DEF Output, Emit
    <3>2. Append(out, produced') \in Seq(1..MaxChunks) /\ Len(Append(out, produced')) = Len(out) + 1
      BY <2>1, AppendTyped DEF TypeOK
    <3>3. Len(out) < OutQueue => Len(out) + 1 <= OutQueue
      BY BrowserAssumption DEF TypeOK
    <3>4. out' \in Seq(1..MaxChunks) /\ Len(out') <= OutQueue
      BY <3>1, <3>2, <3>3, Zenon DEF TypeOK
    <3>5. dropped' \cup unsent' \subseteq 1..MaxChunks
      BY <2>1, <3>1 DEF TypeOK
    <3> QED BY <3>4, <3>5
  <2>3. UNCHANGED <<pageVars, userVars, netVars, handlerVars, grid, entered, alive>>
    BY <1>27 DEF Output
  <2> QED BY <2>1, <2>2, <2>3, SMT DEF TypeOK, Acts
<1>28. CASE SessionEnds
  <2>1. /\ alive' \in BOOLEAN
        /\ UNCHANGED <<pageVars, userVars, netVars, handlerVars>>
        /\ UNCHANGED <<grid, out, produced, dropped, unsent, entered>>
    BY <1>28 DEF SessionEnds
  <2> QED BY <2>1, SMT DEF TypeOK, Acts
<1>29. CASE UNCHANGED vars
  BY <1>29 DEF TypeOK, vars, Acts
<1> QED
  BY <1>1, <1>2, <1>3, <1>4, <1>5, <1>6, <1>7, <1>8, <1>9, <1>10, <1>11, <1>12, <1>13, <1>14,
      <1>15, <1>16, <1>17, <1>18, <1>19, <1>20, <1>21, <1>22, <1>23, <1>24, <1>25, <1>26,
          <1>27, <1>28, <1>29
  DEF Next, PageEvent, PageTimer, User, Handle, ReadLoop, Session

\* Every step keeps PageShut: only shutdown lets go of the socket, and it takes
\* the handlers along; close also stops the timer.
LEMMA PageShutStep ==
  ASSUME TypeOK, PageShut, [Next]_vars
  PROVE  PageShut'
<1> USE DEF pageVars, userVars, netVars, handlerVars, tmuxVars
<1>1. CASE UNCHANGED <<ws, onData, fitTimer, closed, shown, down>>
  BY <1>1 DEF PageShut
<1>2. CASE OnOpen
  BY <1>2, SMT DEF PageShut, TypeOK, OnOpen
<1>3. CASE OnBinary
  <2>1. Head(down) \in Message /\ Head(down)[1] \in {"snapshot", "chunk"}
    BY <1>3, ReceivedTyped DEF OnBinary, Receive
  <2>2. Head(down) \notin ClosingLine
    BY <2>1, MessageParts
  <2>3. ws = "open" /\ shown' = Append(shown, Head(down))
        /\ UNCHANGED <<ws, onData, fitTimer, closed>>
    BY <1>3 DEF OnBinary, Receive
  <2>4. \A i \in 1..Len(shown') : shown'[i] \notin ClosingLine
    <3>1. shown \in Seq(Message \cup ClosingLine)
      BY DEF TypeOK
    <3>2. \A i \in 1..Len(shown) : shown[i] \notin ClosingLine
      BY <2>3 DEF PageShut
    <3> QED BY <2>2, <2>3, <3>1, <3>2, AppendAt
  <2> QED BY <2>3, <2>4 DEF PageShut
<1>4. CASE OnHello
  BY <1>4, SMT DEF PageShut, TypeOK, OnHello, Receive
<1>5. CASE OnExitOrError
  BY <1>5 DEF PageShut, OnExitOrError, Shutdown
<1>6. CASE OnClose
  BY <1>6 DEF PageShut, OnClose, Shutdown
<1>7. CASE OnObserve
  BY <1>7, SMT DEF PageShut, TypeOK, OnObserve, Room
<1>8. CASE FitFires
  BY <1>8, SMT DEF PageShut, TypeOK, FitFires, Send
<1>9. CASE Close
  BY <1>9 DEF PageShut, Close, Shutdown
<1>10. CASE Attach
  BY <1>10, SMT DEF PageShut, TypeOK, Attach, To, Deliver
<1>11. CASE AttachFails
  BY <1>11, SMT DEF PageShut, TypeOK, AttachFails, Return, To, Deliver
<1>12. CASE Snapshot
  BY <1>12, SMT DEF PageShut, TypeOK, Snapshot, To, Deliver
<1>13. CASE Forward
  BY <1>13, SMT DEF PageShut, TypeOK, Forward, Deliver
<1>14. CASE Exit
  BY <1>14, SMT DEF PageShut, TypeOK, Exit, Return, To, Deliver, OutClosed
<1>15. CASE Breaks
  BY <1>15, SMT DEF PageShut, TypeOK, Breaks
<1>16. CASE (\E n \in InputSizes : Type(n)) \/ BoxMoves \/ Accept \/ Refuse \/ StartReading
         \/ WriteFails \/ HandlerCancelled \/ IdleTimeout \/ ReadInput \/ ReadTooLong \/
         ReadResize \/ ReadFails \/ Output \/ SessionEnds
  BY <1>16, <1>1 DEF Type, BoxMoves, Accept, Refuse, StartReading, WriteFails,
      HandlerCancelled, IdleTimeout, ReadInput, ReadTooLong, ReadResize, ReadFails, Output,
          SessionEnds
<1>17. CASE UNCHANGED vars
  BY <1>17, <1>1 DEF vars
<1> QED
  BY <1>1, <1>2, <1>3, <1>4, <1>5, <1>6, <1>7, <1>8, <1>9, <1>10, <1>11, <1>12, <1>13, <1>14,
      <1>15, <1>16, <1>17
  DEF Next, PageEvent, PageTimer, User, Handle, ReadLoop, Session

-----------------------------------------------------------------------------
(* Output *)

\* There is no output in an empty queue.
LEMMA EmptyData == \A i : ~IsData(<<>>, i)
<1>1. Len(<<>>) = 0
  OBVIOUS
<1> QED BY <1>1 DEF IsData

\* The output in a queue after something was appended.
LEMMA AppendData ==
  ASSUME NEW S, NEW s \in Seq(S), NEW e
  PROVE  /\ \A i : IsData(Append(s, e), i) <=>
                     IsData(s, i) \/ (i = Len(s) + 1 /\ e[1] \in {"snapshot", "chunk"})
         /\ \A i : IsData(s, i) => i \in 1..Len(s) /\ Append(s, e)[i] = s[i]
<1>1. /\ Len(s) \in Nat /\ Len(Append(s, e)) = Len(s) + 1
      /\ \A i \in 1..Len(s) : Append(s, e)[i] = s[i]
      /\ Append(s, e)[Len(s) + 1] = e
  BY AppendAt
<1>2. \A i : i \in 1..Len(Append(s, e)) <=> i \in 1..Len(s) \/ i = Len(s) + 1
  BY <1>1
<1> QED BY <1>1, <1>2 DEF IsData

\* The output in a queue after its first message was taken.
LEMMA TailData ==
  ASSUME NEW S, NEW s \in Seq(S), s # <<>>
  PROVE  /\ \A i : IsData(Tail(s), i) <=> i \in Nat \ {0} /\ IsData(s, i + 1)
         /\ \A i : IsData(Tail(s), i) => Tail(s)[i] = s[i + 1]
<1>1. /\ Len(s) \in Nat \ {0} /\ Len(Tail(s)) = Len(s) - 1
      /\ \A i \in 1..(Len(s) - 1) : Tail(s)[i] = s[i + 1]
  BY TailAt
<1>2. \A i : i \in 1..Len(Tail(s)) <=> i \in Nat \ {0} /\ i + 1 \in 1..Len(s)
  BY <1>1
<1> QED BY <1>1, <1>2 DEF IsData

\* The stream stays as it is, or loses its end and is not live any more.
OutputCut ==
  /\ \A i : IsData(shown, i)' <=> IsData(shown, i)
  /\ \A i : IsData(shown, i) => shown'[i] = shown[i]
  /\ \A i : IsData(down, i)' => IsData(down, i) /\ down'[i] = down[i]
  /\ \A i, j : IsData(down, i) /\ IsData(down, j)' /\ i < j => IsData(down, i)'
  /\ Live' => Live /\ out' = out /\ \A i : IsData(down, i) => IsData(down, i)'
  /\ UNCHANGED <<produced, dropped, unsent>>

\* Cutting the stream leaves what remains of it in order.
LEMMA CutGrows ==
  ASSUME OutputGrows, OutputCut
  PROVE  OutputGrows'
<1>1. /\ \A i : IsChunk(shown, i)' => IsChunk(shown, i) /\ shown'[i] = shown[i]
      /\ \A i : IsChunk(down, i)' => IsChunk(down, i) /\ down'[i] = down[i]
  BY DEF OutputCut, IsChunk, IsData
<1>2. /\ \A i : IsData(shown, i)' => IsData(shown, i) /\ shown'[i] = shown[i]
      /\ \A i : IsData(down, i)' => IsData(down, i) /\ down'[i] = down[i]
  BY DEF OutputCut
<1>3. Live' => Live /\ out' = out
  BY DEF OutputCut
<1>4. produced' = produced
  BY DEF OutputCut
<1> QED BY <1>1, <1>2, <1>3, <1>4 DEF OutputGrows

\* Cutting the stream leaves no hole in what remains of it.
LEMMA CutWhole ==
  ASSUME TypeOK, OutputGrows, OutputWhole, OutputCut
  PROVE  OutputWhole'
<1>1. \A x : Seen(x)' => Seen(x)
  BY DEF OutputCut, Seen
<1>2. \A k : Has(shown, k)' <=> Has(shown, k)
  BY DEF OutputCut, Has, IsData
<1>3. \A k : Has(down, k)' => Has(down, k)
  BY DEF OutputCut, Has, IsData
<1>4. ASSUME NEW y \in Nat, NEW k \in Nat, (Has(shown, y) \/ Has(down, y))', k < y, Has(down, k)
      PROVE  Has(down, k)'
  <2>1. PICK i : IsChunk(down, i) /\ down[i][2] = k
    BY <1>4 DEF Has, IsChunk
  <2>2. ~Has(shown, y)
    <3>1. ASSUME NEW l, IsChunk(shown, l), shown[l][2] = y PROVE FALSE
      <4>1. y < k
        BY <2>1, <3>1 DEF OutputGrows
      <4> QED
        BY <1>4, <4>1
    <3> QED
      BY <3>1 DEF Has, IsChunk
  <2>3. PICK j : IsChunk(down, j)' /\ down'[j][2] = y
    BY <1>2, <1>4, <2>2 DEF Has, IsChunk
  <2>4. IsData(down, j)' /\ IsData(down, i) /\ IsChunk(down, j) /\ down[j][2] = y
    BY <2>1, <2>3 DEF OutputCut, IsChunk, IsData
  <2>5. i \in Nat /\ j \in Nat
    BY <2>1, <2>4 DEF IsChunk
  <2>6. i < j
    <3>1. i # j
      BY <1>4, <2>1, <2>4
    <3>2. ~(j < i)
      BY <1>4, <2>1, <2>4 DEF OutputGrows
    <3> QED BY <2>5, <3>1, <3>2
  <2>7. IsData(down, i)' /\ down'[i] = down[i]
    BY <2>4, <2>6 DEF OutputCut
  <2> QED BY <2>1, <2>7 DEF Has, IsChunk, IsData
<1>5. ASSUME NEW x \in Nat, NEW y \in Nat, NEW k \in Nat,
             Seen(x)', (Has(shown, y) \/ Has(down, y))', x < k, k < y
      PROVE  Kept(k)'
  <2>1. Kept(k)
    BY <1>1, <1>2, <1>3, <1>5 DEF OutputWhole
  <2> QED BY <1>2, <1>4, <1>5, <2>1 DEF Kept, OutputCut
<1>6. CASE Live'
  <2>1. Live /\ out' = out /\ produced' = produced /\ UNCHANGED <<dropped, unsent>>
    BY <1>6 DEF OutputCut
  <2>2. \A k : Has(down, k) => Has(down, k)'
    BY <1>6 DEF OutputCut, Has, IsData
  <2>3. \A k : (Kept(k) => Kept(k)') /\ (Holds(k)' <=> Holds(k))
    BY <1>2, <2>1, <2>2 DEF Kept, Holds
  <2> QED BY <1>1, <1>5, <2>1, <2>3 DEF OutputWhole
<1>7. CASE ~Live'
  BY <1>5, <1>7 DEF OutputWhole
<1> QED BY <1>6, <1>7

\* What is added to what is in flight and is no output leaves the stream alone.
LEMMA CutDeliver ==
  ASSUME TypeOK, NEW m \in Message, m[1] \notin {"snapshot", "chunk"},
         Deliver(m) \/ down' = down, UNCHANGED <<shown, produced, dropped, unsent>>,
         Live' => Live /\ out' = out
  PROVE  OutputCut
<1>1. CASE down' = down
  BY <1>1 DEF OutputCut, IsData
<1>2. CASE down' = Append(down, m)
  <2>1. /\ Len(down) \in Nat /\ Len(down') = Len(down) + 1
        /\ \A i \in 1..Len(down) : down'[i] = down[i]
        /\ down'[Len(down) + 1] = m
    BY <1>2, AppendAt DEF TypeOK
  <2>2. \A i : IsData(down, i)' <=> IsData(down, i)
    BY <2>1 DEF IsData
  <2>3. \A i : IsData(down, i) => down'[i] = down[i]
    BY <2>1 DEF IsData
  <2> QED BY <2>2, <2>3 DEF OutputCut, IsData
<1> QED BY <1>1, <1>2 DEF Deliver

\* So does a closing line.
LEMMA CutShown ==
  ASSUME TypeOK, NEW line \in {"session ended", "error", "disconnected"}, Dim(line),
         down' = <<>>, UNCHANGED <<produced, dropped, unsent>>, ~Live'
  PROVE  OutputCut
<1>1. line \notin {"snapshot", "chunk"} /\ <<line, 0>>[1] = line
  OBVIOUS
<1>2. shown' = Append(shown, <<line, 0>>) /\ shown \in Seq(Message \cup ClosingLine)
  BY DEF Dim, TypeOK
<1>3. /\ \A i : IsData(shown', i) <=> IsData(shown, i)
      /\ \A i : IsData(shown, i) => shown'[i] = shown[i]
  BY <1>1, <1>2, AppendData
<1>4. \A i : ~IsData(down', i)
  BY EmptyData
<1> QED BY <1>3, <1>4 DEF OutputCut, IsData

\* What is left of the messages in flight when the connection breaks.
LEMMA BreakData ==
  ASSUME NEW S, NEW s \in Seq(S), NEW n \in 0..Len(s)
  PROVE  \A i : /\ IsData(SubSeq(s, 1, n), i) <=> i \in 1..n /\ IsData(s, i)
                /\ IsData(SubSeq(s, 1, n), i) => SubSeq(s, 1, n)[i] = s[i]
<1>1. Len(SubSeq(s, 1, n)) = n /\ \A i \in 1..n : SubSeq(s, 1, n)[i] = s[i]
  OBVIOUS
<1>2. Len(s) \in Nat /\ n \in Nat /\ \A i \in 1..n : i \in 1..Len(s)
  OBVIOUS
<1> QED BY <1>1, <1>2 DEF IsData

\* Every step keeps OneClosingLine: a page that has a closing line reads nothing.
LEMMA OneClosingLineStep ==
  ASSUME TypeOK, PageShut, OneClosingLine, [Next]_vars
  PROVE  OneClosingLine'
<1> USE DEF pageVars, userVars, netVars, handlerVars, tmuxVars
<1>1. ASSUME NEW e, ws # "null", shown' = Append(shown, e)
      PROVE  OneClosingLine'
  <2>1. /\ Len(shown) \in Nat /\ Len(shown') = Len(shown) + 1
        /\ \A i \in 1..Len(shown) : shown'[i] = shown[i]
    BY <1>1, AppendAt DEF TypeOK
  <2>2. \A i \in 1..Len(shown) : shown'[i] \notin ClosingLine
    BY <1>1, <2>1 DEF PageShut
  <2> QED BY <2>1, <2>2 DEF OneClosingLine
<1>2. CASE OnBinary
  BY <1>1, <1>2 DEF OnBinary, Receive
<1>3. CASE OnExitOrError
  BY <1>1, <1>3 DEF OnExitOrError, Receive, Dim
<1>4. CASE OnClose
  BY <1>1, <1>4 DEF OnClose, Dim
<1>5. CASE UNCHANGED shown
  BY <1>5 DEF OneClosingLine
<1>6. CASE OnOpen \/ OnHello \/ OnObserve \/ FitFires \/ Close \/
         (\E n \in InputSizes : Type(n)) \/ BoxMoves \/ Accept \/ Refuse \/ Attach \/
         AttachFails \/ Snapshot \/ StartReading \/ Forward \/ Exit \/ WriteFails \/
         HandlerCancelled \/ IdleTimeout \/ ReadInput \/ ReadTooLong \/ ReadResize \/
         ReadFails \/ Breaks \/ Output \/ SessionEnds
  BY <1>5, <1>6 DEF OnOpen, OnHello, OnObserve, FitFires, Close, Type, BoxMoves, Accept, Refuse,
           Attach, AttachFails, Snapshot, StartReading, Forward, Exit, WriteFails,
           HandlerCancelled, IdleTimeout, ReadInput, ReadTooLong, ReadResize, ReadFails,
           Breaks, Output, SessionEnds
<1>7. CASE UNCHANGED vars
  BY <1>5, <1>7 DEF vars
<1> QED BY <1>2, <1>3, <1>4, <1>6, <1>7
  DEF Next, PageEvent, PageTimer, User, Handle, ReadLoop, Session

\* A closing line is written, and nothing in flight is read any more.
LEMMA DimPlaced ==
  ASSUME TypeOK, OutputPlaced, NEW line \in {"session ended", "error", "disconnected"},
         shown' = Append(shown, <<line, 0>>), down' = <<>>, UNCHANGED <<out, srv, conn, reader>>
  PROVE  OutputPlaced'
<1>1. line \notin {"snapshot", "chunk"} /\ <<line, 0>>[1] = line
  OBVIOUS
<1>2. <<line, 0>> \in ClosingLine
  BY Messages
<1>3. shown \in Seq(Message \cup ClosingLine)
  BY DEF TypeOK
<1>4. \A i : IsData(shown', i) <=> IsData(shown, i)
  BY <1>1, <1>3, AppendData
<1>5. \A i : ~IsData(down', i)
  BY EmptyData
<1>6. /\ Len(shown) \in Nat /\ Len(shown') = Len(shown) + 1
      /\ \A i \in 1..Len(shown) : shown'[i] = shown[i]
      /\ shown'[Len(shown) + 1] = <<line, 0>>
  BY <1>3, AppendAt
<1>9. \A i \in 1..Len(shown') : i \in 1..Len(shown) \/ i = Len(shown) + 1
  BY <1>3, AppendAt
<1>7. \A i \in 1..Len(shown') : i \in 1..Len(shown) \/ shown'[i] \in ClosingLine
  BY <1>2, <1>6, <1>9, Zenon
<1>8. \A i \in 1..Len(shown') : IsData(shown, i) \/ shown'[i] \in ClosingLine
  BY <1>6, <1>7 DEF OutputPlaced
<1> QED BY <1>4, <1>5, <1>8 DEF OutputPlaced, IsData

\* Every step keeps OutputPlaced.
LEMMA OutputPlacedStep ==
  ASSUME TypeOK, OutputPlaced, [Next]_vars
  PROVE  OutputPlaced'
<1> USE DEF pageVars, userVars, netVars, handlerVars, tmuxVars
<1>1. CASE UNCHANGED <<shown, down, out, srv, conn, reader>>
  BY <1>1 DEF OutputPlaced, IsData
<1>2. CASE OnBinary
  <2>1. /\ down # <<>> /\ Head(down)[1] \in {"snapshot", "chunk"}
        /\ shown' = Append(shown, Head(down)) /\ UNCHANGED <<out, srv, conn, reader>>
    BY <1>2 DEF OnBinary, Receive
  <2>2. IsData(down, 1)
    BY <2>1, TailAt DEF IsData, TypeOK
  <2>3. /\ Len(shown) \in Nat /\ Len(shown') = Len(shown) + 1
        /\ \A i \in 1..Len(shown) : shown'[i] = shown[i]
        /\ shown'[Len(shown) + 1] = Head(down)
    BY <2>1, AppendAt DEF TypeOK
  <2>4. \A i \in 1..Len(shown') : IsData(shown, i)' \/ shown'[i] \in ClosingLine
    BY <2>1, <2>3 DEF OutputPlaced, IsData
  <2> QED BY <2>1, <2>2, <2>4 DEF OutputPlaced
<1>3. CASE OnHello
  <2>1. down # <<>> /\ down' = Tail(down) /\ UNCHANGED <<shown, out, srv, conn, reader>>
    BY <1>3 DEF OnHello, Receive
  <2>2. \A i : IsData(down', i) => IsData(down, i + 1)
    BY <2>1, TailData DEF TypeOK
  <2>3. \A i : IsData(down', i) => i \in Nat /\ i + 1 \in 1..Len(down)
    BY <2>1, TailData DEF TypeOK, IsData
  <2> QED BY <2>1, <2>2, <2>3 DEF OutputPlaced, IsData
<1>4. CASE OnExitOrError
  <2>1. PICK line \in {"session ended", "error", "disconnected"} :
          shown' = Append(shown, <<line, 0>>) /\ down' = <<>> /\ UNCHANGED <<out, srv, conn, reader>>
    BY <1>4 DEF OnExitOrError, Dim, Shutdown
  <2> QED BY <2>1, DimPlaced
<1>5. CASE OnClose
  <2>1. PICK line \in {"session ended", "error", "disconnected"} :
          shown' = Append(shown, <<line, 0>>) /\ down' = <<>> /\ UNCHANGED <<out, srv, conn, reader>>
    BY <1>5 DEF OnClose, Dim, Shutdown
  <2> QED BY <2>1, DimPlaced
<1>6. CASE Close
  <2>1. down' = <<>> /\ UNCHANGED <<shown, out, srv, conn, reader>>
    BY <1>6 DEF Close, Shutdown
  <2>2. \A i : ~IsData(down', i)
    BY <2>1, EmptyData
  <2> QED BY <2>1, <2>2 DEF OutputPlaced, IsData
<1>7. CASE Accept
  BY <1>7 DEF OutputPlaced, IsData, Accept, To
<1>8. CASE Refuse
  BY <1>8 DEF OutputPlaced, IsData, Refuse, To
<1>9. CASE Attach
  <2>1. /\ srv = "accepted" /\ srv' = "greeted" /\ conn' = conn /\ conn = "up"
        /\ UNCHANGED <<shown, out>>
        /\ down' = down \/ down' = Append(down, <<"hello", grid'>>)
    BY <1>9 DEF Attach, To, Deliver
  <2>3. <<"hello", grid'>>[1] \notin {"snapshot", "chunk"}
    OBVIOUS
  <2>2. \A i : IsData(down', i) => IsData(down, i)
    <3>1. down \in Seq(Message)
      BY DEF TypeOK
    <3>2. \A i : IsData(Append(down, <<"hello", grid'>>), i) => IsData(down, i)
      BY <2>3, <3>1, AppendData
    <3> QED BY <2>1, <3>2
  <2> QED BY <2>1, <2>2 DEF OutputPlaced, IsData
<1>10. CASE AttachFails
  BY <1>10 DEF OutputPlaced, IsData, AttachFails, Return, To
<1>11. CASE Snapshot
  BY <1>11 DEF OutputPlaced, IsData, Snapshot, To
<1>12. CASE StartReading
  BY <1>12 DEF OutputPlaced, IsData, StartReading, To
<1>13. CASE Forward
  BY <1>13 DEF OutputPlaced, IsData, Forward
<1>14. CASE Exit
  BY <1>14 DEF OutputPlaced, IsData, Exit, Return, To
<1>15. CASE WriteFails
  BY <1>15 DEF OutputPlaced, IsData, WriteFails, Return, To
<1>16. CASE HandlerCancelled
  BY <1>16 DEF OutputPlaced, IsData, HandlerCancelled, Return, To
<1>17. CASE IdleTimeout
  BY <1>17 DEF OutputPlaced, IsData, IdleTimeout, Return, To
<1>18. CASE ReadTooLong
  BY <1>18 DEF OutputPlaced, IsData, ReadTooLong, Reads
<1>19. CASE ReadFails
  BY <1>19 DEF OutputPlaced, IsData, ReadFails
<1>20. CASE Breaks
  <2>1. PICK n \in 0..Len(down) : down' = SubSeq(down, 1, n)
    BY <1>20 DEF Breaks
  <2>2. \A i : IsData(down', i) => IsData(down, i)
    BY <2>1, BreakData DEF TypeOK
  <2>3. conn # "opening" /\ conn' = "over" /\ UNCHANGED <<shown, out, srv, reader>>
    BY <1>20 DEF Breaks
  <2> QED BY <2>2, <2>3 DEF OutputPlaced, IsData
<1>21. CASE Output
  BY <1>21 DEF OutputPlaced, IsData, Output, Attached
<1>22. CASE OnOpen \/ OnObserve \/ FitFires \/ (\E n \in InputSizes : Type(n)) \/ BoxMoves \/
         ReadInput \/ ReadResize \/ SessionEnds
  BY <1>22, <1>1 DEF OnOpen, OnObserve, FitFires, Type, BoxMoves, ReadInput, ReadResize,
      SessionEnds
<1>23. CASE UNCHANGED vars
  BY <1>23, <1>1 DEF vars
<1> QED
  BY <1>1, <1>2, <1>3, <1>4, <1>5, <1>6, <1>7, <1>8, <1>9, <1>10, <1>11, <1>12, <1>13, <1>14,
      <1>15, <1>16, <1>17, <1>18, <1>19, <1>20, <1>21, <1>22, <1>23
  DEF Next, PageEvent, PageTimer, User, Handle, ReadLoop, Session

\* Where nothing was sent and nothing is held, nothing can be missing.
LEMMA NothingSent ==
  ASSUME OutputPlaced, srv \in {"idle", "accepted"}
  PROVE  OutputGrows /\ OutputWhole
<1>1. \A i : ~IsData(shown, i) /\ ~IsData(down, i)
  BY DEF OutputPlaced, IsData
<1>2. \A i : ~IsChunk(shown, i) /\ ~IsChunk(down, i)
  BY <1>1 DEF IsChunk, IsData
<1>3. Len(out) = 0
  BY DEF OutputPlaced
<1>4. \A k : ~Holds(k) /\ ~Seen(k) /\ ~Has(shown, k) /\ ~Has(down, k)
  BY <1>1, <1>2, <1>3 DEF Holds, Seen, Has, IsChunk
<1>5. OutputGrows
  BY <1>1, <1>2, <1>3 DEF OutputGrows
<1>6. OutputWhole
  BY <1>4 DEF OutputWhole
<1> QED BY <1>5, <1>6

\* As NothingSent, of the next state.
LEMMA NothingSentNext ==
  ASSUME OutputPlaced', srv' \in {"idle", "accepted"}
  PROVE  OutputGrows' /\ OutputWhole'
<1>1. \A i : ~IsData(shown', i) /\ ~IsData(down', i)
  BY DEF OutputPlaced, IsData
<1>2. \A i : ~IsChunk(shown', i) /\ ~IsChunk(down', i)
  BY <1>1 DEF IsChunk, IsData
<1>3. Len(out') = 0
  BY DEF OutputPlaced
<1>4. \A k : ~Holds(k)' /\ ~Seen(k)' /\ ~Has(shown', k) /\ ~Has(down', k)
  BY <1>1, <1>2, <1>3 DEF Holds, Seen, Has, IsChunk, IsData
<1>5. OutputGrows'
  BY <1>1, <1>2, <1>3 DEF OutputGrows, IsChunk, IsData
<1>6. OutputWhole'
  BY <1>4 DEF OutputWhole, Has
<1> QED BY <1>5, <1>6

\* The steps that leave the stream as it is or cut it.
LEMMA CutSteps ==
  ASSUME TypeOK,
         \/ OnOpen \/ OnExitOrError \/ OnClose \/ OnObserve \/ FitFires \/ Close \/ BoxMoves
         \/ Refuse \/ Attach \/ AttachFails \/ StartReading \/ Exit \/ WriteFails
         \/ HandlerCancelled \/ IdleTimeout \/ ReadInput \/ ReadTooLong \/ ReadResize
         \/ ReadFails \/ Breaks \/ SessionEnds \/ UNCHANGED vars
         \/ \E n \in InputSizes : Type(n)
  PROVE  OutputCut
<1> USE DEF pageVars, userVars, netVars, handlerVars, tmuxVars
<1>1. CASE UNCHANGED <<shown, down, produced, dropped, unsent>> /\ (Live' => Live /\ out' = out)
  BY <1>1 DEF OutputCut, IsData
<1>2. CASE \/ OnOpen \/ OnObserve \/ FitFires \/ BoxMoves \/ Refuse \/ StartReading
           \/ WriteFails \/ HandlerCancelled \/ IdleTimeout \/ ReadInput \/ ReadTooLong
           \/ ReadResize \/ ReadFails \/ SessionEnds \/ UNCHANGED vars
           \/ \E n \in InputSizes : Type(n)
  <2>1. UNCHANGED <<shown, down, produced, dropped, unsent>>
    BY <1>2 DEF OnOpen, OnObserve, FitFires, BoxMoves, Refuse, StartReading, WriteFails,
      HandlerCancelled, IdleTimeout, ReadInput, ReadTooLong, ReadResize, ReadFails, SessionEnds,
      vars, Type
  <2>2. Live' => Live /\ out' = out
    BY <1>2 DEF OnOpen, OnObserve, FitFires, BoxMoves, Refuse, StartReading, WriteFails,
      HandlerCancelled, IdleTimeout, ReadInput, ReadTooLong, ReadResize, ReadFails, SessionEnds,
      vars, Type, Live, Return, To
  <2> QED BY <1>1, <2>1, <2>2
<1>3. CASE OnExitOrError \/ OnClose
  <2>1. PICK line \in {"session ended", "error", "disconnected"} : Dim(line)
    BY <1>3 DEF OnExitOrError, OnClose
  <2>2. down' = <<>> /\ UNCHANGED <<produced, dropped, unsent>> /\ ~Live'
    BY <1>3 DEF OnExitOrError, OnClose, Shutdown, Live
  <2> QED BY <2>1, <2>2, CutShown
<1>4. CASE Close
  <2>1. down' = <<>> /\ UNCHANGED <<shown, produced, dropped, unsent>> /\ ~Live'
    BY <1>4 DEF Close, Shutdown, Live
  <2>2. \A i : ~IsData(down', i)
    BY <2>1, EmptyData
  <2> QED BY <2>1, <2>2 DEF OutputCut, IsData
<1>5. CASE Attach
  <2>1. <<"hello", grid'>> \in Message
    BY <1>5, Sizes, Messages DEF Attach, TypeOK
  <2>2. <<"hello", grid'>>[1] \notin {"snapshot", "chunk"}
    OBVIOUS
  <2>3. /\ Deliver(<<"hello", grid'>>) /\ UNCHANGED <<shown, produced, dropped, unsent>>
        /\ Live' => Live /\ out' = out
    BY <1>5 DEF Attach, Live, To
  <2> QED BY <2>1, <2>2, <2>3, CutDeliver
<1>6. CASE AttachFails \/ Exit
  <2>1. PICK m \in {<<"error", 0>>, <<"exit", 0>>} : Deliver(m) \/ down' = down
    BY <1>6 DEF AttachFails, Exit
  <2>2. m \in Message
    BY Messages
  <2>3. m[1] \notin {"snapshot", "chunk"}
    OBVIOUS
  <2>4. UNCHANGED <<shown, produced, dropped, unsent>> /\ ~Live'
    BY <1>6 DEF AttachFails, Exit, Return, To, Live
  <2> QED BY <2>1, <2>2, <2>3, <2>4, CutDeliver
<1>7. CASE Breaks
  <2>1. PICK n \in 0..Len(down) : down' = SubSeq(down, 1, n)
    BY <1>7 DEF Breaks
  <2>2. \A i : /\ IsData(down', i) <=> i \in 1..n /\ IsData(down, i)
               /\ IsData(down', i) => down'[i] = down[i]
    BY <2>1, BreakData DEF TypeOK
  <2>3. \A i, j : IsData(down, i) /\ j \in 1..n /\ i < j => i \in 1..n
    BY DEF IsData
  <2>4. UNCHANGED <<shown, produced, dropped, unsent>> /\ ~Live'
    BY <1>7 DEF Breaks, Live
  <2> QED BY <2>2, <2>3, <2>4 DEF OutputCut, IsData
<1> QED BY <1>2, <1>3, <1>4, <1>5, <1>6, <1>7

\* A message is read: output goes to the terminal, and nothing else changes.
LEMMA ReadSteps ==
  ASSUME TypeOK, OutputGrows, OutputWhole, OnBinary \/ OnHello
  PROVE  OutputGrows' /\ OutputWhole'
<1> USE DEF pageVars, userVars, netVars, handlerVars, tmuxVars
<1>1. /\ down # <<>> /\ down' = Tail(down) /\ UNCHANGED <<out, produced, dropped, unsent>>
      /\ Live' <=> Live
  BY DEF OnBinary, OnHello, Receive, Live
<1>2. \/ shown' = Append(shown, Head(down)) /\ Head(down)[1] \in {"snapshot", "chunk"}
      \/ shown' = shown /\ Head(down)[1] = "hello"
  BY DEF OnBinary, OnHello, Receive
<1>3. Len(down) \in Nat \ {0} /\ Head(down) = down[1]
  BY <1>1, TailAt DEF TypeOK
<1>4. IsData(down, 1) <=> Head(down)[1] \in {"snapshot", "chunk"}
  BY <1>3 DEF IsData
<1>5. /\ \A i : IsData(down', i) <=> i \in Nat \ {0} /\ IsData(down, i + 1)
      /\ \A i : IsData(down', i) => down'[i] = down[i + 1]
  BY <1>1, TailData DEF TypeOK
<1>6. /\ Len(shown) \in Nat
      /\ \A i : IsData(shown, i) => i \in 1..Len(shown) /\ IsData(shown', i) /\ shown'[i] = shown[i]
      /\ \A i : IsData(shown', i) =>
           IsData(shown, i) \/ (i = Len(shown) + 1 /\ IsData(down, 1) /\ shown'[i] = down[1])
      /\ IsData(down, 1) => IsData(shown', Len(shown) + 1) /\ shown'[Len(shown) + 1] = down[1]
  <2>0. shown \in Seq(Message \cup ClosingLine)
    BY DEF TypeOK
  <2>1. Len(shown) \in Nat /\ \A i : IsData(shown, i) => i \in 1..Len(shown)
    BY <2>0 DEF IsData
  <2>2. CASE shown' = shown /\ Head(down)[1] = "hello"
    BY <1>4, <2>1, <2>2
  <2>3. CASE shown' = Append(shown, Head(down)) /\ Head(down)[1] \in {"snapshot", "chunk"}
    <3>1. shown'[Len(shown) + 1] = down[1]
      BY <1>3, <2>0, <2>3, AppendAt
    <3> QED BY <1>4, <2>0, <2>1, <2>3, <3>1, AppendData
  <2> QED BY <1>2, <2>2, <2>3
<1>7. \A t, i : IsChunk(t, i) <=> IsData(t, i) /\ t[i][1] = "chunk"
  BY DEF IsChunk, IsData
<1>8. \A i : IsData(down, i) => i \in Nat \ {0}
  BY DEF IsData
<1>9. OutputGrows'
  <2>a. \A i : IsChunk(shown', i) =>
          \/ IsChunk(shown, i) /\ i \in 1..Len(shown) /\ shown'[i] = shown[i]
          \/ i = Len(shown) + 1 /\ IsChunk(down, 1) /\ shown'[i] = down[1]
    BY <1>6, <1>7
  <2>b. \A i : IsChunk(down', i) =>
          i \in Nat \ {0} /\ 1 < i + 1 /\ IsChunk(down, i + 1) /\ down'[i] = down[i + 1]
    BY <1>5, <1>7
  <2>c. \A i : IsData(shown', i) =>
          \/ IsData(shown, i) /\ i \in 1..Len(shown) /\ shown'[i] = shown[i]
          \/ i = Len(shown) + 1 /\ IsData(down, 1) /\ shown'[i] = down[1]
    BY <1>6
  <2>d. \A i : IsData(down', i) =>
          i \in Nat \ {0} /\ 1 < i + 1 /\ IsData(down, i + 1) /\ down'[i] = down[i + 1]
    BY <1>5
  <2>1. ASSUME NEW i, NEW j, IsChunk(shown', i), IsChunk(shown', j), i < j
        PROVE  shown'[i][2] < shown'[j][2]
    <3>1. IsChunk(shown, i) /\ i \in 1..Len(shown) /\ shown'[i] = shown[i]
      BY <1>6, <2>1, <2>a
    <3>2. CASE IsChunk(shown, j) /\ shown'[j] = shown[j]
      BY <2>1, <3>1, <3>2 DEF OutputGrows
    <3>3. CASE IsChunk(down, 1) /\ shown'[j] = down[1]
      BY <3>1, <3>3 DEF OutputGrows
    <3> QED BY <2>1, <2>a, <3>2, <3>3
  <2>2. ASSUME NEW i, NEW j, IsChunk(down', i), IsChunk(down', j), i < j
        PROVE  down'[i][2] < down'[j][2]
    <3>1. i + 1 < j + 1
      BY <2>2, <2>b
    <3> QED BY <2>2, <2>b, <3>1 DEF OutputGrows
  <2>3. ASSUME NEW i, NEW j, IsChunk(shown', i), IsChunk(down', j)
        PROVE  shown'[i][2] < down'[j][2]
    <3>1. CASE IsChunk(shown, i) /\ shown'[i] = shown[i]
      BY <2>3, <2>b, <3>1 DEF OutputGrows
    <3>2. CASE IsChunk(down, 1) /\ shown'[i] = down[1]
      BY <2>3, <2>b, <3>2 DEF OutputGrows
    <3> QED BY <2>3, <2>a, <3>1, <3>2
  <2>4. \A i, j : IsChunk(shown', i) /\ IsData(shown', j) /\ shown'[j][1] = "snapshot" => j < i
    BY <1>6, <1>7 DEF OutputGrows
  <2>5. ASSUME NEW i, NEW j, IsChunk(down', i), IsData(down', j), down'[j][1] = "snapshot"
        PROVE  j < i
    <3>1. j + 1 < i + 1
      BY <2>5, <2>b, <2>d DEF OutputGrows
    <3> QED BY <2>5, <2>b, <2>d, <3>1
  <2>6. ASSUME NEW i, NEW j, IsChunk(shown', i), IsData(down', j)
        PROVE  down'[j][1] # "snapshot"
    <3>1. CASE IsChunk(shown, i)
      BY <2>6, <2>d, <3>1 DEF OutputGrows
    <3>2. CASE IsChunk(down, 1)
      <4>1. ~(j + 1 < 1)
        BY <2>6, <2>d
      <4> QED BY <2>6, <2>d, <3>2, <4>1 DEF OutputGrows
    <3> QED BY <2>6, <2>a, <3>1, <3>2
  <2>7. \A i : IsChunk(shown', i) => shown'[i][2] <= produced
    BY <2>a DEF OutputGrows
  <2>8. \A i : IsChunk(down', i) => down'[i][2] <= produced
    BY <2>b DEF OutputGrows
  <2>9. ASSUME Live, NEW j \in 1..Len(out)
        PROVE  /\ \A i : IsChunk(shown', i) => shown'[i][2] < out[j]
               /\ \A i : IsChunk(down', i) => down'[i][2] < out[j]
    <3>1. /\ \A i : IsChunk(shown, i) => shown[i][2] < out[j]
          /\ \A i : IsChunk(down, i) => down[i][2] < out[j]
      BY <2>9 DEF OutputGrows
    <3>2. ASSUME NEW i, IsChunk(shown', i) PROVE shown'[i][2] < out[j]
      BY <2>a, <3>1, <3>2
    <3>3. ASSUME NEW i, IsChunk(down', i) PROVE down'[i][2] < out[j]
      BY <2>b, <3>1, <3>3
    <3> QED BY <3>2, <3>3
  <2>10. Live => /\ \A i, j \in 1..Len(out) : i < j => out[i] < out[j]
                 /\ \A i \in 1..Len(out) : out[i] <= produced
    BY DEF OutputGrows
  <2> QED BY <1>1, <2>1, <2>2, <2>3, <2>4, <2>5, <2>6, <2>7, <2>8, <2>9, <2>10
          DEF OutputGrows, IsChunk, IsData
<1>10. \A x : Seen(x)' <=> Seen(x)
  <2>1. ASSUME NEW x, Seen(x)' PROVE Seen(x)
    BY <1>5, <1>6, <2>1 DEF Seen, IsData
  <2>2. ASSUME NEW x, NEW i, IsData(shown, i), shown[i][2] = x PROVE Seen(x)'
    BY <1>6, <2>2 DEF Seen, IsData
  <2>3. ASSUME NEW x, NEW i, IsData(down, i), down[i][2] = x PROVE Seen(x)'
    <3>1. CASE i = 1
      BY <1>6, <2>3, <3>1 DEF Seen, IsData
    <3>2. CASE i # 1
      <4>1. i \in Nat /\ i - 1 \in Nat \ {0} /\ (i - 1) + 1 = i
        BY <1>8, <2>3, <3>2
      <4>2. IsData(down', i - 1) /\ down'[i - 1] = down[i]
        BY <1>5, <2>3, <4>1
      <4> QED BY <2>3, <4>2 DEF Seen, IsData
    <3> QED BY <3>1, <3>2
  <2> QED BY <2>1, <2>2, <2>3 DEF Seen
<1>11. \A k : (Has(shown, k) \/ Has(down, k))' <=> Has(shown, k) \/ Has(down, k)
  <2>0. \A t, k : Has(t, k) <=> \E i : IsChunk(t, i) /\ t[i][2] = k
    BY DEF Has, IsChunk
  <2>a. \A i : IsChunk(shown', i) =>
          \/ IsChunk(shown, i) /\ shown'[i] = shown[i]
          \/ IsChunk(down, 1) /\ shown'[i] = down[1]
    BY <1>6, <1>7
  <2>b. \A i : IsChunk(down', i) => IsChunk(down, i + 1) /\ down'[i] = down[i + 1]
    BY <1>5, <1>7
  <2>1. \A k : Has(shown', k) \/ Has(down', k) => Has(shown, k) \/ Has(down, k)
    BY <2>0, <2>a, <2>b, Zenon
  <2>2. ASSUME NEW k, NEW i, IsChunk(shown, i), shown[i][2] = k PROVE Has(shown', k)
    BY <1>6, <1>7, <2>0, <2>2
  <2>3. ASSUME NEW k, NEW i, IsChunk(down, i), down[i][2] = k PROVE Has(shown', k) \/ Has(down', k)
    <3>1. CASE i = 1
      BY <1>6, <1>7, <2>0, <2>3, <3>1
    <3>2. CASE i # 1
      <4>1. i \in Nat /\ i - 1 \in Nat \ {0} /\ (i - 1) + 1 = i
        BY <1>7, <1>8, <2>3, <3>2
      <4>2. IsChunk(down', i - 1) /\ down'[i - 1] = down[i]
        BY <1>5, <1>7, <2>3, <4>1
      <4> QED BY <2>0, <2>3, <4>2
    <3> QED BY <3>1, <3>2
  <2> QED BY <2>0, <2>1, <2>2, <2>3 DEF Has
<1>12. \A k : (Kept(k)' <=> Kept(k)) /\ (Holds(k)' <=> Holds(k))
  BY <1>1, <1>11 DEF Kept, Holds
<1>13. OutputWhole'
  BY <1>1, <1>10, <1>11, <1>12 DEF OutputWhole
<1> QED BY <1>9, <1>13

\* The snapshot is the first output that is sent.
LEMMA SnapshotStep ==
  ASSUME TypeOK, OutputPlaced, OutputGrows, OutputWhole, Snapshot
  PROVE  OutputGrows' /\ OutputWhole'
<1> USE DEF pageVars, userVars, netVars, handlerVars, tmuxVars
<1>1. /\ srv = "greeted" /\ UNCHANGED <<shown, out, produced, dropped, unsent>> /\ (Live' <=> Live)
      /\ down' = down \/ down' = Append(down, <<"snapshot", produced>>)
  BY DEF Snapshot, Live, To, Deliver
<1>2. CASE down' = down
  <2>1. OutputCut
    BY <1>1, <1>2 DEF OutputCut, IsData
  <2> QED BY <2>1, CutGrows, CutWhole
<1>3. CASE down' = Append(down, <<"snapshot", produced>>)
  <2>1. \A i : ~IsData(shown, i) /\ ~IsData(down, i)
    BY <1>1 DEF OutputPlaced, IsData
  <2>2. down'[Len(down) + 1] = <<"snapshot", produced>> /\ down \in Seq(Message)
    BY <1>3, AppendAt DEF TypeOK
  <2>3. \A i : IsData(down', i) => i = Len(down) + 1
    BY <1>3, <2>1, <2>2, AppendData
  <2>4. /\ <<"snapshot", produced>>[1] = "snapshot" /\ <<"snapshot", produced>>[2] = produced
        /\ "snapshot" # "chunk"
    OBVIOUS
  <2>5. \A i : ~IsChunk(shown', i) /\ ~IsChunk(down', i)
    <3>1. \A i : ~IsChunk(shown', i)
      BY <1>1, <2>1 DEF IsChunk, IsData
    <3>2. ASSUME NEW i, IsChunk(down', i) PROVE FALSE
      <4>1. IsData(down', i) /\ down'[i][1] = "chunk"
        BY <3>2 DEF IsChunk, IsData
      <4> QED BY <2>2, <2>3, <2>4, <4>1
    <3> QED BY <3>1, <3>2
  <2>6. \A x : Seen(x)' => x = produced
    BY <1>1, <2>1, <2>2, <2>3, <2>4 DEF Seen, IsData
  <2>7. \A k : ~Has(shown', k) /\ ~Has(down', k)
    BY <2>5 DEF Has, IsChunk
  <2>8. OutputGrows'
    <3>1. Live => /\ \A i, j \in 1..Len(out) : i < j => out[i] < out[j]
                  /\ \A i \in 1..Len(out) : out[i] <= produced
      BY DEF OutputGrows
    <3> QED BY <1>1, <2>5, <3>1 DEF OutputGrows, IsChunk
  <2>9. produced \in Nat
    BY DEF TypeOK
  <2>10. /\ \A x, y, k \in Nat : (Seen(x) /\ (Has(shown, y) \/ Has(down, y)))'
                                 /\ x < k /\ k < y => Kept(k)'
         /\ \A x, k \in Nat : Seen(x)' => ~(x < k /\ k <= produced)
    BY <2>6, <2>7, <2>9 DEF Has
  <2>11. Live => \A x, k \in Nat : Holds(x) /\ x < k /\ k <= produced => k \in dropped \cup unsent \/ Holds(k)
    BY DEF OutputWhole
  <2>12. \A k : Holds(k)' <=> Holds(k)
    BY <1>1 DEF Holds
  <2> QED BY <1>1, <2>8, <2>10, <2>11, <2>12 DEF OutputWhole
<1> QED BY <1>1, <1>2, <1>3

\* The handler sends the oldest chunk the client holds.
LEMMA ForwardStep ==
  ASSUME TypeOK, OutputGrows, OutputWhole, Forward
  PROVE  OutputGrows' /\ OutputWhole'
<1> USE DEF pageVars, userVars, netVars, handlerVars, tmuxVars
<1>1. /\ srv # "done" /\ conn = "up" /\ out # <<>> /\ out' = Tail(out)
      /\ UNCHANGED <<shown, produced, dropped, unsent>> /\ (Live' <=> Live)
      /\ down' = IF ws = "null" THEN down ELSE Append(down, <<"chunk", Head(out)>>)
  BY DEF Forward, Live, Deliver
<1>2. CASE ws = "null"
  <2>1. OutputCut
    BY <1>1, <1>2 DEF OutputCut, IsData, Live
  <2> QED BY <2>1, CutGrows, CutWhole
<1>3. CASE ws # "null"
  <2>1. Live /\ Live'
    BY <1>1, <1>3 DEF Live
  <2>a. /\ Len(out) \in Nat \ {0} /\ Head(out) = out[1] /\ Len(out') = Len(out) - 1
        /\ \A i \in 1..(Len(out) - 1) : out'[i] = out[i + 1]
    BY <1>1, TailAt DEF TypeOK
  <2>b. \A i \in 1..Len(out) : out[i] \in Nat
    BY BrowserAssumption DEF TypeOK
  <2>2. /\ Len(out) \in Nat \ {0} /\ Head(out) = out[1] /\ Len(out') = Len(out) - 1
        /\ \A i \in 1..Len(out') : out'[i] = out[i + 1] /\ i + 1 \in 1..Len(out) /\ 1 < i + 1
        /\ \A i \in 1..Len(out) : out[i] \in Nat
    BY <2>a, <2>b
  <2>3. /\ Len(down) \in Nat /\ down' = Append(down, <<"chunk", out[1]>>)
        /\ down'[Len(down) + 1] = <<"chunk", out[1]>> /\ down \in Seq(Message)
    BY <1>1, <1>3, <2>2, AppendAt DEF TypeOK
  <2>4. <<"chunk", out[1]>>[1] = "chunk" /\ <<"chunk", out[1]>>[2] = out[1] /\ "chunk" # "snapshot"
    OBVIOUS
  <2>5. /\ \A i : IsData(down', i) <=> IsData(down, i) \/ i = Len(down) + 1
        /\ \A i : IsData(down, i) => i \in 1..Len(down) /\ down'[i] = down[i]
    BY <2>3, <2>4, AppendData
  <2>6. /\ \A i : IsChunk(down', i) <=> IsChunk(down, i) \/ i = Len(down) + 1
        /\ \A i : IsChunk(down, i) => i \in 1..Len(down) /\ down'[i] = down[i]
    <3>1. \A i : IsChunk(down, i) <=> IsData(down, i) /\ down[i][1] = "chunk"
      BY DEF IsChunk, IsData
    <3>2. \A i : IsChunk(down', i) <=> IsData(down', i) /\ down'[i][1] = "chunk"
      BY DEF IsChunk, IsData
    <3> QED BY <2>3, <2>4, <2>5, <3>1, <3>2
  <2>7. down'[Len(down) + 1][1] = "chunk" /\ down'[Len(down) + 1][2] = out[1]
    BY <2>3, <2>4
  <2>8. /\ \A i, j \in 1..Len(out) : i < j => out[i] < out[j]
        /\ \A i \in 1..Len(out) : out[i] <= produced
        /\ \A i : \A j \in 1..Len(out) : IsChunk(shown, i) => shown[i][2] < out[j]
        /\ \A i : \A j \in 1..Len(out) : IsChunk(down, i) => down[i][2] < out[j]
    BY <2>1 DEF OutputGrows
  <2>9. 1 \in 1..Len(out)
    BY <2>2
  <2>10. OutputGrows'
    <3>1. ASSUME NEW i, NEW j, IsChunk(down', i), IsChunk(down', j), i < j
          PROVE  down'[i][2] < down'[j][2]
      <4>a. j \in 1..Len(down) \/ j = Len(down) + 1
        BY <2>6, <3>1
      <4>0. i # Len(down) + 1
        BY <2>3, <3>1, <4>a
      <4>1. IsChunk(down, i) /\ down'[i] = down[i]
        BY <2>6, <3>1, <4>0
      <4>2. CASE IsChunk(down, j)
        BY <2>6, <3>1, <4>1, <4>2 DEF OutputGrows
      <4>3. CASE j = Len(down) + 1
        BY <2>7, <2>8, <2>9, <4>1, <4>3
      <4> QED BY <2>6, <3>1, <4>2, <4>3
    <3>2. ASSUME NEW i, NEW j, IsChunk(shown, i), IsChunk(down', j)
          PROVE  shown[i][2] < down'[j][2]
      <4>1. CASE IsChunk(down, j)
        BY <2>6, <3>2, <4>1 DEF OutputGrows
      <4>2. CASE j = Len(down) + 1
        BY <2>7, <2>8, <2>9, <3>2, <4>2
      <4> QED BY <2>6, <3>2, <4>1, <4>2
    <3>3. ASSUME NEW i, NEW j, IsChunk(down', i), IsData(down', j), down'[j][1] = "snapshot"
          PROVE  j < i
      <4>1. IsData(down, j) /\ down[j][1] = "snapshot" /\ j \in 1..Len(down)
        BY <2>4, <2>5, <2>7, <3>3
      <4>2. CASE IsChunk(down, i)
        BY <4>1, <4>2 DEF OutputGrows
      <4>3. CASE i = Len(down) + 1
        BY <2>3, <4>1, <4>3
      <4> QED BY <2>6, <3>3, <4>2, <4>3
    <3>4. ASSUME NEW i, NEW j, IsChunk(shown, i), IsData(down', j)
          PROVE  down'[j][1] # "snapshot"
      <4>1. CASE IsData(down, j)
        BY <2>5, <3>4, <4>1 DEF OutputGrows
      <4>2. CASE j = Len(down) + 1
        BY <2>4, <2>7, <4>2
      <4> QED BY <2>5, <3>4, <4>1, <4>2
    <3>5. ASSUME NEW i, IsChunk(down', i) PROVE down'[i][2] <= produced
      <4>1. CASE IsChunk(down, i)
        BY <2>6, <4>1 DEF OutputGrows
      <4>2. CASE i = Len(down) + 1
        BY <2>7, <2>8, <2>9, <4>2
      <4> QED BY <2>6, <3>5, <4>1, <4>2
    <3>6. ASSUME NEW i, NEW j \in 1..Len(out'), IsChunk(down', i) PROVE down'[i][2] < out'[j]
      <4>1. CASE IsChunk(down, i)
        BY <2>2, <2>6, <2>8, <4>1
      <4>2. CASE i = Len(down) + 1
        BY <2>2, <2>7, <2>8, <2>9, <4>2
      <4> QED BY <2>6, <3>6, <4>1, <4>2
    <3>7. ASSUME NEW j \in 1..Len(out')
          PROVE  out'[j] <= produced /\ \A i : IsChunk(shown, i) => shown[i][2] < out'[j]
      BY <2>2, <2>8
    <3>8. ASSUME NEW i \in 1..Len(out'), NEW j \in 1..Len(out'), i < j PROVE out'[i] < out'[j]
      <4>1. i + 1 < j + 1
        BY <3>8
      <4> QED BY <2>2, <2>8, <4>1
    <3>9. /\ \A i, j : IsChunk(shown, i) /\ IsChunk(shown, j) /\ i < j => shown[i][2] < shown[j][2]
          /\ \A i, j : IsChunk(shown, i) /\ IsData(shown, j) /\ shown[j][1] = "snapshot" => j < i
          /\ \A i : IsChunk(shown, i) => shown[i][2] <= produced
      BY DEF OutputGrows
    <3>10. shown' = shown /\ produced' = produced
      BY <1>1
    <3> QED BY <3>1, <3>2, <3>3, <3>4, <3>5, <3>6, <3>7, <3>8, <3>9, <3>10
            DEF OutputGrows, IsChunk, IsData
  <2>11. \A x : Seen(x)' <=> Seen(x) \/ x = out[1]
    <3>1. \A x : Seen(x)' => Seen(x) \/ x = out[1]
      BY <1>1, <2>5, <2>7 DEF Seen, IsData
    <3>2. \A x : Seen(x) => Seen(x)'
      BY <1>1, <2>5 DEF Seen, IsData
    <3>3. \A x : x = out[1] => Seen(x)'
      BY <2>5, <2>7 DEF Seen, IsData
    <3> QED BY <3>1, <3>2, <3>3
  <2>12. \A k : Has(down', k) <=> Has(down, k) \/ k = out[1]
    <3>1. \A t, k : Has(t, k) <=> \E i : IsChunk(t, i) /\ t[i][2] = k
      BY DEF Has, IsChunk
    <3>2. \A k : Has(down', k) => Has(down, k) \/ k = out[1]
      BY <2>6, <2>7, <3>1, Zenon
    <3>3. \A k : Has(down, k) => Has(down', k)
      BY <2>6, <3>1, Zenon
    <3>4. Has(down', out[1])
      BY <2>6, <2>7, <3>1, Zenon
    <3> QED BY <3>2, <3>3, <3>4, Zenon
  <2>13. /\ \A k : Holds(k) => Holds(k)' \/ k = out[1]
         /\ \A k : Holds(k)' => Holds(k) /\ k \in Nat /\ out[1] < k
         /\ \A k : Holds(k) => ~(k < out[1])
    <3>1. \A i \in 1..Len(out) : i = 1 \/ (i - 1 \in 1..Len(out') /\ out'[i - 1] = out[i])
      BY <2>2
    <3>2. \A k : Holds(k) => Holds(k)' \/ k = out[1]
      BY <3>1 DEF Holds
    <3>3. \A k : Holds(k)' => Holds(k) /\ k \in Nat /\ out[1] < k
      BY <2>2, <2>8, <2>9 DEF Holds
    <3>4. \A i \in 1..Len(out) : ~(out[i] < out[1])
      <4>1. \A i \in 1..Len(out) : i = 1 \/ 1 < i
        BY <2>2
      <4> QED BY <2>2, <2>8, <2>9, <4>1
    <3> QED BY <3>2, <3>3, <3>4 DEF Holds
  <2>14. \A k : /\ Kept(k)' <=> Kept(k) \/ k = out[1]
                /\ (Has(shown, k) \/ Has(down, k))' <=> Has(shown, k) \/ Has(down, k) \/ k = out[1]
    <3>1. \A k : Has(shown', k) <=> Has(shown, k)
      BY <1>1 DEF Has
    <3> QED BY <1>1, <2>12, <3>1 DEF Kept, Has
  <2>15. out[1] \in Nat /\ out[1] <= produced /\ produced \in Nat
    BY <2>2, <2>8, <2>9 DEF TypeOK
  <2>16. /\ \A x, y, k \in Nat :
              Seen(x) /\ (Has(shown, y) \/ Has(down, y)) /\ x < k /\ k < y => Kept(k)
         /\ \A x, k \in Nat : Seen(x) /\ x < k /\ k <= produced => Kept(k) \/ Holds(k)
         /\ \A x, k \in Nat : Holds(x) /\ x < k /\ k <= produced => k \in dropped \cup unsent \/ Holds(k)
    BY <2>1 DEF OutputWhole
  <2>17. \A y : Has(shown, y) \/ Has(down, y) => y < out[1]
    BY <2>8, <2>9 DEF Has, IsChunk
  <2>18. ASSUME NEW x \in Nat, NEW y \in Nat, NEW k \in Nat,
                (Seen(x) /\ (Has(shown, y) \/ Has(down, y)))', x < k, k < y
         PROVE  Kept(k)'
    <3>1. y <= out[1] /\ x # out[1] /\ Seen(x)
      BY <2>11, <2>14, <2>15, <2>17, <2>18
    <3>2. CASE Has(shown, y) \/ Has(down, y)
      BY <2>14, <2>16, <2>18, <3>1, <3>2
    <3>3. CASE y = out[1]
      BY <2>13, <2>14, <2>15, <2>16, <2>18, <3>1, <3>3
    <3> QED BY <2>14, <2>18, <3>2, <3>3
  <2>19. ASSUME NEW x \in Nat, NEW k \in Nat, Seen(x)', x < k, k <= produced
         PROVE  Kept(k)' \/ Holds(k)'
    <3>1. CASE Seen(x)
      BY <2>13, <2>14, <2>16, <2>19, <3>1
    <3>2. CASE x = out[1]
      <4>1. Holds(x)
        BY <2>9, <3>2 DEF Holds
      <4>2. k \in dropped \cup unsent \/ Holds(k)
        BY <2>16, <2>19, <4>1
      <4> QED BY <2>13, <2>14, <2>19, <3>2, <4>2 DEF Kept
    <3> QED BY <2>11, <2>19, <3>1, <3>2
  <2>20. ASSUME NEW x \in Nat, NEW k \in Nat, Holds(x)', x < k, k <= produced
         PROVE  k \in dropped \cup unsent \/ Holds(k)'
    <3>1. Holds(x) /\ out[1] < x
      BY <2>13, <2>20
    <3>2. k # out[1]
      BY <2>15, <2>20, <3>1
    <3> QED BY <2>13, <2>16, <2>20, <3>1, <3>2
  <2>21. OutputWhole'
    BY <1>1, <2>18, <2>19, <2>20 DEF OutputWhole
  <2> QED BY <2>10, <2>21
<1> QED BY <1>2, <1>3

\* The second field of a closing line is a number.
LEMMA ClosingParts ==
  ASSUME NEW m \in ClosingLine
  PROVE  m[2] \in Nat
<1>1. m \in {"session ended", "error", "disconnected"} \X {0}
  BY DEF ClosingLine
<1>2. m[2] \in {0}
  BY <1>1
<1> QED BY <1>2

\* The session writes: the client holds the chunk or drops it, or was not sent it,
\* or is not there yet and the snapshot is still to come.
LEMMA OutputChunkStep ==
  ASSUME TypeOK, OutputPlaced, OutputGrows, OutputWhole, Output
  PROVE  OutputGrows' /\ OutputWhole'
<1> USE DEF pageVars, userVars, netVars, handlerVars, tmuxVars
<1>1. /\ UNCHANGED <<shown, down, srv, conn, ws>> /\ produced' = produced + 1
      /\ srv # "done" /\ produced \in Nat
  BY DEF Output, TypeOK
<1>2. Live' <=> Live
  BY <1>1 DEF Live
<1>3. CASE srv \in {"idle", "accepted"}
  <2>1. OutputPlaced'
    BY <1>1, <1>3 DEF Output, OutputPlaced, Attached, IsData
  <2> QED BY <1>1, <1>3, <2>1, NothingSentNext
<1>4. CASE srv \notin {"idle", "accepted"}
  <2>1. \/ out' = out /\ dropped' = dropped \cup {produced + 1} /\ unsent' = unsent
        \/ out' = out /\ unsent' = unsent \cup {produced + 1} /\ dropped' = dropped
        \/ out' = Append(out, produced + 1) /\ dropped' = dropped /\ unsent' = unsent
    <3>1. Attached
      BY <1>1, <1>4 DEF Attached, TypeOK, Handler
    <3>2. Emit(produced + 1) \/ (UNCHANGED <<out, dropped>> /\ unsent' = unsent \cup {produced + 1})
      BY <1>1, <3>1 DEF Output
    <3>3. Emit(produced + 1) => unsent' = unsent \/ unsent' = unsent \cup {produced + 1}
      BY <1>1, <3>1 DEF Output
    <3> QED BY <1>1, <3>1, Zenon DEF Output, Emit
  <2>2. /\ Len(out) \in Nat
        /\ \A i \in 1..Len(out) : i \in 1..Len(out') /\ out'[i] = out[i]
        /\ \A i \in 1..Len(out') : i \in 1..Len(out) \/ (i = Len(out) + 1 /\ out'[i] = produced + 1)
        /\ out' # out => Len(out) + 1 \in 1..Len(out') /\ out'[Len(out) + 1] = produced + 1
    <3>1. Len(out) \in Nat
      BY DEF TypeOK
    <3>2. CASE out' = out
      BY <3>1, <3>2
    <3>3. CASE out' = Append(out, produced + 1)
      <4>1. /\ Len(out') = Len(out) + 1 /\ out'[Len(out) + 1] = produced + 1
            /\ \A i \in 1..Len(out) : out'[i] = out[i]
            /\ \A i \in 1..Len(out') : i \in 1..Len(out) \/ i = Len(out) + 1
        BY <3>3, AppendAt DEF TypeOK
      <4>2. Len(out) + 1 \in 1..Len(out') /\ \A i \in 1..Len(out) : i \in 1..Len(out')
        BY <3>1, <4>1
      <4> QED BY <3>1, <4>1, <4>2
    <3> QED BY <2>1, <3>2, <3>3
  <2>3. \A i \in 1..Len(out) : out[i] \in Nat
    BY BrowserAssumption DEF TypeOK
  <2>4. OutputGrows'
    <3>1. \A i : IsChunk(shown, i) => shown[i][2] < produced + 1 /\ shown[i][2] <= produced + 1
      <4>1. \A i : IsChunk(shown, i) => shown[i][2] \in Nat
        <5>1. ASSUME NEW i, IsChunk(shown, i) PROVE shown[i][2] \in Nat
          <6>1. i \in 1..Len(shown) /\ shown[i][1] = "chunk"
            BY <5>1 DEF IsChunk
          <6>2. shown[i] \in Message \/ shown[i] \in ClosingLine
            BY <6>1 DEF TypeOK
          <6>3. shown[i] \in ClosingLine => shown[i][2] \in Nat
            BY ClosingParts
          <6> QED BY <6>2, <6>3, MessageParts
        <5> QED BY <5>1
      <4> QED BY <1>1, <4>1 DEF OutputGrows
    <3>2. \A i : IsChunk(down, i) => down[i][2] < produced + 1 /\ down[i][2] <= produced + 1
      <4>1. \A i : IsChunk(down, i) => down[i][2] \in Nat
        <5>1. ASSUME NEW i, IsChunk(down, i) PROVE down[i][2] \in Nat
          <6>1. down[i] \in Message
            BY <5>1 DEF IsChunk, TypeOK
          <6> QED BY <6>1, MessageParts
        <5> QED BY <5>1
      <4> QED BY <1>1, <4>1 DEF OutputGrows
    <3>3. ASSUME Live
          PROVE  /\ \A i, j \in 1..Len(out') : i < j => out'[i] < out'[j]
                 /\ \A i \in 1..Len(out') : out'[i] <= produced + 1
                 /\ \A i : \A j \in 1..Len(out') : IsChunk(shown, i) => shown[i][2] < out'[j]
                 /\ \A i : \A j \in 1..Len(out') : IsChunk(down, i) => down[i][2] < out'[j]
      <4>1. /\ \A i, j \in 1..Len(out) : i < j => out[i] < out[j]
            /\ \A i \in 1..Len(out) : out[i] <= produced
            /\ \A i : \A j \in 1..Len(out) : IsChunk(shown, i) => shown[i][2] < out[j]
            /\ \A i : \A j \in 1..Len(out) : IsChunk(down, i) => down[i][2] < out[j]
        BY <3>3 DEF OutputGrows
      <4>2. ASSUME NEW i \in 1..Len(out'), NEW j \in 1..Len(out'), i < j PROVE out'[i] < out'[j]
        <5>1. i \in 1..Len(out)
          BY <2>2, <4>2
        <5> QED BY <1>1, <2>2, <2>3, <4>1, <4>2, <5>1
      <4>3. ASSUME NEW i \in 1..Len(out') PROVE out'[i] <= produced + 1
        BY <1>1, <2>2, <2>3, <4>1
      <4>4. ASSUME NEW j \in 1..Len(out'), NEW i, IsChunk(shown, i) PROVE shown[i][2] < out'[j]
        BY <2>2, <3>1, <4>1, <4>4
      <4>5. ASSUME NEW j \in 1..Len(out'), NEW i, IsChunk(down, i) PROVE down[i][2] < out'[j]
        BY <2>2, <3>2, <4>1, <4>5
      <4> QED BY <4>2, <4>3, <4>4, <4>5
    <3> QED BY <1>1, <1>2, <3>1, <3>2, <3>3 DEF OutputGrows, IsChunk, IsData
  <2>5. /\ \A k : Holds(k) => Holds(k)'
        /\ \A k : Holds(k)' => Holds(k) \/ k = produced + 1
        /\ \A k : k = produced + 1 => k \in (dropped \cup unsent)' \/ Holds(k)'
        /\ \A k : k \in dropped \cup unsent => k \in (dropped \cup unsent)'
    BY <2>1, <2>2 DEF Holds
  <2>6. \A k : /\ Seen(k)' <=> Seen(k)
               /\ (Has(shown, k) \/ Has(down, k))' <=> Has(shown, k) \/ Has(down, k)
               /\ Kept(k) => Kept(k)'
               /\ k \in (dropped \cup unsent)' => Kept(k)'
    BY <1>1, <2>5 DEF Seen, Has, Kept, IsData
  <2>7. \A x, y, k \in Nat :
          Seen(x)' /\ (Has(shown, y) \/ Has(down, y))' /\ x < k /\ k < y => Kept(k)'
    BY <2>6 DEF OutputWhole
  <2>8. ASSUME Live, NEW k \in Nat, k <= produced + 1
        PROVE  k <= produced \/ k = produced + 1
    BY <1>1, <2>8
  <2>9. ASSUME Live, NEW x \in Nat, NEW k \in Nat, Seen(x)', x < k, k <= produced + 1
        PROVE  Kept(k)' \/ Holds(k)'
    <3>1. CASE k <= produced
      BY <2>5, <2>6, <2>9, <3>1 DEF OutputWhole
    <3> QED BY <2>5, <2>6, <2>8, <2>9, <3>1
  <2>10. ASSUME Live, NEW x \in Nat, NEW k \in Nat, Holds(x)', x < k, k <= produced + 1
         PROVE  k \in (dropped \cup unsent)' \/ Holds(k)'
    <3>1. CASE k <= produced
      <4>1. Holds(x)
        BY <1>1, <2>5, <2>10, <3>1
      <4> QED BY <2>5, <2>10, <3>1, <4>1 DEF OutputWhole
    <3> QED BY <2>5, <2>8, <2>10, <3>1
  <2>11. OutputWhole'
    BY <1>1, <1>2, <2>7, <2>9, <2>10 DEF OutputWhole
  <2> QED BY <2>4, <2>11
<1> QED BY <1>3, <1>4

\* Every step keeps the order and the wholeness of the output.
LEMMA OutputStep ==
  ASSUME TypeOK, OutputPlaced, OutputPlaced', OutputGrows, OutputWhole, [Next]_vars
  PROVE  OutputGrows' /\ OutputWhole'
<1>1. CASE Accept
  <2>1. srv' \in {"idle", "accepted"}
    BY <1>1 DEF Accept, To
  <2> QED BY <2>1, NothingSentNext
<1>2. CASE \/ OnOpen \/ OnExitOrError \/ OnClose \/ OnObserve \/ FitFires \/ Close \/ BoxMoves
           \/ Refuse \/ Attach \/ AttachFails \/ StartReading \/ Exit \/ WriteFails
           \/ HandlerCancelled \/ IdleTimeout \/ ReadInput \/ ReadTooLong \/ ReadResize
           \/ ReadFails \/ Breaks \/ SessionEnds \/ UNCHANGED vars
           \/ \E n \in InputSizes : Type(n)
  BY <1>2, CutSteps, CutGrows, CutWhole
<1> QED BY <1>1, <1>2, ReadSteps, SnapshotStep, ForwardStep, OutputChunkStep
  DEF Next, PageEvent, PageTimer, User, Handle, ReadLoop, Session

\* What OneClosingLine is to a page, OutputWhole is to its reader: a gap between two
\* lines is between two chunks, and the numbers in it are not on the page.
LEMMA ShownContinues ==
  ASSUME TypeOK, OutputPlaced, OutputGrows, OutputWhole, OneClosingLine
  PROVE  OutputContinues
<1>a. ASSUME NEW i \in 2..Len(shown), shown[i-1][1] = "chunk", shown[i][1] = "snapshot"
      PROVE  FALSE
  <2>1. IsChunk(shown, i - 1) /\ IsData(shown, i) /\ ~(i < i - 1)
    BY <1>a DEF TypeOK, IsChunk, IsData
  <2> QED BY <1>a, <2>1 DEF OutputGrows
<1> SUFFICES ASSUME NEW i \in 2..Len(shown), shown[i][1] = "chunk"
               PROVE  /\ shown[i-1][1] = "chunk" => shown[i-1][2] < shown[i][2]
                      /\ (shown[i-1][2] + 1)..(shown[i][2] - 1) \subseteq dropped \cup unsent
  BY <1>a, Zenon DEF OutputContinues
<1> DEFINE h == i - 1
<1>1. Len(shown) \in Nat /\ h \in 1..Len(shown) /\ i \in 1..Len(shown) /\ h < i /\ h # Len(shown)
  BY DEF TypeOK
<1>2. IsChunk(shown, i) /\ IsData(shown, i)
  BY <1>1 DEF IsChunk, IsData
<1>3. IsData(shown, h)
  BY <1>1 DEF OutputPlaced, OneClosingLine
<1>4. shown[h][1] = "chunk" => shown[h][2] < shown[i][2]
  BY <1>1, <1>2, <1>3 DEF OutputGrows, IsChunk
<1>5. shown[h][2] \in Nat /\ shown[i][2] \in Nat
  <2>1. \A j \in 1..Len(shown) : shown[j] \in Message \/ shown[j] \in ClosingLine
    BY DEF TypeOK
  <2>2. \A m : m \in ClosingLine => m[2] \in Nat
    BY ClosingParts
  <2> QED BY <1>1, <2>1, <2>2, MessageParts
<1>6. ASSUME NEW k \in (shown[h][2] + 1)..(shown[i][2] - 1)
      PROVE  k \in dropped \cup unsent
  <2>1. k \in Nat /\ shown[h][2] < k /\ k < shown[i][2]
    BY <1>5
  <2>2. Seen(shown[h][2]) /\ Has(shown, shown[i][2])
    BY <1>2, <1>3 DEF Seen, Has, IsChunk
  <2>3. Kept(k)
    BY <1>5, <2>1, <2>2 DEF OutputWhole
  <2>4. ~Has(down, k)
    <3>1. ASSUME NEW j, IsChunk(down, j), down[j][2] = k PROVE FALSE
      <4>1. shown[i][2] < k
        BY <1>2, <3>1 DEF OutputGrows
      <4> QED BY <1>5, <2>1, <4>1
    <3> QED BY <3>1 DEF Has, IsChunk
  <2>5. ~Has(shown, k)
    <3>1. ASSUME NEW j, IsChunk(shown, j), shown[j][2] = k PROVE FALSE
      <4>1. j \in 1..Len(shown)
        BY <3>1 DEF IsChunk
      <4>2. ~(i < j)
        <5>1. i < j => shown[i][2] < k
          BY <1>2, <3>1 DEF OutputGrows
        <5> QED BY <1>5, <2>1, <5>1
      <4>3. j # i
        BY <1>5, <2>1, <3>1
      <4>4. ~(j < h)
        <5>5. shown[h][1] = "snapshot" => h < j
          BY <1>3, <3>1 DEF OutputGrows
        <5>1. j < h => shown[h][1] # "snapshot"
          BY <1>1, <4>1, <5>5
        <5>2. j < h /\ IsChunk(shown, h) => k < shown[h][2]
          BY <3>1 DEF OutputGrows
        <5>3. shown[h][1] # "snapshot" => IsChunk(shown, h)
          BY <1>3 DEF IsData, IsChunk
        <5>4. ~(k < shown[h][2])
          BY <1>5, <2>1
        <5> QED BY <5>1, <5>2, <5>3, <5>4
      <4>5. j # h
        BY <1>5, <2>1, <3>1
      <4> QED BY <1>1, <4>1, <4>2, <4>3, <4>4, <4>5
    <3> QED BY <3>1 DEF Has, IsChunk
  <2> QED BY <2>3, <2>4, <2>5 DEF Kept
<1> QED BY <1>4, <1>6

-----------------------------------------------------------------------------
(* Input *)

\* A message is added to those in flight to the dashboard, or the first is read.
LEMMA AppendUp ==
  ASSUME TypeOK, NEW m, up' = Append(up, m)
  PROVE  /\ Len(up) \in Nat /\ up'[Len(up) + 1] = m
         /\ \A i : i \in 1..Len(up') <=> i \in 1..Len(up) \/ i = Len(up) + 1
         /\ \A i \in 1..Len(up) : up'[i] = up[i]
<1>1. up \in Seq(Message)
  BY DEF TypeOK
<1>2. /\ Len(up) \in Nat /\ Len(up') = Len(up) + 1 /\ up'[Len(up) + 1] = m
      /\ \A i \in 1..Len(up) : up'[i] = up[i]
      /\ \A i \in 1..Len(up') : i \in 1..Len(up) \/ i = Len(up) + 1
  BY <1>1, AppendAt
<1>3. \A i : i \in 1..Len(up) \/ i = Len(up) + 1 => i \in 1..Len(up')
  BY <1>2
<1> QED BY <1>2, <1>3

\* What is in flight to the handler after it took a message.
LEMMA TailUp ==
  ASSUME TypeOK, up # <<>>, up' = Tail(up)
  PROVE  /\ Len(up) \in Nat \ {0} /\ Head(up) = up[1] /\ Head(up) \in Message
         /\ \A i : i \in 1..Len(up') <=> i \in Nat \ {0} /\ i + 1 \in 1..Len(up)
         /\ \A i \in 1..Len(up') : up'[i] = up[i + 1]
<1>1. up \in Seq(Message)
  BY DEF TypeOK
<1>2. /\ Len(up) \in Nat \ {0} /\ Len(up') = Len(up) - 1 /\ Head(up) = up[1]
      /\ \A i \in 1..(Len(up) - 1) : up'[i] = up[i + 1]
  BY <1>1, TailAt
<1>3. \A i : i \in 1..Len(up') <=> i \in Nat \ {0} /\ i + 1 \in 1..Len(up)
  BY <1>2
<1>4. Head(up) \in Message
  BY <1>1
<1> QED BY <1>2, <1>3, <1>4

\* Shutdown appends a close, or nothing.
LEMMA ShutdownUp ==
  ASSUME TypeOK, Shutdown
  PROVE  up' = up \/ up' = Append(up, <<"close", 0>>)
BY DEF Shutdown

\* The inputs in flight stay, and what was entered; the connection stays over.
InputKept ==
  /\ \A i : IsInput(i)' <=> IsInput(i)
  /\ \A i : IsInput(i) => up'[i] = up[i]
  /\ UNCHANGED <<typed, entered, canWrite>>
  /\ alive' => alive
  /\ conn = "over" => conn' = "over"

\* A step that leaves alone what was typed, what is in flight and what was
\* entered keeps the order and the wholeness of the input.
LEMMA KeptInput ==
  ASSUME InputGrows, InputWhole, InputKept, ws' = "open" => conn' \in {"up", "over"}
  PROVE  InputGrows' /\ InputWhole'
<1>1. \A k : (Sent(k)' <=> Sent(k)) /\ (Got(k)' <=> Got(k))
  BY DEF InputKept, Sent, Got
<1>2. InputGrows'
  BY DEF InputKept, InputGrows
<1>3. InputWhole'
  BY <1>1 DEF InputKept, InputWhole
<1> QED BY <1>2, <1>3

\* A page with an open socket has a connection, or had one.
LEMMA OpenHasConn ==
  ASSUME TypeOK, OutputPlaced, InputWhole, [Next]_vars
  PROVE  /\ ws' = "open" => conn' \in {"up", "over"}
         /\ conn = "over" => conn' = "over"
<1> USE DEF pageVars, userVars, netVars, handlerVars, tmuxVars
<1>1. CASE UNCHANGED <<ws, conn>>
  BY <1>1 DEF InputWhole
<1>2. CASE OnOpen
  BY <1>2 DEF OnOpen
<1>3. CASE OnExitOrError
  BY <1>3 DEF OutputPlaced, InputWhole, OnExitOrError, Receive, Dim, Shutdown
<1>4. CASE OnClose
  BY <1>4 DEF OutputPlaced, InputWhole, OnClose, Dim, Shutdown
<1>5. CASE Close
  BY <1>5 DEF OutputPlaced, InputWhole, Close, Shutdown
<1>6. CASE Accept
  BY <1>6 DEF OutputPlaced, InputWhole, Accept, To
<1>7. CASE Refuse
  BY <1>7 DEF OutputPlaced, InputWhole, Refuse, To
<1>8. CASE AttachFails
  BY <1>8 DEF OutputPlaced, InputWhole, AttachFails, Return, To, Deliver
<1>9. CASE Exit
  BY <1>9 DEF OutputPlaced, InputWhole, Exit, Return, To, Deliver, OutClosed
<1>10. CASE WriteFails
  BY <1>10 DEF OutputPlaced, InputWhole, WriteFails, Return, To
<1>11. CASE HandlerCancelled
  BY <1>11 DEF OutputPlaced, InputWhole, HandlerCancelled, Return, To, Cancelled
<1>12. CASE IdleTimeout
  BY <1>12 DEF OutputPlaced, InputWhole, IdleTimeout, Return, To
<1>13. CASE ReadTooLong
  BY <1>13 DEF OutputPlaced, InputWhole, ReadTooLong, Reads
<1>14. CASE Breaks
  BY <1>14 DEF OutputPlaced, InputWhole, Breaks
<1>15. CASE OnBinary \/ OnHello \/ OnObserve \/ FitFires \/ (\E n \in InputSizes : Type(n))
         \/ BoxMoves \/ Attach \/ Snapshot \/ StartReading \/ Forward \/ ReadInput \/
         ReadResize \/ ReadFails \/ Output \/ SessionEnds
  BY <1>15, <1>1 DEF OnBinary, OnHello, OnObserve, FitFires, Type, BoxMoves, Attach,
      Snapshot, StartReading, Forward, ReadInput, ReadResize, ReadFails, Output, SessionEnds
<1>16. CASE UNCHANGED vars
  BY <1>16, <1>1 DEF vars
<1> QED
  BY <1>1, <1>2, <1>3, <1>4, <1>5, <1>6, <1>7, <1>8, <1>9, <1>10, <1>11, <1>12, <1>13, <1>14,
      <1>15, <1>16
  DEF Next, PageEvent, PageTimer, User, Handle, ReadLoop, Session

\* Every step but typing and reading is such a step.
LEMMA KeptInputSteps ==
  ASSUME TypeOK, OutputPlaced, InputWhole, [Next]_vars, ~ReadInput, ~ReadResize,
         ~\E n \in InputSizes : Type(n)
  PROVE  InputKept
<1> USE DEF pageVars, userVars, netVars, handlerVars, tmuxVars
<1>1. conn = "over" => conn' = "over"
  BY OpenHasConn
<1>8. UNCHANGED <<typed, entered, canWrite>>
  BY DEF Next, PageEvent, PageTimer, User, Handle, ReadLoop, Session, vars,
    OnOpen, OnBinary, OnHello, OnExitOrError, OnClose, OnObserve, FitFires, Close,
    BoxMoves, Accept, Refuse, Attach, AttachFails, Snapshot, StartReading, Forward,
    Exit, WriteFails, HandlerCancelled, IdleTimeout, ReadTooLong, ReadFails, Breaks,
    Output, SessionEnds, Return
<1>9. alive' = alive \/ SessionEnds
  BY DEF Next, PageEvent, PageTimer, User, Handle, ReadLoop, Session, vars,
    OnOpen, OnBinary, OnHello, OnExitOrError, OnClose, OnObserve, FitFires, Close,
    BoxMoves, Accept, Refuse, Attach, AttachFails, Snapshot, StartReading, Forward,
    Exit, WriteFails, HandlerCancelled, IdleTimeout, ReadTooLong, ReadFails, Breaks,
    Output, Return
<1>2. UNCHANGED <<typed, entered, canWrite>> /\ (alive' => alive)
  BY <1>8, <1>9 DEF SessionEnds
<1>3. CASE up' = up
  BY <1>1, <1>2, <1>3 DEF InputKept, IsInput
<1>4. ASSUME NEW m, up' = Append(up, m), m[1] # "input" PROVE InputKept
  <2>1. \A i : IsInput(i)' <=> IsInput(i)
    BY <1>4, AppendUp DEF IsInput
  <2>2. \A i : IsInput(i) => up'[i] = up[i]
    BY <1>4, AppendUp DEF IsInput
  <2> QED BY <1>1, <1>2, <2>1, <2>2 DEF InputKept
<1>5. CASE OnExitOrError \/ OnClose \/ Close
  <2>1. up' = up \/ up' = Append(up, <<"close", 0>>)
    BY <1>5, ShutdownUp DEF OnExitOrError, OnClose, Close
  <2>2. <<"close", 0>>[1] # "input"
    OBVIOUS
  <2> QED BY <1>3, <1>4, <2>1, <2>2
<1>6. CASE FitFires
  <2>1. up' = up \/ up' = Append(up, <<"resize", rows'>>)
    BY <1>6 DEF FitFires, Send
  <2>2. <<"resize", rows'>>[1] # "input"
    OBVIOUS
  <2> QED BY <1>3, <1>4, <2>1, <2>2
<1>7. up' = up \/ OnExitOrError \/ OnClose \/ Close \/ FitFires
  BY DEF Next, PageEvent, PageTimer, User, Handle, ReadLoop, Session, vars,
    OnOpen, OnBinary, OnHello, OnObserve, BoxMoves, Accept, Refuse, Attach, AttachFails,
    Snapshot, StartReading, Forward, Exit, WriteFails, HandlerCancelled, IdleTimeout,
    ReadTooLong, ReadFails, Breaks, Output, SessionEnds, Return
<1> QED BY <1>3, <1>5, <1>6, <1>7

\* What was typed, in flight or entered is numbered by a natural number.
LEMMA InputNumbers ==
  ASSUME TypeOK
  PROVE  /\ \A i : IsInput(i) => i \in 1..Len(up) /\ up[i][2] \in Nat
         /\ \A j \in 1..Len(entered) : entered[j] \in Nat
         /\ Len(typed) \in Nat /\ Len(up) \in Nat /\ Len(entered) \in Nat
<1>1. \A i \in 1..Len(up) : up[i] \in Message
  BY DEF TypeOK
<1>2. \A i : IsInput(i) => i \in 1..Len(up) /\ up[i][2] \in Nat
  BY <1>1, MessageParts DEF IsInput
<1>3. \A j \in 1..Len(entered) : entered[j] \in Nat
  BY BrowserAssumption DEF TypeOK
<1>4. Len(typed) \in Nat /\ Len(up) \in Nat /\ Len(entered) \in Nat
  BY DEF TypeOK
<1> QED BY <1>2, <1>3, <1>4

\* What is typed next goes behind everything entered or in flight, or is lost
\* with a connection that is over.
LEMMA TypeStep ==
  ASSUME TypeOK, PageShut, InputGrows, InputWhole, NEW n \in InputSizes, Type(n)
  PROVE  InputGrows' /\ InputWhole'
<1> USE DEF pageVars, userVars, netVars, handlerVars, tmuxVars
<1> DEFINE new == Len(typed) + 1
<1>1. /\ onData /\ UNCHANGED <<ws, conn, entered, canWrite, alive>>
      /\ typed' = Append(typed, n)
      /\ up' = IF ws = "open" /\ conn = "up" THEN Append(up, <<"input", Len(typed')>>) ELSE up
  BY DEF Type, Send
<1>2. /\ Len(typed) \in Nat /\ Len(typed') = new
      /\ \A k \in 1..Len(typed) : typed'[k] = typed[k]
      /\ \A k \in 1..Len(typed') : k \in 1..Len(typed) \/ k = new
  BY <1>1, AppendAt DEF TypeOK
<1>3. ws = "open" /\ conn \in {"up", "over"}
  BY <1>1 DEF PageShut, InputWhole
<1>4. \A k : Got(k)' <=> Got(k)
  BY <1>1 DEF Got
<1>5. /\ \A i : IsInput(i) => i \in 1..Len(up) /\ up[i][2] \in Nat /\ up[i][2] < new
      /\ \A j \in 1..Len(entered) : entered[j] \in Nat /\ entered[j] < new
  BY <1>2, InputNumbers DEF InputGrows
<1>6. \A i : IsInput(i) => up[i][2] <= new
  BY <1>2, <1>5
<1>7. \A j \in 1..Len(entered) : entered[j] <= new
  BY <1>2, <1>5
<1>8. \A j \in 1..Len(entered) : \A k \in 1..(entered[j] - 1) : k \in 1..Len(typed)
  BY <1>2, <1>5
<1>9. \A j \in 1..Len(entered) : \A k \in 1..(entered[j] - 1) : typed'[k] > MaxInput \/ Got(k)
  BY <1>2, <1>8 DEF InputWhole
<1>10. CASE conn = "up"
  <2>1. up' = Append(up, <<"input", new>>)
    BY <1>1, <1>2, <1>3, <1>10
  <2>2. /\ Len(up) \in Nat /\ up'[Len(up) + 1] = <<"input", new>>
        /\ \A i : i \in 1..Len(up') <=> i \in 1..Len(up) \/ i = Len(up) + 1
        /\ \A i \in 1..Len(up) : up'[i] = up[i]
    BY <2>1, AppendUp
  <2>3. <<"input", new>>[1] = "input" /\ <<"input", new>>[2] = new
    OBVIOUS
  <2>4. up'[Len(up) + 1][1] = "input" /\ up'[Len(up) + 1][2] = new
    BY <2>2, <2>3
  <2>5. /\ \A i : IsInput(i)' <=> IsInput(i) \/ i = Len(up) + 1
        /\ \A i : IsInput(i) => up'[i] = up[i]
    BY <2>2, <2>4 DEF IsInput
  <2>6. /\ \A k : Sent(k) => Sent(k)'
        /\ \A k : k = new => Sent(k)'
    BY <2>4, <2>5 DEF Sent
  <2>7. ASSUME NEW i, NEW j, IsInput(i)', IsInput(j)', i < j PROVE up'[i][2] < up'[j][2]
    <3>1. CASE IsInput(j)
      <4>1. i # Len(up) + 1
        BY <1>5, <2>2, <2>7, <3>1
      <4> QED BY <2>5, <2>7, <3>1, <4>1 DEF InputGrows
    <3>2. CASE j = Len(up) + 1
      <4>1. i # Len(up) + 1
        BY <2>2, <2>7, <3>2
      <4> QED BY <1>5, <2>4, <2>5, <2>7, <3>2, <4>1
    <3> QED BY <2>5, <2>7, <3>1, <3>2
  <2>8. ASSUME NEW i, NEW j \in 1..Len(entered), IsInput(i)' PROVE entered[j] < up'[i][2]
    BY <1>5, <2>4, <2>5, <2>8 DEF InputGrows
  <2>9. ASSUME NEW i, IsInput(i)' PROVE up'[i][2] <= new
    BY <1>2, <1>6, <2>4, <2>5, <2>9
  <2>10. InputGrows'
    BY <1>1, <1>2, <1>7, <2>7, <2>8, <2>9 DEF InputGrows, IsInput
  <2>11. canWrite /\ alive => \A k \in 1..Len(typed) : typed[k] > MaxInput \/ Got(k) \/ Sent(k)
    BY <1>10 DEF InputWhole
  <2>12. ASSUME canWrite, alive, NEW k \in 1..Len(typed')
         PROVE  typed'[k] > MaxInput \/ Got(k) \/ Sent(k)'
    BY <1>2, <2>6, <2>11, <2>12
  <2> QED BY <1>1, <1>3, <1>4, <1>9, <2>10, <2>12 DEF InputWhole
<1>11. CASE conn # "up"
  <2>1. up' = up /\ conn = "over"
    BY <1>1, <1>3, <1>11
  <2>2. \A k : Sent(k)' <=> Sent(k)
    BY <2>1 DEF Sent, IsInput
  <2>3. InputGrows'
    BY <1>1, <1>2, <1>6, <1>7, <2>1 DEF InputGrows, IsInput
  <2>4. \A m \in Nat : Got(m) \/ Sent(m) => m < new
    BY <1>5 DEF Got, Sent
  <2>5. ASSUME canWrite, alive, NEW k \in 1..Len(typed')
        PROVE  \/ typed'[k] > MaxInput \/ Got(k) \/ Sent(k)
               \/ \A m \in Nat : Got(m) \/ Sent(m) => m < k
    <3>1. CASE k \in 1..Len(typed)
      BY <1>2, <2>5, <3>1 DEF InputWhole
    <3>2. CASE k = new
      BY <2>4, <3>2
    <3> QED BY <1>2, <3>1, <3>2
  <2> QED BY <1>1, <1>3, <1>4, <1>9, <2>1, <2>2, <2>3, <2>5 DEF InputWhole
<1> QED BY <1>10, <1>11

\* A message other than an input is read.
LEMMA ReadOtherStep ==
  ASSUME TypeOK, InputGrows, InputWhole, ReadResize
  PROVE  InputGrows' /\ InputWhole'
<1> USE DEF pageVars, userVars, netVars, handlerVars, tmuxVars
<1>1. /\ up # <<>> /\ up' = Tail(up) /\ Head(up)[1] = "resize"
      /\ UNCHANGED <<ws, conn, typed, entered, canWrite, alive>>
  BY DEF ReadResize, Reads
<1>2. /\ Len(up) \in Nat \ {0} /\ Head(up) = up[1]
      /\ \A i : i \in 1..Len(up') <=> i \in Nat \ {0} /\ i + 1 \in 1..Len(up)
      /\ \A i \in 1..Len(up') : up'[i] = up[i + 1]
  BY <1>1, TailUp
<1>3. \A i : IsInput(i)' <=> i \in Nat \ {0} /\ IsInput(i + 1)
  BY <1>2 DEF IsInput
<1>4. \A i : IsInput(i)' => up'[i] = up[i + 1]
  BY <1>2 DEF IsInput
<1>5. \A k : (Got(k)' <=> Got(k)) /\ (Sent(k)' <=> Sent(k))
  <2>1. \A k : Got(k)' <=> Got(k)
    BY <1>1 DEF Got
  <2>2. \A k : Sent(k)' => Sent(k)
    BY <1>3, <1>4 DEF Sent
  <2>3. ASSUME NEW k, NEW i, IsInput(i), up[i][2] = k PROVE Sent(k)'
    <3>1. i # 1 /\ i \in 1..Len(up)
      BY <1>1, <1>2, <2>3 DEF IsInput
    <3>2. i - 1 \in Nat \ {0} /\ (i - 1) + 1 = i
      BY <1>2, <3>1
    <3>3. IsInput(i - 1)' /\ up'[i - 1] = up[i]
      BY <1>3, <1>4, <2>3, <3>2
    <3> QED BY <2>3, <3>3 DEF Sent
  <2> QED BY <2>1, <2>2, <2>3 DEF Sent
<1>6. InputGrows'
  <2>1. ASSUME NEW i, NEW j, IsInput(i)', IsInput(j)', i < j PROVE up'[i][2] < up'[j][2]
    <3>1. i + 1 < j + 1
      BY <1>3, <2>1
    <3> QED BY <1>3, <1>4, <2>1, <3>1 DEF InputGrows
  <2>2. ASSUME NEW i, IsInput(i)'
        PROVE  up'[i][2] <= Len(typed) /\ \A j \in 1..Len(entered) : entered[j] < up'[i][2]
    BY <1>3, <1>4, <2>2 DEF InputGrows
  <2> QED BY <1>1, <2>1, <2>2 DEF InputGrows, IsInput
<1>7. InputWhole'
  BY <1>1, <1>5 DEF InputWhole
<1> QED BY <1>6, <1>7

\* The handler enters the first input in flight, whose number is the least of
\* those in flight, or drops it when it is over the limit.
LEMMA ReadInputStep ==
  ASSUME TypeOK, InputGrows, InputWhole, ReadInput
  PROVE  InputGrows' /\ InputWhole'
<1> USE DEF pageVars, userVars, netVars, handlerVars, tmuxVars
<1> DEFINE v == Head(up)[2]
<1>1. /\ up # <<>> /\ up' = Tail(up) /\ Head(up)[1] = "input"
      /\ UNCHANGED <<ws, conn, typed, canWrite, alive>>
      /\ entered' = IF canWrite /\ typed[v] <= MaxInput /\ alive
                    THEN Append(entered, v) ELSE entered
  BY DEF ReadInput, Reads, InputSize
<1>2. /\ Len(up) \in Nat \ {0} /\ Head(up) = up[1]
      /\ \A i : i \in 1..Len(up') <=> i \in Nat \ {0} /\ i + 1 \in 1..Len(up)
      /\ \A i \in 1..Len(up') : up'[i] = up[i + 1]
  BY <1>1, TailUp
<1>3. \A i : IsInput(i)' <=> i \in Nat \ {0} /\ IsInput(i + 1)
  BY <1>2 DEF IsInput
<1>4. \A i : IsInput(i)' => up'[i] = up[i + 1]
  BY <1>2 DEF IsInput
<1>5. IsInput(1) /\ up[1][2] = v /\ v \in Nat
  <2>1. 1 \in 1..Len(up)
    BY <1>2
  <2>2. IsInput(1) /\ up[1][2] = v
    BY <1>1, <1>2, <2>1 DEF IsInput
  <2> QED BY <2>2, InputNumbers
<1>6. /\ v <= Len(typed) /\ \A j \in 1..Len(entered) : entered[j] < v
      /\ \A i : IsInput(i)' => v < up'[i][2]
  <2>1. v <= Len(typed) /\ \A j \in 1..Len(entered) : entered[j] < v
    BY <1>5 DEF InputGrows
  <2>2. ASSUME NEW i, IsInput(i)' PROVE v < up'[i][2]
    <3>1. 1 < i + 1 /\ IsInput(i + 1)
      BY <1>3, <2>2
    <3> QED BY <1>4, <1>5, <2>2, <3>1 DEF InputGrows
  <2> QED BY <2>1, <2>2
<1>7. \A i, j : IsInput(i)' /\ IsInput(j)' /\ i < j => up'[i][2] < up'[j][2]
  <2>1. ASSUME NEW i, NEW j, IsInput(i)', IsInput(j)', i < j PROVE up'[i][2] < up'[j][2]
    <3>1. i + 1 < j + 1
      BY <1>3, <2>1
    <3> QED BY <1>3, <1>4, <2>1, <3>1 DEF InputGrows
  <2> QED BY <2>1
<1>8. \A i : IsInput(i)' =>
        up'[i][2] <= Len(typed) /\ \A j \in 1..Len(entered) : entered[j] < up'[i][2]
  BY <1>3, <1>4 DEF InputGrows
<1>9. \A k : Sent(k) <=> Sent(k)' \/ k = v
  <2>1. \A k : Sent(k)' => Sent(k)
    BY <1>3, <1>4 DEF Sent
  <2>2. ASSUME NEW k, NEW i, IsInput(i), up[i][2] = k PROVE Sent(k)' \/ k = v
    <3>1. CASE i = 1
      BY <1>5, <2>2, <3>1
    <3>2. CASE i # 1
      <4>1. i - 1 \in Nat \ {0} /\ (i - 1) + 1 = i
        BY <2>2, <3>2, InputNumbers
      <4>2. IsInput(i - 1)' /\ up'[i - 1] = up[i]
        BY <1>3, <1>4, <2>2, <4>1
      <4> QED BY <2>2, <4>2 DEF Sent
    <3> QED BY <3>1, <3>2
  <2>3. Sent(v)
    BY <1>5 DEF Sent
  <2> QED BY <2>1, <2>2, <2>3 DEF Sent
<1>10. CASE canWrite /\ typed[v] <= MaxInput /\ alive
  <2>1. /\ Len(entered) \in Nat /\ entered'[Len(entered) + 1] = v
        /\ Len(entered') = Len(entered) + 1
        /\ \A j \in 1..Len(entered) : entered'[j] = entered[j]
        /\ \A j \in 1..Len(entered') : j \in 1..Len(entered) \/ j = Len(entered) + 1
    <3>1. entered \in Seq(1..MaxActs)
      BY DEF TypeOK
    <3>2. entered' = Append(entered, v)
      BY <1>1, <1>10, Zenon
    <3> QED BY <3>1, <3>2, AppendAt
  <2>2. \A k : Got(k)' <=> Got(k) \/ k = v
    <3>1. Len(entered) + 1 \in 1..Len(entered') /\ \A j \in 1..Len(entered) : j \in 1..Len(entered')
      BY <2>1
    <3> QED BY <2>1, <3>1 DEF Got
  <2>3. ASSUME NEW i \in 1..Len(entered'), NEW j \in 1..Len(entered'), i < j
        PROVE  entered'[i] < entered'[j]
    <3>1. i \in 1..Len(entered)
      BY <2>1, <2>3
    <3> QED BY <1>6, <2>1, <2>3, <3>1 DEF InputGrows
  <2>4. ASSUME NEW i, NEW j \in 1..Len(entered'), IsInput(i)' PROVE entered'[j] < up'[i][2]
    BY <1>6, <1>8, <2>1, <2>4
  <2>5. ASSUME NEW j \in 1..Len(entered') PROVE entered'[j] <= Len(typed)
    BY <1>6, <2>1 DEF InputGrows
  <2>6. InputGrows'
    BY <1>1, <1>7, <1>8, <2>3, <2>4, <2>5 DEF InputGrows, IsInput
  <2>7. ASSUME NEW k \in 1..(v - 1) PROVE typed[k] > MaxInput \/ Got(k)
    <3>1. k \in 1..Len(typed) /\ k \in Nat /\ k < v
      BY <1>5, <1>6, InputNumbers
    <3>2. ~Sent(k)
      <4>1. ASSUME NEW i, IsInput(i), up[i][2] = k PROVE FALSE
        <5>1. i = 1 \/ (i \in 1..Len(up) /\ 1 < i)
          BY <4>1, InputNumbers
        <5>2. 1 < i => v < k
          BY <1>5, <4>1 DEF InputGrows
        <5> QED BY <1>5, <3>1, <4>1, <5>1, <5>2
      <4> QED BY <4>1 DEF Sent
    <3>3. ~(\A m \in Nat : Got(m) \/ Sent(m) => m < k)
      BY <1>5, <1>9, <3>1
    <3> QED BY <1>10, <3>1, <3>2, <3>3 DEF InputWhole
  <2>8. ASSUME NEW j \in 1..Len(entered'), NEW k \in 1..(entered'[j] - 1)
        PROVE  typed[k] > MaxInput \/ Got(k)'
    BY <2>1, <2>2, <2>7, <2>8 DEF InputWhole
  <2>9. ASSUME NEW k \in 1..Len(typed)
        PROVE  \/ typed[k] > MaxInput \/ Got(k)' \/ Sent(k)'
               \/ conn = "over" /\ \A m \in Nat : Got(m)' \/ Sent(m)' => m < k
    <3>1. \/ typed[k] > MaxInput \/ Got(k) \/ Sent(k)
          \/ conn = "over" /\ \A m \in Nat : Got(m) \/ Sent(m) => m < k
      BY <1>10 DEF InputWhole
    <3> QED BY <1>9, <2>2, <3>1
  <2>10. ws' = "open" => conn' \in {"up", "over"}
    BY <1>1 DEF InputWhole
  <2>11. UNCHANGED <<conn, typed>>
    BY <1>1
  <2> QED BY <2>6, <2>8, <2>9, <2>10, <2>11 DEF InputWhole
<1>11. CASE ~(canWrite /\ typed[v] <= MaxInput /\ alive)
  <2>1. entered' = entered /\ \A k : Got(k)' <=> Got(k)
    BY <1>1, <1>11 DEF Got
  <2>2. InputGrows'
    BY <1>1, <1>7, <1>8, <2>1 DEF InputGrows, IsInput
  <2>3. canWrite /\ alive => typed[v] > MaxInput
    <3>1. v \in 1..Len(typed)
      <4>1. up[1] \in Message /\ up[1][1] = "input"
        BY <1>1, <1>2, TailUp
      <4>2. v \in 1..MaxActs
        BY <1>5, <4>1, MessageParts
      <4> QED BY <1>6, <4>2, BrowserAssumption, InputNumbers
    <3>2. typed[v] \in Nat /\ MaxInput \in Nat
      <4>1. typed[v] \in InputSizes
        BY <3>1 DEF TypeOK
      <4> QED BY <4>1, BrowserAssumption
    <3> QED BY <1>11, <3>2
  <2>4. ASSUME canWrite, alive, NEW k \in 1..Len(typed)
        PROVE  \/ typed[k] > MaxInput \/ Got(k)' \/ Sent(k)'
               \/ conn = "over" /\ \A m \in Nat : Got(m)' \/ Sent(m)' => m < k
    <3>1. \/ typed[k] > MaxInput \/ Got(k) \/ Sent(k)
          \/ conn = "over" /\ \A m \in Nat : Got(m) \/ Sent(m) => m < k
      BY <2>4 DEF InputWhole
    <3> QED BY <1>9, <2>1, <2>3, <2>4, <3>1
  <2>5. \A j \in 1..Len(entered) : \A k \in 1..(entered[j] - 1) : typed[k] > MaxInput \/ Got(k)
    BY DEF InputWhole
  <2>6. ws' = "open" => conn' \in {"up", "over"}
    BY <1>1 DEF InputWhole
  <2> QED BY <1>1, <2>1, <2>2, <2>4, <2>5, <2>6 DEF InputWhole
<1> QED BY <1>10, <1>11

\* Every step keeps the order and the wholeness of the input.
LEMMA InputStep ==
  ASSUME TypeOK, PageShut, OutputPlaced, InputGrows, InputWhole, [Next]_vars
  PROVE  InputGrows' /\ InputWhole'
<1>1. CASE \E n \in InputSizes : Type(n)
  BY <1>1, TypeStep
<1>2. CASE ~ReadInput /\ ~ReadResize /\ ~\E n \in InputSizes : Type(n)
  BY <1>2, KeptInputSteps, KeptInput, OpenHasConn
<1> QED BY <1>1, <1>2, ReadInputStep, ReadOtherStep

\* The property follows.
LEMMA EnteredInOrder ==
  ASSUME TypeOK, InputGrows, InputWhole
  PROVE  InputInOrder
<1>1. \A i, j \in 1..Len(entered) : i < j => entered[i] < entered[j]
  BY DEF InputGrows
<1>2. ASSUME NEW j \in 1..Len(entered), NEW k \in 1..(entered[j] - 1)
      PROVE  typed[k] > MaxInput \/ \E i \in 1..(j - 1) : entered[i] = k
  <2>1. typed[k] > MaxInput \/ Got(k)
    BY DEF InputWhole
  <2>2. ASSUME NEW i \in 1..Len(entered), entered[i] = k PROVE i \in 1..(j - 1)
    <3>1. entered[j] \in Nat /\ k < entered[j] /\ Len(entered) \in Nat
      BY InputNumbers
    <3>2. i # j
      BY <2>2, <3>1
    <3>3. ~(j < i)
      <4>1. j < i => entered[j] < k
        BY <1>1, <2>2
      <4> QED BY <3>1, <4>1
    <3> QED BY <3>1, <3>2, <3>3
  <2> QED BY <2>1, <2>2 DEF Got
<1> QED BY <1>1, <1>2 DEF InputInOrder

-----------------------------------------------------------------------------
(* Grids *)

\* Neither the hello in flight nor a resize is touched, nor what they are about.
GridsKept ==
  /\ \A i : IsHello(i)' => IsHello(i) /\ down'[i] = down[i]
  /\ \A i : IsResize(i)' <=> IsResize(i)
  /\ \A i : IsResize(i) => up'[i] = up[i]
  /\ UNCHANGED <<rows, early, grid>>
  /\ Greeted' => Greeted
  /\ ws' # "null" => ws # "null" /\ (Greeted' <=> Greeted)
  /\ ws' = "connecting" => ws = "connecting"
  /\ ws' = "open" /\ conn' = "up" /\ Greeted' => ws = "open" /\ conn = "up"
  /\ srv' \in {"idle", "accepted"} => srv \in {"idle", "accepted"}

\* A step that neither sends nor applies a resize nor reads hello keeps Grids.
LEMMA KeptGrids ==
  ASSUME Grids, GridsKept
  PROVE  Grids'
<1>1. /\ \A i : IsHello(i)' => IsHello(i) /\ down'[i] = down[i]
      /\ \A i : IsResize(i)' <=> IsResize(i)
      /\ \A i : IsResize(i) => up'[i] = up[i]
      /\ UNCHANGED <<rows, early, grid>>
  BY DEF GridsKept
<1>2. /\ Greeted' => Greeted
      /\ ws' # "null" => ws # "null" /\ (Greeted' <=> Greeted)
      /\ ws' = "connecting" => ws = "connecting"
      /\ ws' = "open" /\ conn' = "up" /\ Greeted' => ws = "open" /\ conn = "up"
      /\ srv' \in {"idle", "accepted"} => srv \in {"idle", "accepted"}
  BY DEF GridsKept
<1>3. /\ (ws = "connecting" => ~Greeted)'
      /\ (srv \in {"idle", "accepted"} => ~Greeted /\ \A i : ~IsHello(i))'
      /\ (\A i : IsHello(i) => ~Greeted)'
      /\ (\A i, j : IsHello(i) /\ IsHello(j) => i = j)'
  BY <1>1, <1>2 DEF Grids
<1>4. (ws # "null" /\ ~Greeted /\ ~early =>
         (\A i : ~IsResize(i)) /\ \A i : IsHello(i) => down[i][2] = grid)'
  BY <1>1, <1>2 DEF Grids
<1>5. ASSUME (ws = "open" /\ Greeted /\ conn = "up" /\ ~early /\ TermSize(rows) = rows)'
      PROVE  /\ (\A i : IsResize(i) /\ (\A j : IsResize(j) => j <= i) => up[i][2] = rows)'
             /\ ((\A i : ~IsResize(i)) => grid = rows)'
  <2>1. /\ \A i : IsResize(i) /\ (\A j : IsResize(j) => j <= i) => up[i][2] = rows
        /\ (\A i : ~IsResize(i)) => grid = rows
    BY <1>1, <1>2, <1>5 DEF Grids, TermSize
  <2> QED BY <1>1, <2>1
<1> QED BY <1>3, <1>4, <1>5 DEF Grids

\* A message other than hello is added to those for the page, or none.
LEMMA OtherDelivered ==
  ASSUME TypeOK, NEW m, m[1] # "hello", Deliver(m) \/ down' = down
  PROVE  \A i : IsHello(i)' => IsHello(i) /\ down'[i] = down[i]
<1>1. CASE down' = down
  BY <1>1 DEF IsHello
<1>2. CASE down' = Append(down, m)
  <2>1. /\ \A i \in 1..Len(down) : down'[i] = down[i]
        /\ down'[Len(down) + 1] = m
        /\ \A i \in 1..Len(down') : i \in 1..Len(down) \/ i = Len(down) + 1
    BY <1>2, AppendAt DEF TypeOK
  <2> QED BY <2>1 DEF IsHello
<1> QED BY <1>1, <1>2 DEF Deliver

\* No hello is in flight when nothing is.
LEMMA NoneInFlight ==
  ASSUME down' = <<>>
  PROVE  \A i : ~IsHello(i)'
<1>1. Len(<<>>) = 0
  OBVIOUS
<1> QED BY <1>1 DEF IsHello

\* A connection that breaks adds no hello to what was in flight.
LEMMA BrokenOff ==
  ASSUME TypeOK, Breaks
  PROVE  \A i : IsHello(i)' => IsHello(i) /\ down'[i] = down[i]
<1>1. PICK n \in 0..Len(down) : down' = SubSeq(down, 1, n)
  BY DEF Breaks
<1>2. /\ Len(down') = n /\ \A i \in 1..n : down'[i] = down[i]
      /\ \A i \in 1..n : i \in 1..Len(down)
  BY <1>1 DEF TypeOK
<1> QED BY <1>2 DEF IsHello

\* A message other than a resize is added to those for the dashboard, or none.
LEMMA OtherSent ==
  ASSUME TypeOK, NEW m, m[1] # "resize", up' = up \/ up' = Append(up, m)
  PROVE  \A i : (IsResize(i)' <=> IsResize(i)) /\ (IsResize(i) => up'[i] = up[i])
<1>1. CASE up' = up
  BY <1>1 DEF IsResize
<1>2. CASE up' = Append(up, m)
  BY <1>2, AppendUp DEF IsResize
<1> QED BY <1>1, <1>2

\* Every step but those that touch a grid is such a step.
LEMMA KeptGridsSteps ==
  ASSUME TypeOK, PageShut, OutputPlaced, InputWhole, Grids, [Next]_vars,
         ~OnBinary, ~OnHello, ~FitFires, ~Attach, ~ReadInput, ~ReadResize
  PROVE  GridsKept
<1> USE DEF pageVars, userVars, netVars, handlerVars, tmuxVars
<1>1. ASSUME \A i : IsHello(i)' => IsHello(i) /\ down'[i] = down[i],
             \A i : (IsResize(i)' <=> IsResize(i)) /\ (IsResize(i) => up'[i] = up[i]),
             UNCHANGED <<rows, early, grid>>,
             (ws' = "null" /\ (Greeted' => Greeted)) \/ (ws' = ws /\ (Greeted' <=> Greeted)),
             conn' = conn \/ conn' # "up" \/ ~Greeted,
             srv' \in {"idle", "accepted"} => srv \in {"idle", "accepted"}
      PROVE  GridsKept
  BY <1>1 DEF GridsKept
<1>2. down' = down /\ up' = up =>
        /\ \A i : IsHello(i)' => IsHello(i) /\ down'[i] = down[i]
        /\ \A i : (IsResize(i)' <=> IsResize(i)) /\ (IsResize(i) => up'[i] = up[i])
  BY DEF IsHello, IsResize
<1>3. CASE OnOpen
  <2>1. /\ ws = "connecting" /\ ws' = "open" /\ UNCHANGED <<down, up, rows, early, grid, conn, srv>>
        /\ UNCHANGED <<onData, noted>>
    BY <1>3 DEF OnOpen
  <2>2. ~Greeted
    BY <2>1 DEF Grids
  <2>3. ~Greeted'
    BY <2>1, <2>2 DEF Greeted
  <2> QED BY <1>2, <2>1, <2>2, <2>3 DEF GridsKept
<1>4. CASE Accept
  <2>1. /\ srv = "idle" /\ UNCHANGED <<down, up, rows, early, grid, ws, onData, noted>>
    BY <1>4 DEF Accept
  <2>2. ~Greeted
    BY <2>1 DEF Grids
  <2>3. Greeted' <=> Greeted
    BY <2>1 DEF Greeted
  <2> QED BY <1>1, <1>2, <2>1, <2>2, <2>3
<1>5. CASE OnExitOrError
  <2>1. down' = <<>> /\ (up' = up \/ up' = Append(up, <<"close", 0>>))
    BY <1>5, ShutdownUp DEF OnExitOrError, Shutdown
  <2>2. <<"close", 0>>[1] # "resize"
    OBVIOUS
  <2>3. /\ UNCHANGED <<rows, early, grid>>
        /\ \/ ws' = "null" /\ (Greeted' => Greeted)
           \/ ws' = ws /\ (Greeted' <=> Greeted)
    BY <1>5 DEF OnExitOrError, Greeted, Shutdown
  <2>4. /\ conn' = conn \/ conn' # "up" \/ ~Greeted
        /\ srv' \in {"idle", "accepted"} => srv \in {"idle", "accepted"}
    BY <1>5 DEF OnExitOrError, Shutdown
  <2> QED BY <1>1, <2>1, <2>2, <2>3, <2>4, OtherSent, NoneInFlight
<1>6. CASE OnClose
  <2>1. down' = <<>> /\ (up' = up \/ up' = Append(up, <<"close", 0>>))
    BY <1>6, ShutdownUp DEF OnClose, Shutdown
  <2>2. <<"close", 0>>[1] # "resize"
    OBVIOUS
  <2>3. /\ UNCHANGED <<rows, early, grid>>
        /\ \/ ws' = "null" /\ (Greeted' => Greeted)
           \/ ws' = ws /\ (Greeted' <=> Greeted)
    BY <1>6 DEF OnClose, Greeted, Shutdown
  <2>4. /\ conn' = conn \/ conn' # "up" \/ ~Greeted
        /\ srv' \in {"idle", "accepted"} => srv \in {"idle", "accepted"}
    BY <1>6 DEF OnClose, Shutdown
  <2> QED BY <1>1, <2>1, <2>2, <2>3, <2>4, OtherSent, NoneInFlight
<1>7. CASE Close
  <2>1. down' = <<>> /\ (up' = up \/ up' = Append(up, <<"close", 0>>))
    BY <1>7, ShutdownUp DEF Close, Shutdown
  <2>2. <<"close", 0>>[1] # "resize"
    OBVIOUS
  <2>3. /\ UNCHANGED <<rows, early, grid>>
        /\ \/ ws' = "null" /\ (Greeted' => Greeted)
           \/ ws' = ws /\ (Greeted' <=> Greeted)
    BY <1>7 DEF Close, Greeted, Shutdown
  <2>4. /\ conn' = conn \/ conn' # "up" \/ ~Greeted
        /\ srv' \in {"idle", "accepted"} => srv \in {"idle", "accepted"}
    BY <1>7 DEF Close, Shutdown
  <2> QED BY <1>1, <2>1, <2>2, <2>3, <2>4, OtherSent, NoneInFlight
<1>8. CASE AttachFails
  <2>1. up' = up /\ (Deliver(<<"error", 0>>) \/ down' = down)
    BY <1>8 DEF AttachFails, Return
  <2>2. <<"error", 0>>[1] # "hello"
    OBVIOUS
  <2>5. \A i : (IsResize(i)' <=> IsResize(i)) /\ (IsResize(i) => up'[i] = up[i])
    BY <2>1 DEF IsResize
  <2>6. \A i : IsHello(i)' => IsHello(i) /\ down'[i] = down[i]
    BY <2>1, <2>2, OtherDelivered
  <2>3. /\ UNCHANGED <<rows, early, grid>>
        /\ \/ ws' = "null" /\ (Greeted' => Greeted)
           \/ ws' = ws /\ (Greeted' <=> Greeted)
    BY <1>8 DEF AttachFails, Greeted, Return, To
  <2>4. /\ conn' = conn \/ conn' # "up" \/ ~Greeted
        /\ srv' \in {"idle", "accepted"} => srv \in {"idle", "accepted"}
    BY <1>8 DEF AttachFails, Return, To
  <2> QED BY <1>1, <2>3, <2>4, <2>5, <2>6
<1>9. CASE Exit
  <2>1. up' = up /\ (Deliver(<<"exit", 0>>) \/ down' = down)
    BY <1>9 DEF Exit, Return
  <2>2. <<"exit", 0>>[1] # "hello"
    OBVIOUS
  <2>5. \A i : (IsResize(i)' <=> IsResize(i)) /\ (IsResize(i) => up'[i] = up[i])
    BY <2>1 DEF IsResize
  <2>6. \A i : IsHello(i)' => IsHello(i) /\ down'[i] = down[i]
    BY <2>1, <2>2, OtherDelivered
  <2>3. /\ UNCHANGED <<rows, early, grid>>
        /\ \/ ws' = "null" /\ (Greeted' => Greeted)
           \/ ws' = ws /\ (Greeted' <=> Greeted)
    BY <1>9 DEF Exit, Greeted, Return, To
  <2>4. /\ conn' = conn \/ conn' # "up" \/ ~Greeted
        /\ srv' \in {"idle", "accepted"} => srv \in {"idle", "accepted"}
    BY <1>9 DEF Exit, Return, To
  <2> QED BY <1>1, <2>3, <2>4, <2>5, <2>6
<1>10. CASE Snapshot
  <2>1. up' = up /\ (Deliver(<<"snapshot", produced>>) \/ down' = down)
    BY <1>10 DEF Snapshot, Return
  <2>2. <<"snapshot", produced>>[1] # "hello"
    OBVIOUS
  <2>5. \A i : (IsResize(i)' <=> IsResize(i)) /\ (IsResize(i) => up'[i] = up[i])
    BY <2>1 DEF IsResize
  <2>6. \A i : IsHello(i)' => IsHello(i) /\ down'[i] = down[i]
    BY <2>1, <2>2, OtherDelivered
  <2>3. /\ UNCHANGED <<rows, early, grid>>
        /\ \/ ws' = "null" /\ (Greeted' => Greeted)
           \/ ws' = ws /\ (Greeted' <=> Greeted)
    BY <1>10 DEF Snapshot, Greeted, To
  <2>4. /\ conn' = conn \/ conn' # "up" \/ ~Greeted
        /\ srv' \in {"idle", "accepted"} => srv \in {"idle", "accepted"}
    BY <1>10 DEF Snapshot, To
  <2> QED BY <1>1, <2>3, <2>4, <2>5, <2>6
<1>11. CASE Forward
  <2>1. up' = up /\ (Deliver(<<"chunk", Head(out)>>) \/ down' = down)
    BY <1>11 DEF Forward, Return
  <2>2. <<"chunk", Head(out)>>[1] # "hello"
    OBVIOUS
  <2>5. \A i : (IsResize(i)' <=> IsResize(i)) /\ (IsResize(i) => up'[i] = up[i])
    BY <2>1 DEF IsResize
  <2>6. \A i : IsHello(i)' => IsHello(i) /\ down'[i] = down[i]
    BY <2>1, <2>2, OtherDelivered
  <2>3. /\ UNCHANGED <<rows, early, grid>>
        /\ \/ ws' = "null" /\ (Greeted' => Greeted)
           \/ ws' = ws /\ (Greeted' <=> Greeted)
    BY <1>11 DEF Forward, Greeted
  <2>4. /\ conn' = conn \/ conn' # "up" \/ ~Greeted
        /\ srv' \in {"idle", "accepted"} => srv \in {"idle", "accepted"}
    BY <1>11 DEF Forward
  <2> QED BY <1>1, <2>3, <2>4, <2>5, <2>6
<1>12. CASE Breaks
  <2>1. up' = up
    BY <1>12 DEF Breaks
  <2>5. \A i : (IsResize(i)' <=> IsResize(i)) /\ (IsResize(i) => up'[i] = up[i])
    BY <2>1 DEF IsResize
  <2>3. /\ UNCHANGED <<rows, early, grid>>
        /\ \/ ws' = "null" /\ (Greeted' => Greeted)
           \/ ws' = ws /\ (Greeted' <=> Greeted)
    BY <1>12 DEF Breaks, Greeted
  <2>4. /\ conn' = conn \/ conn' # "up" \/ ~Greeted
        /\ srv' \in {"idle", "accepted"} => srv \in {"idle", "accepted"}
    BY <1>12 DEF Breaks
  <2> QED BY <1>1, <1>12, <2>3, <2>4, <2>5, BrokenOff
<1>13. CASE \E n \in InputSizes : Type(n)
  <2>1. down' = down /\ (up' = up \/ up' = Append(up, <<"input", Len(typed')>>))
    BY <1>13 DEF Type, Send
  <2>2. <<"input", Len(typed')>>[1] # "resize"
    OBVIOUS
  <2>5. \A i : IsHello(i)' => IsHello(i) /\ down'[i] = down[i]
    BY <2>1 DEF IsHello
  <2>3. /\ UNCHANGED <<rows, early, grid>>
        /\ \/ ws' = "null" /\ (Greeted' => Greeted)
           \/ ws' = ws /\ (Greeted' <=> Greeted)
    BY <1>13 DEF Type, Greeted
  <2>4. /\ conn' = conn \/ conn' # "up" \/ ~Greeted
        /\ srv' \in {"idle", "accepted"} => srv \in {"idle", "accepted"}
    BY <1>13 DEF Type
  <2> QED BY <1>1, <2>1, <2>2, <2>3, <2>4, <2>5, OtherSent
<1>14. CASE OnObserve \/ BoxMoves \/ Refuse \/ StartReading \/ WriteFails \/ HandlerCancelled
         \/ IdleTimeout \/ ReadTooLong \/ ReadFails \/ Output \/ SessionEnds \/ UNCHANGED vars
  <2>1. down' = down /\ up' = up
    BY <1>14 DEF OnObserve, BoxMoves, Refuse, StartReading, WriteFails, HandlerCancelled, IdleTimeout,
                   ReadTooLong, ReadFails, Output, SessionEnds, Return, To, vars
  <2>2. UNCHANGED <<ws, onData, noted, rows, early>>
    BY <1>14 DEF OnObserve, BoxMoves, Refuse, StartReading, WriteFails, HandlerCancelled, IdleTimeout,
                   ReadTooLong, ReadFails, Output, SessionEnds, Return, To, vars
  <2>5. grid' = grid
    BY <1>14 DEF OnObserve, BoxMoves, Refuse, StartReading, WriteFails, HandlerCancelled, IdleTimeout,
                   ReadTooLong, ReadFails, Output, SessionEnds, Return, To, vars
  <2>3. Greeted' <=> Greeted
    BY <2>2 DEF Greeted
  <2>4. /\ conn' = conn \/ conn' # "up"
        /\ srv' \in {"idle", "accepted"} => srv \in {"idle", "accepted"}
    BY <1>14 DEF OnObserve, BoxMoves, Refuse, StartReading, WriteFails, HandlerCancelled, IdleTimeout,
                   ReadTooLong, ReadFails, Output, SessionEnds, Return, To, vars
  <2> QED BY <1>1, <1>2, <2>1, <2>2, <2>3, <2>4, <2>5
<1> QED
  BY <1>3, <1>4, <1>5, <1>6, <1>7, <1>8, <1>9, <1>10, <1>11, <1>12, <1>13, <1>14
  DEF Next, PageEvent, PageTimer, User, Handle, ReadLoop, Session

\* A message for the page is read: what is left was behind it.
LEMMA HelloRead ==
  ASSUME TypeOK, down # <<>>, down' = Tail(down)
  PROVE  /\ 1 \in 1..Len(down) /\ Head(down) = down[1]
         /\ \A i : IsHello(i)' => i \in Nat \ {0} /\ IsHello(i + 1) /\ down'[i] = down[i + 1]
<1>1. /\ Len(down) \in Nat \ {0} /\ Len(down') = Len(down) - 1 /\ Head(down) = down[1]
      /\ \A i \in 1..(Len(down) - 1) : down'[i] = down[i + 1]
  BY TailAt DEF TypeOK
<1>2. \A i \in 1..Len(down') : i \in Nat \ {0} /\ i + 1 \in 1..Len(down) /\ down'[i] = down[i + 1]
  BY <1>1
<1>3. 1 \in 1..Len(down)
  BY <1>1
<1> QED BY <1>1, <1>2, <1>3 DEF IsHello

\* Reading output touches no grid.
LEMMA BinaryGrids ==
  ASSUME TypeOK, Grids, OnBinary
  PROVE  Grids'
<1> USE DEF pageVars, userVars, netVars, handlerVars, tmuxVars
<1>1. /\ down # <<>> /\ down' = Tail(down)
      /\ UNCHANGED <<ws, onData, noted, rows, conn, up, early, grid, srv>>
  BY DEF OnBinary, Receive
<1>2. \A i : IsHello(i)' => i \in Nat \ {0} /\ IsHello(i + 1) /\ down'[i] = down[i + 1]
  BY <1>1, HelloRead
<1>3. (Greeted' <=> Greeted) /\ \A i : (IsResize(i)' <=> IsResize(i)) /\ up'[i] = up[i]
  BY <1>1 DEF Greeted, IsResize
<1>4. /\ (ws = "connecting" => ~Greeted)'
      /\ (srv \in {"idle", "accepted"} => ~Greeted /\ \A i : ~IsHello(i))'
      /\ (\A i : IsHello(i) => ~Greeted)'
  BY <1>1, <1>2, <1>3 DEF Grids
<1>5. ASSUME NEW i, NEW j, IsHello(i)', IsHello(j)' PROVE i = j
  <2>1. i \in Nat /\ j \in Nat /\ i + 1 = j + 1
    BY <1>2, <1>5 DEF Grids
  <2> QED BY <2>1
<1>6. ASSUME (ws # "null" /\ ~Greeted /\ ~early)'
      PROVE  (\A i : ~IsResize(i)') /\ \A i : IsHello(i)' => down'[i][2] = grid
  <2>1. (\A i : ~IsResize(i)) /\ \A i : IsHello(i) => down[i][2] = grid
    BY <1>1, <1>3, <1>6 DEF Grids
  <2> QED BY <1>2, <1>3, <2>1
<1>7. ASSUME (ws = "open" /\ Greeted /\ conn = "up" /\ ~early /\ TermSize(rows) = rows)'
      PROVE  /\ (\A i : IsResize(i) /\ (\A j : IsResize(j) => j <= i) => up[i][2] = rows)'
             /\ ((\A i : ~IsResize(i)) => grid = rows)'
  <2>1. /\ \A i : IsResize(i) /\ (\A j : IsResize(j) => j <= i) => up[i][2] = rows
        /\ (\A i : ~IsResize(i)) => grid = rows
    BY <1>1, <1>3, <1>7 DEF Grids, TermSize
  <2> QED BY <1>1, <1>3, <2>1
<1> QED BY <1>1, <1>4, <1>5, <1>6, <1>7 DEF Grids

\* hello is read: no resize is in flight unless one was early, and the grid in it
\* is the client's.
LEMMA HelloGrids ==
  ASSUME TypeOK, Grids, OnHello
  PROVE  Grids'
<1> USE DEF pageVars, userVars, netVars, handlerVars, tmuxVars
<1>1. /\ down # <<>> /\ down' = Tail(down) /\ Head(down)[1] = "hello" /\ ws = "open"
      /\ rows' = Head(down)[2] /\ UNCHANGED <<ws, conn, up, early, grid, srv>>
  BY DEF OnHello, Receive
<1>2. /\ 1 \in 1..Len(down) /\ Head(down) = down[1]
      /\ \A i : IsHello(i)' => i \in Nat \ {0} /\ IsHello(i + 1) /\ down'[i] = down[i + 1]
  BY <1>1, HelloRead
<1>3. IsHello(1) /\ down[1][2] = rows'
  BY <1>1, <1>2 DEF IsHello
<1>4. ~Greeted /\ srv \notin {"idle", "accepted"}
  BY <1>3 DEF Grids
<1>5. \A i : ~IsHello(i)'
  <2>1. ASSUME NEW i, IsHello(i)' PROVE FALSE
    <3>1. i \in Nat \ {0} /\ i + 1 = 1
      BY <1>2, <1>3, <2>1 DEF Grids
    <3> QED BY <3>1
  <2> QED BY <2>1
<1>6. ~early => (\A i : ~IsResize(i)) /\ rows' = grid
  BY <1>1, <1>3, <1>4 DEF Grids
<1>7. \A i : IsResize(i)' <=> IsResize(i)
  BY <1>1 DEF IsResize
<1>8. Greeted'
  BY DEF OnHello, Greeted
<1> QED BY <1>1, <1>4, <1>5, <1>6, <1>7, <1>8 DEF Grids

\* The refit: a resize is sent behind the others, or none is; one that hello has
\* not been read before is early.
LEMMA FitGrids ==
  ASSUME TypeOK, Grids, FitFires
  PROVE  Grids'
<1> USE DEF pageVars, userVars, netVars, handlerVars, tmuxVars
<1>1. /\ UNCHANGED <<ws, onData, noted, conn, down, grid, srv>>
      /\ \/ UNCHANGED <<rows, up, early>>
         \/ /\ up' = IF ws = "open" /\ conn = "up" THEN Append(up, <<"resize", rows'>>) ELSE up
            /\ early' = IF up' # up THEN ~Greeted ELSE early
  BY DEF FitFires, Send
<1>2. (Greeted' <=> Greeted) /\ \A i : (IsHello(i)' <=> IsHello(i)) /\ down'[i] = down[i]
  BY <1>1 DEF Greeted, IsHello
<1>3. /\ (ws = "connecting" => ~Greeted)'
      /\ (srv \in {"idle", "accepted"} => ~Greeted /\ \A i : ~IsHello(i))'
      /\ (\A i : IsHello(i) => ~Greeted)'
      /\ (\A i, j : IsHello(i) /\ IsHello(j) => i = j)'
  BY <1>1, <1>2 DEF Grids
<1>4. CASE UNCHANGED <<rows, up, early>>
  <2>1. GridsKept
    BY <1>1, <1>2, <1>4 DEF GridsKept, IsResize
  <2> QED BY <2>1, KeptGrids
<1>5. CASE up' = up /\ early' = early /\ ~(ws = "open" /\ conn = "up")
  <2>1. \A i : IsResize(i)' <=> IsResize(i)
    BY <1>5 DEF IsResize
  <2>2. (ws # "null" /\ ~Greeted /\ ~early =>
           (\A i : ~IsResize(i)) /\ \A i : IsHello(i) => down[i][2] = grid)'
    BY <1>1, <1>2, <1>5, <2>1 DEF Grids
  <2> QED BY <1>1, <1>3, <1>5, <2>2 DEF Grids
<1>6. CASE up' = Append(up, <<"resize", rows'>>) /\ early' = IF up' # up THEN ~Greeted ELSE early
  <2>1. /\ Len(up) \in Nat /\ up'[Len(up) + 1] = <<"resize", rows'>>
        /\ \A i : i \in 1..Len(up') <=> i \in 1..Len(up) \/ i = Len(up) + 1
    BY <1>6, AppendUp
  <2>2. <<"resize", rows'>>[1] = "resize" /\ <<"resize", rows'>>[2] = rows'
    OBVIOUS
  <2>3. up' # up
    <3>1. Len(up) + 1 \notin 1..Len(up)
      BY <2>1
    <3>2. Len(up) + 1 \in 1..Len(up')
      BY <2>1
    <3> QED BY <3>1, <3>2
  <2>4. early' = ~Greeted
    BY <1>6, <2>3
  <2>5. /\ \A n : n = Len(up) + 1 => IsResize(n)'
        /\ \A i : IsResize(i)' => i <= Len(up) + 1
    <3>1. \A i : IsResize(i)' => i <= Len(up) + 1
      BY <2>1 DEF IsResize
    <3>2. \A n : n = Len(up) + 1 => IsResize(n)'
      BY <2>1, <2>2 DEF IsResize
    <3> QED BY <3>1, <3>2
  <2>6. ~(~Greeted /\ ~early)'
    BY <1>2, <2>4
  <2>7. ASSUME NEW i, IsResize(i)', \A j : IsResize(j)' => j <= i PROVE up'[i][2] = rows'
    <3>1. i \in Nat /\ i <= Len(up) + 1 /\ Len(up) + 1 <= i
      BY <2>5, <2>7 DEF IsResize
    <3>2. i = Len(up) + 1
      BY <2>1, <3>1
    <3> QED BY <2>1, <2>2, <3>2
  <2>8. ~(\A i : ~IsResize(i)')
    BY <2>5
  <2> QED BY <1>3, <2>6, <2>7, <2>8 DEF Grids
<1> QED BY <1>1, <1>4, <1>5, <1>6

\* The client is started: hello is the first message, with the client's grid.
LEMMA AttachGrids ==
  ASSUME TypeOK, Grids, Attach
  PROVE  Grids'
<1> USE DEF pageVars, userVars, netVars, handlerVars, tmuxVars
<1>1. /\ srv = "accepted" /\ srv' = "greeted"
      /\ UNCHANGED <<ws, onData, noted, rows, conn, up, early>>
      /\ down' = down \/ down' = Append(down, <<"hello", grid'>>)
  BY DEF Attach, To, Deliver
<1>2. ~Greeted /\ \A i : ~IsHello(i)
  BY <1>1 DEF Grids
<1>3. ~Greeted' /\ \A i : IsResize(i)' <=> IsResize(i)
  BY <1>1, <1>2 DEF Greeted, IsResize
<1>4. \A i : IsHello(i)' => i = Len(down) + 1 /\ down'[i][2] = grid'
  <2>1. CASE down' = down
    BY <1>2, <2>1 DEF IsHello
  <2>2. CASE down' = Append(down, <<"hello", grid'>>)
    <3>1. /\ \A i \in 1..Len(down) : down'[i] = down[i]
          /\ down'[Len(down) + 1] = <<"hello", grid'>>
          /\ \A i \in 1..Len(down') : i \in 1..Len(down) \/ i = Len(down) + 1
      BY <2>2, AppendAt DEF TypeOK
    <3>2. <<"hello", grid'>>[2] = grid'
      OBVIOUS
    <3> QED BY <1>2, <3>1, <3>2 DEF IsHello
  <2> QED BY <1>1, <2>1, <2>2
<1> QED BY <1>1, <1>3, <1>4 DEF Grids

\* An input is read: the resizes behind it stay.
LEMMA InputGrids ==
  ASSUME TypeOK, Grids, ReadInput
  PROVE  Grids'
<1> USE DEF pageVars, userVars, netVars, handlerVars, tmuxVars
<1>1. /\ up # <<>> /\ up' = Tail(up) /\ Head(up)[1] = "input"
      /\ UNCHANGED <<ws, onData, noted, rows, conn, down, early, grid, srv>>
  BY DEF ReadInput, Reads
<1>2. /\ Head(up) = up[1]
      /\ \A i : i \in 1..Len(up') <=> i \in Nat \ {0} /\ i + 1 \in 1..Len(up)
      /\ \A i \in 1..Len(up') : up'[i] = up[i + 1]
  BY <1>1, TailUp
<1>3. /\ \A i : IsResize(i)' <=> i \in Nat \ {0} /\ IsResize(i + 1)
      /\ \A i : IsResize(i)' => up'[i] = up[i + 1]
  BY <1>2 DEF IsResize
<1>4. (Greeted' <=> Greeted) /\ \A i : (IsHello(i)' <=> IsHello(i)) /\ down'[i] = down[i]
  BY <1>1 DEF Greeted, IsHello
<1>5. /\ (ws = "connecting" => ~Greeted)'
      /\ (srv \in {"idle", "accepted"} => ~Greeted /\ \A i : ~IsHello(i))'
      /\ (\A i : IsHello(i) => ~Greeted)'
      /\ (\A i, j : IsHello(i) /\ IsHello(j) => i = j)'
  BY <1>1, <1>4 DEF Grids
<1>6. (ws # "null" /\ ~Greeted /\ ~early =>
         (\A i : ~IsResize(i)) /\ \A i : IsHello(i) => down[i][2] = grid)'
  BY <1>1, <1>3, <1>4 DEF Grids
<1>7. \A i : IsResize(i) => i \in Nat \ {0} /\ i # 1 /\ i - 1 \in Nat \ {0} /\ (i - 1) + 1 = i
  <2>1. ~IsResize(1)
    BY <1>1, <1>2 DEF IsResize
  <2>2. \A i : IsResize(i) => i \in Nat \ {0}
    BY DEF IsResize
  <2> QED BY <2>1, <2>2
<1>8. ASSUME (ws = "open" /\ Greeted /\ conn = "up" /\ ~early /\ TermSize(rows) = rows)'
      PROVE  /\ (\A i : IsResize(i) /\ (\A j : IsResize(j) => j <= i) => up[i][2] = rows)'
             /\ ((\A i : ~IsResize(i)) => grid = rows)'
  <2>1. /\ \A i : IsResize(i) /\ (\A j : IsResize(j) => j <= i) => up[i][2] = rows
        /\ (\A i : ~IsResize(i)) => grid = rows
    BY <1>1, <1>4, <1>8 DEF Grids, TermSize
  <2>2. ASSUME NEW i, IsResize(i)', \A j : IsResize(j)' => j <= i PROVE up'[i][2] = rows
    <3>1. ASSUME NEW j, IsResize(j) PROVE j <= i + 1
      <4>1. IsResize(j - 1)'
        BY <1>3, <1>7, <3>1
      <4>2. j - 1 <= i
        BY <2>2, <4>1
      <4> QED BY <1>3, <1>7, <2>2, <3>1, <4>2
    <3> QED BY <1>3, <2>1, <2>2, <3>1
  <2>3. (\A i : ~IsResize(i)') => \A i : ~IsResize(i)
    BY <1>3, <1>7
  <2> QED BY <1>1, <2>1, <2>2, <2>3
<1> QED BY <1>5, <1>6, <1>8 DEF Grids

\* A resize is read: the client's grid is the page's if it was the last.
LEMMA ResizeGrids ==
  ASSUME TypeOK, Grids, ReadResize
  PROVE  Grids'
<1> USE DEF pageVars, userVars, netVars, handlerVars, tmuxVars
<1>1. /\ up # <<>> /\ up' = Tail(up) /\ Head(up)[1] = "resize" /\ grid' = TermSize(Head(up)[2])
      /\ UNCHANGED <<ws, onData, noted, rows, conn, down, early, srv>>
  BY DEF ReadResize, Reads
<1>2. /\ Head(up) = up[1] /\ Len(up) \in Nat \ {0}
      /\ \A i : i \in 1..Len(up') <=> i \in Nat \ {0} /\ i + 1 \in 1..Len(up)
      /\ \A i \in 1..Len(up') : up'[i] = up[i + 1]
  BY <1>1, TailUp
<1>3. /\ \A i : IsResize(i)' <=> i \in Nat \ {0} /\ IsResize(i + 1)
      /\ \A i : IsResize(i)' => up'[i] = up[i + 1]
  BY <1>2 DEF IsResize
<1>4. (Greeted' <=> Greeted) /\ \A i : (IsHello(i)' <=> IsHello(i)) /\ down'[i] = down[i]
  BY <1>1 DEF Greeted, IsHello
<1>5. /\ (ws = "connecting" => ~Greeted)'
      /\ (srv \in {"idle", "accepted"} => ~Greeted /\ \A i : ~IsHello(i))'
      /\ (\A i : IsHello(i) => ~Greeted)'
      /\ (\A i, j : IsHello(i) /\ IsHello(j) => i = j)'
  BY <1>1, <1>4 DEF Grids
<1>6. IsResize(1)
  <2>1. 1 \in 1..Len(up)
    BY <1>2
  <2> QED BY <1>1, <1>2, <2>1 DEF IsResize
<1>7. (ws # "null" /\ ~Greeted /\ ~early =>
         (\A i : ~IsResize(i)) /\ \A i : IsHello(i) => down[i][2] = grid)'
  BY <1>1, <1>4, <1>6 DEF Grids
<1>8. \A i : IsResize(i) => i = 1 \/ (i \in Nat /\ i - 1 \in Nat \ {0} /\ (i - 1) + 1 = i)
  BY <1>2 DEF IsResize
<1>9. ASSUME (ws = "open" /\ Greeted /\ conn = "up" /\ ~early /\ TermSize(rows) = rows)'
      PROVE  /\ (\A i : IsResize(i) /\ (\A j : IsResize(j) => j <= i) => up[i][2] = rows)'
             /\ ((\A i : ~IsResize(i)) => grid = rows)'
  <2>1. \A i : IsResize(i) /\ (\A j : IsResize(j) => j <= i) => up[i][2] = rows
    BY <1>1, <1>4, <1>9 DEF Grids, TermSize
  <2>2. ASSUME NEW i, IsResize(i)', \A j : IsResize(j)' => j <= i PROVE up'[i][2] = rows
    <3>0. i \in Nat \ {0}
      BY <1>3, <2>2
    <3>1. ASSUME NEW j, IsResize(j) PROVE j <= i + 1
      <4>1. CASE j = 1
        BY <3>0, <4>1
      <4>2. CASE j # 1
        <5>1. j \in Nat /\ j - 1 \in Nat \ {0} /\ IsResize(j - 1)'
          BY <1>3, <1>8, <3>1, <4>2
        <5>2. j - 1 <= i
          BY <2>2, <5>1
        <5> QED BY <3>0, <5>1, <5>2
      <4> QED BY <4>1, <4>2
    <3> QED BY <1>3, <2>1, <2>2, <3>1
  <2>3. ASSUME \A i : ~IsResize(i)' PROVE grid' = rows
    <3>1. \A j : IsResize(j) => j <= 1
      BY <1>3, <1>8, <2>3
    <3>2. up[1][2] = rows
      BY <1>6, <2>1, <3>1
    <3>3. TermSize(rows) = rows
      BY <1>1, <1>9 DEF TermSize
    <3> QED BY <1>1, <1>2, <3>2, <3>3
  <2> QED BY <1>1, <2>2, <2>3
<1> QED BY <1>5, <1>7, <1>9 DEF Grids

\* Every step keeps Grids.
LEMMA GridsStep ==
  ASSUME TypeOK, PageShut, OutputPlaced, InputWhole, Grids, [Next]_vars
  PROVE  Grids'
<1>1. CASE ~OnBinary /\ ~OnHello /\ ~FitFires /\ ~Attach /\ ~ReadInput /\ ~ReadResize
  BY <1>1, KeptGridsSteps, KeptGrids
<1> QED BY <1>1, BinaryGrids, HelloGrids, FitGrids, AttachGrids, InputGrids, ResizeGrids

\* The property is the case with no resize in flight.
LEMMA GridsMeet ==
  ASSUME Grids
  PROVE  GridsAgree
BY DEF Grids, GridsAgree, IsResize

-----------------------------------------------------------------------------
(* The specification *)

\* A page that has not opened its socket.
LEMMA InitIInv ==
  ASSUME Init
  PROVE  IInv
<1>1. box \in Nat /\ \A r \in Nat : SafeFit(r) \in Nat
  BY BrowserAssumption DEF Init, SafeFit, Room
<1>2. DefaultRows \in Nat
  BY DEF DefaultRows
<1>3. /\ shown \in Seq(Message \cup ClosingLine) /\ up \in Seq(Message) /\ down \in Seq(Message)
      /\ typed \in Seq(InputSizes) /\ out \in Seq(1..MaxChunks) /\ entered \in Seq(1..MaxActs)
      /\ Len(shown) = 0 /\ Len(up) = 0 /\ Len(down) = 0 /\ Len(typed) = 0 /\ Len(out) = 0
      /\ Len(entered) = 0
  BY DEF Init
<1>4. TypeOK
  <2>1. rows \in Nat /\ asked \in Nat
    BY <1>1, <1>2 DEF Init
  <2>2. /\ ws \in Page /\ conn \in {"opening", "refused", "up", "over"}
        /\ srv \in Handler /\ reader \in {"off", "on", "ended"}
    BY DEF Init, Page, Handler
  <2>3. /\ onData \in BOOLEAN /\ noted \in BOOLEAN /\ fitTimer \in BOOLEAN /\ closed \in BOOLEAN
        /\ early \in BOOLEAN /\ canWrite \in BOOLEAN /\ alive \in BOOLEAN
    BY DEF Init
  <2>4. /\ observed \in Nat /\ grid \in Nat /\ box \in Boxes /\ moves \in Nat /\ Acts <= MaxActs
        /\ Len(out) <= OutQueue /\ produced \in 0..MaxChunks
        /\ dropped \cup unsent \subseteq 1..MaxChunks
    BY <1>3, BrowserAssumption DEF Init, Acts
  <2> QED BY <1>3, <2>1, <2>2, <2>3, <2>4 DEF TypeOK
<1>5. PageShut /\ OneClosingLine
  BY <1>3 DEF Init, PageShut, OneClosingLine
<1>6. \A i : ~IsData(shown, i) /\ ~IsData(down, i)
  BY <1>3 DEF IsData
<1>7. OutputPlaced
  BY <1>3, <1>6 DEF Init, OutputPlaced
<1>8. OutputGrows /\ OutputWhole
  BY <1>7, NothingSent DEF Init
<1>9. InputGrows /\ InputWhole
  BY <1>3 DEF Init, InputGrows, InputWhole, IsInput
<1>10. ~Greeted /\ (\A i : ~IsResize(i)) /\ \A i : ~IsHello(i)
  BY <1>3 DEF Init, Greeted, IsResize, IsHello
<1>11. Grids
  BY <1>10 DEF Grids
<1> QED BY <1>4, <1>5, <1>7, <1>8, <1>9, <1>11 DEF IInv

\* The inductive invariant is inductive.
LEMMA IInvStep ==
  ASSUME IInv, [Next]_vars
  PROVE  IInv'
<1>1. TypeOK /\ PageShut /\ OneClosingLine /\ OutputPlaced /\ OutputGrows /\ OutputWhole
  BY DEF IInv
<1>2. InputGrows /\ InputWhole /\ Grids
  BY DEF IInv
<1>3. TypeOK' /\ PageShut' /\ OneClosingLine' /\ OutputPlaced'
  BY <1>1, TypeOKStep, PageShutStep, OneClosingLineStep, OutputPlacedStep
<1>4. OutputGrows' /\ OutputWhole'
  BY <1>1, <1>3, OutputStep
<1>5. InputGrows' /\ InputWhole'
  BY <1>1, <1>2, InputStep
<1>6. Grids'
  BY <1>1, <1>2, GridsStep
<1> QED BY <1>3, <1>4, <1>5, <1>6 DEF IInv

\* The inductive invariant holds.
THEOREM SpecIInv == Spec => []IInv
BY InitIInv, IInvStep, PTL DEF Spec

\* Every variable of the page, the connection, the handler and the client stays in
\* its range, and the client holds no more than its queue.
THEOREM SpecTypeOK == Spec => []TypeOK
<1>1. IInv => TypeOK
  BY DEF IInv
<1> QED BY <1>1, SpecIInv, PTL

\* A page is told once that its terminal is over, and after that nothing is written
\* to it: onExit, onError, onclose and close come in any order.
THEOREM SpecOneClosingLine == Spec => []OneClosingLine
<1>1. IInv => OneClosingLine
  BY DEF IInv
<1> QED BY <1>1, SpecIInv, PTL

\* Between the snapshot and the chunk after it, and between two chunks, the page
\* misses only what the control client dropped or tmux did not send it, and no
\* chunk and no snapshot comes after a later one.
THEOREM SpecOutputContinues == Spec => []OutputContinues
<1>1. IInv => OutputContinues
  BY ShownContinues DEF IInv
<1> QED BY <1>1, SpecIInv, PTL

\* The session gets keystrokes in the order they were typed, nothing twice and
\* nothing left out but pastes over the limit.
THEOREM SpecInputInOrder == Spec => []InputInOrder
<1>1. IInv => InputInOrder
  BY EnteredInOrder DEF IInv
<1> QED BY <1>1, SpecIInv, PTL

\* The page's grid and the control client's are the same when nothing is on its way.
THEOREM SpecGridsAgree == Spec => []GridsAgree
<1>1. IInv => GridsAgree
  BY GridsMeet DEF IInv
<1> QED BY <1>1, SpecIInv, PTL

\* After close no event touches the terminal that was disposed of.
THEOREM SpecDisposedIsLeftAlone == Spec => DisposedIsLeftAlone
<1>1. ASSUME IInv, [Next]_vars
      PROVE  [closed => UNCHANGED <<rows, shown, onData, noted>>]_vars
  <2> SUFFICES ASSUME closed, Next PROVE UNCHANGED <<rows, shown, onData, noted>>
    BY <1>1
  <2> USE DEF pageVars, userVars, netVars, handlerVars, tmuxVars
  <2>1. ws = "null" /\ ~fitTimer /\ ~onData
    BY <1>1 DEF IInv, PageShut
  <2>2. /\ ~OnOpen /\ ~OnBinary /\ ~OnHello /\ ~OnExitOrError /\ ~OnClose /\ ~FitFires
        /\ ~Close /\ ~\E n \in InputSizes : Type(n)
    BY <2>1 DEF OnOpen, OnBinary, OnHello, OnExitOrError, OnClose, FitFires, Close, Type, Receive
  <2> QED BY <2>2 DEF Next, PageEvent, PageTimer, User, Handle, ReadLoop, Session, Return,
    OnObserve, BoxMoves, Accept, Refuse, Attach, AttachFails, Snapshot, StartReading,
    Forward, Exit, WriteFails, HandlerCancelled, IdleTimeout, ReadInput, ReadTooLong,
    ReadResize, ReadFails, Breaks, Output, SessionEnds
<1> QED BY <1>1, SpecIInv, PTL DEF Spec, DisposedIsLeftAlone
=============================================================================
