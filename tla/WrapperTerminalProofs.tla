------------------------- MODULE WrapperTerminalProofs -------------------------
(***************************************************************************)
(* Proofs about WrapperTerminal, for every size of the queues, whether the *)
(* terminal is read off the pty or through tmux: every variable stays in   *)
(* its range, a connection leaves nothing behind, and what the dashboard   *)
(* is sent is the stream TerminalStream promises.                          *)
(***************************************************************************)
EXTENDS WrapperTerminal, TLAPS

-----------------------------------------------------------------------------
(* The inductive invariant *)

\* What is held at each phase of serve: a goroutine, a source and a socket are
\* acquired in the order greeting, starting, serving, and the wait at the end of
\* serve, joining, is entered with the source released.  A goroutine that still
\* runs once the source is released finds the socket closed.
Held ==
  /\ phase \in {"waiting", "dialling", "disabled", "over"} =>
       running = {} /\ source = "off" /\ sock = "none"
  /\ phase \in {"greeting", "starting"} => running = {} /\ source = "off"
  /\ phase = "joining" => source = "off"
  /\ running # {} /\ source = "off" => sock = "closed"

\* The chunks on the send queue and then those on the feed are in order, all
\* after the last that was shown.
IsChunk(i) == send[i].t = "chunk"
Ordered ==
  /\ \A i \in 1..Len(send) : IsChunk(i) => shown < send[i].n /\ send[i].n <= delivered
  /\ \A i, j \in 1..Len(send) : i < j /\ IsChunk(i) /\ IsChunk(j) => send[i].n < send[j].n
  /\ \A i \in 1..Len(feed) : shown < feed[i] /\ feed[i] <= delivered
  /\ \A i, j \in 1..Len(feed) : i < j => feed[i] < feed[j]
  /\ \A i \in 1..Len(send), j \in 1..Len(feed) : IsChunk(i) => send[i].n < feed[j]

\* Every chunk on the feed was delivered after what is shown, after what is on the
\* send queue and after those before it: when it is full, that many wait.
Spaced ==
  /\ shown + Len(feed) <= delivered
  /\ \A i \in 1..Len(send) : IsChunk(i) => send[i].n + Len(feed) <= delivered
  /\ \A i \in 1..Len(feed) : feed[i] + (Len(feed) - i) <= delivered

\* On an open connection nobody is dropping, every chunk up to one that is
\* queued, and while the source is on up to the last delivered, was shown, is
\* queued or was lost.
Queued(m) == \/ \E i \in 1..Len(send) : IsChunk(i) /\ send[i].n = m
             \/ \E i \in 1..Len(feed) : feed[i] = m
Gapless ==
  sock = "open" /\ source # "off" /\ ~Cancelled =>
    \A q \in 1..MaxChunks : Queued(q) \/ (source = "on" /\ q = delivered) =>
      \A m \in (shown + 1)..q : m \in lost \/ Queued(m)

\* A snapshot, held or queued, is of a moment since the stream began, or blank
\* for a capture of tmux that failed.
Repaints(n) == n \in 0..rendered /\ (n >= since \/ (OverTmux /\ n = 0))
Painted ==
  /\ reader = "painting" => Repaints(snapAt)
  /\ \A i \in 1..Len(send) : ~IsChunk(i) => Repaints(send[i].n)

IInv == TypeOK /\ Held /\ Ordered /\ Spaced /\ Gapless /\ Painted

-----------------------------------------------------------------------------
(* Lemmas: the queues *)

\* What is where after a Tail.
LEMMA TailAt ==
  ASSUME NEW S, NEW s \in Seq(S), s # <<>>
  PROVE  /\ Tail(s) \in Seq(S) /\ Len(s) \in Nat /\ Len(s) >= 1 /\ Len(Tail(s)) = Len(s) - 1
         /\ Head(s) = s[1] /\ Head(s) \in S
         /\ \A i \in 1..(Len(s) - 1) : Tail(s)[i] = s[i + 1]
OBVIOUS

\* What is where after an Append.
LEMMA AppendAt ==
  ASSUME NEW S, NEW s \in Seq(S), NEW x \in S
  PROVE  /\ Append(s, x) \in Seq(S) /\ Len(s) \in Nat /\ Len(Append(s, x)) = Len(s) + 1
         /\ \A i \in 1..Len(s) : Append(s, x)[i] = s[i]
         /\ Append(s, x)[Len(s) + 1] = x
OBVIOUS

\* The head of a queue is gone.
Shifted(s, t) ==
  /\ Len(s) \in Nat /\ Len(s) >= 1 /\ Len(t) = Len(s) - 1
  /\ \A i \in 1..Len(t) : i + 1 \in 1..Len(s) /\ t[i] = s[i + 1]
  /\ \A i \in 1..Len(s) : i = 1 \/ (i - 1 \in 1..Len(t) /\ t[i - 1] = s[i])

\* x is at the end of the queue.
Grown(s, t, x) ==
  /\ Len(s) \in Nat /\ Len(t) = Len(s) + 1
  /\ \A i \in 1..Len(s) : i \in 1..Len(t) /\ t[i] = s[i]
  /\ Len(t) \in 1..Len(t) /\ t[Len(t)] = x
  /\ \A i \in 1..Len(t) : i = Len(t) \/ (i \in 1..Len(s) /\ t[i] = s[i])

\* Taking the head shifts a queue.
LEMMA TailShifts ==
  ASSUME NEW S, NEW s \in Seq(S), s # <<>>, NEW t, t = Tail(s)
  PROVE  /\ t \in Seq(S) /\ Shifted(s, t) /\ Head(s) = s[1] /\ Head(s) \in S
         /\ 1 \in 1..Len(s)
<1>1. /\ t \in Seq(S) /\ Len(s) \in Nat /\ Len(s) >= 1 /\ Len(t) = Len(s) - 1
      /\ Head(s) = s[1] /\ Head(s) \in S
      /\ \A i \in 1..(Len(s) - 1) : t[i] = s[i + 1]
  BY TailAt
<1>2. \A i \in 1..Len(t) : i + 1 \in 1..Len(s) /\ t[i] = s[i + 1]
  BY <1>1
<1>3. ASSUME NEW i \in 1..Len(s), i # 1 PROVE i - 1 \in 1..Len(t) /\ t[i - 1] = s[i]
  <2>1. i - 1 \in 1..(Len(s) - 1) /\ (i - 1) + 1 = i
    BY <1>1, <1>3
  <2> QED
    BY <2>1, <1>1
<1> QED
  BY <1>1, <1>2, <1>3 DEF Shifted

\* Appending grows a queue.
LEMMA AppendGrows ==
  ASSUME NEW S, NEW s \in Seq(S), NEW x \in S, NEW t, t = Append(s, x)
  PROVE  t \in Seq(S) /\ Grown(s, t, x)
<1>1. /\ t \in Seq(S) /\ Len(s) \in Nat /\ Len(t) = Len(s) + 1
      /\ \A i \in 1..Len(s) : t[i] = s[i]
      /\ t[Len(s) + 1] = x
  BY AppendAt
<1> QED
  BY <1>1 DEF Grown

Numbers == 1..MaxChunks

\* What TypeOK says of the queues and the counters, for arithmetic.
LEMMA QueueTypes ==
  ASSUME TypeOK
  PROVE  /\ feed \in Seq(Numbers) /\ send \in Seq(Frames)
         /\ Len(feed) \in Nat /\ Len(send) \in Nat
         /\ \A i \in 1..Len(feed) : feed[i] \in Nat
         /\ \A i \in 1..Len(send) : send[i] \in Frames /\ send[i].n \in Nat
         /\ shown \in Nat /\ since \in Nat /\ delivered \in Nat /\ rendered \in Nat
         /\ since <= shown /\ shown <= delivered /\ delivered <= rendered
         /\ rendered <= MaxChunks /\ MaxChunks \in Nat
<1>1. feed \in Seq(Numbers) /\ send \in Seq(Frames)
  BY DEF TypeOK, Numbers
<1>2. /\ shown \in Nat /\ since \in Nat /\ delivered \in Nat /\ rendered \in Nat
      /\ since <= shown /\ shown <= delivered /\ delivered <= rendered
      /\ rendered <= MaxChunks /\ MaxChunks \in Nat
  BY WrapperAssumption DEF TypeOK
<1>3. \A f \in Frames : f.n \in Nat
  BY <1>2 DEF Frames
<1>4. \A m \in Numbers : m \in Nat
  BY <1>2 DEF Numbers
<1>5. \A i \in 1..Len(feed) : feed[i] \in Nat
  BY <1>1, <1>4
<1>6. \A i \in 1..Len(send) : send[i] \in Frames /\ send[i].n \in Nat
  BY <1>1, <1>3
<1> QED
  BY <1>1, <1>2, <1>5, <1>6

\* What a frame is.
LEMMA FrameTypes ==
  ASSUME MaxChunks \in Nat
  PROVE  /\ \A n \in Numbers : Chunk(n) \in Frames /\ Chunk(n).t = "chunk" /\ Chunk(n).n = n
         /\ \A n \in 0..MaxChunks : /\ Snapshot(n) \in Frames /\ Snapshot(n).t = "snapshot"
                                    /\ Snapshot(n).n = n
         /\ \A f \in Frames : f.t \in {"chunk", "snapshot"} /\ f.n \in 0..MaxChunks
BY DEF Numbers, Frames, Chunk, Snapshot

-----------------------------------------------------------------------------
(* Lemmas: every step preserves the invariant *)

\* Every step keeps every variable in its range; a chunk that is written is
\* newer than the last, by Ordered.
LEMMA TypeStep ==
  ASSUME TypeOK, Ordered, [Next]_vars
  PROVE  TypeOK'
<1>0. /\ feed \in Seq(Numbers) /\ send \in Seq(Frames)
      /\ Len(feed) \in Nat /\ Len(send) \in Nat
      /\ Len(feed) <= FeedQueue /\ Len(send) <= SendQueue
      /\ FeedQueue \in Nat /\ SendQueue \in Nat /\ FeedQueue # 0 /\ SendQueue # 0
      /\ \A i \in 1..Len(feed) : feed[i] \in Nat
      /\ \A i \in 1..Len(send) : send[i] \in Frames /\ send[i].n \in Nat
      /\ shown \in Nat /\ since \in Nat /\ delivered \in Nat /\ rendered \in Nat
      /\ since <= shown /\ shown <= delivered /\ delivered <= rendered
      /\ rendered <= MaxChunks /\ MaxChunks \in Nat /\ MaxAsks \in Nat
      /\ snapAt \in 0..MaxChunks
  BY QueueTypes, WrapperAssumption DEF TypeOK
<1> USE DEF TypeOK, Phase, Go, Ends, Goroutines, termVars, sourceVars, loopVars, readVars, shownVars
<1>1. CASE Render
  BY <1>1, <1>0 DEF Render
<1>2. CASE Deliver
  <2>1. delivered + 1 \in Numbers /\ delivered + 1 \in 0..rendered
    BY <1>2, <1>0 DEF Deliver, Numbers
  <2>2. since \in 0..(delivered + 1) /\ shown \in since..(delivered + 1)
    BY <1>0
  <2>3. feed' \in Seq(Numbers) /\ Len(feed') <= FeedQueue /\ lost' \subseteq Numbers
    <3>1. CASE feed' = feed /\ lost' = lost
      BY <3>1, <1>0 DEF Numbers
    <3>2. CASE Len(feed) < FeedQueue /\ feed' = Append(feed, delivered + 1) /\ lost' = lost
      <4>1. feed' \in Seq(Numbers) /\ Len(feed') = Len(feed) + 1
        BY <3>2, <2>1, <1>0, AppendAt
      <4> QED
        BY <4>1, <3>2, <1>0 DEF Numbers
    <3>3. CASE lost' = lost \cup {delivered + 1} /\ feed' = feed
      BY <3>3, <2>1, <1>0 DEF Numbers
    <3> QED
      BY <1>2, <3>1, <3>2, <3>3 DEF Deliver
  <2>4. delivered' = delivered + 1
    BY <1>2 DEF Deliver
  <2> QED
    BY <1>2, <2>1, <2>2, <2>3, <2>4 DEF Deliver, Numbers
<1>3. CASE SourceEnds
  BY <1>3 DEF SourceEnds
<1>4. CASE Redial
  <2>1. conns' \in 0..MaxConns
    BY <1>4, WrapperAssumption DEF Redial
  <2> QED
    BY <1>4, <2>1 DEF Redial
<1>5. CASE Connected
  BY <1>5 DEF Connected
<1>6. CASE DialFails
  BY <1>6 DEF DialFails
<1>7. CASE HelloSent
  BY <1>7 DEF HelloSent
<1>8. CASE SetupFails
  BY <1>8 DEF SetupFails
<1>9. CASE Start
  <2>1. delivered' \in Nat /\ delivered' <= rendered /\ since' = delivered' /\ shown' = delivered'
    BY <1>9, <1>0 DEF Start
  <2>2. delivered' \in 0..rendered /\ since' \in 0..delivered' /\ shown' \in since'..delivered'
    BY <2>1, <1>0
  <2>3. feed' \in Seq(1..MaxChunks) /\ Len(feed') <= FeedQueue
    BY <1>9, <1>0 DEF Start
  <2>4. send' \in Seq(Frames) /\ Len(send') <= SendQueue
    BY <1>9, <1>0 DEF Start
  <2> QED
    BY <1>9, <2>1, <2>2, <2>3, <2>4 DEF Start
<1>10. CASE Teardown
  BY <1>10 DEF Teardown
<1>11. CASE Joined
  BY <1>11 DEF Joined
<1>12. CASE Over
  BY <1>12 DEF Over
<1>13. CASE WriteFrame
  <2>1. /\ send' \in Seq(Frames) /\ Shifted(send, send') /\ Head(send) = send[1]
        /\ Head(send) \in Frames /\ 1 \in 1..Len(send)
    BY <1>13, <1>0, TailShifts DEF WriteFrame
  <2>2. Len(send') <= SendQueue
    BY <2>1, <1>0 DEF Shifted
  <2>3. shown' \in since..delivered /\ screen' \subseteq 1..MaxChunks
    <3>1. CASE shown' = shown /\ screen' = screen
      BY <3>1
    <3>2. CASE /\ Head(send).t = "chunk" /\ shown' = Head(send).n
               /\ screen' = screen \cup {Head(send).n}
      <4>1. IsChunk(1)
        BY <3>2, <2>1 DEF IsChunk
      <4>2. shown < Head(send).n /\ Head(send).n <= delivered /\ Head(send).n \in Nat
        BY <4>1, <2>1, <1>0 DEF Ordered
      <4>3. Head(send).n \in since..delivered /\ Head(send).n \in 1..MaxChunks
        BY <4>2, <1>0
      <4> QED
        BY <4>3, <3>2
    <3>3. CASE shown' = shown /\ screen' = 1..Head(send).n
      <4>1. Head(send).n \in 0..MaxChunks
        BY <2>1, <1>0, FrameTypes
      <4> QED
        BY <4>1, <3>3, <1>0
    <3> QED
      BY <1>13, <3>1, <3>2, <3>3 DEF WriteFrame, Apply
  <2> QED
    BY <1>13, <2>1, <2>2, <2>3 DEF WriteFrame
<1>14. CASE WriteFails
  <2>1. send' \in Seq(Frames) /\ Shifted(send, send')
    BY <1>14, <1>0, TailShifts DEF WriteFails
  <2>2. Len(send') <= SendQueue
    BY <2>1, <1>0 DEF Shifted
  <2> QED
    BY <1>14, <2>1, <2>2 DEF WriteFails
<1>15. ASSUME NEW g \in Goroutines, GoroutineEnds(g) PROVE TypeOK'
  BY <1>15 DEF GoroutineEnds
<1>16. CASE Pump
  <2>0. Enqueue(Chunk(Head(feed)))
    BY <1>16 DEF Pump
  <2>1. feed' \in Seq(Numbers) /\ Shifted(feed, feed') /\ Head(feed) \in Numbers
    BY <1>16, <1>0, TailShifts DEF Pump
  <2>2. Chunk(Head(feed)) \in Frames
    BY <2>1, <1>0, FrameTypes
  <2>3. send' \in Seq(Frames) /\ Len(send') <= SendQueue /\ cancelled' \in BOOLEAN
    <3>1. CASE /\ Len(send) < SendQueue /\ send' = Append(send, Chunk(Head(feed)))
               /\ cancelled' = cancelled
      <4>1. send' \in Seq(Frames) /\ Len(send') = Len(send) + 1
        BY <3>1, <2>2, <1>0, AppendAt
      <4> QED
        BY <4>1, <3>1, <1>0
    <3>2. CASE send' = send /\ cancelled' = TRUE
      BY <3>2, <1>0
    <3> QED
      BY <2>0, <3>1, <3>2 DEF Enqueue
  <2>4. Len(feed') <= FeedQueue
    BY <2>1, <1>0 DEF Shifted
  <2> QED
    BY <1>16, <2>1, <2>3, <2>4 DEF Pump, Numbers
<1>17. CASE PumpDry
  BY <1>17 DEF PumpDry
<1>18. CASE PingFails
  BY <1>18 DEF PingFails
<1>19. CASE TakeSnapshot
  <2>1. asks' \in 0..MaxAsks
    BY <1>19, <1>0, WrapperAssumption DEF TakeSnapshot
  <2>2. snapAt' \in 0..MaxChunks
    BY <1>19, <1>0 DEF TakeSnapshot
  <2> QED
    BY <1>19, <2>1, <2>2 DEF TakeSnapshot
<1>20. CASE ReadInput
  <2>1. asks' \in 0..MaxAsks
    BY <1>20, <1>0, WrapperAssumption DEF ReadInput
  <2> QED
    BY <1>20, <2>1 DEF ReadInput
<1>21. CASE Paint
  <2>0. Enqueue(Snapshot(snapAt))
    BY <1>21 DEF Paint
  <2>2. Snapshot(snapAt) \in Frames
    BY <1>0, FrameTypes
  <2>3. send' \in Seq(Frames) /\ Len(send') <= SendQueue /\ cancelled' \in BOOLEAN
    <3>1. CASE /\ Len(send) < SendQueue /\ send' = Append(send, Snapshot(snapAt))
               /\ cancelled' = cancelled
      <4>1. send' \in Seq(Frames) /\ Len(send') = Len(send) + 1
        BY <3>1, <2>2, <1>0, AppendAt
      <4> QED
        BY <4>1, <3>1, <1>0
    <3>2. CASE send' = send /\ cancelled' = TRUE
      BY <3>2, <1>0
    <3> QED
      BY <2>0, <3>1, <3>2 DEF Enqueue
  <2>4. reader' = "reading" /\ snapAt' = 0 /\ snapAt' \in 0..MaxChunks
    BY <1>21, <1>0 DEF Paint
  <2> QED
    BY <1>21, <2>3, <2>4 DEF Paint
<1>22. CASE TakeInput
  BY <1>22 DEF TakeInput
<1>23. CASE ReadFails
  BY <1>23 DEF ReadFails, Reading
<1>24. CASE Stop
  BY <1>24 DEF Stop
<1>25. CASE SockDrops
  BY <1>25 DEF SockDrops
<1>26. CASE UNCHANGED vars
    BY <1>26 DEF vars
<1> QED
  BY <1>1, <1>2, <1>3, <1>4, <1>5, <1>6, <1>7, <1>8, <1>9, <1>10, <1>11, <1>12, <1>13, <1>14,
      <1>15, <1>16, <1>17, <1>18, <1>19, <1>20, <1>21, <1>22, <1>23, <1>24, <1>25, <1>26
  DEF Next, Loop, Writer, Pumper, Pinger, ReadLoop, Goroutines
\* Every step keeps Held.
LEMMA HeldStep ==
  ASSUME Held, [Next]_vars
  PROVE  Held'
<1> USE DEF Held, Go, Ends, termVars, sourceVars, loopVars, readVars, shownVars
<1>1. CASE Render
  BY <1>1 DEF Render
<1>2. CASE Deliver
  BY <1>2 DEF Deliver
<1>3. CASE SourceEnds
  BY <1>3 DEF SourceEnds
<1>4. CASE Redial
  BY <1>4 DEF Redial
<1>5. CASE Connected
  BY <1>5 DEF Connected
<1>6. CASE DialFails
  BY <1>6 DEF DialFails
<1>7. CASE HelloSent
  BY <1>7 DEF HelloSent
<1>8. CASE SetupFails
  BY <1>8 DEF SetupFails
<1>9. CASE Start
  BY <1>9 DEF Start, Goroutines
<1>10. CASE Teardown
  BY <1>10 DEF Teardown
<1>11. CASE Joined
  BY <1>11 DEF Joined
<1>12. CASE Over
  BY <1>12 DEF Over
<1>13. CASE WriteFrame
  BY <1>13 DEF WriteFrame
<1>14. CASE WriteFails
  BY <1>14 DEF WriteFails
<1>15. ASSUME NEW g \in Goroutines, GoroutineEnds(g) PROVE Held'
  BY <1>15 DEF GoroutineEnds, Goroutines
<1>16. CASE Pump
  BY <1>16 DEF Pump
<1>17. CASE PumpDry
  BY <1>17 DEF PumpDry
<1>18. CASE PingFails
  BY <1>18 DEF PingFails
<1>19. CASE TakeSnapshot
  BY <1>19 DEF TakeSnapshot
<1>20. CASE ReadInput
  BY <1>20 DEF ReadInput
<1>21. CASE Paint
  BY <1>21 DEF Paint
<1>22. CASE TakeInput
  BY <1>22 DEF TakeInput
<1>23. CASE ReadFails
  BY <1>23 DEF ReadFails, Reading
<1>24. CASE Stop
  BY <1>24 DEF Stop
<1>25. CASE SockDrops
  BY <1>25 DEF SockDrops
<1>26. CASE UNCHANGED vars
    BY <1>26 DEF vars
<1> QED
  BY <1>1, <1>2, <1>3, <1>4, <1>5, <1>6, <1>7, <1>8, <1>9, <1>10, <1>11, <1>12, <1>13, <1>14,
      <1>15, <1>16, <1>17, <1>18, <1>19, <1>20, <1>21, <1>22, <1>23, <1>24, <1>25, <1>26
  DEF Next, Loop, Writer, Pumper, Pinger, ReadLoop, Goroutines

\* What a step does to the two queues and to the last chunk shown.
SendKept == send' = send
FeedKept == feed' = feed
Untouched == SendKept /\ FeedKept /\ shown' = shown /\ delivered' >= delivered

\* A step that leaves queues and screen alone keeps Ordered.
LEMMA QueuesKept ==
  ASSUME TypeOK, TypeOK', Ordered, Untouched
  PROVE  Ordered'
<1>1. send' = send /\ feed' = feed /\ shown' = shown
  BY DEF Untouched, SendKept, FeedKept
<1>2. delivered' \in Nat /\ delivered \in Nat /\ delivered' >= delivered
  BY QueueTypes, WrapperAssumption DEF TypeOK, Untouched
<1>3. /\ \A i \in 1..Len(send) : send[i].n \in Nat
      /\ \A i \in 1..Len(feed) : feed[i] \in Nat
  BY QueueTypes
<1> QED
  BY <1>1, <1>2, <1>3 DEF Ordered, IsChunk

\* A frame leaves the send queue, and is shown or not.
LEMMA ShiftedOrdered ==
  ASSUME TypeOK, TypeOK', Ordered, Shifted(send, send'), feed' = feed, delivered' = delivered,
         shown' = shown \/ (IsChunk(1) /\ shown' = send[1].n)
  PROVE  Ordered'
<1>0. /\ \A i \in 1..Len(send) : send[i].n \in Nat
      /\ \A i \in 1..Len(feed) : feed[i] \in Nat
      /\ shown \in Nat /\ delivered \in Nat /\ Len(send) \in Nat
  BY QueueTypes
<1>1. /\ \A i \in 1..Len(send) : IsChunk(i) => shown < send[i].n /\ send[i].n <= delivered
      /\ \A i, j \in 1..Len(send) : i < j /\ IsChunk(i) /\ IsChunk(j) => send[i].n < send[j].n
      /\ \A i \in 1..Len(feed) : shown < feed[i] /\ feed[i] <= delivered
      /\ \A i, j \in 1..Len(feed) : i < j => feed[i] < feed[j]
      /\ \A i \in 1..Len(send), j \in 1..Len(feed) : IsChunk(i) => send[i].n < feed[j]
  BY DEF Ordered
<1>2. /\ Len(send') = Len(send) - 1 /\ Len(send) >= 1 /\ 1 \in 1..Len(send)
      /\ \A i \in 1..Len(send') : i + 1 \in 1..Len(send) /\ 1 < i + 1 /\ send'[i] = send[i + 1]
  BY <1>0 DEF Shifted
<1>3. \A i \in 1..Len(send') : (IsChunk(i)' <=> IsChunk(i + 1)) /\ send'[i].n = send[i + 1].n
  BY <1>2 DEF IsChunk
<1>4. \A i \in 1..Len(send') : (IsChunk(i)') => shown' < send'[i].n /\ send'[i].n <= delivered'
  BY <1>0, <1>1, <1>2, <1>3
<1>5. \A i, j \in 1..Len(send') : i < j /\ (IsChunk(i)') /\ (IsChunk(j)') => send'[i].n < send'[j].n
  <2>1. ASSUME NEW i \in 1..Len(send'), NEW j \in 1..Len(send'), i < j, IsChunk(i)', IsChunk(j)'
        PROVE  send'[i].n < send'[j].n
    <3>1. i + 1 \in 1..Len(send) /\ j + 1 \in 1..Len(send) /\ i + 1 < j + 1
      BY <1>2, <2>1
    <3>2. IsChunk(i + 1) /\ IsChunk(j + 1)
      BY <1>3, <2>1
    <3>3. send[i + 1].n < send[j + 1].n
      BY <1>1, <3>1, <3>2
    <3> QED
      BY <1>3, <3>3
  <2> QED
    BY <2>1
<1>6. \A i \in 1..Len(feed') : shown' < feed'[i] /\ feed'[i] <= delivered'
  BY <1>0, <1>1, <1>2
<1>7. \A i \in 1..Len(send'), j \in 1..Len(feed') : (IsChunk(i)') => send'[i].n < feed'[j]
  BY <1>1, <1>2, <1>3
<1> QED
  BY <1>1, <1>4, <1>5, <1>6, <1>7 DEF Ordered, IsChunk

\* A frame is queued, after what is there.
LEMMA GrownOrdered ==
  ASSUME TypeOK, TypeOK', Ordered, NEW f \in Frames, Grown(send, send', f),
         delivered' = delivered, shown' = shown,
         \/ f.t = "snapshot" /\ feed' = feed
         \/ Shifted(feed, feed') /\ f.n = feed[1]
  PROVE  Ordered'
<1>0. /\ \A i \in 1..Len(send) : send[i].n \in Nat
      /\ \A i \in 1..Len(feed) : feed[i] \in Nat
      /\ shown \in Nat /\ delivered \in Nat /\ Len(send) \in Nat /\ Len(feed) \in Nat
  BY QueueTypes
<1>1. /\ \A i \in 1..Len(send) : IsChunk(i) => shown < send[i].n /\ send[i].n <= delivered
      /\ \A i, j \in 1..Len(send) : i < j /\ IsChunk(i) /\ IsChunk(j) => send[i].n < send[j].n
      /\ \A i \in 1..Len(feed) : shown < feed[i] /\ feed[i] <= delivered
      /\ \A i, j \in 1..Len(feed) : i < j => feed[i] < feed[j]
      /\ \A i \in 1..Len(send), j \in 1..Len(feed) : IsChunk(i) => send[i].n < feed[j]
  BY DEF Ordered
<1>2. /\ Len(send') = Len(send) + 1
      /\ \A i \in 1..Len(send') :
           (i = Len(send') /\ send'[i] = f) \/ (i \in 1..Len(send) /\ send'[i] = send[i])
      /\ \A i, j \in 1..Len(send') : i < j => i \in 1..Len(send) /\ send'[i] = send[i]
  BY <1>0 DEF Grown
\* The feed is what it was, or what is behind its head.
<1>3. \A j \in 1..Len(feed') :
        \E k \in 1..Len(feed) : feed'[j] = feed[k] /\ (f.t = "chunk" => f.n < feed[k])
  <2>1. CASE f.t = "snapshot" /\ feed' = feed
    <3>1. f.t # "chunk"
      BY <2>1
    <3> QED
      BY <2>1, <3>1
  <2>2. CASE Shifted(feed, feed') /\ f.n = feed[1]
    <3>1. /\ 1 \in 1..Len(feed)
          /\ \A j \in 1..Len(feed') : j + 1 \in 1..Len(feed) /\ 1 < j + 1 /\ feed'[j] = feed[j + 1]
      BY <2>2, <1>0 DEF Shifted
    <3> QED
      BY <2>2, <3>1, <1>1
  <2> QED
    BY <2>1, <2>2
<1>4. \A i, j \in 1..Len(feed') : i < j => feed'[i] < feed'[j]
  <2>1. CASE feed' = feed
    BY <2>1, <1>1
  <2>2. CASE Shifted(feed, feed')
    <3>1. \A j \in 1..Len(feed') : j + 1 \in 1..Len(feed) /\ feed'[j] = feed[j + 1]
      BY <2>2 DEF Shifted
    <3>2. \A i, j \in 1..Len(feed') : i < j => i + 1 < j + 1
      OBVIOUS
    <3> QED
      BY <3>1, <3>2, <1>1
  <2> QED
    BY <2>1, <2>2
<1>5. f.t = "chunk" =>
        /\ shown < f.n /\ f.n <= delivered
        /\ \A i \in 1..Len(send) : IsChunk(i) => send[i].n < f.n
  <2>1. SUFFICES ASSUME f.t = "chunk" PROVE
          /\ shown < f.n /\ f.n <= delivered
          /\ \A i \in 1..Len(send) : IsChunk(i) => send[i].n < f.n
    OBVIOUS
  <2>2. f.t # "snapshot"
    BY <2>1
  <2>3. 1 \in 1..Len(feed) /\ f.n = feed[1]
    BY <2>2, <1>0 DEF Shifted
  <2> QED
    BY <2>3, <1>1
<1>6. \A i \in 1..Len(send') :
        \/ i = Len(send') /\ send'[i] = f /\ ((IsChunk(i)') <=> f.t = "chunk")
        \/ i \in 1..Len(send) /\ send'[i] = send[i] /\ ((IsChunk(i)') <=> IsChunk(i))
  BY <1>2 DEF IsChunk
<1>7. \A i \in 1..Len(send') : (IsChunk(i)') => shown' < send'[i].n /\ send'[i].n <= delivered'
  BY <1>1, <1>5, <1>6
<1>8. ASSUME NEW i \in 1..Len(send'), NEW j \in 1..Len(send'), i < j, IsChunk(i)', IsChunk(j)'
      PROVE  send'[i].n < send'[j].n
  <2>1. i \in 1..Len(send) /\ send'[i] = send[i] /\ IsChunk(i)
    BY <1>8, <1>2 DEF IsChunk
  <2>2. CASE send'[j] = f /\ f.t = "chunk"
    BY <2>1, <2>2, <1>5
  <2>3. CASE j \in 1..Len(send) /\ send'[j] = send[j] /\ IsChunk(j)
    BY <2>1, <2>3, <1>1, <1>8
  <2> QED
    BY <2>2, <2>3, <1>6, <1>8
<1>9. \A i \in 1..Len(feed') : shown' < feed'[i] /\ feed'[i] <= delivered'
  BY <1>1, <1>3
<1>10. \A i \in 1..Len(send'), j \in 1..Len(feed') : (IsChunk(i)') => send'[i].n < feed'[j]
  BY <1>1, <1>3, <1>6
<1> QED
  BY <1>4, <1>7, <1>8, <1>9, <1>10 DEF Ordered, IsChunk

\* The feed loses its head, and the connection is dropped.
LEMMA FeedShiftedOrdered ==
  ASSUME TypeOK, TypeOK', Ordered, send' = send, Shifted(feed, feed'),
         delivered' = delivered, shown' = shown
  PROVE  Ordered'
<1>1. \A j \in 1..Len(feed') : j + 1 \in 1..Len(feed) /\ feed'[j] = feed[j + 1]
  BY DEF Shifted
<1>2. \A i, j \in 1..Len(feed') : i < j => i + 1 < j + 1
  BY QueueTypes DEF Shifted
<1> QED
  BY <1>1, <1>2 DEF Ordered, IsChunk

\* Every step keeps Ordered: chunks go from the feed to the send queue to the
\* screen, and enter at the end.
LEMMA OrderedStep ==
  ASSUME TypeOK, TypeOK', Ordered, [Next]_vars
  PROVE  Ordered'
<1>0. /\ feed \in Seq(Numbers) /\ send \in Seq(Frames)
      /\ Len(feed) \in Nat /\ Len(send) \in Nat
      /\ Len(feed) <= FeedQueue /\ Len(send) <= SendQueue
      /\ FeedQueue \in Nat /\ SendQueue \in Nat /\ FeedQueue # 0 /\ SendQueue # 0
      /\ \A i \in 1..Len(feed) : feed[i] \in Nat
      /\ \A i \in 1..Len(send) : send[i] \in Frames /\ send[i].n \in Nat
      /\ shown \in Nat /\ since \in Nat /\ delivered \in Nat /\ rendered \in Nat
      /\ since <= shown /\ shown <= delivered /\ delivered <= rendered
      /\ rendered <= MaxChunks /\ MaxChunks \in Nat /\ MaxAsks \in Nat
      /\ snapAt \in 0..MaxChunks
  BY QueueTypes, WrapperAssumption DEF TypeOK
<1>1. /\ \A i \in 1..Len(send) : IsChunk(i) => shown < send[i].n /\ send[i].n <= delivered
      /\ \A i, j \in 1..Len(send) : i < j /\ IsChunk(i) /\ IsChunk(j) => send[i].n < send[j].n
      /\ \A i \in 1..Len(feed) : shown < feed[i] /\ feed[i] <= delivered
      /\ \A i, j \in 1..Len(feed) : i < j => feed[i] < feed[j]
      /\ \A i \in 1..Len(send), j \in 1..Len(feed) : IsChunk(i) => send[i].n < feed[j]
  BY DEF Ordered
<1> USE DEF termVars, sourceVars, loopVars, readVars, shownVars
<1>2. CASE UNCHANGED <<send, feed, shown, delivered>>
  BY <1>2, <1>0, QueuesKept DEF Untouched, SendKept, FeedKept
<1>3. CASE Deliver
  <2>0. delivered' = delivered + 1 /\ send' = send /\ shown' = shown
    BY <1>3 DEF Deliver
  <2>1. CASE feed' = feed
    BY <2>0, <2>1, <1>0, QueuesKept DEF Untouched, SendKept, FeedKept
  <2>2. CASE feed' = Append(feed, delivered + 1)
    <3>0. Grown(feed, feed', delivered + 1)
      <4>1. delivered + 1 \in Numbers
        BY <1>3, <1>0 DEF Deliver, Numbers
      <4> QED
        BY <4>1, <2>2, <1>0, AppendGrows
    <3>1. \A i \in 1..Len(feed') :
            (i \in 1..Len(feed) /\ feed'[i] = feed[i]) \/ feed'[i] = delivered + 1
      BY <3>0 DEF Grown
    <3>2. \A i \in 1..Len(feed') : shown < feed'[i] /\ feed'[i] <= delivered + 1
      <4>1. ASSUME NEW i \in 1..Len(feed'), i \in 1..Len(feed), feed'[i] = feed[i]
            PROVE  shown < feed'[i] /\ feed'[i] <= delivered + 1
        <5>1. shown < feed[i] /\ feed[i] <= delivered /\ feed[i] \in Nat
          BY <1>0, <1>1, <4>1
        <5> QED
          BY <1>0, <4>1, <5>1
      <4>2. shown < delivered + 1 /\ delivered + 1 <= delivered + 1
        BY <1>0
      <4> QED
        BY <3>1, <4>1, <4>2
    <3>3. ASSUME NEW i \in 1..Len(feed'), NEW j \in 1..Len(feed'), i < j PROVE feed'[i] < feed'[j]
      <4>1. i \in 1..Len(feed) /\ feed'[i] = feed[i]
        BY <3>3, <3>0 DEF Grown
      <4>2. CASE j \in 1..Len(feed) /\ feed'[j] = feed[j]
        BY <4>1, <4>2, <3>3, <1>1
      <4>3. CASE feed'[j] = delivered + 1
        BY <4>1, <4>3, <1>0, <1>1
      <4> QED
        BY <4>2, <4>3, <3>1
    <3>4. \A i \in 1..Len(send), j \in 1..Len(feed') : IsChunk(i) => send[i].n < feed'[j]
      <4>1. ASSUME NEW i \in 1..Len(send), NEW j \in 1..Len(feed'), IsChunk(i)
            PROVE  send[i].n < feed'[j]
        <5>1. CASE j \in 1..Len(feed) /\ feed'[j] = feed[j]
          BY <1>1, <4>1, <5>1
        <5>2. CASE feed'[j] = delivered + 1
          <6>1. send[i].n <= delivered /\ send[i].n \in Nat
            BY <1>0, <1>1, <4>1
          <6> QED
            BY <1>0, <5>2, <6>1
        <5> QED
          BY <3>1, <5>1, <5>2
      <4> QED
        BY <4>1
    <3>5. \A i \in 1..Len(send) : IsChunk(i) => shown < send[i].n /\ send[i].n <= delivered + 1
      BY <1>0, <1>1
    <3> QED
      BY <2>0, <3>2, <3>3, <3>4, <3>5, <1>1 DEF Ordered, IsChunk
  <2> QED
    BY <1>3, <2>1, <2>2, <2>0 DEF Deliver
<1>4. CASE Start
  <2>1. send' = <<>> /\ feed' = <<>>
    BY <1>4 DEF Start
  <2> QED
    BY <2>1 DEF Ordered
<1>5. CASE WriteFrame
  <2>0. Shifted(send, send') /\ feed' = feed /\ delivered' = delivered /\ 1 \in 1..Len(send)
        /\ Head(send) = send[1]
    BY <1>5, <1>0, TailShifts DEF WriteFrame
  <2>1. CASE shown' = shown
    BY <2>0, <2>1, ShiftedOrdered
  <2>2. CASE IsChunk(1) /\ shown' = send[1].n
    BY <2>0, <2>2, ShiftedOrdered
  <2>3. \/ shown' = shown
        \/ IsChunk(1) /\ shown' = send[1].n
    BY <1>5, <2>0 DEF WriteFrame, Apply, IsChunk
  <2> QED
    BY <2>1, <2>2, <2>3
<1>6. CASE WriteFails
  <2>0. Shifted(send, send') /\ feed' = feed /\ delivered' = delivered /\ shown' = shown
    BY <1>6, <1>0, TailShifts DEF WriteFails
  <2> QED
    BY <2>0, ShiftedOrdered
<1>7. CASE Pump
  <2>0. /\ Shifted(feed, feed') /\ Head(feed) = feed[1] /\ Head(feed) \in Numbers
        /\ delivered' = delivered /\ shown' = shown /\ Enqueue(Chunk(Head(feed)))
    BY <1>7, <1>0, TailShifts DEF Pump
  <2>1. Chunk(Head(feed)) \in Frames /\ Chunk(Head(feed)).n = feed[1]
    BY <2>0, <1>0, FrameTypes
  <2>2. CASE send' = send
    BY <2>0, <2>2, FeedShiftedOrdered
  <2>3. CASE send' = Append(send, Chunk(Head(feed)))
    <3>1. Grown(send, send', Chunk(Head(feed)))
      BY <2>1, <2>3, <1>0, AppendGrows
    <3> QED
      BY <2>0, <2>1, <3>1, GrownOrdered
  <2> QED
    BY <2>0, <2>2, <2>3 DEF Enqueue
<1>8. CASE Paint
  <2>0. feed' = feed /\ delivered' = delivered /\ shown' = shown /\ Enqueue(Snapshot(snapAt))
    BY <1>8 DEF Paint
  <2>1. Snapshot(snapAt) \in Frames /\ Snapshot(snapAt).t = "snapshot"
    BY <1>0, FrameTypes
  <2>2. CASE send' = send
    BY <2>0, <2>2, <1>0, QueuesKept DEF Untouched, SendKept, FeedKept
  <2>3. CASE send' = Append(send, Snapshot(snapAt))
    <3>1. Grown(send, send', Snapshot(snapAt))
      BY <2>1, <2>3, <1>0, AppendGrows
    <3> QED
      BY <2>0, <2>1, <3>1, GrownOrdered
  <2> QED
    BY <2>0, <2>2, <2>3 DEF Enqueue
<1>9. CASE Render \/ SourceEnds \/ Redial \/ Connected \/ DialFails \/ HelloSent \/
         SetupFails \/ Teardown \/ Joined \/ Over \/ (\E g \in Goroutines : GoroutineEnds(g))
         \/ PumpDry \/ PingFails \/ TakeSnapshot \/ ReadInput \/ TakeInput \/ ReadFails \/
         Stop \/ SockDrops
  BY <1>9, <1>2 DEF Render, SourceEnds, Redial, Connected, DialFails, HelloSent, SetupFails,
      Teardown, Joined, Over, GoroutineEnds, PumpDry, PingFails, TakeSnapshot, ReadInput,
          TakeInput, ReadFails, Stop, SockDrops
<1>10. CASE UNCHANGED vars
  BY <1>10, <1>2 DEF vars
<1> QED
  BY <1>2, <1>3, <1>4, <1>5, <1>6, <1>7, <1>8, <1>9, <1>10
  DEF Next, Loop, Writer, Pumper, Pinger, ReadLoop, Goroutines

\* Every step keeps Spaced: the feed grows with delivered only, and a chunk leaves
\* it from the front.
LEMMA SpacedStep ==
  ASSUME TypeOK, TypeOK', Spaced, [Next]_vars
  PROVE  Spaced'
<1>0. /\ feed \in Seq(Numbers) /\ send \in Seq(Frames)
      /\ Len(feed) \in Nat /\ Len(send) \in Nat
      /\ \A i \in 1..Len(feed) : feed[i] \in Nat
      /\ \A i \in 1..Len(send) : send[i] \in Frames /\ send[i].n \in Nat
      /\ shown \in Nat /\ delivered \in Nat /\ shown <= delivered
      /\ delivered <= rendered /\ rendered <= MaxChunks /\ rendered \in Nat
      /\ MaxChunks \in Nat /\ snapAt \in 0..MaxChunks
  BY QueueTypes, WrapperAssumption DEF TypeOK
<1>1. /\ shown + Len(feed) <= delivered
      /\ \A i \in 1..Len(send) : IsChunk(i) => send[i].n + Len(feed) <= delivered
      /\ \A i \in 1..Len(feed) : feed[i] + (Len(feed) - i) <= delivered
  BY DEF Spaced
<1> USE DEF termVars, sourceVars, loopVars, readVars, shownVars
<1>2. CASE UNCHANGED <<send, feed, shown, delivered>>
  BY <1>2, <1>1 DEF Spaced, IsChunk
<1>3. CASE Deliver
  <2>0. delivered' = delivered + 1 /\ send' = send /\ shown' = shown /\ delivered < rendered
    BY <1>3 DEF Deliver
  <2>1. CASE feed' = feed
    BY <2>0, <2>1, <1>0, <1>1 DEF Spaced, IsChunk
  <2>2. CASE feed' = Append(feed, delivered + 1)
    <3>0. Grown(feed, feed', delivered + 1)
      <4>1. delivered + 1 \in Numbers
        BY <2>0, <1>0 DEF Numbers
      <4> QED
        BY <4>1, <2>2, <1>0, AppendGrows
    <3>1. Len(feed') = Len(feed) + 1
      BY <3>0 DEF Grown
    <3>2. ASSUME NEW i \in 1..Len(feed') PROVE feed'[i] + (Len(feed') - i) <= delivered'
      <4>1. CASE i = Len(feed') /\ feed'[i] = delivered + 1
        BY <1>0, <2>0, <3>1, <4>1
      <4>2. CASE i \in 1..Len(feed) /\ feed'[i] = feed[i]
        BY <1>0, <1>1, <2>0, <3>1, <4>2
      <4> QED
        BY <3>0, <4>1, <4>2 DEF Grown
    <3>3. \A i \in 1..Len(send') : (IsChunk(i)') => send'[i].n + Len(feed') <= delivered'
      BY <1>0, <1>1, <2>0, <3>1 DEF IsChunk
    <3>4. shown' + Len(feed') <= delivered'
      BY <1>0, <1>1, <2>0, <3>1
    <3> QED
      BY <3>2, <3>3, <3>4 DEF Spaced
  <2> QED
    BY <1>3, <2>0, <2>1, <2>2 DEF Deliver
<1>4. CASE Start
  <2>1. send' = <<>> /\ feed' = <<>> /\ shown' = delivered' /\ delivered' \in Nat
    BY <1>4, <1>0 DEF Start
  <2>2. Len(send') = 0 /\ Len(feed') = 0
    BY <2>1
  <2> QED
    BY <2>1, <2>2 DEF Spaced
<1>5. CASE WriteFrame \/ WriteFails
  <2>0. Shifted(send, send') /\ feed' = feed /\ delivered' = delivered /\ 1 \in 1..Len(send)
        /\ Head(send) = send[1]
    BY <1>5, <1>0, TailShifts DEF WriteFrame, WriteFails
  <2>1. shown' = shown \/ (IsChunk(1) /\ shown' = send[1].n)
    BY <1>5, <2>0 DEF WriteFrame, WriteFails, Apply, IsChunk
  <2>2. shown' + Len(feed') <= delivered'
    BY <1>1, <2>0, <2>1
  <2>3. \A i \in 1..Len(send') : (IsChunk(i)') => send'[i].n + Len(feed') <= delivered'
    BY <1>1, <2>0 DEF Shifted, IsChunk
  <2> QED
    BY <1>1, <2>0, <2>2, <2>3 DEF Spaced
<1>6. CASE Pump
  <2>0. /\ Shifted(feed, feed') /\ Head(feed) = feed[1] /\ Head(feed) \in Numbers
        /\ 1 \in 1..Len(feed)
        /\ delivered' = delivered /\ shown' = shown /\ Enqueue(Chunk(Head(feed)))
    BY <1>6, <1>0, TailShifts DEF Pump
  <2>1. /\ Len(feed') = Len(feed) - 1
        /\ \A i \in 1..Len(feed') : i + 1 \in 1..Len(feed) /\ feed'[i] = feed[i + 1]
    BY <2>0 DEF Shifted
  <2>2. \A i \in 1..Len(feed') : feed'[i] + (Len(feed') - i) <= delivered'
    <3>1. ASSUME NEW i \in 1..Len(feed') PROVE feed'[i] + (Len(feed') - i) <= delivered'
      <4>1. feed[i + 1] + (Len(feed) - (i + 1)) <= delivered /\ feed[i + 1] \in Nat
        BY <1>0, <1>1, <2>1
      <4>2. Len(feed') - i = Len(feed) - (i + 1) /\ feed'[i] = feed[i + 1]
        BY <1>0, <2>1
      <4> QED
        BY <2>0, <4>1, <4>2, Zenon
    <3> QED
      BY <3>1
  <2>3. /\ shown' + Len(feed') <= delivered'
        /\ feed[1] + Len(feed') <= delivered' /\ feed[1] \in Nat
    <3>1. feed[1] + (Len(feed) - 1) <= delivered /\ feed[1] \in Nat
      BY <1>0, <1>1, <2>0
    <3> QED
      BY <1>0, <1>1, <2>0, <2>1, <3>1
  <2>4. \A i \in 1..Len(send') :
          (i \in 1..Len(send) /\ send'[i] = send[i]) \/ send'[i].n = feed[1]
    <3>1. Chunk(Head(feed)) \in Frames /\ Chunk(Head(feed)).n = feed[1]
      BY <2>0, <1>0, FrameTypes
    <3>2. CASE send' = send
      BY <3>2
    <3>3. CASE send' = Append(send, Chunk(Head(feed)))
      <4>1. Grown(send, send', Chunk(Head(feed)))
        BY <3>1, <3>3, <1>0, AppendGrows
      <4> QED
        BY <3>1, <4>1 DEF Grown
    <3> QED
      BY <2>0, <3>2, <3>3 DEF Enqueue
  <2>5. \A i \in 1..Len(send') : (IsChunk(i)') => send'[i].n + Len(feed') <= delivered'
    <3>1. ASSUME NEW i \in 1..Len(send'), IsChunk(i)' PROVE send'[i].n + Len(feed') <= delivered'
      <4>1. CASE i \in 1..Len(send) /\ send'[i] = send[i]
        <5>1. send[i].n + Len(feed) <= delivered /\ send[i].n \in Nat
          BY <1>0, <1>1, <3>1, <4>1 DEF IsChunk
        <5> QED
          BY <1>0, <2>0, <2>1, <4>1, <5>1
      <4>2. CASE send'[i].n = feed[1]
        BY <2>3, <4>2
      <4> QED
        BY <2>4, <4>1, <4>2
    <3> QED
      BY <3>1
  <2> QED
    BY <2>2, <2>3, <2>5 DEF Spaced
<1>7. CASE Paint
  <2>0. feed' = feed /\ delivered' = delivered /\ shown' = shown /\ Enqueue(Snapshot(snapAt))
    BY <1>7 DEF Paint
  <2>1. Snapshot(snapAt) \in Frames /\ Snapshot(snapAt).t = "snapshot"
    BY <1>0, FrameTypes
  <2>2. \A i \in 1..Len(send') :
          (i \in 1..Len(send) /\ send'[i] = send[i]) \/ send'[i].t = "snapshot"
    <3>1. CASE send' = send
      BY <3>1
    <3>2. CASE send' = Append(send, Snapshot(snapAt))
      <4>1. Grown(send, send', Snapshot(snapAt))
        BY <2>1, <3>2, <1>0, AppendGrows
      <4> QED
        BY <2>1, <4>1 DEF Grown
    <3> QED
      BY <2>0, <3>1, <3>2 DEF Enqueue
  <2> QED
    BY <1>1, <2>0, <2>2 DEF Spaced, IsChunk
<1>8. CASE Render \/ SourceEnds \/ Redial \/ Connected \/ DialFails \/ HelloSent \/
         SetupFails \/ Teardown \/ Joined \/ Over \/ (\E g \in Goroutines : GoroutineEnds(g))
         \/ PumpDry \/ PingFails \/ TakeSnapshot \/ ReadInput \/ TakeInput \/ ReadFails \/
         Stop \/ SockDrops
  BY <1>8, <1>2 DEF Render, SourceEnds, Redial, Connected, DialFails, HelloSent, SetupFails,
      Teardown, Joined, Over, GoroutineEnds, PumpDry, PingFails, TakeSnapshot, ReadInput,
          TakeInput, ReadFails, Stop, SockDrops
<1>9. CASE UNCHANGED vars
  BY <1>9, <1>2 DEF vars
<1> QED
  BY <1>2, <1>3, <1>4, <1>5, <1>6, <1>7, <1>8, <1>9
  DEF Next, Loop, Writer, Pumper, Pinger, ReadLoop, Goroutines

\* What is queued after each change of the queues.
LEMMA QueuedSame ==
  ASSUME send' = send, feed' = feed, NEW m
  PROVE  (Queued(m)') <=> Queued(m)
BY DEF Queued, IsChunk

\* What is queued when the writer has taken a frame.
LEMMA QueuedShift ==
  ASSUME Shifted(send, send'), feed' = feed, NEW m
  PROVE  /\ (Queued(m)') => Queued(m)
         /\ Queued(m) => (Queued(m)') \/ (IsChunk(1) /\ m = send[1].n)
<1>1. /\ \A i \in 1..Len(send') : i + 1 \in 1..Len(send) /\ send'[i] = send[i + 1]
      /\ \A i \in 1..Len(send) : i = 1 \/ (i - 1 \in 1..Len(send') /\ send'[i - 1] = send[i])
  BY DEF Shifted
<1>2. ASSUME NEW i \in 1..Len(send'), send'[i].t = "chunk", send'[i].n = m PROVE Queued(m)
  BY <1>1, <1>2 DEF Queued, IsChunk
<1>3. ASSUME NEW i \in 1..Len(send), IsChunk(i), send[i].n = m
      PROVE  (Queued(m)') \/ (IsChunk(1) /\ m = send[1].n)
  <2>1. CASE i = 1
    BY <2>1, <1>3
  <2>2. CASE i - 1 \in 1..Len(send') /\ send'[i - 1] = send[i]
    BY <2>2, <1>3 DEF Queued, IsChunk
  <2> QED
    BY <2>1, <2>2, <1>1
<1> QED
  BY <1>2, <1>3 DEF Queued, IsChunk

\* The pump takes a chunk from one queue to the other: the same are queued.
LEMMA QueuedMove ==
  ASSUME Shifted(feed, feed'), NEW f, Grown(send, send', f), f.t = "chunk", f.n = feed[1], NEW m
  PROVE  (Queued(m)') <=> Queued(m)
<1>1. /\ \A i \in 1..Len(feed') : i + 1 \in 1..Len(feed) /\ feed'[i] = feed[i + 1]
      /\ \A i \in 1..Len(feed) : i = 1 \/ (i - 1 \in 1..Len(feed') /\ feed'[i - 1] = feed[i])
      /\ 1 \in 1..Len(feed)
  BY DEF Shifted
<1>2. /\ \A i \in 1..Len(send) : i \in 1..Len(send') /\ send'[i] = send[i]
      /\ Len(send') \in 1..Len(send') /\ send'[Len(send')] = f
      /\ \A i \in 1..Len(send') : send'[i] = f \/ (i \in 1..Len(send) /\ send'[i] = send[i])
  BY DEF Grown
<1>3. (\E i \in 1..Len(send') : send'[i].t = "chunk" /\ send'[i].n = m)
        <=> (\E i \in 1..Len(send) : send[i].t = "chunk" /\ send[i].n = m) \/ m = feed[1]
  BY <1>2
<1>4. (\E i \in 1..Len(feed') : feed'[i] = m) \/ m = feed[1] <=> \E i \in 1..Len(feed) : feed[i] = m
  <2>1. ASSUME NEW i \in 1..Len(feed'), feed'[i] = m PROVE \E j \in 1..Len(feed) : feed[j] = m
    BY <2>1, <1>1
  <2>2. ASSUME NEW i \in 1..Len(feed), feed[i] = m
        PROVE  (\E j \in 1..Len(feed') : feed'[j] = m) \/ m = feed[1]
    <3>1. CASE i = 1
      BY <3>1, <2>2
    <3>2. CASE i - 1 \in 1..Len(feed') /\ feed'[i - 1] = feed[i]
      BY <3>2, <2>2
    <3> QED
      BY <3>1, <3>2, <1>1
  <2> QED
    BY <2>1, <2>2, <1>1
<1> QED
  BY <1>3, <1>4 DEF Queued, IsChunk

\* A repaint adds no chunk to the queues.
LEMMA QueuedPaint ==
  ASSUME feed' = feed, NEW f, Grown(send, send', f), f.t # "chunk", NEW m
  PROVE  (Queued(m)') <=> Queued(m)
<1>1. /\ \A i \in 1..Len(send) : i \in 1..Len(send') /\ send'[i] = send[i]
      /\ \A i \in 1..Len(send') : send'[i] = f \/ (i \in 1..Len(send) /\ send'[i] = send[i])
  BY DEF Grown
<1> QED
  BY <1>1 DEF Queued, IsChunk

\* The source adds one.
LEMMA QueuedFeed ==
  ASSUME send' = send, NEW n, Grown(feed, feed', n), NEW m
  PROVE  (Queued(m)') <=> (Queued(m) \/ m = n)
<1>1. /\ \A i \in 1..Len(feed) : i \in 1..Len(feed') /\ feed'[i] = feed[i]
      /\ Len(feed') \in 1..Len(feed') /\ feed'[Len(feed')] = n
      /\ \A i \in 1..Len(feed') : feed'[i] = n \/ (i \in 1..Len(feed) /\ feed'[i] = feed[i])
  BY DEF Grown
<1>2. (\E i \in 1..Len(feed') : feed'[i] = m) <=> (\E i \in 1..Len(feed) : feed[i] = m) \/ m = n
  BY <1>1
<1> QED
  BY <1>2 DEF Queued, IsChunk

\* The connection is open, streams and is not being dropped.
Watched == sock = "open" /\ source # "off" /\ ~Cancelled
Wanted(q) == Queued(q) \/ (source = "on" /\ q = delivered)
Covered(q) == \A m \in (shown + 1)..q : m \in lost \/ Queued(m)

\* Gapless, in terms of the operators above.
LEMMA GaplessIs ==
  Gapless <=> (Watched => \A q \in 1..MaxChunks : Wanted(q) => Covered(q))
BY DEF Gapless, Watched, Wanted, Covered

\* What there is to show of the next state.
LEMMA GaplessThen ==
  ASSUME (Watched') => \A q \in 1..MaxChunks : (Wanted(q)') => (Covered(q)')
  PROVE  Gapless'
BY DEF Gapless, Watched, Wanted, Covered

\* A step that leaves queues and screen alone, or stops the stream, keeps Gapless.
LEMMA GaplessKept ==
  ASSUME Gapless,
         (Watched') => /\ Watched /\ source' \in {source, "ended"}
                       /\ send' = send /\ feed' = feed /\ shown' = shown
                       /\ delivered' = delivered /\ lost' = lost
  PROVE  Gapless'
<1> SUFFICES ASSUME Watched', NEW q \in 1..MaxChunks, Wanted(q)'
             PROVE  Covered(q)'
  BY GaplessThen
<1>1. /\ Watched /\ source' \in {source, "ended"}
      /\ send' = send /\ feed' = feed /\ shown' = shown
      /\ delivered' = delivered /\ lost' = lost
  OBVIOUS
<1>2. \A m : (Queued(m)') <=> Queued(m)
  BY <1>1, QueuedSame
<1>3. Wanted(q)
  BY <1>1, <1>2 DEF Wanted
<1>4. Covered(q)
  BY <1>1, <1>3, GaplessIs
<1> QED
  BY <1>1, <1>2, <1>4 DEF Covered

\* Every step keeps Gapless: what does not fit into the feed is lost, and what
\* does not fit on the send queue cancels the connection.
LEMMA GaplessStep ==
  ASSUME TypeOK, TypeOK', Ordered, Held, Gapless, [Next]_vars
  PROVE  Gapless'
<1>0. /\ feed \in Seq(Numbers) /\ send \in Seq(Frames)
      /\ Len(feed) \in Nat /\ Len(send) \in Nat
      /\ Len(feed) <= FeedQueue /\ Len(send) <= SendQueue
      /\ FeedQueue \in Nat /\ SendQueue \in Nat /\ FeedQueue # 0 /\ SendQueue # 0
      /\ \A i \in 1..Len(feed) : feed[i] \in Nat
      /\ \A i \in 1..Len(send) : send[i] \in Frames /\ send[i].n \in Nat
      /\ shown \in Nat /\ since \in Nat /\ delivered \in Nat /\ rendered \in Nat
      /\ since <= shown /\ shown <= delivered /\ delivered <= rendered
      /\ rendered <= MaxChunks /\ MaxChunks \in Nat /\ MaxAsks \in Nat
      /\ snapAt \in 0..MaxChunks
  BY QueueTypes, WrapperAssumption DEF TypeOK
<1>1. /\ \A i \in 1..Len(send) : IsChunk(i) => shown < send[i].n /\ send[i].n <= delivered
      /\ \A i, j \in 1..Len(send) : i < j /\ IsChunk(i) /\ IsChunk(j) => send[i].n < send[j].n
      /\ \A i \in 1..Len(feed) : shown < feed[i] /\ feed[i] <= delivered
      /\ \A i, j \in 1..Len(feed) : i < j => feed[i] < feed[j]
      /\ \A i \in 1..Len(send), j \in 1..Len(feed) : IsChunk(i) => send[i].n < feed[j]
  BY DEF Ordered
<1> USE DEF termVars, sourceVars, loopVars, readVars, shownVars, Go, Ends
<1>2. CASE Render
  BY <1>2, GaplessKept DEF Render, Watched, Cancelled, Held
<1>3. CASE Deliver
  <2> SUFFICES ASSUME Watched', NEW q \in 1..MaxChunks, Wanted(q)'
               PROVE  Covered(q)'
    BY GaplessThen
  <2>1. /\ delivered' = delivered + 1 /\ send' = send /\ shown' = shown
        /\ source' = source /\ sock' = sock /\ cancelled' = cancelled /\ stopping' = stopping
    BY <1>3 DEF Deliver
  <2>2. \A p \in 1..MaxChunks : Wanted(p) => Covered(p)
    BY <2>1, GaplessIs DEF Watched, Cancelled
  <2>3. CASE source # "on" /\ feed' = feed /\ lost' = lost
    <3>1. \A m : (Queued(m)') <=> Queued(m)
      BY <2>1, <2>3, QueuedSame
    <3>2. Covered(q)
      BY <2>1, <2>2, <2>3, <3>1 DEF Wanted
    <3> QED
      BY <2>1, <2>3, <3>1, <3>2 DEF Covered
  <2>4. CASE source = "on" /\ feed' = Append(feed, delivered + 1) /\ lost' = lost
    <3>1. Grown(feed, feed', delivered + 1)
      <4>1. delivered + 1 \in Numbers
        BY <1>3, <1>0 DEF Deliver, Numbers
      <4> QED
        BY <4>1, <2>4, <1>0, AppendGrows
    <3>2. \A m : (Queued(m)') <=> (Queued(m) \/ m = delivered + 1)
      BY <3>1, <2>1, QueuedFeed
    <3>3. q <= delivered \/ q = delivered + 1
      BY <2>1, <3>2, <1>0, <1>1 DEF Wanted, Queued
    <3>4. \A m \in (shown + 1)..delivered : m \in lost \/ Queued(m)
      <4>1. CASE delivered \in 1..MaxChunks
        BY <4>1, <2>2, <2>4 DEF Wanted, Covered
      <4>2. CASE delivered = 0
        BY <4>2, <1>0
      <4> QED
        BY <4>1, <4>2, <1>0
    <3>5. \A m \in (shown + 1)..q : m \in (shown + 1)..delivered \/ m = delivered + 1
      BY <3>3, <1>0
    <3> QED
      BY <2>1, <2>4, <3>2, <3>4, <3>5 DEF Covered
  <2>5. CASE source = "on" /\ feed' = feed /\ lost' = lost \cup {delivered + 1}
    <3>2. \A m : (Queued(m)') <=> Queued(m)
      BY <2>1, <2>5, QueuedSame
    <3>3. q <= delivered \/ q = delivered + 1
      BY <2>1, <3>2, <1>0, <1>1 DEF Wanted, Queued
    <3>4. \A m \in (shown + 1)..delivered : m \in lost \/ Queued(m)
      <4>1. CASE delivered \in 1..MaxChunks
        BY <4>1, <2>2, <2>5 DEF Wanted, Covered
      <4>2. CASE delivered = 0
        BY <4>2, <1>0
      <4> QED
        BY <4>1, <4>2, <1>0
    <3>5. \A m \in (shown + 1)..q : m \in (shown + 1)..delivered \/ m = delivered + 1
      BY <3>3, <1>0
    <3> QED
      BY <2>1, <2>5, <3>2, <3>4, <3>5 DEF Covered
  <2> QED
    BY <1>3, <2>1, <2>3, <2>4, <2>5 DEF Deliver
<1>4. CASE SourceEnds
  BY <1>4, GaplessKept DEF SourceEnds, Watched, Cancelled, Held
<1>5. CASE Redial
  BY <1>5, GaplessKept DEF Redial, Watched, Cancelled, Held
<1>6. CASE Connected
  BY <1>6, GaplessKept DEF Connected, Watched, Cancelled, Held
<1>7. CASE DialFails
  BY <1>7, GaplessKept DEF DialFails, Watched, Cancelled, Held
<1>8. CASE HelloSent
  BY <1>8, GaplessKept DEF HelloSent, Watched, Cancelled, Held
<1>9. CASE SetupFails
  BY <1>9, GaplessKept DEF SetupFails, Watched, Cancelled, Held
<1>10. CASE Start
  <2> SUFFICES ASSUME Watched', NEW q \in 1..MaxChunks, Wanted(q)'
               PROVE  Covered(q)'
    BY GaplessThen
  <2>1. send' = <<>> /\ feed' = <<>> /\ shown' = delivered' /\ delivered' \in Nat
    BY <1>10, <1>0 DEF Start
  <2>2. ~ (Queued(q)')
    BY <2>1 DEF Queued
  <2>3. q = shown'
    BY <2>1, <2>2 DEF Wanted
  <2>4. q \in Nat
    BY <2>1, <2>3
  <2>5. \A m \in (q + 1)..q : FALSE
    BY <2>4
  <2> QED
    BY <2>3, <2>5 DEF Covered
<1>11. CASE Teardown
  BY <1>11, GaplessKept DEF Teardown, Watched, Cancelled, Held
<1>12. CASE Joined
  BY <1>12, GaplessKept DEF Joined, Watched, Cancelled, Held
<1>13. CASE Over
  BY <1>13, GaplessKept DEF Over, Watched, Cancelled, Held
<1>14. CASE WriteFrame
  <2> SUFFICES ASSUME Watched', NEW q \in 1..MaxChunks, Wanted(q)'
               PROVE  Covered(q)'
    BY GaplessThen
  <2>0. /\ Shifted(send, send') /\ Head(send) = send[1] /\ 1 \in 1..Len(send)
    BY <1>14, <1>0, TailShifts DEF WriteFrame
  <2>1. /\ feed' = feed /\ delivered' = delivered /\ lost' = lost /\ source' = source
        /\ sock' = sock /\ cancelled' = cancelled /\ stopping' = stopping
    BY <1>14 DEF WriteFrame
  <2>2. Watched
    BY <2>1 DEF Watched, Cancelled
  <2>3. /\ \A m : (Queued(m)') => Queued(m)
        /\ \A m : Queued(m) => (Queued(m)') \/ (IsChunk(1) /\ m = send[1].n)
    BY <2>0, <2>1, QueuedShift
  <2>4. Covered(q)
    BY <2>1, <2>2, <2>3, GaplessIs DEF Wanted
  <2>5. Apply(send[1])
    BY <1>14, <2>0, <2>2 DEF WriteFrame, Watched
  <2>6. CASE IsChunk(1)
    <3>1. send[1].n \in Nat /\ shown < send[1].n /\ shown \in Nat
      BY <2>0, <2>6, <1>0, <1>1
    <3>3. shown' = send[1].n
      BY <2>5, <2>6 DEF Apply, IsChunk
    <3>2. ASSUME NEW m \in (shown' + 1)..q
          PROVE  m \in (shown + 1)..q /\ m # send[1].n
      <4>1. q \in Nat
        BY <1>0
      <4>2. m \in (send[1].n + 1)..q
        BY <3>2, <3>3
      <4> QED
        BY <3>1, <4>1, <4>2
    <3> QED
      BY <3>2, <2>1, <2>3, <2>4 DEF Covered
  <2>7. CASE ~IsChunk(1)
    <3>1. shown' = shown
      BY <2>5, <2>7 DEF Apply, IsChunk
    <3> QED
      BY <3>1, <2>1, <2>3, <2>4, <2>7 DEF Covered
  <2> QED
    BY <2>6, <2>7
<1>15. CASE WriteFails
  BY <1>15, GaplessKept DEF WriteFails, Watched, Cancelled, Held
<1>16. ASSUME NEW g \in Goroutines, GoroutineEnds(g) PROVE Gapless'
  BY <1>16, GaplessKept DEF GoroutineEnds, Watched, Cancelled, Held
<1>17. CASE Pump
  <2> SUFFICES ASSUME Watched', NEW q \in 1..MaxChunks, Wanted(q)'
               PROVE  Covered(q)'
    BY GaplessThen
  <2>1. /\ delivered' = delivered /\ lost' = lost /\ source' = source /\ shown' = shown
        /\ sock' = sock /\ stopping' = stopping /\ Enqueue(Chunk(Head(feed)))
    BY <1>17 DEF Pump
  <2>2. cancelled' = cancelled /\ send' = Append(send, Chunk(Head(feed)))
    BY <2>1 DEF Enqueue, Watched, Cancelled
  <2>3. Watched
    BY <2>1, <2>2 DEF Watched, Cancelled
  <2>4. /\ Shifted(feed, feed') /\ Head(feed) = feed[1] /\ Head(feed) \in Numbers
    BY <1>17, <1>0, TailShifts DEF Pump
  <2>5. \A m : (Queued(m)') <=> Queued(m)
    <3>1. /\ Chunk(Head(feed)) \in Frames /\ Chunk(Head(feed)).t = "chunk"
          /\ Chunk(Head(feed)).n = feed[1]
      BY <2>4, <1>0, FrameTypes
    <3>2. Grown(send, send', Chunk(Head(feed)))
      BY <3>1, <2>2, <1>0, AppendGrows
    <3> QED
      BY <3>1, <3>2, <2>4, QueuedMove
  <2>6. Covered(q)
    BY <2>1, <2>3, <2>5, GaplessIs DEF Wanted
  <2> QED
    BY <2>1, <2>5, <2>6 DEF Covered
<1>18. CASE PumpDry
  BY <1>18, GaplessKept DEF PumpDry, Watched, Cancelled, Held
<1>19. CASE PingFails
  BY <1>19, GaplessKept DEF PingFails, Watched, Cancelled, Held
<1>20. CASE TakeSnapshot
  BY <1>20, GaplessKept DEF TakeSnapshot, Watched, Cancelled, Held
<1>21. CASE ReadInput
  BY <1>21, GaplessKept DEF ReadInput, Watched, Cancelled, Held
<1>22. CASE Paint
  <2> SUFFICES ASSUME Watched', NEW q \in 1..MaxChunks, Wanted(q)'
               PROVE  Covered(q)'
    BY GaplessThen
  <2>1. /\ delivered' = delivered /\ lost' = lost /\ source' = source /\ shown' = shown
        /\ sock' = sock /\ stopping' = stopping /\ Enqueue(Snapshot(snapAt))
    BY <1>22 DEF Paint
  <2>2. cancelled' = cancelled /\ send' = Append(send, Snapshot(snapAt))
    BY <2>1 DEF Enqueue, Watched, Cancelled
  <2>3. Watched
    BY <2>1, <2>2 DEF Watched, Cancelled
  <2>5. \A m : (Queued(m)') <=> Queued(m)
    <3>1. Snapshot(snapAt) \in Frames /\ Snapshot(snapAt).t = "snapshot"
      BY <1>0, FrameTypes
    <3>2. Grown(send, send', Snapshot(snapAt))
      BY <3>1, <2>2, <1>0, AppendGrows
    <3>3. Snapshot(snapAt).t # "chunk"
      BY <3>1
    <3>4. feed' = feed
      BY <1>22 DEF Paint
    <3> QED
      BY <3>2, <3>3, <3>4, QueuedPaint
  <2>6. Covered(q)
    BY <2>1, <2>3, <2>5, GaplessIs DEF Wanted
  <2> QED
    BY <2>1, <2>5, <2>6 DEF Covered
<1>23. CASE TakeInput
  BY <1>23, GaplessKept DEF TakeInput, Watched, Cancelled, Held
<1>24. CASE ReadFails
  BY <1>24, GaplessKept DEF ReadFails, Watched, Cancelled, Held
<1>25. CASE Stop
  BY <1>25, GaplessKept DEF Stop, Watched, Cancelled, Held
<1>26. CASE SockDrops
  BY <1>26, GaplessKept DEF SockDrops, Watched, Cancelled, Held
<1>27. CASE UNCHANGED vars
  BY <1>27, GaplessKept DEF vars, Watched, Cancelled
<1> QED
  BY <1>2, <1>3, <1>4, <1>5, <1>6, <1>7, <1>8, <1>9, <1>10, <1>11, <1>12, <1>13, <1>14, <1>15,
      <1>16, <1>17, <1>18, <1>19, <1>20, <1>21, <1>22, <1>23, <1>24, <1>25, <1>26, <1>27
  DEF Next, Loop, Writer, Pumper, Pinger, ReadLoop, Goroutines

\* The part of Painted about the send queue.
PaintsQueued == \A i \in 1..Len(send) : ~IsChunk(i) => Repaints(send[i].n)

\* A step that queues no repaint older than the stream keeps Painted.
LEMMA PaintedKept ==
  ASSUME TypeOK, TypeOK', Painted, rendered' >= rendered, since' = since,
         reader' = "painting" => reader = "painting" /\ snapAt' = snapAt,
         \A i \in 1..Len(send') :
           \/ \E j \in 1..Len(send) : send'[i] = send[j]
           \/ send'[i].t = "chunk"
           \/ Repaints(send'[i].n)
  PROVE  Painted'
<1>0. rendered \in Nat /\ rendered' \in Nat
  BY WrapperAssumption DEF TypeOK
<1>1. \A n : Repaints(n) => (Repaints(n)')
  BY <1>0 DEF Repaints
<1>2. \A j \in 1..Len(send) : send[j].t # "chunk" => Repaints(send[j].n)
  BY DEF Painted, IsChunk
<1>3. ASSUME NEW i \in 1..Len(send'), send'[i].t # "chunk" PROVE Repaints(send'[i].n)
  BY <1>2, <1>3
<1>4. \A i \in 1..Len(send') : send'[i].t # "chunk" => rendered' >= send'[i].n
                                 /\ send'[i].n \in 0..rendered'
                                 /\ (send'[i].n >= since' \/ (OverTmux /\ send'[i].n = 0))
  BY <1>0, <1>3 DEF Repaints
<1>5. reader' = "painting" => Repaints(snapAt)'
  <2>1. SUFFICES ASSUME reader' = "painting" PROVE Repaints(snapAt)'
    OBVIOUS
  <2>2. snapAt' = snapAt /\ Repaints(snapAt)
    BY <2>1 DEF Painted
  <2> QED
    BY <2>2, <1>0 DEF Repaints
<1> QED
  BY <1>4, <1>5 DEF Painted, IsChunk, Repaints

\* Every step keeps Painted.
LEMMA PaintedStep ==
  ASSUME TypeOK, TypeOK', Painted, [Next]_vars
  PROVE  Painted'
<1>0. /\ feed \in Seq(Numbers) /\ send \in Seq(Frames)
      /\ Len(feed) \in Nat /\ Len(send) \in Nat
      /\ Len(feed) <= FeedQueue /\ Len(send) <= SendQueue
      /\ FeedQueue \in Nat /\ SendQueue \in Nat /\ FeedQueue # 0 /\ SendQueue # 0
      /\ \A i \in 1..Len(feed) : feed[i] \in Nat
      /\ \A i \in 1..Len(send) : send[i] \in Frames /\ send[i].n \in Nat
      /\ shown \in Nat /\ since \in Nat /\ delivered \in Nat /\ rendered \in Nat
      /\ since <= shown /\ shown <= delivered /\ delivered <= rendered
      /\ rendered <= MaxChunks /\ MaxChunks \in Nat /\ MaxAsks \in Nat
      /\ snapAt \in 0..MaxChunks
  BY QueueTypes, WrapperAssumption DEF TypeOK
<1> USE DEF termVars, sourceVars, loopVars, readVars, shownVars
<1>2. CASE UNCHANGED <<send, reader, snapAt, rendered, since>>
  BY <1>2, <1>0, PaintedKept
<1>3. CASE Render
  BY <1>3, <1>0, PaintedKept DEF Render
<1>4. CASE Start
  <2>1. send' = <<>> /\ reader' = "reading"
    BY <1>4 DEF Start
  <2> QED
    BY <2>1 DEF Painted
<1>5. CASE WriteFrame
  <2>1. Shifted(send, send')
    BY <1>5, <1>0, TailShifts DEF WriteFrame
  <2>2. \A i \in 1..Len(send') : \E j \in 1..Len(send) : send'[i] = send[j]
    BY <2>1 DEF Shifted
  <2> QED
    BY <1>5, <2>2, <1>0, PaintedKept DEF WriteFrame
<1>6. CASE WriteFails
  <2>1. Shifted(send, send')
    BY <1>6, <1>0, TailShifts DEF WriteFails
  <2>2. \A i \in 1..Len(send') : \E j \in 1..Len(send) : send'[i] = send[j]
    BY <2>1 DEF Shifted
  <2> QED
    BY <1>6, <2>2, <1>0, PaintedKept DEF WriteFails
<1>7. CASE Pump
  <2>1. Enqueue(Chunk(Head(feed))) /\ Head(feed) \in Numbers
    BY <1>7, <1>0, TailShifts DEF Pump
  <2>2. Chunk(Head(feed)) \in Frames /\ Chunk(Head(feed)).t = "chunk"
    BY <2>1, <1>0, FrameTypes
  <2>3. \A i \in 1..Len(send') :
          (\E j \in 1..Len(send) : send'[i] = send[j]) \/ send'[i].t = "chunk"
    <3>1. CASE send' = send
      BY <3>1
    <3>2. CASE send' = Append(send, Chunk(Head(feed)))
      <4>1. Grown(send, send', Chunk(Head(feed)))
        BY <3>2, <2>2, <1>0, AppendGrows
      <4> QED
        BY <4>1, <2>2 DEF Grown
    <3> QED
      BY <2>1, <3>1, <3>2 DEF Enqueue
  <2>4. reader' = reader /\ snapAt' = snapAt /\ rendered' = rendered /\ since' = since
    BY <1>7 DEF Pump
  <2> QED
    BY <2>3, <2>4, <1>0, PaintedKept
<1>8. CASE TakeSnapshot
  <2>1. send' = send /\ rendered' = rendered /\ since' = since
    BY <1>8 DEF TakeSnapshot
  <2>2. PaintsQueued'
    BY <2>1 DEF Painted, PaintsQueued, IsChunk, Repaints
  <2>3. snapAt' = rendered \/ (OverTmux /\ snapAt' = 0)
    BY <1>8 DEF TakeSnapshot
  <2>4. Repaints(snapAt)'
    BY <2>1, <2>3, <1>0 DEF Repaints
  <2> QED
    BY <2>2, <2>4 DEF Painted, PaintsQueued
<1>9. CASE ReadInput
  BY <1>9, <1>0, PaintedKept DEF ReadInput
<1>10. CASE Paint
  <2>1. Enqueue(Snapshot(snapAt)) /\ Repaints(snapAt)
    BY <1>10 DEF Paint, Painted
  <2>2. Snapshot(snapAt) \in Frames /\ Snapshot(snapAt).n = snapAt
    BY <1>0, FrameTypes
  <2>3. \A i \in 1..Len(send') :
          (\E j \in 1..Len(send) : send'[i] = send[j]) \/ Repaints(send'[i].n)
    <3>1. CASE send' = send
      BY <3>1
    <3>2. CASE send' = Append(send, Snapshot(snapAt))
      <4>1. Grown(send, send', Snapshot(snapAt))
        BY <3>2, <2>2, <1>0, AppendGrows
      <4> QED
        BY <4>1, <2>1, <2>2 DEF Grown
    <3> QED
      BY <2>1, <3>1, <3>2 DEF Enqueue
  <2>4. reader' # "painting" /\ rendered' = rendered /\ since' = since
    BY <1>10 DEF Paint
  <2> QED
    BY <2>3, <2>4, <1>0, PaintedKept
<1>11. CASE TakeInput
  BY <1>11, <1>0, PaintedKept DEF TakeInput
<1>12. CASE Deliver \/ SourceEnds \/ Redial \/ Connected \/ DialFails \/ HelloSent \/
         SetupFails \/ Teardown \/ Joined \/ Over \/ (\E g \in Goroutines : GoroutineEnds(g))
         \/ PumpDry \/ PingFails \/ ReadFails \/ Stop \/ SockDrops
  BY <1>12, <1>2 DEF Deliver, SourceEnds, Redial, Connected, DialFails, HelloSent,
      SetupFails, Teardown, Joined, Over, GoroutineEnds, PumpDry, PingFails, ReadFails, Stop,
          SockDrops
<1>13. CASE UNCHANGED vars
  BY <1>13, <1>2 DEF vars
<1> QED
  BY <1>2, <1>3, <1>4, <1>5, <1>6, <1>7, <1>8, <1>9, <1>10, <1>11, <1>12, <1>13
  DEF Next, Loop, Writer, Pumper, Pinger, ReadLoop, Goroutines

\* Nothing was put out, nothing is connected.
LEMMA InitHolds ==
  Init => IInv
<1> SUFFICES ASSUME Init PROVE IInv
  OBVIOUS
<1>1. feed = <<>> /\ send = <<>> /\ Len(feed) = 0 /\ Len(send) = 0
  BY DEF Init
<1>2. TypeOK
  <2>1. feed \in Seq(1..MaxChunks) /\ send \in Seq(Frames)
    BY <1>1
  <2>2. 0 \in 0..MaxChunks /\ 0 \in 0..0 /\ 0 \in 0..MaxConns /\ 0 \in 0..MaxAsks
    BY WrapperAssumption
  <2>3. Len(feed) <= FeedQueue /\ Len(send) <= SendQueue
    BY <1>1, WrapperAssumption
  <2> QED
    BY <2>1, <2>2, <2>3 DEF Init, TypeOK, Phase
<1>3. Held
  BY DEF Init, Held
<1>4. Ordered
  BY <1>1 DEF Ordered
<1>5. Gapless
  BY DEF Init, Gapless
<1>6. Painted
  BY <1>1 DEF Init, Painted
<1>7. Spaced
  BY <1>1 DEF Init, Spaced
<1> QED
  BY <1>2, <1>3, <1>4, <1>5, <1>6, <1>7 DEF IInv

-----------------------------------------------------------------------------
(* Theorems *)

\* Every reachable state satisfies the inductive invariant.
THEOREM SpecIInv ==
  Spec => []IInv
<1>1. Init => IInv
  BY InitHolds
<1>2. IInv /\ [Next]_vars => IInv'
  BY TypeStep, HeldStep, OrderedStep, SpacedStep, GaplessStep, PaintedStep DEF IInv
<1> QED
  BY <1>1, <1>2, PTL DEF Spec

\* Every variable stays in its range, and neither the channel the source feeds
\* nor the send queue ever holds more than its capacity (fanout.Write,
\* Client.emit, enqueue).
THEOREM SpecTypeOK ==
  Spec => []TypeOK
<1>1. IInv => TypeOK
  BY DEF IInv
<1> QED
  BY <1>1, SpecIInv, PTL

\* A connection leaves nothing behind: between connections, once the terminal is
\* disabled and after stop, no goroutine of serve runs, its source is released
\* and its socket closed (termhost.go, serve's deferred function and wg.Wait).
THEOREM SpecNoLeftovers ==
  Spec => []NoLeftovers
<1>1. IInv => NoLeftovers
  BY DEF IInv, Held, NoLeftovers
<1> QED
  BY <1>1, SpecIInv, PTL

-----------------------------------------------------------------------------
(* The refinement of TerminalStream *)

Up == source # "off"
Dropping == source # "off" /\ Cancelled

\* What the promise sees is as it was.
LEMMA PromiseStutters ==
  ASSUME UNCHANGED <<rendered, since, shown, screen, lost>>, (Up') <=> Up, (Dropping') <=> Dropping
  PROVE  UNCHANGED Promise!vars
BY Zenon DEF Promise!vars, Up, Dropping

\* The connection is dropped, or was being dropped, or does not stream.
LEMMA PromiseDrops ==
  ASSUME UNCHANGED <<rendered, since, shown, screen, lost>>, (Up') <=> Up, Dropping => (Dropping')
  PROVE  [Promise!Next]_Promise!vars
<1>1. CASE (Dropping') <=> Dropping
  BY <1>1, PromiseStutters
<1>2. CASE Dropping' /\ ~Dropping
  <2>1. Promise!Drop
    BY <1>2 DEF Promise!Drop, Up, Dropping
  <2> QED
    BY <2>1 DEF Promise!Next
<1> QED
  BY <1>1, <1>2

\* Every step of the wrapper is a step of the promise or leaves it alone.
LEMMA PromiseStep ==
  ASSUME IInv, IInv', [Next]_vars
  PROVE  [Promise!Next]_Promise!vars
<1>0. /\ feed \in Seq(Numbers) /\ send \in Seq(Frames)
      /\ Len(feed) \in Nat /\ Len(send) \in Nat
      /\ Len(feed) <= FeedQueue /\ Len(send) <= SendQueue
      /\ FeedQueue \in Nat /\ SendQueue \in Nat /\ FeedQueue # 0 /\ SendQueue # 0
      /\ \A i \in 1..Len(feed) : feed[i] \in Nat
      /\ \A i \in 1..Len(send) : send[i] \in Frames /\ send[i].n \in Nat
      /\ shown \in Nat /\ since \in Nat /\ delivered \in Nat /\ rendered \in Nat
      /\ since <= shown /\ shown <= delivered /\ delivered <= rendered
      /\ rendered <= MaxChunks /\ MaxChunks \in Nat /\ MaxAsks \in Nat
      /\ snapAt \in 0..MaxChunks
  BY QueueTypes, WrapperAssumption DEF IInv, TypeOK
<1>1. TypeOK /\ TypeOK' /\ Held /\ Ordered /\ Spaced /\ Gapless /\ Painted
  BY DEF IInv
<1>2. CASE Render
  <2>1. Promise!Render
    BY <1>2 DEF Render, Promise!Render, Cancelled, sourceVars, shownVars
  <2> QED
    BY <2>1 DEF Promise!Next
<1>3. CASE Deliver
  <2>0. /\ delivered' = delivered + 1 /\ delivered + 1 \in 1..rendered /\ shown < delivered + 1
        /\ UNCHANGED <<rendered, since, shown, screen, source, cancelled, stopping>>
    BY <1>3, <1>0 DEF Deliver, shownVars
  <2>1. CASE lost' = lost
    BY <2>0, <2>1, PromiseDrops DEF Up, Dropping, Cancelled
  <2>2. CASE /\ source = "on" /\ (OverTmux \/ Len(feed) >= FeedQueue)
             /\ lost' = lost \cup {delivered + 1}
    <3>0. OverTmux \/ delivered + 1 > shown + FeedQueue
      BY <1>0, <1>1, <2>2 DEF Spaced
    <3>1. Promise!Lose(delivered + 1)
      BY <2>0, <2>2, <3>0 DEF Promise!Lose, Cancelled
    <3> QED
      BY <2>0, <3>1 DEF Promise!Next
  <2> QED
    BY <1>3, <2>0, <2>1, <2>2 DEF Deliver
<1>4. CASE SourceEnds
  BY <1>4, <1>1, PromiseDrops DEF SourceEnds, Up, Dropping, Cancelled, Held, Go, Ends,
      termVars, sourceVars, loopVars, readVars, shownVars
<1>5. CASE Redial
  BY <1>5, <1>1, PromiseDrops DEF Redial, Up, Dropping, Cancelled, Held, Go, Ends, termVars,
      sourceVars, loopVars, readVars, shownVars
<1>6. CASE Connected
  BY <1>6, <1>1, PromiseDrops DEF Connected, Up, Dropping, Cancelled, Held, Go, Ends,
      termVars, sourceVars, loopVars, readVars, shownVars
<1>7. CASE DialFails
  BY <1>7, <1>1, PromiseDrops DEF DialFails, Up, Dropping, Cancelled, Held, Go, Ends,
      termVars, sourceVars, loopVars, readVars, shownVars
<1>8. CASE HelloSent
  BY <1>8, <1>1, PromiseDrops DEF HelloSent, Up, Dropping, Cancelled, Held, Go, Ends,
      termVars, sourceVars, loopVars, readVars, shownVars
<1>9. CASE SetupFails
  BY <1>9, <1>1, PromiseDrops DEF SetupFails, Up, Dropping, Cancelled, Held, Go, Ends,
      termVars, sourceVars, loopVars, readVars, shownVars
<1>10. CASE Start
  <2>1. /\ source = "off" /\ source' = "on" /\ rendered' = rendered /\ lost' = lost
        /\ since' = delivered' /\ shown' = delivered' /\ screen' = {}
        /\ delivered' \in 0..rendered
        /\ cancelled' \in BOOLEAN /\ stopping' \in BOOLEAN
    BY <1>10, <1>0, <1>1 DEF Start, Held, TypeOK
  <2>2. Promise!Begin
    BY <2>1 DEF Promise!Begin, Cancelled
  <2> QED
    BY <2>2 DEF Promise!Next
<1>11. CASE Teardown
  <2>1. /\ source' = "off"
        /\ UNCHANGED <<rendered, since, shown, screen, lost>>
    BY <1>11 DEF Teardown, termVars, shownVars
  <2>2. CASE Up
    <3>1. Promise!End
      BY <2>1, <2>2 DEF Promise!End, Up
    <3> QED
      BY <3>1 DEF Promise!Next
  <2>3. CASE ~Up
    BY <2>1, <2>3, PromiseDrops DEF Up, Dropping
  <2> QED
    BY <2>2, <2>3
<1>12. CASE Joined
  BY <1>12, <1>1, PromiseDrops DEF Joined, Up, Dropping, Cancelled, Held, Go, Ends,
      termVars, sourceVars, loopVars, readVars, shownVars
<1>13. CASE Over
  BY <1>13, <1>1, PromiseDrops DEF Over, Up, Dropping, Cancelled, Held, Go, Ends, termVars,
      sourceVars, loopVars, readVars, shownVars
<1>14. CASE WriteFrame
  <2>0. /\ Head(send) = send[1] /\ 1 \in 1..Len(send) /\ send[1].n \in Nat
        /\ send[1] \in Frames
    BY <1>14, <1>0, TailShifts DEF WriteFrame
  <2>1. /\ UNCHANGED <<rendered, since, lost, source, cancelled, stopping>>
        /\ "writer" \in running /\ sock # "closed"
    BY <1>14 DEF WriteFrame, termVars, sourceVars
  <2>2. Up
    BY <2>1, <1>1 DEF Held, Up
  <2>3. CASE shown' = shown /\ screen' = screen
    BY <2>1, <2>3, PromiseDrops DEF Up, Dropping, Cancelled
  <2>4. CASE sock = "open" /\ IsChunk(1) /\ shown' = send[1].n /\ screen' = screen \cup {send[1].n}
    <3>1. shown < send[1].n /\ send[1].n <= delivered /\ send[1].n \in 1..rendered
          /\ send[1].n \in 1..MaxChunks
      BY <2>0, <2>4, <1>0, <1>1 DEF Ordered
    <3>2. Dropping \/ (shown + 1)..(send[1].n - 1) \subseteq lost
      <4>1. SUFFICES ASSUME ~Dropping, NEW m \in (shown + 1)..(send[1].n - 1) PROVE m \in lost
        OBVIOUS
      <4>2. Watched
        BY <4>1, <2>2, <2>4 DEF Dropping, Up, Watched
      <4>3. Queued(send[1].n)
        BY <2>0, <2>4 DEF Queued
      <4>4. m \in (shown + 1)..send[1].n /\ m < send[1].n /\ m \in Nat
        <5>1. shown \in Nat /\ send[1].n \in Nat
          BY <2>0, <1>0
        <5> QED
          BY <4>1, <5>1
      <4>5. m \in lost \/ Queued(m)
        BY <4>2, <4>3, <4>4, <3>1, <1>1, GaplessIs DEF Wanted, Covered
      <4>6. ~Queued(m)
        <5>1. ASSUME NEW i \in 1..Len(send), IsChunk(i) PROVE send[1].n <= send[i].n
          <6>1. i = 1 \/ 1 < i
            BY <5>1, <2>0
          <6>2. CASE i = 1
            BY <6>2, <2>0
          <6>3. CASE 1 < i
            <7>1. send[1].n < send[i].n
              BY <5>1, <6>3, <2>0, <2>4, <1>1 DEF Ordered
            <7>2. send[i].n \in Nat
              BY <5>1, <1>0
            <7> QED
              BY <7>1, <7>2, <2>0
          <6> QED
            BY <6>1, <6>2, <6>3
        <5>2. \A i \in 1..Len(feed) : send[1].n < feed[i]
          BY <2>0, <2>4, <1>1 DEF Ordered
        <5>3. ASSUME NEW i \in 1..Len(send), IsChunk(i), send[i].n = m PROVE FALSE
          <6>1. send[1].n <= m
            BY <5>1, <5>3
          <6> QED
            BY <6>1, <4>4, <2>0
        <5>4. ASSUME NEW i \in 1..Len(feed), feed[i] = m PROVE FALSE
          <6>1. send[1].n < m
            BY <5>2, <5>4
          <6> QED
            BY <6>1, <4>4, <2>0
        <5> QED
          BY <5>3, <5>4 DEF Queued
      <4> QED
        BY <4>5, <4>6
    <3>3. Promise!Show(send[1].n)
      BY <2>1, <2>2, <2>4, <3>1, <3>2 DEF Promise!Show, Up, Dropping, Cancelled
    <3> QED
      BY <3>1, <3>3 DEF Promise!Next
  <2>5. CASE ~IsChunk(1) /\ shown' = shown /\ screen' = 1..send[1].n
    <3>1. Repaints(send[1].n)
      BY <2>0, <2>5, <1>1 DEF Painted
    <3>2. Promise!Paint(send[1].n)
      BY <2>1, <2>2, <2>5, <3>1 DEF Promise!Paint, Repaints, Up, Cancelled
    <3> QED
      BY <3>1, <3>2 DEF Promise!Next, Repaints
  <2> QED
    BY <1>14, <2>0, <2>3, <2>4, <2>5 DEF WriteFrame, Apply, IsChunk
<1>15. CASE WriteFails
  BY <1>15, <1>1, PromiseDrops DEF WriteFails, Up, Dropping, Cancelled, Held, Go, Ends,
      termVars, sourceVars, loopVars, readVars, shownVars
<1>16. ASSUME NEW g \in Goroutines, GoroutineEnds(g) PROVE [Promise!Next]_Promise!vars
  BY <1>16, <1>1, PromiseDrops DEF GoroutineEnds, Up, Dropping, Cancelled, Held, Go, Ends,
      termVars, sourceVars, loopVars, readVars, shownVars
<1>17. CASE Pump
  <2>1. UNCHANGED <<rendered, since, shown, screen, lost, source, stopping>>
    BY <1>17 DEF Pump, termVars, sourceVars, shownVars
  <2>2. cancelled' = cancelled \/ cancelled' = TRUE
    BY <1>17 DEF Pump, Enqueue
  <2> QED
    BY <2>1, <2>2, PromiseDrops DEF Up, Dropping, Cancelled
<1>18. CASE PumpDry
  BY <1>18, <1>1, PromiseDrops DEF PumpDry, Up, Dropping, Cancelled, Held, Go, Ends,
      termVars, sourceVars, loopVars, readVars, shownVars
<1>19. CASE PingFails
  BY <1>19, <1>1, PromiseDrops DEF PingFails, Up, Dropping, Cancelled, Held, Go, Ends,
      termVars, sourceVars, loopVars, readVars, shownVars
<1>20. CASE TakeSnapshot
  BY <1>20, <1>1, PromiseDrops DEF TakeSnapshot, Up, Dropping, Cancelled, Held, Go, Ends,
      termVars, sourceVars, loopVars, readVars, shownVars
<1>21. CASE ReadInput
  BY <1>21, <1>1, PromiseDrops DEF ReadInput, Up, Dropping, Cancelled, Held, Go, Ends,
      termVars, sourceVars, loopVars, readVars, shownVars
<1>22. CASE Paint
  <2>1. UNCHANGED <<rendered, since, shown, screen, lost, source, stopping>>
    BY <1>22 DEF Paint, termVars, sourceVars, shownVars
  <2>2. cancelled' = cancelled \/ cancelled' = TRUE
    BY <1>22 DEF Paint, Enqueue
  <2> QED
    BY <2>1, <2>2, PromiseDrops DEF Up, Dropping, Cancelled
<1>23. CASE TakeInput
  BY <1>23, <1>1, PromiseDrops DEF TakeInput, Up, Dropping, Cancelled, Held, Go, Ends,
      termVars, sourceVars, loopVars, readVars, shownVars
<1>24. CASE ReadFails
  BY <1>24, <1>1, PromiseDrops DEF ReadFails, Up, Dropping, Cancelled, Held, Go, Ends,
      termVars, sourceVars, loopVars, readVars, shownVars
<1>25. CASE Stop
  BY <1>25, <1>1, PromiseDrops DEF Stop, Up, Dropping, Cancelled, Held, Go, Ends, termVars,
      sourceVars, loopVars, readVars, shownVars
<1>26. CASE SockDrops
  BY <1>26, <1>1, PromiseDrops DEF SockDrops, Up, Dropping, Cancelled, Held, Go, Ends,
      termVars, sourceVars, loopVars, readVars, shownVars
<1>27. CASE UNCHANGED vars
    BY <1>27, PromiseDrops DEF vars, Up, Dropping, Cancelled, termVars, sourceVars, loopVars,
        readVars, shownVars
<1> QED
  BY <1>2, <1>3, <1>4, <1>5, <1>6, <1>7, <1>8, <1>9, <1>10, <1>11, <1>12, <1>13, <1>14, <1>15,
      <1>16, <1>17, <1>18, <1>19, <1>20, <1>21, <1>22, <1>23, <1>24, <1>25, <1>26, <1>27
  DEF Next, Loop, Writer, Pumper, Pinger, ReadLoop, Goroutines

\* What the dashboard is sent on a connection is the stream TerminalStream
\* promises: chunks in order and none twice, none skipped that the source did not
\* lose unless the connection is being dropped, none lost off the pty without a
\* full feed waiting before it, and every repaint of a moment since the source was
\* started (serve, the pump and the writer of termhost.go).
THEOREM SpecStreamsAsPromised ==
  Spec => StreamsAsPromised
<1>1. Init => Promise!Init
  BY DEF Init, Promise!Init
<1>2. IInv /\ IInv' /\ [Next]_vars => [Promise!Next]_Promise!vars
  BY PromiseStep
<1> QED
  BY <1>1, <1>2, SpecIInv, PTL DEF Spec, StreamsAsPromised, Promise!Spec
=============================================================================
