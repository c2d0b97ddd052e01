---------------------------- MODULE WrapperTerminal ----------------------------
(***************************************************************************)
(* A wrapper's terminal on its way to the dashboard: the loop that dials,  *)
(* the three goroutines of a connection (writer, pump, pinger), the loop   *)
(* that reads the dashboard's requests, the fan-out or tmux client that    *)
(* feeds the pump, and stop.                                               *)
(*                                                                         *)
(* Output is a sequence of chunks, named by their number.  A context that  *)
(* is cancelled does not stop a goroutine at once: its select may still    *)
(* take a frame, and a write may still get through.                        *)
(***************************************************************************)
EXTENDS Naturals, Sequences, FiniteSets

CONSTANTS
  OverTmux,   \* the terminal is read through tmux, not off the pty
  FeedQueue,  \* capacity of the channel the source feeds
  SendQueue,  \* capacity of a connection's send queue
  MaxChunks,  \* bound: chunks of output
  MaxConns,   \* bound: connections dialled
  MaxAsks     \* bound: requests of the dashboard

ASSUME WrapperAssumption ==
  /\ OverTmux \in BOOLEAN
  /\ FeedQueue \in Nat \ {0} /\ SendQueue \in Nat \ {0}
  /\ MaxChunks \in Nat /\ MaxConns \in Nat /\ MaxAsks \in Nat

VARIABLES
  rendered,   \* chunks the terminal has put out: what a snapshot shows
  delivered,  \* chunks the fan-out or tmux client has passed on
  source,     \* the source of the connection: off, on, or ended by itself
  feed,       \* chunks on the channel the source feeds
  lost,       \* chunks that did not get on it: no room, or not sent by tmux
  phase,      \* where run and serve are
  stopping,   \* stop was called
  conns,      \* connections dialled
  sock,       \* the connection's socket
  cancelled,  \* the connection's own context is cancelled
  running,    \* its goroutines
  send,       \* its send queue
  reader,     \* where its read loop is
  snapAt,     \* the last chunk on the snapshot the read loop holds
  asks,       \* requests of the dashboard so far
  since,      \* chunks passed on before the source was started
  shown,      \* the last chunk written to it
  screen      \* the chunks a browser's screen is made of

termVars   == <<rendered, delivered>>
sourceVars == <<source, feed, lost>>
loopVars   == <<phase, conns>>
readVars   == <<reader, snapAt, asks>>
shownVars  == <<since, shown, screen>>
vars == <<termVars, sourceVars, loopVars, stopping, sock, cancelled, running, send, readVars, shownVars>>

-----------------------------------------------------------------------------
(* Values *)

Phase == {"waiting", "dialling", "greeting", "starting", "serving", "leaving",
          "joining", "disabled", "over"}
Goroutines == {"writer", "pump", "pinger"}
Chunk(n) == [t |-> "chunk", n |-> n]
Snapshot(n) == [t |-> "snapshot", n |-> n]

\* The connection's context, a child of the loop's.
Cancelled == cancelled \/ stopping

\* Where the dashboard has gone without a word, the socket is gone, not closed.
Init ==
  /\ rendered = 0 /\ delivered = 0
  /\ source = "off" /\ feed = <<>> /\ lost = {}
  /\ phase = "waiting" /\ conns = 0
  /\ stopping = FALSE
  /\ sock = "none" /\ cancelled = FALSE
  /\ running = {} /\ send = <<>>
  /\ reader = "reading" /\ snapAt = 0 /\ asks = 0
  /\ since = 0 /\ shown = 0 /\ screen = {}

\* Mutant: a full queue drops the frame, not the connection.
EnqueueDrops(f) ==
  /\ send' = IF Len(send) < SendQueue THEN Append(send, f) ELSE send
  /\ UNCHANGED cancelled

\* enqueue: a full queue drops the connection.
Enqueue(f) ==
  IF Len(send) < SendQueue
  THEN send' = Append(send, f) /\ UNCHANGED cancelled
  ELSE cancelled' = TRUE /\ UNCHANGED send

-----------------------------------------------------------------------------
(* The terminal and its source *)

\* One goroutine copies the pty to the pane and then to the fan-out; tmux
\* updates its grid whether or not its client has caught up.
Render ==
  /\ rendered < MaxChunks
  /\ ~OverTmux => delivered = rendered
  /\ rendered' = rendered + 1
  /\ UNCHANGED <<delivered, sourceVars, loopVars, stopping, sock, cancelled, running, send, readVars, shownVars>>

\* Mutant: the channel is not bounded.
DeliverUnbounded ==
  /\ delivered < rendered
  /\ delivered' = delivered + 1
  /\ feed' = IF source = "on" THEN Append(feed, delivered') ELSE feed
  /\ UNCHANGED <<rendered, source, lost, loopVars, stopping, sock, cancelled, running, send, readVars, shownVars>>

\* fanout.Write, Client.emit: a channel that is full loses the chunk.  tmux sends
\* its client nothing until it has attached it, which is at any time after it was
\* started, and nothing while it has paused the pane for it.
Deliver ==
  /\ delivered < rendered
  /\ delivered' = delivered + 1
  /\ \/ /\ source # "on"
        /\ UNCHANGED <<feed, lost>>
     \/ /\ source = "on" /\ Len(feed) < FeedQueue
        /\ feed' = Append(feed, delivered') /\ UNCHANGED lost
     \/ /\ source = "on" /\ (OverTmux \/ Len(feed) >= FeedQueue)
        /\ lost' = lost \cup {delivered'} /\ UNCHANGED feed
  /\ UNCHANGED <<rendered, source, loopVars, stopping, sock, cancelled, running, send, readVars, shownVars>>

\* The tmux client exits by itself.
SourceEnds ==
  /\ OverTmux /\ source = "on"
  /\ source' = "ended"
  /\ UNCHANGED <<termVars, feed, lost, loopVars, stopping, sock, cancelled, running, send, readVars, shownVars>>

-----------------------------------------------------------------------------
(* run, and serve up to its goroutines *)

Go(p) == phase' = p /\ UNCHANGED conns

\* The backoff is over and the session has an id.
Redial ==
  /\ phase = "waiting" /\ ~stopping
  /\ conns < MaxConns
  /\ phase' = "dialling" /\ conns' = conns + 1
  /\ UNCHANGED <<termVars, sourceVars, stopping, sock, cancelled, running, send, readVars, shownVars>>

Connected ==
  /\ phase = "dialling"
  /\ sock' = "open"
  /\ cancelled' = FALSE
  /\ Go("greeting")
  /\ UNCHANGED <<termVars, sourceVars, stopping, running, send, readVars, shownVars>>

\* An error is retried, a refusal of the token is final.
DialFails ==
  /\ phase = "dialling"
  /\ \/ Go("waiting") \/ Go("disabled")
  /\ UNCHANGED <<termVars, sourceVars, stopping, sock, cancelled, running, send, readVars, shownVars>>

HelloSent ==
  /\ phase = "greeting" /\ sock # "closed"
  /\ Go("starting")
  /\ UNCHANGED <<termVars, sourceVars, stopping, sock, cancelled, running, send, readVars, shownVars>>

\* The hello is not written, or tmux cannot be attached to.
SetupFails ==
  /\ phase = "greeting" \/ (phase = "starting" /\ OverTmux)
  /\ Go("leaving")
  /\ UNCHANGED <<termVars, sourceVars, stopping, sock, cancelled, running, send, readVars, shownVars>>

\* The source is started before the read loop can ask it for a snapshot.  Off the
\* pty it streams from here on; over tmux this starts the client, and nobody waits
\* for tmux to attach it.
Start ==
  /\ phase = "starting"
  /\ delivered' = IF OverTmux THEN rendered ELSE delivered
  /\ source' = "on" /\ feed' = <<>>
  /\ running' = Goroutines /\ send' = <<>> /\ reader' = "reading"
  /\ since' = delivered' /\ shown' = delivered' /\ screen' = {}
  /\ Go("serving")
  /\ UNCHANGED <<rendered, lost, stopping, sock, cancelled, snapAt, asks>>

-----------------------------------------------------------------------------
(* The goroutines of a connection *)

Ends(g) == running' = running \ {g}

\* What a frame does to a browser's screen; a snapshot clears it first.
Apply(f) ==
  IF f.t = "chunk"
  THEN shown' = f.n /\ screen' = screen \cup {f.n}
  ELSE screen' = 1..f.n /\ UNCHANGED shown

\* Nobody sees what is written to a connection the dashboard has left.
WriteFrame ==
  /\ "writer" \in running /\ send # <<>> /\ sock # "closed"
  /\ send' = Tail(send)
  /\ IF sock = "open" THEN Apply(Head(send)) ELSE UNCHANGED <<shown, screen>>
  /\ UNCHANGED <<termVars, sourceVars, loopVars, stopping, sock, cancelled, running, readVars, since>>

\* The socket is closed, or the write timed out.
WriteFails ==
  /\ "writer" \in running /\ send # <<>>
  /\ send' = Tail(send)
  /\ cancelled' = TRUE
  /\ Ends("writer")
  /\ UNCHANGED <<termVars, sourceVars, loopVars, stopping, sock, readVars, shownVars>>

Pump ==
  /\ "pump" \in running /\ feed # <<>>
  /\ feed' = Tail(feed)
  /\ Enqueue(Chunk(Head(feed)))
  /\ UNCHANGED <<termVars, source, lost, loopVars, stopping, sock, running, readVars, shownVars>>

\* The terminal ended: the pump drops the connection.
PumpDry ==
  /\ "pump" \in running /\ feed = <<>> /\ source # "on"
  /\ cancelled' = TRUE
  /\ Ends("pump")
  /\ UNCHANGED <<termVars, sourceVars, loopVars, stopping, sock, send, readVars, shownVars>>

\* Mutant: the pinger ends without closing the socket.
PingFailsQuietly ==
  /\ "pinger" \in running
  /\ Ends("pinger")
  /\ UNCHANGED <<termVars, sourceVars, loopVars, stopping, sock, cancelled, send, readVars, shownVars>>

\* No answer in time; the socket is closed under the read loop.
PingFails ==
  /\ "pinger" \in running
  /\ sock' = "closed"
  /\ Ends("pinger")
  /\ UNCHANGED <<termVars, sourceVars, loopVars, stopping, cancelled, send, readVars, shownVars>>

\* A goroutine sees the context cancelled.
GoroutineEnds(g) ==
  /\ g \in running /\ Cancelled
  /\ Ends(g)
  /\ UNCHANGED <<termVars, sourceVars, loopVars, stopping, sock, cancelled, send, readVars, shownVars>>

-----------------------------------------------------------------------------
(* readLoop *)

Reading == phase = "serving" /\ reader = "reading"

\* The snapshot is taken here, and queued below: the pump runs in between.
TakeSnapshot ==
  /\ Reading /\ sock = "open"
  /\ asks < MaxAsks /\ asks' = asks + 1
  /\ \/ snapAt' = rendered
     \/ (OverTmux /\ snapAt' = 0)
  /\ reader' = "painting"
  /\ UNCHANGED <<termVars, sourceVars, loopVars, stopping, sock, cancelled, running, send, shownVars>>

Paint ==
  /\ reader = "painting"
  /\ Enqueue(Snapshot(snapAt))
  /\ reader' = "reading" /\ snapAt' = 0
  /\ UNCHANGED <<termVars, sourceVars, loopVars, stopping, sock, running, asks, shownVars>>

\* Input or a resize in a session that takes them; the terminal may be slow to.
ReadInput ==
  /\ Reading /\ sock = "open"
  /\ asks < MaxAsks /\ asks' = asks + 1
  /\ reader' = "typing"
  /\ UNCHANGED <<termVars, sourceVars, loopVars, stopping, sock, cancelled, running, send, snapAt, shownVars>>

TakeInput ==
  /\ reader = "typing"
  /\ reader' = "reading"
  /\ UNCHANGED <<termVars, sourceVars, loopVars, stopping, sock, cancelled, running, send, snapAt, asks, shownVars>>

\* Mutant: a cancelled context does not end the read.
ReadFailsOnSocketOnly ==
  /\ Reading /\ sock = "closed"
  /\ Go("leaving")
  /\ UNCHANGED <<termVars, sourceVars, stopping, sock, cancelled, running, send, readVars, shownVars>>

ReadFails ==
  /\ Reading /\ (sock = "closed" \/ Cancelled)
  /\ Go("leaving")
  /\ UNCHANGED <<termVars, sourceVars, stopping, sock, cancelled, running, send, readVars, shownVars>>

-----------------------------------------------------------------------------
(* The end of serve, and stop *)

\* Mutant: the source is left running.
TeardownKeepsSource ==
  /\ phase = "leaving"
  /\ cancelled' = TRUE /\ sock' = "closed"
  /\ Go("joining")
  /\ UNCHANGED <<termVars, sourceVars, stopping, running, send, readVars, shownVars>>

\* The context, the socket and the source, in this order; then wg.Wait.
Teardown ==
  /\ phase = "leaving"
  /\ cancelled' = TRUE /\ sock' = "closed"
  /\ source' = "off"
  /\ Go("joining")
  /\ UNCHANGED <<termVars, feed, lost, stopping, running, send, readVars, shownVars>>

Joined ==
  /\ phase = "joining" /\ running = {}
  /\ sock' = "none"
  /\ Go("waiting")
  /\ UNCHANGED <<termVars, sourceVars, stopping, cancelled, running, send, readVars, shownVars>>

Stop ==
  /\ ~stopping
  /\ stopping' = TRUE
  /\ UNCHANGED <<termVars, sourceVars, loopVars, sock, cancelled, running, send, readVars, shownVars>>

\* run ends; stop, which waits for it, returns.
Over ==
  /\ phase = "waiting" /\ stopping
  /\ Go("over")
  /\ UNCHANGED <<termVars, sourceVars, stopping, sock, cancelled, running, send, readVars, shownVars>>

\* The connection is closed by the dashboard, or lost without a word.
SockDrops ==
  /\ sock = "open"
  /\ sock' \in {"closed", "gone"}
  /\ UNCHANGED <<termVars, sourceVars, loopVars, stopping, cancelled, running, send, readVars, shownVars>>

-----------------------------------------------------------------------------
Loop == Connected \/ DialFails \/ HelloSent \/ SetupFails \/ Start \/ Teardown \/ Joined \/ Over
Writer == WriteFrame \/ WriteFails \/ GoroutineEnds("writer")
Pumper == Pump \/ PumpDry \/ GoroutineEnds("pump")
Pinger == PingFails \/ GoroutineEnds("pinger")
ReadLoop == Paint \/ TakeInput \/ ReadFails

Next ==
  \/ Render \/ Deliver \/ SourceEnds
  \/ Redial \/ Loop \/ Writer \/ Pumper \/ Pinger
  \/ TakeSnapshot \/ ReadInput \/ ReadLoop
  \/ Stop \/ SockDrops

\* Goroutines run, dials, writes and pings time out, and the terminal takes its
\* input.  Nothing is assumed of the terminal's output, the dashboard or stop.
Fairness ==
  /\ WF_vars(Loop) /\ WF_vars(Writer) /\ WF_vars(Pumper) /\ WF_vars(ReadLoop)
  /\ WF_vars(GoroutineEnds("pinger")) /\ WF_vars(sock = "gone" /\ PingFails)

Spec == Init /\ [][Next]_vars
FairSpec == Spec /\ Fairness

-----------------------------------------------------------------------------
(* Properties *)

Frames == [t : {"chunk", "snapshot"}, n : 0..MaxChunks]

\* Every variable stays in its range, and the queues within their capacity.
TypeOK ==
  /\ rendered \in 0..MaxChunks /\ delivered \in 0..rendered
  /\ source \in {"off", "on", "ended"}
  /\ feed \in Seq(1..MaxChunks) /\ Len(feed) <= FeedQueue
  /\ lost \subseteq 1..MaxChunks
  /\ phase \in Phase /\ conns \in 0..MaxConns
  /\ stopping \in BOOLEAN /\ cancelled \in BOOLEAN
  /\ sock \in {"none", "open", "gone", "closed"}
  /\ running \subseteq Goroutines
  /\ send \in Seq(Frames) /\ Len(send) <= SendQueue
  /\ reader \in {"reading", "painting", "typing"}
  /\ snapAt \in 0..MaxChunks /\ asks \in 0..MaxAsks
  /\ since \in 0..delivered /\ shown \in since..delivered
  /\ screen \subseteq 1..MaxChunks

\* "A finished session never leaves a dialer or a tmux control client behind":
\* between connections and after the last, no goroutine of a connection runs,
\* its source is released and its socket closed.
NoLeftovers ==
  phase \in {"waiting", "disabled", "over"} =>
    running = {} /\ source = "off" /\ sock = "none"

\* What the dashboard is sent is the stream TerminalStream promises: in order,
\* none twice, and nothing skipped but what the source lost or the wrapper drops
\* with the connection; off the pty nothing is lost while the feed has room; and
\* a snapshot shows what was put out before the source was started.
Promise == INSTANCE TerminalStream WITH
  Backlog <- FeedQueue,
  up <- source # "off", dropping <- source # "off" /\ Cancelled
StreamsAsPromised == Promise!Spec

\* stop returns, whatever the connection was in the middle of.
StopReturns == stopping ~> phase \in {"over", "disabled"}

\* A connection that overflowed, ended or went silent is given up, so that the
\* browsers are repainted by the next.
BrokenIsGivenUp ==
  phase = "serving" /\ (Cancelled \/ sock # "open") ~> phase # "serving"

\* termhost.go: a snapshot clears the screen and paints the terminal's, and the
\* stream has no gap.  So, on a connection nobody is dropping and where the
\* source has lost nothing, what was streamed stays on the screen.
NoGapAfterSnapshot ==
  source # "off" /\ ~Cancelled /\ lost = {} => (since + 1)..shown \subseteq screen
=============================================================================
