---------------------------- MODULE TerminalHosts ----------------------------
(***************************************************************************)
(* The dashboard's side of a remote session's terminal, for one session:   *)
(* the connections its wrapper offers the terminal on, each displacing the *)
(* one before, the browsers attached to them, the fan-out of terminal      *)
(* bytes, and a kill of the session: the memory of it, which does not last,*)
(* and the session's record, which requests of the wrapper may undo.       *)
(*                                                                         *)
(* A handler is split at its locks: the registry's, the host's, and the    *)
(* closing of a browser's channel and the sends on it, which hold none.    *)
(***************************************************************************)
EXTENDS Naturals, Sequences, FiniteSets

CONSTANTS
  Hosts,        \* connections a wrapper makes to offer its terminal
  Viewers,      \* browser connections to the terminal
  ViewerQueue,  \* capacity of a browser's channel
  NoHost, Kill  \* no connection; the kill request as an agent

ASSUME TerminalAssumption ==
  /\ NoHost \notin Hosts /\ Kill \notin Hosts /\ Kill # NoHost
  /\ ViewerQueue \in Nat \ {0}

VARIABLES
  killing,     \* how far the kill request for the session is
  killed,      \* the kill is remembered for the session's room
  live,        \* a listing gives a record of the session that is not ended
  dropped,     \* the host the kill request found
  registered,  \* the registry's host of this session, or NoHost
  host,        \* where the handler of a wrapper's connection is
  old,         \* the host a new one displaced
  up,          \* wrapper connections that are open
  closed,      \* hosts marked closed
  attached,    \* browsers in a host's viewer set
  ending,      \* browsers a close has taken and whose channel it has yet to close
  closer,      \* who is closing a host
  sending,     \* browsers a broadcast has yet to reach
  viewer,      \* where the handler of a browser's connection is
  target,      \* the host a browser found
  out,         \* a browser's channel: the frames on it
  outClosed    \* browsers whose channel is closed

killVars    == <<killing, dropped>>
recordVars  == <<killed, live>>
sessionVars == <<killVars, recordVars>>
hostVars    == <<host, old, up, closed, closer>>
viewerVars  == <<viewer, target>>
channelVars == <<attached, ending, sending, out, outClosed>>
vars == <<registered, sessionVars, hostVars, viewerVars, channelVars>>

-----------------------------------------------------------------------------
(* Values *)

KillPhase   == {"none", "remembered", "found", "removed", "dropped", "done"}
HostPhase   == {"new", "checked", "adding", "serving", "leaving", "removing", "over"}
ViewerPhase == {"new", "found", "attached", "detaching", "exit", "gone"}
Agents == Hosts \cup {Kill}

\* An agent inside close, on its way through the channels it took.
Closing(a) == \E h \in Hosts : closer[h] = a

Init ==
  /\ killing = "none" /\ dropped = NoHost
  /\ killed = FALSE /\ live = TRUE
  /\ registered = NoHost
  /\ host = [h \in Hosts |-> "new"]
  /\ old = [h \in Hosts |-> NoHost]
  /\ up = {} /\ closed = {}
  /\ closer = [h \in Hosts |-> NoHost]
  /\ attached = [h \in Hosts |-> {}]
  /\ ending = [h \in Hosts |-> {}]
  /\ sending = [h \in Hosts |-> {}]
  /\ viewer = [v \in Viewers |-> "new"]
  /\ target = [v \in Viewers |-> NoHost]
  /\ out = [v \in Viewers |-> 0]
  /\ outClosed = {}

HostGo(h, p) == host' = [host EXCEPT ![h] = p]
ViewerGo(v, p) == viewer' = [viewer EXCEPT ![v] = p]

-----------------------------------------------------------------------------
(* close: the first caller marks the host, takes its viewers and then closes *)
(* their channels and the connection; every later caller returns at once.    *)

BeginClose(h, a) ==
  IF h \in closed
  THEN UNCHANGED <<closed, attached, ending, closer>>
  ELSE /\ closed' = closed \cup {h}
       /\ ending' = [ending EXCEPT ![h] = attached[h]]
       /\ attached' = [attached EXCEPT ![h] = {}]
       /\ closer' = [closer EXCEPT ![h] = a]

\* Mutant: the viewers are dropped without their channels being closed.
CloseOutSkipped(h, v) ==
  /\ v \in ending[h]
  /\ ending' = [ending EXCEPT ![h] = @ \ {v}]
  /\ UNCHANGED <<registered, sessionVars, hostVars, viewerVars, attached, sending, out, outClosed>>

CloseOut(h, v) ==
  /\ v \in ending[h]
  /\ ending' = [ending EXCEPT ![h] = @ \ {v}]
  /\ outClosed' = outClosed \cup {v}
  /\ UNCHANGED <<registered, sessionVars, hostVars, viewerVars, attached, sending, out>>

EndClose(h) ==
  /\ closer[h] # NoHost /\ ending[h] = {}
  /\ closer' = [closer EXCEPT ![h] = NoHost]
  /\ up' = up \ {h}
  /\ UNCHANGED <<registered, sessionVars, host, old, closed, viewerVars, channelVars>>

-----------------------------------------------------------------------------
(* handleTerminalHost *)

\* What handleTerminalHost turns away: a session without a record, one whose
\* record is ended, one whose kill is remembered.
Refused == ~live \/ killed

\* Mutant: only the record is asked, which a late heartbeat may have undone.
HostCheckRecordOnly(h) ==
  /\ host[h] = "new"
  /\ live
  /\ HostGo(h, "checked")
  /\ up' = up \cup {h}
  /\ UNCHANGED <<registered, sessionVars, old, closed, closer, viewerVars, channelVars>>

HostCheck(h) ==
  /\ host[h] = "new"
  /\ ~Refused
  /\ HostGo(h, "checked")
  /\ up' = up \cup {h}
  /\ UNCHANGED <<registered, sessionVars, old, closed, closer, viewerVars, channelVars>>

HostRefused(h) ==
  /\ host[h] = "new"
  /\ Refused
  /\ HostGo(h, "over")
  /\ UNCHANGED <<registered, sessionVars, old, up, closed, closer, viewerVars, channelVars>>

\* No hello: the connection is closed before it was ever registered.
HostNoHello(h) ==
  /\ host[h] = "checked"
  /\ HostGo(h, "over")
  /\ up' = up \ {h}
  /\ UNCHANGED <<registered, sessionVars, old, closed, closer, viewerVars, channelVars>>

\* add, after the upgrade and the hello: the map is swapped ...
HostAdd(h) ==
  /\ host[h] = "checked"
  /\ old' = [old EXCEPT ![h] = registered]
  /\ registered' = h
  /\ HostGo(h, "adding")
  /\ UNCHANGED <<sessionVars, up, closed, closer, viewerVars, channelVars>>

\* ... and the displaced host closed.
HostDisplace(h) ==
  /\ host[h] = "adding"
  /\ IF old[h] = NoHost
     THEN UNCHANGED <<closed, attached, ending, closer>>
     ELSE BeginClose(old[h], h)
  /\ old' = [old EXCEPT ![h] = NoHost]
  /\ HostGo(h, "serving")
  /\ UNCHANGED <<registered, sessionVars, up, viewerVars, sending, out, outClosed>>

Free(h) == host[h] = "serving" /\ sending[h] = {} /\ ~Closing(h)

\* Terminal bytes: the viewer set is copied under the lock ...
HostOutput(h) ==
  /\ Free(h) /\ h \in up
  /\ sending' = [sending EXCEPT ![h] = attached[h]]
  /\ UNCHANGED <<registered, sessionVars, hostVars, viewerVars, attached, ending, out, outClosed>>

\* ... and sent on each channel without it; a full channel loses the frame.
\* Mutant: the channel is not bounded.
HostSendUnbounded(h, v) ==
  /\ v \in sending[h] \ outClosed
  /\ out' = [out EXCEPT ![v] = @ + 1]
  /\ sending' = [sending EXCEPT ![h] = @ \ {v}]
  /\ UNCHANGED <<registered, sessionVars, hostVars, viewerVars, attached, ending, outClosed>>

HostSend(h, v) ==
  /\ v \in sending[h] \ outClosed
  /\ out' = [out EXCEPT ![v] = IF @ < ViewerQueue THEN @ + 1 ELSE @]
  /\ sending' = [sending EXCEPT ![h] = @ \ {v}]
  /\ UNCHANGED <<registered, sessionVars, hostVars, viewerVars, attached, ending, outClosed>>

\* A channel closed in between: the send panics and the handler unwinds.
HostSendPanics(h) ==
  /\ sending[h] \cap outClosed # {}
  /\ sending' = [sending EXCEPT ![h] = {}]
  /\ HostGo(h, "leaving")
  /\ UNCHANGED <<registered, sessionVars, old, up, closed, closer, viewerVars,
                 attached, ending, out, outClosed>>

HostReadError(h) ==
  /\ Free(h) /\ h \notin up
  /\ HostGo(h, "leaving")
  /\ UNCHANGED <<registered, sessionVars, old, up, closed, closer, viewerVars, channelVars>>

\* Mutants: whatever host the map holds is removed; nothing is.
RemovedAny(h) == NoHost
RemovedNone(h) == registered
Removed(h) == IF registered = h THEN NoHost ELSE registered

\* remove, deferred: out of the map if it is still this host's entry ...
HostRemove(h) ==
  /\ host[h] = "leaving"
  /\ registered' = Removed(h)
  /\ HostGo(h, "removing")
  /\ UNCHANGED <<sessionVars, old, up, closed, closer, viewerVars, channelVars>>

\* ... and closed.
HostClose(h) ==
  /\ host[h] = "removing"
  /\ BeginClose(h, h)
  /\ HostGo(h, "over")
  /\ UNCHANGED <<registered, sessionVars, old, up, viewerVars, sending, out, outClosed>>

\* The wrapper's connection breaks.
HostDrops(h) ==
  /\ h \in up
  /\ up' = up \ {h}
  /\ UNCHANGED <<registered, sessionVars, host, old, closed, closer, viewerVars, channelVars>>

-----------------------------------------------------------------------------
(* serveRemoteTerminal *)

ViewerFind(v) ==
  /\ viewer[v] = "new"
  /\ IF registered = NoHost \/ registered \in closed
     THEN ViewerGo(v, "gone") /\ UNCHANGED target
     ELSE ViewerGo(v, "found") /\ target' = [target EXCEPT ![v] = registered]
  /\ UNCHANGED <<registered, sessionVars, hostVars, channelVars>>

\* Mutant: the host is not asked again whether it is closed.
ViewerAttachBlind(v) ==
  /\ viewer[v] = "found"
  /\ ViewerGo(v, "attached")
  /\ attached' = [attached EXCEPT ![target[v]] = @ \cup {v}]
  /\ UNCHANGED <<registered, sessionVars, hostVars, target, ending, sending, out, outClosed>>

\* attach, after the upgrade and the hello: a host closed meanwhile is an exit.
ViewerAttach(v) ==
  /\ viewer[v] = "found"
  /\ IF target[v] \in closed
     THEN ViewerGo(v, "exit") /\ UNCHANGED attached
     ELSE /\ ViewerGo(v, "attached")
          /\ attached' = [attached EXCEPT ![target[v]] = @ \cup {v}]
  /\ UNCHANGED <<registered, sessionVars, hostVars, target, ending, sending, out, outClosed>>

ViewerRead(v) ==
  /\ viewer[v] = "attached" /\ out[v] > 0
  /\ out' = [out EXCEPT ![v] = @ - 1]
  /\ UNCHANGED <<registered, sessionVars, hostVars, viewerVars, attached, ending, sending, outClosed>>

\* The channel is drained and closed: the browser is told the session ended.
ViewerExit(v) ==
  /\ viewer[v] = "attached" /\ out[v] = 0 /\ v \in outClosed
  /\ ViewerGo(v, "exit")
  /\ UNCHANGED <<registered, sessionVars, hostVars, target, channelVars>>

\* The browser goes away, fails to take a frame, or sits idle for too long.
ViewerLeaves(v) ==
  /\ \/ viewer[v] = "found" /\ ViewerGo(v, "gone")
     \/ viewer[v] = "attached" /\ ViewerGo(v, "detaching")
  /\ UNCHANGED <<registered, sessionVars, hostVars, target, channelVars>>

\* Mutant: the channel is closed whoever has taken it.
ViewerDetachCloses(v) ==
  /\ viewer[v] \in {"detaching", "exit"}
  /\ attached' = [attached EXCEPT ![target[v]] = @ \ {v}]
  /\ outClosed' = outClosed \cup {v}
  /\ ViewerGo(v, "gone")
  /\ UNCHANGED <<registered, sessionVars, hostVars, target, ending, sending, out>>

\* detach, deferred; the channel is closed only if no close has taken it.
ViewerDetach(v) ==
  /\ viewer[v] \in {"detaching", "exit"}
  /\ IF v \in attached[target[v]]
     THEN /\ attached' = [attached EXCEPT ![target[v]] = @ \ {v}]
          /\ outClosed' = outClosed \cup {v}
     ELSE UNCHANGED <<attached, outClosed>>
  /\ ViewerGo(v, "gone")
  /\ UNCHANGED <<registered, sessionVars, hostVars, target, ending, sending, out>>

-----------------------------------------------------------------------------
(* handleKill, from the point where it has found the session *)

KillRemember ==
  /\ killing \in {"none", "done"}
  /\ killing' = "remembered"
  /\ killed' = TRUE
  /\ UNCHANGED <<registered, dropped, live, hostVars, viewerVars, channelVars>>

\* dropTermHost: the host is looked up ...
KillFindHost ==
  /\ killing = "remembered"
  /\ dropped' = registered
  /\ killing' = IF registered = NoHost THEN "dropped" ELSE "found"
  /\ UNCHANGED <<registered, recordVars, hostVars, viewerVars, channelVars>>

\* ... and removed ...
KillRemove ==
  /\ killing = "found"
  /\ registered' = Removed(dropped)
  /\ killing' = "removed"
  /\ UNCHANGED <<dropped, recordVars, hostVars, viewerVars, channelVars>>

\* ... and closed.
KillClose ==
  /\ killing = "removed"
  /\ BeginClose(dropped, Kill)
  /\ killing' = "dropped" /\ dropped' = NoHost
  /\ UNCHANGED <<registered, recordVars, host, old, up, viewerVars, sending, out, outClosed>>

\* The record, as it was when the kill found it, is saved as ended.
KillSave ==
  /\ killing = "dropped" /\ ~Closing(Kill)
  /\ killing' = "done"
  /\ live' = FALSE
  /\ UNCHANGED <<registered, dropped, killed, hostVars, viewerVars, channelVars>>

-----------------------------------------------------------------------------
(* What becomes of the memory and of the record *)

\* The time a kill is remembered for is over; of a session without a room id
\* it never was remembered, which is to forget it at once.
Forget ==
  /\ killed
  /\ killed' = FALSE
  /\ UNCHANGED <<registered, killVars, live, hostVars, viewerVars, channelVars>>

\* A heartbeat that loaded the record before it was ended, or a registration
\* that asked before the kill was remembered or after it was forgotten, saves it
\* as live.  Any number of them may be past their checks.
RecordSaved ==
  /\ ~live
  /\ live' = TRUE
  /\ UNCHANGED <<registered, killVars, killed, hostVars, viewerVars, channelVars>>

\* A listing removes a stale record; one that is ended, as one that is gone, is
\* refused either way.
RecordGoes ==
  /\ live
  /\ live' = FALSE
  /\ UNCHANGED <<registered, killVars, killed, hostVars, viewerVars, channelVars>>

\* The dashboard is started again: the records stay; the memory of the kill, a
\* kill under way and every connection are lost.
Restart ==
  /\ killed' = FALSE
  /\ killing' = "none" /\ dropped' = NoHost
  /\ registered' = NoHost
  /\ host' = [h \in Hosts |-> IF host[h] = "new" THEN "new" ELSE "over"]
  /\ viewer' = [v \in Viewers |-> IF viewer[v] = "new" THEN "new" ELSE "gone"]
  /\ up' = {}
  /\ closer' = [h \in Hosts |-> NoHost]
  /\ attached' = [h \in Hosts |-> {}]
  /\ ending' = [h \in Hosts |-> {}]
  /\ sending' = [h \in Hosts |-> {}]
  /\ UNCHANGED <<live, old, closed, target, out, outClosed>>

-----------------------------------------------------------------------------
HostHandler(h) ==
  \/ HostDisplace(h) \/ HostReadError(h) \/ HostRemove(h) \/ HostClose(h)
  \/ HostSendPanics(h) \/ \E v \in Viewers : HostSend(h, v)
CloseHost(h) == EndClose(h) \/ \E v \in Viewers : CloseOut(h, v)
ViewerHandler(v) == ViewerAttach(v) \/ ViewerRead(v) \/ ViewerExit(v) \/ ViewerDetach(v)
KillHandler == KillFindHost \/ KillRemove \/ KillClose \/ KillSave
RecordStep == RecordSaved \/ RecordGoes

Next ==
  \/ \E h \in Hosts : \/ HostCheck(h) \/ HostRefused(h) \/ HostNoHello(h) \/ HostAdd(h)
                      \/ HostOutput(h) \/ HostDrops(h) \/ HostHandler(h) \/ CloseHost(h)
  \/ \E v \in Viewers : ViewerFind(v) \/ ViewerLeaves(v) \/ ViewerHandler(v)
  \/ KillRemember \/ KillHandler \/ Forget \/ RecordStep \/ Restart

\* Handlers that have something to do run; wrappers and browsers may do nothing.
Fairness ==
  /\ \A h \in Hosts : WF_vars(HostHandler(h)) /\ WF_vars(CloseHost(h))
  /\ \A v \in Viewers : WF_vars(ViewerHandler(v))
  /\ WF_vars(KillHandler)

Spec == Init /\ [][Next]_vars
FairSpec == Spec /\ Fairness

-----------------------------------------------------------------------------
(* Properties *)

\* Every variable stays in its range; a browser's backlog is bounded.
TypeOK ==
  /\ killing \in KillPhase
  /\ dropped \in Hosts \cup {NoHost}
  /\ killed \in BOOLEAN /\ live \in BOOLEAN
  /\ registered \in Hosts \cup {NoHost}
  /\ host \in [Hosts -> HostPhase]
  /\ old \in [Hosts -> Hosts \cup {NoHost}]
  /\ up \subseteq Hosts
  /\ closed \subseteq Hosts
  /\ closer \in [Hosts -> Agents \cup {NoHost}]
  /\ attached \in [Hosts -> SUBSET Viewers]
  /\ ending \in [Hosts -> SUBSET Viewers]
  /\ sending \in [Hosts -> SUBSET Viewers]
  /\ viewer \in [Viewers -> ViewerPhase]
  /\ target \in [Viewers -> Hosts \cup {NoHost}]
  /\ out \in [Viewers -> 0..ViewerQueue]
  /\ outClosed \subseteq Viewers

\* A wrapper's connection that works is the one browsers find, whatever late
\* cleanup of an older connection runs: unless a newer one or the kill has
\* taken its place in the map and is about to close it.
ServingHostIsFound ==
  \A h \in Hosts : host[h] = "serving" /\ h \notin closed =>
    \/ registered = h
    \/ \E g \in Hosts : host[g] = "adding" /\ old[g] = h
    \/ killing = "removed" /\ dropped = h

\* No browser is left in the viewer set of a host that is closed, where nobody
\* would ever close its channel.
ClosedHostHasNoViewers == \A h \in closed : attached[h] = {}

\* A browser's channel is closed by one party only: detaching, displacement,
\* the kill and the host's own end never both hold it (closing twice panics).
NeverClosedTwice ==
  /\ \A h \in Hosts : (attached[h] \cup ending[h]) \cap outClosed = {}
  /\ \A h \in Hosts : attached[h] \cap ending[h] = {}
  /\ \A g, h \in Hosts : g # h =>
       (attached[g] \cup ending[g]) \cap (attached[h] \cup ending[h]) = {}

\* A session that is refused, with no host registered and none past its check,
\* is offered no terminal again while it is refused: not while its kill is
\* remembered, although a late heartbeat saves the record as live, and not
\* after, while the record is ended or gone.  A kill that is forgotten no
\* longer keeps a wrapper from registering and offering one.
TerminalShut ==
  Refused /\ registered = NoHost /\ \A h \in Hosts : host[h] # "checked"
TerminalStaysShut == [][TerminalShut /\ Refused' => TerminalShut']_vars

\* A browser attached to a host that is closed is released: it is told that the
\* session ended, or is gone itself.
ViewerOfClosedHostReleased ==
  \A v \in Viewers : \A h \in Hosts :
    viewer[v] = "attached" /\ target[v] = h /\ h \in closed ~> viewer[v] # "attached"

\* A wrapper whose connection is known to be broken is not offered for ever.
BrokenHostIsUnregistered == \A h \in Hosts : registered = h /\ h \notin up ~> registered # h

\* termhost.go: a wrapper must not advertise a terminal for a session that is
\* over: none is on offer once the kill is answered, while it is remembered.
NoTerminalAfterKill == killing = "done" /\ killed => registered = NoHost
=============================================================================
