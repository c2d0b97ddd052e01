----------------------------- MODULE CollabRelay -----------------------------
(***************************************************************************)
(* The dashboard's collab relay, for one room id: hosts that come and go,  *)
(* guests that join the room of the host connected at the time, the        *)
(* bounded send queue and the writer of every connection, and the cleanup  *)
(* each handler runs when its connection ends.                             *)
(*                                                                         *)
(* Every host that is accepted makes a room of its own, so a room is named *)
(* by its host.  A handler is split where it takes a lock, sends on        *)
(* another connection's queue, or closes another connection.               *)
(***************************************************************************)
EXTENDS Naturals, Sequences, FiniteSets

CONSTANTS
  Hosts,      \* connections with role=host
  Guests,     \* connections with role=guest
  QueueSize,  \* capacity of a connection's send queue
  MaxFrames,  \* bound: binary frames sent by hosts and guests
  NoHost, NoGuest

ASSUME RelayAssumption ==
  /\ Hosts \cap Guests = {}
  /\ NoHost \notin Hosts /\ NoGuest \notin Guests
  /\ QueueSize \in Nat \ {0}
  /\ MaxFrames \in Nat

Conns == Hosts \cup Guests

VARIABLES
  room,       \* the host whose room is in the relay's map, or NoHost
  phase,      \* where the handler of a connection is
  roomOf,     \* the room a guest found in the map
  members,    \* the guests in a host's room
  toNotify,   \* the guests a host's cleanup has yet to tell and close
  notifying,  \* the guest a host's cleanup has told and not yet closed
  sock,       \* the connection: why and how it ended, if it did
  log,        \* frames put on a connection's queue, in order
  written,    \* how many of them its writer has taken
  shut,       \* connections whose queue has been closed
  blockedOn,  \* connections a handler is closing because their queue was full
  frames      \* binary frames sent so far

mapVars   == <<room, roomOf, members>>
endVars   == <<toNotify, notifying>>
queueVars == <<log, written, shut, blockedOn>>
vars == <<phase, sock, frames, mapVars, endVars, queueVars>>

-----------------------------------------------------------------------------
(* Values *)

HostPhase  == {"new", "refused", "serving", "ending", "notifying", "over", "panicked"}
GuestPhase == {"new", "refused", "found", "joined", "serving", "leaving", "parting",
               "closing", "over", "panicked"}

\* "vanished" is a peer that is gone without a word: reads block, writes are
\* lost, only the keepalive can tell.
SockState == {"none", "open", "vanished", "dropped", "refused", "slow", "closed4001"}
Ended(c) == sock[c] \in {"dropped", "slow", "closed4001"}

Frame == ({"joined", "left"} \X Guests) \cup ({"room-closed"} \X Hosts)
         \cup ({"data"} \X Conns)

\* The handler has not returned: its context, its writer and its keepalive run.
HandlerRuns(c) == phase[c] \notin {"new", "refused", "over", "panicked"}

\* A handler inside enqueue, waiting for a slow connection to be closed.
Busy(c) == blockedOn[c] # {}

\* room.mu of h's room: only the host's own loop holds it while it waits.
LockFree(h) == ~(phase[h] = "serving" /\ Busy(h))

\* Mutant: one frame more than the queue holds.
FullLate(c) == Len(log[c]) - written[c] > QueueSize
Full(c) == Len(log[c]) - written[c] = QueueSize

\* Mutant: the host is looked up by room id, not through the guest's room.
HostByRoomId(g) == IF room = NoHost THEN roomOf[g] ELSE room
HostOf(g) == roomOf[g]

-----------------------------------------------------------------------------
Init ==
  /\ room = NoHost
  /\ phase = [c \in Conns |-> "new"]
  /\ roomOf = [g \in Guests |-> NoHost]
  /\ members = [h \in Hosts |-> {}]
  /\ toNotify = [h \in Hosts |-> {}]
  /\ notifying = [h \in Hosts |-> NoGuest]
  /\ sock = [c \in Conns |-> "none"]
  /\ log = [c \in Conns |-> <<>>]
  /\ written = [c \in Conns |-> 0]
  /\ shut = {}
  /\ blockedOn = [c \in Conns |-> {}]
  /\ frames = 0

Go(c, p) == phase' = [phase EXCEPT ![c] = p]

\* enqueue by c to every connection of T: never blocks on the queue, but a
\* full one loses the frame and c closes its connection before it goes on.
Enqueue(c, T, f) ==
  /\ log' = [t \in Conns |-> IF t \in T /\ ~Full(t) THEN Append(log[t], f) ELSE log[t]]
  /\ blockedOn' = [blockedOn EXCEPT ![c] = {t \in T : Full(t)}]
  /\ UNCHANGED <<written, shut>>

CloseSock(c, how) ==
  sock' = [sock EXCEPT ![c] = IF @ \in {"open", "vanished"} THEN how ELSE @]

\* The close that a full queue makes enqueue wait for.
CloseSlow(c, t) ==
  /\ t \in blockedOn[c]
  /\ CloseSock(t, "slow")
  /\ blockedOn' = [blockedOn EXCEPT ![c] = @ \ {t}]
  /\ UNCHANGED <<phase, frames, mapVars, endVars, log, written, shut>>

\* The writer goroutine; once the connection has ended its write fails.
WriteFrame(c) ==
  /\ HandlerRuns(c)
  /\ sock[c] \in {"open", "vanished"}
  /\ written[c] < Len(log[c])
  /\ written' = [written EXCEPT ![c] = @ + 1]
  /\ UNCHANGED <<phase, sock, frames, mapVars, endVars, log, shut, blockedOn>>

\* Mutant: a failed ping ends the keepalive but not the connection.
KeepAliveSilent(c) ==
  /\ HandlerRuns(c) /\ phase[c] # "found"
  /\ sock[c] = "vanished"
  /\ UNCHANGED vars

\* A ping that fails closes the connection, so the blocked read returns.
KeepAlive(c) ==
  /\ HandlerRuns(c) /\ phase[c] # "found"
  /\ sock[c] = "vanished"
  /\ CloseSock(c, "dropped")
  /\ UNCHANGED <<phase, frames, mapVars, endVars, queueVars>>

\* The peer closes its connection, or is gone without a word.
PeerCloses(c) ==
  /\ sock[c] = "open"
  /\ CloseSock(c, "dropped")
  /\ UNCHANGED <<phase, frames, mapVars, endVars, queueVars>>
PeerVanishes(c) ==
  /\ sock[c] = "open"
  /\ CloseSock(c, "vanished")
  /\ UNCHANGED <<phase, frames, mapVars, endVars, queueVars>>

-----------------------------------------------------------------------------
(* serveHost *)

\* Mutant: the room is made without looking for one.
HostConnectAlways(h) ==
  /\ phase[h] = "new"
  /\ room' = h
  /\ Go(h, "serving")
  /\ sock' = [sock EXCEPT ![h] = "open"]
  /\ UNCHANGED <<frames, roomOf, members, endVars, queueVars>>

HostConnect(h) ==
  /\ phase[h] = "new"
  /\ room = NoHost
  /\ room' = h
  /\ Go(h, "serving")
  /\ sock' = [sock EXCEPT ![h] = "open"]
  /\ UNCHANGED <<frames, roomOf, members, endVars, queueVars>>

HostRefused(h) ==
  /\ phase[h] = "new"
  /\ room # NoHost
  /\ Go(h, "refused")
  /\ sock' = [sock EXCEPT ![h] = "refused"]
  /\ UNCHANGED <<frames, mapVars, endVars, queueVars>>

\* A binary frame, to every guest of the room or to one.
HostFrame(h) ==
  /\ phase[h] = "serving" /\ sock[h] = "open" /\ ~Busy(h)
  /\ frames < MaxFrames
  /\ frames' = frames + 1
  /\ \E T \in {members[h]} \cup {{g} : g \in members[h]} : Enqueue(h, T, <<"data", h>>)
  /\ UNCHANGED <<phase, sock, mapVars, endVars>>

\* The read fails: the room leaves the map ...
HostReadError(h) ==
  /\ phase[h] = "serving" /\ Ended(h) /\ ~Busy(h)
  /\ room' = IF room = h THEN NoHost ELSE room
  /\ Go(h, "ending")
  /\ UNCHANGED <<sock, frames, roomOf, members, endVars, queueVars>>

\* ... its guests are taken out of it ...
HostClear(h) ==
  /\ phase[h] = "ending"
  /\ toNotify' = [toNotify EXCEPT ![h] = members[h]]
  /\ members' = [members EXCEPT ![h] = {}]
  /\ Go(h, "notifying")
  /\ UNCHANGED <<sock, frames, room, roomOf, notifying, queueVars>>

\* ... and each is told ...
HostNotify(h, g) ==
  /\ phase[h] = "notifying" /\ notifying[h] = NoGuest
  /\ g \in toNotify[h] \ shut
  /\ Enqueue(h, {g}, <<"room-closed", h>>)
  /\ notifying' = [notifying EXCEPT ![h] = g]
  /\ UNCHANGED <<phase, sock, frames, mapVars, toNotify>>

\* ... and closed with 4001.
\* Mutant: the guest is told and not closed.
HostCloseGuestSkipped(h) ==
  /\ notifying[h] # NoGuest /\ ~Busy(h)
  /\ toNotify' = [toNotify EXCEPT ![h] = @ \ {notifying[h]}]
  /\ notifying' = [notifying EXCEPT ![h] = NoGuest]
  /\ UNCHANGED <<phase, sock, frames, mapVars, queueVars>>

HostCloseGuest(h) ==
  /\ notifying[h] # NoGuest /\ ~Busy(h)
  /\ CloseSock(notifying[h], "closed4001")
  /\ toNotify' = [toNotify EXCEPT ![h] = @ \ {notifying[h]}]
  /\ notifying' = [notifying EXCEPT ![h] = NoGuest]
  /\ UNCHANGED <<phase, frames, mapVars, queueVars>>

\* A guest that left meanwhile has closed its queue: the send panics and the
\* rest of the cleanup is not run.
HostNotifyPanics(h) ==
  /\ phase[h] = "notifying" /\ notifying[h] = NoGuest
  /\ toNotify[h] \cap shut # {}
  /\ Go(h, "panicked")
  /\ UNCHANGED <<sock, frames, mapVars, endVars, queueVars>>

HostOver(h) ==
  /\ phase[h] = "notifying" /\ toNotify[h] = {}
  /\ shut' = shut \cup {h}
  /\ Go(h, "over")
  /\ UNCHANGED <<sock, frames, mapVars, endVars, log, written, blockedOn>>

-----------------------------------------------------------------------------
(* serveGuest *)

GuestRefused(g) ==
  /\ phase[g] = "new"
  /\ room = NoHost
  /\ Go(g, "refused")
  /\ sock' = [sock EXCEPT ![g] = "refused"]
  /\ UNCHANGED <<frames, mapVars, endVars, queueVars>>

\* The room is found under the relay's lock, and joined later under its own.
GuestFind(g) ==
  /\ phase[g] = "new"
  /\ room # NoHost
  /\ roomOf' = [roomOf EXCEPT ![g] = room]
  /\ Go(g, "found")
  /\ sock' = [sock EXCEPT ![g] = "open"]
  /\ UNCHANGED <<frames, room, members, endVars, queueVars>>

GuestJoin(g) ==
  /\ phase[g] = "found"
  /\ LockFree(roomOf[g])
  /\ members' = [members EXCEPT ![roomOf[g]] = @ \cup {g}]
  /\ Go(g, "joined")
  /\ UNCHANGED <<sock, frames, room, roomOf, endVars, queueVars>>

\* peer-joined, from a handler that has not installed its cleanup yet.
GuestAnnounce(g) ==
  /\ phase[g] = "joined"
  /\ IF HostOf(g) \in shut
     THEN Go(g, "panicked") /\ UNCHANGED queueVars
     ELSE Go(g, "serving") /\ Enqueue(g, {HostOf(g)}, <<"joined", g>>)
  /\ UNCHANGED <<sock, frames, mapVars, endVars>>

\* A binary frame, stamped with the guest's id; a send that panics runs the
\* handler's cleanup with the connection still open.
GuestFrame(g) ==
  /\ phase[g] = "serving" /\ sock[g] = "open" /\ ~Busy(g)
  /\ LockFree(roomOf[g])
  /\ frames < MaxFrames
  /\ frames' = frames + 1
  /\ IF HostOf(g) \in shut
     THEN Go(g, "leaving") /\ UNCHANGED queueVars
     ELSE Enqueue(g, {HostOf(g)}, <<"data", g>>) /\ UNCHANGED phase
  /\ UNCHANGED <<sock, mapVars, endVars>>

GuestReadError(g) ==
  /\ phase[g] = "serving" /\ Ended(g) /\ ~Busy(g)
  /\ Go(g, "leaving")
  /\ UNCHANGED <<sock, frames, mapVars, endVars, queueVars>>

\* Mutants: the guest stays in the room; leaves without a word.
GuestLeaveStays(g) ==
  /\ phase[g] = "leaving"
  /\ LockFree(roomOf[g])
  /\ Go(g, IF g \in members[roomOf[g]] THEN "parting" ELSE "closing")
  /\ UNCHANGED <<sock, frames, mapVars, endVars, queueVars>>
GuestLeaveSilently(g) ==
  /\ phase[g] = "leaving"
  /\ LockFree(roomOf[g])
  /\ members' = [members EXCEPT ![roomOf[g]] = @ \ {g}]
  /\ Go(g, "closing")
  /\ UNCHANGED <<sock, frames, room, roomOf, endVars, queueVars>>

\* Out of the room; peer-left is owed only if the host had not emptied it.
GuestLeave(g) ==
  /\ phase[g] = "leaving"
  /\ LockFree(roomOf[g])
  /\ members' = [members EXCEPT ![roomOf[g]] = @ \ {g}]
  /\ Go(g, IF g \in members[roomOf[g]] THEN "parting" ELSE "closing")
  /\ UNCHANGED <<sock, frames, room, roomOf, endVars, queueVars>>

GuestPart(g) ==
  /\ phase[g] = "parting"
  /\ IF HostOf(g) \in shut
     THEN Go(g, "panicked") /\ UNCHANGED queueVars
     ELSE Go(g, "closing") /\ Enqueue(g, {HostOf(g)}, <<"left", g>>)
  /\ UNCHANGED <<sock, frames, mapVars, endVars>>

GuestClose(g) ==
  /\ phase[g] = "closing" /\ ~Busy(g)
  /\ shut' = shut \cup {g}
  /\ Go(g, "over")
  /\ UNCHANGED <<sock, frames, mapVars, endVars, log, written, blockedOn>>

-----------------------------------------------------------------------------
HostCleanup(h) ==
  \/ HostReadError(h) \/ HostClear(h) \/ \E g \in Guests : HostNotify(h, g)
  \/ HostCloseGuest(h) \/ HostNotifyPanics(h) \/ HostOver(h)
GuestHandler(g) ==
  \/ GuestJoin(g) \/ GuestAnnounce(g) \/ GuestReadError(g) \/ GuestLeave(g)
  \/ GuestPart(g) \/ GuestClose(g)

Next ==
  \/ \E h \in Hosts : HostConnect(h) \/ HostRefused(h) \/ HostFrame(h) \/ HostCleanup(h)
  \/ \E g \in Guests : GuestFind(g) \/ GuestRefused(g) \/ GuestFrame(g) \/ GuestHandler(g)
  \/ \E c \in Conns : WriteFrame(c) \/ KeepAlive(c) \/ PeerCloses(c) \/ PeerVanishes(c)
  \/ \E c, t \in Conns : CloseSlow(c, t)

\* Handlers, writers and keepalives run; peers may do nothing.
Fairness ==
  /\ \A h \in Hosts : WF_vars(HostCleanup(h))
  /\ \A g \in Guests : WF_vars(GuestHandler(g))
  /\ \A c \in Conns : WF_vars(WriteFrame(c)) /\ WF_vars(KeepAlive(c))
  /\ \A c, t \in Conns : WF_vars(CloseSlow(c, t))

Spec == Init /\ [][Next]_vars
FairSpec == Spec /\ Fairness

-----------------------------------------------------------------------------
(* Properties *)

\* Every variable stays in its range; no queue holds more than it can.
TypeOK ==
  /\ room \in Hosts \cup {NoHost}
  /\ phase \in [Conns -> HostPhase \cup GuestPhase]
  /\ roomOf \in [Guests -> Hosts \cup {NoHost}]
  /\ members \in [Hosts -> SUBSET Guests]
  /\ toNotify \in [Hosts -> SUBSET Guests]
  /\ notifying \in [Hosts -> Guests \cup {NoGuest}]
  /\ sock \in [Conns -> SockState]
  /\ log \in [Conns -> Seq(Frame)]
  /\ \A c \in Conns : written[c] \in 0..Len(log[c]) /\ Len(log[c]) - written[c] <= QueueSize
  /\ shut \subseteq Conns
  /\ blockedOn \in [Conns -> SUBSET Conns]
  /\ frames \in 0..MaxFrames

\* A host relays exactly while its room is in the map, so a second host is
\* refused for as long as, and only while, the first one serves.
RoomIsItsHost == \A h \in Hosts : phase[h] = "serving" <=> room = h

\* A host never sends on a closed queue while it relays: a guest is out of the
\* room before its queue is closed.
MembersCanBeSent == \A h \in Hosts : members[h] \cap shut = {}

FrameFrom(c, i) == log[c][i][2]

\* A host that comes back under the same room id and the guests left over from
\* the one before it never see each other's frames.
GenerationsIsolated ==
  /\ \A g \in Guests : \A i \in 1..Len(log[g]) : FrameFrom(g, i) = roomOf[g]
  /\ \A h \in Hosts : \A i \in 1..Len(log[h]) : roomOf[FrameFrom(h, i)] = h

Said(h, t, g) == {i \in 1..Len(log[h]) : log[h][i] = <<t, g>>}

\* What a connected host has been sent says who is in its room, unless it was
\* too slow to be told everything, which costs it its connection.
KeptUp(h) == phase[h] = "serving" /\ sock[h] = "open" /\ \A c \in Conns : h \notin blockedOn[c]
RosterAgrees ==
  \A h \in Hosts : KeptUp(h) =>
    \A g \in Guests : roomOf[g] = h =>
      /\ phase[g] \in {"serving", "leaving", "parting"}
           => Cardinality(Said(h, "joined", g)) = 1 /\ Said(h, "left", g) = {}
      /\ phase[g] \in {"closing", "over"} => Cardinality(Said(h, "left", g)) = 1
      /\ \A i \in Said(h, "data", g) :
           /\ \A j \in Said(h, "joined", g) : j < i
           /\ \A j \in Said(h, "left", g) : i < j

\* Once a host's cleanup has run to its end, the guests that were in its room
\* are closed: one still connected has come in after them.
CleanupClosesMembers ==
  \A h \in Hosts : phase[h] = "over" =>
    \A g \in Guests : roomOf[g] = h /\ phase[g] = "serving" /\ ~Ended(g) => g \in members[h]

\* A host that is gone, politely or not, frees its room id for the next one.
GoneHostFreesRoom ==
  \A h \in Hosts : room = h /\ sock[h] # "open" ~> room # h

\* relay.go: when the host disconnects its guests are closed: none is left in
\* the room of a host whose cleanup is over.
NoGuestInDeadRoom == \A h \in Hosts : phase[h] = "over" => members[h] = {}
=============================================================================
