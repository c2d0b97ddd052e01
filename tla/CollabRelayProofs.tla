-------------------------- MODULE CollabRelayProofs --------------------------
(***************************************************************************)
(* Every invariant the Relay run checks, for any number of hosts, guests   *)
(* and frames and for any size of the send queue.                          *)
(*                                                                         *)
(* The inductive invariant adds, part by part, what a handler knows at     *)
(* each of its steps: where a connection may be (Handlers), whose guest    *)
(* may be in which set (Rooms), what a closed queue means (QueuesShut),    *)
(* who may be waiting for whom (Blocking), what a cleanup still owes       *)
(* (Cleanup) and what the host has been told of each guest (Roster).       *)
(***************************************************************************)
EXTENDS CollabRelay, FiniteSetTheorems, TLAPS

Unplaced == {"new", "refused"}

\* A connection's phase is one of its kind's; a guest has a room exactly when
\* it found one; a handler that got past the upgrade has a socket.
Handlers ==
  /\ \A h \in Hosts : phase[h] \in HostPhase
  /\ \A g \in Guests : phase[g] \in GuestPhase
  /\ \A g \in Guests : roomOf[g] = NoHost <=> phase[g] \in Unplaced
  /\ \A c \in Conns : phase[c] \notin Unplaced => sock[c] \notin {"none", "refused"}

\* A guest is only in the sets of the room it found, the room of a host that
\* was accepted; it is in the set of members from its join to its leaving, or
\* for good when its announcement panicked.
Rooms ==
  /\ \A g \in Guests : \A h \in Hosts : roomOf[g] = h => phase[h] \notin Unplaced
  /\ \A h \in Hosts : \A g \in members[h] :
       roomOf[g] = h /\ phase[g] \in {"joined", "serving", "leaving", "panicked"}
  /\ \A h \in Hosts : \A g \in toNotify[h] : roomOf[g] = h
  /\ \A h \in Hosts : \A g \in Guests :
       phase[h] = "serving" /\ roomOf[g] = h /\ phase[g] \in {"joined", "serving", "leaving"}
         => g \in members[h]

\* Only a handler that has returned has closed its queue.
QueuesShut == \A c \in shut : phase[c] = "over"

\* Hosts wait for guests and guests for their own host; a guest that waits has
\* sent from its read loop or said its last word.
Blocking ==
  /\ \A h \in Hosts : blockedOn[h] \subseteq Guests
  /\ \A g \in Guests : blockedOn[g] \subseteq {roomOf[g]}
  /\ \A g \in Guests : Busy(g) => phase[g] \in {"serving", "closing"}

\* The cleanup of a host closes every guest it took out of the room.
Cleanup ==
  /\ \A h \in Hosts : notifying[h] # NoGuest =>
       phase[h] = "notifying" /\ notifying[h] \in toNotify[h]
  /\ \A h \in Hosts : toNotify[h] # {} => phase[h] \in {"notifying", "panicked"}
  /\ \A g \in Guests : phase[g] \in {"joined", "serving"} =>
       g \in members[roomOf[g]] \/ g \in toNotify[roomOf[g]] \/ Ended(g)

\* Guests hear from hosts and hosts from guests.
Senders ==
  /\ \A g \in Guests : \A i \in 1..Len(log[g]) : FrameFrom(g, i) \in Hosts
  /\ \A h \in Hosts : \A i \in 1..Len(log[h]) : FrameFrom(h, i) \in Guests

\* What a host that kept up has been told of guest g, by where g is.
ToldOf(h, g) ==
  /\ phase[g] \in {"found", "joined"} =>
       Said(h, "joined", g) = {} /\ Said(h, "data", g) = {} /\ Said(h, "left", g) = {}
  /\ phase[g] \in {"serving", "leaving", "parting"} =>
       (\E i \in Nat : Said(h, "joined", g) = {i}) /\ Said(h, "left", g) = {}
  /\ phase[g] \in {"closing", "over"} => \E i \in Nat : Said(h, "left", g) = {i}
  /\ \A i \in Said(h, "data", g) :
       /\ \A j \in Said(h, "joined", g) : j < i
       /\ \A j \in Said(h, "left", g) : i < j

Roster == \A h \in Hosts : KeptUp(h) => \A g \in Guests : roomOf[g] = h => ToldOf(h, g)

IInv ==
  /\ TypeOK
  /\ Handlers
  /\ RoomIsItsHost
  /\ Rooms
  /\ QueuesShut
  /\ Blocking
  /\ Cleanup
  /\ Senders
  /\ GenerationsIsolated
  /\ Roster

-----------------------------------------------------------------------------
(* Operators *)

\* enqueue adds its frame at the end of the queues that have room and changes
\* no other; the ones it waits for are the full ones, and no queue overflows.
LEMMA EnqueueEffect ==
  ASSUME TypeOK, NEW c \in Conns, NEW T \in SUBSET Conns, NEW f \in Frame, Enqueue(c, T, f)
  PROVE  /\ log' \in [Conns -> Seq(Frame)]
         /\ \A t \in Conns : \/ log'[t] = log[t]
                             \/ t \in T /\ ~Full(t) /\ log'[t] = Append(log[t], f)
         /\ \A t \in Conns : t \in T /\ ~Full(t) => log'[t] = Append(log[t], f)
         /\ blockedOn' \in [Conns -> SUBSET Conns]
         /\ blockedOn'[c] = {t \in T : Full(t)}
         /\ \A d \in Conns : d # c => blockedOn'[d] = blockedOn[d]
         /\ written' = written /\ shut' = shut
         /\ \A t \in Conns :
              written'[t] \in 0..Len(log'[t]) /\ Len(log'[t]) - written'[t] <= QueueSize
<1>1. log' \in [Conns -> Seq(Frame)]
  BY SMT DEF TypeOK, Enqueue
<1>2. ASSUME NEW t \in Conns
      PROVE  /\ \/ log'[t] = log[t]
                \/ t \in T /\ ~Full(t) /\ log'[t] = Append(log[t], f)
             /\ t \in T /\ ~Full(t) => log'[t] = Append(log[t], f)
  BY <1>2, SMT DEF TypeOK, Enqueue
<1>3. /\ blockedOn' \in [Conns -> SUBSET Conns]
      /\ blockedOn'[c] = {t \in T : Full(t)}
      /\ \A d \in Conns : d # c => blockedOn'[d] = blockedOn[d]
      /\ written' = written /\ shut' = shut
  BY SMT DEF TypeOK, Enqueue
<1>4. ASSUME NEW t \in Conns
      PROVE  written'[t] \in 0..Len(log'[t]) /\ Len(log'[t]) - written'[t] <= QueueSize
  <2>1. /\ log[t] \in Seq(Frame) /\ written[t] \in 0..Len(log[t])
        /\ Len(log[t]) - written[t] <= QueueSize /\ written'[t] = written[t]
    BY <1>3, <1>4 DEF TypeOK
  <2>2. CASE log'[t] = log[t]
    BY <2>1, <2>2
  <2>3. CASE ~Full(t) /\ log'[t] = Append(log[t], f)
    <3>1. Len(log'[t]) = Len(log[t]) + 1 /\ Len(log[t]) \in Nat
      BY <2>1, <2>3
    <3>2. Len(log[t]) - written[t] # QueueSize
      BY <2>3 DEF Full
    <3> QED BY <2>1, <3>1, <3>2, RelayAssumption, SMT
  <2> QED BY <1>2, <1>4, <2>2, <2>3
<1> QED BY <1>1, <1>2, <1>3, <1>4

\* What a send on h's queue adds to what h was told.
LEMMA SaidAppend ==
  ASSUME NEW h \in Hosts, log[h] \in Seq(Frame), NEW k, NEW c, NEW t, NEW g,
         <<k, c>> \in Frame, log'[h] = Append(log[h], <<k, c>>)
  PROVE  /\ Len(log[h]) + 1 \in Nat
         /\ Said(h, t, g)' = Said(h, t, g) \cup (IF t = k /\ g = c THEN {Len(log[h]) + 1} ELSE {})
         /\ \A i \in Said(h, t, g) : i < Len(log[h]) + 1
<1>1. Len(log[h]) \in Nat /\ Len(log'[h]) = Len(log[h]) + 1
  BY DEF Frame
<1>2. \A i \in 1..Len(log[h]) : log'[h][i] = log[h][i]
  BY DEF Frame
<1>3. log'[h][Len(log[h]) + 1] = <<k, c>>
  BY DEF Frame
<1>4. \A i : i \in 1..Len(log'[h]) <=> i \in 1..Len(log[h]) \/ i = Len(log[h]) + 1
  BY <1>1
<1>5. \A i : i \in Said(h, t, g)' <=>
             i \in Said(h, t, g) \/ (t = k /\ g = c /\ i = Len(log[h]) + 1)
  BY <1>1, <1>2, <1>3, <1>4 DEF Said
<1>6. \A i \in Said(h, t, g) : i < Len(log[h]) + 1
  BY <1>1 DEF Said
<1> QED BY <1>1, <1>5, <1>6

\* A frame of another kind, or about another guest, adds nothing to what was said.
LEMMA SaidAppendOther ==
  ASSUME NEW h \in Hosts, log[h] \in Seq(Frame), NEW k, NEW c, NEW t, NEW g,
         <<k, c>> \in Frame, log'[h] = Append(log[h], <<k, c>>), t # k \/ g # c
  PROVE  Said(h, t, g)' = Said(h, t, g)
<1>1. Said(h, t, g)' = Said(h, t, g) \cup (IF t = k /\ g = c THEN {Len(log[h]) + 1} ELSE {})
  BY SaidAppend
<1> QED BY <1>1

\* What was said is a matter of the log alone.
LEMMA SaidSame ==
  ASSUME NEW h \in Hosts, log'[h] = log[h], NEW t, NEW g
  PROVE  Said(h, t, g)' = Said(h, t, g)
BY DEF Said

\* A send leaves the queues within their types and bounds.
QueuesTyped ==
  /\ log \in [Conns -> Seq(Frame)]
  /\ \A c \in Conns : written[c] \in 0..Len(log[c]) /\ Len(log[c]) - written[c] <= QueueSize
  /\ shut \subseteq Conns
  /\ blockedOn \in [Conns -> SUBSET Conns]

\* enqueue keeps the queues in their ranges: it appends only where there is room.
LEMMA EnqueueTyped ==
  ASSUME TypeOK, NEW c \in Conns, NEW T \in SUBSET Conns, NEW f \in Frame, Enqueue(c, T, f)
  PROVE  QueuesTyped'
<1>1. shut \subseteq Conns
  BY DEF TypeOK
<1> QED BY <1>1, EnqueueEffect DEF QueuesTyped

\* A guest past the upgrade is in the room of a host.
LEMMA RoomFound ==
  ASSUME TypeOK, Handlers, NEW g \in Guests, phase[g] \notin Unplaced
  PROVE  roomOf[g] \in Hosts
BY DEF TypeOK, Handlers

\* Every step keeps every variable in its range.
LEMMA TypeOKStep ==
  ASSUME TypeOK, Handlers, [Next]_vars
  PROVE  TypeOK'
<1> USE RelayAssumption DEF mapVars, endVars, queueVars, Conns
<1>1. ASSUME NEW h \in Hosts, HostConnect(h) PROVE TypeOK'
  BY <1>1, SMT DEF TypeOK, HostConnect, Go, SockState, HostPhase
<1>2. ASSUME NEW h \in Hosts, HostRefused(h) PROVE TypeOK'
  BY <1>2, SMT DEF TypeOK, HostRefused, Go, SockState, HostPhase
<1>3. ASSUME NEW h \in Hosts, HostFrame(h) PROVE TypeOK'
  <2>1. PICK T \in {members[h]} \cup {{g} : g \in members[h]} : Enqueue(h, T, <<"data", h>>)
    BY <1>3 DEF HostFrame
  <2>2. T \in SUBSET Conns /\ <<"data", h>> \in Frame
    BY DEF TypeOK, Frame
  <2>3. QueuesTyped'
    BY <2>1, <2>2, EnqueueTyped
  <2> QED BY <1>3, <2>3, SMT DEF TypeOK, QueuesTyped, HostFrame
<1>4. ASSUME NEW h \in Hosts, HostReadError(h) PROVE TypeOK'
  BY <1>4, SMT DEF TypeOK, HostReadError, Go, HostPhase
<1>5. ASSUME NEW h \in Hosts, HostClear(h) PROVE TypeOK'
  BY <1>5, SMT DEF TypeOK, HostClear, Go, HostPhase
<1>6. ASSUME NEW h \in Hosts, NEW g \in Guests, HostNotify(h, g) PROVE TypeOK'
  <2>1. {g} \in SUBSET Conns /\ <<"room-closed", h>> \in Frame
    BY DEF Frame
  <2>2. QueuesTyped'
    BY <1>6, <2>1, EnqueueTyped DEF HostNotify
  <2>3. notifying' \in [Hosts -> Guests \cup {NoGuest}]
    BY <1>6, SMT DEF TypeOK, HostNotify
  <2>4. UNCHANGED <<phase, sock, frames, mapVars, toNotify>>
    BY <1>6 DEF HostNotify
  <2> QED BY <2>2, <2>3, <2>4, SMT DEF TypeOK, QueuesTyped
<1>7. ASSUME NEW h \in Hosts, HostCloseGuest(h) PROVE TypeOK'
  BY <1>7, SMT DEF TypeOK, HostCloseGuest, CloseSock, SockState
<1>8. ASSUME NEW h \in Hosts, HostNotifyPanics(h) PROVE TypeOK'
  BY <1>8, SMT DEF TypeOK, HostNotifyPanics, Go, HostPhase
<1>9. ASSUME NEW h \in Hosts, HostOver(h) PROVE TypeOK'
  BY <1>9, SMT DEF TypeOK, HostOver, Go, HostPhase
<1>10. ASSUME NEW g \in Guests, GuestFind(g) PROVE TypeOK'
  BY <1>10, SMT DEF TypeOK, GuestFind, Go, SockState, GuestPhase
<1>11. ASSUME NEW g \in Guests, GuestRefused(g) PROVE TypeOK'
  BY <1>11, SMT DEF TypeOK, GuestRefused, Go, SockState, GuestPhase
<1>12. ASSUME NEW g \in Guests, GuestFrame(g) PROVE TypeOK'
  <2>1. roomOf[g] \in Hosts
    BY <1>12, RoomFound DEF GuestFrame, Unplaced
  <2>2. {roomOf[g]} \in SUBSET Conns /\ <<"data", g>> \in Frame
    BY <2>1 DEF Frame
  <2>3. /\ UNCHANGED <<sock, mapVars, endVars>>
        /\ frames < MaxFrames /\ frames' = frames + 1
        /\ \/ Go(g, "leaving") /\ UNCHANGED queueVars
           \/ UNCHANGED phase /\ Enqueue(g, {roomOf[g]}, <<"data", g>>)
    BY <1>12 DEF GuestFrame, HostOf
  <2>4. QueuesTyped'
    BY <2>2, <2>3, EnqueueTyped DEF TypeOK, QueuesTyped
  <2>5. phase' \in [Conns -> HostPhase \cup GuestPhase]
    BY <2>3 DEF TypeOK, Go, GuestPhase
  <2> QED BY <2>3, <2>4, <2>5, SMT DEF TypeOK, QueuesTyped
<1>13. ASSUME NEW g \in Guests, GuestJoin(g) PROVE TypeOK'
  <2>1. roomOf[g] \in Hosts
    BY <1>13, RoomFound DEF GuestJoin, Unplaced
  <2> QED BY <1>13, <2>1, SMT DEF TypeOK, GuestJoin, Go, GuestPhase
<1>14. ASSUME NEW g \in Guests, GuestAnnounce(g) PROVE TypeOK'
  <2>1. roomOf[g] \in Hosts
    BY <1>14, RoomFound DEF GuestAnnounce, Unplaced
  <2>2. {roomOf[g]} \in SUBSET Conns /\ <<"joined", g>> \in Frame
    BY <2>1 DEF Frame
  <2>3. /\ UNCHANGED <<sock, frames, mapVars, endVars>>
        /\ \/ Go(g, "panicked") /\ UNCHANGED queueVars
           \/ Go(g, "serving") /\ Enqueue(g, {roomOf[g]}, <<"joined", g>>)
    BY <1>14 DEF GuestAnnounce, HostOf
  <2>4. QueuesTyped'
    BY <2>2, <2>3, EnqueueTyped DEF TypeOK, QueuesTyped
  <2>5. phase' \in [Conns -> HostPhase \cup GuestPhase]
    BY <2>3 DEF TypeOK, Go, GuestPhase
  <2> QED BY <2>3, <2>4, <2>5, SMT DEF TypeOK, QueuesTyped
<1>15. ASSUME NEW g \in Guests, GuestReadError(g) PROVE TypeOK'
  BY <1>15, SMT DEF TypeOK, GuestReadError, Go, GuestPhase
<1>16. ASSUME NEW g \in Guests, GuestLeave(g) PROVE TypeOK'
  <2>1. roomOf[g] \in Hosts
    BY <1>16, RoomFound DEF GuestLeave, Unplaced
  <2> QED BY <1>16, <2>1, SMT DEF TypeOK, GuestLeave, Go, GuestPhase
<1>17. ASSUME NEW g \in Guests, GuestPart(g) PROVE TypeOK'
  <2>1. roomOf[g] \in Hosts
    BY <1>17, RoomFound DEF GuestPart, Unplaced
  <2>2. {roomOf[g]} \in SUBSET Conns /\ <<"left", g>> \in Frame
    BY <2>1 DEF Frame
  <2>3. /\ UNCHANGED <<sock, frames, mapVars, endVars>>
        /\ \/ Go(g, "panicked") /\ UNCHANGED queueVars
           \/ Go(g, "closing") /\ Enqueue(g, {roomOf[g]}, <<"left", g>>)
    BY <1>17 DEF GuestPart, HostOf
  <2>4. QueuesTyped'
    BY <2>2, <2>3, EnqueueTyped DEF TypeOK, QueuesTyped
  <2>5. phase' \in [Conns -> HostPhase \cup GuestPhase]
    BY <2>3 DEF TypeOK, Go, GuestPhase
  <2> QED BY <2>3, <2>4, <2>5, SMT DEF TypeOK, QueuesTyped
<1>18. ASSUME NEW g \in Guests, GuestClose(g) PROVE TypeOK'
  BY <1>18, SMT DEF TypeOK, GuestClose, Go, GuestPhase
<1>19. ASSUME NEW c \in Conns, WriteFrame(c) PROVE TypeOK'
  BY <1>19, SMT DEF TypeOK, WriteFrame
<1>20. ASSUME NEW c \in Conns, KeepAlive(c) PROVE TypeOK'
  BY <1>20, SMT DEF TypeOK, KeepAlive, CloseSock, SockState
<1>21. ASSUME NEW c \in Conns, PeerCloses(c) PROVE TypeOK'
  BY <1>21, SMT DEF TypeOK, PeerCloses, CloseSock, SockState
<1>22. ASSUME NEW c \in Conns, PeerVanishes(c) PROVE TypeOK'
  BY <1>22, SMT DEF TypeOK, PeerVanishes, CloseSock, SockState
<1>23. ASSUME NEW c \in Conns, NEW t \in Conns, CloseSlow(c, t) PROVE TypeOK'
  BY <1>23, SMT DEF TypeOK, CloseSlow, CloseSock, SockState
<1>24. CASE UNCHANGED vars
  BY <1>24 DEF TypeOK, vars
<1> QED
  BY <1>1, <1>2, <1>3, <1>4, <1>5, <1>6, <1>7, <1>8, <1>9, <1>10, <1>11, <1>12, <1>13, <1>14,
      <1>15, <1>16, <1>17, <1>18, <1>19, <1>20, <1>21, <1>22, <1>23, <1>24
  DEF Next, HostCleanup, GuestHandler

\* What a send changes besides the queues.
LEMMA HostFrameRest ==
  ASSUME NEW h \in Hosts, HostFrame(h)
  PROVE  /\ phase[h] = "serving" /\ sock[h] = "open" /\ ~Busy(h)
         /\ UNCHANGED <<phase, sock, room, roomOf, members, toNotify, notifying>>
BY DEF HostFrame, mapVars, endVars

\* What telling a guest of the end leaves alone, its queue apart.
LEMMA HostNotifyRest ==
  ASSUME NEW h \in Hosts, NEW g \in Guests, HostNotify(h, g)
  PROVE  /\ phase[h] = "notifying" /\ notifying[h] = NoGuest /\ g \in toNotify[h] \ shut
         /\ notifying' = [notifying EXCEPT ![h] = g]
         /\ UNCHANGED <<phase, sock, room, roomOf, members, toNotify>>
BY DEF HostNotify, mapVars

\* What a guest's frame leaves alone, the queue of its host apart.
LEMMA GuestFrameRest ==
  ASSUME TypeOK, NEW g \in Guests, GuestFrame(g)
  PROVE  /\ phase[g] = "serving" /\ sock[g] = "open" /\ ~Busy(g)
         /\ \E p \in {"serving", "leaving"} : phase' = [phase EXCEPT ![g] = p]
         /\ UNCHANGED <<sock, room, roomOf, members, toNotify, notifying>>
<1>1. phase = [phase EXCEPT ![g] = phase[g]]
  BY DEF TypeOK, Conns
<1> QED BY <1>1 DEF GuestFrame, HostOf, Go, mapVars, endVars

\* What announcing a guest leaves alone, the queue of its host apart.
LEMMA GuestAnnounceRest ==
  ASSUME NEW g \in Guests, GuestAnnounce(g)
  PROVE  /\ phase[g] = "joined"
         /\ \E p \in {"serving", "panicked"} : phase' = [phase EXCEPT ![g] = p]
         /\ UNCHANGED <<sock, room, roomOf, members, toNotify, notifying>>
BY DEF GuestAnnounce, HostOf, Go, mapVars, endVars

\* What parting leaves alone, the queue of its host apart.
LEMMA GuestPartRest ==
  ASSUME NEW g \in Guests, GuestPart(g)
  PROVE  /\ phase[g] = "parting"
         /\ \E p \in {"closing", "panicked"} : phase' = [phase EXCEPT ![g] = p]
         /\ UNCHANGED <<sock, room, roomOf, members, toNotify, notifying>>
BY DEF GuestPart, HostOf, Go, mapVars, endVars

\* Every step keeps Handlers.
LEMMA HandlersStep ==
  ASSUME TypeOK, Handlers, [Next]_vars
  PROVE  Handlers'
<1> USE RelayAssumption DEF mapVars, endVars, queueVars, Conns
<1>1. ASSUME NEW h \in Hosts, HostConnect(h) PROVE Handlers'
  BY <1>1, SMT DEF TypeOK, Handlers, HostPhase, GuestPhase, Unplaced, HostConnect, Go
<1>2. ASSUME NEW h \in Hosts, HostRefused(h) PROVE Handlers'
  BY <1>2, SMT DEF TypeOK, Handlers, HostPhase, GuestPhase, Unplaced, HostRefused, Go
<1>3. ASSUME NEW h \in Hosts, HostFrame(h) PROVE Handlers'
  BY <1>3, HostFrameRest, SMT DEF TypeOK, Handlers, HostPhase, GuestPhase, Unplaced
<1>4. ASSUME NEW h \in Hosts, HostReadError(h) PROVE Handlers'
  BY <1>4, SMT DEF TypeOK, Handlers, HostPhase, GuestPhase, Unplaced, HostReadError, Go
<1>5. ASSUME NEW h \in Hosts, HostClear(h) PROVE Handlers'
  BY <1>5, SMT DEF TypeOK, Handlers, HostPhase, GuestPhase, Unplaced, HostClear, Go
<1>6. ASSUME NEW h \in Hosts, NEW g \in Guests, HostNotify(h, g) PROVE Handlers'
  <2>1. /\ phase[h] = "notifying" /\ notifying[h] = NoGuest /\ g \in toNotify[h] \ shut
        /\ notifying' = [notifying EXCEPT ![h] = g]
        /\ UNCHANGED <<phase, sock, room, roomOf, members, toNotify>>
    BY <1>6, HostNotifyRest
  <2> QED BY <2>1, SMT DEF TypeOK, Handlers, HostPhase, GuestPhase, Unplaced
<1>7. ASSUME NEW h \in Hosts, HostCloseGuest(h) PROVE Handlers'
  BY <1>7, SMT DEF TypeOK, Handlers, HostPhase, GuestPhase, Unplaced, HostCloseGuest, CloseSock
<1>8. ASSUME NEW h \in Hosts, HostNotifyPanics(h) PROVE Handlers'
  BY <1>8, SMT DEF TypeOK, Handlers, HostPhase, GuestPhase, Unplaced, HostNotifyPanics, Go
<1>9. ASSUME NEW h \in Hosts, HostOver(h) PROVE Handlers'
  BY <1>9, SMT DEF TypeOK, Handlers, HostPhase, GuestPhase, Unplaced, HostOver, Go
<1>10. ASSUME NEW g \in Guests, GuestFind(g) PROVE Handlers'
  BY <1>10, SMT DEF TypeOK, Handlers, HostPhase, GuestPhase, Unplaced, GuestFind, Go
<1>11. ASSUME NEW g \in Guests, GuestRefused(g) PROVE Handlers'
  BY <1>11, SMT DEF TypeOK, Handlers, HostPhase, GuestPhase, Unplaced, GuestRefused, Go
<1>12. ASSUME NEW g \in Guests, GuestFrame(g) PROVE Handlers'
  <2>1. /\ phase[g] = "serving" /\ sock[g] = "open" /\ ~Busy(g)
        /\ UNCHANGED <<sock, room, roomOf, members, toNotify, notifying>>
    BY <1>12, GuestFrameRest
  <2>2. PICK p \in {"serving", "leaving"} : phase' = [phase EXCEPT ![g] = p]
    BY <1>12, GuestFrameRest
  <2> QED BY <2>1, <2>2, SMT DEF TypeOK, Handlers, HostPhase, GuestPhase, Unplaced
<1>13. ASSUME NEW g \in Guests, GuestJoin(g) PROVE Handlers'
  BY <1>13, SMT DEF TypeOK, Handlers, HostPhase, GuestPhase, Unplaced, GuestJoin, Go
<1>14. ASSUME NEW g \in Guests, GuestAnnounce(g) PROVE Handlers'
  <2>1. /\ phase[g] = "joined"
        /\ UNCHANGED <<sock, room, roomOf, members, toNotify, notifying>>
    BY <1>14, GuestAnnounceRest
  <2>2. PICK p \in {"serving", "panicked"} : phase' = [phase EXCEPT ![g] = p]
    BY <1>14, GuestAnnounceRest
  <2> QED BY <2>1, <2>2, SMT DEF TypeOK, Handlers, HostPhase, GuestPhase, Unplaced
<1>15. ASSUME NEW g \in Guests, GuestReadError(g) PROVE Handlers'
  BY <1>15, SMT DEF TypeOK, Handlers, HostPhase, GuestPhase, Unplaced, GuestReadError, Go
<1>16. ASSUME NEW g \in Guests, GuestLeave(g) PROVE Handlers'
  BY <1>16, SMT DEF TypeOK, Handlers, HostPhase, GuestPhase, Unplaced, GuestLeave, Go
<1>17. ASSUME NEW g \in Guests, GuestPart(g) PROVE Handlers'
  <2>1. /\ phase[g] = "parting"
        /\ UNCHANGED <<sock, room, roomOf, members, toNotify, notifying>>
    BY <1>17, GuestPartRest
  <2>2. PICK p \in {"closing", "panicked"} : phase' = [phase EXCEPT ![g] = p]
    BY <1>17, GuestPartRest
  <2> QED BY <2>1, <2>2, SMT DEF TypeOK, Handlers, HostPhase, GuestPhase, Unplaced
<1>18. ASSUME NEW g \in Guests, GuestClose(g) PROVE Handlers'
  BY <1>18, SMT DEF TypeOK, Handlers, HostPhase, GuestPhase, Unplaced, GuestClose, Go
<1>19. ASSUME NEW c \in Conns, WriteFrame(c) PROVE Handlers'
  BY <1>19, SMT DEF TypeOK, Handlers, HostPhase, GuestPhase, Unplaced, WriteFrame
<1>20. ASSUME NEW c \in Conns, KeepAlive(c) PROVE Handlers'
  BY <1>20, SMT DEF TypeOK, Handlers, HostPhase, GuestPhase, Unplaced, KeepAlive, CloseSock
<1>21. ASSUME NEW c \in Conns, PeerCloses(c) PROVE Handlers'
  BY <1>21, SMT DEF TypeOK, Handlers, HostPhase, GuestPhase, Unplaced, PeerCloses, CloseSock
<1>22. ASSUME NEW c \in Conns, PeerVanishes(c) PROVE Handlers'
  BY <1>22, SMT DEF TypeOK, Handlers, HostPhase, GuestPhase, Unplaced, PeerVanishes, CloseSock
<1>23. ASSUME NEW c \in Conns, NEW t \in Conns, CloseSlow(c, t) PROVE Handlers'
  BY <1>23, SMT DEF TypeOK, Handlers, HostPhase, GuestPhase, Unplaced, CloseSlow, CloseSock
<1>24. CASE UNCHANGED vars
  BY <1>24 DEF Handlers, vars, mapVars
<1> QED
  BY <1>1, <1>2, <1>3, <1>4, <1>5, <1>6, <1>7, <1>8, <1>9, <1>10, <1>11, <1>12, <1>13, <1>14,
      <1>15, <1>16, <1>17, <1>18, <1>19, <1>20, <1>21, <1>22, <1>23, <1>24
  DEF Next, HostCleanup, GuestHandler

\* Every step keeps RoomIsItsHost: a host enters the map and its loop in one
\* locked step, and leaves both in another.
LEMMA RoomIsItsHostStep ==
  ASSUME TypeOK, RoomIsItsHost, [Next]_vars
  PROVE  RoomIsItsHost'
<1> USE RelayAssumption DEF mapVars, endVars, queueVars, Conns
<1>1. ASSUME NEW h \in Hosts, HostConnect(h) PROVE RoomIsItsHost'
  BY <1>1, SMT DEF TypeOK, RoomIsItsHost, HostPhase, HostConnect, Go
<1>2. ASSUME NEW h \in Hosts, HostRefused(h) PROVE RoomIsItsHost'
  BY <1>2, SMT DEF TypeOK, RoomIsItsHost, HostPhase, HostRefused, Go
<1>3. ASSUME NEW h \in Hosts, HostFrame(h) PROVE RoomIsItsHost'
  BY <1>3, HostFrameRest, SMT DEF TypeOK, RoomIsItsHost, HostPhase
<1>4. ASSUME NEW h \in Hosts, HostReadError(h) PROVE RoomIsItsHost'
  BY <1>4, SMT DEF TypeOK, RoomIsItsHost, HostPhase, HostReadError, Go
<1>5. ASSUME NEW h \in Hosts, HostClear(h) PROVE RoomIsItsHost'
  BY <1>5, SMT DEF TypeOK, RoomIsItsHost, HostPhase, HostClear, Go
<1>6. ASSUME NEW h \in Hosts, NEW g \in Guests, HostNotify(h, g) PROVE RoomIsItsHost'
  <2>1. /\ phase[h] = "notifying" /\ notifying[h] = NoGuest /\ g \in toNotify[h] \ shut
        /\ notifying' = [notifying EXCEPT ![h] = g]
        /\ UNCHANGED <<phase, sock, room, roomOf, members, toNotify>>
    BY <1>6, HostNotifyRest
  <2> QED BY <2>1, SMT DEF TypeOK, RoomIsItsHost, HostPhase
<1>7. ASSUME NEW h \in Hosts, HostCloseGuest(h) PROVE RoomIsItsHost'
  BY <1>7, SMT DEF TypeOK, RoomIsItsHost, HostPhase, HostCloseGuest, CloseSock
<1>8. ASSUME NEW h \in Hosts, HostNotifyPanics(h) PROVE RoomIsItsHost'
  BY <1>8, SMT DEF TypeOK, RoomIsItsHost, HostPhase, HostNotifyPanics, Go
<1>9. ASSUME NEW h \in Hosts, HostOver(h) PROVE RoomIsItsHost'
  BY <1>9, SMT DEF TypeOK, RoomIsItsHost, HostPhase, HostOver, Go
<1>10. ASSUME NEW g \in Guests, GuestFind(g) PROVE RoomIsItsHost'
  BY <1>10, SMT DEF TypeOK, RoomIsItsHost, HostPhase, GuestFind, Go
<1>11. ASSUME NEW g \in Guests, GuestRefused(g) PROVE RoomIsItsHost'
  BY <1>11, SMT DEF TypeOK, RoomIsItsHost, HostPhase, GuestRefused, Go
<1>12. ASSUME NEW g \in Guests, GuestFrame(g) PROVE RoomIsItsHost'
  <2>1. /\ phase[g] = "serving" /\ sock[g] = "open" /\ ~Busy(g)
        /\ UNCHANGED <<sock, room, roomOf, members, toNotify, notifying>>
    BY <1>12, GuestFrameRest
  <2>2. PICK p \in {"serving", "leaving"} : phase' = [phase EXCEPT ![g] = p]
    BY <1>12, GuestFrameRest
  <2> QED BY <2>1, <2>2, SMT DEF TypeOK, RoomIsItsHost, HostPhase
<1>13. ASSUME NEW g \in Guests, GuestJoin(g) PROVE RoomIsItsHost'
  BY <1>13, SMT DEF TypeOK, RoomIsItsHost, HostPhase, GuestJoin, Go
<1>14. ASSUME NEW g \in Guests, GuestAnnounce(g) PROVE RoomIsItsHost'
  <2>1. /\ phase[g] = "joined"
        /\ UNCHANGED <<sock, room, roomOf, members, toNotify, notifying>>
    BY <1>14, GuestAnnounceRest
  <2>2. PICK p \in {"serving", "panicked"} : phase' = [phase EXCEPT ![g] = p]
    BY <1>14, GuestAnnounceRest
  <2> QED BY <2>1, <2>2, SMT DEF TypeOK, RoomIsItsHost, HostPhase
<1>15. ASSUME NEW g \in Guests, GuestReadError(g) PROVE RoomIsItsHost'
  BY <1>15, SMT DEF TypeOK, RoomIsItsHost, HostPhase, GuestReadError, Go
<1>16. ASSUME NEW g \in Guests, GuestLeave(g) PROVE RoomIsItsHost'
  BY <1>16, SMT DEF TypeOK, RoomIsItsHost, HostPhase, GuestLeave, Go
<1>17. ASSUME NEW g \in Guests, GuestPart(g) PROVE RoomIsItsHost'
  <2>1. /\ phase[g] = "parting"
        /\ UNCHANGED <<sock, room, roomOf, members, toNotify, notifying>>
    BY <1>17, GuestPartRest
  <2>2. PICK p \in {"closing", "panicked"} : phase' = [phase EXCEPT ![g] = p]
    BY <1>17, GuestPartRest
  <2> QED BY <2>1, <2>2, SMT DEF TypeOK, RoomIsItsHost, HostPhase
<1>18. ASSUME NEW g \in Guests, GuestClose(g) PROVE RoomIsItsHost'
  BY <1>18, SMT DEF TypeOK, RoomIsItsHost, HostPhase, GuestClose, Go
<1>19. ASSUME NEW c \in Conns, WriteFrame(c) PROVE RoomIsItsHost'
  BY <1>19, SMT DEF TypeOK, RoomIsItsHost, HostPhase, WriteFrame
<1>20. ASSUME NEW c \in Conns, KeepAlive(c) PROVE RoomIsItsHost'
  BY <1>20, SMT DEF TypeOK, RoomIsItsHost, HostPhase, KeepAlive, CloseSock
<1>21. ASSUME NEW c \in Conns, PeerCloses(c) PROVE RoomIsItsHost'
  BY <1>21, SMT DEF TypeOK, RoomIsItsHost, HostPhase, PeerCloses, CloseSock
<1>22. ASSUME NEW c \in Conns, PeerVanishes(c) PROVE RoomIsItsHost'
  BY <1>22, SMT DEF TypeOK, RoomIsItsHost, HostPhase, PeerVanishes, CloseSock
<1>23. ASSUME NEW c \in Conns, NEW t \in Conns, CloseSlow(c, t) PROVE RoomIsItsHost'
  BY <1>23, SMT DEF TypeOK, RoomIsItsHost, HostPhase, CloseSlow, CloseSock
<1>24. CASE UNCHANGED vars
  BY <1>24 DEF RoomIsItsHost, vars, mapVars
<1> QED
  BY <1>1, <1>2, <1>3, <1>4, <1>5, <1>6, <1>7, <1>8, <1>9, <1>10, <1>11, <1>12, <1>13, <1>14,
      <1>15, <1>16, <1>17, <1>18, <1>19, <1>20, <1>21, <1>22, <1>23, <1>24
  DEF Next, HostCleanup, GuestHandler

\* Every step keeps Rooms.
LEMMA RoomsStep ==
  ASSUME TypeOK, Handlers, RoomIsItsHost, Rooms, [Next]_vars
  PROVE  Rooms'
<1> USE RelayAssumption DEF mapVars, endVars, queueVars, Conns
<1>1. ASSUME NEW h \in Hosts, HostConnect(h) PROVE Rooms'
  BY <1>1, SMT DEF TypeOK, Rooms, Handlers, RoomIsItsHost, Unplaced, HostConnect, Go
<1>2. ASSUME NEW h \in Hosts, HostRefused(h) PROVE Rooms'
  BY <1>2, SMT DEF TypeOK, Rooms, Handlers, RoomIsItsHost, Unplaced, HostRefused, Go
<1>3. ASSUME NEW h \in Hosts, HostFrame(h) PROVE Rooms'
  BY <1>3, HostFrameRest, SMT DEF TypeOK, Rooms, Handlers, RoomIsItsHost, Unplaced
<1>4. ASSUME NEW h \in Hosts, HostReadError(h) PROVE Rooms'
  BY <1>4, SMT DEF TypeOK, Rooms, Handlers, RoomIsItsHost, Unplaced, HostReadError, Go
<1>5. ASSUME NEW h \in Hosts, HostClear(h) PROVE Rooms'
  BY <1>5, SMT DEF TypeOK, Rooms, Handlers, RoomIsItsHost, Unplaced, HostClear, Go
<1>6. ASSUME NEW h \in Hosts, NEW g \in Guests, HostNotify(h, g) PROVE Rooms'
  <2>1. /\ phase[h] = "notifying" /\ notifying[h] = NoGuest /\ g \in toNotify[h] \ shut
        /\ notifying' = [notifying EXCEPT ![h] = g]
        /\ UNCHANGED <<phase, sock, room, roomOf, members, toNotify>>
    BY <1>6, HostNotifyRest
  <2> QED BY <2>1, SMT DEF TypeOK, Rooms, Handlers, RoomIsItsHost, Unplaced
<1>7. ASSUME NEW h \in Hosts, HostCloseGuest(h) PROVE Rooms'
  BY <1>7, SMT DEF TypeOK, Rooms, Handlers, RoomIsItsHost, Unplaced, HostCloseGuest, CloseSock
<1>8. ASSUME NEW h \in Hosts, HostNotifyPanics(h) PROVE Rooms'
  BY <1>8, SMT DEF TypeOK, Rooms, Handlers, RoomIsItsHost, Unplaced, HostNotifyPanics, Go
<1>9. ASSUME NEW h \in Hosts, HostOver(h) PROVE Rooms'
  BY <1>9, SMT DEF TypeOK, Rooms, Handlers, RoomIsItsHost, Unplaced, HostOver, Go
<1>10. ASSUME NEW g \in Guests, GuestFind(g) PROVE Rooms'
  BY <1>10, SMT DEF TypeOK, Rooms, Handlers, RoomIsItsHost, Unplaced, GuestFind, Go
<1>11. ASSUME NEW g \in Guests, GuestRefused(g) PROVE Rooms'
  BY <1>11, SMT DEF TypeOK, Rooms, Handlers, RoomIsItsHost, Unplaced, GuestRefused, Go
<1>12. ASSUME NEW g \in Guests, GuestFrame(g) PROVE Rooms'
  <2>1. /\ phase[g] = "serving" /\ sock[g] = "open" /\ ~Busy(g)
        /\ UNCHANGED <<sock, room, roomOf, members, toNotify, notifying>>
    BY <1>12, GuestFrameRest
  <2>2. PICK p \in {"serving", "leaving"} : phase' = [phase EXCEPT ![g] = p]
    BY <1>12, GuestFrameRest
  <2> QED BY <2>1, <2>2, SMT DEF TypeOK, Rooms, Handlers, RoomIsItsHost, Unplaced
<1>13. ASSUME NEW g \in Guests, GuestJoin(g) PROVE Rooms'
  BY <1>13, SMT DEF TypeOK, Rooms, Handlers, RoomIsItsHost, Unplaced, GuestJoin, Go
<1>14. ASSUME NEW g \in Guests, GuestAnnounce(g) PROVE Rooms'
  <2>1. /\ phase[g] = "joined"
        /\ UNCHANGED <<sock, room, roomOf, members, toNotify, notifying>>
    BY <1>14, GuestAnnounceRest
  <2>2. PICK p \in {"serving", "panicked"} : phase' = [phase EXCEPT ![g] = p]
    BY <1>14, GuestAnnounceRest
  <2> QED BY <2>1, <2>2, SMT DEF TypeOK, Rooms, Handlers, RoomIsItsHost, Unplaced
<1>15. ASSUME NEW g \in Guests, GuestReadError(g) PROVE Rooms'
  BY <1>15, SMT DEF TypeOK, Rooms, Handlers, RoomIsItsHost, Unplaced, GuestReadError, Go
<1>16. ASSUME NEW g \in Guests, GuestLeave(g) PROVE Rooms'
  BY <1>16, SMT DEF TypeOK, Rooms, Handlers, RoomIsItsHost, Unplaced, GuestLeave, Go
<1>17. ASSUME NEW g \in Guests, GuestPart(g) PROVE Rooms'
  <2>1. /\ phase[g] = "parting"
        /\ UNCHANGED <<sock, room, roomOf, members, toNotify, notifying>>
    BY <1>17, GuestPartRest
  <2>2. PICK p \in {"closing", "panicked"} : phase' = [phase EXCEPT ![g] = p]
    BY <1>17, GuestPartRest
  <2> QED BY <2>1, <2>2, SMT DEF TypeOK, Rooms, Handlers, RoomIsItsHost, Unplaced
<1>18. ASSUME NEW g \in Guests, GuestClose(g) PROVE Rooms'
  BY <1>18, SMT DEF TypeOK, Rooms, Handlers, RoomIsItsHost, Unplaced, GuestClose, Go
<1>19. ASSUME NEW c \in Conns, WriteFrame(c) PROVE Rooms'
  BY <1>19, SMT DEF TypeOK, Rooms, Handlers, RoomIsItsHost, Unplaced, WriteFrame
<1>20. ASSUME NEW c \in Conns, KeepAlive(c) PROVE Rooms'
  BY <1>20, SMT DEF TypeOK, Rooms, Handlers, RoomIsItsHost, Unplaced, KeepAlive, CloseSock
<1>21. ASSUME NEW c \in Conns, PeerCloses(c) PROVE Rooms'
  BY <1>21, SMT DEF TypeOK, Rooms, Handlers, RoomIsItsHost, Unplaced, PeerCloses, CloseSock
<1>22. ASSUME NEW c \in Conns, PeerVanishes(c) PROVE Rooms'
  BY <1>22, SMT DEF TypeOK, Rooms, Handlers, RoomIsItsHost, Unplaced, PeerVanishes, CloseSock
<1>23. ASSUME NEW c \in Conns, NEW t \in Conns, CloseSlow(c, t) PROVE Rooms'
  BY <1>23, SMT DEF TypeOK, Rooms, Handlers, RoomIsItsHost, Unplaced, CloseSlow, CloseSock
<1>24. CASE UNCHANGED vars
  BY <1>24 DEF Rooms, vars, mapVars, endVars
<1> QED
  BY <1>1, <1>2, <1>3, <1>4, <1>5, <1>6, <1>7, <1>8, <1>9, <1>10, <1>11, <1>12, <1>13, <1>14,
      <1>15, <1>16, <1>17, <1>18, <1>19, <1>20, <1>21, <1>22, <1>23, <1>24
  DEF Next, HostCleanup, GuestHandler

\* Every step keeps Cleanup: a guest leaves the set of members by its own doing
\* or onto the list of the host, and that list when it is closed.
LEMMA CleanupStep ==
  ASSUME TypeOK, Handlers, Rooms, Cleanup, [Next]_vars
  PROVE  Cleanup'
<1> USE RelayAssumption DEF mapVars, endVars, queueVars, Conns
<1>1. ASSUME NEW h \in Hosts, HostConnect(h) PROVE Cleanup'
  BY <1>1, SMT DEF TypeOK, Cleanup, Handlers, Rooms, Ended, Unplaced, HostConnect, Go
<1>2. ASSUME NEW h \in Hosts, HostRefused(h) PROVE Cleanup'
  BY <1>2, SMT DEF TypeOK, Cleanup, Handlers, Rooms, Ended, Unplaced, HostRefused, Go
<1>3. ASSUME NEW h \in Hosts, HostFrame(h) PROVE Cleanup'
  BY <1>3, HostFrameRest, SMT DEF TypeOK, Cleanup, Handlers, Rooms, Ended, Unplaced
<1>4. ASSUME NEW h \in Hosts, HostReadError(h) PROVE Cleanup'
  BY <1>4, SMT DEF TypeOK, Cleanup, Handlers, Rooms, Ended, Unplaced, HostReadError, Go
<1>5. ASSUME NEW h \in Hosts, HostClear(h) PROVE Cleanup'
  <2>1. /\ phase[h] = "ending"
        /\ toNotify' = [toNotify EXCEPT ![h] = members[h]]
        /\ members' = [members EXCEPT ![h] = {}]
        /\ phase' = [phase EXCEPT ![h] = "notifying"]
        /\ UNCHANGED <<sock, roomOf, notifying>>
    BY <1>5 DEF HostClear, Go
  <2>2. toNotify[h] = {} /\ notifying[h] = NoGuest
    BY <2>1 DEF Cleanup
  <2>3. \A k \in Hosts : /\ notifying'[k] # NoGuest =>
                               phase'[k] = "notifying" /\ notifying'[k] \in toNotify'[k]
                       /\ toNotify'[k] # {} => phase'[k] \in {"notifying", "panicked"}
    BY <2>1, <2>2, SMT DEF TypeOK, Cleanup
  <2>4. ASSUME NEW g \in Guests, phase'[g] \in {"joined", "serving"}
        PROVE  g \in members'[roomOf[g]] \/ g \in toNotify'[roomOf[g]] \/ Ended(g)
    <3>0. phase[g] \in {"joined", "serving"}
      BY <2>1, <2>4, SMT DEF TypeOK
    <3>1. phase[g] \in {"joined", "serving"} /\ roomOf[g] \in Hosts
      BY <3>0, RoomFound DEF Unplaced
    <3>2. g \in members[roomOf[g]] \/ g \in toNotify[roomOf[g]] \/ Ended(g)
      BY <3>1 DEF Cleanup
    <3> QED BY <2>1, <2>2, <3>1, <3>2, SMT DEF TypeOK
  <2> QED BY <2>1, <2>3, <2>4 DEF Cleanup, Ended
<1>6. ASSUME NEW h \in Hosts, NEW g \in Guests, HostNotify(h, g) PROVE Cleanup'
  <2>1. /\ phase[h] = "notifying" /\ notifying[h] = NoGuest /\ g \in toNotify[h] \ shut
        /\ notifying' = [notifying EXCEPT ![h] = g]
        /\ UNCHANGED <<phase, sock, room, roomOf, members, toNotify>>
    BY <1>6, HostNotifyRest
  <2> QED BY <2>1, SMT DEF TypeOK, Cleanup, Handlers, Rooms, Ended, Unplaced
<1>7. ASSUME NEW h \in Hosts, HostCloseGuest(h) PROVE Cleanup'
  <2>1. /\ notifying[h] # NoGuest
        /\ CloseSock(notifying[h], "closed4001")
        /\ toNotify' = [toNotify EXCEPT ![h] = @ \ {notifying[h]}]
        /\ notifying' = [notifying EXCEPT ![h] = NoGuest]
        /\ UNCHANGED <<phase, mapVars>>
    BY <1>7 DEF HostCloseGuest
  <2>2. phase[h] = "notifying" /\ notifying[h] \in Guests
    BY <2>1 DEF Cleanup, TypeOK
  <2>3. ASSUME NEW g \in Guests, phase'[g] \in {"joined", "serving"}
        PROVE  g \in members'[roomOf'[g]] \/ g \in toNotify'[roomOf'[g]] \/ Ended(g)'
    <3>1. roomOf[g] \in Hosts /\ sock[g] \in SockState \ {"none", "refused"}
      BY <2>1, <2>3, RoomFound DEF TypeOK, Handlers, Unplaced
    <3>2. g \in members[roomOf[g]] \/ g \in toNotify[roomOf[g]] \/ Ended(g)
      BY <2>1, <2>3 DEF Cleanup
    <3>3. CASE g = notifying[h]
      <4>1. sock'[g] = IF sock[g] \in {"open", "vanished"} THEN "closed4001" ELSE sock[g]
        BY <2>1, <3>3 DEF TypeOK, CloseSock
      <4> QED BY <3>1, <4>1 DEF Ended, SockState
    <3>4. CASE g # notifying[h]
      <4>1. sock'[g] = sock[g]
        BY <2>1, <2>2, <3>4, SMT DEF TypeOK, CloseSock
      <4>2. g \in toNotify[roomOf[g]] => g \in toNotify'[roomOf[g]]
        BY <2>1, <3>1, <3>4, SMT DEF TypeOK
      <4> QED BY <2>1, <3>2, <4>1, <4>2 DEF Ended
    <3> QED BY <3>3, <3>4
  <2>4. (\A k \in Hosts : notifying[k] # NoGuest =>
           phase[k] = "notifying" /\ notifying[k] \in toNotify[k])'
    BY <2>1, <2>2, SMT DEF TypeOK, Cleanup
  <2>5. (\A k \in Hosts : toNotify[k] # {} => phase[k] \in {"notifying", "panicked"})'
    BY <2>1, <2>2, SMT DEF TypeOK, Cleanup
  <2>6. (\A g \in Guests : phase[g] \in {"joined", "serving"} =>
       g \in members[roomOf[g]] \/ g \in toNotify[roomOf[g]] \/ Ended(g))'
    BY <2>3
  <2> QED BY <2>4, <2>5, <2>6 DEF Cleanup
<1>8. ASSUME NEW h \in Hosts, HostNotifyPanics(h) PROVE Cleanup'
  BY <1>8, SMT DEF TypeOK, Cleanup, Handlers, Rooms, Ended, Unplaced, HostNotifyPanics, Go
<1>9. ASSUME NEW h \in Hosts, HostOver(h) PROVE Cleanup'
  BY <1>9, SMT DEF TypeOK, Cleanup, Handlers, Rooms, Ended, Unplaced, HostOver, Go
<1>10. ASSUME NEW g \in Guests, GuestFind(g) PROVE Cleanup'
  BY <1>10, SMT DEF TypeOK, Cleanup, Handlers, Rooms, Ended, Unplaced, GuestFind, Go
<1>11. ASSUME NEW g \in Guests, GuestRefused(g) PROVE Cleanup'
  BY <1>11, SMT DEF TypeOK, Cleanup, Handlers, Rooms, Ended, Unplaced, GuestRefused, Go
<1>12. ASSUME NEW g \in Guests, GuestFrame(g) PROVE Cleanup'
  <2>1. /\ phase[g] = "serving" /\ sock[g] = "open" /\ ~Busy(g)
        /\ UNCHANGED <<sock, room, roomOf, members, toNotify, notifying>>
    BY <1>12, GuestFrameRest
  <2>2. PICK p \in {"serving", "leaving"} : phase' = [phase EXCEPT ![g] = p]
    BY <1>12, GuestFrameRest
  <2> QED BY <2>1, <2>2, SMT DEF TypeOK, Cleanup, Handlers, Rooms, Ended, Unplaced
<1>13. ASSUME NEW g \in Guests, GuestJoin(g) PROVE Cleanup'
  BY <1>13, SMT DEF TypeOK, Cleanup, Handlers, Rooms, Ended, Unplaced, GuestJoin, Go
<1>14. ASSUME NEW g \in Guests, GuestAnnounce(g) PROVE Cleanup'
  <2>1. /\ phase[g] = "joined"
        /\ UNCHANGED <<sock, room, roomOf, members, toNotify, notifying>>
    BY <1>14, GuestAnnounceRest
  <2>2. PICK p \in {"serving", "panicked"} : phase' = [phase EXCEPT ![g] = p]
    BY <1>14, GuestAnnounceRest
  <2> QED BY <2>1, <2>2, SMT DEF TypeOK, Cleanup, Handlers, Rooms, Ended, Unplaced
<1>15. ASSUME NEW g \in Guests, GuestReadError(g) PROVE Cleanup'
  BY <1>15, SMT DEF TypeOK, Cleanup, Handlers, Rooms, Ended, Unplaced, GuestReadError, Go
<1>16. ASSUME NEW g \in Guests, GuestLeave(g) PROVE Cleanup'
  BY <1>16, SMT DEF TypeOK, Cleanup, Handlers, Rooms, Ended, Unplaced, GuestLeave, Go
<1>17. ASSUME NEW g \in Guests, GuestPart(g) PROVE Cleanup'
  <2>1. /\ phase[g] = "parting"
        /\ UNCHANGED <<sock, room, roomOf, members, toNotify, notifying>>
    BY <1>17, GuestPartRest
  <2>2. PICK p \in {"closing", "panicked"} : phase' = [phase EXCEPT ![g] = p]
    BY <1>17, GuestPartRest
  <2> QED BY <2>1, <2>2, SMT DEF TypeOK, Cleanup, Handlers, Rooms, Ended, Unplaced
<1>18. ASSUME NEW g \in Guests, GuestClose(g) PROVE Cleanup'
  BY <1>18, SMT DEF TypeOK, Cleanup, Handlers, Rooms, Ended, Unplaced, GuestClose, Go
<1>19. ASSUME NEW c \in Conns, WriteFrame(c) PROVE Cleanup'
  BY <1>19, SMT DEF TypeOK, Cleanup, Handlers, Rooms, Ended, Unplaced, WriteFrame
<1>20. ASSUME NEW c \in Conns, KeepAlive(c) PROVE Cleanup'
  BY <1>20, SMT DEF TypeOK, Cleanup, Handlers, Rooms, Ended, Unplaced, KeepAlive, CloseSock
<1>21. ASSUME NEW c \in Conns, PeerCloses(c) PROVE Cleanup'
  BY <1>21, SMT DEF TypeOK, Cleanup, Handlers, Rooms, Ended, Unplaced, PeerCloses, CloseSock
<1>22. ASSUME NEW c \in Conns, PeerVanishes(c) PROVE Cleanup'
  BY <1>22, SMT DEF TypeOK, Cleanup, Handlers, Rooms, Ended, Unplaced, PeerVanishes, CloseSock
<1>23. ASSUME NEW c \in Conns, NEW t \in Conns, CloseSlow(c, t) PROVE Cleanup'
  BY <1>23, SMT DEF TypeOK, Cleanup, Handlers, Rooms, Ended, Unplaced, CloseSlow, CloseSock
<1>24. CASE UNCHANGED vars
  BY <1>24 DEF Cleanup, Ended, vars, mapVars, endVars
<1> QED
  BY <1>1, <1>2, <1>3, <1>4, <1>5, <1>6, <1>7, <1>8, <1>9, <1>10, <1>11, <1>12, <1>13, <1>14,
      <1>15, <1>16, <1>17, <1>18, <1>19, <1>20, <1>21, <1>22, <1>23, <1>24
  DEF Next, HostCleanup, GuestHandler

\* What a send does to the queues.
LEMMA HostSendEffect ==
  ASSUME TypeOK, NEW h \in Hosts, NEW T \in SUBSET Guests, NEW k \in {"data", "room-closed"},
         Enqueue(h, T, <<k, h>>)
  PROVE  /\ blockedOn'[h] \subseteq T
         /\ \A d \in Conns : d # h => blockedOn'[d] = blockedOn[d]
         /\ shut' = shut
         /\ \A t \in Conns : t \notin T => log'[t] = log[t]
         /\ \A t \in T : log'[t] = log[t] \/ log'[t] = Append(log[t], <<k, h>>)
<1>1. shut' = shut /\ h \in Conns /\ T \subseteq Conns
  BY DEF Enqueue, Conns
<1>2. blockedOn'[h] = {t \in T : Full(t)} /\ \A d \in Conns : d # h => blockedOn'[d] = blockedOn[d]
  BY <1>1, SMT DEF TypeOK, Enqueue
<1>3. \A t \in Conns : log'[t] = IF t \in T /\ ~Full(t) THEN Append(log[t], <<k, h>>) ELSE log[t]
  BY DEF Enqueue
<1> QED BY <1>1, <1>2, <1>3

\* What a guest sends reaches its host's queue, or finds it full and waits.
LEMMA GuestSendEffect ==
  ASSUME TypeOK, NEW g \in Guests, roomOf[g] \in Hosts, NEW k \in {"joined", "left", "data"},
         Enqueue(g, {roomOf[g]}, <<k, g>>)
  PROVE  /\ \A d \in Conns : d # g => blockedOn'[d] = blockedOn[d]
         /\ shut' = shut
         /\ \A t \in Conns : t # roomOf[g] => log'[t] = log[t]
         /\ \/ /\ log'[roomOf[g]] = Append(log[roomOf[g]], <<k, g>>)
               /\ blockedOn'[g] = {}
            \/ /\ log'[roomOf[g]] = log[roomOf[g]]
               /\ blockedOn'[g] = {roomOf[g]}
<1>1. shut' = shut /\ g \in Conns /\ roomOf[g] \in Conns
  BY DEF Enqueue, Conns
<1>2. /\ blockedOn'[g] = {t \in {roomOf[g]} : Full(t)}
      /\ \A d \in Conns : d # g => blockedOn'[d] = blockedOn[d]
  BY <1>1, SMT DEF TypeOK, Enqueue
<1>3. \A t \in Conns :
        log'[t] = IF t \in {roomOf[g]} /\ ~Full(t) THEN Append(log[t], <<k, g>>) ELSE log[t]
  BY DEF Enqueue
<1>4. CASE Full(roomOf[g])
  <2>1. blockedOn'[g] = {roomOf[g]}
    BY <1>2, <1>4
  <2> QED BY <1>1, <1>2, <1>3, <1>4, <2>1
<1>5. CASE ~Full(roomOf[g])
  <2>1. blockedOn'[g] = {}
    BY <1>2, <1>5
  <2> QED BY <1>1, <1>2, <1>3, <1>5, <2>1
<1> QED BY <1>4, <1>5

\* A host's frame goes to members of its room.
LEMMA HostFrameSends ==
  ASSUME TypeOK, NEW h \in Hosts, HostFrame(h)
  PROVE  \E T \in SUBSET members[h] : Enqueue(h, T, <<"data", h>>)
<1>1. PICK T \in {members[h]} \cup {{g} : g \in members[h]} : Enqueue(h, T, <<"data", h>>)
  BY DEF HostFrame
<1>2. T \in SUBSET members[h]
  BY <1>1
<1> QED BY <1>1, <1>2

\* A guest's send either panics, at a closed queue, or goes out.
LEMMA GuestFrameSends ==
  ASSUME TypeOK, Handlers, NEW g \in Guests, GuestFrame(g)
  PROVE  /\ roomOf[g] \in Hosts
         /\ \/ phase' = [phase EXCEPT ![g] = "leaving"] /\ UNCHANGED queueVars
            \/ phase' = phase /\ Enqueue(g, {roomOf[g]}, <<"data", g>>)
BY RoomFound DEF GuestFrame, HostOf, Go, Unplaced

\* An announcement goes to the guest's host, unless that one's queue is closed.
LEMMA GuestAnnounceSends ==
  ASSUME TypeOK, Handlers, NEW g \in Guests, GuestAnnounce(g)
  PROVE  /\ roomOf[g] \in Hosts
         /\ \/ phase' = [phase EXCEPT ![g] = "panicked"] /\ UNCHANGED queueVars
            \/ /\ phase' = [phase EXCEPT ![g] = "serving"]
               /\ Enqueue(g, {roomOf[g]}, <<"joined", g>>)
BY RoomFound DEF GuestAnnounce, HostOf, Go, Unplaced

\* A parting word goes to the guest's host, unless that one's queue is closed.
LEMMA GuestPartSends ==
  ASSUME TypeOK, Handlers, NEW g \in Guests, GuestPart(g)
  PROVE  /\ roomOf[g] \in Hosts
         /\ \/ phase' = [phase EXCEPT ![g] = "panicked"] /\ UNCHANGED queueVars
            \/ /\ phase' = [phase EXCEPT ![g] = "closing"]
               /\ Enqueue(g, {roomOf[g]}, <<"left", g>>)
BY RoomFound DEF GuestPart, HostOf, Go, Unplaced

\* Every step keeps QueuesShut: nothing follows the closing of a queue.
LEMMA QueuesShutStep ==
  ASSUME TypeOK, Handlers, Blocking, QueuesShut, [Next]_vars
  PROVE  QueuesShut'
<1> USE RelayAssumption DEF mapVars, endVars, queueVars, Conns
<1>1. ASSUME NEW h \in Hosts, HostConnect(h) PROVE QueuesShut'
  BY <1>1, SMT DEF TypeOK, QueuesShut, HostConnect, Go
<1>2. ASSUME NEW h \in Hosts, HostRefused(h) PROVE QueuesShut'
  BY <1>2, SMT DEF TypeOK, QueuesShut, HostRefused, Go
<1>3. ASSUME NEW h \in Hosts, HostFrame(h) PROVE QueuesShut'
  <2>1. shut' = shut /\ phase' = phase
    BY <1>3, HostFrameRest, HostFrameSends DEF Enqueue
  <2> QED BY <2>1 DEF QueuesShut
<1>4. ASSUME NEW h \in Hosts, HostReadError(h) PROVE QueuesShut'
  BY <1>4, SMT DEF TypeOK, QueuesShut, HostReadError, Go
<1>5. ASSUME NEW h \in Hosts, HostClear(h) PROVE QueuesShut'
  BY <1>5, SMT DEF TypeOK, QueuesShut, HostClear, Go
<1>6. ASSUME NEW h \in Hosts, NEW g \in Guests, HostNotify(h, g) PROVE QueuesShut'
  <2>1. shut' = shut /\ phase' = phase
    BY <1>6, HostNotifyRest DEF HostNotify, Enqueue
  <2> QED BY <2>1 DEF QueuesShut
<1>7. ASSUME NEW h \in Hosts, HostCloseGuest(h) PROVE QueuesShut'
  BY <1>7, SMT DEF TypeOK, QueuesShut, HostCloseGuest
<1>8. ASSUME NEW h \in Hosts, HostNotifyPanics(h) PROVE QueuesShut'
  BY <1>8, SMT DEF TypeOK, QueuesShut, HostNotifyPanics, Go
<1>9. ASSUME NEW h \in Hosts, HostOver(h) PROVE QueuesShut'
  BY <1>9, SMT DEF TypeOK, QueuesShut, HostOver, Go
<1>10. ASSUME NEW g \in Guests, GuestFind(g) PROVE QueuesShut'
  BY <1>10, SMT DEF TypeOK, QueuesShut, GuestFind, Go
<1>11. ASSUME NEW g \in Guests, GuestRefused(g) PROVE QueuesShut'
  BY <1>11, SMT DEF TypeOK, QueuesShut, GuestRefused, Go
<1>12. ASSUME NEW g \in Guests, GuestFrame(g) PROVE QueuesShut'
  <2>1. /\ roomOf[g] \in Hosts /\ phase[g] = "serving" /\ ~Busy(g)
        /\ UNCHANGED <<sock, room, roomOf, members, toNotify, notifying>>
    BY <1>12, GuestFrameSends, GuestFrameRest DEF Blocking
  <2>2. CASE phase' = [phase EXCEPT ![g] = "leaving"] /\ UNCHANGED queueVars
    BY <2>1, <2>2, SMT DEF TypeOK, QueuesShut
  <2>3. CASE phase' = phase /\ Enqueue(g, {roomOf[g]}, <<"data", g>>)
    <3>1. shut' = shut
      BY <2>3 DEF Enqueue
    <3>2. phase' = phase
      BY <2>3
    <3> QED BY <2>1, <3>1, <3>2, SMT DEF TypeOK, QueuesShut
  <2> QED BY <1>12, <2>2, <2>3, GuestFrameSends
<1>13. ASSUME NEW g \in Guests, GuestJoin(g) PROVE QueuesShut'
  BY <1>13, SMT DEF TypeOK, QueuesShut, GuestJoin, Go
<1>14. ASSUME NEW g \in Guests, GuestAnnounce(g) PROVE QueuesShut'
  <2>1. /\ roomOf[g] \in Hosts /\ phase[g] = "joined" /\ ~Busy(g)
        /\ UNCHANGED <<sock, room, roomOf, members, toNotify, notifying>>
    BY <1>14, GuestAnnounceSends, GuestAnnounceRest DEF Blocking
  <2>2. CASE phase' = [phase EXCEPT ![g] = "panicked"] /\ UNCHANGED queueVars
    BY <2>1, <2>2, SMT DEF TypeOK, QueuesShut
  <2>3. CASE phase' = [phase EXCEPT ![g] = "serving"] /\ Enqueue(g, {roomOf[g]}, <<"joined",
      g>>)
    <3>1. shut' = shut
      BY <2>3 DEF Enqueue
    <3>2. phase' = [phase EXCEPT ![g] = "serving"]
      BY <2>3
    <3> QED BY <2>1, <3>1, <3>2, SMT DEF TypeOK, QueuesShut
  <2> QED BY <1>14, <2>2, <2>3, GuestAnnounceSends
<1>15. ASSUME NEW g \in Guests, GuestReadError(g) PROVE QueuesShut'
  BY <1>15, SMT DEF TypeOK, QueuesShut, GuestReadError, Go
<1>16. ASSUME NEW g \in Guests, GuestLeave(g) PROVE QueuesShut'
  BY <1>16, SMT DEF TypeOK, QueuesShut, GuestLeave, Go
<1>17. ASSUME NEW g \in Guests, GuestPart(g) PROVE QueuesShut'
  <2>1. /\ roomOf[g] \in Hosts /\ phase[g] = "parting" /\ ~Busy(g)
        /\ UNCHANGED <<sock, room, roomOf, members, toNotify, notifying>>
    BY <1>17, GuestPartSends, GuestPartRest DEF Blocking
  <2>2. CASE phase' = [phase EXCEPT ![g] = "panicked"] /\ UNCHANGED queueVars
    BY <2>1, <2>2, SMT DEF TypeOK, QueuesShut
  <2>3. CASE phase' = [phase EXCEPT ![g] = "closing"] /\ Enqueue(g, {roomOf[g]}, <<"left", g>>)
    <3>1. shut' = shut
      BY <2>3 DEF Enqueue
    <3>2. phase' = [phase EXCEPT ![g] = "closing"]
      BY <2>3
    <3> QED BY <2>1, <3>1, <3>2, SMT DEF TypeOK, QueuesShut
  <2> QED BY <1>17, <2>2, <2>3, GuestPartSends
<1>18. ASSUME NEW g \in Guests, GuestClose(g) PROVE QueuesShut'
  BY <1>18, SMT DEF TypeOK, QueuesShut, GuestClose, Go
<1>19. ASSUME NEW c \in Conns, WriteFrame(c) PROVE QueuesShut'
  BY <1>19, SMT DEF TypeOK, QueuesShut, WriteFrame
<1>20. ASSUME NEW c \in Conns, KeepAlive(c) PROVE QueuesShut'
  BY <1>20, SMT DEF TypeOK, QueuesShut, KeepAlive
<1>21. ASSUME NEW c \in Conns, PeerCloses(c) PROVE QueuesShut'
  BY <1>21, SMT DEF TypeOK, QueuesShut, PeerCloses
<1>22. ASSUME NEW c \in Conns, PeerVanishes(c) PROVE QueuesShut'
  BY <1>22, SMT DEF TypeOK, QueuesShut, PeerVanishes
<1>23. ASSUME NEW c \in Conns, NEW t \in Conns, CloseSlow(c, t) PROVE QueuesShut'
  BY <1>23, SMT DEF TypeOK, QueuesShut, CloseSlow
<1>24. CASE UNCHANGED vars
  BY <1>24 DEF QueuesShut, vars
<1> QED
  BY <1>1, <1>2, <1>3, <1>4, <1>5, <1>6, <1>7, <1>8, <1>9, <1>10, <1>11, <1>12, <1>13, <1>14,
      <1>15, <1>16, <1>17, <1>18, <1>19, <1>20, <1>21, <1>22, <1>23, <1>24
  DEF Next, HostCleanup, GuestHandler

\* Every step keeps Blocking.
LEMMA BlockingStep ==
  ASSUME TypeOK, Handlers, Rooms, Blocking, [Next]_vars
  PROVE  Blocking'
<1> USE RelayAssumption DEF mapVars, endVars, queueVars, Conns
<1>1. ASSUME NEW h \in Hosts, HostConnect(h) PROVE Blocking'
  BY <1>1, SMT DEF TypeOK, Handlers, Rooms, Blocking, Busy, Unplaced, HostConnect, Go
<1>2. ASSUME NEW h \in Hosts, HostRefused(h) PROVE Blocking'
  BY <1>2, SMT DEF TypeOK, Handlers, Rooms, Blocking, Busy, Unplaced, HostRefused, Go
<1>3. ASSUME NEW h \in Hosts, HostFrame(h) PROVE Blocking'
  <2>1. PICK T \in SUBSET members[h] : Enqueue(h, T, <<"data", h>>)
    BY <1>3, HostFrameSends
  <2>2. T \in SUBSET Guests
    BY DEF TypeOK
  <2>3. blockedOn'[h] \subseteq Guests /\ \A d \in Conns : d # h => blockedOn'[d] = blockedOn[d]
    BY <2>1, <2>2, HostSendEffect
  <2>4. UNCHANGED <<phase, roomOf>>
    BY <1>3, HostFrameRest
  <2> QED BY <2>3, <2>4, SMT DEF Blocking, Busy
<1>4. ASSUME NEW h \in Hosts, HostReadError(h) PROVE Blocking'
  BY <1>4, SMT DEF TypeOK, Handlers, Rooms, Blocking, Busy, Unplaced, HostReadError, Go
<1>5. ASSUME NEW h \in Hosts, HostClear(h) PROVE Blocking'
  BY <1>5, SMT DEF TypeOK, Handlers, Rooms, Blocking, Busy, Unplaced, HostClear, Go
<1>6. ASSUME NEW h \in Hosts, NEW g \in Guests, HostNotify(h, g) PROVE Blocking'
  <2>1. {g} \in SUBSET Guests /\ Enqueue(h, {g}, <<"room-closed", h>>)
    BY <1>6 DEF HostNotify
  <2>2. blockedOn'[h] \subseteq {g} /\ \A d \in Conns : d # h => blockedOn'[d] = blockedOn[d]
    BY <2>1, HostSendEffect
  <2>3. UNCHANGED <<phase, roomOf>>
    BY <1>6, HostNotifyRest
  <2> QED BY <2>2, <2>3, SMT DEF Blocking, Busy
<1>7. ASSUME NEW h \in Hosts, HostCloseGuest(h) PROVE Blocking'
  BY <1>7, SMT DEF TypeOK, Handlers, Rooms, Blocking, Busy, Unplaced, HostCloseGuest
<1>8. ASSUME NEW h \in Hosts, HostNotifyPanics(h) PROVE Blocking'
  BY <1>8, SMT DEF TypeOK, Handlers, Rooms, Blocking, Busy, Unplaced, HostNotifyPanics, Go
<1>9. ASSUME NEW h \in Hosts, HostOver(h) PROVE Blocking'
  BY <1>9, SMT DEF TypeOK, Handlers, Rooms, Blocking, Busy, Unplaced, HostOver, Go
<1>10. ASSUME NEW g \in Guests, GuestFind(g) PROVE Blocking'
  BY <1>10, SMT DEF TypeOK, Handlers, Rooms, Blocking, Busy, Unplaced, GuestFind, Go
<1>11. ASSUME NEW g \in Guests, GuestRefused(g) PROVE Blocking'
  BY <1>11, SMT DEF TypeOK, Handlers, Rooms, Blocking, Busy, Unplaced, GuestRefused, Go
<1>12. ASSUME NEW g \in Guests, GuestFrame(g) PROVE Blocking'
  <2>1. /\ roomOf[g] \in Hosts /\ phase[g] = "serving" /\ ~Busy(g)
        /\ UNCHANGED <<sock, room, roomOf, members, toNotify, notifying>>
    BY <1>12, GuestFrameSends, GuestFrameRest DEF Blocking
  <2>2. CASE phase' = [phase EXCEPT ![g] = "leaving"] /\ UNCHANGED queueVars
    BY <2>1, <2>2, SMT DEF TypeOK, Blocking, Busy
  <2>3. CASE phase' = phase /\ Enqueue(g, {roomOf[g]}, <<"data", g>>)
    <3>1. /\ \A d \in Conns : d # g => blockedOn'[d] = blockedOn[d]
          /\ blockedOn'[g] \subseteq {roomOf[g]}
      BY <2>1, <2>3, GuestSendEffect
    <3>2. phase' = phase
      BY <2>3
    <3>3. \A d \in Guests : d # g => phase'[d] = phase[d]
      BY <3>2 DEF TypeOK
    <3>4. phase'[g] \in {"serving", "closing"}
      BY <2>1, <3>2 DEF TypeOK
    <3> QED BY <2>1, <3>1, <3>3, <3>4, SMT DEF Blocking, Busy
  <2> QED BY <1>12, <2>2, <2>3, GuestFrameSends
<1>13. ASSUME NEW g \in Guests, GuestJoin(g) PROVE Blocking'
  BY <1>13, SMT DEF TypeOK, Handlers, Rooms, Blocking, Busy, Unplaced, GuestJoin, Go
<1>14. ASSUME NEW g \in Guests, GuestAnnounce(g) PROVE Blocking'
  <2>1. /\ roomOf[g] \in Hosts /\ phase[g] = "joined" /\ ~Busy(g)
        /\ UNCHANGED <<sock, room, roomOf, members, toNotify, notifying>>
    BY <1>14, GuestAnnounceSends, GuestAnnounceRest DEF Blocking
  <2>2. CASE phase' = [phase EXCEPT ![g] = "panicked"] /\ UNCHANGED queueVars
    BY <2>1, <2>2, SMT DEF TypeOK, Blocking, Busy
  <2>3. CASE phase' = [phase EXCEPT ![g] = "serving"] /\ Enqueue(g, {roomOf[g]}, <<"joined",
      g>>)
    <3>1. /\ \A d \in Conns : d # g => blockedOn'[d] = blockedOn[d]
          /\ blockedOn'[g] \subseteq {roomOf[g]}
      BY <2>1, <2>3, GuestSendEffect
    <3>2. phase' = [phase EXCEPT ![g] = "serving"]
      BY <2>3
    <3>3. \A d \in Guests : d # g => phase'[d] = phase[d]
      BY <3>2 DEF TypeOK
    <3>4. phase'[g] \in {"serving", "closing"}
      BY <2>1, <3>2 DEF TypeOK
    <3> QED BY <2>1, <3>1, <3>3, <3>4, SMT DEF Blocking, Busy
  <2> QED BY <1>14, <2>2, <2>3, GuestAnnounceSends
<1>15. ASSUME NEW g \in Guests, GuestReadError(g) PROVE Blocking'
  BY <1>15, SMT DEF TypeOK, Handlers, Rooms, Blocking, Busy, Unplaced, GuestReadError, Go
<1>16. ASSUME NEW g \in Guests, GuestLeave(g) PROVE Blocking'
  BY <1>16, SMT DEF TypeOK, Handlers, Rooms, Blocking, Busy, Unplaced, GuestLeave, Go
<1>17. ASSUME NEW g \in Guests, GuestPart(g) PROVE Blocking'
  <2>1. /\ roomOf[g] \in Hosts /\ phase[g] = "parting" /\ ~Busy(g)
        /\ UNCHANGED <<sock, room, roomOf, members, toNotify, notifying>>
    BY <1>17, GuestPartSends, GuestPartRest DEF Blocking
  <2>2. CASE phase' = [phase EXCEPT ![g] = "panicked"] /\ UNCHANGED queueVars
    BY <2>1, <2>2, SMT DEF TypeOK, Blocking, Busy
  <2>3. CASE phase' = [phase EXCEPT ![g] = "closing"] /\ Enqueue(g, {roomOf[g]}, <<"left", g>>)
    <3>1. /\ \A d \in Conns : d # g => blockedOn'[d] = blockedOn[d]
          /\ blockedOn'[g] \subseteq {roomOf[g]}
      BY <2>1, <2>3, GuestSendEffect
    <3>2. phase' = [phase EXCEPT ![g] = "closing"]
      BY <2>3
    <3>3. \A d \in Guests : d # g => phase'[d] = phase[d]
      BY <3>2 DEF TypeOK
    <3>4. phase'[g] \in {"serving", "closing"}
      BY <2>1, <3>2 DEF TypeOK
    <3> QED BY <2>1, <3>1, <3>3, <3>4, SMT DEF Blocking, Busy
  <2> QED BY <1>17, <2>2, <2>3, GuestPartSends
<1>18. ASSUME NEW g \in Guests, GuestClose(g) PROVE Blocking'
  BY <1>18, SMT DEF TypeOK, Handlers, Rooms, Blocking, Busy, Unplaced, GuestClose, Go
<1>19. ASSUME NEW c \in Conns, WriteFrame(c) PROVE Blocking'
  BY <1>19, SMT DEF TypeOK, Handlers, Rooms, Blocking, Busy, Unplaced, WriteFrame
<1>20. ASSUME NEW c \in Conns, KeepAlive(c) PROVE Blocking'
  BY <1>20, SMT DEF TypeOK, Handlers, Rooms, Blocking, Busy, Unplaced, KeepAlive
<1>21. ASSUME NEW c \in Conns, PeerCloses(c) PROVE Blocking'
  BY <1>21, SMT DEF TypeOK, Handlers, Rooms, Blocking, Busy, Unplaced, PeerCloses
<1>22. ASSUME NEW c \in Conns, PeerVanishes(c) PROVE Blocking'
  BY <1>22, SMT DEF TypeOK, Handlers, Rooms, Blocking, Busy, Unplaced, PeerVanishes
<1>23. ASSUME NEW c \in Conns, NEW t \in Conns, CloseSlow(c, t) PROVE Blocking'
  BY <1>23, SMT DEF TypeOK, Handlers, Rooms, Blocking, Busy, Unplaced, CloseSlow
<1>24. CASE UNCHANGED vars
  BY <1>24 DEF Blocking, Busy, vars, mapVars, queueVars
<1> QED
  BY <1>1, <1>2, <1>3, <1>4, <1>5, <1>6, <1>7, <1>8, <1>9, <1>10, <1>11, <1>12, <1>13, <1>14,
      <1>15, <1>16, <1>17, <1>18, <1>19, <1>20, <1>21, <1>22, <1>23, <1>24
  DEF Next, HostCleanup, GuestHandler

\* Only frames of the right kind of sender join a queue.
LEMMA AppendFrom ==
  ASSUME NEW d \in Conns, log[d] \in Seq(Frame), NEW k, NEW e, <<k, e>> \in Frame,
         log'[d] = Append(log[d], <<k, e>>), NEW i \in 1..Len(log'[d])
  PROVE  \/ i \in 1..Len(log[d]) /\ FrameFrom(d, i)' = FrameFrom(d, i)
         \/ FrameFrom(d, i)' = e
<1>1. Len(log[d]) \in Nat /\ Len(log'[d]) = Len(log[d]) + 1
  BY DEF Frame
<1>2. CASE i \in 1..Len(log[d])
  <2>1. log'[d][i] = log[d][i]
    BY <1>2
  <2> QED BY <1>2, <2>1 DEF FrameFrom
<1>3. CASE i = Len(log[d]) + 1
  <2>1. log'[d][i] = <<k, e>>
    BY <1>3
  <2> QED BY <2>1 DEF FrameFrom
<1> QED BY <1>1, <1>2, <1>3

\* Every step keeps Senders and GenerationsIsolated: hosts send to members, who
\* found that host's room, and guests to the host they found.
LEMMA SendersStep ==
  ASSUME TypeOK, Handlers, Rooms, Senders, GenerationsIsolated, [Next]_vars
  PROVE  Senders' /\ GenerationsIsolated'
<1> USE RelayAssumption DEF mapVars, endVars, queueVars, Conns
<1>1. CASE UNCHANGED <<log, roomOf>>
  BY <1>1 DEF Senders, GenerationsIsolated, FrameFrom
<1>2. ASSUME NEW g \in Guests, GuestFind(g) PROVE Senders' /\ GenerationsIsolated'
  <2>1. log' = log /\ roomOf[g] = NoHost /\ roomOf' = [roomOf EXCEPT ![g] = room]
    BY <1>2 DEF GuestFind, Handlers, Unplaced
  <2>2. \A i \in 1..Len(log[g]) : FALSE
    BY <2>1 DEF Senders, GenerationsIsolated
  <2>3. \A q \in Guests : q # g => roomOf'[q] = roomOf[q]
    BY <2>1 DEF TypeOK
  <2>4. \A h \in Hosts : \A i \in 1..Len(log[h]) : FrameFrom(h, i) # g
    BY <2>1 DEF GenerationsIsolated
  <2>5. Senders'
    BY <2>1 DEF Senders, FrameFrom
  <2>6. \A q \in Guests : \A i \in 1..Len(log'[q]) : FrameFrom(q, i)' = roomOf'[q]
    BY <2>1, <2>2, <2>3 DEF GenerationsIsolated, FrameFrom
  <2>7. \A h \in Hosts : \A i \in 1..Len(log'[h]) : roomOf'[FrameFrom(h, i)'] = h
    BY <2>1, <2>3, <2>4 DEF GenerationsIsolated, Senders, FrameFrom
  <2> QED BY <2>5, <2>6, <2>7 DEF GenerationsIsolated
<1>3. ASSUME NEW h \in Hosts, NEW T \in SUBSET Guests, NEW k \in {"data", "room-closed"},
             Enqueue(h, T, <<k, h>>), \A g \in T : roomOf[g] = h, UNCHANGED roomOf
      PROVE  Senders' /\ GenerationsIsolated'
  <2>1. <<k, h>> \in Frame
    BY DEF Frame
  <2>2. /\ \A t \in Conns : t \notin T => log'[t] = log[t]
        /\ \A t \in T : log'[t] = log[t] \/ log'[t] = Append(log[t], <<k, h>>)
    BY <1>3, HostSendEffect
  <2>3. \A d \in Hosts : log'[d] = log[d]
    BY <2>2
  <2>4. ASSUME NEW g \in Guests, NEW i \in 1..Len(log'[g])
        PROVE  FrameFrom(g, i)' \in Hosts /\ FrameFrom(g, i)' = roomOf[g]
    <3>1. CASE log'[g] = log[g]
      BY <3>1 DEF Senders, GenerationsIsolated, FrameFrom
    <3>2. CASE g \in T /\ log'[g] = Append(log[g], <<k, h>>)
      <4>1. log[g] \in Seq(Frame) /\ roomOf[g] = h
        BY <1>3, <3>2 DEF TypeOK
      <4>2. \/ i \in 1..Len(log[g]) /\ FrameFrom(g, i)' = FrameFrom(g, i)
            \/ FrameFrom(g, i)' = h
        BY <2>1, <3>2, <4>1, AppendFrom
      <4> QED BY <4>1, <4>2 DEF Senders, GenerationsIsolated
    <3> QED BY <2>2, <3>1, <3>2
  <2>5. Senders'
    BY <2>3, <2>4 DEF Senders, FrameFrom
  <2>6. \A d \in Hosts : \A i \in 1..Len(log'[d]) : roomOf'[FrameFrom(d, i)'] = d
    BY <1>3, <2>3 DEF GenerationsIsolated, FrameFrom
  <2> QED BY <1>3, <2>4, <2>5, <2>6 DEF GenerationsIsolated
<1>4. ASSUME NEW g \in Guests, NEW k \in {"joined", "left", "data"}, roomOf[g] \in Hosts,
             Enqueue(g, {roomOf[g]}, <<k, g>>), UNCHANGED roomOf
      PROVE  Senders' /\ GenerationsIsolated'
  <2>1. <<k, g>> \in Frame
    BY DEF Frame
  <2>2. /\ \A t \in Conns : t # roomOf[g] => log'[t] = log[t]
        /\ \/ log'[roomOf[g]] = Append(log[roomOf[g]], <<k, g>>)
           \/ log'[roomOf[g]] = log[roomOf[g]]
    BY <1>4, GuestSendEffect
  <2>3. \A q \in Guests : log'[q] = log[q]
    BY <1>4, <2>2
  <2>4. ASSUME NEW h \in Hosts, NEW i \in 1..Len(log'[h])
        PROVE  FrameFrom(h, i)' \in Guests /\ roomOf[FrameFrom(h, i)'] = h
    <3>1. CASE log'[h] = log[h]
      BY <3>1 DEF Senders, GenerationsIsolated, FrameFrom
    <3>2. CASE h = roomOf[g] /\ log'[h] = Append(log[h], <<k, g>>)
      <4>1. log[h] \in Seq(Frame)
        BY DEF TypeOK
      <4>2. \/ i \in 1..Len(log[h]) /\ FrameFrom(h, i)' = FrameFrom(h, i)
            \/ FrameFrom(h, i)' = g
        BY <2>1, <3>2, <4>1, AppendFrom
      <4> QED BY <3>2, <4>2 DEF Senders, GenerationsIsolated
    <3> QED BY <2>2, <3>1, <3>2
  <2>5. Senders'
    BY <2>3, <2>4 DEF Senders, FrameFrom
  <2>6. \A q \in Guests : \A i \in 1..Len(log'[q]) : FrameFrom(q, i)' = roomOf'[q]
    BY <1>4, <2>3 DEF GenerationsIsolated, FrameFrom
  <2> QED BY <1>4, <2>4, <2>5, <2>6 DEF GenerationsIsolated
<1>5. ASSUME NEW h \in Hosts, HostFrame(h) PROVE Senders' /\ GenerationsIsolated'
  <2>1. PICK T \in SUBSET members[h] : Enqueue(h, T, <<"data", h>>)
    BY <1>5, HostFrameSends
  <2>2. T \in SUBSET Guests /\ \A g \in T : roomOf[g] = h
    BY DEF TypeOK, Rooms
  <2>3. UNCHANGED roomOf
    BY <1>5, HostFrameRest
  <2> QED BY <1>3, <2>1, <2>2, <2>3
<1>6. ASSUME NEW h \in Hosts, NEW g \in Guests, HostNotify(h, g)
      PROVE  Senders' /\ GenerationsIsolated'
  <2>1. {g} \in SUBSET Guests /\ Enqueue(h, {g}, <<"room-closed", h>>)
    BY <1>6 DEF HostNotify
  <2>2. UNCHANGED roomOf /\ roomOf[g] = h
    BY <1>6, HostNotifyRest DEF Rooms
  <2> QED BY <1>3, <2>1, <2>2
<1>7. ASSUME NEW g \in Guests, GuestFrame(g) PROVE Senders' /\ GenerationsIsolated'
  BY <1>1, <1>4, <1>7, GuestFrameSends, GuestFrameRest
<1>8. ASSUME NEW g \in Guests, GuestAnnounce(g) PROVE Senders' /\ GenerationsIsolated'
  BY <1>1, <1>4, <1>8, GuestAnnounceSends, GuestAnnounceRest
<1>9. ASSUME NEW g \in Guests, GuestPart(g) PROVE Senders' /\ GenerationsIsolated'
  BY <1>1, <1>4, <1>9, GuestPartSends, GuestPartRest
<1>10. ASSUME NEW h \in Hosts,
              \/ HostConnect(h) \/ HostRefused(h) \/ HostReadError(h) \/ HostClear(h)
              \/ HostCloseGuest(h) \/ HostNotifyPanics(h) \/ HostOver(h)
       PROVE  UNCHANGED <<log, roomOf>>
  BY <1>10 DEF HostConnect, HostRefused, HostReadError, HostClear, HostCloseGuest,
               HostNotifyPanics, HostOver
<1>11. ASSUME NEW g \in Guests,
              \/ GuestRefused(g) \/ GuestJoin(g) \/ GuestReadError(g) \/ GuestLeave(g)
              \/ GuestClose(g)
       PROVE  UNCHANGED <<log, roomOf>>
  BY <1>11 DEF GuestRefused, GuestJoin, GuestReadError, GuestLeave, GuestClose
<1>12. ASSUME NEW c \in Conns,
              WriteFrame(c) \/ KeepAlive(c) \/ PeerCloses(c) \/ PeerVanishes(c)
       PROVE  UNCHANGED <<log, roomOf>>
  BY <1>12 DEF WriteFrame, KeepAlive, PeerCloses, PeerVanishes
<1>13. ASSUME NEW c \in Conns, NEW t \in Conns, CloseSlow(c, t)
       PROVE  UNCHANGED <<log, roomOf>>
  BY <1>13 DEF CloseSlow
<1>14. CASE UNCHANGED vars
  BY <1>1, <1>14 DEF vars
<1> QED
  BY <1>1, <1>2, <1>5, <1>6, <1>7, <1>8, <1>9, <1>10, <1>11, <1>12, <1>13, <1>14
  DEF Next, HostCleanup, GuestHandler

\* What the host was told of a guest stays right while neither the host's log
\* nor the guest's place changes in a way that matters.
SamePlace(g) ==
  /\ phase'[g] \in {"found", "joined"} => phase[g] \in {"found", "joined"}
  /\ phase'[g] \in {"serving", "leaving", "parting"} =>
       phase[g] \in {"serving", "leaving", "parting"}
  /\ phase'[g] \in {"closing", "over"} => phase[g] \in {"closing", "over"}

\* ToldOf stays right when the guest keeps its place and the host hears nothing
\* of it.
LEMMA ToldKept ==
  ASSUME NEW h \in Hosts, NEW g \in Guests, ToldOf(h, g), SamePlace(g),
         \A t \in {"joined", "data", "left"} : Said(h, t, g)' = Said(h, t, g)
  PROVE  ToldOf(h, g)'
<1>1. /\ Said(h, "joined", g)' = Said(h, "joined", g)
      /\ Said(h, "data", g)' = Said(h, "data", g)
      /\ Said(h, "left", g)' = Said(h, "left", g)
  OBVIOUS
<1> QED BY <1>1, Zenon DEF ToldOf, SamePlace

\* A host whose log stays the same was told right of a guest that keeps its place.
LEMMA ToldQuiet ==
  ASSUME Roster, NEW h \in Hosts, NEW g \in Guests, KeptUp(h), roomOf[g] = h,
         log'[h] = log[h], SamePlace(g)
  PROVE  ToldOf(h, g)'
BY SaidSame, ToldKept DEF Roster

\* A frame the host is sent by another guest says nothing of this one.
LEMMA ToldOther ==
  ASSUME TypeOK, Roster, NEW h \in Hosts, NEW g \in Guests, KeptUp(h), roomOf[g] = h,
         NEW q \in Guests, q # g, NEW k \in {"joined", "left", "data"},
         log'[h] = Append(log[h], <<k, q>>), SamePlace(g)
  PROVE  ToldOf(h, g)'
<1>1. log[h] \in Seq(Frame) /\ <<k, q>> \in Frame
  BY DEF TypeOK, Frame, Conns
<1>2. \A t \in {"joined", "data", "left"} : Said(h, t, g)' = Said(h, t, g)
  <2> TAKE t \in {"joined", "data", "left"}
  <2>1. Said(h, t, g)' = Said(h, t, g) \cup (IF t = k /\ g = q THEN {Len(log[h]) + 1} ELSE {})
    BY <1>1, SaidAppend
  <2> QED BY <2>1
<1> QED BY <1>2, ToldKept DEF Roster

\* The host of a guest keeps up through the guest's own send only if it got the
\* frame: a full queue makes the guest wait for it.
LEMMA GuestSendKept ==
  ASSUME TypeOK, Blocking, NEW g \in Guests, ~Busy(g), NEW k \in {"joined", "left", "data"},
         roomOf[g] \in Hosts, Enqueue(g, {roomOf[g]}, <<k, g>>),
         NEW h \in Hosts, KeptUp(h)', UNCHANGED sock, phase'[h] = phase[h]
  PROVE  /\ KeptUp(h)
         /\ h # roomOf[g] => log'[h] = log[h]
         /\ h = roomOf[g] => log'[h] = Append(log[h], <<k, g>>)
<1>1. /\ \A d \in Conns : d # g => blockedOn'[d] = blockedOn[d]
      /\ \A t \in Conns : t # roomOf[g] => log'[t] = log[t]
      /\ \/ log'[roomOf[g]] = Append(log[roomOf[g]], <<k, g>>) /\ blockedOn'[g] = {}
         \/ log'[roomOf[g]] = log[roomOf[g]] /\ blockedOn'[g] = {roomOf[g]}
  BY GuestSendEffect
<1>2. g \in Conns /\ h \in Conns
  BY DEF Conns
<1>3. KeptUp(h)
  BY <1>1, <1>2 DEF KeptUp, Busy
<1>4. h \notin blockedOn'[g]
  BY <1>2 DEF KeptUp
<1> QED BY <1>1, <1>2, <1>3, <1>4

\* Every step keeps Roster.
LEMMA RosterStep ==
  ASSUME TypeOK, Handlers, Rooms, Blocking, GenerationsIsolated, Roster, [Next]_vars
  PROVE  Roster'
<1> USE RelayAssumption DEF mapVars, endVars, queueVars, Conns
<1>1. ASSUME NEW h \in Hosts, HostConnect(h) PROVE Roster'
  <2> SUFFICES ASSUME NEW k \in Hosts, KeptUp(k)', NEW q \in Guests, roomOf'[q] = k
               PROVE  ToldOf(k, q)'
    BY DEF Roster
  <2>1. KeptUp(k) /\ roomOf[q] = k /\ log'[k] = log[k]
    BY <1>1, SMT DEF TypeOK, KeptUp, HostConnect, Go, Rooms, Unplaced
  <2>2. SamePlace(q)
    BY <1>1, SMT DEF TypeOK, SamePlace, HostConnect, Go
  <2> QED BY <2>1, <2>2, ToldQuiet
<1>2. ASSUME NEW h \in Hosts, HostRefused(h) PROVE Roster'
  <2> SUFFICES ASSUME NEW k \in Hosts, KeptUp(k)', NEW q \in Guests, roomOf'[q] = k
               PROVE  ToldOf(k, q)'
    BY DEF Roster
  <2>1. KeptUp(k) /\ roomOf[q] = k /\ log'[k] = log[k]
    BY <1>2, SMT DEF TypeOK, KeptUp, HostRefused, Go
  <2>2. SamePlace(q)
    BY <1>2, SMT DEF TypeOK, SamePlace, HostRefused, Go
  <2> QED BY <2>1, <2>2, ToldQuiet
<1>3. ASSUME NEW h \in Hosts, HostFrame(h) PROVE Roster'
  <2> SUFFICES ASSUME NEW k \in Hosts, KeptUp(k)', NEW q \in Guests, roomOf'[q] = k
               PROVE  ToldOf(k, q)'
    BY DEF Roster
  <2>1. PICK T \in SUBSET members[h] : Enqueue(h, T, <<"data", h>>)
    BY <1>3, HostFrameSends
  <2>2. T \in SUBSET Guests /\ ~Busy(h) /\ UNCHANGED <<phase, sock, roomOf>>
    BY <1>3, HostFrameRest DEF TypeOK
  <2>3. /\ \A d \in Conns : d # h => blockedOn'[d] = blockedOn[d]
        /\ \A t \in Conns : t \notin T => log'[t] = log[t]
    BY <2>1, <2>2, HostSendEffect
  <2>4. KeptUp(k) /\ roomOf[q] = k /\ log'[k] = log[k]
    BY <2>2, <2>3 DEF KeptUp, Busy
  <2>5. SamePlace(q)
    BY <2>2 DEF SamePlace
  <2> QED BY <2>4, <2>5, ToldQuiet
<1>4. ASSUME NEW h \in Hosts, HostReadError(h) PROVE Roster'
  <2> SUFFICES ASSUME NEW k \in Hosts, KeptUp(k)', NEW q \in Guests, roomOf'[q] = k
               PROVE  ToldOf(k, q)'
    BY DEF Roster
  <2>1. KeptUp(k) /\ roomOf[q] = k /\ log'[k] = log[k]
    BY <1>4, SMT DEF TypeOK, KeptUp, HostReadError, Go
  <2>2. SamePlace(q)
    BY <1>4, SMT DEF TypeOK, SamePlace, HostReadError, Go
  <2> QED BY <2>1, <2>2, ToldQuiet
<1>5. ASSUME NEW h \in Hosts, HostClear(h) PROVE Roster'
  <2> SUFFICES ASSUME NEW k \in Hosts, KeptUp(k)', NEW q \in Guests, roomOf'[q] = k
               PROVE  ToldOf(k, q)'
    BY DEF Roster
  <2>1. KeptUp(k) /\ roomOf[q] = k /\ log'[k] = log[k]
    BY <1>5, SMT DEF TypeOK, KeptUp, HostClear, Go
  <2>2. SamePlace(q)
    BY <1>5, SMT DEF TypeOK, SamePlace, HostClear, Go
  <2> QED BY <2>1, <2>2, ToldQuiet
<1>6. ASSUME NEW h \in Hosts, NEW g \in Guests, HostNotify(h, g) PROVE Roster'
  <2> SUFFICES ASSUME NEW k \in Hosts, KeptUp(k)', NEW q \in Guests, roomOf'[q] = k
               PROVE  ToldOf(k, q)'
    BY DEF Roster
  <2>1. {g} \in SUBSET Guests /\ Enqueue(h, {g}, <<"room-closed", h>>)
    BY <1>6 DEF HostNotify
  <2>2. UNCHANGED <<phase, sock, roomOf>>
    BY <1>6, HostNotifyRest
  <2>3. /\ \A d \in Conns : d # h => blockedOn'[d] = blockedOn[d]
        /\ \A t \in Conns : t \notin {g} => log'[t] = log[t]
    BY <2>1, HostSendEffect
  <2>4. KeptUp(k) /\ roomOf[q] = k /\ log'[k] = log[k]
    BY <2>2, <2>3 DEF KeptUp, Blocking
  <2>5. SamePlace(q)
    BY <2>2 DEF SamePlace
  <2> QED BY <2>4, <2>5, ToldQuiet
<1>7. ASSUME NEW h \in Hosts, HostCloseGuest(h) PROVE Roster'
  <2> SUFFICES ASSUME NEW k \in Hosts, KeptUp(k)', NEW q \in Guests, roomOf'[q] = k
               PROVE  ToldOf(k, q)'
    BY DEF Roster
  <2>1. KeptUp(k) /\ roomOf[q] = k /\ log'[k] = log[k]
    BY <1>7, SMT DEF TypeOK, KeptUp, HostCloseGuest, CloseSock
  <2>2. SamePlace(q)
    BY <1>7 DEF SamePlace, HostCloseGuest
  <2> QED BY <2>1, <2>2, ToldQuiet
<1>8. ASSUME NEW h \in Hosts, HostNotifyPanics(h) PROVE Roster'
  <2> SUFFICES ASSUME NEW k \in Hosts, KeptUp(k)', NEW q \in Guests, roomOf'[q] = k
               PROVE  ToldOf(k, q)'
    BY DEF Roster
  <2>1. KeptUp(k) /\ roomOf[q] = k /\ log'[k] = log[k]
    BY <1>8, SMT DEF TypeOK, KeptUp, HostNotifyPanics, Go
  <2>2. SamePlace(q)
    BY <1>8, SMT DEF TypeOK, SamePlace, HostNotifyPanics, Go
  <2> QED BY <2>1, <2>2, ToldQuiet
<1>9. ASSUME NEW h \in Hosts, HostOver(h) PROVE Roster'
  <2> SUFFICES ASSUME NEW k \in Hosts, KeptUp(k)', NEW q \in Guests, roomOf'[q] = k
               PROVE  ToldOf(k, q)'
    BY DEF Roster
  <2>1. KeptUp(k) /\ roomOf[q] = k /\ log'[k] = log[k]
    BY <1>9, SMT DEF TypeOK, KeptUp, HostOver, Go
  <2>2. SamePlace(q)
    BY <1>9, SMT DEF TypeOK, SamePlace, HostOver, Go
  <2> QED BY <2>1, <2>2, ToldQuiet
<1>10. ASSUME NEW g \in Guests, GuestFind(g) PROVE Roster'
  <2> SUFFICES ASSUME NEW k \in Hosts, KeptUp(k)', NEW q \in Guests, roomOf'[q] = k
               PROVE  ToldOf(k, q)'
    BY DEF Roster
  <2>1. KeptUp(k) /\ log' = log
    BY <1>10, SMT DEF TypeOK, KeptUp, GuestFind, Go
  <2>2. CASE q # g
    <3>1. roomOf[q] = k /\ SamePlace(q)
      BY <1>10, <2>2, SMT DEF TypeOK, SamePlace, GuestFind, Go
    <3> QED BY <2>1, <3>1, ToldQuiet
  <2>3. CASE q = g
    <3>1. roomOf[g] = NoHost /\ phase'[g] = "found"
      BY <1>10 DEF TypeOK, Handlers, Unplaced, GuestFind, Go
    <3>2. \A t : Said(k, t, g) = {}
      <4>1. \A i \in 1..Len(log[k]) : log[k][i][2] # g
        BY <3>1 DEF GenerationsIsolated, FrameFrom
      <4> QED BY <4>1 DEF Said
    <3>3. \A t : Said(k, t, g)' = {}
      BY <2>1, <3>2 DEF Said
    <3> QED BY <2>3, <3>1, <3>3 DEF ToldOf
  <2> QED BY <2>2, <2>3
<1>11. ASSUME NEW g \in Guests, GuestRefused(g) PROVE Roster'
  <2> SUFFICES ASSUME NEW k \in Hosts, KeptUp(k)', NEW q \in Guests, roomOf'[q] = k
               PROVE  ToldOf(k, q)'
    BY DEF Roster
  <2>1. KeptUp(k) /\ roomOf[q] = k /\ log'[k] = log[k]
    BY <1>11, SMT DEF TypeOK, KeptUp, GuestRefused, Go
  <2>2. SamePlace(q)
    BY <1>11, <2>1, SMT DEF TypeOK, SamePlace, GuestRefused, Go, Handlers, Unplaced
  <2> QED BY <2>1, <2>2, ToldQuiet
<1>12. ASSUME NEW g \in Guests, GuestFrame(g) PROVE Roster'
  <2> SUFFICES ASSUME NEW k \in Hosts, KeptUp(k)', NEW q \in Guests, roomOf'[q] = k
               PROVE  ToldOf(k, q)'
    BY DEF Roster
  <2>1. /\ roomOf[g] \in Hosts /\ phase[g] = "serving" /\ ~Busy(g)
        /\ UNCHANGED <<sock, roomOf>>
    BY <1>12, GuestFrameSends, GuestFrameRest DEF Blocking
  <2>2. CASE phase' = [phase EXCEPT ![g] = "leaving"] /\ UNCHANGED queueVars
    <3>1. KeptUp(k) /\ roomOf[q] = k /\ log'[k] = log[k]
      BY <2>1, <2>2, SMT DEF TypeOK, KeptUp
    <3>2. SamePlace(q)
      BY <2>1, <2>2, SMT DEF TypeOK, SamePlace
    <3> QED BY <3>1, <3>2, ToldQuiet
  <2>3. CASE phase' = phase /\ Enqueue(g, {roomOf[g]}, <<"data", g>>)
    <3>1. phase'[k] = phase[k] /\ (q # g => SamePlace(q))
      BY <2>3 DEF TypeOK, SamePlace
    <3>2. /\ KeptUp(k) /\ roomOf[q] = k
          /\ k # roomOf[g] => log'[k] = log[k]
          /\ k = roomOf[g] => log'[k] = Append(log[k], <<"data", g>>)
      BY <2>1, <2>3, <3>1, GuestSendKept
    <3>3. CASE q # g
      BY <3>1, <3>2, <3>3, ToldQuiet, ToldOther
    <3>4. CASE q = g
      <4>1. log[k] \in Seq(Frame) /\ <<"data", g>> \in Frame
        BY DEF TypeOK, Frame
      <4>2. log'[k] = Append(log[k], <<"data", g>>)
        BY <3>2, <3>4
      <4>3. /\ Said(k, "data", g)' = Said(k, "data", g) \cup {Len(log[k]) + 1}
            /\ \A i \in Said(k, "joined", g) : i < Len(log[k]) + 1
        BY <4>1, <4>2, SaidAppend
      <4>4. /\ Said(k, "joined", g)' = Said(k, "joined", g)
            /\ Said(k, "left", g)' = Said(k, "left", g)
        BY <4>1, <4>2, SaidAppendOther
      <4>5. phase'[g] = "serving" /\ ToldOf(k, g)
        BY <2>1, <2>3, <3>2, <3>4 DEF Roster
      <4>6. Said(k, "left", g) = {} /\ \E i \in Nat : Said(k, "joined", g) = {i}
        BY <2>1, <4>5 DEF ToldOf
      <4>7. \A i \in Said(k, "data", g)' : \A j \in Said(k, "joined", g)' : j < i
        BY <4>3, <4>4, <4>5 DEF ToldOf
      <4> QED BY <3>4, <4>4, <4>5, <4>6, <4>7 DEF ToldOf
    <3> QED BY <3>3, <3>4
  <2> QED BY <1>12, <2>2, <2>3, GuestFrameSends
<1>13. ASSUME NEW g \in Guests, GuestJoin(g) PROVE Roster'
  <2> SUFFICES ASSUME NEW k \in Hosts, KeptUp(k)', NEW q \in Guests, roomOf'[q] = k
               PROVE  ToldOf(k, q)'
    BY DEF Roster
  <2>1. KeptUp(k) /\ roomOf[q] = k /\ log'[k] = log[k]
    BY <1>13, SMT DEF TypeOK, KeptUp, GuestJoin, Go
  <2>2. SamePlace(q)
    BY <1>13, <2>1, SMT DEF TypeOK, SamePlace, GuestJoin, Go
  <2> QED BY <2>1, <2>2, ToldQuiet
<1>14. ASSUME NEW g \in Guests, GuestAnnounce(g) PROVE Roster'
  <2> SUFFICES ASSUME NEW k \in Hosts, KeptUp(k)', NEW q \in Guests, roomOf'[q] = k
               PROVE  ToldOf(k, q)'
    BY DEF Roster
  <2>1. /\ roomOf[g] \in Hosts /\ phase[g] = "joined" /\ ~Busy(g)
        /\ UNCHANGED <<sock, roomOf>>
    BY <1>14, GuestAnnounceSends, GuestAnnounceRest DEF Blocking
  <2>2. CASE phase' = [phase EXCEPT ![g] = "panicked"] /\ UNCHANGED queueVars
    <3>1. KeptUp(k) /\ roomOf[q] = k /\ log'[k] = log[k]
      BY <2>1, <2>2, SMT DEF TypeOK, KeptUp
    <3>2. SamePlace(q)
      BY <2>1, <2>2, SMT DEF TypeOK, SamePlace
    <3> QED BY <3>1, <3>2, ToldQuiet
  <2>3. CASE phase' = [phase EXCEPT ![g] = "serving"] /\ Enqueue(g, {roomOf[g]}, <<"joined",
      g>>)
    <3>1. phase'[k] = phase[k] /\ (q # g => SamePlace(q))
      BY <2>3 DEF TypeOK, SamePlace
    <3>2. /\ KeptUp(k) /\ roomOf[q] = k
          /\ k # roomOf[g] => log'[k] = log[k]
          /\ k = roomOf[g] => log'[k] = Append(log[k], <<"joined", g>>)
      BY <2>1, <2>3, <3>1, GuestSendKept
    <3>3. CASE q # g
      BY <3>1, <3>2, <3>3, ToldQuiet, ToldOther
    <3>4. CASE q = g
      <4>1. log[k] \in Seq(Frame) /\ <<"joined", g>> \in Frame
        BY DEF TypeOK, Frame
      <4>2. log'[k] = Append(log[k], <<"joined", g>>)
        BY <3>2, <3>4
      <4>3. Said(k, "joined", g)' = Said(k, "joined", g) \cup {Len(log[k]) + 1}
        BY <4>1, <4>2, SaidAppend
      <4>4. /\ Said(k, "data", g)' = Said(k, "data", g)
            /\ Said(k, "left", g)' = Said(k, "left", g)
        BY <4>1, <4>2, SaidAppendOther
      <4>5. phase'[g] = "serving" /\ ToldOf(k, g)
        BY <2>1, <2>3, <3>2, <3>4 DEF TypeOK, Roster
      <4>6. Said(k, "joined", g) = {} /\ Said(k, "data", g) = {} /\ Said(k, "left", g) = {}
        BY <2>1, <4>5 DEF ToldOf
      <4>7. Len(log[k]) + 1 \in Nat
        BY <4>1, <4>2, SaidAppend
      <4> QED BY <3>4, <4>3, <4>4, <4>5, <4>6, <4>7 DEF ToldOf
    <3> QED BY <3>3, <3>4
  <2> QED BY <1>14, <2>2, <2>3, GuestAnnounceSends
<1>15. ASSUME NEW g \in Guests, GuestReadError(g) PROVE Roster'
  <2> SUFFICES ASSUME NEW k \in Hosts, KeptUp(k)', NEW q \in Guests, roomOf'[q] = k
               PROVE  ToldOf(k, q)'
    BY DEF Roster
  <2>1. KeptUp(k) /\ roomOf[q] = k /\ log'[k] = log[k]
    BY <1>15, SMT DEF TypeOK, KeptUp, GuestReadError, Go
  <2>2. SamePlace(q)
    BY <1>15, <2>1, SMT DEF TypeOK, SamePlace, GuestReadError, Go
  <2> QED BY <2>1, <2>2, ToldQuiet
<1>16. ASSUME NEW g \in Guests, GuestLeave(g) PROVE Roster'
  <2> SUFFICES ASSUME NEW k \in Hosts, KeptUp(k)', NEW q \in Guests, roomOf'[q] = k
               PROVE  ToldOf(k, q)'
    BY DEF Roster
  <2>1. KeptUp(k) /\ roomOf[q] = k /\ log'[k] = log[k]
    BY <1>16, SMT DEF TypeOK, KeptUp, GuestLeave, Go
  <2>2. q = g => q \in members[k]
    BY <1>16, <2>1 DEF GuestLeave, KeptUp, Rooms
  <2>3. SamePlace(q)
    BY <1>16, <2>1, <2>2, SMT DEF TypeOK, SamePlace, GuestLeave, Go
  <2> QED BY <2>1, <2>3, ToldQuiet
<1>17. ASSUME NEW g \in Guests, GuestPart(g) PROVE Roster'
  <2> SUFFICES ASSUME NEW k \in Hosts, KeptUp(k)', NEW q \in Guests, roomOf'[q] = k
               PROVE  ToldOf(k, q)'
    BY DEF Roster
  <2>1. /\ roomOf[g] \in Hosts /\ phase[g] = "parting" /\ ~Busy(g)
        /\ UNCHANGED <<sock, roomOf>>
    BY <1>17, GuestPartSends, GuestPartRest DEF Blocking
  <2>2. CASE phase' = [phase EXCEPT ![g] = "panicked"] /\ UNCHANGED queueVars
    <3>1. KeptUp(k) /\ roomOf[q] = k /\ log'[k] = log[k]
      BY <2>1, <2>2, SMT DEF TypeOK, KeptUp
    <3>2. SamePlace(q)
      BY <2>1, <2>2, SMT DEF TypeOK, SamePlace
    <3> QED BY <3>1, <3>2, ToldQuiet
  <2>3. CASE phase' = [phase EXCEPT ![g] = "closing"] /\ Enqueue(g, {roomOf[g]}, <<"left", g>>)
    <3>1. phase'[k] = phase[k] /\ (q # g => SamePlace(q))
      BY <2>3 DEF TypeOK, SamePlace
    <3>2. /\ KeptUp(k) /\ roomOf[q] = k
          /\ k # roomOf[g] => log'[k] = log[k]
          /\ k = roomOf[g] => log'[k] = Append(log[k], <<"left", g>>)
      BY <2>1, <2>3, <3>1, GuestSendKept
    <3>3. CASE q # g
      BY <3>1, <3>2, <3>3, ToldQuiet, ToldOther
    <3>4. CASE q = g
      <4>1. log[k] \in Seq(Frame) /\ <<"left", g>> \in Frame
        BY DEF TypeOK, Frame
      <4>2. log'[k] = Append(log[k], <<"left", g>>)
        BY <3>2, <3>4
      <4>3. /\ Said(k, "left", g)' = Said(k, "left", g) \cup {Len(log[k]) + 1}
            /\ \A i \in Said(k, "data", g) : i < Len(log[k]) + 1
        BY <4>1, <4>2, SaidAppend
      <4>4. /\ Said(k, "data", g)' = Said(k, "data", g)
            /\ Said(k, "joined", g)' = Said(k, "joined", g)
        BY <4>1, <4>2, SaidAppendOther
      <4>5. phase'[g] = "closing" /\ ToldOf(k, g)
        BY <2>1, <2>3, <3>2, <3>4 DEF TypeOK, Roster
      <4>6. Said(k, "left", g) = {}
        BY <2>1, <4>5 DEF ToldOf
      <4>7. Len(log[k]) + 1 \in Nat
        BY <4>1, <4>2, SaidAppend
      <4>8. Said(k, "left", g)' = {Len(log[k]) + 1}
        BY <4>3, <4>6
      <4>9. \A i \in Said(k, "data", g)' : /\ \A j \in Said(k, "joined", g)' : j < i
                                          /\ \A j \in Said(k, "left", g)' : i < j
        BY <4>3, <4>4, <4>5, <4>8 DEF ToldOf
      <4> QED BY <3>4, <4>5, <4>7, <4>8, <4>9 DEF ToldOf
    <3> QED BY <3>3, <3>4
  <2> QED BY <1>17, <2>2, <2>3, GuestPartSends
<1>18. ASSUME NEW g \in Guests, GuestClose(g) PROVE Roster'
  <2> SUFFICES ASSUME NEW k \in Hosts, KeptUp(k)', NEW q \in Guests, roomOf'[q] = k
               PROVE  ToldOf(k, q)'
    BY DEF Roster
  <2>1. KeptUp(k) /\ roomOf[q] = k /\ log'[k] = log[k]
    BY <1>18, SMT DEF TypeOK, KeptUp, GuestClose, Go
  <2>2. SamePlace(q)
    BY <1>18, <2>1, SMT DEF TypeOK, SamePlace, GuestClose, Go
  <2> QED BY <2>1, <2>2, ToldQuiet
<1>19. ASSUME NEW c \in Conns, WriteFrame(c) PROVE Roster'
  <2> SUFFICES ASSUME NEW k \in Hosts, KeptUp(k)', NEW q \in Guests, roomOf'[q] = k
               PROVE  ToldOf(k, q)'
    BY DEF Roster
  <2>1. KeptUp(k) /\ roomOf[q] = k /\ log'[k] = log[k]
    BY <1>19, SMT DEF TypeOK, KeptUp, WriteFrame
  <2>2. SamePlace(q)
    BY <1>19 DEF SamePlace, WriteFrame
  <2> QED BY <2>1, <2>2, ToldQuiet
<1>20. ASSUME NEW c \in Conns, KeepAlive(c) PROVE Roster'
  <2> SUFFICES ASSUME NEW k \in Hosts, KeptUp(k)', NEW q \in Guests, roomOf'[q] = k
               PROVE  ToldOf(k, q)'
    BY DEF Roster
  <2>1. KeptUp(k) /\ roomOf[q] = k /\ log'[k] = log[k]
    BY <1>20, SMT DEF TypeOK, KeptUp, KeepAlive, CloseSock
  <2>2. SamePlace(q)
    BY <1>20 DEF SamePlace, KeepAlive
  <2> QED BY <2>1, <2>2, ToldQuiet
<1>21. ASSUME NEW c \in Conns, PeerCloses(c) PROVE Roster'
  <2> SUFFICES ASSUME NEW k \in Hosts, KeptUp(k)', NEW q \in Guests, roomOf'[q] = k
               PROVE  ToldOf(k, q)'
    BY DEF Roster
  <2>1. KeptUp(k) /\ roomOf[q] = k /\ log'[k] = log[k]
    BY <1>21, SMT DEF TypeOK, KeptUp, PeerCloses, CloseSock
  <2>2. SamePlace(q)
    BY <1>21 DEF SamePlace, PeerCloses
  <2> QED BY <2>1, <2>2, ToldQuiet
<1>22. ASSUME NEW c \in Conns, PeerVanishes(c) PROVE Roster'
  <2> SUFFICES ASSUME NEW k \in Hosts, KeptUp(k)', NEW q \in Guests, roomOf'[q] = k
               PROVE  ToldOf(k, q)'
    BY DEF Roster
  <2>1. KeptUp(k) /\ roomOf[q] = k /\ log'[k] = log[k]
    BY <1>22, SMT DEF TypeOK, KeptUp, PeerVanishes, CloseSock
  <2>2. SamePlace(q)
    BY <1>22 DEF SamePlace, PeerVanishes
  <2> QED BY <2>1, <2>2, ToldQuiet
<1>23. ASSUME NEW c \in Conns, NEW t \in Conns, CloseSlow(c, t) PROVE Roster'
  <2> SUFFICES ASSUME NEW k \in Hosts, KeptUp(k)', NEW q \in Guests, roomOf'[q] = k
               PROVE  ToldOf(k, q)'
    BY DEF Roster
  <2>1. KeptUp(k) /\ roomOf[q] = k /\ log'[k] = log[k]
    BY <1>23, SMT DEF TypeOK, KeptUp, CloseSlow, CloseSock
  <2>2. SamePlace(q)
    BY <1>23 DEF SamePlace, CloseSlow
  <2> QED BY <2>1, <2>2, ToldQuiet
<1>24. CASE UNCHANGED vars
  <2> SUFFICES ASSUME NEW k \in Hosts, KeptUp(k)', NEW q \in Guests, roomOf'[q] = k
               PROVE  ToldOf(k, q)'
    BY DEF Roster
  <2>1. KeptUp(k) /\ roomOf[q] = k /\ log'[k] = log[k] /\ SamePlace(q)
    BY <1>24 DEF KeptUp, SamePlace, vars
  <2> QED BY <2>1, ToldQuiet
<1> QED
  BY <1>1, <1>2, <1>3, <1>4, <1>5, <1>6, <1>7, <1>8, <1>9, <1>10, <1>11, <1>12, <1>13, <1>14,
      <1>15, <1>16, <1>17, <1>18, <1>19, <1>20, <1>21, <1>22, <1>23, <1>24
  DEF Next, HostCleanup, GuestHandler

-----------------------------------------------------------------------------
(* The theorems *)

\* Nobody has connected yet.
LEMMA InitIInv == Init => IInv
<1> SUFFICES ASSUME Init PROVE IInv
  OBVIOUS
<1> USE RelayAssumption DEF Init, Conns
<1>1. TypeOK
  <2>1. <<>> \in Seq(Frame) /\ Len(<<>>) = 0
    OBVIOUS
  <2> QED BY <2>1, SMT DEF TypeOK, HostPhase, SockState
<1>2. Handlers /\ RoomIsItsHost /\ Rooms
  BY DEF Handlers, RoomIsItsHost, Rooms, HostPhase, GuestPhase, Unplaced
<1>3. QueuesShut /\ Blocking /\ Cleanup
  BY DEF QueuesShut, Blocking, Busy, Cleanup
<1>4. Senders /\ GenerationsIsolated
  BY DEF Senders, GenerationsIsolated
<1>5. Roster
  BY DEF Roster, KeptUp
<1> QED BY <1>1, <1>2, <1>3, <1>4, <1>5 DEF IInv

\* The inductive invariant is inductive.
LEMMA NextIInv == IInv /\ [Next]_vars => IInv'
BY TypeOKStep, HandlersStep, RoomIsItsHostStep, RoomsStep, QueuesShutStep, BlockingStep,
   CleanupStep, SendersStep, RosterStep DEF IInv

\* The inductive invariant holds of every behaviour of the relay.
THEOREM SpecIInv == Spec => []IInv
<1>1. Init => IInv
  BY InitIInv
<1>2. IInv /\ [Next]_vars => IInv'
  BY NextIInv
<1> QED BY <1>1, <1>2, PTL DEF Spec

\* Every variable of the relay stays in its range, and no send queue ever holds
\* more than its capacity.
THEOREM SpecTypeOK == Spec => []TypeOK
BY SpecIInv, PTL DEF IInv

\* A host relays exactly while its room is the one in the relay's map.
THEOREM SpecRoomIsItsHost == Spec => []RoomIsItsHost
BY SpecIInv, PTL DEF IInv

\* A relaying host never sends on a closed queue: a guest leaves the room before
\* its handler closes the queue.
THEOREM SpecMembersCanBeSent == Spec => []MembersCanBeSent
<1>1. IInv => MembersCanBeSent
  BY DEF IInv, Rooms, QueuesShut, MembersCanBeSent
<1> QED BY <1>1, SpecIInv, PTL

\* A guest only ever hears from the host it joined, and a host from the guests
\* that joined it, whatever hosts came before or after under the same room id.
THEOREM SpecGenerationsIsolated == Spec => []GenerationsIsolated
BY SpecIInv, PTL DEF IInv

\* Once a host's cleanup is over, a guest of its room that is still served is
\* one that came in after the cleanup took the guests out.
THEOREM SpecCleanupClosesMembers == Spec => []CleanupClosesMembers
<1>1. IInv => CleanupClosesMembers
  <2> SUFFICES ASSUME IInv, NEW h \in Hosts, phase[h] = "over", NEW g \in Guests,
                      roomOf[g] = h, phase[g] = "serving", ~Ended(g)
               PROVE  g \in members[h]
    BY DEF CleanupClosesMembers
  <2>1. toNotify[h] = {}
    BY DEF IInv, Cleanup
  <2> QED BY <2>1 DEF IInv, Cleanup
<1> QED BY <1>1, SpecIInv, PTL

\* A connected host that kept up was told of each guest of its room exactly once
\* that it joined and, once the guest is gone, that it left; the guest's data
\* lies between the two.
THEOREM SpecRosterAgrees == Spec => []RosterAgrees
<1>1. IInv => RosterAgrees
  <2> SUFFICES ASSUME IInv, NEW h \in Hosts, KeptUp(h), NEW g \in Guests, roomOf[g] = h
               PROVE  /\ phase[g] \in {"serving", "leaving", "parting"}
                           => Cardinality(Said(h, "joined", g)) = 1 /\ Said(h, "left", g) = {}
                      /\ phase[g] \in {"closing", "over"} => Cardinality(Said(h, "left", g)) = 1
                      /\ \A i \in Said(h, "data", g) :
                           /\ \A j \in Said(h, "joined", g) : j < i
                           /\ \A j \in Said(h, "left", g) : i < j
    BY DEF RosterAgrees
  <2>1. ToldOf(h, g)
    BY DEF IInv, Roster
  <2>2. \A i : Cardinality({i}) = 1
    BY FS_Singleton
  <2>3. \A S : (\E i \in Nat : S = {i}) => Cardinality(S) = 1
    BY <2>2
  <2> QED BY <2>1, <2>3, Zenon DEF ToldOf
<1> QED BY <1>1, SpecIInv, PTL
=============================================================================
