--------------------------- MODULE SessionRegistry ---------------------------
(***************************************************************************)
(* The dashboard's registry of remote sessions: the spool records, the     *)
(* memory of kills, the HTTP handlers that read and write them, and the    *)
(* wrapper of each session, which announces itself, sends heartbeats and   *)
(* stops when it is told to.                                               *)
(*                                                                         *)
(* A handler is split where the code lets another handler run between a    *)
(* read and the write that depends on it: the spool has no lock, so a      *)
(* record loaded by one request may be saved back after another request    *)
(* has rewritten or removed it.                                            *)
(*                                                                         *)
(* A session stands for its collab room; the record id is a hash of the    *)
(* room, so room and record id are one value here.  Time is counted in     *)
(* ticks, as ages that stop at the first value no comparison can tell from *)
(* a larger one.                                                           *)
(***************************************************************************)
EXTENDS Naturals, FiniteSets

CONSTANTS
  Sessions,     \* the remote sessions, one per collab room
  Healthy,      \* sessions whose wrapper is neither suspended nor cut off
  MaxSessions,  \* cap on live sessions, 0 for none
  RemoteTTL,    \* age at which a silent remote record is dead
  KeepEnded,    \* age up to which an ended record is kept
  KilledTTL,    \* age up to which a kill is remembered
  MaxKills,     \* bound: kill requests per session
  MaxFaults     \* bound: request timeouts and dashboard restarts

ASSUME RegistryAssumption ==
  /\ Healthy \subseteq Sessions
  /\ IsFiniteSet(Sessions)
  /\ MaxSessions \in Nat
  /\ RemoteTTL \in Nat /\ RemoteTTL > 1
  /\ KeepEnded \in Nat
  /\ KilledTTL \in Nat
  /\ MaxKills \in Nat
  /\ MaxFaults \in Nat

VARIABLES
  status,     \* what the record file of a session says, "absent" if no file
  age,        \* ticks since the record's UpdatedAt
  killedAge,  \* ticks since the kill was remembered
  doomed,     \* record files a listing has judged stale and not yet removed
  client,     \* what the wrapper of a session is doing
  beaten,     \* wrappers that completed a heartbeat since the last tick
  beat,       \* the heartbeat request of a session inside the dashboard
  reg,        \* the register request of a session inside the dashboard
  kill,       \* the kill request for a session inside the dashboard
  kills,      \* kill requests made so far, per session
  faults,     \* timeouts and restarts so far
  wasKilled   \* history: sessions some kill request got as far as recording

recordVars  == <<status, age, doomed>>
memoryVars  == <<killedAge, wasKilled>>
wrapperVars == <<client, beaten>>
requestVars == <<beat, reg, kill>>
boundVars   == <<kills, faults>>
vars == <<recordVars, memoryVars, wrapperVars, requestVars, boundVars>>

-----------------------------------------------------------------------------
(* Values *)

RecordStatus == {"absent", "starting", "ended"}
ClientState  == {"new", "launching", "idle", "beating", "forgotten",
                 "registering", "stopped", "exited"}
BeatState    == {"none", "sent", "loaded"}
RegState     == {"none", "sent", "checked", "admitted"}
KillState    == {"none", "found", "remembered"}

\* Wrappers whose omp has been started and still runs.
Running == {"idle", "beating", "forgotten", "registering"}

\* The least age beyond every threshold a record is compared with.
MaxAge == IF RemoteTTL > KeepEnded THEN RemoteTTL ELSE KeepEnded + 1

\* No entry and an expired entry of the kill memory answer alike: one value.
Forgotten == KilledTTL + 1
\* Mutant: the expiry test is off by one, so a missing entry counts.
RememberedOffByOne(s) == killedAge[s] <= KilledTTL + 1
Remembered(s) == killedAge[s] <= KilledTTL

Alive(s) == age[s] < RemoteTTL

\* Mutant: an ended record is not asked whether it is still fresh.
StaleButEnded == {s \in Sessions : status[s] = "starting" /\ ~Alive(s)}

\* The files a listing drops, and those it returns.
Stale == {s \in Sessions : /\ status[s] # "absent"
                           /\ ~Alive(s) \/ (status[s] = "ended" /\ age[s] > KeepEnded)}
Live  == {s \in Sessions : status[s] # "absent"} \ Stale

-----------------------------------------------------------------------------
Init ==
  /\ status = [s \in Sessions |-> "absent"]
  /\ age = [s \in Sessions |-> 0]
  /\ killedAge = [s \in Sessions |-> Forgotten]
  /\ doomed = {}
  /\ client = [s \in Sessions |-> "new"]
  /\ beaten = {}
  /\ beat = [s \in Sessions |-> "none"]
  /\ reg = [s \in Sessions |-> "none"]
  /\ kill = [s \in Sessions |-> "none"]
  /\ kills = [s \in Sessions |-> 0]
  /\ faults = 0
  /\ wasKilled = {}

-----------------------------------------------------------------------------
(* The spool *)

\* Save stamps UpdatedAt and renames the whole record into place.
Save(s, st) ==
  /\ status' = [status EXCEPT ![s] = st]
  /\ age' = [age EXCEPT ![s] = 0]

\* The listing half of Live: the directory is read and each record judged; the
\* stale files are removed one by one afterwards (RemoveStale).
ListLive == doomed' = doomed \cup Stale

\* Removes the file as it is now, whatever was read when it was judged.
RemoveStale(s) ==
  /\ s \in doomed
  /\ status' = [status EXCEPT ![s] = "absent"]
  /\ age' = [age EXCEPT ![s] = 0]
  /\ doomed' = doomed \ {s}
  /\ UNCHANGED <<memoryVars, wrapperVars, requestVars, boundVars>>

\* The session list, fetched by every open dashboard page on its timer.
ListSessions ==
  /\ ListLive
  /\ UNCHANGED <<status, age, memoryVars, wrapperVars, requestVars, boundVars>>

-----------------------------------------------------------------------------
(* The wrapper *)

\* Run announces the session before it starts omp.
Launch(s) ==
  /\ client[s] = "new"
  /\ client' = [client EXCEPT ![s] = "launching"]
  /\ reg' = [reg EXCEPT ![s] = "sent"]
  /\ UNCHANGED <<recordVars, memoryVars, beaten, beat, kill, boundVars>>

\* Watch's ticker fires.
SendHeartbeat(s) ==
  /\ client[s] = "idle"
  /\ beat[s] = "none"
  /\ client' = [client EXCEPT ![s] = "beating"]
  /\ beat' = [beat EXCEPT ![s] = "sent"]
  /\ UNCHANGED <<recordVars, memoryVars, beaten, reg, kill, boundVars>>

\* A 404 makes Watch announce the session again, under the same room.
SendRegister(s) ==
  /\ client[s] = "forgotten"
  /\ reg[s] = "none"
  /\ client' = [client EXCEPT ![s] = "registering"]
  /\ reg' = [reg EXCEPT ![s] = "sent"]
  /\ UNCHANGED <<recordVars, memoryVars, beaten, beat, kill, boundVars>>

\* omp ends by itself; End leaves the record to the dashboard.
Exit(s) ==
  /\ client[s] \in Running
  /\ client' = [client EXCEPT ![s] = "exited"]
  /\ UNCHANGED <<recordVars, memoryVars, beaten, requestVars, boundVars>>

\* What a failed register means to the wrapper: fatal before omp is started,
\* retried by a later heartbeat after that.
AfterFailedRegister(c) ==
  CASE c = "launching"   -> "exited"
    [] c = "registering" -> "idle"
    [] OTHER             -> c

\* The wrapper's 15 s limit on a request; the dashboard may still be handling
\* it.  A healthy wrapper's requests are answered in time.
Timeout(s) ==
  /\ s \notin Healthy
  /\ faults < MaxFaults
  /\ client[s] \in {"launching", "beating", "registering"}
  /\ client' = [client EXCEPT ![s] = IF @ = "beating" THEN "idle"
                                     ELSE AfterFailedRegister(@)]
  /\ faults' = faults + 1
  /\ UNCHANGED <<recordVars, memoryVars, beaten, requestVars, kills>>

\* An abandoned request may never reach the dashboard.
LoseRequest(s) ==
  /\ \/ /\ beat[s] = "sent" /\ client[s] # "beating"
        /\ beat' = [beat EXCEPT ![s] = "none"]
        /\ UNCHANGED reg
     \/ /\ reg[s] = "sent" /\ client[s] \notin {"launching", "registering"}
        /\ reg' = [reg EXCEPT ![s] = "none"]
        /\ UNCHANGED beat
  /\ UNCHANGED <<recordVars, memoryVars, wrapperVars, kill, boundVars>>

\* The wrapper reads the answer to its heartbeat, if it still waits for it.
AnswerHeartbeat(s, next) ==
  /\ beat' = [beat EXCEPT ![s] = "none"]
  /\ IF client[s] = "beating"
     THEN /\ client' = [client EXCEPT ![s] = next]
          /\ beaten' = beaten \cup {s}
     ELSE UNCHANGED <<client, beaten>>

\* The wrapper reads the answer to its register request, if it still waits.
AnswerRegister(s, ok) ==
  /\ reg' = [reg EXCEPT ![s] = "none"]
  /\ client' = [client EXCEPT ![s] =
                  IF ok /\ @ \in {"launching", "registering"} THEN "idle"
                  ELSE AfterFailedRegister(@)]

-----------------------------------------------------------------------------
(* handleRemotePane: the heartbeat *)

\* Mutants: a missing record always means stop; always means 404; is acknowledged.
HeartbeatMissingStops(s) ==
  /\ beat[s] = "sent" /\ status[s] = "absent"
  /\ AnswerHeartbeat(s, "stopped")
  /\ UNCHANGED <<recordVars, memoryVars, reg, kill, boundVars>>
HeartbeatMissingForgets(s) ==
  /\ beat[s] = "sent" /\ status[s] = "absent"
  /\ AnswerHeartbeat(s, "forgotten")
  /\ UNCHANGED <<recordVars, memoryVars, reg, kill, boundVars>>
HeartbeatMissingAcks(s) ==
  /\ beat[s] = "sent" /\ status[s] = "absent"
  /\ AnswerHeartbeat(s, "idle")
  /\ UNCHANGED <<recordVars, memoryVars, reg, kill, boundVars>>

\* Load fails: a remembered kill is answered with stop, anything else with 404.
HeartbeatMissing(s) ==
  /\ beat[s] = "sent"
  /\ status[s] = "absent"
  /\ AnswerHeartbeat(s, IF Remembered(s) THEN "stopped" ELSE "forgotten")
  /\ UNCHANGED <<recordVars, memoryVars, reg, kill, boundVars>>

\* Mutant: the heartbeat refreshes the ended record before it answers.
HeartbeatEndedBumps(s) ==
  /\ beat[s] = "sent" /\ status[s] = "ended"
  /\ Save(s, "ended")
  /\ AnswerHeartbeat(s, "stopped")
  /\ UNCHANGED <<doomed, memoryVars, reg, kill, boundVars>>

\* The record says ended: stop, and leave the record's clock alone.
HeartbeatEnded(s) ==
  /\ beat[s] = "sent"
  /\ status[s] = "ended"
  /\ AnswerHeartbeat(s, "stopped")
  /\ UNCHANGED <<recordVars, memoryVars, reg, kill, boundVars>>

\* The record is held in memory while the request body is read.
HeartbeatLoad(s) ==
  /\ beat[s] = "sent"
  /\ status[s] = "starting"
  /\ beat' = [beat EXCEPT ![s] = "loaded"]
  /\ UNCHANGED <<recordVars, memoryVars, wrapperVars, reg, kill, boundVars>>

\* Mutant: the heartbeat is acknowledged without touching the record.
HeartbeatSaveSkipped(s) ==
  /\ beat[s] = "loaded"
  /\ AnswerHeartbeat(s, "idle")
  /\ UNCHANGED <<recordVars, memoryVars, reg, kill, boundVars>>

\* The record as it was loaded is written back with a new UpdatedAt.
HeartbeatSave(s) ==
  /\ beat[s] = "loaded"
  /\ Save(s, "starting")
  /\ AnswerHeartbeat(s, "idle")
  /\ UNCHANGED <<doomed, memoryVars, reg, kill, boundVars>>

\* The wrapper hung up before its body was read.
HeartbeatAbort(s) ==
  /\ beat[s] = "loaded"
  /\ client[s] # "beating"
  /\ beat' = [beat EXCEPT ![s] = "none"]
  /\ UNCHANGED <<recordVars, memoryVars, wrapperVars, reg, kill, boundVars>>

-----------------------------------------------------------------------------
(* handleRegister *)

\* Mutant: the kill memory is not consulted.
RegisterCheckSkipped(s) ==
  /\ reg[s] = "sent"
  /\ reg' = [reg EXCEPT ![s] = "checked"]
  /\ UNCHANGED <<recordVars, memoryVars, wrapperVars, beat, kill, boundVars>>

RegisterCheck(s) ==
  /\ reg[s] = "sent"
  /\ ~Remembered(s)
  /\ reg' = [reg EXCEPT ![s] = "checked"]
  /\ UNCHANGED <<recordVars, memoryVars, wrapperVars, beat, kill, boundVars>>

RegisterKilled(s) ==
  /\ reg[s] = "sent"
  /\ Remembered(s)
  /\ AnswerRegister(s, FALSE)
  /\ UNCHANGED <<recordVars, memoryVars, beaten, beat, kill, boundVars>>

\* A reclaimed record is not charged against the cap.
RegisterReclaim(s) ==
  /\ reg[s] = "checked"
  /\ MaxSessions = 0 \/ status[s] # "absent"
  /\ reg' = [reg EXCEPT ![s] = "admitted"]
  /\ UNCHANGED <<recordVars, memoryVars, wrapperVars, beat, kill, boundVars>>

RegisterCharge(s) ==
  /\ reg[s] = "checked"
  /\ MaxSessions > 0 /\ status[s] = "absent"
  /\ ListLive
  /\ IF Cardinality(Live) < MaxSessions
     THEN /\ reg' = [reg EXCEPT ![s] = "admitted"]
          /\ UNCHANGED client
     ELSE AnswerRegister(s, FALSE)
  /\ UNCHANGED <<status, age, memoryVars, beaten, beat, kill, boundVars>>

RegisterSave(s) ==
  /\ reg[s] = "admitted"
  /\ Save(s, "starting")
  /\ AnswerRegister(s, TRUE)
  /\ UNCHANGED <<doomed, memoryVars, beaten, beat, kill, boundVars>>

-----------------------------------------------------------------------------
(* handleKill, by a caller who may manage the session *)

\* liveRecord lists the spool; a session it does not return is a 404.
KillFind(s) ==
  /\ kill[s] = "none"
  /\ kills[s] < MaxKills
  /\ kills' = [kills EXCEPT ![s] = @ + 1]
  /\ ListLive
  /\ kill' = [kill EXCEPT ![s] = IF s \in Live THEN "found" ELSE "none"]
  /\ UNCHANGED <<status, age, memoryVars, wrapperVars, beat, reg, faults>>

KillRemember(s) ==
  /\ kill[s] = "found"
  /\ killedAge' = [killedAge EXCEPT ![s] = 0]
  /\ wasKilled' = wasKilled \cup {s}
  /\ kill' = [kill EXCEPT ![s] = "remembered"]
  /\ UNCHANGED <<recordVars, wrapperVars, beat, reg, boundVars>>

\* The record as it was listed is written back as ended.
KillSave(s) ==
  /\ kill[s] = "remembered"
  /\ Save(s, "ended")
  /\ kill' = [kill EXCEPT ![s] = "none"]
  /\ UNCHANGED <<doomed, memoryVars, wrapperVars, beat, reg, boundVars>>

-----------------------------------------------------------------------------
(* The environment *)

\* A heartbeat interval is well below a tick: no tick passes over a healthy
\* running wrapper that has not completed one.
Tick ==
  /\ \A s \in Healthy : client[s] \in Running => s \in beaten
  /\ age' = [s \in Sessions |-> IF status[s] # "absent" /\ age[s] < MaxAge
                                THEN age[s] + 1 ELSE age[s]]
  /\ killedAge' = [s \in Sessions |-> IF Remembered(s) THEN killedAge[s] + 1
                                      ELSE killedAge[s]]
  /\ beaten' = {}
  /\ UNCHANGED <<status, doomed, wasKilled, client, requestVars, boundVars>>

\* The dashboard process dies and comes back: records are files and survive,
\* the kill memory and every request in progress do not.
Restart ==
  /\ faults < MaxFaults
  /\ faults' = faults + 1
  /\ killedAge' = [s \in Sessions |-> Forgotten]
  /\ doomed' = {}
  /\ beat' = [s \in Sessions |-> "none"]
  /\ reg' = [s \in Sessions |-> "none"]
  /\ kill' = [s \in Sessions |-> "none"]
  /\ client' = [s \in Sessions |-> IF client[s] = "beating" THEN "idle"
                                   ELSE AfterFailedRegister(client[s])]
  /\ UNCHANGED <<status, age, wasKilled, beaten, kills>>

-----------------------------------------------------------------------------
Heartbeat(s) == \/ HeartbeatMissing(s) \/ HeartbeatEnded(s) \/ HeartbeatLoad(s)
                \/ HeartbeatSave(s)
Register(s)  == \/ RegisterCheck(s) \/ RegisterKilled(s) \/ RegisterReclaim(s)
                \/ RegisterCharge(s) \/ RegisterSave(s)
FinishKill(s) == KillRemember(s) \/ KillSave(s)
Wrapper(s) == SendHeartbeat(s) \/ SendRegister(s)

SessionStep(s) ==
  \/ Launch(s) \/ Wrapper(s) \/ Exit(s) \/ Timeout(s) \/ LoseRequest(s)
  \/ Heartbeat(s) \/ HeartbeatAbort(s)
  \/ Register(s)
  \/ KillFind(s) \/ FinishKill(s)
  \/ RemoveStale(s)

Next == ListSessions \/ Tick \/ Restart \/ \E s \in Sessions : SessionStep(s)

\* The wrapper's ticker and the dashboard's handlers run to completion, time
\* passes, and some dashboard page stays open to fetch the list.
Fairness ==
  /\ WF_vars(Tick)
  /\ WF_vars(ListSessions)
  /\ \A s \in Sessions :
       /\ WF_vars(Wrapper(s))
       /\ WF_vars(Heartbeat(s))
       /\ WF_vars(Register(s))
       /\ WF_vars(FinishKill(s))
       /\ WF_vars(RemoveStale(s))

Spec == Init /\ [][Next]_vars
FairSpec == Spec /\ Fairness

-----------------------------------------------------------------------------
(* Properties *)

\* Every variable stays in its range; ages never pass the values at which
\* Alive, KeepEnded and KilledTTL stop telling them apart.
TypeOK ==
  /\ status \in [Sessions -> RecordStatus]
  /\ age \in [Sessions -> 0..MaxAge]
  /\ killedAge \in [Sessions -> 0..Forgotten]
  /\ doomed \subseteq Sessions
  /\ client \in [Sessions -> ClientState]
  /\ beaten \subseteq Sessions
  /\ beat \in [Sessions -> BeatState]
  /\ reg \in [Sessions -> RegState]
  /\ kill \in [Sessions -> KillState]
  /\ kills \in [Sessions -> 0..MaxKills]
  /\ faults \in 0..MaxFaults
  /\ wasKilled \subseteq Sessions

\* No wrapper is ever told to stop a session nobody killed: neither a stale
\* answer, nor a pruned record, nor a restarted dashboard ends somebody's omp.
StopOnlyAfterKill == \A s \in Sessions : client[s] = "stopped" => s \in wasKilled

\* The record of a session whose wrapper is up and reachable stays in the list
\* however listings, removals, restarts and its own late requests interleave.
HealthyStaysListed ==
  \A s \in Healthy : client[s] \in {"idle", "beating"} /\ s \notin wasKilled
                       => status[s] = "starting" /\ s \notin doomed

\* A remembered kill with no request left in the dashboard that was let in
\* before the kill was remembered.
Quiet(s) ==
  /\ Remembered(s)
  /\ status[s] # "starting"
  /\ beat[s] # "loaded"
  /\ reg[s] \notin {"checked", "admitted"}

\* Once a killed session is quiet, nothing brings it back for as long as the
\* kill is remembered: not its wrapper's heartbeats or announcements, not the
\* pruning of its ended record, not another kill.
QuietStaysQuiet ==
  [][\A s \in Sessions : Quiet(s) /\ Remembered(s)' => Quiet(s)']_vars

\* A wrapper that asks about a quiet killed session is never told that the
\* dashboard forgot it, pruned record or not, so it does not announce itself.
QuietWrapperNotForgotten ==
  [][\A s \in Sessions : Quiet(s) /\ client[s] = "beating"
                            => client'[s] # "forgotten"]_vars

\* Nothing but another kill refreshes the clock of an ended record, so the
\* heartbeats that keep coming do not keep it in the list.
EndedClockOnlyMovedByKill ==
  [][\A s \in Sessions :
       status[s] = "ended" /\ status'[s] = "ended" /\ kill[s] # "remembered"
         => age'[s] >= age[s]]_vars

\* A healthy wrapper of a quiet killed session stops if at least a tick of the
\* kill memory is left, unless a restart of the dashboard forgets the kill.
KilledWrapperStops ==
  \A s \in Healthy : \A n \in 0..MaxFaults :
    Quiet(s) /\ killedAge[s] < KilledTTL /\ client[s] \in Running /\ faults = n
      ~> client[s] \in {"stopped", "exited"} \/ faults > n

\* A record the dashboard lost while the wrapper of a session runs comes back:
\* the wrapper is told and announces the session again.
RunningIsReannounced ==
  \A s \in Sessions :
    client[s] \in Running
      ~> status[s] = "starting" \/ client[s] \in {"stopped", "exited"} \/ s \in wasKilled

\* An ended record leaves the spool.
EndedIsPruned == \A s \in Sessions : status[s] = "ended" ~> status[s] # "ended"

\* killed.go: a kill sticks, and a killed session does not come back, while it
\* is remembered and once the kill request has been answered.
KillSticks ==
  \A s \in Sessions : Remembered(s) /\ kill[s] = "none" => status[s] # "starting"
=============================================================================
