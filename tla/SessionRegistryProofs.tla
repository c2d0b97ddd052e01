------------------------ MODULE SessionRegistryProofs ------------------------
(***************************************************************************)
(* Theorems about SessionRegistry, for every set of sessions and every     *)
(* value of the thresholds and bounds.                                     *)
(***************************************************************************)
EXTENDS SessionRegistry, TLAPS

(* The thresholds and ages are natural numbers. *)
LEMMA Thresholds ==
  /\ MaxAge \in Nat /\ MaxAge >= RemoteTTL /\ MaxAge > KeepEnded
  /\ Forgotten \in Nat /\ Forgotten > KilledTTL
BY RegistryAssumption DEF MaxAge, Forgotten

(* A failed register leaves the wrapper in one of its states. *)
LEMMA FailedRegisterType ==
  ASSUME NEW c \in ClientState PROVE AfterFailedRegister(c) \in ClientState
BY DEF ClientState, AfterFailedRegister

-----------------------------------------------------------------------------
(* Type correctness *)

\* No session has been launched yet.
LEMMA InitType == Init => TypeOK
BY Thresholds, RegistryAssumption
   DEF Init, TypeOK, RecordStatus, ClientState, BeatState, RegState, KillState

(* Every step of one session's wrapper or requests keeps the types. *)
LEMMA SessionStepType ==
  ASSUME TypeOK, NEW s \in Sessions, SessionStep(s) PROVE TypeOK'
<1> USE Thresholds, RegistryAssumption DEF TypeOK, recordVars, memoryVars,
      wrapperVars, requestVars, boundVars
<1>1. CASE Launch(s)
  BY <1>1 DEF Launch, ClientState, RegState
<1>2. CASE Wrapper(s)
  BY <1>2 DEF Wrapper, SendHeartbeat, SendRegister, ClientState, BeatState, RegState
<1>3. CASE Exit(s)
  BY <1>3 DEF Exit, ClientState
<1>4. CASE Timeout(s)
  <2>1. client' \in [Sessions -> ClientState]
    <3>1. AfterFailedRegister(client[s]) \in ClientState /\ "idle" \in ClientState
      BY FailedRegisterType DEF ClientState
    <3>2. QED BY <3>1, <1>4 DEF Timeout
  <2>2. faults' \in 0..MaxFaults
    BY <1>4 DEF Timeout
  <2>3. QED BY <2>1, <2>2, <1>4 DEF Timeout
<1>5. CASE LoseRequest(s)
  BY <1>5 DEF LoseRequest, BeatState, RegState
<1>6. CASE Heartbeat(s)
  BY <1>6 DEF Heartbeat, HeartbeatMissing, HeartbeatEnded, HeartbeatLoad, HeartbeatSave,
       AnswerHeartbeat, Save, ClientState, BeatState, RecordStatus
<1>7. CASE HeartbeatAbort(s)
  BY <1>7 DEF HeartbeatAbort, BeatState
<1>8. CASE Register(s)
  <2>1. AfterFailedRegister(client[s]) \in ClientState /\ "idle" \in ClientState
    BY FailedRegisterType DEF ClientState
  <2>2. ASSUME NEW ok \in BOOLEAN, AnswerRegister(s, ok)
        PROVE  client' \in [Sessions -> ClientState] /\ reg' \in [Sessions -> RegState]
    BY <2>1, <2>2 DEF AnswerRegister, RegState
  <2>3. CASE RegisterCheck(s) BY <2>3 DEF RegisterCheck, RegState
  <2>4. CASE RegisterKilled(s) BY <2>2, <2>4 DEF RegisterKilled
  <2>5. CASE RegisterReclaim(s) BY <2>5 DEF RegisterReclaim, RegState
  <2>6. CASE RegisterCharge(s)
    <3>1. client' \in [Sessions -> ClientState] /\ reg' \in [Sessions -> RegState]
      BY <2>2, <2>6 DEF RegisterCharge, RegState
    <3>2. doomed' \subseteq Sessions
      BY <2>6 DEF RegisterCharge, ListLive, Stale
    <3>3. QED BY <3>1, <3>2, <2>6 DEF RegisterCharge
  <2>7. CASE RegisterSave(s)
    <3>1. client' \in [Sessions -> ClientState] /\ reg' \in [Sessions -> RegState]
      BY <2>2, <2>7 DEF RegisterSave
    <3>2. status' \in [Sessions -> RecordStatus] /\ age' \in [Sessions -> 0..MaxAge]
      BY <2>7 DEF RegisterSave, Save, RecordStatus
    <3>3. QED BY <3>1, <3>2, <2>7 DEF RegisterSave
  <2>8. QED BY <1>8, <2>3, <2>4, <2>5, <2>6, <2>7 DEF Register
<1>9. CASE KillFind(s)
  <2>1. kills' \in [Sessions -> 0..MaxKills]
    BY <1>9 DEF KillFind
  <2>2. kill' \in [Sessions -> KillState] /\ doomed' \subseteq Sessions
    BY <1>9 DEF KillFind, KillState, ListLive, Stale
  <2>3. QED BY <2>1, <2>2, <1>9 DEF KillFind
<1>10. CASE FinishKill(s)
  BY <1>10 DEF FinishKill, KillRemember, KillSave, Save, KillState, RecordStatus
<1>11. CASE RemoveStale(s)
  BY <1>11 DEF RemoveStale, RecordStatus
<1>12. QED
  BY <1>1, <1>2, <1>3, <1>4, <1>5, <1>6, <1>7, <1>8, <1>9, <1>10, <1>11 DEF SessionStep

(* So do the listing, the clock and the restart of the dashboard. *)
LEMMA NextType == TypeOK /\ [Next]_vars => TypeOK'
<1> SUFFICES ASSUME TypeOK, [Next]_vars PROVE TypeOK'
  OBVIOUS
<1> USE Thresholds, RegistryAssumption DEF TypeOK, recordVars, memoryVars,
      wrapperVars, requestVars, boundVars
<1>1. CASE ListSessions
  BY <1>1 DEF ListSessions, ListLive, Stale
<1>2. CASE Tick
  <2>1. age' \in [Sessions -> 0..MaxAge]
    BY <1>2 DEF Tick
  <2>2. killedAge' \in [Sessions -> 0..Forgotten]
    BY <1>2 DEF Tick, Remembered, Forgotten
  <2>3. QED BY <2>1, <2>2, <1>2 DEF Tick
<1>3. CASE Restart
  <2>1. client' \in [Sessions -> ClientState]
    <3>1. \A s \in Sessions :
            AfterFailedRegister(client[s]) \in ClientState /\ "idle" \in ClientState
      BY FailedRegisterType DEF ClientState
    <3>2. QED BY <3>1, <1>3 DEF Restart
  <2>2. /\ beat' \in [Sessions -> BeatState]
        /\ reg' \in [Sessions -> RegState]
        /\ kill' \in [Sessions -> KillState]
        /\ killedAge' \in [Sessions -> 0..Forgotten]
        /\ faults' \in 0..MaxFaults
    BY <1>3 DEF Restart, BeatState, RegState, KillState
  <2>3. QED BY <2>1, <2>2, <1>3 DEF Restart
<1>4. CASE \E s \in Sessions : SessionStep(s)
  BY <1>4, SessionStepType
<1>5. CASE UNCHANGED vars
  BY <1>5 DEF vars
<1>6. QED BY <1>1, <1>2, <1>3, <1>4, <1>5 DEF Next

(* Type correctness: ages and request states stay in their ranges. *)
THEOREM SpecTypeOK == Spec => []TypeOK
<1>1. QED BY InitType, NextType, PTL DEF Spec

-----------------------------------------------------------------------------
(* Stopping *)

(* Every trace a kill leaves, in the kill memory, in a request, in the record *)
(* or in the wrapper, is of a session that was killed.                        *)
KillTraces ==
  \A s \in Sessions :
    \/ client[s] = "stopped"
    \/ status[s] = "ended"
    \/ Remembered(s)
    \/ kill[s] = "remembered"
    => s \in wasKilled

(* Every step of one session leaves no trace of a kill that did not happen. *)
LEMMA SessionStepKillTraces ==
  ASSUME TypeOK, KillTraces, NEW s \in Sessions, SessionStep(s) PROVE KillTraces'
<1> USE DEF TypeOK, KillTraces, Remembered, recordVars, memoryVars, wrapperVars,
      requestVars, boundVars
<1>0. \A c \in ClientState : AfterFailedRegister(c) = "stopped" => c = "stopped"
  BY DEF AfterFailedRegister
<1>1. CASE Launch(s) BY <1>1 DEF Launch
<1>2. CASE Wrapper(s) BY <1>2 DEF Wrapper, SendHeartbeat, SendRegister
<1>3. CASE Exit(s) BY <1>3 DEF Exit
<1>4. CASE Timeout(s) BY <1>0, <1>4 DEF Timeout
<1>5. CASE LoseRequest(s) BY <1>5 DEF LoseRequest
<1>6. CASE HeartbeatMissing(s) BY <1>6 DEF HeartbeatMissing, AnswerHeartbeat
<1>7. CASE HeartbeatEnded(s) BY <1>7 DEF HeartbeatEnded, AnswerHeartbeat
<1>8. CASE HeartbeatLoad(s) BY <1>8 DEF HeartbeatLoad
<1>9. CASE HeartbeatSave(s) BY <1>9 DEF HeartbeatSave, Save, AnswerHeartbeat
<1>10. CASE HeartbeatAbort(s) BY <1>10 DEF HeartbeatAbort
<1>11. CASE Register(s)
  <2>1. ASSUME NEW ok \in BOOLEAN, AnswerRegister(s, ok)
        PROVE  \A t \in Sessions : client'[t] = "stopped" => client[t] = "stopped"
    BY <1>0, <2>1 DEF AnswerRegister
  <2>2. CASE RegisterCheck(s) BY <2>2 DEF RegisterCheck
  <2>3. CASE RegisterKilled(s) BY <2>1, <2>3 DEF RegisterKilled
  <2>4. CASE RegisterReclaim(s) BY <2>4 DEF RegisterReclaim
  <2>5. CASE RegisterCharge(s) BY <2>1, <2>5 DEF RegisterCharge
  <2>6. CASE RegisterSave(s)
    <3>1. \A t \in Sessions : status'[t] = "ended" => status[t] = "ended"
      BY <2>6 DEF RegisterSave, Save
    <3>2. \A t \in Sessions : client'[t] = "stopped" => client[t] = "stopped"
      BY <2>1, <2>6 DEF RegisterSave
    <3>3. QED BY <3>1, <3>2, <2>6 DEF RegisterSave
  <2>7. QED BY <1>11, <2>2, <2>3, <2>4, <2>5, <2>6 DEF Register
<1>12. CASE KillFind(s) BY <1>12 DEF KillFind
<1>13. CASE FinishKill(s) BY <1>13 DEF FinishKill, KillRemember, KillSave, Save
<1>14. CASE RemoveStale(s) BY <1>14 DEF RemoveStale
<1>15. QED
  BY <1>1, <1>2, <1>3, <1>4, <1>5, <1>6, <1>7, <1>8, <1>9, <1>10, <1>11, <1>12, <1>13,
     <1>14 DEF SessionStep, Heartbeat

(* Neither do the listing, the clock and the restart. *)
LEMMA NextKillTraces == TypeOK /\ KillTraces /\ [Next]_vars => KillTraces'
<1> SUFFICES ASSUME TypeOK, KillTraces, [Next]_vars PROVE KillTraces'
  OBVIOUS
<1> USE DEF TypeOK, KillTraces, Remembered, recordVars, memoryVars, wrapperVars,
      requestVars, boundVars
<1>1. CASE ListSessions BY <1>1 DEF ListSessions
<1>2. CASE Tick BY <1>2, Thresholds DEF Tick
<1>3. CASE Restart
  <2>1. \A s \in Sessions : client'[s] = "stopped" => client[s] = "stopped"
    BY <1>3 DEF Restart, AfterFailedRegister
  <2>2. \A s \in Sessions : ~Remembered(s)' /\ kill'[s] # "remembered"
    BY <1>3, Thresholds, RegistryAssumption DEF Restart
  <2>3. QED BY <1>3, <2>1, <2>2 DEF Restart
<1>4. CASE \E s \in Sessions : SessionStep(s) BY <1>4, SessionStepKillTraces
<1>5. CASE UNCHANGED vars BY <1>5 DEF vars
<1>6. QED BY <1>1, <1>2, <1>3, <1>4, <1>5 DEF Next

(* Traces of kills are of killed sessions, in every reachable state. *)
LEMMA SpecKillTraces == Spec => []KillTraces
<1>1. Init => KillTraces
  BY Thresholds, RegistryAssumption DEF Init, KillTraces, Remembered
<1>2. QED BY <1>1, NextKillTraces, SpecTypeOK, PTL DEF Spec

(* A wrapper stops its agent on the dashboard's word only if someone asked *)
(* for the session to be killed.                                           *)
THEOREM SpecStopOnlyAfterKill == Spec => []StopOnlyAfterKill
<1>1. KillTraces => StopOnlyAfterKill
  BY DEF KillTraces, StopOnlyAfterKill
<1>2. QED BY <1>1, SpecKillTraces, PTL

-----------------------------------------------------------------------------
(* A quiet killed session stays killed *)

(* One session's step leaves every other session's record, memory and *)
(* requests alone, and its own quiet if it was.                       *)
LEMMA SessionStepQuiet ==
  ASSUME TypeOK, NEW s \in Sessions, SessionStep(s),
         NEW t \in Sessions, Quiet(t), Remembered(t)'
  PROVE  Quiet(t)'
<1> USE DEF TypeOK, Quiet, recordVars, memoryVars, wrapperVars, requestVars, boundVars
<1>1. CASE Launch(s) BY <1>1 DEF Launch
<1>2. CASE Wrapper(s) BY <1>2 DEF Wrapper, SendHeartbeat, SendRegister
<1>3. CASE Exit(s) BY <1>3 DEF Exit
<1>4. CASE Timeout(s) BY <1>4 DEF Timeout
<1>5. CASE LoseRequest(s) BY <1>5 DEF LoseRequest
<1>6. CASE Heartbeat(s) \/ HeartbeatAbort(s)
  BY <1>6 DEF Heartbeat, HeartbeatMissing, HeartbeatEnded, HeartbeatLoad, HeartbeatSave,
       HeartbeatAbort, AnswerHeartbeat, Save
<1>7. CASE Register(s)
  BY <1>7 DEF Register, RegisterCheck, RegisterKilled, RegisterReclaim, RegisterCharge,
       RegisterSave, AnswerRegister, Save
<1>8. CASE KillFind(s) BY <1>8 DEF KillFind
<1>9. CASE FinishKill(s) BY <1>9 DEF FinishKill, KillRemember, KillSave, Save
<1>10. CASE RemoveStale(s) BY <1>10 DEF RemoveStale
<1>11. QED
  BY <1>1, <1>2, <1>3, <1>4, <1>5, <1>6, <1>7, <1>8, <1>9, <1>10 DEF SessionStep

(* Nothing brings a quiet killed session back while its kill is remembered. *)
THEOREM SpecQuietStaysQuiet == Spec => QuietStaysQuiet
<1>1. ASSUME TypeOK, [Next]_vars, NEW t \in Sessions, Quiet(t), Remembered(t)'
      PROVE  Quiet(t)'
  <2> USE <1>1 DEF recordVars, memoryVars, wrapperVars, requestVars, boundVars
  <2>1. CASE \E s \in Sessions : SessionStep(s) BY <2>1, SessionStepQuiet
  <2>2. CASE Restart BY <2>2 DEF Restart, Quiet
  <2>3. CASE ListSessions \/ UNCHANGED vars
    BY <2>3 DEF ListSessions, vars, Quiet, Remembered
  <2>4. CASE Tick BY <2>4 DEF Tick, Quiet
  <2> QED BY <2>1, <2>2, <2>3, <2>4 DEF Next
<1>2. TypeOK /\ [Next]_vars =>
        [\A s \in Sessions : Quiet(s) /\ Remembered(s)' => Quiet(s)']_vars
  BY <1>1
<1>3. QED BY <1>2, SpecTypeOK, PTL DEF Spec, QuietStaysQuiet

(* No step of a session forgets the wrapper of a quiet one: handleRemotePane  *)
(* asks the kill memory before it answers that there is no such session.      *)
LEMMA SessionStepKnowsQuiet ==
  ASSUME TypeOK, NEW t \in Sessions, Quiet(t), client[t] = "beating",
         NEW s \in Sessions, SessionStep(s)
  PROVE  client'[t] # "forgotten"
<1> USE DEF TypeOK, Quiet, recordVars, memoryVars, wrapperVars, requestVars, boundVars
<1>1. CASE Launch(s) BY <1>1 DEF Launch
<1>2. CASE Wrapper(s) \/ Exit(s)
  BY <1>2 DEF Wrapper, SendHeartbeat, SendRegister, Exit
<1>3. CASE Timeout(s) \/ LoseRequest(s) BY <1>3 DEF Timeout, LoseRequest
<1>4. CASE Heartbeat(s) \/ HeartbeatAbort(s)
  BY <1>4 DEF Heartbeat, HeartbeatMissing, HeartbeatEnded, HeartbeatLoad,
       HeartbeatSave, HeartbeatAbort, AnswerHeartbeat
<1>5. CASE Register(s)
  <2>1. ASSUME NEW ok \in BOOLEAN, AnswerRegister(s, ok)
        PROVE  client'[t] # "forgotten"
    BY <2>1 DEF AnswerRegister, AfterFailedRegister
  <2> QED
    BY <1>5, <2>1 DEF Register, RegisterCheck, RegisterKilled, RegisterReclaim,
         RegisterCharge, RegisterSave
<1>6. CASE KillFind(s) \/ FinishKill(s) \/ RemoveStale(s)
  BY <1>6 DEF KillFind, FinishKill, KillRemember, KillSave, RemoveStale
<1> QED BY <1>1, <1>2, <1>3, <1>4, <1>5, <1>6 DEF SessionStep

(* Its wrapper is never told that the dashboard forgot it. *)
THEOREM SpecQuietWrapperNotForgotten == Spec => QuietWrapperNotForgotten
<1>1. ASSUME TypeOK, [Next]_vars, NEW t \in Sessions, Quiet(t), client[t] = "beating"
      PROVE  client'[t] # "forgotten"
  <2>1. CASE \E s \in Sessions : SessionStep(s)
    BY <1>1, <2>1, SessionStepKnowsQuiet
  <2>2. CASE Restart
    BY <1>1, <2>2 DEF Restart, TypeOK
  <2>3. CASE ListSessions \/ Tick \/ UNCHANGED vars
    BY <1>1, <2>3 DEF ListSessions, Tick, vars, wrapperVars
  <2> QED BY <1>1, <2>1, <2>2, <2>3 DEF Next
<1>2. TypeOK /\ [Next]_vars =>
        [\A s \in Sessions : Quiet(s) /\ client[s] = "beating"
                               => client'[s] # "forgotten"]_vars
  BY <1>1
<1>3. QED BY <1>2, SpecTypeOK, PTL DEF Spec, QuietWrapperNotForgotten

-----------------------------------------------------------------------------
(* A healthy session stays listed *)

(* The strengthening of HealthyStaysListed.  Until a healthy wrapper has its *)
(* first answer there is no record of it and no heartbeat; from then on its  *)
(* record is at most one tick old, and fresh if a heartbeat has completed    *)
(* since the last tick, so no listing finds it stale.                        *)
HealthyStart(h) ==
  client[h] \in {"new", "launching"} =>
    /\ status[h] = "absent" /\ beat[h] = "none" /\ h \notin doomed
    /\ client[h] = "new" => reg[h] = "none"

HealthyListed(h) ==
  client[h] \in {"idle", "beating"} =>
    /\ status[h] = "starting" /\ h \notin doomed
    /\ age[h] <= 1
    /\ h \in beaten => age[h] = 0

HealthyOK(h) ==
  h \notin wasKilled =>
    /\ client[h] \notin {"forgotten", "registering", "stopped"}
    /\ HealthyStart(h)
    /\ HealthyListed(h)

HealthyInv == \A h \in Healthy : HealthyOK(h)

(* A listing does not judge a record stale that is at most a tick old. *)
LEMMA FreshIsNotStale ==
  ASSUME NEW s \in Sessions, status[s] = "absent" \/ (status[s] = "starting" /\ age[s] \in 0..1)
  PROVE  s \notin Stale
BY RegistryAssumption DEF Stale, Alive

(* What a session's step does to another session: at most it marks it as stale. *)
LEMMA SessionStepFrame ==
  ASSUME TypeOK, NEW s \in Sessions, SessionStep(s), NEW h \in Sessions, h # s
  PROVE  /\ client'[h] = client[h] /\ status'[h] = status[h] /\ age'[h] = age[h]
         /\ beat'[h] = beat[h] /\ reg'[h] = reg[h]
         /\ h \in beaten' <=> h \in beaten
         /\ h \in wasKilled' <=> h \in wasKilled
         /\ h \in doomed' => h \in doomed \/ h \in Stale
<1> USE DEF TypeOK, recordVars, memoryVars, wrapperVars, requestVars, boundVars
<1>1. CASE Launch(s) BY <1>1 DEF Launch
<1>2. CASE Wrapper(s) BY <1>2 DEF Wrapper, SendHeartbeat, SendRegister
<1>3. CASE Exit(s) BY <1>3 DEF Exit
<1>4. CASE Timeout(s) BY <1>4 DEF Timeout
<1>5. CASE LoseRequest(s) BY <1>5 DEF LoseRequest
<1>6. CASE Heartbeat(s) \/ HeartbeatAbort(s)
  BY <1>6 DEF Heartbeat, HeartbeatMissing, HeartbeatEnded, HeartbeatLoad, HeartbeatSave,
       HeartbeatAbort, AnswerHeartbeat, Save
<1>7. CASE Register(s)
  BY <1>7 DEF Register, RegisterCheck, RegisterKilled, RegisterReclaim, RegisterCharge,
       RegisterSave, AnswerRegister, Save, ListLive
<1>8. CASE KillFind(s) BY <1>8 DEF KillFind, ListLive
<1>9. CASE FinishKill(s) BY <1>9 DEF FinishKill, KillRemember, KillSave, Save
<1>10. CASE RemoveStale(s) BY <1>10 DEF RemoveStale
<1>11. QED
  BY <1>1, <1>2, <1>3, <1>4, <1>5, <1>6, <1>7, <1>8, <1>9, <1>10 DEF SessionStep

(* A session that is fine and not killed is not stale. *)
LEMMA HealthyNotStale ==
  ASSUME TypeOK, NEW h \in Sessions, HealthyOK(h), h \notin wasKilled,
         client[h] \notin {"stopped", "exited"}
  PROVE  h \notin Stale
<1>1. client[h] \in {"new", "launching"} \/ client[h] \in {"idle", "beating"}
  BY DEF TypeOK, ClientState, HealthyOK
<1>2. age[h] \in Nat
  BY DEF TypeOK
<1>3. status[h] = "absent" \/ (status[h] = "starting" /\ age[h] \in 0..1)
  BY <1>1, <1>2 DEF HealthyOK, HealthyStart, HealthyListed
<1>4. QED BY <1>3, FreshIsNotStale

(* A healthy session's own steps keep it listed. *)
LEMMA OwnStepHealthy ==
  ASSUME TypeOK, KillTraces, NEW h \in Healthy, HealthyOK(h), SessionStep(h)
  PROVE  HealthyOK(h)'
<1> SUFFICES ASSUME h \notin wasKilled' PROVE HealthyOK(h)'
  BY DEF HealthyOK
<1> h \in Sessions
  BY RegistryAssumption
<1> USE DEF TypeOK, HealthyOK, HealthyStart, HealthyListed,
      recordVars, memoryVars, wrapperVars, requestVars, boundVars
<1>1. CASE Launch(h) BY <1>1 DEF Launch
<1>2. CASE Wrapper(h) BY <1>2 DEF Wrapper, SendHeartbeat, SendRegister
<1>3. CASE Exit(h) BY <1>3 DEF Exit
<1>4. CASE Timeout(h) BY <1>4 DEF Timeout
<1>5. CASE LoseRequest(h) BY <1>5 DEF LoseRequest
<1>6. CASE HeartbeatMissing(h) BY <1>6 DEF HeartbeatMissing, AnswerHeartbeat
<1>7. CASE HeartbeatEnded(h) BY <1>7 DEF HeartbeatEnded, KillTraces
<1>8. CASE HeartbeatLoad(h) BY <1>8 DEF HeartbeatLoad
<1>9. CASE HeartbeatSave(h) BY <1>9 DEF HeartbeatSave, AnswerHeartbeat, Save
<1>10. CASE HeartbeatAbort(h) BY <1>10 DEF HeartbeatAbort
<1>11. CASE RegisterCheck(h) \/ RegisterReclaim(h)
  BY <1>11 DEF RegisterCheck, RegisterReclaim
<1>12. CASE RegisterKilled(h) BY <1>12 DEF RegisterKilled, KillTraces
<1>13. CASE RegisterCharge(h)
  <2>1. client[h] \notin {"idle", "beating"} /\ h \notin wasKilled /\ client[h] # "new"
    BY <1>13 DEF RegisterCharge
  <2>2. CASE client[h] = "launching"
    <3>1. h \notin doomed'
      BY <2>1, <2>2, <1>13, HealthyNotStale DEF RegisterCharge, ListLive
    <3>2. client'[h] \in {"launching", "exited"}
      BY <2>2, <1>13 DEF RegisterCharge, AnswerRegister, AfterFailedRegister
    <3>3. QED BY <3>1, <3>2, <2>2, <1>13 DEF RegisterCharge
  <2>3. CASE client[h] \in {"stopped", "exited"}
    <3>1. client'[h] = client[h]
      BY <2>3, <1>13 DEF RegisterCharge, AnswerRegister, AfterFailedRegister
    <3>2. QED BY <3>1, <2>3, <2>1, <1>13 DEF RegisterCharge
  <2>4. QED BY <2>1, <2>2, <2>3 DEF ClientState
<1>14. CASE RegisterSave(h)
  <2>1. /\ status'[h] = "starting" /\ age'[h] = 0 /\ doomed' = doomed
        /\ h \notin wasKilled /\ reg[h] = "admitted"
    BY <1>14 DEF RegisterSave, Save
  <2>2. client[h] # "new"
    BY <2>1
  <2>3. client'[h] = IF client[h] = "launching" THEN "idle" ELSE client[h]
    BY <2>1, <1>14 DEF RegisterSave, AnswerRegister, AfterFailedRegister
  <2>4. QED BY <2>1, <2>2, <2>3
<1>15. CASE KillFind(h)
  <2>1. h \in Stale => client[h] \in {"stopped", "exited"}
    BY <1>15, HealthyNotStale DEF KillFind
  <2>2. QED BY <2>1, <1>15 DEF KillFind, ListLive
<1>16. CASE KillRemember(h) BY <1>16 DEF KillRemember
<1>17. CASE KillSave(h) BY <1>17 DEF KillSave, KillTraces
<1>18. CASE RemoveStale(h) BY <1>18 DEF RemoveStale
<1>19. QED
  BY <1>1, <1>2, <1>3, <1>4, <1>5, <1>6, <1>7, <1>8, <1>9, <1>10, <1>11, <1>12, <1>13,
     <1>14, <1>15, <1>16, <1>17, <1>18
     DEF SessionStep, Heartbeat, Register, FinishKill

(* So do the steps of every other session, the listing, the clock, the restart. *)
LEMMA NextHealthy ==
  TypeOK /\ KillTraces /\ HealthyInv /\ [Next]_vars => HealthyInv'
<1> SUFFICES ASSUME TypeOK, KillTraces, HealthyInv, [Next]_vars,
                    NEW h \in Healthy, h \notin wasKilled'
             PROVE  HealthyOK(h)'
  BY DEF HealthyInv, HealthyOK
<1> h \in Sessions /\ HealthyOK(h)
  BY RegistryAssumption DEF HealthyInv
<1> USE DEF recordVars, memoryVars, wrapperVars, requestVars, boundVars
<1>1. CASE ListSessions
  <2>1. h \in doomed' => h \in doomed \/ client[h] \in {"stopped", "exited"}
    BY <1>1, HealthyNotStale DEF ListSessions, ListLive
  <2>2. QED
    BY <2>1, <1>1 DEF ListSessions, TypeOK, HealthyOK, HealthyStart, HealthyListed
<1>2. CASE Tick
  <2>1. client[h] \in {"idle", "beating"} => age[h] = 0 /\ age'[h] \in 0..1
    BY <1>2 DEF Tick, TypeOK, Running, HealthyOK, HealthyListed
  <2>2. QED
    BY <2>1, <1>2 DEF Tick, TypeOK, HealthyOK, HealthyStart, HealthyListed
<1>3. CASE Restart
  <2>1. h \notin wasKilled /\ client[h] \notin {"forgotten", "registering", "stopped"}
    BY <1>3 DEF Restart, HealthyOK
  <2>2. client'[h] = CASE client[h] = "beating" -> "idle"
                       [] client[h] = "launching" -> "exited"
                       [] OTHER -> client[h]
    BY <1>3, <2>1 DEF Restart, AfterFailedRegister
  <2>3. QED
    BY <2>1, <2>2, <1>3 DEF Restart, TypeOK, ClientState, HealthyOK, HealthyStart, HealthyListed
<1>4. CASE \E s \in Sessions : SessionStep(s)
  <2>1. CASE SessionStep(h) BY <2>1, OwnStepHealthy
  <2>2. ASSUME NEW s \in Sessions, s # h, SessionStep(s) PROVE HealthyOK(h)'
    <3>1. h \in doomed' => h \in doomed \/ client[h] \in {"stopped", "exited"}
      BY <2>2, SessionStepFrame, HealthyNotStale
    <3>2. QED
      BY <3>1, <2>2, SessionStepFrame DEF HealthyOK, HealthyStart, HealthyListed
  <2>3. QED BY <1>4, <2>1, <2>2
<1>5. CASE UNCHANGED vars
  BY <1>5 DEF vars, HealthyOK, HealthyStart, HealthyListed
<1>6. QED BY <1>1, <1>2, <1>3, <1>4, <1>5 DEF Next

(* The record of a healthy session nobody killed is never dropped, and no *)
(* listing in progress is about to drop it.                               *)
THEOREM SpecHealthyStaysListed == Spec => []HealthyStaysListed
<1>1. Init => HealthyInv
  BY RegistryAssumption DEF Init, HealthyInv, HealthyOK, HealthyStart, HealthyListed
<1>2. HealthyInv => HealthyStaysListed
  BY DEF HealthyInv, HealthyOK, HealthyListed, HealthyStaysListed
<1>3. QED BY <1>1, <1>2, NextHealthy, SpecKillTraces, SpecTypeOK, PTL DEF Spec

-----------------------------------------------------------------------------
(* The clock of an ended record *)

(* A step of the session itself that leaves its record ended, other than a *)
(* kill's own save, leaves the record's clock alone.                       *)
LEMMA OwnStepEndedClock ==
  ASSUME TypeOK, NEW s \in Sessions, SessionStep(s), status[s] = "ended", status'[s] = "ended",
         kill[s] # "remembered"
  PROVE  age'[s] = age[s]
<1> USE DEF TypeOK, recordVars, memoryVars, wrapperVars, requestVars, boundVars
<1>1. CASE Launch(s) BY <1>1 DEF Launch
<1>2. CASE Wrapper(s) BY <1>2 DEF Wrapper, SendHeartbeat, SendRegister
<1>3. CASE Exit(s) BY <1>3 DEF Exit
<1>4. CASE Timeout(s) BY <1>4 DEF Timeout
<1>5. CASE LoseRequest(s) BY <1>5 DEF LoseRequest
\* The save of a heartbeat makes the record start again: it is not ended after.
<1>6. CASE Heartbeat(s) \/ HeartbeatAbort(s)
  BY <1>6 DEF Heartbeat, HeartbeatMissing, HeartbeatEnded, HeartbeatLoad, HeartbeatSave,
       HeartbeatAbort, Save
<1>7. CASE Register(s)
  BY <1>7 DEF Register, RegisterCheck, RegisterKilled, RegisterReclaim, RegisterCharge,
       RegisterSave, Save
<1>8. CASE KillFind(s) BY <1>8 DEF KillFind
<1>9. CASE FinishKill(s) BY <1>9 DEF FinishKill, KillRemember, KillSave
<1>10. CASE RemoveStale(s) BY <1>10 DEF RemoveStale
<1>11. QED
  BY <1>1, <1>2, <1>3, <1>4, <1>5, <1>6, <1>7, <1>8, <1>9, <1>10 DEF SessionStep

(* No heartbeat, announcement, listing or restart refreshes the clock of an  *)
(* ended record: it only runs on, or is set back by another kill (the ended  *)
(* branch of handleRemotePane answers without Save).                         *)
THEOREM SpecEndedClockOnlyMovedByKill == Spec => EndedClockOnlyMovedByKill
<1>1. ASSUME TypeOK, [Next]_vars, NEW t \in Sessions, status[t] = "ended",
             status'[t] = "ended", kill[t] # "remembered"
      PROVE  age'[t] >= age[t]
  <2>0. age[t] \in Nat
    BY <1>1, Thresholds DEF TypeOK
  <2>1. CASE ListSessions \/ Restart \/ UNCHANGED vars
    BY <2>0, <2>1 DEF ListSessions, Restart, vars, recordVars
  <2>2. CASE Tick
    <3>1. age'[t] = age[t] + 1 \/ age'[t] = age[t]
      BY <2>2 DEF Tick
    <3> QED BY <2>0, <3>1
  <2>3. ASSUME NEW s \in Sessions, SessionStep(s) PROVE age'[t] >= age[t]
    <3>1. age'[t] = age[t]
      BY <1>1, <2>3, OwnStepEndedClock, SessionStepFrame
    <3> QED BY <2>0, <3>1
  <2> QED BY <1>1, <2>1, <2>2, <2>3 DEF Next
<1>2. TypeOK /\ [Next]_vars =>
        [\A s \in Sessions :
           status[s] = "ended" /\ status'[s] = "ended" /\ kill[s] # "remembered"
             => age'[s] >= age[s]]_vars
  BY <1>1
<1>3. QED BY <1>2, SpecTypeOK, PTL DEF Spec, EndedClockOnlyMovedByKill
=============================================================================
