------------------------- MODULE TerminalHostsProofs -------------------------
(***************************************************************************)
(* The safety invariants the Terminal run checks and its action property,  *)
(* for any number of wrapper connections, browsers and frames.             *)
(*                                                                         *)
(* The inductive invariant says who may hold a browser's channel (Channels)*)
(* and why a working host that is not in the map is about to be closed     *)
(* (Replaced): it already holds between a host's swap of the map and its   *)
(* displacement of the older one, where the host is not serving yet.       *)
(***************************************************************************)
EXTENDS TerminalHosts, TLAPS

Early == {"new", "found"}

\* Only a host that relays has frames under way; the kill that found a host
\* knows which.
UnderWay ==
  /\ \A h \in Hosts : sending[h] # {} => host[h] = "serving"
  /\ killing \in {"found", "removed"} => dropped \in Hosts

\* A channel that a host or a close holds belongs to a browser that attached to
\* that host, and is not closed yet; no channel is closed before its browser
\* attached.
Channels ==
  /\ \A h \in Hosts : \A v \in attached[h] \cup ending[h] :
       target[v] = h /\ viewer[v] \notin Early /\ v \notin outClosed
  /\ \A h \in Hosts : attached[h] \cap ending[h] = {}
  /\ \A v \in outClosed : viewer[v] \notin Early

\* ServingHostIsFound, from the moment a host is in the map.
Replaced ==
  \A h \in Hosts : host[h] \in {"adding", "serving"} /\ h \notin closed =>
    \/ registered = h
    \/ \E g \in Hosts : host[g] = "adding" /\ old[g] = h
    \/ killing = "removed" /\ dropped = h

IInv ==
  /\ TypeOK
  /\ UnderWay
  /\ ClosedHostHasNoViewers
  /\ Channels
  /\ Replaced

-----------------------------------------------------------------------------
(* Steps *)

\* Every step keeps every variable in its range.
LEMMA TypeOKStep ==
  ASSUME TypeOK, UnderWay, [Next]_vars
  PROVE  TypeOK'
<1> USE TerminalAssumption DEF killVars, recordVars, sessionVars, hostVars, viewerVars, channelVars
<1>1. ASSUME NEW h \in Hosts, HostCheck(h) PROVE TypeOK'
  BY <1>1, SMT DEF TypeOK, UnderWay, HostPhase, ViewerPhase, KillPhase, Agents, HostCheck,
      HostGo
<1>2. ASSUME NEW h \in Hosts, HostRefused(h) PROVE TypeOK'
  BY <1>2, SMT DEF TypeOK, UnderWay, HostPhase, ViewerPhase, KillPhase, Agents, HostRefused,
      HostGo
<1>3. ASSUME NEW h \in Hosts, HostNoHello(h) PROVE TypeOK'
  BY <1>3, SMT DEF TypeOK, UnderWay, HostPhase, ViewerPhase, KillPhase, Agents, HostNoHello,
      HostGo
<1>4. ASSUME NEW h \in Hosts, HostAdd(h) PROVE TypeOK'
  BY <1>4, SMT DEF TypeOK, UnderWay, HostPhase, ViewerPhase, KillPhase, Agents, HostAdd, HostGo
<1>5. ASSUME NEW h \in Hosts, HostOutput(h) PROVE TypeOK'
  BY <1>5, SMT DEF TypeOK, UnderWay, HostPhase, ViewerPhase, KillPhase, Agents, HostOutput, Free
<1>6. ASSUME NEW h \in Hosts, HostDrops(h) PROVE TypeOK'
  BY <1>6, SMT DEF TypeOK, UnderWay, HostPhase, ViewerPhase, KillPhase, Agents, HostDrops
<1>7. ASSUME NEW h \in Hosts, HostDisplace(h) PROVE TypeOK'
  BY <1>7, SMT DEF TypeOK, UnderWay, HostPhase, ViewerPhase, KillPhase, Agents, HostDisplace,
      HostGo, BeginClose
<1>8. ASSUME NEW h \in Hosts, HostReadError(h) PROVE TypeOK'
  BY <1>8, SMT DEF TypeOK, UnderWay, HostPhase, ViewerPhase, KillPhase, Agents,
      HostReadError, HostGo, Free
<1>9. ASSUME NEW h \in Hosts, HostRemove(h) PROVE TypeOK'
  BY <1>9, SMT DEF TypeOK, UnderWay, HostPhase, ViewerPhase, KillPhase, Agents, HostRemove,
      HostGo, Removed
<1>10. ASSUME NEW h \in Hosts, HostClose(h) PROVE TypeOK'
  BY <1>10, SMT DEF TypeOK, UnderWay, HostPhase, ViewerPhase, KillPhase, Agents, HostClose,
      HostGo, BeginClose
<1>11. ASSUME NEW h \in Hosts, HostSendPanics(h) PROVE TypeOK'
  BY <1>11, SMT DEF TypeOK, UnderWay, HostPhase, ViewerPhase, KillPhase, Agents,
      HostSendPanics, HostGo
<1>12. ASSUME NEW h \in Hosts, NEW v \in Viewers, HostSend(h, v) PROVE TypeOK'
  BY <1>12, SMT DEF TypeOK, UnderWay, HostPhase, ViewerPhase, KillPhase, Agents, HostSend
<1>13. ASSUME NEW h \in Hosts, EndClose(h) PROVE TypeOK'
  BY <1>13, SMT DEF TypeOK, UnderWay, HostPhase, ViewerPhase, KillPhase, Agents, EndClose
<1>14. ASSUME NEW h \in Hosts, NEW v \in Viewers, CloseOut(h, v) PROVE TypeOK'
  BY <1>14, SMT DEF TypeOK, UnderWay, HostPhase, ViewerPhase, KillPhase, Agents, CloseOut
<1>15. ASSUME NEW v \in Viewers, ViewerFind(v) PROVE TypeOK'
  BY <1>15, SMT DEF TypeOK, UnderWay, HostPhase, ViewerPhase, KillPhase, Agents, ViewerFind,
      ViewerGo
<1>16. ASSUME NEW v \in Viewers, ViewerLeaves(v) PROVE TypeOK'
  BY <1>16, SMT DEF TypeOK, UnderWay, HostPhase, ViewerPhase, KillPhase, Agents,
      ViewerLeaves, ViewerGo
<1>17. ASSUME NEW v \in Viewers, ViewerAttach(v) PROVE TypeOK'
  BY <1>17, SMT DEF TypeOK, UnderWay, HostPhase, ViewerPhase, KillPhase, Agents,
      ViewerAttach, ViewerGo
<1>18. ASSUME NEW v \in Viewers, ViewerRead(v) PROVE TypeOK'
  BY <1>18, SMT DEF TypeOK, UnderWay, HostPhase, ViewerPhase, KillPhase, Agents, ViewerRead
<1>19. ASSUME NEW v \in Viewers, ViewerExit(v) PROVE TypeOK'
  BY <1>19, SMT DEF TypeOK, UnderWay, HostPhase, ViewerPhase, KillPhase, Agents, ViewerExit,
      ViewerGo
<1>20. ASSUME NEW v \in Viewers, ViewerDetach(v) PROVE TypeOK'
  BY <1>20, SMT DEF TypeOK, UnderWay, HostPhase, ViewerPhase, KillPhase, Agents,
      ViewerDetach, ViewerGo
<1>21. CASE KillRemember
  BY <1>21, SMT DEF TypeOK, UnderWay, HostPhase, ViewerPhase, KillPhase, Agents, KillRemember
<1>22. CASE KillFindHost
  BY <1>22, SMT DEF TypeOK, UnderWay, HostPhase, ViewerPhase, KillPhase, Agents, KillFindHost
<1>23. CASE KillRemove
  BY <1>23, SMT DEF TypeOK, UnderWay, HostPhase, ViewerPhase, KillPhase, Agents, KillRemove,
      Removed
<1>24. CASE KillClose
  BY <1>24, SMT DEF TypeOK, UnderWay, HostPhase, ViewerPhase, KillPhase, Agents, KillClose,
      BeginClose
<1>25. CASE KillSave
  BY <1>25 DEF TypeOK, UnderWay, HostPhase, ViewerPhase, KillPhase, Agents, KillSave
<1>26. CASE Forget
  BY <1>26 DEF TypeOK, UnderWay, HostPhase, ViewerPhase, KillPhase, Agents, Forget
<1>27. CASE RecordSaved
  BY <1>27, SMT DEF TypeOK, UnderWay, HostPhase, ViewerPhase, KillPhase, Agents, RecordSaved
<1>28. CASE RecordGoes
  BY <1>28 DEF TypeOK, UnderWay, HostPhase, ViewerPhase, KillPhase, Agents, RecordGoes
<1>29. CASE Restart
  BY <1>29 DEF TypeOK, UnderWay, HostPhase, ViewerPhase, KillPhase, Agents, Restart
<1>30. CASE UNCHANGED vars
  BY <1>30 DEF TypeOK, vars
<1> QED
  BY <1>1, <1>2, <1>3, <1>4, <1>5, <1>6, <1>7, <1>8, <1>9, <1>10, <1>11, <1>12, <1>13, <1>14,
      <1>15, <1>16, <1>17, <1>18, <1>19, <1>20, <1>21, <1>22, <1>23, <1>24, <1>25, <1>26,
      <1>27, <1>28, <1>29, <1>30
  DEF Next, HostHandler, CloseHost, ViewerHandler, KillHandler, RecordStep

\* Every step keeps UnderWay.
LEMMA UnderWayStep ==
  ASSUME TypeOK, UnderWay, [Next]_vars
  PROVE  UnderWay'
<1> USE TerminalAssumption DEF killVars, recordVars, sessionVars, hostVars, viewerVars, channelVars
<1>1. ASSUME NEW h \in Hosts, HostCheck(h) PROVE UnderWay'
  BY <1>1, SMT DEF UnderWay, TypeOK, HostPhase, KillPhase, HostCheck, HostGo
<1>2. ASSUME NEW h \in Hosts, HostRefused(h) PROVE UnderWay'
  BY <1>2, SMT DEF UnderWay, TypeOK, HostPhase, KillPhase, HostRefused, HostGo
<1>3. ASSUME NEW h \in Hosts, HostNoHello(h) PROVE UnderWay'
  BY <1>3, SMT DEF UnderWay, TypeOK, HostPhase, KillPhase, HostNoHello, HostGo
<1>4. ASSUME NEW h \in Hosts, HostAdd(h) PROVE UnderWay'
  BY <1>4, SMT DEF UnderWay, TypeOK, HostPhase, KillPhase, HostAdd, HostGo
<1>5. ASSUME NEW h \in Hosts, HostOutput(h) PROVE UnderWay'
  BY <1>5, SMT DEF UnderWay, TypeOK, HostPhase, KillPhase, HostOutput, Free
<1>6. ASSUME NEW h \in Hosts, HostDrops(h) PROVE UnderWay'
  BY <1>6, SMT DEF UnderWay, TypeOK, HostPhase, KillPhase, HostDrops
<1>7. ASSUME NEW h \in Hosts, HostDisplace(h) PROVE UnderWay'
  BY <1>7, SMT DEF UnderWay, TypeOK, HostPhase, KillPhase, HostDisplace, HostGo, BeginClose
<1>8. ASSUME NEW h \in Hosts, HostReadError(h) PROVE UnderWay'
  BY <1>8, SMT DEF UnderWay, TypeOK, HostPhase, KillPhase, HostReadError, HostGo, Free
<1>9. ASSUME NEW h \in Hosts, HostRemove(h) PROVE UnderWay'
  BY <1>9, SMT DEF UnderWay, TypeOK, HostPhase, KillPhase, HostRemove, HostGo, Removed
<1>10. ASSUME NEW h \in Hosts, HostClose(h) PROVE UnderWay'
  BY <1>10, SMT DEF UnderWay, TypeOK, HostPhase, KillPhase, HostClose, HostGo, BeginClose
<1>11. ASSUME NEW h \in Hosts, HostSendPanics(h) PROVE UnderWay'
  BY <1>11, SMT DEF UnderWay, TypeOK, HostPhase, KillPhase, HostSendPanics, HostGo
<1>12. ASSUME NEW h \in Hosts, NEW v \in Viewers, HostSend(h, v) PROVE UnderWay'
  BY <1>12, SMT DEF UnderWay, TypeOK, HostPhase, KillPhase, HostSend
<1>13. ASSUME NEW h \in Hosts, EndClose(h) PROVE UnderWay'
  BY <1>13, SMT DEF UnderWay, TypeOK, HostPhase, KillPhase, EndClose
<1>14. ASSUME NEW h \in Hosts, NEW v \in Viewers, CloseOut(h, v) PROVE UnderWay'
  BY <1>14, SMT DEF UnderWay, TypeOK, HostPhase, KillPhase, CloseOut
<1>15. ASSUME NEW v \in Viewers, ViewerFind(v) PROVE UnderWay'
  BY <1>15, SMT DEF UnderWay, TypeOK, HostPhase, KillPhase, ViewerFind, ViewerGo
<1>16. ASSUME NEW v \in Viewers, ViewerLeaves(v) PROVE UnderWay'
  BY <1>16, SMT DEF UnderWay, TypeOK, HostPhase, KillPhase, ViewerLeaves, ViewerGo
<1>17. ASSUME NEW v \in Viewers, ViewerAttach(v) PROVE UnderWay'
  BY <1>17, SMT DEF UnderWay, TypeOK, HostPhase, KillPhase, ViewerAttach, ViewerGo
<1>18. ASSUME NEW v \in Viewers, ViewerRead(v) PROVE UnderWay'
  BY <1>18, SMT DEF UnderWay, TypeOK, HostPhase, KillPhase, ViewerRead
<1>19. ASSUME NEW v \in Viewers, ViewerExit(v) PROVE UnderWay'
  BY <1>19, SMT DEF UnderWay, TypeOK, HostPhase, KillPhase, ViewerExit, ViewerGo
<1>20. ASSUME NEW v \in Viewers, ViewerDetach(v) PROVE UnderWay'
  BY <1>20, SMT DEF UnderWay, TypeOK, HostPhase, KillPhase, ViewerDetach, ViewerGo
<1>21. CASE KillRemember
  BY <1>21, SMT DEF UnderWay, TypeOK, HostPhase, KillPhase, KillRemember
<1>22. CASE KillFindHost
  BY <1>22, SMT DEF UnderWay, TypeOK, HostPhase, KillPhase, KillFindHost
<1>23. CASE KillRemove
  BY <1>23, SMT DEF UnderWay, TypeOK, HostPhase, KillPhase, KillRemove, Removed
<1>24. CASE KillClose
  BY <1>24, SMT DEF UnderWay, TypeOK, HostPhase, KillPhase, KillClose, BeginClose
<1>25. CASE KillSave
  BY <1>25, SMT DEF UnderWay, TypeOK, HostPhase, KillPhase, KillSave
<1>26. CASE Forget
  BY <1>26, SMT DEF UnderWay, TypeOK, HostPhase, KillPhase, Forget
<1>27. CASE RecordSaved
  BY <1>27, SMT DEF UnderWay, TypeOK, HostPhase, KillPhase, RecordSaved
<1>28. CASE RecordGoes
  BY <1>28, SMT DEF UnderWay, TypeOK, HostPhase, KillPhase, RecordGoes
<1>29. CASE Restart
  BY <1>29, SMT DEF UnderWay, TypeOK, HostPhase, KillPhase, Restart
<1>30. CASE UNCHANGED vars
  BY <1>30 DEF UnderWay, vars
<1> QED
  BY <1>1, <1>2, <1>3, <1>4, <1>5, <1>6, <1>7, <1>8, <1>9, <1>10, <1>11, <1>12, <1>13, <1>14,
      <1>15, <1>16, <1>17, <1>18, <1>19, <1>20, <1>21, <1>22, <1>23, <1>24, <1>25, <1>26,
      <1>27, <1>28, <1>29, <1>30
  DEF Next, HostHandler, CloseHost, ViewerHandler, KillHandler, RecordStep

\* Every step keeps ClosedHostHasNoViewers: attach and the locked half of close
\* exclude each other.
LEMMA ClosedStep ==
  ASSUME TypeOK, UnderWay, ClosedHostHasNoViewers, [Next]_vars
  PROVE  ClosedHostHasNoViewers'
<1> USE TerminalAssumption DEF killVars, recordVars, sessionVars, hostVars, viewerVars, channelVars
<1>1. ASSUME NEW h \in Hosts, HostCheck(h) PROVE ClosedHostHasNoViewers'
  BY <1>1, SMT DEF ClosedHostHasNoViewers, TypeOK, UnderWay, HostCheck, HostGo
<1>2. ASSUME NEW h \in Hosts, HostRefused(h) PROVE ClosedHostHasNoViewers'
  BY <1>2, SMT DEF ClosedHostHasNoViewers, TypeOK, UnderWay, HostRefused, HostGo
<1>3. ASSUME NEW h \in Hosts, HostNoHello(h) PROVE ClosedHostHasNoViewers'
  BY <1>3, SMT DEF ClosedHostHasNoViewers, TypeOK, UnderWay, HostNoHello, HostGo
<1>4. ASSUME NEW h \in Hosts, HostAdd(h) PROVE ClosedHostHasNoViewers'
  BY <1>4, SMT DEF ClosedHostHasNoViewers, TypeOK, UnderWay, HostAdd, HostGo
<1>5. ASSUME NEW h \in Hosts, HostOutput(h) PROVE ClosedHostHasNoViewers'
  BY <1>5, SMT DEF ClosedHostHasNoViewers, TypeOK, UnderWay, HostOutput, Free
<1>6. ASSUME NEW h \in Hosts, HostDrops(h) PROVE ClosedHostHasNoViewers'
  BY <1>6, SMT DEF ClosedHostHasNoViewers, TypeOK, UnderWay, HostDrops
<1>7. ASSUME NEW h \in Hosts, HostDisplace(h) PROVE ClosedHostHasNoViewers'
  BY <1>7, SMT DEF ClosedHostHasNoViewers, TypeOK, UnderWay, HostDisplace, HostGo, BeginClose
<1>8. ASSUME NEW h \in Hosts, HostReadError(h) PROVE ClosedHostHasNoViewers'
  BY <1>8, SMT DEF ClosedHostHasNoViewers, TypeOK, UnderWay, HostReadError, HostGo, Free
<1>9. ASSUME NEW h \in Hosts, HostRemove(h) PROVE ClosedHostHasNoViewers'
  BY <1>9, SMT DEF ClosedHostHasNoViewers, TypeOK, UnderWay, HostRemove, HostGo, Removed
<1>10. ASSUME NEW h \in Hosts, HostClose(h) PROVE ClosedHostHasNoViewers'
  BY <1>10, SMT DEF ClosedHostHasNoViewers, TypeOK, UnderWay, HostClose, HostGo, BeginClose
<1>11. ASSUME NEW h \in Hosts, HostSendPanics(h) PROVE ClosedHostHasNoViewers'
  BY <1>11, SMT DEF ClosedHostHasNoViewers, TypeOK, UnderWay, HostSendPanics, HostGo
<1>12. ASSUME NEW h \in Hosts, NEW v \in Viewers, HostSend(h, v) PROVE ClosedHostHasNoViewers'
  BY <1>12, SMT DEF ClosedHostHasNoViewers, TypeOK, UnderWay, HostSend
<1>13. ASSUME NEW h \in Hosts, EndClose(h) PROVE ClosedHostHasNoViewers'
  BY <1>13, SMT DEF ClosedHostHasNoViewers, TypeOK, UnderWay, EndClose
<1>14. ASSUME NEW h \in Hosts, NEW v \in Viewers, CloseOut(h, v) PROVE ClosedHostHasNoViewers'
  BY <1>14, SMT DEF ClosedHostHasNoViewers, TypeOK, UnderWay, CloseOut
<1>15. ASSUME NEW v \in Viewers, ViewerFind(v) PROVE ClosedHostHasNoViewers'
  BY <1>15, SMT DEF ClosedHostHasNoViewers, TypeOK, UnderWay, ViewerFind, ViewerGo
<1>16. ASSUME NEW v \in Viewers, ViewerLeaves(v) PROVE ClosedHostHasNoViewers'
  BY <1>16, SMT DEF ClosedHostHasNoViewers, TypeOK, UnderWay, ViewerLeaves, ViewerGo
<1>17. ASSUME NEW v \in Viewers, ViewerAttach(v) PROVE ClosedHostHasNoViewers'
  BY <1>17, SMT DEF ClosedHostHasNoViewers, TypeOK, UnderWay, ViewerAttach, ViewerGo
<1>18. ASSUME NEW v \in Viewers, ViewerRead(v) PROVE ClosedHostHasNoViewers'
  BY <1>18, SMT DEF ClosedHostHasNoViewers, TypeOK, UnderWay, ViewerRead
<1>19. ASSUME NEW v \in Viewers, ViewerExit(v) PROVE ClosedHostHasNoViewers'
  BY <1>19, SMT DEF ClosedHostHasNoViewers, TypeOK, UnderWay, ViewerExit, ViewerGo
<1>20. ASSUME NEW v \in Viewers, ViewerDetach(v) PROVE ClosedHostHasNoViewers'
  BY <1>20, SMT DEF ClosedHostHasNoViewers, TypeOK, UnderWay, ViewerDetach, ViewerGo
<1>21. CASE KillRemember
  BY <1>21, SMT DEF ClosedHostHasNoViewers, TypeOK, UnderWay, KillRemember
<1>22. CASE KillFindHost
  BY <1>22, SMT DEF ClosedHostHasNoViewers, TypeOK, UnderWay, KillFindHost
<1>23. CASE KillRemove
  BY <1>23, SMT DEF ClosedHostHasNoViewers, TypeOK, UnderWay, KillRemove, Removed
<1>24. CASE KillClose
  BY <1>24, SMT DEF ClosedHostHasNoViewers, TypeOK, UnderWay, KillClose, BeginClose
<1>25. CASE KillSave
  BY <1>25, SMT DEF ClosedHostHasNoViewers, TypeOK, UnderWay, KillSave
<1>26. CASE Forget
  BY <1>26, SMT DEF ClosedHostHasNoViewers, TypeOK, UnderWay, Forget
<1>27. CASE RecordSaved
  BY <1>27, SMT DEF ClosedHostHasNoViewers, TypeOK, UnderWay, RecordSaved
<1>28. CASE RecordGoes
  BY <1>28, SMT DEF ClosedHostHasNoViewers, TypeOK, UnderWay, RecordGoes
<1>29. CASE Restart
  BY <1>29, SMT DEF ClosedHostHasNoViewers, TypeOK, UnderWay, Restart
<1>30. CASE UNCHANGED vars
  BY <1>30 DEF ClosedHostHasNoViewers, vars
<1> QED
  BY <1>1, <1>2, <1>3, <1>4, <1>5, <1>6, <1>7, <1>8, <1>9, <1>10, <1>11, <1>12, <1>13, <1>14,
      <1>15, <1>16, <1>17, <1>18, <1>19, <1>20, <1>21, <1>22, <1>23, <1>24, <1>25, <1>26,
      <1>27, <1>28, <1>29, <1>30
  DEF Next, HostHandler, CloseHost, ViewerHandler, KillHandler, RecordStep

\* Every step keeps Channels.
LEMMA ChannelsStep ==
  ASSUME TypeOK, UnderWay, Channels, [Next]_vars
  PROVE  Channels'
<1> USE TerminalAssumption DEF killVars, recordVars, sessionVars, hostVars, viewerVars, channelVars
<1>1. ASSUME NEW h \in Hosts, HostCheck(h) PROVE Channels'
  BY <1>1, SMT DEF Channels, TypeOK, UnderWay, Early, HostCheck, HostGo
<1>2. ASSUME NEW h \in Hosts, HostRefused(h) PROVE Channels'
  BY <1>2, SMT DEF Channels, TypeOK, UnderWay, Early, HostRefused, HostGo
<1>3. ASSUME NEW h \in Hosts, HostNoHello(h) PROVE Channels'
  BY <1>3, SMT DEF Channels, TypeOK, UnderWay, Early, HostNoHello, HostGo
<1>4. ASSUME NEW h \in Hosts, HostAdd(h) PROVE Channels'
  BY <1>4, SMT DEF Channels, TypeOK, UnderWay, Early, HostAdd, HostGo
<1>5. ASSUME NEW h \in Hosts, HostOutput(h) PROVE Channels'
  BY <1>5, SMT DEF Channels, TypeOK, UnderWay, Early, HostOutput, Free
<1>6. ASSUME NEW h \in Hosts, HostDrops(h) PROVE Channels'
  BY <1>6, SMT DEF Channels, TypeOK, UnderWay, Early, HostDrops
<1>7. ASSUME NEW h \in Hosts, HostDisplace(h) PROVE Channels'
  BY <1>7, SMT DEF Channels, TypeOK, UnderWay, Early, HostDisplace, HostGo, BeginClose
<1>8. ASSUME NEW h \in Hosts, HostReadError(h) PROVE Channels'
  BY <1>8, SMT DEF Channels, TypeOK, UnderWay, Early, HostReadError, HostGo, Free
<1>9. ASSUME NEW h \in Hosts, HostRemove(h) PROVE Channels'
  BY <1>9, SMT DEF Channels, TypeOK, UnderWay, Early, HostRemove, HostGo, Removed
<1>10. ASSUME NEW h \in Hosts, HostClose(h) PROVE Channels'
  BY <1>10, SMT DEF Channels, TypeOK, UnderWay, Early, HostClose, HostGo, BeginClose
<1>11. ASSUME NEW h \in Hosts, HostSendPanics(h) PROVE Channels'
  BY <1>11, SMT DEF Channels, TypeOK, UnderWay, Early, HostSendPanics, HostGo
<1>12. ASSUME NEW h \in Hosts, NEW v \in Viewers, HostSend(h, v) PROVE Channels'
  BY <1>12, SMT DEF Channels, TypeOK, UnderWay, Early, HostSend
<1>13. ASSUME NEW h \in Hosts, EndClose(h) PROVE Channels'
  BY <1>13, SMT DEF Channels, TypeOK, UnderWay, Early, EndClose
<1>14. ASSUME NEW h \in Hosts, NEW v \in Viewers, CloseOut(h, v) PROVE Channels'
  BY <1>14, SMT DEF Channels, TypeOK, UnderWay, Early, CloseOut
<1>15. ASSUME NEW v \in Viewers, ViewerFind(v) PROVE Channels'
  BY <1>15, SMT DEF Channels, TypeOK, UnderWay, Early, ViewerFind, ViewerGo
<1>16. ASSUME NEW v \in Viewers, ViewerLeaves(v) PROVE Channels'
  BY <1>16, SMT DEF Channels, TypeOK, UnderWay, Early, ViewerLeaves, ViewerGo
<1>17. ASSUME NEW v \in Viewers, ViewerAttach(v) PROVE Channels'
  BY <1>17, SMT DEF Channels, TypeOK, UnderWay, Early, ViewerAttach, ViewerGo
<1>18. ASSUME NEW v \in Viewers, ViewerRead(v) PROVE Channels'
  BY <1>18, SMT DEF Channels, TypeOK, UnderWay, Early, ViewerRead
<1>19. ASSUME NEW v \in Viewers, ViewerExit(v) PROVE Channels'
  BY <1>19, SMT DEF Channels, TypeOK, UnderWay, Early, ViewerExit, ViewerGo
<1>20. ASSUME NEW v \in Viewers, ViewerDetach(v) PROVE Channels'
  BY <1>20, SMT DEF Channels, TypeOK, UnderWay, Early, ViewerDetach, ViewerGo
<1>21. CASE KillRemember
  BY <1>21, SMT DEF Channels, TypeOK, UnderWay, Early, KillRemember
<1>22. CASE KillFindHost
  BY <1>22, SMT DEF Channels, TypeOK, UnderWay, Early, KillFindHost
<1>23. CASE KillRemove
  BY <1>23, SMT DEF Channels, TypeOK, UnderWay, Early, KillRemove, Removed
<1>24. CASE KillClose
  BY <1>24, SMT DEF Channels, TypeOK, UnderWay, Early, KillClose, BeginClose
<1>25. CASE KillSave
  BY <1>25, SMT DEF Channels, TypeOK, UnderWay, Early, KillSave
<1>26. CASE Forget
  BY <1>26, SMT DEF Channels, TypeOK, UnderWay, Early, Forget
<1>27. CASE RecordSaved
  BY <1>27, SMT DEF Channels, TypeOK, UnderWay, Early, RecordSaved
<1>28. CASE RecordGoes
  BY <1>28, SMT DEF Channels, TypeOK, UnderWay, Early, RecordGoes
<1>29. CASE Restart
  BY <1>29, SMT DEF Channels, TypeOK, UnderWay, Early, Restart
<1>30. CASE UNCHANGED vars
  BY <1>30 DEF Channels, vars
<1> QED
  BY <1>1, <1>2, <1>3, <1>4, <1>5, <1>6, <1>7, <1>8, <1>9, <1>10, <1>11, <1>12, <1>13, <1>14,
      <1>15, <1>16, <1>17, <1>18, <1>19, <1>20, <1>21, <1>22, <1>23, <1>24, <1>25, <1>26,
      <1>27, <1>28, <1>29, <1>30
  DEF Next, HostHandler, CloseHost, ViewerHandler, KillHandler, RecordStep

\* Every step keeps Replaced: whoever takes a host out of the map closes it next,
\* and a late cleanup takes out nobody else's.
LEMMA ReplacedStep ==
  ASSUME TypeOK, UnderWay, Replaced, [Next]_vars
  PROVE  Replaced'
<1> USE TerminalAssumption DEF killVars, recordVars, sessionVars, hostVars, viewerVars, channelVars
<1>1. ASSUME NEW h \in Hosts, HostCheck(h) PROVE Replaced'
  BY <1>1, SMT DEF Replaced, TypeOK, UnderWay, HostCheck, HostGo
<1>2. ASSUME NEW h \in Hosts, HostRefused(h) PROVE Replaced'
  BY <1>2, SMT DEF Replaced, TypeOK, UnderWay, HostRefused, HostGo
<1>3. ASSUME NEW h \in Hosts, HostNoHello(h) PROVE Replaced'
  BY <1>3, SMT DEF Replaced, TypeOK, UnderWay, HostNoHello, HostGo
<1>4. ASSUME NEW h \in Hosts, HostAdd(h) PROVE Replaced'
  BY <1>4, SMT DEF Replaced, TypeOK, UnderWay, HostAdd, HostGo
<1>5. ASSUME NEW h \in Hosts, HostOutput(h) PROVE Replaced'
  BY <1>5, SMT DEF Replaced, TypeOK, UnderWay, HostOutput, Free
<1>6. ASSUME NEW h \in Hosts, HostDrops(h) PROVE Replaced'
  BY <1>6, SMT DEF Replaced, TypeOK, UnderWay, HostDrops
<1>7. ASSUME NEW h \in Hosts, HostDisplace(h) PROVE Replaced'
  BY <1>7, SMT DEF Replaced, TypeOK, UnderWay, HostDisplace, HostGo, BeginClose
<1>8. ASSUME NEW h \in Hosts, HostReadError(h) PROVE Replaced'
  BY <1>8, SMT DEF Replaced, TypeOK, UnderWay, HostReadError, HostGo, Free
<1>9. ASSUME NEW h \in Hosts, HostRemove(h) PROVE Replaced'
  BY <1>9, SMT DEF Replaced, TypeOK, UnderWay, HostRemove, HostGo, Removed
<1>10. ASSUME NEW h \in Hosts, HostClose(h) PROVE Replaced'
  BY <1>10, SMT DEF Replaced, TypeOK, UnderWay, HostClose, HostGo, BeginClose
<1>11. ASSUME NEW h \in Hosts, HostSendPanics(h) PROVE Replaced'
  BY <1>11, SMT DEF Replaced, TypeOK, UnderWay, HostSendPanics, HostGo
<1>12. ASSUME NEW h \in Hosts, NEW v \in Viewers, HostSend(h, v) PROVE Replaced'
  BY <1>12, SMT DEF Replaced, TypeOK, UnderWay, HostSend
<1>13. ASSUME NEW h \in Hosts, EndClose(h) PROVE Replaced'
  BY <1>13, SMT DEF Replaced, TypeOK, UnderWay, EndClose
<1>14. ASSUME NEW h \in Hosts, NEW v \in Viewers, CloseOut(h, v) PROVE Replaced'
  BY <1>14, SMT DEF Replaced, TypeOK, UnderWay, CloseOut
<1>15. ASSUME NEW v \in Viewers, ViewerFind(v) PROVE Replaced'
  BY <1>15, SMT DEF Replaced, TypeOK, UnderWay, ViewerFind, ViewerGo
<1>16. ASSUME NEW v \in Viewers, ViewerLeaves(v) PROVE Replaced'
  BY <1>16, SMT DEF Replaced, TypeOK, UnderWay, ViewerLeaves, ViewerGo
<1>17. ASSUME NEW v \in Viewers, ViewerAttach(v) PROVE Replaced'
  BY <1>17, SMT DEF Replaced, TypeOK, UnderWay, ViewerAttach, ViewerGo
<1>18. ASSUME NEW v \in Viewers, ViewerRead(v) PROVE Replaced'
  BY <1>18, SMT DEF Replaced, TypeOK, UnderWay, ViewerRead
<1>19. ASSUME NEW v \in Viewers, ViewerExit(v) PROVE Replaced'
  BY <1>19, SMT DEF Replaced, TypeOK, UnderWay, ViewerExit, ViewerGo
<1>20. ASSUME NEW v \in Viewers, ViewerDetach(v) PROVE Replaced'
  BY <1>20, SMT DEF Replaced, TypeOK, UnderWay, ViewerDetach, ViewerGo
<1>21. CASE KillRemember
  BY <1>21, SMT DEF Replaced, TypeOK, UnderWay, KillRemember
<1>22. CASE KillFindHost
  BY <1>22, SMT DEF Replaced, TypeOK, UnderWay, KillFindHost
<1>23. CASE KillRemove
  BY <1>23, SMT DEF Replaced, TypeOK, UnderWay, KillRemove, Removed
<1>24. CASE KillClose
  BY <1>24, SMT DEF Replaced, TypeOK, UnderWay, KillClose, BeginClose
<1>25. CASE KillSave
  BY <1>25, SMT DEF Replaced, TypeOK, UnderWay, KillSave
<1>26. CASE Forget
  BY <1>26, SMT DEF Replaced, TypeOK, UnderWay, Forget
<1>27. CASE RecordSaved
  BY <1>27, SMT DEF Replaced, TypeOK, UnderWay, RecordSaved
<1>28. CASE RecordGoes
  BY <1>28, SMT DEF Replaced, TypeOK, UnderWay, RecordGoes
<1>29. CASE Restart
  BY <1>29, SMT DEF Replaced, TypeOK, UnderWay, Restart
<1>30. CASE UNCHANGED vars
  BY <1>30 DEF Replaced, vars
<1> QED
  BY <1>1, <1>2, <1>3, <1>4, <1>5, <1>6, <1>7, <1>8, <1>9, <1>10, <1>11, <1>12, <1>13, <1>14,
      <1>15, <1>16, <1>17, <1>18, <1>19, <1>20, <1>21, <1>22, <1>23, <1>24, <1>25, <1>26,
      <1>27, <1>28, <1>29, <1>30
  DEF Next, HostHandler, CloseHost, ViewerHandler, KillHandler, RecordStep

-----------------------------------------------------------------------------
(* The theorems *)

\* Nobody has connected yet.
LEMMA InitIInv == Init => IInv
<1> SUFFICES ASSUME Init PROVE IInv
  OBVIOUS
<1> USE TerminalAssumption DEF Init
<1>1. killed \in BOOLEAN /\ live \in BOOLEAN
  OBVIOUS
<1>2. /\ killing \in KillPhase /\ dropped \in Hosts \cup {NoHost}
      /\ registered \in Hosts \cup {NoHost}
      /\ host \in [Hosts -> HostPhase] /\ old \in [Hosts -> Hosts \cup {NoHost}]
      /\ up \subseteq Hosts /\ closed \subseteq Hosts
      /\ closer \in [Hosts -> Agents \cup {NoHost}]
      /\ attached \in [Hosts -> SUBSET Viewers] /\ ending \in [Hosts -> SUBSET Viewers]
      /\ sending \in [Hosts -> SUBSET Viewers]
      /\ viewer \in [Viewers -> ViewerPhase] /\ target \in [Viewers -> Hosts \cup {NoHost}]
      /\ out \in [Viewers -> 0..ViewerQueue] /\ outClosed \subseteq Viewers
  BY SMT DEF HostPhase, ViewerPhase, KillPhase
<1>3. TypeOK
  BY <1>1, <1>2 DEF TypeOK
<1>4. UnderWay /\ ClosedHostHasNoViewers /\ Channels /\ Replaced
  BY DEF UnderWay, ClosedHostHasNoViewers, Channels, Replaced
<1> QED BY <1>3, <1>4 DEF IInv

\* The inductive invariant holds of every behaviour of the terminal hosts.
THEOREM SpecIInv == Spec => []IInv
<1>1. Init => IInv
  BY InitIInv
<1>2. IInv /\ [Next]_vars => IInv'
  BY TypeOKStep, UnderWayStep, ClosedStep, ChannelsStep, ReplacedStep DEF IInv
<1> QED BY <1>1, <1>2, PTL DEF Spec

\* Every variable of the terminal hosts stays in its range; no browser's channel
\* holds more than its capacity.
THEOREM SpecTypeOK == Spec => []TypeOK
BY SpecIInv, PTL DEF IInv

\* No browser is left in the viewer set of a closed host: attach asks again,
\* under the host's lock, whether the host it found is closed.
THEOREM SpecClosedHostHasNoViewers == Spec => []ClosedHostHasNoViewers
BY SpecIInv, PTL DEF IInv

\* At most one party ever holds a browser's channel, and only while the channel
\* is open: it is never closed twice.
THEOREM SpecNeverClosedTwice == Spec => []NeverClosedTwice
<1>1. IInv => NeverClosedTwice
  BY DEF IInv, Channels, NeverClosedTwice
<1> QED BY <1>1, SpecIInv, PTL

\* A connection that serves and is not closed is the one in the registry's map,
\* or is about to be closed by whoever took its place.
THEOREM SpecServingHostIsFound == Spec => []ServingHostIsFound
<1>1. IInv => ServingHostIsFound
  BY DEF IInv, Replaced, ServingHostIsFound
<1> QED BY <1>1, SpecIInv, PTL

\* Every step leaves a terminal shut that is shut before it, if the session is
\* still refused after it.
LEMMA TerminalShutStep ==
  ASSUME TypeOK, TerminalShut, Refused', [Next]_vars
  PROVE  TerminalShut'
<1> USE TerminalAssumption DEF killVars, recordVars, sessionVars, hostVars, viewerVars, channelVars
<1>1. ASSUME NEW h \in Hosts, HostCheck(h) PROVE TerminalShut'
  BY <1>1, SMT DEF TerminalShut, Refused, TypeOK, HostCheck, HostGo
<1>2. ASSUME NEW h \in Hosts, HostRefused(h) PROVE TerminalShut'
  BY <1>2, SMT DEF TerminalShut, Refused, TypeOK, HostRefused, HostGo
<1>3. ASSUME NEW h \in Hosts, HostNoHello(h) PROVE TerminalShut'
  BY <1>3, SMT DEF TerminalShut, Refused, TypeOK, HostNoHello, HostGo
<1>4. ASSUME NEW h \in Hosts, HostAdd(h) PROVE TerminalShut'
  BY <1>4, SMT DEF TerminalShut, Refused, TypeOK, HostAdd, HostGo
<1>5. ASSUME NEW h \in Hosts, HostOutput(h) PROVE TerminalShut'
  BY <1>5, SMT DEF TerminalShut, Refused, TypeOK, HostOutput, Free
<1>6. ASSUME NEW h \in Hosts, HostDrops(h) PROVE TerminalShut'
  BY <1>6, SMT DEF TerminalShut, Refused, TypeOK, HostDrops
<1>7. ASSUME NEW h \in Hosts, HostDisplace(h) PROVE TerminalShut'
  BY <1>7, SMT DEF TerminalShut, Refused, TypeOK, HostDisplace, HostGo, BeginClose
<1>8. ASSUME NEW h \in Hosts, HostReadError(h) PROVE TerminalShut'
  BY <1>8, SMT DEF TerminalShut, Refused, TypeOK, HostReadError, HostGo, Free
<1>9. ASSUME NEW h \in Hosts, HostRemove(h) PROVE TerminalShut'
  BY <1>9, SMT DEF TerminalShut, Refused, TypeOK, HostRemove, HostGo, Removed
<1>10. ASSUME NEW h \in Hosts, HostClose(h) PROVE TerminalShut'
  BY <1>10, SMT DEF TerminalShut, Refused, TypeOK, HostClose, HostGo, BeginClose
<1>11. ASSUME NEW h \in Hosts, HostSendPanics(h) PROVE TerminalShut'
  BY <1>11, SMT DEF TerminalShut, Refused, TypeOK, HostSendPanics, HostGo
<1>12. ASSUME NEW h \in Hosts, NEW v \in Viewers, HostSend(h, v) PROVE TerminalShut'
  BY <1>12, SMT DEF TerminalShut, Refused, TypeOK, HostSend
<1>13. ASSUME NEW h \in Hosts, EndClose(h) PROVE TerminalShut'
  BY <1>13, SMT DEF TerminalShut, Refused, TypeOK, EndClose
<1>14. ASSUME NEW h \in Hosts, NEW v \in Viewers, CloseOut(h, v) PROVE TerminalShut'
  BY <1>14, SMT DEF TerminalShut, Refused, TypeOK, CloseOut
<1>15. ASSUME NEW v \in Viewers, ViewerFind(v) PROVE TerminalShut'
  BY <1>15, SMT DEF TerminalShut, Refused, TypeOK, ViewerFind, ViewerGo
<1>16. ASSUME NEW v \in Viewers, ViewerLeaves(v) PROVE TerminalShut'
  BY <1>16, SMT DEF TerminalShut, Refused, TypeOK, ViewerLeaves, ViewerGo
<1>17. ASSUME NEW v \in Viewers, ViewerAttach(v) PROVE TerminalShut'
  BY <1>17, SMT DEF TerminalShut, Refused, TypeOK, ViewerAttach, ViewerGo
<1>18. ASSUME NEW v \in Viewers, ViewerRead(v) PROVE TerminalShut'
  BY <1>18, SMT DEF TerminalShut, Refused, TypeOK, ViewerRead
<1>19. ASSUME NEW v \in Viewers, ViewerExit(v) PROVE TerminalShut'
  BY <1>19, SMT DEF TerminalShut, Refused, TypeOK, ViewerExit, ViewerGo
<1>20. ASSUME NEW v \in Viewers, ViewerDetach(v) PROVE TerminalShut'
  BY <1>20, SMT DEF TerminalShut, Refused, TypeOK, ViewerDetach, ViewerGo
<1>21. CASE KillRemember
  BY <1>21, SMT DEF TerminalShut, Refused, TypeOK, KillRemember
<1>22. CASE KillFindHost
  BY <1>22, SMT DEF TerminalShut, Refused, TypeOK, KillFindHost
<1>23. CASE KillRemove
  BY <1>23, SMT DEF TerminalShut, Refused, TypeOK, KillRemove, Removed
<1>24. CASE KillClose
  BY <1>24, SMT DEF TerminalShut, Refused, TypeOK, KillClose, BeginClose
<1>25. CASE KillSave
  BY <1>25, SMT DEF TerminalShut, Refused, TypeOK, KillSave
<1>26. CASE Forget
  BY <1>26, SMT DEF TerminalShut, Refused, TypeOK, Forget
<1>27. CASE RecordSaved
  BY <1>27, SMT DEF TerminalShut, Refused, TypeOK, RecordSaved
<1>28. CASE RecordGoes
  BY <1>28, SMT DEF TerminalShut, Refused, TypeOK, RecordGoes
<1>29. CASE Restart
  BY <1>29, SMT DEF TerminalShut, Refused, TypeOK, Restart
<1>30. CASE UNCHANGED vars
  BY <1>30 DEF TerminalShut, vars
<1> QED
  BY <1>1, <1>2, <1>3, <1>4, <1>5, <1>6, <1>7, <1>8, <1>9, <1>10, <1>11, <1>12, <1>13, <1>14,
      <1>15, <1>16, <1>17, <1>18, <1>19, <1>20, <1>21, <1>22, <1>23, <1>24, <1>25, <1>26,
      <1>27, <1>28, <1>29, <1>30
  DEF Next, HostHandler, CloseHost, ViewerHandler, KillHandler, RecordStep

\* A session that is refused and has no host registered nor past its check is
\* offered no terminal while it is refused, by its record or by the memory of
\* its kill, whichever of the two the wrapper's requests and time undo.
THEOREM SpecTerminalStaysShut == Spec => TerminalStaysShut
<1>1. TypeOK /\ [Next]_vars => (TerminalShut /\ Refused' => TerminalShut')
  BY TerminalShutStep
<1>2. TypeOK /\ [Next]_vars => [TerminalShut /\ Refused' => TerminalShut']_vars
  BY <1>1
<1> QED BY <1>2, SpecTypeOK, PTL DEF Spec, TerminalStaysShut
=============================================================================
