---------------------- MODULE SyntheticMounts_proofs ----------------------
(* Proofs about SyntheticMounts, for any number of sessions and targets:     *)
(* type correctness, the exclusion by policy-mount.lock, and that no session *)
(* removes a placeholder another live session holds.                         *)
EXTENDS SyntheticMounts, TLAPS

(* The inductive invariant behind HeldPlaceholderKept.                       *)

\* A session is in a step that needs policy-mount.lock exactly when it has it.
LockInv == \A d \in Daemon : pc[d] \in Locked <=> lock = d

\* In the middle of a mask there is a mask.
CurInv == \A d \in Daemon :
  pc[d] \in {"resClassify", "regReserve", "regMkdir", "regFinal", "unrScan", "unrRemove"}
    => cur[d] <= NTarget

\* There is no daemon before the client starts it.
DeadInv == \A d \in Daemon :
  pc[d] \in {"idle", "entered", "resolved"} \union Resolving => ~alive[d]

\* A resolution sweeps the markers of the session's former life away, so that
\* none of them becomes active when the daemon starts.
FreshInv == \A d \in Daemon, t \in Target :
  \/ pc[d] \in {"resolved", "starting"}
  \/ pc[d] \in Resolving /\ t < cur[d]
  \/ pc[d] = "resClassify" /\ t = cur[d]
  => marker[t][d] = NoMarker

\* A live holder has a marker.
HoldInv == \A d \in Daemon, t \in Target : Holding(d, t) => marker[t][d] # NoMarker

\* Whoever is about to remove a placeholder has seen no other active marker.
RemoveInv == \A d, e \in Daemon :
  pc[e] = "unrRemove" /\ d # e /\ alive[d] => marker[cur[e]][d] = NoMarker

IInv == TypeOK /\ LockInv /\ CurInv /\ DeadInv /\ FreshInv /\ HoldInv /\ RemoveInv

----------------------------------------------------------------------------
(* What the two ways to write markers leave behind *)

\* Writing one marker file (register_synthetics) leaves the others alone.
LEMMA WriteMarker ==
  ASSUME TypeOK, NEW t \in Target, NEW d \in Daemon, NEW v,
         marker' = [marker EXCEPT ![t][d] = v]
  PROVE  /\ marker'[t][d] = v
         /\ \A u \in Target, e \in Daemon :
              u # t \/ e # d => marker'[u][e] = marker[u][e]
  BY DEF TypeOK, DataOK

\* Unlinking the markers of dead daemons leaves those of live ones alone.
LEMMA SweepMarkers ==
  ASSUME TypeOK, NEW t \in Target, marker' = Swept(t)
  PROVE  \A u \in Target, e \in Daemon :
           marker'[u][e] = IF u = t /\ ~alive[e] THEN NoMarker ELSE marker[u][e]
  BY DEF TypeOK, DataOK, ControlOK, Swept

\* The typing facts a step needs, apart from the records in obj.
LEMMA Typing ==
  ASSUME TypeOK
  PROVE  /\ pc \in [Daemon -> PC] /\ alive \in [Daemon -> BOOLEAN]
         /\ cur \in [Daemon -> Nat] /\ NTarget \in Nat
         /\ \A d \in Daemon : cur[d] >= 1 /\ cur[d] <= NTarget + 1
         /\ marker \in [Target -> [Daemon -> Marker]]
         /\ plan \in [Daemon -> [Target -> Ino \union {Missing, NoInode}]]
  BY NTargetAssumption DEF TypeOK, DataOK, ControlOK

\* The typing facts about what is on disk.
LEMMA ObjTyping ==
  ASSUME TypeOK
  PROVE  /\ obj \in [Target -> Object]
         /\ mdir \in [Target -> BOOLEAN]
  BY DEF TypeOK, DataOK, ControlOK

----------------------------------------------------------------------------
(* Type correctness *)

\* A daemon that exits leaves well-typed control variables.
LEMMA GoneTypes ==
  ASSUME ControlOK, NEW d \in Daemon, Gone(d), starter' \in Daemon \union {Nobody}
  PROVE  ControlOK'
  BY NTargetAssumption DEF ControlOK, Gone, Begin, Release, PC, Target

\* So does every way in which a helper fails.
LEMMA FailTypes ==
  ASSUME ControlOK, NEW d \in Daemon,
         RegisterFails(d) \/ ResolveFails(d) \/ UnregisterFails(d)
  PROVE  ControlOK'
<1>1. CASE Gone(d) /\ (UNCHANGED starter \/ starter' = Nobody)
  BY <1>1, GoneTypes DEF ControlOK
<1>2. CASE Begin(d, "unrDrop") /\ UNCHANGED <<alive, plan, lock, starter>>
  BY <1>2, NTargetAssumption
  DEF ControlOK, Begin, PC, Locked, Helping, Unregistering
<1> QED BY <1>1, <1>2 DEF RegisterFails, ResolveFails, UnregisterFails

\* A marker file that is written holds an identity or stands for one to come.
LEMMA MarkerTypes ==
  ASSUME TypeOK, NEW t \in Target, NEW d \in Daemon, NEW v \in Marker,
         marker' = [marker EXCEPT ![t][d] = v]
  PROVE  marker' \in [Target -> [Daemon -> Marker]]
  BY DEF TypeOK, DataOK

\* One target changes, the others stay what they were.
LEMMA ObjectTypes ==
  ASSUME TypeOK, NEW t \in Target, NEW o \in Object, obj' = [obj EXCEPT ![t] = o]
  PROVE  obj' \in [Target -> Object]
  BY DEF TypeOK, DataOK

\* What mkdir, rmdir and the user leave at a target is an object.
LEMMA Objects ==
  /\ Absent \in Object
  /\ \A k \in Kind, i \in Ino, who \in Origin : Made(k, i, who) \in Object
  BY DEF Absent, Made, Object, Kind, Origin

\* Every step keeps the types of the control variables.
LEMMA ControlStep ==
  ASSUME TypeOK, ControlOK, CurInv, [Next]_vars PROVE ControlOK'
<1> USE NTargetAssumption
    DEF ControlOK, CurInv,
          Goto, Begin, NextMask, Release, InspectInactive, InspectActive,
          PC, Locked, Helping, Resolving, Registering, Unregistering
<1>1. ASSUME NEW d \in Daemon, ClientEnters(d) PROVE ControlOK'
  BY <1>1 DEF ClientEnters
<1>2. ASSUME NEW d \in Daemon, StartDaemon(d) PROVE ControlOK'
  BY <1>2 DEF StartDaemon
<1>3. ASSUME NEW d \in Daemon, ClientLeaves(d) PROVE ControlOK'
  <2>1. CASE Gone(d)
    BY <1>3, <2>1, GoneTypes DEF ClientLeaves
  <2>2. CASE ~Gone(d)
    BY <1>3, <2>2 DEF ClientLeaves
  <2> QED BY <2>1, <2>2
<1>4. ASSUME NEW d \in Daemon, ResolveLock(d) PROVE ControlOK'
  BY <1>4 DEF ResolveLock
<1>5. ASSUME NEW d \in Daemon, StartLock(d) PROVE ControlOK'
  BY <1>5 DEF StartLock
<1>6. ASSUME NEW d \in Daemon, StopLock(d) PROVE ControlOK'
  BY <1>6 DEF StopLock
<1>40. ASSUME NEW d \in Daemon, ClientCleans(d) PROVE ControlOK'
  BY <1>40 DEF ClientCleans
<1>7. ASSUME NEW d \in Daemon, ResolveInspect(d) PROVE ControlOK'
  <2>1. CASE InspectActive(cur[d]) /\ NextMask(d, "resInspect")
    BY <1>7, <2>1 DEF ResolveInspect
  <2>2. CASE InspectInactive(d, cur[d], "resClassify")
    BY <1>7, <2>2 DEF ResolveInspect
  <2>3. CASE InspectRefuses(cur[d]) /\ ResolveFails(d)
    BY <1>7, <2>3, FailTypes DEF ResolveInspect
  <2> QED BY <1>7, <2>1, <2>2, <2>3 DEF ResolveInspect
<1>8. ASSUME NEW d \in Daemon, ResolveClassify(d) PROVE ControlOK'
  <2>1. CASE ResolveFails(d)
    BY <2>1, FailTypes
  <2>2. CASE /\ plan' = [plan EXCEPT ![d][cur[d]] =
                             IF Exists(cur[d]) THEN obj[cur[d]].ino ELSE Missing]
             /\ NextMask(d, "resInspect") /\ UNCHANGED <<alive, lock, starter>>
    <3>1. cur[d] \in Target
      BY <1>8, Typing DEF ResolveClassify, Target
    <3>2. obj[cur[d]].ino \in Ino \union {NoInode}
      BY <3>1, ObjTyping DEF Object
    <3>3. plan' \in [Daemon -> [Target -> Ino \union {Missing, NoInode}]]
      BY <2>2, <3>1, <3>2
    <3> QED BY <1>8, <2>2, <3>1, <3>3 DEF ResolveClassify, Target
  <2> QED BY <1>8, <2>1, <2>2 DEF ResolveClassify
<1>9. ASSUME NEW d \in Daemon, Resolved(d) PROVE ControlOK'
  BY <1>9 DEF Resolved
<1>10. ASSUME NEW d \in Daemon, RegisterExisting(d) PROVE ControlOK'
  <2>1. CASE RegisterFails(d)
    BY <2>1, FailTypes
  <2>2. CASE ~RegisterFails(d)
    BY <1>10, <2>2 DEF RegisterExisting
  <2> QED BY <2>1, <2>2
<1>11. ASSUME NEW d \in Daemon, RegisterInspect(d) PROVE ControlOK'
  <2>1. CASE InspectActive(cur[d]) /\ Goto(d, "regFinal")
    BY <1>11, <2>1 DEF RegisterInspect
  <2>2. CASE InspectInactive(d, cur[d], "regReserve")
    BY <1>11, <2>2 DEF RegisterInspect
  <2>3. CASE InspectRefuses(cur[d]) /\ RegisterFails(d)
    BY <1>11, <2>3, FailTypes DEF RegisterInspect
  <2> QED BY <1>11, <2>1, <2>2, <2>3 DEF RegisterInspect
<1>12. ASSUME NEW d \in Daemon, RegisterReserve(d) PROVE ControlOK'
  <2>1. CASE RegisterFails(d)
    BY <2>1, FailTypes
  <2>2. CASE ~RegisterFails(d)
    BY <1>12, <2>2 DEF RegisterReserve
  <2> QED BY <2>1, <2>2
<1>13. ASSUME NEW d \in Daemon, RegisterMkdir(d) PROVE ControlOK'
  <2>1. CASE RegisterFails(d)
    BY <2>1, FailTypes
  <2>2. CASE ~RegisterFails(d)
    BY <1>13, <2>2 DEF RegisterMkdir
  <2> QED BY <2>1, <2>2
<1>14. ASSUME NEW d \in Daemon, RegisterFinal(d) PROVE ControlOK'
  <2>1. CASE RegisterFails(d)
    BY <2>1, FailTypes
  <2>2. CASE ~RegisterFails(d)
    BY <1>14, <2>2 DEF RegisterFinal
  <2> QED BY <2>1, <2>2
<1>15. ASSUME NEW d \in Daemon, Registered(d) PROVE ControlOK'
  <2>1. CASE Gone(d)
    BY <1>15, <2>1, GoneTypes DEF Registered
  <2>2. CASE Begin(d, "launch") /\ UNCHANGED <<alive, plan, lock, starter>>
    BY <2>2
  <2> QED BY <1>15, <2>1, <2>2 DEF Registered
<1>16. ASSUME NEW d \in Daemon, UnregisterDrop(d) PROVE ControlOK'
  BY <1>16, SMTT(30) DEF UnregisterDrop
<1>17. ASSUME NEW d \in Daemon, UnregisterScan(d) PROVE ControlOK'
  <2>1. CASE UnregisterFails(d)
    BY <2>1, FailTypes
  <2>2. CASE UNCHANGED <<alive, plan, lock, starter>> /\ Goto(d, "unrRemove")
    BY <1>17, <2>2 DEF UnregisterScan
  <2>3. CASE UNCHANGED <<alive, plan, lock, starter>> /\ NextMask(d, "unrDrop")
    <3>1. cur[d] <= NTarget
      BY <1>17 DEF UnregisterScan
    <3> QED BY <2>3, <3>1
  <2> QED BY <1>17, <2>1, <2>2, <2>3 DEF UnregisterScan
<1>18. ASSUME NEW d \in Daemon, UnregisterRemove(d) PROVE ControlOK'
  <2>1. CASE UnregisterFails(d)
    BY <2>1, FailTypes
  <2>2. CASE ~UnregisterFails(d)
    BY <1>18, <2>2, SMTT(30) DEF UnregisterRemove
  <2> QED BY <2>1, <2>2
<1>19. ASSUME NEW d \in Daemon, Unregistered(d) PROVE ControlOK'
  BY <1>19, GoneTypes DEF Unregistered
<1>20. ASSUME NEW d \in Daemon, LaunchSucceeds(d) PROVE ControlOK'
  BY <1>20 DEF LaunchSucceeds
<1>21. ASSUME NEW d \in Daemon, LaunchFails(d) PROVE ControlOK'
  BY <1>21 DEF LaunchFails
<1>22. ASSUME NEW d \in Daemon, Stop(d) PROVE ControlOK'
  BY <1>22 DEF Stop
<1>23. ASSUME NEW d \in Daemon, DaemonKilled(d) PROVE ControlOK'
  <2>1. CASE Gone(d)
    BY <1>23, <2>1, GoneTypes DEF DaemonKilled
  <2>2. CASE ~Gone(d)
    BY <1>23, <2>2 DEF DaemonKilled
  <2> QED BY <2>1, <2>2
<1>24. ASSUME NEW d \in Daemon, HelperKilled(d) PROVE ControlOK'
  BY <1>24, FailTypes DEF HelperKilled
<1>25. ASSUME NEW t \in Target, UserCreates(t) PROVE ControlOK'
  BY <1>25 DEF UserCreates, UserWorks
<1>26. ASSUME NEW t \in Target, UserDeletes(t) PROVE ControlOK'
  BY <1>26 DEF UserDeletes, UserWorks
<1>27. ASSUME NEW t \in Target, UserFills(t) PROVE ControlOK'
  BY <1>27 DEF UserFills, UserWorks
<1>28. ASSUME NEW t \in Target, UserEmpties(t) PROVE ControlOK'
  BY <1>28 DEF UserEmpties, UserWorks
<1>29. CASE UNCHANGED vars
  BY <1>29 DEF vars
<1> QED
  BY <1>1, <1>2, <1>3, <1>4, <1>5, <1>6, <1>40, <1>7, <1>8, <1>9, <1>10, <1>11,
     <1>12, <1>13, <1>14, <1>15, <1>16, <1>17, <1>18, <1>19, <1>20, <1>21,
     <1>22, <1>23, <1>24, <1>25, <1>26, <1>27, <1>28, <1>29
  DEF Next, ClientStep, TakeLock, HelperStep, LaunchStep, UserStep

\* Every step keeps the types of the workspace and of the registry.
LEMMA DataStep ==
  ASSUME TypeOK, DataOK, CurInv, [Next]_vars PROVE DataOK'
<1> USE DEF DataOK, InspectInactive, InspectActive, InspectRefuses, Swept, Marker
<1>1. ASSUME NEW d \in Daemon, ClientEnters(d) PROVE DataOK'
  BY <1>1 DEF ClientEnters
<1>2. ASSUME NEW d \in Daemon, StartDaemon(d) PROVE DataOK'
  BY <1>2 DEF StartDaemon
<1>3. ASSUME NEW d \in Daemon, ClientLeaves(d) PROVE DataOK'
  BY <1>3 DEF ClientLeaves
<1>4. ASSUME NEW d \in Daemon, ResolveLock(d) PROVE DataOK'
  BY <1>4 DEF ResolveLock
<1>5. ASSUME NEW d \in Daemon, StartLock(d) PROVE DataOK'
  BY <1>5 DEF StartLock
<1>6. ASSUME NEW d \in Daemon, StopLock(d) PROVE DataOK'
  BY <1>6 DEF StopLock
<1>40. ASSUME NEW d \in Daemon, ClientCleans(d) PROVE DataOK'
  BY <1>40 DEF ClientCleans
<1>7. ASSUME NEW d \in Daemon, ResolveInspect(d) PROVE DataOK'
  <2>1. CASE InspectActive(cur[d]) /\ NextMask(d, "resInspect")
    BY <1>7, <2>1 DEF ResolveInspect
  <2>2. CASE InspectInactive(d, cur[d], "resClassify")
    BY <1>7, <2>2 DEF ResolveInspect, Absent, Object, Kind, Origin
  <2>3. CASE InspectRefuses(cur[d]) /\ ResolveFails(d)
    BY <1>7, <2>3 DEF ResolveInspect
  <2> QED BY <1>7, <2>1, <2>2, <2>3 DEF ResolveInspect
<1>8. ASSUME NEW d \in Daemon, ResolveClassify(d) PROVE DataOK'
  BY <1>8 DEF ResolveClassify
<1>9. ASSUME NEW d \in Daemon, Resolved(d) PROVE DataOK'
  BY <1>9 DEF Resolved
<1>10. ASSUME NEW d \in Daemon, RegisterExisting(d) PROVE DataOK'
  BY <1>10 DEF RegisterExisting
<1>11. ASSUME NEW d \in Daemon, RegisterInspect(d) PROVE DataOK'
  <2>1. CASE InspectActive(cur[d]) /\ Goto(d, "regFinal")
    BY <1>11, <2>1 DEF RegisterInspect
  <2>2. CASE InspectInactive(d, cur[d], "regReserve")
    BY <1>11, <2>2 DEF RegisterInspect, Absent, Object, Kind, Origin
  <2>3. CASE InspectRefuses(cur[d]) /\ RegisterFails(d)
    BY <1>11, <2>3 DEF RegisterInspect
  <2> QED BY <1>11, <2>1, <2>2, <2>3 DEF RegisterInspect
<1>12. ASSUME NEW d \in Daemon, RegisterReserve(d) PROVE DataOK'
  <2>1. cur[d] \in Target /\ UNCHANGED obj /\ mdir' \in [Target -> BOOLEAN]
    BY <1>12, Typing DEF RegisterReserve, CurInv, Target
  <2>2. marker' = [marker EXCEPT ![cur[d]][d] = Provisional] \/ UNCHANGED marker
    BY <1>12 DEF RegisterReserve
  <2>3. Provisional \in Marker
    BY <2>1, ObjTyping DEF Marker, Object
  <2> QED BY <2>1, <2>2, <2>3, MarkerTypes
<1>13. ASSUME NEW d \in Daemon, RegisterMkdir(d) PROVE DataOK'
  <2>1. cur[d] \in Target /\ UNCHANGED marker
    BY <1>13, Typing DEF RegisterMkdir, CurInv, Target
  <2>4. mdir' = [mdir EXCEPT ![cur[d]] = FALSE] \/ UNCHANGED mdir
    BY <1>13 DEF RegisterMkdir
  <2>5. mdir' \in [Target -> BOOLEAN]
    BY <2>4
  <2>2. (\E i \in Ino : obj' = [obj EXCEPT ![cur[d]] = Made("dir", i, "lab")]) \/ UNCHANGED obj
    BY <1>13 DEF RegisterMkdir
  <2>3. \A i \in Ino : Made("dir", i, "lab") \in Object
    BY Objects DEF Kind, Origin
  <2> QED BY <2>1, <2>2, <2>3, <2>5, ObjectTypes
<1>14. ASSUME NEW d \in Daemon, RegisterFinal(d) PROVE DataOK'
  <2>1. cur[d] \in Target /\ UNCHANGED obj /\ mdir' \in [Target -> BOOLEAN]
    BY <1>14, Typing DEF RegisterFinal, CurInv, Target
  <2>2. marker' = [marker EXCEPT ![cur[d]][d] = obj[cur[d]].ino] \/ UNCHANGED marker
    BY <1>14 DEF RegisterFinal
  <2>3. obj[cur[d]].ino \in Marker
    BY <2>1, ObjTyping DEF Marker, Object
  <2> QED BY <2>1, <2>2, <2>3, MarkerTypes
<1>15. ASSUME NEW d \in Daemon, Registered(d) PROVE DataOK'
  BY <1>15 DEF Registered
<1>16. ASSUME NEW d \in Daemon, UnregisterDrop(d) PROVE DataOK'
  <2>1. cur[d] \in Target /\ UNCHANGED obj /\ mdir' \in [Target -> BOOLEAN]
    BY <1>16, Typing DEF UnregisterDrop, CurInv, Target
  <2>2. marker' = [marker EXCEPT ![cur[d]][d] = NoMarker] \/ UNCHANGED marker
    BY <1>16 DEF UnregisterDrop
  <2>3. NoMarker \in Marker
    BY <2>1, ObjTyping DEF Marker, Object
  <2> QED BY <2>1, <2>2, <2>3, MarkerTypes
<1>17. ASSUME NEW d \in Daemon, UnregisterScan(d) PROVE DataOK'
  BY <1>17, SMTT(30) DEF UnregisterScan
<1>18. ASSUME NEW d \in Daemon, UnregisterRemove(d) PROVE DataOK'
  <2>1. cur[d] \in Target /\ UNCHANGED marker
    BY <1>18, Typing DEF UnregisterRemove, CurInv, Target
  <2>4. mdir' = [mdir EXCEPT ![cur[d]] = FALSE] \/ UNCHANGED mdir
    BY <1>18 DEF UnregisterRemove
  <2>5. mdir' \in [Target -> BOOLEAN]
    BY <2>4
  <2>2. obj' = [obj EXCEPT ![cur[d]] = Absent] \/ UNCHANGED obj
    BY <1>18 DEF UnregisterRemove
  <2>3. Absent \in Object
    BY Objects DEF Kind, Origin
  <2> QED BY <2>1, <2>2, <2>3, <2>5, ObjectTypes
<1>19. ASSUME NEW d \in Daemon, Unregistered(d) PROVE DataOK'
  BY <1>19 DEF Unregistered
<1>20. ASSUME NEW d \in Daemon, LaunchSucceeds(d) PROVE DataOK'
  BY <1>20 DEF LaunchSucceeds
<1>21. ASSUME NEW d \in Daemon, LaunchFails(d) PROVE DataOK'
  BY <1>21 DEF LaunchFails
<1>22. ASSUME NEW d \in Daemon, Stop(d) PROVE DataOK'
  BY <1>22 DEF Stop
<1>23. ASSUME NEW d \in Daemon, DaemonKilled(d) PROVE DataOK'
  BY <1>23 DEF DaemonKilled
<1>24. ASSUME NEW d \in Daemon, HelperKilled(d) PROVE DataOK'
  BY <1>24 DEF HelperKilled
<1>25. ASSUME NEW t \in Target, UserCreates(t) PROVE DataOK'
  BY <1>25, KindsAssumption DEF UserCreates, UserWorks, Made, Object, Kind, Origin
<1>26. ASSUME NEW t \in Target, UserDeletes(t) PROVE DataOK'
  BY <1>26 DEF UserDeletes, UserWorks, Absent, Object, Kind, Origin
<1>27. ASSUME NEW t \in Target, UserFills(t) PROVE DataOK'
  BY <1>27 DEF UserFills, UserWorks, Made, Object, Kind, Origin
<1>28. ASSUME NEW t \in Target, UserEmpties(t) PROVE DataOK'
  BY <1>28 DEF UserEmpties, UserWorks, Made, Object, Kind, Origin
<1>29. CASE UNCHANGED vars
  BY <1>29 DEF vars
<1> QED
  BY <1>1, <1>2, <1>3, <1>4, <1>5, <1>6, <1>40, <1>7, <1>8, <1>9, <1>10, <1>11,
     <1>12, <1>13, <1>14, <1>15, <1>16, <1>17, <1>18, <1>19, <1>20, <1>21,
     <1>22, <1>23, <1>24, <1>25, <1>26, <1>27, <1>28, <1>29
  DEF Next, ClientStep, TakeLock, HelperStep, LaunchStep, UserStep


----------------------------------------------------------------------------
(* The steps of the inductive invariant *)

\* The lock changes hands only at the steps that take and release it.
LEMMA LockStep ==
  ASSUME TypeOK, LockInv, [Next]_vars PROVE LockInv'
<1> USE Typing, NobodyAssumption
    DEF LockInv,
          Goto, Begin, NextMask, Release, Gone, ResolveFails, RegisterFails,
          UnregisterFails, InspectInactive, InspectActive, InspectRefuses,
          PC, Locked, Helping, Resolving, Registering, Unregistering
<1>1. ASSUME NEW d \in Daemon, ClientEnters(d) PROVE LockInv'
  BY <1>1 DEF ClientEnters
<1>2. ASSUME NEW d \in Daemon, StartDaemon(d) PROVE LockInv'
  BY <1>2 DEF StartDaemon
<1>3. ASSUME NEW d \in Daemon, ClientLeaves(d) PROVE LockInv'
  BY <1>3 DEF ClientLeaves
<1>4. ASSUME NEW d \in Daemon, ResolveLock(d) PROVE LockInv'
  BY <1>4 DEF ResolveLock
<1>5. ASSUME NEW d \in Daemon, StartLock(d) PROVE LockInv'
  BY <1>5 DEF StartLock
<1>6. ASSUME NEW d \in Daemon, StopLock(d) PROVE LockInv'
  BY <1>6 DEF StopLock
<1>40. ASSUME NEW d \in Daemon, ClientCleans(d) PROVE LockInv'
  BY <1>40 DEF ClientCleans
<1>7. ASSUME NEW d \in Daemon, ResolveInspect(d) PROVE LockInv'
  <2>1. CASE InspectActive(cur[d]) /\ NextMask(d, "resInspect")
    BY <1>7, <2>1 DEF ResolveInspect
  <2>2. CASE InspectInactive(d, cur[d], "resClassify")
    BY <1>7, <2>2 DEF ResolveInspect
  <2>3. CASE InspectRefuses(cur[d]) /\ ResolveFails(d)
    BY <1>7, <2>3 DEF ResolveInspect
  <2> QED BY <1>7, <2>1, <2>2, <2>3 DEF ResolveInspect
<1>8. ASSUME NEW d \in Daemon, ResolveClassify(d) PROVE LockInv'
  BY <1>8 DEF ResolveClassify
<1>9. ASSUME NEW d \in Daemon, Resolved(d) PROVE LockInv'
  BY <1>9 DEF Resolved
<1>10. ASSUME NEW d \in Daemon, RegisterExisting(d) PROVE LockInv'
  BY <1>10 DEF RegisterExisting
<1>11. ASSUME NEW d \in Daemon, RegisterInspect(d) PROVE LockInv'
  <2>1. CASE InspectActive(cur[d]) /\ Goto(d, "regFinal")
    BY <1>11, <2>1 DEF RegisterInspect
  <2>2. CASE InspectInactive(d, cur[d], "regReserve")
    BY <1>11, <2>2 DEF RegisterInspect
  <2>3. CASE InspectRefuses(cur[d]) /\ RegisterFails(d)
    BY <1>11, <2>3 DEF RegisterInspect
  <2> QED BY <1>11, <2>1, <2>2, <2>3 DEF RegisterInspect
<1>12. ASSUME NEW d \in Daemon, RegisterReserve(d) PROVE LockInv'
  BY <1>12 DEF RegisterReserve
<1>13. ASSUME NEW d \in Daemon, RegisterMkdir(d) PROVE LockInv'
  BY <1>13 DEF RegisterMkdir
<1>14. ASSUME NEW d \in Daemon, RegisterFinal(d) PROVE LockInv'
  BY <1>14 DEF RegisterFinal
<1>15. ASSUME NEW d \in Daemon, Registered(d) PROVE LockInv'
  BY <1>15 DEF Registered
<1>16. ASSUME NEW d \in Daemon, UnregisterDrop(d) PROVE LockInv'
  BY <1>16 DEF UnregisterDrop
<1>17. ASSUME NEW d \in Daemon, UnregisterScan(d) PROVE LockInv'
  <2>1. /\ lock = d
        /\ \/ pc'[d] \in {"unrRemove", "unrDrop"} /\ lock' = lock
           \/ pc'[d] = "idle" /\ lock' = Nobody
        /\ \A e \in Daemon \ {d} : pc'[e] = pc[e]
    BY <1>17 DEF UnregisterScan
  <2> QED BY <2>1
<1>18. ASSUME NEW d \in Daemon, UnregisterRemove(d) PROVE LockInv'
  <2>1. /\ lock = d
        /\ \/ pc'[d] \in {"unrDrop"} /\ lock' = lock
           \/ pc'[d] = "idle" /\ lock' = Nobody
        /\ \A e \in Daemon \ {d} : pc'[e] = pc[e]
    BY <1>18 DEF UnregisterRemove
  <2> QED BY <2>1
<1>19. ASSUME NEW d \in Daemon, Unregistered(d) PROVE LockInv'
  BY <1>19 DEF Unregistered
<1>20. ASSUME NEW d \in Daemon, LaunchSucceeds(d) PROVE LockInv'
  BY <1>20 DEF LaunchSucceeds
<1>21. ASSUME NEW d \in Daemon, LaunchFails(d) PROVE LockInv'
  BY <1>21 DEF LaunchFails
<1>22. ASSUME NEW d \in Daemon, Stop(d) PROVE LockInv'
  BY <1>22 DEF Stop
<1>23. ASSUME NEW d \in Daemon, DaemonKilled(d) PROVE LockInv'
  BY <1>23 DEF DaemonKilled
<1>24. ASSUME NEW d \in Daemon, HelperKilled(d) PROVE LockInv'
  BY <1>24 DEF HelperKilled
<1>25. ASSUME NEW t \in Target, UserCreates(t) PROVE LockInv'
  BY <1>25 DEF UserCreates, UserWorks
<1>26. ASSUME NEW t \in Target, UserDeletes(t) PROVE LockInv'
  BY <1>26 DEF UserDeletes, UserWorks
<1>27. ASSUME NEW t \in Target, UserFills(t) PROVE LockInv'
  BY <1>27 DEF UserFills, UserWorks
<1>28. ASSUME NEW t \in Target, UserEmpties(t) PROVE LockInv'
  BY <1>28 DEF UserEmpties, UserWorks
<1>29. CASE UNCHANGED vars
  BY <1>29 DEF vars
<1> QED
  BY <1>1, <1>2, <1>3, <1>4, <1>5, <1>6, <1>40, <1>7, <1>8, <1>9, <1>10, <1>11,
     <1>12, <1>13, <1>14, <1>15, <1>16, <1>17, <1>18, <1>19, <1>20, <1>21,
     <1>22, <1>23, <1>24, <1>25, <1>26, <1>27, <1>28, <1>29
  DEF Next, ClientStep, TakeLock, HelperStep, LaunchStep, UserStep

\* A helper enters a mask only after it has checked that there is one.
LEMMA CurStep ==
  ASSUME TypeOK, CurInv, [Next]_vars PROVE CurInv'
<1> USE Typing
    DEF CurInv,
          Goto, Begin, NextMask, Release, Gone, ResolveFails, RegisterFails,
          UnregisterFails, InspectInactive, InspectActive, InspectRefuses,
          PC, Locked, Helping, Resolving, Registering, Unregistering
<1>1. ASSUME NEW d \in Daemon, ClientEnters(d) PROVE CurInv'
  BY <1>1 DEF ClientEnters
<1>2. ASSUME NEW d \in Daemon, StartDaemon(d) PROVE CurInv'
  BY <1>2 DEF StartDaemon
<1>3. ASSUME NEW d \in Daemon, ClientLeaves(d) PROVE CurInv'
  BY <1>3 DEF ClientLeaves
<1>4. ASSUME NEW d \in Daemon, ResolveLock(d) PROVE CurInv'
  BY <1>4 DEF ResolveLock
<1>5. ASSUME NEW d \in Daemon, StartLock(d) PROVE CurInv'
  BY <1>5 DEF StartLock
<1>6. ASSUME NEW d \in Daemon, StopLock(d) PROVE CurInv'
  BY <1>6 DEF StopLock
<1>40. ASSUME NEW d \in Daemon, ClientCleans(d) PROVE CurInv'
  BY <1>40 DEF ClientCleans
<1>7. ASSUME NEW d \in Daemon, ResolveInspect(d) PROVE CurInv'
  <2>1. CASE InspectActive(cur[d]) /\ NextMask(d, "resInspect")
    BY <1>7, <2>1 DEF ResolveInspect
  <2>2. CASE InspectInactive(d, cur[d], "resClassify")
    BY <1>7, <2>2 DEF ResolveInspect
  <2>3. CASE InspectRefuses(cur[d]) /\ ResolveFails(d)
    BY <1>7, <2>3 DEF ResolveInspect
  <2> QED BY <1>7, <2>1, <2>2, <2>3 DEF ResolveInspect
<1>8. ASSUME NEW d \in Daemon, ResolveClassify(d) PROVE CurInv'
  BY <1>8 DEF ResolveClassify
<1>9. ASSUME NEW d \in Daemon, Resolved(d) PROVE CurInv'
  BY <1>9 DEF Resolved
<1>10. ASSUME NEW d \in Daemon, RegisterExisting(d) PROVE CurInv'
  BY <1>10, SMTT(30) DEF RegisterExisting
<1>11. ASSUME NEW d \in Daemon, RegisterInspect(d) PROVE CurInv'
  <2>1. CASE InspectActive(cur[d]) /\ Goto(d, "regFinal")
    BY <1>11, <2>1 DEF RegisterInspect
  <2>2. CASE InspectInactive(d, cur[d], "regReserve")
    BY <1>11, <2>2 DEF RegisterInspect
  <2>3. CASE InspectRefuses(cur[d]) /\ RegisterFails(d)
    BY <1>11, <2>3 DEF RegisterInspect
  <2> QED BY <1>11, <2>1, <2>2, <2>3 DEF RegisterInspect
<1>12. ASSUME NEW d \in Daemon, RegisterReserve(d) PROVE CurInv'
  BY <1>12 DEF RegisterReserve
<1>13. ASSUME NEW d \in Daemon, RegisterMkdir(d) PROVE CurInv'
  BY <1>13 DEF RegisterMkdir
<1>14. ASSUME NEW d \in Daemon, RegisterFinal(d) PROVE CurInv'
  <2>1. CASE NextMask(d, "register")
    BY <2>1
  <2>2. CASE RegisterFails(d)
    BY <2>2
  <2> QED BY <1>14, <2>1, <2>2 DEF RegisterFinal
<1>15. ASSUME NEW d \in Daemon, Registered(d) PROVE CurInv'
  BY <1>15 DEF Registered
<1>16. ASSUME NEW d \in Daemon, UnregisterDrop(d) PROVE CurInv'
  BY <1>16 DEF UnregisterDrop
<1>17. ASSUME NEW d \in Daemon, UnregisterScan(d) PROVE CurInv'
  BY <1>17, SMTT(30) DEF UnregisterScan
<1>18. ASSUME NEW d \in Daemon, UnregisterRemove(d) PROVE CurInv'
  BY <1>18 DEF UnregisterRemove
<1>19. ASSUME NEW d \in Daemon, Unregistered(d) PROVE CurInv'
  BY <1>19 DEF Unregistered
<1>20. ASSUME NEW d \in Daemon, LaunchSucceeds(d) PROVE CurInv'
  BY <1>20 DEF LaunchSucceeds
<1>21. ASSUME NEW d \in Daemon, LaunchFails(d) PROVE CurInv'
  BY <1>21 DEF LaunchFails
<1>22. ASSUME NEW d \in Daemon, Stop(d) PROVE CurInv'
  BY <1>22 DEF Stop
<1>23. ASSUME NEW d \in Daemon, DaemonKilled(d) PROVE CurInv'
  BY <1>23 DEF DaemonKilled
<1>24. ASSUME NEW d \in Daemon, HelperKilled(d) PROVE CurInv'
  BY <1>24 DEF HelperKilled
<1>25. ASSUME NEW t \in Target, UserCreates(t) PROVE CurInv'
  BY <1>25 DEF UserCreates, UserWorks
<1>26. ASSUME NEW t \in Target, UserDeletes(t) PROVE CurInv'
  BY <1>26 DEF UserDeletes, UserWorks
<1>27. ASSUME NEW t \in Target, UserFills(t) PROVE CurInv'
  BY <1>27 DEF UserFills, UserWorks
<1>28. ASSUME NEW t \in Target, UserEmpties(t) PROVE CurInv'
  BY <1>28 DEF UserEmpties, UserWorks
<1>29. CASE UNCHANGED vars
  BY <1>29 DEF vars
<1> QED
  BY <1>1, <1>2, <1>3, <1>4, <1>5, <1>6, <1>40, <1>7, <1>8, <1>9, <1>10, <1>11,
     <1>12, <1>13, <1>14, <1>15, <1>16, <1>17, <1>18, <1>19, <1>20, <1>21,
     <1>22, <1>23, <1>24, <1>25, <1>26, <1>27, <1>28, <1>29
  DEF Next, ClientStep, TakeLock, HelperStep, LaunchStep, UserStep

\* Only StartDaemon starts a daemon.
LEMMA DeadStep ==
  ASSUME TypeOK, DeadInv, [Next]_vars PROVE DeadInv'
<1> USE Typing
    DEF DeadInv,
          Goto, Begin, NextMask, Release, Gone, ResolveFails, RegisterFails,
          UnregisterFails, InspectInactive, InspectActive, InspectRefuses,
          PC, Locked, Helping, Resolving, Registering, Unregistering
<1>1. ASSUME NEW d \in Daemon, ClientEnters(d) PROVE DeadInv'
  BY <1>1 DEF ClientEnters
<1>2. ASSUME NEW d \in Daemon, StartDaemon(d) PROVE DeadInv'
  BY <1>2 DEF StartDaemon
<1>3. ASSUME NEW d \in Daemon, ClientLeaves(d) PROVE DeadInv'
  BY <1>3 DEF ClientLeaves
<1>4. ASSUME NEW d \in Daemon, ResolveLock(d) PROVE DeadInv'
  BY <1>4 DEF ResolveLock
<1>5. ASSUME NEW d \in Daemon, StartLock(d) PROVE DeadInv'
  BY <1>5 DEF StartLock
<1>6. ASSUME NEW d \in Daemon, StopLock(d) PROVE DeadInv'
  BY <1>6 DEF StopLock
<1>40. ASSUME NEW d \in Daemon, ClientCleans(d) PROVE DeadInv'
  BY <1>40 DEF ClientCleans
<1>7. ASSUME NEW d \in Daemon, ResolveInspect(d) PROVE DeadInv'
  <2>1. CASE InspectActive(cur[d]) /\ NextMask(d, "resInspect")
    BY <1>7, <2>1 DEF ResolveInspect
  <2>2. CASE InspectInactive(d, cur[d], "resClassify")
    BY <1>7, <2>2 DEF ResolveInspect
  <2>3. CASE InspectRefuses(cur[d]) /\ ResolveFails(d)
    BY <1>7, <2>3 DEF ResolveInspect
  <2> QED BY <1>7, <2>1, <2>2, <2>3 DEF ResolveInspect
<1>8. ASSUME NEW d \in Daemon, ResolveClassify(d) PROVE DeadInv'
  BY <1>8 DEF ResolveClassify
<1>9. ASSUME NEW d \in Daemon, Resolved(d) PROVE DeadInv'
  BY <1>9 DEF Resolved
<1>10. ASSUME NEW d \in Daemon, RegisterExisting(d) PROVE DeadInv'
  BY <1>10 DEF RegisterExisting
<1>11. ASSUME NEW d \in Daemon, RegisterInspect(d) PROVE DeadInv'
  <2>1. CASE InspectActive(cur[d]) /\ Goto(d, "regFinal")
    BY <1>11, <2>1 DEF RegisterInspect
  <2>2. CASE InspectInactive(d, cur[d], "regReserve")
    BY <1>11, <2>2 DEF RegisterInspect
  <2>3. CASE InspectRefuses(cur[d]) /\ RegisterFails(d)
    BY <1>11, <2>3 DEF RegisterInspect
  <2> QED BY <1>11, <2>1, <2>2, <2>3 DEF RegisterInspect
<1>12. ASSUME NEW d \in Daemon, RegisterReserve(d) PROVE DeadInv'
  BY <1>12 DEF RegisterReserve
<1>13. ASSUME NEW d \in Daemon, RegisterMkdir(d) PROVE DeadInv'
  BY <1>13 DEF RegisterMkdir
<1>14. ASSUME NEW d \in Daemon, RegisterFinal(d) PROVE DeadInv'
  BY <1>14 DEF RegisterFinal
<1>15. ASSUME NEW d \in Daemon, Registered(d) PROVE DeadInv'
  BY <1>15 DEF Registered
<1>16. ASSUME NEW d \in Daemon, UnregisterDrop(d) PROVE DeadInv'
  BY <1>16 DEF UnregisterDrop
<1>17. ASSUME NEW d \in Daemon, UnregisterScan(d) PROVE DeadInv'
  BY <1>17 DEF UnregisterScan
<1>18. ASSUME NEW d \in Daemon, UnregisterRemove(d) PROVE DeadInv'
  BY <1>18 DEF UnregisterRemove
<1>19. ASSUME NEW d \in Daemon, Unregistered(d) PROVE DeadInv'
  BY <1>19 DEF Unregistered
<1>20. ASSUME NEW d \in Daemon, LaunchSucceeds(d) PROVE DeadInv'
  BY <1>20 DEF LaunchSucceeds
<1>21. ASSUME NEW d \in Daemon, LaunchFails(d) PROVE DeadInv'
  BY <1>21 DEF LaunchFails
<1>22. ASSUME NEW d \in Daemon, Stop(d) PROVE DeadInv'
  BY <1>22 DEF Stop
<1>23. ASSUME NEW d \in Daemon, DaemonKilled(d) PROVE DeadInv'
  BY <1>23 DEF DaemonKilled
<1>24. ASSUME NEW d \in Daemon, HelperKilled(d) PROVE DeadInv'
  BY <1>24 DEF HelperKilled
<1>25. ASSUME NEW t \in Target, UserCreates(t) PROVE DeadInv'
  BY <1>25 DEF UserCreates, UserWorks
<1>26. ASSUME NEW t \in Target, UserDeletes(t) PROVE DeadInv'
  BY <1>26 DEF UserDeletes, UserWorks
<1>27. ASSUME NEW t \in Target, UserFills(t) PROVE DeadInv'
  BY <1>27 DEF UserFills, UserWorks
<1>28. ASSUME NEW t \in Target, UserEmpties(t) PROVE DeadInv'
  BY <1>28 DEF UserEmpties, UserWorks
<1>29. CASE UNCHANGED vars
  BY <1>29 DEF vars
<1> QED
  BY <1>1, <1>2, <1>3, <1>4, <1>5, <1>6, <1>40, <1>7, <1>8, <1>9, <1>10, <1>11,
     <1>12, <1>13, <1>14, <1>15, <1>16, <1>17, <1>18, <1>19, <1>20, <1>21,
     <1>22, <1>23, <1>24, <1>25, <1>26, <1>27, <1>28, <1>29
  DEF Next, ClientStep, TakeLock, HelperStep, LaunchStep, UserStep

\* Only the session itself writes its marker, and not before its daemon runs.
LEMMA FreshStep ==
  ASSUME TypeOK, CurInv, DeadInv, FreshInv, [Next]_vars PROVE FreshInv'
<1> USE Typing
    DEF CurInv, DeadInv, FreshInv, Target, Swept,
          Goto, Begin, NextMask, Release, Gone, ResolveFails, RegisterFails,
          UnregisterFails, InspectInactive, InspectActive, InspectRefuses,
          PC, Locked, Helping, Resolving, Registering, Unregistering
<1>1. ASSUME NEW d \in Daemon, ClientEnters(d) PROVE FreshInv'
  BY <1>1 DEF ClientEnters
<1>2. ASSUME NEW d \in Daemon, StartDaemon(d) PROVE FreshInv'
  BY <1>2 DEF StartDaemon
<1>3. ASSUME NEW d \in Daemon, ClientLeaves(d) PROVE FreshInv'
  BY <1>3 DEF ClientLeaves
<1>4. ASSUME NEW d \in Daemon, ResolveLock(d) PROVE FreshInv'
  BY <1>4 DEF ResolveLock
<1>5. ASSUME NEW d \in Daemon, StartLock(d) PROVE FreshInv'
  BY <1>5 DEF StartLock
<1>6. ASSUME NEW d \in Daemon, StopLock(d) PROVE FreshInv'
  BY <1>6 DEF StopLock
<1>40. ASSUME NEW d \in Daemon, ClientCleans(d) PROVE FreshInv'
  BY <1>40 DEF ClientCleans
<1>7. ASSUME NEW d \in Daemon, ResolveInspect(d) PROVE FreshInv'
  <2>1. CASE InspectActive(cur[d]) /\ NextMask(d, "resInspect")
    BY <1>7, <2>1 DEF ResolveInspect
  <2>2. CASE InspectInactive(d, cur[d], "resClassify")
    BY <1>7, <2>2 DEF ResolveInspect
  <2>3. CASE InspectRefuses(cur[d]) /\ ResolveFails(d)
    BY <1>7, <2>3 DEF ResolveInspect
  <2> QED BY <1>7, <2>1, <2>2, <2>3 DEF ResolveInspect
<1>8. ASSUME NEW d \in Daemon, ResolveClassify(d) PROVE FreshInv'
  <2>1. /\ UNCHANGED marker /\ pc[d] = "resClassify"
        /\ \A e \in Daemon \ {d} : pc'[e] = pc[e] /\ cur'[e] = cur[e]
        /\ \/ pc'[d] = "resInspect" /\ cur'[d] = cur[d] + 1
           \/ pc'[d] = "idle"
    BY <1>8 DEF ResolveClassify
  <2> QED BY <2>1
<1>9. ASSUME NEW d \in Daemon, Resolved(d) PROVE FreshInv'
  BY <1>9 DEF Resolved
<1>10. ASSUME NEW d \in Daemon, RegisterExisting(d) PROVE FreshInv'
  BY <1>10, SMTT(30) DEF RegisterExisting
<1>11. ASSUME NEW d \in Daemon, RegisterInspect(d) PROVE FreshInv'
  <2>1. CASE InspectActive(cur[d]) /\ Goto(d, "regFinal")
    BY <1>11, <2>1 DEF RegisterInspect
  <2>2. CASE InspectInactive(d, cur[d], "regReserve")
    BY <1>11, <2>2 DEF RegisterInspect
  <2>3. CASE InspectRefuses(cur[d]) /\ RegisterFails(d)
    BY <1>11, <2>3 DEF RegisterInspect
  <2> QED BY <1>11, <2>1, <2>2, <2>3 DEF RegisterInspect
<1>12. ASSUME NEW d \in Daemon, RegisterReserve(d) PROVE FreshInv'
  <2>1. cur[d] \in Target
    BY <1>12 DEF RegisterReserve
  <2>2. marker' = [marker EXCEPT ![cur[d]][d] = Provisional] \/ UNCHANGED marker
    BY <1>12 DEF RegisterReserve
  <2>3. \A u \in Target, e \in Daemon \ {d} : marker'[u][e] = marker[u][e]
    <3>1. CASE marker' = [marker EXCEPT ![cur[d]][d] = Provisional]
      BY <2>1, <3>1, WriteMarker
    <3> QED BY <2>2, <3>1
  <2>4. /\ pc'[d] \in {"register", "regMkdir", "unrDrop", "unrScan", "idle"}
        /\ \A e \in Daemon \ {d} : pc'[e] = pc[e] /\ cur'[e] = cur[e]
    BY <1>12 DEF RegisterReserve
  <2> QED BY <2>3, <2>4
<1>13. ASSUME NEW d \in Daemon, RegisterMkdir(d) PROVE FreshInv'
  BY <1>13, SMTT(30) DEF RegisterMkdir
<1>14. ASSUME NEW d \in Daemon, RegisterFinal(d) PROVE FreshInv'
  <2>1. cur[d] \in Target
    BY <1>14 DEF RegisterFinal
  <2>2. marker' = [marker EXCEPT ![cur[d]][d] = obj[cur[d]].ino] \/ UNCHANGED marker
    BY <1>14 DEF RegisterFinal
  <2>3. \A u \in Target, e \in Daemon \ {d} : marker'[u][e] = marker[u][e]
    <3>1. CASE marker' = [marker EXCEPT ![cur[d]][d] = obj[cur[d]].ino]
      BY <2>1, <3>1, WriteMarker
    <3> QED BY <2>2, <3>1
  <2>4. /\ pc'[d] \in {"register", "regMkdir", "unrDrop", "unrScan", "idle"}
        /\ \A e \in Daemon \ {d} : pc'[e] = pc[e] /\ cur'[e] = cur[e]
    BY <1>14 DEF RegisterFinal
  <2> QED BY <2>3, <2>4
<1>15. ASSUME NEW d \in Daemon, Registered(d) PROVE FreshInv'
  BY <1>15 DEF Registered
<1>16. ASSUME NEW d \in Daemon, UnregisterDrop(d) PROVE FreshInv'
  <2>1. cur[d] \in Target
    BY <1>16 DEF UnregisterDrop
  <2>2. marker' = [marker EXCEPT ![cur[d]][d] = NoMarker] \/ UNCHANGED marker
    BY <1>16 DEF UnregisterDrop
  <2>3. \A u \in Target, e \in Daemon \ {d} : marker'[u][e] = marker[u][e]
    <3>1. CASE marker' = [marker EXCEPT ![cur[d]][d] = NoMarker]
      BY <2>1, <3>1, WriteMarker
    <3> QED BY <2>2, <3>1
  <2>4. /\ pc'[d] \in {"register", "regMkdir", "unrDrop", "unrScan", "idle"}
        /\ \A e \in Daemon \ {d} : pc'[e] = pc[e] /\ cur'[e] = cur[e]
    BY <1>16 DEF UnregisterDrop
  <2> QED BY <2>3, <2>4
<1>17. ASSUME NEW d \in Daemon, UnregisterScan(d) PROVE FreshInv'
  <2>1. cur[d] \in Target
    BY <1>17 DEF UnregisterScan
  <2>2. marker' = Swept(cur[d]) \/ UNCHANGED marker
    BY <1>17 DEF UnregisterScan
  <2>3. \A u \in Target, e \in Daemon :
          marker'[u][e] = marker[u][e] \/ marker'[u][e] = NoMarker
    <3>1. CASE marker' = Swept(cur[d])
      BY <2>1, <3>1, SweepMarkers
    <3> QED BY <2>2, <3>1
  <2>4. /\ pc'[d] \in {"unrDrop", "unrRemove", "idle"}
        /\ \A e \in Daemon \ {d} : pc'[e] = pc[e] /\ cur'[e] = cur[e]
    BY <1>17 DEF UnregisterScan
  <2> QED BY <2>3, <2>4
<1>18. ASSUME NEW d \in Daemon, UnregisterRemove(d) PROVE FreshInv'
  BY <1>18, SMTT(30) DEF UnregisterRemove
<1>19. ASSUME NEW d \in Daemon, Unregistered(d) PROVE FreshInv'
  BY <1>19 DEF Unregistered
<1>20. ASSUME NEW d \in Daemon, LaunchSucceeds(d) PROVE FreshInv'
  BY <1>20 DEF LaunchSucceeds
<1>21. ASSUME NEW d \in Daemon, LaunchFails(d) PROVE FreshInv'
  BY <1>21 DEF LaunchFails
<1>22. ASSUME NEW d \in Daemon, Stop(d) PROVE FreshInv'
  BY <1>22 DEF Stop
<1>23. ASSUME NEW d \in Daemon, DaemonKilled(d) PROVE FreshInv'
  <2>1. marker' = marker
    BY <1>23 DEF DaemonKilled
  <2>2. CASE UNCHANGED <<pc, cur>>
    BY <2>1, <2>2
  <2>3. CASE Begin(d, "idle")
    BY <2>1, <2>3
  <2> QED BY <1>23, <2>2, <2>3 DEF DaemonKilled
<1>24. ASSUME NEW d \in Daemon, HelperKilled(d) PROVE FreshInv'
  <2>1. \A u \in Target, e \in Daemon : marker'[u][e] \in {marker[u][e], NoMarker}
    BY <1>24, SweepMarkers DEF HelperKilled
  <2> QED BY <1>24, <2>1 DEF HelperKilled
<1>25. ASSUME NEW t \in Target, UserCreates(t) PROVE FreshInv'
  BY <1>25 DEF UserCreates, UserWorks
<1>26. ASSUME NEW t \in Target, UserDeletes(t) PROVE FreshInv'
  BY <1>26 DEF UserDeletes, UserWorks
<1>27. ASSUME NEW t \in Target, UserFills(t) PROVE FreshInv'
  BY <1>27 DEF UserFills, UserWorks
<1>28. ASSUME NEW t \in Target, UserEmpties(t) PROVE FreshInv'
  BY <1>28 DEF UserEmpties, UserWorks
<1>29. CASE UNCHANGED vars
  BY <1>29 DEF vars
<1> QED
  BY <1>1, <1>2, <1>3, <1>4, <1>5, <1>6, <1>40, <1>7, <1>8, <1>9, <1>10, <1>11,
     <1>12, <1>13, <1>14, <1>15, <1>16, <1>17, <1>18, <1>19, <1>20, <1>21,
     <1>22, <1>23, <1>24, <1>25, <1>26, <1>27, <1>28, <1>29
  DEF Next, ClientStep, TakeLock, HelperStep, LaunchStep, UserStep

\* A live holder's marker is removed by nobody but itself.
LEMMA HoldStep ==
  ASSUME TypeOK, CurInv, DeadInv, HoldInv, [Next]_vars PROVE HoldInv'
<1> USE Typing
    DEF CurInv, DeadInv, HoldInv, Holding, Target, Swept,
          Goto, Begin, NextMask, Release, Gone, ResolveFails, RegisterFails,
          UnregisterFails, InspectInactive, InspectActive, InspectRefuses,
          PC, Locked, Helping, Resolving, Registering, Unregistering
<1>1. ASSUME NEW d \in Daemon, ClientEnters(d) PROVE HoldInv'
  BY <1>1 DEF ClientEnters
<1>2. ASSUME NEW d \in Daemon, StartDaemon(d) PROVE HoldInv'
  BY <1>2 DEF StartDaemon
<1>3. ASSUME NEW d \in Daemon, ClientLeaves(d) PROVE HoldInv'
  <2>1. marker' = marker
    BY <1>3 DEF ClientLeaves
  <2>2. CASE UNCHANGED <<pc, cur, alive, plan, lock>>
    BY <2>1, <2>2
  <2>3. CASE Gone(d)
    <3>1. ~alive'[d] /\ \A e \in Daemon \ {d} : pc'[e] = pc[e] /\ cur'[e] = cur[e]
                                               /\ alive'[e] = alive[e] /\ plan'[e] = plan[e]
      BY <2>3
    <3>2. SUFFICES ASSUME NEW e \in Daemon, NEW t \in Target, Holding(e, t)'
                   PROVE  marker'[t][e] # NoMarker
      OBVIOUS
    <3>3. e # d
      BY <3>1, <3>2
    <3>4. Holding(e, t)
      BY <3>1, <3>2, <3>3
    <3> QED BY <2>1, <3>4
  <2> QED BY <1>3, <2>2, <2>3 DEF ClientLeaves
<1>4. ASSUME NEW d \in Daemon, ResolveLock(d) PROVE HoldInv'
  BY <1>4 DEF ResolveLock
<1>5. ASSUME NEW d \in Daemon, StartLock(d) PROVE HoldInv'
  BY <1>5 DEF StartLock
<1>6. ASSUME NEW d \in Daemon, StopLock(d) PROVE HoldInv'
  BY <1>6 DEF StopLock
<1>40. ASSUME NEW d \in Daemon, ClientCleans(d) PROVE HoldInv'
  BY <1>40 DEF ClientCleans
<1>7. ASSUME NEW d \in Daemon, ResolveInspect(d) PROVE HoldInv'
  <2>1. CASE InspectActive(cur[d]) /\ NextMask(d, "resInspect")
    BY <1>7, <2>1 DEF ResolveInspect
  <2>2. CASE InspectInactive(d, cur[d], "resClassify")
    BY <1>7, <2>2 DEF ResolveInspect
  <2>3. CASE InspectRefuses(cur[d]) /\ ResolveFails(d)
    BY <1>7, <2>3 DEF ResolveInspect
  <2> QED BY <1>7, <2>1, <2>2, <2>3 DEF ResolveInspect
<1>8. ASSUME NEW d \in Daemon, ResolveClassify(d) PROVE HoldInv'
  <2>1. /\ ~alive'[d]
        /\ \A e \in Daemon \ {d} : pc'[e] = pc[e] /\ cur'[e] = cur[e]
                                   /\ alive'[e] = alive[e] /\ plan'[e] = plan[e]
    BY <1>8 DEF ResolveClassify
  <2>2. UNCHANGED marker
    BY <1>8 DEF ResolveClassify
  <2>3. SUFFICES ASSUME NEW e \in Daemon, NEW t \in Target, Holding(e, t)'
                 PROVE  marker'[t][e] # NoMarker
    OBVIOUS
  <2>4. e # d
    BY <2>1, <2>3
  <2>5. Holding(e, t)
    BY <2>1, <2>3, <2>4
  <2> QED BY <2>2, <2>5
<1>9. ASSUME NEW d \in Daemon, Resolved(d) PROVE HoldInv'
  BY <1>9 DEF Resolved
<1>10. ASSUME NEW d \in Daemon, RegisterExisting(d) PROVE HoldInv'
  BY <1>10 DEF RegisterExisting
<1>11. ASSUME NEW d \in Daemon, RegisterInspect(d) PROVE HoldInv'
  <2>1. CASE InspectActive(cur[d]) /\ Goto(d, "regFinal")
    BY <1>11, <2>1 DEF RegisterInspect
  <2>2. CASE InspectInactive(d, cur[d], "regReserve")
    BY <1>11, <2>2 DEF RegisterInspect
  <2>3. CASE InspectRefuses(cur[d]) /\ RegisterFails(d)
    BY <1>11, <2>3 DEF RegisterInspect
  <2> QED BY <1>11, <2>1, <2>2, <2>3 DEF RegisterInspect
<1>12. ASSUME NEW d \in Daemon, RegisterReserve(d) PROVE HoldInv'
  <2>1. cur[d] \in Target
    BY <1>12 DEF RegisterReserve
  <2>2. marker' = [marker EXCEPT ![cur[d]][d] = Provisional] \/ UNCHANGED marker
    BY <1>12 DEF RegisterReserve
  <2>3. \A u \in Target, e \in Daemon :
          u # cur[d] \/ e # d => marker'[u][e] = marker[u][e]
    <3>1. CASE marker' = [marker EXCEPT ![cur[d]][d] = Provisional]
      BY <2>1, <3>1, WriteMarker
    <3> QED BY <2>2, <3>1
  <2>4. /\ pc[d] = "regReserve"
        /\ \/ pc'[d] = "regMkdir" /\ cur'[d] = cur[d] /\ UNCHANGED <<alive, plan>>
           \/ pc'[d] \in {"unrDrop", "idle"}
        /\ \A e \in Daemon \ {d} : pc'[e] = pc[e] /\ cur'[e] = cur[e]
                                   /\ alive'[e] = alive[e] /\ plan'[e] = plan[e]
    BY <1>12 DEF RegisterReserve
  <2> QED BY <2>3, <2>4
<1>13. ASSUME NEW d \in Daemon, RegisterMkdir(d) PROVE HoldInv'
  BY <1>13 DEF RegisterMkdir
<1>14. ASSUME NEW d \in Daemon, RegisterFinal(d) PROVE HoldInv'
  <2>1. cur[d] \in Target
    BY <1>14 DEF RegisterFinal
  <2>2. marker' = [marker EXCEPT ![cur[d]][d] = obj[cur[d]].ino] \/ UNCHANGED marker
    BY <1>14 DEF RegisterFinal
  <2>3. \A u \in Target, e \in Daemon :
          u # cur[d] \/ e # d => marker'[u][e] = marker[u][e]
    <3>1. CASE marker' = [marker EXCEPT ![cur[d]][d] = obj[cur[d]].ino]
      BY <2>1, <3>1, WriteMarker
    <3> QED BY <2>2, <3>1
  <2>4. /\ pc[d] = "regFinal"
        /\ \/ /\ pc'[d] = "register" /\ cur'[d] = cur[d] + 1
              /\ UNCHANGED <<alive, plan>>
              /\ marker' = [marker EXCEPT ![cur[d]][d] = obj[cur[d]].ino]
           \/ pc'[d] \in {"unrDrop", "idle"}
        /\ \A e \in Daemon \ {d} : pc'[e] = pc[e] /\ cur'[e] = cur[e]
                                   /\ alive'[e] = alive[e] /\ plan'[e] = plan[e]
    BY <1>14 DEF RegisterFinal
  <2>5. pc'[d] = "register" => marker'[cur[d]][d] # NoMarker
    <3>1. obj[cur[d]].ino # NoMarker
      BY <2>1, ObjTyping, MarkerAssumption DEF Object
    <3> QED BY <2>1, <2>4, <3>1, WriteMarker
  <2> QED BY <2>3, <2>4, <2>5
<1>15. ASSUME NEW d \in Daemon, Registered(d) PROVE HoldInv'
  <2>1. /\ pc[d] = "register" /\ cur[d] > NTarget
        /\ \/ pc'[d] = "launch" /\ UNCHANGED <<alive, plan>>
           \/ pc'[d] = "idle"
        /\ \A e \in Daemon \ {d} : pc'[e] = pc[e] /\ cur'[e] = cur[e]
                                   /\ alive'[e] = alive[e] /\ plan'[e] = plan[e]
        /\ UNCHANGED marker
    BY <1>15 DEF Registered
  <2> QED BY <2>1
<1>16. ASSUME NEW d \in Daemon, UnregisterDrop(d) PROVE HoldInv'
  <2>1. cur[d] \in Target
    BY <1>16 DEF UnregisterDrop
  <2>2. marker' = [marker EXCEPT ![cur[d]][d] = NoMarker] \/ UNCHANGED marker
    BY <1>16 DEF UnregisterDrop
  <2>3. \A u \in Target, e \in Daemon :
          u # cur[d] \/ e # d => marker'[u][e] = marker[u][e]
    <3>1. CASE marker' = [marker EXCEPT ![cur[d]][d] = NoMarker]
      BY <2>1, <3>1, WriteMarker
    <3> QED BY <2>2, <3>1
  <2>4. /\ pc'[d] \in {"unrDrop", "unrScan"}
        /\ \A e \in Daemon \ {d} : pc'[e] = pc[e] /\ cur'[e] = cur[e]
                                   /\ alive'[e] = alive[e] /\ plan'[e] = plan[e]
    BY <1>16 DEF UnregisterDrop
  <2> QED BY <2>3, <2>4
<1>17. ASSUME NEW d \in Daemon, UnregisterScan(d) PROVE HoldInv'
  <2>1. cur[d] \in Target
    BY <1>17 DEF UnregisterScan
  <2>2. marker' = Swept(cur[d]) \/ UNCHANGED marker
    BY <1>17 DEF UnregisterScan
  <2>3. \A u \in Target, e \in Daemon : alive[e] => marker'[u][e] = marker[u][e]
    BY <2>1, <2>2, SweepMarkers
  <2>4. /\ pc'[d] \in {"unrRemove", "unrDrop", "idle"}
        /\ \A e \in Daemon \ {d} : pc'[e] = pc[e] /\ cur'[e] = cur[e]
                                   /\ alive'[e] = alive[e] /\ plan'[e] = plan[e]
    BY <1>17 DEF UnregisterScan
  <2> QED BY <2>3, <2>4
<1>18. ASSUME NEW d \in Daemon, UnregisterRemove(d) PROVE HoldInv'
  BY <1>18 DEF UnregisterRemove
<1>19. ASSUME NEW d \in Daemon, Unregistered(d) PROVE HoldInv'
  BY <1>19 DEF Unregistered
<1>20. ASSUME NEW d \in Daemon, LaunchSucceeds(d) PROVE HoldInv'
  BY <1>20 DEF LaunchSucceeds
<1>21. ASSUME NEW d \in Daemon, LaunchFails(d) PROVE HoldInv'
  BY <1>21 DEF LaunchFails
<1>22. ASSUME NEW d \in Daemon, Stop(d) PROVE HoldInv'
  BY <1>22 DEF Stop
<1>23. ASSUME NEW d \in Daemon, DaemonKilled(d) PROVE HoldInv'
  <2>1. /\ ~alive'[d] /\ UNCHANGED marker
        /\ \A e \in Daemon \ {d} : pc'[e] = pc[e] /\ cur'[e] = cur[e]
                                   /\ alive'[e] = alive[e] /\ plan'[e] = plan[e]
    BY <1>23 DEF DaemonKilled
  <2> QED BY <2>1
<1>24. ASSUME NEW d \in Daemon, HelperKilled(d) PROVE HoldInv'
  <2>1. \A u \in Target, e \in Daemon : alive[e] => marker'[u][e] = marker[u][e]
    BY <1>24, SweepMarkers DEF HelperKilled
  <2>2. /\ pc'[d] \in {"idle", "unrDrop"}
        /\ \A e \in Daemon \ {d} : pc'[e] = pc[e] /\ cur'[e] = cur[e]
                                   /\ alive'[e] = alive[e] /\ plan'[e] = plan[e]
    <3>1. CASE ResolveFails(d)
      BY <3>1
    <3>2. CASE RegisterFails(d)
      BY <3>2
    <3>3. CASE UnregisterFails(d)
      BY <3>3
    <3> QED BY <1>24, <3>1, <3>2, <3>3 DEF HelperKilled
  <2>3. \A u \in Target : ~Holding(d, u)'
    BY <2>2
  <2>4. \A u \in Target, e \in Daemon \ {d} : Holding(e, u)' => Holding(e, u)
    BY <2>2
  <2> QED BY <2>1, <2>3, <2>4
<1>25. ASSUME NEW t \in Target, UserCreates(t) PROVE HoldInv'
  BY <1>25 DEF UserCreates, UserWorks
<1>26. ASSUME NEW t \in Target, UserDeletes(t) PROVE HoldInv'
  BY <1>26 DEF UserDeletes, UserWorks
<1>27. ASSUME NEW t \in Target, UserFills(t) PROVE HoldInv'
  BY <1>27 DEF UserFills, UserWorks
<1>28. ASSUME NEW t \in Target, UserEmpties(t) PROVE HoldInv'
  BY <1>28 DEF UserEmpties, UserWorks
<1>29. CASE UNCHANGED vars
  BY <1>29 DEF vars
<1> QED
  BY <1>1, <1>2, <1>3, <1>4, <1>5, <1>6, <1>40, <1>7, <1>8, <1>9, <1>10, <1>11,
     <1>12, <1>13, <1>14, <1>15, <1>16, <1>17, <1>18, <1>19, <1>20, <1>21,
     <1>22, <1>23, <1>24, <1>25, <1>26, <1>27, <1>28, <1>29
  DEF Next, ClientStep, TakeLock, HelperStep, LaunchStep, UserStep

\* While a session is about to remove, the lock keeps others from marking.
LEMMA RemoveStep ==
  ASSUME TypeOK, LockInv, CurInv, FreshInv, RemoveInv, [Next]_vars PROVE RemoveInv'
<1> USE Typing
    DEF LockInv, CurInv, FreshInv, RemoveInv, Target, Swept,
          Goto, Begin, NextMask, Release, Gone, ResolveFails, RegisterFails,
          UnregisterFails, InspectInactive, InspectActive, InspectRefuses,
          PC, Locked, Helping, Resolving, Registering, Unregistering
<1>1. ASSUME NEW d \in Daemon, ClientEnters(d) PROVE RemoveInv'
  BY <1>1 DEF ClientEnters
<1>2. ASSUME NEW d \in Daemon, StartDaemon(d) PROVE RemoveInv'
  <2>1. \A u \in Target : marker[u][d] = NoMarker
    BY <1>2 DEF StartDaemon
  <2>2. \A e \in Daemon : pc[e] = "unrRemove" => cur[e] \in Target
    OBVIOUS
  <2> QED BY <1>2, <2>1, <2>2 DEF StartDaemon
<1>3. ASSUME NEW d \in Daemon, ClientLeaves(d) PROVE RemoveInv'
  BY <1>3 DEF ClientLeaves
<1>4. ASSUME NEW d \in Daemon, ResolveLock(d) PROVE RemoveInv'
  BY <1>4 DEF ResolveLock
<1>5. ASSUME NEW d \in Daemon, StartLock(d) PROVE RemoveInv'
  BY <1>5 DEF StartLock
<1>6. ASSUME NEW d \in Daemon, StopLock(d) PROVE RemoveInv'
  BY <1>6 DEF StopLock
<1>40. ASSUME NEW d \in Daemon, ClientCleans(d) PROVE RemoveInv'
  BY <1>40 DEF ClientCleans
<1>7. ASSUME NEW d \in Daemon, ResolveInspect(d) PROVE RemoveInv'
  <2>1. CASE InspectActive(cur[d]) /\ NextMask(d, "resInspect")
    BY <1>7, <2>1 DEF ResolveInspect
  <2>2. CASE InspectInactive(d, cur[d], "resClassify")
    BY <1>7, <2>2 DEF ResolveInspect
  <2>3. CASE InspectRefuses(cur[d]) /\ ResolveFails(d)
    BY <1>7, <2>3 DEF ResolveInspect
  <2> QED BY <1>7, <2>1, <2>2, <2>3 DEF ResolveInspect
<1>8. ASSUME NEW d \in Daemon, ResolveClassify(d) PROVE RemoveInv'
  BY <1>8 DEF ResolveClassify
<1>9. ASSUME NEW d \in Daemon, Resolved(d) PROVE RemoveInv'
  BY <1>9 DEF Resolved
<1>10. ASSUME NEW d \in Daemon, RegisterExisting(d) PROVE RemoveInv'
  BY <1>10 DEF RegisterExisting
<1>11. ASSUME NEW d \in Daemon, RegisterInspect(d) PROVE RemoveInv'
  <2>1. CASE InspectActive(cur[d]) /\ Goto(d, "regFinal")
    BY <1>11, <2>1 DEF RegisterInspect
  <2>2. CASE InspectInactive(d, cur[d], "regReserve")
    BY <1>11, <2>2 DEF RegisterInspect
  <2>3. CASE InspectRefuses(cur[d]) /\ RegisterFails(d)
    BY <1>11, <2>3 DEF RegisterInspect
  <2> QED BY <1>11, <2>1, <2>2, <2>3 DEF RegisterInspect
<1>12. ASSUME NEW d \in Daemon, RegisterReserve(d) PROVE RemoveInv'
  BY <1>12 DEF RegisterReserve
<1>13. ASSUME NEW d \in Daemon, RegisterMkdir(d) PROVE RemoveInv'
  BY <1>13 DEF RegisterMkdir
<1>14. ASSUME NEW d \in Daemon, RegisterFinal(d) PROVE RemoveInv'
  BY <1>14 DEF RegisterFinal
<1>15. ASSUME NEW d \in Daemon, Registered(d) PROVE RemoveInv'
  BY <1>15 DEF Registered
<1>16. ASSUME NEW d \in Daemon, UnregisterDrop(d) PROVE RemoveInv'
  <2>1. /\ pc[d] = "unrDrop" /\ pc'[d] # "unrRemove" /\ UNCHANGED alive
        /\ \A e \in Daemon \ {d} : pc'[e] = pc[e] /\ cur'[e] = cur[e]
    BY <1>16 DEF UnregisterDrop
  <2>2. \A t \in Target, e \in Daemon : marker[t][e] = NoMarker => marker'[t][e] = NoMarker
    <3>1. cur[d] \in Target
      BY <1>16 DEF UnregisterDrop
    <3>2. marker' = marker \/ marker' = [marker EXCEPT ![cur[d]][d] = NoMarker]
      BY <1>16 DEF UnregisterDrop
    <3> QED BY <3>1, <3>2
  <2>3. SUFFICES ASSUME NEW e \in Daemon, NEW f \in Daemon,
                        (pc[f] = "unrRemove")', e # f, alive'[e]
                 PROVE  (marker[cur[f]][e])' = NoMarker
    OBVIOUS
  <2>4. f # d
    BY <2>1, <2>3
  <2>5. pc[f] = "unrRemove" /\ cur'[f] = cur[f] /\ cur[f] \in Target /\ alive[e]
    BY <2>1, <2>3, <2>4
  <2>6. marker[cur[f]][e] = NoMarker
    BY <2>3, <2>5
  <2> QED BY <2>2, <2>5, <2>6
<1>17. ASSUME NEW d \in Daemon, UnregisterScan(d) PROVE RemoveInv'
  <2>1. cur[d] \in Target
    BY <1>17 DEF UnregisterScan
  <2>2. marker' = Swept(cur[d]) \/ UNCHANGED marker
    BY <1>17 DEF UnregisterScan
  <2>3. \A u \in Target, e \in Daemon :
          marker'[u][e] = marker[u][e] \/ marker'[u][e] = NoMarker
    <3>1. CASE marker' = Swept(cur[d])
      BY <2>1, <3>1, SweepMarkers
    <3> QED BY <2>2, <3>1
  <2>4. \A e \in Daemon \ {d} : pc[e] # "unrRemove"
    BY <1>17 DEF UnregisterScan
  <2>5. /\ \A e \in Daemon : alive'[e] => alive[e]
        /\ \A e \in Daemon \ {d} : pc'[e] = pc[e]
        /\ pc'[d] = "unrRemove" => cur'[d] = cur[d] /\ Active(cur[d]) = {}
    <3>1. CASE Gone(d)
      BY <1>17, <3>1 DEF UnregisterScan
    <3>2. CASE UNCHANGED alive /\ (Goto(d, "unrRemove") \/ NextMask(d, "unrDrop"))
      BY <1>17, <3>2 DEF UnregisterScan
    <3> QED BY <1>17, <3>1, <3>2 DEF UnregisterScan
  <2>6. ASSUME NEW e \in Daemon, e # d, alive'[e], pc'[d] = "unrRemove"
        PROVE  marker'[cur'[d]][e] = NoMarker
    <3>1. marker[cur[d]][e] = NoMarker
      BY <2>5, <2>6 DEF Marked, Active
    <3> QED BY <2>1, <2>3, <2>5, <2>6, <3>1
  <2> QED BY <2>4, <2>5, <2>6
<1>18. ASSUME NEW d \in Daemon, UnregisterRemove(d) PROVE RemoveInv'
  BY <1>18 DEF UnregisterRemove
<1>19. ASSUME NEW d \in Daemon, Unregistered(d) PROVE RemoveInv'
  BY <1>19 DEF Unregistered
<1>20. ASSUME NEW d \in Daemon, LaunchSucceeds(d) PROVE RemoveInv'
  BY <1>20 DEF LaunchSucceeds
<1>21. ASSUME NEW d \in Daemon, LaunchFails(d) PROVE RemoveInv'
  BY <1>21 DEF LaunchFails
<1>22. ASSUME NEW d \in Daemon, Stop(d) PROVE RemoveInv'
  BY <1>22 DEF Stop
<1>23. ASSUME NEW d \in Daemon, DaemonKilled(d) PROVE RemoveInv'
  <2>1. /\ \A e \in Daemon : alive'[e] => alive[e]
        /\ \A e \in Daemon : pc'[e] = "unrRemove" => pc[e] = "unrRemove" /\ cur'[e] = cur[e]
        /\ UNCHANGED marker
    BY <1>23 DEF DaemonKilled
  <2> QED BY <2>1
<1>24. ASSUME NEW d \in Daemon, HelperKilled(d) PROVE RemoveInv'
  BY <1>24 DEF HelperKilled
<1>25. ASSUME NEW t \in Target, UserCreates(t) PROVE RemoveInv'
  BY <1>25 DEF UserCreates, UserWorks
<1>26. ASSUME NEW t \in Target, UserDeletes(t) PROVE RemoveInv'
  BY <1>26 DEF UserDeletes, UserWorks
<1>27. ASSUME NEW t \in Target, UserFills(t) PROVE RemoveInv'
  BY <1>27 DEF UserFills, UserWorks
<1>28. ASSUME NEW t \in Target, UserEmpties(t) PROVE RemoveInv'
  BY <1>28 DEF UserEmpties, UserWorks
<1>29. CASE UNCHANGED vars
  BY <1>29 DEF vars
<1> QED
  BY <1>1, <1>2, <1>3, <1>4, <1>5, <1>6, <1>40, <1>7, <1>8, <1>9, <1>10, <1>11,
     <1>12, <1>13, <1>14, <1>15, <1>16, <1>17, <1>18, <1>19, <1>20, <1>21,
     <1>22, <1>23, <1>24, <1>25, <1>26, <1>27, <1>28, <1>29
  DEF Next, ClientStep, TakeLock, HelperStep, LaunchStep, UserStep

----------------------------------------------------------------------------
(* The inductive invariant behind PlaceholderTracked *)

LabDir(t) == obj[t].kind = "dir" /\ obj[t].origin = "lab"
\* a session is removing t: its marker is gone and the directory may not be yet
Leaving(d, t) == pc[d] \in {"unrScan", "unrRemove"} /\ cur[d] = t

\* An untouched placeholder is empty, its marker directory exists, and it has a
\* marker unless it is being removed.
LabInv == \A t \in Target : LabDir(t) =>
  obj[t].empty /\ mdir[t] /\ (Marked(t) # {} \/ \E d \in Daemon : Leaving(d, t))
\* Markers are in marker directories.
DirInv == \A t \in Target : Marked(t) # {} => mdir[t]
\* What a registration or a resolution relies on from its earlier steps.
StepInv == \A d \in Daemon :
  /\ pc[d] = "regMkdir" => marker[cur[d]][d] # NoMarker
  /\ pc[d] = "regFinal" => mdir[cur[d]]
  /\ pc[d] = "resClassify" => ~LabDir(cur[d])
  /\ pc[d] = "unrRemove" => Marked(cur[d]) = {}
Inside == {"regMkdir", "regFinal", "resClassify", "unrRemove"}
TrackInv == LabInv /\ DirInv /\ StepInv

\* The same, of the target t at which the holder d of the lock is.
AtMask(d, t) ==
  /\ LabDir(t) => obj[t].empty /\ mdir[t] /\ (Marked(t) # {} \/ Leaving(d, t))
  /\ Marked(t) # {} => mdir[t]
  /\ pc[d] = "regMkdir" => cur[d] = t /\ marker[t][d] # NoMarker
  /\ pc[d] = "regFinal" => cur[d] = t /\ mdir[t]
  /\ pc[d] = "resClassify" => cur[d] = t /\ ~LabDir(t)
  /\ pc[d] = "unrRemove" => cur[d] = t /\ Marked(t) = {}

\* No other session is inside a step that needs the lock.
LEMMA Alone ==
  ASSUME LockInv, NEW d \in Daemon, pc[d] \in Locked
  PROVE  lock = d /\ \A e \in Daemon \ {d} : pc[e] \notin Locked
  BY DEF LockInv

\* What holds of a target in the middle of being registered or removed by the
\* one session that has the policy lock.
LEMMA MaskOf ==
  ASSUME LockInv, TrackInv, NEW d \in Daemon, pc[d] \in Locked, cur[d] \in Target
  PROVE  AtMask(d, cur[d])
<1>1. \A e \in Daemon \ {d} : ~Leaving(e, cur[d])
  BY Alone DEF Leaving, Locked, Helping, Unregistering
<1> QED BY <1>1 DEF AtMask, TrackInv, LabInv, DirInv, StepInv

\* A step of the holder at its mask keeps TrackInv if it keeps AtMask.
LEMMA MaskStep ==
  ASSUME LockInv, TrackInv, NEW d \in Daemon, pc[d] \in Locked,
         NEW t \in Target, cur[d] = t,
         \A e \in Daemon \ {d} : pc'[e] = pc[e] /\ cur'[e] = cur[e],
         \A u \in Target \ {t} : /\ obj'[u] = obj[u] /\ mdir'[u] = mdir[u]
                                 /\ marker'[u] = marker[u],
         AtMask(d, t)'
  PROVE  TrackInv'
<1>1. \A e \in Daemon \ {d} : pc[e] \notin Locked /\ pc'[e] \notin Locked
  BY Alone
<1>2. \A u \in Target \ {t} : /\ LabDir(u)' = LabDir(u) /\ Marked(u)' = Marked(u)
                              /\ \A e \in Daemon : ~Leaving(e, u)
  BY <1>1 DEF LabDir, Marked, Leaving, Locked, Helping, Unregistering
<1>3. LabInv'
  BY <1>2 DEF TrackInv, LabInv, AtMask
<1>4. DirInv'
  BY <1>2 DEF TrackInv, DirInv, AtMask
<1>5. StepInv'
  BY <1>1 DEF StepInv, AtMask, Locked, Helping, Registering, Resolving, Unregistering
<1> QED BY <1>3, <1>4, <1>5 DEF TrackInv

\* A step that leaves the registry and the workspace alone and enters none of
\* the steps StepInv is about.
LEMMA FrameStep ==
  ASSUME TypeOK, TrackInv, UNCHANGED <<obj, mdir, marker>>,
         \A e \in Daemon :
           pc'[e] \in Inside \/ pc[e] \in {"unrScan", "unrRemove"}
             => pc'[e] = pc[e] /\ cur'[e] = cur[e]
  PROVE  TrackInv'
<1>1. \A u \in Target : /\ LabDir(u)' = LabDir(u) /\ Marked(u)' = Marked(u)
                        /\ \A e \in Daemon : Leaving(e, u) => Leaving(e, u)'
  BY DEF LabDir, Marked, Leaving
<1>2. LabInv' /\ DirInv'
  BY <1>1 DEF TrackInv, LabInv, DirInv
<1>3. StepInv'
  BY DEF TrackInv, StepInv, LabDir, Marked, Inside
<1> QED BY <1>2, <1>3 DEF TrackInv

\* The user never makes a placeholder.
LEMMA UserKeepsTrack ==
  ASSUME TypeOK, TrackInv, CurInv, NEW t \in Target, UserStep(t)
  PROVE  TrackInv'
<1>1. /\ UNCHANGED <<mdir, marker, pc, cur>>
      /\ \A u \in Target : LabDir(u)' => LabDir(u) /\ obj'[u].empty
  <2>1. \A o : UserWorks(t, o) => /\ UNCHANGED <<mdir, marker, pc, cur>> /\ obj'[t] = o
                                  /\ \A u \in Target \ {t} : obj'[u] = obj[u]
    BY ObjTyping DEF UserWorks
  <2>2. \A u \in Target : LabDir(u) => obj[u].empty
    BY DEF TrackInv, LabInv
  <2>3. CASE UserCreates(t)
    BY <2>1, <2>2, <2>3 DEF UserCreates, LabDir, Made
  <2>4. CASE UserDeletes(t)
    BY <2>1, <2>2, <2>4 DEF UserDeletes, LabDir, Absent
  <2>5. CASE UserFills(t)
    BY <2>1, <2>2, <2>5 DEF UserFills, LabDir
  <2>6. CASE UserEmpties(t)
    BY <2>1, <2>2, <2>6 DEF UserEmpties, LabDir, Made
  <2> QED BY <2>3, <2>4, <2>5, <2>6 DEF UserStep
<1>2. \A u \in Target : Marked(u)' = Marked(u) /\ \A d \in Daemon : Leaving(d, u)' = Leaving(d, u)
  BY <1>1 DEF Marked, Leaving
<1>3. \A d \in Daemon : pc[d] \in {"resClassify", "unrRemove"} => cur[d] \in Target
  BY Typing DEF CurInv, Target
<1> QED BY <1>1, <1>2, <1>3 DEF TrackInv, LabInv, DirInv, StepInv

\* What the three outcomes of an inspection leave at its target.
LEMMA InspectLeaves ==
  ASSUME TypeOK, NEW d \in Daemon, NEW t \in Target, AtMask(d, t),
         pc[d] \in {"resInspect", "register"}
  PROVE  /\ \A label \in PC : InspectInactive(d, t, label) =>
              ~LabDir(t)' /\ Marked(t)' = {}
         /\ InspectActive(t) \/ InspectRefuses(t) =>
              /\ UNCHANGED mdir /\ Marked(t)' \subseteq Marked(t)
              /\ LabDir(t)' => obj'[t].empty /\ mdir'[t] /\ Marked(t)' # {}
         /\ InspectActive(t) => Marked(t)' # {}
<1>1. ~Leaving(d, t)
  BY DEF Leaving
<1>2. ASSUME marker' = Swept(t) PROVE Marked(t)' = Active(t)
  BY <1>2, SweepMarkers DEF Marked, Active
<1>3. ASSUME NEW label \in PC, InspectInactive(d, t, label)
      PROVE  ~LabDir(t)' /\ Marked(t)' = {}
  <2>1. Marked(t)' = {}
    BY <1>2, <1>3 DEF InspectInactive
  <2>2. CASE Marked(t) # {}
    <3>1. obj' = [obj EXCEPT ![t] = Absent]
      BY <1>3, <2>2 DEF InspectInactive
    <3> QED BY <2>1, <3>1, ObjTyping DEF LabDir, Absent
  <2>3. CASE Marked(t) = {}
    <3>1. UNCHANGED obj
      BY <1>3, <2>3 DEF InspectInactive
    <3> QED BY <1>1, <2>1, <2>3, <3>1 DEF LabDir, AtMask
  <2> QED BY <2>2, <2>3
<1>4. ASSUME InspectActive(t) \/ InspectRefuses(t)
      PROVE  UNCHANGED <<obj, mdir>> /\ Marked(t)' = Active(t)
  BY <1>2, <1>4 DEF InspectActive, InspectRefuses
<1>5. Active(t) \subseteq Marked(t)
  BY DEF Active
<1>6. ASSUME InspectActive(t) \/ InspectRefuses(t), LabDir(t)
      PROVE  obj'[t].empty /\ mdir'[t] /\ Marked(t)' # {}
  BY <1>1, <1>4, <1>6 DEF AtMask, InspectActive, InspectRefuses, LabDir, Exists, Bare
<1>7. InspectActive(t) => Marked(t)' # {}
  BY <1>4 DEF InspectActive
<1>8. InspectActive(t) \/ InspectRefuses(t) => LabDir(t)' = LabDir(t)
  BY <1>4 DEF LabDir
<1> QED BY <1>3, <1>4, <1>5, <1>6, <1>7, <1>8

\* Every step keeps the untouched placeholders recorded.
LEMMA TrackStep ==
  ASSUME HelperKills = FALSE, TypeOK, LockInv, CurInv, TrackInv, [Next]_vars PROVE TrackInv'
<1> USE Typing
    DEF Goto, Begin, NextMask, Release, Gone, ResolveFails, RegisterFails,
          UnregisterFails, InspectInactive, InspectActive, InspectRefuses,
          PC, Locked, Helping, Resolving, Registering, Unregistering
<1>1. ASSUME NEW d \in Daemon, ClientEnters(d) PROVE TrackInv'
  <2>1. UNCHANGED <<obj, mdir, marker>>
    BY <1>1 DEF ClientEnters
  <2>2. \A e \in Daemon :
          pc'[e] \in Inside \/ pc[e] \in {"unrScan", "unrRemove"}
            => pc'[e] = pc[e] /\ cur'[e] = cur[e]
    BY <1>1 DEF ClientEnters, Inside
  <2> QED BY <2>1, <2>2, FrameStep
<1>2. ASSUME NEW d \in Daemon, StartDaemon(d) PROVE TrackInv'
  <2>1. UNCHANGED <<obj, mdir, marker>>
    BY <1>2 DEF StartDaemon
  <2>2. \A e \in Daemon :
          pc'[e] \in Inside \/ pc[e] \in {"unrScan", "unrRemove"}
            => pc'[e] = pc[e] /\ cur'[e] = cur[e]
    BY <1>2 DEF StartDaemon, Inside
  <2> QED BY <2>1, <2>2, FrameStep
<1>3. ASSUME NEW d \in Daemon, ClientLeaves(d) PROVE TrackInv'
  <2>1. UNCHANGED <<obj, mdir, marker>>
    BY <1>3 DEF ClientLeaves
  <2>2. \A e \in Daemon :
          pc'[e] \in Inside \/ pc[e] \in {"unrScan", "unrRemove"}
            => pc'[e] = pc[e] /\ cur'[e] = cur[e]
    BY <1>3 DEF ClientLeaves, Inside
  <2> QED BY <2>1, <2>2, FrameStep
<1>4. ASSUME NEW d \in Daemon, ResolveLock(d) PROVE TrackInv'
  <2>1. UNCHANGED <<obj, mdir, marker>>
    BY <1>4 DEF ResolveLock
  <2>2. \A e \in Daemon :
          pc'[e] \in Inside \/ pc[e] \in {"unrScan", "unrRemove"}
            => pc'[e] = pc[e] /\ cur'[e] = cur[e]
    BY <1>4 DEF ResolveLock, Inside
  <2> QED BY <2>1, <2>2, FrameStep
<1>5. ASSUME NEW d \in Daemon, StartLock(d) PROVE TrackInv'
  <2>1. UNCHANGED <<obj, mdir, marker>>
    BY <1>5 DEF StartLock
  <2>2. \A e \in Daemon :
          pc'[e] \in Inside \/ pc[e] \in {"unrScan", "unrRemove"}
            => pc'[e] = pc[e] /\ cur'[e] = cur[e]
    BY <1>5 DEF StartLock, Inside
  <2> QED BY <2>1, <2>2, FrameStep
<1>6. ASSUME NEW d \in Daemon, StopLock(d) PROVE TrackInv'
  <2>1. UNCHANGED <<obj, mdir, marker>>
    BY <1>6 DEF StopLock
  <2>2. \A e \in Daemon :
          pc'[e] \in Inside \/ pc[e] \in {"unrScan", "unrRemove"}
            => pc'[e] = pc[e] /\ cur'[e] = cur[e]
    BY <1>6 DEF StopLock, Inside
  <2> QED BY <2>1, <2>2, FrameStep
<1>40. ASSUME NEW d \in Daemon, ClientCleans(d) PROVE TrackInv'
  <2>1. UNCHANGED <<obj, mdir, marker>>
    BY <1>40 DEF ClientCleans
  <2>2. \A e \in Daemon :
          pc'[e] \in Inside \/ pc[e] \in {"unrScan", "unrRemove"}
            => pc'[e] = pc[e] /\ cur'[e] = cur[e]
    BY <1>40 DEF ClientCleans, Inside
  <2> QED BY <2>1, <2>2, FrameStep
<1>7. ASSUME NEW d \in Daemon, ResolveInspect(d) PROVE TrackInv'
  <2> PICK t \in Target : t = cur[d]
    BY <1>7 DEF ResolveInspect, CurInv, Target
  <2>1. pc[d] \in Locked /\ AtMask(d, t)
    BY <1>7, MaskOf DEF ResolveInspect
  <2>2. /\ \A e \in Daemon \ {d} : pc'[e] = pc[e] /\ cur'[e] = cur[e]
        /\ \A u \in Target \ {t} : /\ obj'[u] = obj[u] /\ mdir'[u] = mdir[u]
                                   /\ marker'[u] = marker[u]
    BY <1>7, ObjTyping DEF ResolveInspect, InspectInactive, InspectActive, InspectRefuses, Swept
  <2>3. AtMask(d, t)'
    <3> USE DEF AtMask, Leaving
    <3>1. CASE InspectActive(t) /\ NextMask(d, "resInspect")
      BY <2>1, <3>1, <1>7, InspectLeaves DEF ResolveInspect
    <3>2. CASE InspectInactive(d, t, "resClassify")
      BY <2>1, <3>2, <1>7, InspectLeaves DEF ResolveInspect, InspectInactive
    <3>3. CASE InspectRefuses(t) /\ ResolveFails(d)
      <4>1. pc'[d] \in {"idle", "unrDrop"}
        BY <3>3
      <4> QED BY <2>1, <3>3, <4>1, <1>7, InspectLeaves DEF ResolveInspect
    <3> QED BY <1>7, <3>1, <3>2, <3>3 DEF ResolveInspect
  <2> QED BY <2>1, <2>2, <2>3, MaskStep
<1>8. ASSUME NEW d \in Daemon, ResolveClassify(d) PROVE TrackInv'
  <2>1. UNCHANGED <<obj, mdir, marker>>
    BY <1>8 DEF ResolveClassify
  <2>2. \A e \in Daemon :
          pc'[e] \in Inside \/ pc[e] \in {"unrScan", "unrRemove"}
            => pc'[e] = pc[e] /\ cur'[e] = cur[e]
    BY <1>8 DEF ResolveClassify, Inside
  <2> QED BY <2>1, <2>2, FrameStep
<1>9. ASSUME NEW d \in Daemon, Resolved(d) PROVE TrackInv'
  <2>1. UNCHANGED <<obj, mdir, marker>>
    BY <1>9 DEF Resolved
  <2>2. \A e \in Daemon :
          pc'[e] \in Inside \/ pc[e] \in {"unrScan", "unrRemove"}
            => pc'[e] = pc[e] /\ cur'[e] = cur[e]
    BY <1>9 DEF Resolved, Inside
  <2> QED BY <2>1, <2>2, FrameStep
<1>10. ASSUME NEW d \in Daemon, RegisterExisting(d) PROVE TrackInv'
  <2>1. UNCHANGED <<obj, mdir, marker>>
    BY <1>10 DEF RegisterExisting
  <2>2. \A e \in Daemon :
          pc'[e] \in Inside \/ pc[e] \in {"unrScan", "unrRemove"}
            => pc'[e] = pc[e] /\ cur'[e] = cur[e]
    BY <1>10 DEF RegisterExisting, Inside
  <2> QED BY <2>1, <2>2, FrameStep
<1>11. ASSUME NEW d \in Daemon, RegisterInspect(d) PROVE TrackInv'
  <2> PICK t \in Target : t = cur[d]
    BY <1>11 DEF RegisterInspect, CurInv, Target
  <2>1. pc[d] \in Locked /\ AtMask(d, t)
    BY <1>11, MaskOf DEF RegisterInspect
  <2>2. /\ \A e \in Daemon \ {d} : pc'[e] = pc[e] /\ cur'[e] = cur[e]
        /\ \A u \in Target \ {t} : /\ obj'[u] = obj[u] /\ mdir'[u] = mdir[u]
                                   /\ marker'[u] = marker[u]
    BY <1>11, ObjTyping DEF RegisterInspect, InspectInactive, InspectActive, InspectRefuses, Swept
  <2>3. AtMask(d, t)'
    <3> USE DEF AtMask, Leaving
    <3>1. CASE InspectActive(t) /\ Goto(d, "regFinal")
      BY <2>1, <3>1, <1>11, InspectLeaves DEF RegisterInspect
    <3>2. CASE InspectInactive(d, t, "regReserve")
      BY <2>1, <3>2, <1>11, InspectLeaves DEF RegisterInspect, InspectInactive
    <3>3. CASE InspectRefuses(t) /\ RegisterFails(d)
      <4>1. pc'[d] \in {"idle", "unrDrop"}
        BY <3>3
      <4> QED BY <2>1, <3>3, <4>1, <1>11, InspectLeaves DEF RegisterInspect
    <3> QED BY <1>11, <3>1, <3>2, <3>3 DEF RegisterInspect
  <2> QED BY <2>1, <2>2, <2>3, MaskStep
<1>12. ASSUME NEW d \in Daemon, RegisterReserve(d) PROVE TrackInv'
  <2> PICK t \in Target : t = cur[d]
    BY <1>12 DEF RegisterReserve, CurInv, Target
  <2>1. pc[d] \in Locked /\ AtMask(d, t)
    BY <1>12, MaskOf DEF RegisterReserve
  <2>2. /\ \A e \in Daemon \ {d} : pc'[e] = pc[e] /\ cur'[e] = cur[e]
        /\ \A u \in Target \ {t} : /\ obj'[u] = obj[u] /\ mdir'[u] = mdir[u]
                                   /\ marker'[u] = marker[u]
    BY <1>12, ObjTyping DEF RegisterReserve
  <2>3. AtMask(d, t)'
    <3>1. ~Leaving(d, t) /\ mdir'[t] /\ UNCHANGED obj
      BY <1>12, ObjTyping DEF RegisterReserve, Leaving
    <3>2. CASE Exists(t)
      BY <1>12, <2>1, <3>1, <3>2 DEF RegisterReserve, AtMask, LabDir, Marked
    <3>3. CASE ~Exists(t)
      <4>1. ~LabDir(t)'
        BY <3>1, <3>3 DEF LabDir, Exists
      <4>2. marker'[t][d] = Provisional /\ pc'[d] = "regMkdir" /\ cur'[d] = t
        BY <1>12, <3>3 DEF RegisterReserve
      <4> QED BY <3>1, <4>1, <4>2, MarkerAssumption DEF AtMask
    <3> QED BY <3>2, <3>3
  <2> QED BY <2>1, <2>2, <2>3, MaskStep
<1>13. ASSUME NEW d \in Daemon, RegisterMkdir(d) PROVE TrackInv'
  <2> PICK t \in Target : t = cur[d]
    BY <1>13 DEF RegisterMkdir, CurInv, Target
  <2>1. pc[d] \in Locked /\ AtMask(d, t)
    BY <1>13, MaskOf DEF RegisterMkdir
  <2>2. /\ \A e \in Daemon \ {d} : pc'[e] = pc[e] /\ cur'[e] = cur[e]
        /\ \A u \in Target \ {t} : /\ obj'[u] = obj[u] /\ mdir'[u] = mdir[u]
                                   /\ marker'[u] = marker[u]
    BY <1>13, ObjTyping DEF RegisterMkdir
  <2>3. AtMask(d, t)'
    <3>1. d \in Marked(t) /\ UNCHANGED <<mdir, marker>> /\ mdir[t]
      BY <1>13, <2>1 DEF RegisterMkdir, AtMask, Marked
    <3>2. Marked(t)' = Marked(t)
      BY <3>1 DEF Marked
    <3>3. CASE Exists(t)
      BY <1>13, <2>1, <3>1, <3>2, <3>3 DEF RegisterMkdir, AtMask, LabDir
    <3>4. CASE ~Exists(t)
      <4>1. obj'[t].empty /\ pc'[d] = "regFinal" /\ cur'[d] = t
        BY <1>13, <3>4, ObjTyping DEF RegisterMkdir, Made
      <4> QED BY <3>1, <3>2, <4>1 DEF AtMask
    <3> QED BY <3>3, <3>4
  <2> QED BY <2>1, <2>2, <2>3, MaskStep
<1>14. ASSUME NEW d \in Daemon, RegisterFinal(d) PROVE TrackInv'
  <2> PICK t \in Target : t = cur[d]
    BY <1>14 DEF RegisterFinal, CurInv, Target
  <2>1. pc[d] \in Locked /\ AtMask(d, t)
    BY <1>14, MaskOf DEF RegisterFinal
  <2>2. /\ \A e \in Daemon \ {d} : pc'[e] = pc[e] /\ cur'[e] = cur[e]
        /\ \A u \in Target \ {t} : /\ obj'[u] = obj[u] /\ mdir'[u] = mdir[u]
                                   /\ marker'[u] = marker[u]
    BY <1>14, ObjTyping DEF RegisterFinal
  <2>3. AtMask(d, t)'
    <3>1. UNCHANGED <<obj, mdir>> /\ mdir[t] /\ pc[d] = "regFinal"
      BY <1>14, <2>1 DEF RegisterFinal, AtMask
    <3>2. LabDir(t) => Marked(t) # {}
      BY <2>1, <3>1 DEF AtMask, Leaving
    <3>3. CASE Bare(t)
      <4>1. marker'[t][d] # NoMarker /\ pc'[d] = "register"
        <5>1. obj[t].ino # NoMarker
          BY ObjTyping, MarkerAssumption DEF Object
        <5> QED BY <1>14, <3>3, <5>1 DEF RegisterFinal
      <4> QED BY <2>1, <3>1, <4>1 DEF AtMask, Marked, LabDir
    <3>4. CASE ~Bare(t)
      <4>1. UNCHANGED marker /\ pc'[d] \in {"unrDrop", "idle"}
        BY <1>14, <3>4 DEF RegisterFinal
      <4> QED BY <2>1, <3>1, <3>2, <4>1 DEF AtMask, Marked, LabDir
    <3> QED BY <3>3, <3>4
  <2> QED BY <2>1, <2>2, <2>3, MaskStep
<1>15. ASSUME NEW d \in Daemon, Registered(d) PROVE TrackInv'
  <2>1. UNCHANGED <<obj, mdir, marker>>
    BY <1>15 DEF Registered
  <2>2. \A e \in Daemon :
          pc'[e] \in Inside \/ pc[e] \in {"unrScan", "unrRemove"}
            => pc'[e] = pc[e] /\ cur'[e] = cur[e]
    BY <1>15 DEF Registered, Inside
  <2> QED BY <2>1, <2>2, FrameStep
<1>16. ASSUME NEW d \in Daemon, UnregisterDrop(d) PROVE TrackInv'
  <2> PICK t \in Target : t = cur[d]
    BY <1>16 DEF UnregisterDrop, CurInv, Target
  <2>1. pc[d] \in Locked /\ AtMask(d, t)
    BY <1>16, MaskOf DEF UnregisterDrop
  <2>2. /\ \A e \in Daemon \ {d} : pc'[e] = pc[e] /\ cur'[e] = cur[e]
        /\ \A u \in Target \ {t} : /\ obj'[u] = obj[u] /\ mdir'[u] = mdir[u]
                                   /\ marker'[u] = marker[u]
    BY <1>16, ObjTyping DEF UnregisterDrop
  <2>3. AtMask(d, t)'
    <3>1. UNCHANGED <<obj, mdir>> /\ pc[d] = "unrDrop"
      BY <1>16 DEF UnregisterDrop
    <3>2. LabDir(t) => Marked(t) # {}
      BY <2>1, <3>1 DEF AtMask, Leaving
    <3>3. CASE plan[d][t] = Missing
      <4>1. pc'[d] = "unrScan" /\ cur'[d] = t /\ Marked(t)' \subseteq Marked(t)
        BY <1>16, <3>3 DEF UnregisterDrop, Marked
      <4> QED BY <2>1, <3>1, <4>1 DEF AtMask, Leaving, LabDir
    <3>4. CASE plan[d][t] # Missing
      <4>1. pc'[d] = "unrDrop" /\ UNCHANGED marker
        BY <1>16, <3>4 DEF UnregisterDrop
      <4> QED BY <2>1, <3>1, <3>2, <4>1 DEF AtMask, LabDir, Marked
    <3> QED BY <3>3, <3>4
  <2> QED BY <2>1, <2>2, <2>3, MaskStep
<1>17. ASSUME NEW d \in Daemon, UnregisterScan(d) PROVE TrackInv'
  <2> PICK t \in Target : t = cur[d]
    BY <1>17 DEF UnregisterScan, CurInv, Target
  <2>1. pc[d] \in Locked /\ AtMask(d, t)
    BY <1>17, MaskOf DEF UnregisterScan
  <2>2. /\ \A e \in Daemon \ {d} : pc'[e] = pc[e] /\ cur'[e] = cur[e]
        /\ \A u \in Target \ {t} : /\ obj'[u] = obj[u] /\ mdir'[u] = mdir[u]
                                   /\ marker'[u] = marker[u]
    BY <1>17, ObjTyping DEF UnregisterScan, Swept
  <2>3. AtMask(d, t)'
    <3>1. UNCHANGED <<obj, mdir>>
      BY <1>17 DEF UnregisterScan
    <3>2. marker' = Swept(t) => Marked(t)' = Active(t)
      BY SweepMarkers DEF Marked, Active
    <3>3. Active(t) \subseteq Marked(t)
      BY DEF Active
    <3>4. UNCHANGED marker => Marked(t)' = Marked(t)
      BY DEF Marked
    <3>5. \/ /\ pc'[d] = "idle" /\ Active(t) # {}
             /\ marker' = Swept(t) \/ UNCHANGED marker
          \/ /\ pc'[d] = "unrRemove" /\ cur'[d] = t
             /\ marker' = Swept(t)
          \/ /\ pc'[d] = "unrDrop"
             /\ IF mdir[t] THEN marker' = Swept(t) /\ Active(t) # {} ELSE UNCHANGED marker
      BY <1>17 DEF UnregisterScan
    <3>6. LabDir(t)' = LabDir(t)
      BY <3>1 DEF LabDir
    <3>7. CASE pc'[d] = "idle"
      BY <2>1, <3>1, <3>2, <3>3, <3>4, <3>5, <3>6, <3>7 DEF AtMask
    <3>8. CASE pc'[d] = "unrRemove"
      <4>1. Active(t) = {}
        BY <1>17, <3>8 DEF UnregisterScan
      <4> QED BY <2>1, <3>1, <3>2, <3>5, <3>6, <3>8, <4>1 DEF AtMask, Leaving
    <3>9. CASE pc'[d] = "unrDrop"
      BY <2>1, <3>1, <3>2, <3>3, <3>4, <3>5, <3>6, <3>9 DEF AtMask
    <3> QED BY <3>5, <3>7, <3>8, <3>9
  <2> QED BY <2>1, <2>2, <2>3, MaskStep
<1>18. ASSUME NEW d \in Daemon, UnregisterRemove(d) PROVE TrackInv'
  <2> PICK t \in Target : t = cur[d]
    BY <1>18 DEF UnregisterRemove, CurInv, Target
  <2>1. pc[d] \in Locked /\ AtMask(d, t)
    BY <1>18, MaskOf DEF UnregisterRemove
  <2>2. /\ \A e \in Daemon \ {d} : pc'[e] = pc[e] /\ cur'[e] = cur[e]
        /\ \A u \in Target \ {t} : /\ obj'[u] = obj[u] /\ mdir'[u] = mdir[u]
                                   /\ marker'[u] = marker[u]
    BY <1>18, ObjTyping DEF UnregisterRemove
  <2>3. AtMask(d, t)'
    <3>1. Marked(t)' = Marked(t) /\ pc'[d] \in {"unrDrop", "idle"}
      BY <1>18 DEF UnregisterRemove, Marked
    <3>2. CASE Exists(t) => Bare(t)
      <4>1. obj'[t] = Absent
        BY <1>18, <3>2, ObjTyping DEF UnregisterRemove
      <4>2. Marked(t)' = {} /\ ~LabDir(t)'
        BY <1>18, <2>1, <3>1, <4>1 DEF UnregisterRemove, AtMask, LabDir, Absent
      <4> QED BY <3>1, <4>2 DEF AtMask
    <3>3. CASE ~(Exists(t) => Bare(t))
      BY <1>18, <2>1, <3>1, <3>3 DEF UnregisterRemove, AtMask, LabDir, Exists, Bare
    <3> QED BY <3>2, <3>3
  <2> QED BY <2>1, <2>2, <2>3, MaskStep
<1>19. ASSUME NEW d \in Daemon, Unregistered(d) PROVE TrackInv'
  <2>1. UNCHANGED <<obj, mdir, marker>>
    BY <1>19 DEF Unregistered
  <2>2. \A e \in Daemon :
          pc'[e] \in Inside \/ pc[e] \in {"unrScan", "unrRemove"}
            => pc'[e] = pc[e] /\ cur'[e] = cur[e]
    BY <1>19 DEF Unregistered, Inside
  <2> QED BY <2>1, <2>2, FrameStep
<1>20. ASSUME NEW d \in Daemon, LaunchSucceeds(d) PROVE TrackInv'
  <2>1. UNCHANGED <<obj, mdir, marker>>
    BY <1>20 DEF LaunchSucceeds
  <2>2. \A e \in Daemon :
          pc'[e] \in Inside \/ pc[e] \in {"unrScan", "unrRemove"}
            => pc'[e] = pc[e] /\ cur'[e] = cur[e]
    BY <1>20 DEF LaunchSucceeds, Inside
  <2> QED BY <2>1, <2>2, FrameStep
<1>21. ASSUME NEW d \in Daemon, LaunchFails(d) PROVE TrackInv'
  <2>1. UNCHANGED <<obj, mdir, marker>>
    BY <1>21 DEF LaunchFails
  <2>2. \A e \in Daemon :
          pc'[e] \in Inside \/ pc[e] \in {"unrScan", "unrRemove"}
            => pc'[e] = pc[e] /\ cur'[e] = cur[e]
    BY <1>21 DEF LaunchFails, Inside
  <2> QED BY <2>1, <2>2, FrameStep
<1>22. ASSUME NEW d \in Daemon, Stop(d) PROVE TrackInv'
  <2>1. UNCHANGED <<obj, mdir, marker>>
    BY <1>22 DEF Stop
  <2>2. \A e \in Daemon :
          pc'[e] \in Inside \/ pc[e] \in {"unrScan", "unrRemove"}
            => pc'[e] = pc[e] /\ cur'[e] = cur[e]
    BY <1>22 DEF Stop, Inside
  <2> QED BY <2>1, <2>2, FrameStep
<1>23. ASSUME NEW d \in Daemon, DaemonKilled(d) PROVE TrackInv'
  <2>1. UNCHANGED <<obj, mdir, marker>>
    BY <1>23 DEF DaemonKilled
  <2>2. \A e \in Daemon :
          pc'[e] \in Inside \/ pc[e] \in {"unrScan", "unrRemove"}
            => pc'[e] = pc[e] /\ cur'[e] = cur[e]
    BY <1>23 DEF DaemonKilled, Inside
  <2> QED BY <2>1, <2>2, FrameStep
<1>24. ASSUME NEW d \in Daemon, HelperKilled(d) PROVE TrackInv'
  BY <1>24 DEF HelperKilled
<1>25. ASSUME NEW t \in Target, UserCreates(t) PROVE TrackInv'
  BY <1>25, UserKeepsTrack DEF UserStep
<1>26. ASSUME NEW t \in Target, UserDeletes(t) PROVE TrackInv'
  BY <1>26, UserKeepsTrack DEF UserStep
<1>27. ASSUME NEW t \in Target, UserFills(t) PROVE TrackInv'
  BY <1>27, UserKeepsTrack DEF UserStep
<1>28. ASSUME NEW t \in Target, UserEmpties(t) PROVE TrackInv'
  BY <1>28, UserKeepsTrack DEF UserStep
<1>29. CASE UNCHANGED vars
  BY <1>29, FrameStep DEF vars
<1> QED
  BY <1>1, <1>2, <1>3, <1>4, <1>5, <1>6, <1>40, <1>7, <1>8, <1>9, <1>10, <1>11,
     <1>12, <1>13, <1>14, <1>15, <1>16, <1>17, <1>18, <1>19, <1>20, <1>21,
     <1>22, <1>23, <1>24, <1>25, <1>26, <1>27, <1>28, <1>29
  DEF Next, ClientStep, TakeLock, HelperStep, LaunchStep, UserStep

----------------------------------------------------------------------------
(* The theorems *)

\* Nothing is registered when the machine has booted.
LEMMA InitInv == Init => IInv
  BY NTargetAssumption, NobodyAssumption
  DEF Init, IInv, TypeOK, DataOK, ControlOK, Object, Marker, Absent, Kind, Origin,
      PC, Target, Locked, Helping, Resolving, Registering, Unregistering,
      LockInv, CurInv, DeadInv, FreshInv, HoldInv, RemoveInv, Holding

\* Every step of every session, and of the user, keeps the invariant.
LEMMA NextInv == IInv /\ [Next]_vars => IInv'
  BY ControlStep, DataStep, LockStep, CurStep, DeadStep, FreshStep, HoldStep,
     RemoveStep
  DEF IInv, TypeOK

\* The inductive invariant holds in every reachable state.
THEOREM InvariantHolds == Spec => []IInv
<1>1. Init => IInv
  BY InitInv
<1>2. IInv /\ [Next]_vars => IInv'
  BY NextInv
<1> QED BY <1>1, <1>2, PTL DEF Spec

\* Types: obj, mdir, marker, alive, pc, cur, plan, lock and starter stay what the
\* helper and the daemon keep in them.
THEOREM TypeCorrect == Spec => []TypeOK
<1>1. IInv => TypeOK
  BY DEF IInv
<1> QED BY <1>1, InvariantHolds, PTL

\* Reference counting: however many sessions there are, no resolution, failed
\* start or stop of one removes a placeholder that another live session holds.
THEOREM NoHeldPlaceholderRemoved == Spec => HeldPlaceholderKept
<1>1. IInv /\ [Next]_vars => [OnlyUnheldRemoved]_vars
  <2> SUFFICES ASSUME IInv, [Next]_vars, NEW t \in Target, LabRemoves(t),
                      NEW e \in Daemon, Holding(e, t)
               PROVE  FALSE
    BY DEF OnlyUnheldRemoved
  <2>1. marker[t][e] # NoMarker /\ alive[e] /\ e \in Active(t)
    BY DEF IInv, HoldInv, Holding, Marked, Active
  <2>2. obj'[t] # obj[t] /\ pc' # pc
    BY DEF LabRemoves, Exists
  <2>3. TypeOK /\ LockInv /\ CurInv /\ RemoveInv
    BY DEF IInv
  <2>4. ASSUME NEW d \in Daemon, NEW u \in Target, NEW label,
               InspectInactive(d, u, label)
        PROVE  FALSE
    <3>1. u = t
      BY <2>2, <2>4, <2>3, ObjTyping DEF InspectInactive
    <3> QED BY <2>1, <2>4, <3>1 DEF InspectInactive
  <2>5. ASSUME NEW d \in Daemon, UnregisterRemove(d) PROVE FALSE
    <3>1. t = cur[d] /\ pc[d] = "unrRemove"
      BY <2>2, <2>3, <2>5, ObjTyping DEF UnregisterRemove
    <3>2. e # d
      BY <3>1 DEF Holding, Registering
    <3> QED BY <2>1, <2>3, <3>1, <3>2 DEF RemoveInv
  <2>6. ASSUME NEW d \in Daemon, RegisterMkdir(d) PROVE FALSE
    BY <2>2, <2>3, <2>6, ObjTyping DEF RegisterMkdir, LabRemoves, Exists
  <2>7. ASSUME NEW d \in Daemon, ResolveInspect(d) \/ RegisterInspect(d) PROVE FALSE
    <3>1. cur[d] \in Target
      BY <2>3, <2>7, Typing DEF ResolveInspect, RegisterInspect, Target
    <3>2. UNCHANGED obj
      BY <2>4, <2>7, <3>1
      DEF ResolveInspect, RegisterInspect, InspectActive, InspectRefuses
    <3> QED BY <2>2, <3>2
  <2>8. ASSUME NEW d \in Daemon, ClientStep(d) \/ TakeLock(d) \/ LaunchStep(d) PROVE UNCHANGED obj
    BY <2>8 DEF ClientStep, TakeLock, LaunchStep, ClientEnters, StartDaemon,
       ResolveLock, StartLock, StopLock, ClientCleans, LaunchSucceeds, LaunchFails
  <2>9. ASSUME NEW d \in Daemon, HelperStep(d) PROVE UNCHANGED obj
    BY <2>5, <2>6, <2>7, <2>9
    DEF HelperStep, ResolveClassify, Resolved, RegisterExisting, RegisterReserve,
        RegisterFinal, Registered, UnregisterDrop, UnregisterScan, Unregistered
  <2>10. ASSUME NEW d \in Daemon,
                ClientLeaves(d) \/ Stop(d) \/ DaemonKilled(d) \/ HelperKilled(d)
         PROVE  UNCHANGED obj
    BY <2>10 DEF ClientLeaves, Stop, DaemonKilled, HelperKilled
  <2>11. ASSUME NEW u \in Target, UserStep(u) PROVE UNCHANGED pc
    BY <2>11
    DEF UserStep, UserCreates, UserDeletes, UserFills, UserEmpties, UserWorks
  <2>12. CASE UNCHANGED vars
    BY <2>2, <2>12 DEF vars
  <2> QED BY <2>2, <2>8, <2>9, <2>10, <2>11, <2>12 DEF Next
<1> QED BY <1>1, InvariantHolds, PTL DEF Spec, HeldPlaceholderKept

\* Crash recovery: as long as only daemons are killed and the helpers they leave
\* behind run to their end, the registry never loses an untouched placeholder.
THEOREM NoPlaceholderLost ==
  ASSUME HelperKills = FALSE PROVE Spec => []PlaceholderTracked
<1>1. Init => TrackInv
  BY DEF Init, TrackInv, LabInv, DirInv, StepInv, LabDir, Marked, Absent
<1>2. IInv /\ TrackInv /\ [Next]_vars => TrackInv'
  BY TrackStep DEF IInv
<1>3. IInv /\ TrackInv => PlaceholderTracked
  <2> SUFFICES ASSUME IInv, TrackInv, lock = Nobody, NEW t \in Target, LabDir(t)
               PROVE  Marked(t) # {}
    BY DEF PlaceholderTracked, LabDir
  <2>1. \A d \in Daemon : pc[d] \notin Locked
    BY NobodyAssumption DEF IInv, LockInv
  <2>2. \A d \in Daemon : ~Leaving(d, t)
    BY <2>1 DEF Leaving, Locked, Helping, Unregistering
  <2> QED BY <2>2 DEF TrackInv, LabInv
<1> QED BY <1>1, <1>2, <1>3, InvariantHolds, PTL DEF Spec

\* With the same assumption, no resolution mistakes NativeLab's own placeholder
\* for metadata of the user.
THEOREM NoPlaceholderMistaken ==
  ASSUME HelperKills = FALSE PROVE Spec => []PlaceholderNotMistaken
<1>1. Init => TrackInv
  BY DEF Init, TrackInv, LabInv, DirInv, StepInv, LabDir, Marked, Absent
<1>2. IInv /\ TrackInv /\ [Next]_vars => TrackInv'
  BY TrackStep DEF IInv
<1>3. TrackInv => PlaceholderNotMistaken
  BY DEF PlaceholderNotMistaken, TrackInv, StepInv, LabDir
<1> QED BY <1>1, <1>2, <1>3, InvariantHolds, PTL DEF Spec

----------------------------------------------------------------------------
(* Killed in the middle of mkdir: the strengthening behind CrashLeavesMarker. *)

Making == {"regMkdir", "regFinal"}

\* While the helper makes a placeholder, or takes over one that is there, the
\* target has a marker: its own provisional one, or that of the live holder.
MakerInv == \A d \in Daemon : pc[d] \in Making => Marked(cur[d]) # {}

\* Nobody but the helper itself comes between the two steps it makes a
\* placeholder in, and nobody writes a marker meanwhile.
LEMMA MakerUndisturbed ==
  ASSUME TypeOK, LockInv, NEW d \in Daemon, pc[d] \in Making, [Next]_vars
  PROVE  \/ RegisterMkdir(d) \/ RegisterFinal(d)
         \/ /\ UNCHANGED marker
            /\ pc'[d] \in Making => pc'[d] = pc[d] /\ cur'[d] = cur[d]
<1> DEFINE Kept == /\ UNCHANGED marker
                   /\ pc'[d] \in Making => pc'[d] = pc[d] /\ cur'[d] = cur[d]
<1>1. pc[d] \in Helping /\ pc[d] \in Registering /\ pc[d] \in Locked
  BY DEF Making, Locked, Helping, Registering
<1>2. lock = d /\ \A e \in Daemon \ {d} : pc[e] \notin Locked
  BY <1>1, Alone
<1>3. ASSUME NEW e \in Daemon, HelperStep(e)
      PROVE  RegisterMkdir(d) \/ RegisterFinal(d)
  <2>1. pc[e] \in Locked
    BY <1>3
    DEF HelperStep, ResolveInspect, ResolveClassify, Resolved, RegisterExisting,
        RegisterInspect, RegisterReserve, RegisterMkdir, RegisterFinal, Registered,
        UnregisterDrop, UnregisterScan, UnregisterRemove, Unregistered,
        Locked, Helping, Resolving, Registering, Unregistering
  <2>2. e = d
    BY <1>2, <2>1
  <2> QED
    BY <1>3, <2>2
    DEF HelperStep, ResolveInspect, ResolveClassify, Resolved, RegisterExisting,
        RegisterInspect, RegisterReserve, Registered,
        UnregisterDrop, UnregisterScan, UnregisterRemove, Unregistered, Making
<1>4. ASSUME NEW e \in Daemon, ClientStep(e) \/ TakeLock(e) \/ LaunchStep(e) \/ Stop(e)
      PROVE  Kept
  <2>1. e # d
    BY <1>2, <1>4, NobodyAssumption
    DEF ClientStep, TakeLock, LaunchStep, ClientEnters, StartDaemon, ClientCleans,
        ResolveLock, StartLock, StopLock, LaunchSucceeds, LaunchFails, Stop, Making
  <2> QED
    BY <1>4, <2>1, Typing
    DEF ClientStep, TakeLock, LaunchStep, ClientEnters, StartDaemon, ClientCleans,
        ResolveLock, StartLock, StopLock, LaunchSucceeds, LaunchFails, Stop,
        Goto, Begin
<1>5. ASSUME NEW e \in Daemon, ClientLeaves(e) PROVE Kept
  BY <1>5, Typing DEF ClientLeaves, Gone, Begin, Making
<1>6. ASSUME NEW e \in Daemon, DaemonKilled(e) PROVE Kept
  BY <1>6, Typing DEF DaemonKilled, Gone, Begin, Making
<1>7. ASSUME NEW e \in Daemon, HelperKilled(e) PROVE Kept
  <2>1. e = d
    BY <1>2, <1>7 DEF HelperKilled, Locked
  <2>2. UNCHANGED marker
    BY <1>7, <2>1 DEF HelperKilled, Making
  <2>3. pc'[d] \notin Making
    BY <1>7, <2>1, Typing
    DEF HelperKilled, ResolveFails, RegisterFails, UnregisterFails, Gone, Begin, Making
  <2> QED BY <2>2, <2>3
<1>8. ASSUME NEW u \in Target, UserStep(u) PROVE Kept
  BY <1>8
  DEF UserStep, UserCreates, UserDeletes, UserFills, UserEmpties, UserWorks
<1>9. CASE UNCHANGED vars
  BY <1>9 DEF vars
<1> QED BY <1>3, <1>4, <1>5, <1>6, <1>7, <1>8, <1>9 DEF Next

\* A helper gets to that point through the inspection of a target that a live
\* session holds, or through its own provisional marker.
LEMMA MakerEnters ==
  ASSUME TypeOK, NEW d \in Daemon, pc[d] \notin Making, pc'[d] \in Making, [Next]_vars
  PROVE  RegisterInspect(d) \/ RegisterReserve(d)
<1> USE Typing DEF Making, Goto, Begin, NextMask
<1>1. ASSUME NEW e \in Daemon, HelperStep(e)
      PROVE  RegisterInspect(d) \/ RegisterReserve(d)
  <2>1. ASSUME ResolveInspect(e) PROVE FALSE
    BY <2>1 DEF ResolveInspect, InspectInactive, ResolveFails, Gone
  <2>2. ASSUME ResolveClassify(e) \/ Resolved(e) PROVE FALSE
    BY <2>2 DEF ResolveClassify, Resolved, ResolveFails, Gone
  <2>3. ASSUME RegisterExisting(e) \/ Registered(e) PROVE FALSE
    BY <2>3 DEF RegisterExisting, Registered, RegisterFails, Gone
  <2>4. ASSUME RegisterInspect(e) PROVE RegisterInspect(d)
    BY <2>4 DEF RegisterInspect, InspectInactive, RegisterFails, Gone
  <2>5. ASSUME RegisterReserve(e) PROVE RegisterReserve(d)
    BY <2>5 DEF RegisterReserve, RegisterFails, Gone
  <2>6. ASSUME RegisterMkdir(e) \/ RegisterFinal(e) PROVE FALSE
    BY <2>6 DEF RegisterMkdir, RegisterFinal, RegisterFails, Gone
  <2>7. ASSUME UnregisterDrop(e) \/ UnregisterScan(e) PROVE FALSE
    BY <2>7 DEF UnregisterDrop, UnregisterScan, UnregisterFails, Gone
  <2>8. ASSUME UnregisterRemove(e) \/ Unregistered(e) PROVE FALSE
    BY <2>8 DEF UnregisterRemove, Unregistered, UnregisterFails, Gone
  <2> QED BY <1>1, <2>1, <2>2, <2>3, <2>4, <2>5, <2>6, <2>7, <2>8 DEF HelperStep
<1>2. ASSUME NEW e \in Daemon, ClientStep(e) \/ TakeLock(e) \/ LaunchStep(e) \/ Stop(e)
      PROVE  FALSE
  BY <1>2
  DEF ClientStep, TakeLock, LaunchStep, ClientEnters, StartDaemon, ClientCleans,
      ResolveLock, StartLock, StopLock, LaunchSucceeds, LaunchFails, Stop
<1>3. ASSUME NEW e \in Daemon, ClientLeaves(e) \/ DaemonKilled(e) PROVE FALSE
  BY <1>3 DEF ClientLeaves, DaemonKilled, Gone
<1>4. ASSUME NEW e \in Daemon, HelperKilled(e) PROVE FALSE
  BY <1>4 DEF HelperKilled, ResolveFails, RegisterFails, UnregisterFails, Gone
<1>5. ASSUME NEW u \in Target, UserStep(u) PROVE FALSE
  BY <1>5
  DEF UserStep, UserCreates, UserDeletes, UserFills, UserEmpties, UserWorks
<1>6. CASE UNCHANGED vars
  BY <1>6 DEF vars
<1> QED BY <1>1, <1>2, <1>3, <1>4, <1>5, <1>6 DEF Next

LEMMA MakerStep ==
  ASSUME TypeOK, LockInv, CurInv, MakerInv, [Next]_vars PROVE MakerInv'
<1> SUFFICES ASSUME NEW d \in Daemon, pc'[d] \in Making
             PROVE  \E e \in Daemon : marker'[cur'[d]][e] # NoMarker
  BY DEF MakerInv, Marked
<1>1. CASE pc[d] \in Making
  <2>1. Marked(cur[d]) # {}
    BY <1>1 DEF MakerInv
  <2>2. UNCHANGED marker /\ cur'[d] = cur[d]
    BY <1>1, MakerUndisturbed, Typing
    DEF RegisterMkdir, RegisterFinal, RegisterFails, Gone, Begin, Goto, NextMask, Making
  <2> QED BY <2>1, <2>2 DEF Marked
<1>2. CASE pc[d] \notin Making
  <2>1. CASE RegisterReserve(d)
    <3> PICK t \in Target : t = cur[d]
      BY <2>1, Typing DEF RegisterReserve, CurInv, Target
    <3>1. marker' = [marker EXCEPT ![t][d] = Provisional] /\ cur'[d] = t
      BY <2>1, Typing DEF RegisterReserve, RegisterFails, Gone, Begin, Goto, Making
    <3>2. marker'[t][d] = Provisional
      BY <3>1, Typing
    <3> QED BY <3>1, <3>2, MarkerAssumption
  <2>2. CASE RegisterInspect(d)
    <3> PICK t \in Target : t = cur[d]
      BY <2>2, Typing DEF RegisterInspect, Target
    <3>1. InspectActive(t) /\ cur'[d] = t
      BY <2>2, Typing
      DEF RegisterInspect, InspectInactive, RegisterFails, Gone, Begin, Goto, Making
    <3> PICK e \in Daemon : marker[t][e] # NoMarker /\ alive[e]
      BY <3>1 DEF InspectActive, Active, Marked
    <3>2. marker'[t][e] = marker[t][e]
      BY <3>1, SweepMarkers DEF InspectActive
    <3> QED BY <3>1, <3>2
  <2> QED BY <1>2, <2>1, <2>2, MakerEnters
<1> QED BY <1>1, <1>2

\* Whatever is killed, the helper in the middle of a mkdir included, a placeholder
\* that was made has a marker through which the next session finds it.
THEOREM CrashFindsPlaceholder == Spec => CrashLeavesMarker
<1>1. Init => MakerInv
  BY DEF Init, MakerInv, Making
<1>2. IInv /\ MakerInv /\ [Next]_vars => MakerInv'
  BY MakerStep DEF IInv
<1>3. IInv /\ MakerInv /\ [Next]_vars => [MakerLeavesMarker]_vars
  <2> SUFFICES ASSUME IInv, MakerInv, [Next]_vars,
                      NEW d \in Daemon, pc[d] \in Making
               PROVE  \E e \in Daemon : marker'[cur[d]][e] # NoMarker
    BY DEF MakerLeavesMarker, Making
  <2>1. TypeOK /\ LockInv /\ CurInv /\ Marked(cur[d]) # {}
    BY DEF IInv, MakerInv
  <2>2. CASE UNCHANGED marker
    BY <2>1, <2>2 DEF Marked
  <2>3. CASE RegisterFinal(d) /\ marker' # marker
    <3> PICK t \in Target : t = cur[d]
      BY <2>1, <2>3, Typing DEF RegisterFinal, CurInv, Target
    <3>1. marker' = [marker EXCEPT ![t][d] = obj[t].ino]
      BY <2>3 DEF RegisterFinal
    <3>2. obj[t].ino # NoMarker
      BY <2>1, ObjTyping, MarkerAssumption DEF Object
    <3>3. marker'[t][d] = obj[t].ino
      BY <2>1, <3>1, Typing
    <3> QED BY <3>2, <3>3
  <2> QED BY <2>1, <2>2, <2>3, MakerUndisturbed DEF RegisterMkdir
<1> QED BY <1>1, <1>2, <1>3, InvariantHolds, PTL DEF Spec, CrashLeavesMarker

============================================================================
