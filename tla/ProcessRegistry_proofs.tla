----------------------- MODULE ProcessRegistry_proofs -----------------------
(* The limit of handles, the eviction of completed ones and the end of      *)
(* close, for every number of processes and calls.                          *)
EXTENDS ProcessRegistry, FiniteSetTheorems, TLAPS

\* What is known of a group follows its life: nothing runs before the start,
\* a reaped leader is dead, and a completed group is gone.
GroupInv ==
  \A p \in Proc :
    /\ p \in handles => phase[p] = "started"
    /\ live[p] # {} => phase[p] = "started"
    /\ reaped[p] => phase[p] = "started" /\ "leader" \notin live[p]
    /\ exited[p] => reaped[p] /\ live[p] = {}

\* Each call in progress has its place counted already.
PlaceInv ==
  /\ Cardinality(Spawning) <= MaxCalls
  /\ Cardinality(handles) + Cardinality(Spawning) <= MaxProcesses + MaxCalls - 1

\* close waits for the tasks of everything it found.
CloseInv ==
  /\ closing = "open" => found = {}
  /\ found \subseteq handles
  /\ closing \in {"gathering", "closed"} => found \subseteq gathered
  /\ closing = "closed" => \A p \in gathered : exited[p]

\* Handles are numbered as they come, and one is kept until its process is completed.
OrderInv ==
  \A p \in Proc :
    /\ phase[p] = "started" <=> born[p] > 0
    /\ born[p] <= Cardinality(Started)
    /\ phase[p] = "started" /\ ~exited[p] => p \in handles

IInv == TypeOK /\ GroupInv /\ PlaceInv /\ CloseInv /\ OrderInv

\* Signals do not touch anything but sig.
LEMMA SignalType ==
  ASSUME NEW P, NEW name \in {"TERM", "KILL"}, TypeOK, Signal(P, name)
  PROVE  sig' \in [Proc -> [Part -> {"none", "TERM", "KILL"}]]
BY DEF TypeOK, Signal

\* Every step keeps the types.
LEMMA TypeStep == TypeOK /\ [Next]_vars => TypeOK'
<1> SUFFICES ASSUME TypeOK, [Next]_vars PROVE TypeOK'
  OBVIOUS
<1> USE DEF TypeOK
<1>1. CASE UNCHANGED vars
  BY <1>1 DEF vars, processes, registry, shutdown
<1>2. ASSUME NEW p \in Proc, RunChecks(p) PROVE TypeOK'
  BY <1>2 DEF RunChecks, shutdown
<1>3. ASSUME NEW p \in Proc, RunRegisters(p) PROVE TypeOK'
  <2>1. IsFiniteSet(Started)
    BY ProcAssumption, FS_Subset DEF Started
  <2>2. Cardinality(Started) \in Nat
    BY <2>1, FS_CardinalityType
  <2> QED BY <1>3, <2>2 DEF RunRegisters, shutdown, Part
<1>4. ASSUME NEW p \in Proc, RunFails(p) PROVE TypeOK'
  BY <1>4 DEF RunFails, registry, shutdown
<1>5. ASSUME NEW p \in Proc, NEW part \in Part, Exits(p, part) PROVE TypeOK'
  BY <1>5 DEF Exits, registry, shutdown
<1>6. ASSUME NEW p \in Proc, Reap(p) PROVE TypeOK'
  BY <1>6 DEF Reap, registry, shutdown
<1>7. ASSUME NEW p \in Proc, MarkExited(p) PROVE TypeOK'
  BY <1>7 DEF MarkExited, registry, shutdown
<1>8. ASSUME NEW p \in Proc, NEW force \in BOOLEAN, Kill(p, force) PROVE TypeOK'
  BY <1>8, SignalType DEF Kill, registry, shutdown
<1>9. CASE CloseStarts
  <2>1. sig' \in [Proc -> [Part -> {"none", "TERM", "KILL"}]]
    BY <1>9, SignalType DEF CloseStarts
  <2> QED BY <1>9, <2>1 DEF CloseStarts, Gather, Running, registry
<1>10. CASE CloseSatisfied
  BY <1>10 DEF CloseSatisfied, Gather, processes, registry
<1>11. CASE CloseTimesOut
  <2>1. sig' \in [Proc -> [Part -> {"none", "TERM", "KILL"}]]
    BY <1>11, SignalType DEF CloseTimesOut
  <2> QED BY <1>11, <2>1 DEF CloseTimesOut, Gather, registry
<1>12. CASE CloseEnds
  BY <1>12 DEF CloseEnds, processes, registry
<1> QED BY <1>1, <1>2, <1>3, <1>4, <1>5, <1>6, <1>7, <1>8, <1>9, <1>10, <1>11, <1>12
        DEF Next, CloseStep

\* Every step keeps GroupInv.
LEMMA GroupStep == TypeOK /\ GroupInv /\ [Next]_vars => GroupInv'
<1> SUFFICES ASSUME TypeOK, GroupInv, [Next]_vars PROVE GroupInv'
  OBVIOUS
<1> USE DEF TypeOK, GroupInv
<1>1. CASE UNCHANGED vars
  BY <1>1 DEF vars, processes, registry, shutdown
<1>2. ASSUME NEW p \in Proc, RunChecks(p) PROVE GroupInv'
  BY <1>2 DEF RunChecks
<1>3. ASSUME NEW p \in Proc, RunRegisters(p) PROVE GroupInv'
  BY <1>3 DEF RunRegisters
<1>4. ASSUME NEW p \in Proc, RunFails(p) PROVE GroupInv'
  BY <1>4 DEF RunFails, registry
<1>5. ASSUME NEW p \in Proc, NEW part \in Part, Exits(p, part) PROVE GroupInv'
  BY <1>5 DEF Exits, registry
<1>6. ASSUME NEW p \in Proc, Reap(p) PROVE GroupInv'
  BY <1>6 DEF Reap, registry
<1>7. ASSUME NEW p \in Proc, MarkExited(p) PROVE GroupInv'
  BY <1>7 DEF MarkExited, registry
<1>8. ASSUME NEW p \in Proc, NEW force \in BOOLEAN, Kill(p, force) PROVE GroupInv'
  BY <1>8 DEF Kill, registry
<1>9. CASE CloseStarts \/ CloseStep
  BY <1>9 DEF CloseStarts, CloseStep, CloseSatisfied, CloseTimesOut, CloseEnds,
    processes, registry
<1> QED BY <1>1, <1>2, <1>3, <1>4, <1>5, <1>6, <1>7, <1>8, <1>9 DEF Next

\* The sets that are counted are finite, whatever the state.
LEMMA Counted ==
  ASSUME TypeOK
  PROVE  /\ IsFiniteSet(handles) /\ Cardinality(handles) \in Nat
         /\ IsFiniteSet(Spawning) /\ Cardinality(Spawning) \in Nat
         /\ IsFiniteSet(Started) /\ Cardinality(Started) \in Nat
BY ProcAssumption, FS_Subset, FS_CardinalityType DEF TypeOK, Spawning, Started

\* A place that is taken by a handle was counted for the call before.
LEMMA PlaceStep == TypeOK /\ GroupInv /\ PlaceInv /\ [Next]_vars => PlaceInv'
<1> SUFFICES ASSUME TypeOK, GroupInv, PlaceInv, [Next]_vars PROVE PlaceInv'
  OBVIOUS
<1> USE LimitAssumption
<1>0. Cardinality(handles) \in Nat /\ Cardinality(Spawning) \in Nat
  BY Counted
<1>1. CASE UNCHANGED <<phase, handles>>
  BY <1>1 DEF PlaceInv, Spawning
<1>2. ASSUME NEW p \in Proc, RunChecks(p) PROVE PlaceInv'
  <2>1. handles' \subseteq handles
    BY <1>2 DEF RunChecks
  <2>2. Cardinality(handles') <= Cardinality(handles) /\ Cardinality(handles') \in Nat
    BY <2>1, Counted, FS_Subset, FS_CardinalityType
  <2>3. CASE Cardinality(handles') < MaxProcesses
    <3>1. p \notin Spawning /\ Spawning' = Spawning \union {p}
      BY <1>2, <2>3 DEF RunChecks, Spawning, TypeOK
    <3>2. Cardinality(Spawning') = Cardinality(Spawning) + 1
      BY <3>1, Counted, FS_AddElement
    <3>3. Cardinality(Spawning) < MaxCalls
      BY <1>2 DEF RunChecks
    <3> QED BY <2>2, <2>3, <3>2, <3>3, <1>0 DEF PlaceInv
  <2>4. CASE ~(Cardinality(handles') < MaxProcesses)
    <3>1. Spawning' = Spawning
      BY <1>2, <2>4 DEF RunChecks, Spawning
    <3> QED BY <2>2, <3>1, <1>0 DEF PlaceInv
  <2> QED BY <2>3, <2>4
<1>3. ASSUME NEW p \in Proc, RunRegisters(p) PROVE PlaceInv'
  <2>1. p \in Spawning /\ Spawning' = Spawning \ {p}
    BY <1>3 DEF RunRegisters, Spawning, TypeOK
  <2>2. Cardinality(Spawning') = Cardinality(Spawning) - 1
    BY <2>1, Counted, FS_RemoveElement
  <2>3. p \notin handles /\ handles' = handles \union {p}
    BY <1>3 DEF RunRegisters, GroupInv
  <2>4. Cardinality(handles') = Cardinality(handles) + 1
    BY <2>3, Counted, FS_AddElement
  <2> QED BY <2>2, <2>4, <1>0 DEF PlaceInv
<1>4. ASSUME NEW p \in Proc, RunFails(p) PROVE PlaceInv'
  <2>1. p \in Spawning /\ Spawning' = Spawning \ {p}
    BY <1>4 DEF RunFails, Spawning, TypeOK
  <2>2. Cardinality(Spawning') = Cardinality(Spawning) - 1
    BY <2>1, Counted, FS_RemoveElement
  <2>3. handles' = handles
    BY <1>4 DEF RunFails, registry
  <2> QED BY <2>2, <2>3, <1>0 DEF PlaceInv
<1>5. ASSUME NEW p \in Proc,
             \/ \E part \in Part : Exits(p, part)
             \/ Reap(p) \/ MarkExited(p)
             \/ \E force \in BOOLEAN : Kill(p, force)
      PROVE  UNCHANGED <<phase, handles>>
  BY <1>5 DEF Exits, Reap, MarkExited, Kill, registry
<1>6. CASE CloseStarts \/ CloseStep
  <2>1. UNCHANGED <<phase, handles>>
    BY <1>6 DEF CloseStarts, CloseStep, CloseSatisfied, CloseTimesOut, CloseEnds,
      processes, registry
  <2> QED BY <1>1, <2>1
<1>7. CASE UNCHANGED vars
  BY <1>1, <1>7 DEF vars, processes, registry
<1> QED BY <1>1, <1>2, <1>3, <1>4, <1>5, <1>6, <1>7 DEF Next

\* Once close has begun no handle is discarded, so what it found it waits for.
LEMMA CloseStepKeeps == TypeOK /\ CloseInv /\ [Next]_vars => CloseInv'
<1> SUFFICES ASSUME TypeOK, CloseInv, [Next]_vars PROVE CloseInv'
  OBVIOUS
<1> USE DEF TypeOK, CloseInv
<1>1. CASE UNCHANGED vars
  BY <1>1 DEF vars, processes, registry, shutdown
<1>2. ASSUME NEW p \in Proc, RunChecks(p) PROVE CloseInv'
  BY <1>2 DEF RunChecks, shutdown
<1>3. ASSUME NEW p \in Proc, RunRegisters(p) PROVE CloseInv'
  BY <1>3 DEF RunRegisters, shutdown
<1>4. ASSUME NEW p \in Proc, RunFails(p) PROVE CloseInv'
  BY <1>4 DEF RunFails, registry, shutdown
<1>5. ASSUME NEW p \in Proc, NEW part \in Part, Exits(p, part) PROVE CloseInv'
  BY <1>5 DEF Exits, registry, shutdown
<1>6. ASSUME NEW p \in Proc, Reap(p) PROVE CloseInv'
  BY <1>6 DEF Reap, registry, shutdown
<1>7. ASSUME NEW p \in Proc, MarkExited(p) PROVE CloseInv'
  BY <1>7 DEF MarkExited, registry, shutdown
<1>8. ASSUME NEW p \in Proc, NEW force \in BOOLEAN, Kill(p, force) PROVE CloseInv'
  BY <1>8 DEF Kill, registry, shutdown
<1>9. CASE CloseStarts
  BY <1>9 DEF CloseStarts, Gather, Running, registry
<1>10. CASE CloseSatisfied
  BY <1>10 DEF CloseSatisfied, Gather, processes, registry
<1>11. CASE CloseTimesOut
  BY <1>11 DEF CloseTimesOut, Gather, registry
<1>12. CASE CloseEnds
  BY <1>12 DEF CloseEnds, processes, registry
<1> QED BY <1>1, <1>2, <1>3, <1>4, <1>5, <1>6, <1>7, <1>8, <1>9, <1>10, <1>11, <1>12
        DEF Next, CloseStep

\* A handle is numbered when its call registers it, and goes when it is completed.
LEMMA OrderStep == TypeOK /\ GroupInv /\ OrderInv /\ [Next]_vars => OrderInv'
<1> SUFFICES ASSUME TypeOK, GroupInv, OrderInv, [Next]_vars PROVE OrderInv'
  OBVIOUS
<1>0. Cardinality(Started) \in Nat
  BY Counted
<1>1. ASSUME UNCHANGED <<phase, born, handles>>, \A p \in Proc : exited[p] => exited'[p]
      PROVE  OrderInv'
  BY <1>1 DEF OrderInv, Started
<1>2. ASSUME NEW p \in Proc, RunChecks(p) PROVE OrderInv'
  <2>1. \A q \in Proc : phase'[q] = "started" <=> phase[q] = "started"
    BY <1>2 DEF RunChecks, TypeOK
  <2>2. Started' = Started
    BY <2>1 DEF Started
  <2>3. \A q \in handles \ handles' : exited[q]
    BY <1>2 DEF RunChecks, Evicted, Completed
  <2>4. UNCHANGED <<born, exited>>
    BY <1>2 DEF RunChecks
  <2> QED BY <2>1, <2>2, <2>3, <2>4 DEF OrderInv
<1>3. ASSUME NEW p \in Proc, RunRegisters(p) PROVE OrderInv'
  <2>1. p \notin Started /\ Started' = Started \union {p}
    BY <1>3 DEF RunRegisters, Started, TypeOK
  <2>2. Cardinality(Started') = Cardinality(Started) + 1
    BY <2>1, Counted, FS_AddElement
  <2>3. /\ phase' = [phase EXCEPT ![p] = "started"]
        /\ born' = [born EXCEPT ![p] = Cardinality(Started) + 1]
        /\ handles' = handles \union {p} /\ exited' = exited
    BY <1>3 DEF RunRegisters
  <2> QED BY <2>2, <2>3, <1>0 DEF OrderInv, TypeOK
<1>4. ASSUME NEW p \in Proc, RunFails(p) PROVE OrderInv'
  <2>1. \A q \in Proc : phase'[q] = "started" <=> phase[q] = "started"
    BY <1>4 DEF RunFails, TypeOK
  <2>2. Started' = Started
    BY <2>1 DEF Started
  <2>3. UNCHANGED <<born, exited, handles>>
    BY <1>4 DEF RunFails, registry
  <2> QED BY <2>1, <2>2, <2>3 DEF OrderInv
<1>5. ASSUME NEW p \in Proc,
             \/ \E part \in Part : Exits(p, part)
             \/ Reap(p) \/ MarkExited(p)
             \/ \E force \in BOOLEAN : Kill(p, force)
      PROVE  OrderInv'
  BY <1>1, <1>5 DEF Exits, Reap, MarkExited, Kill, registry, TypeOK
<1>6. CASE CloseStarts \/ CloseStep
  BY <1>1, <1>6 DEF CloseStarts, CloseStep, CloseSatisfied, CloseTimesOut, CloseEnds,
    processes, registry
<1>7. CASE UNCHANGED vars
  BY <1>1, <1>7 DEF vars, processes, registry
<1> QED BY <1>2, <1>3, <1>4, <1>5, <1>6, <1>7 DEF Next

\* The inductive invariant holds of every reachable state.
THEOREM RegistryInvariant == Spec => []IInv
<1>1. Init => IInv
  <2> SUFFICES ASSUME Init PROVE IInv
    OBVIOUS
  <2>1. Spawning = {} /\ handles = {}
    BY DEF Init, Spawning
  <2>2. Cardinality({}) = 0
    BY FS_EmptySet
  <2>3. PlaceInv
    BY <2>1, <2>2, LimitAssumption DEF PlaceInv
  <2>4. TypeOK /\ GroupInv /\ CloseInv
    BY DEF Init, TypeOK, GroupInv, CloseInv, Part
  <2>5. OrderInv
    BY <2>4, Counted DEF Init, OrderInv
  <2> QED BY <2>3, <2>4, <2>5 DEF IInv
<1>2. IInv /\ [Next]_vars => IInv'
  BY TypeStep, GroupStep, PlaceStep, CloseStepKeeps, OrderStep DEF IInv
<1> QED BY <1>1, <1>2, PTL DEF Spec

\* Calls of run that overlap exceed the limit of handles by no more than the
\* calls in progress besides one; one call at a time keeps it.
THEOREM LimitHolds == Spec => []HandlesBounded
<1>1. IInv => HandlesBounded
  BY Counted, LimitAssumption DEF IInv, PlaceInv, HandlesBounded, Fits
<1> QED BY <1>1, RegistryInvariant, PTL

\* When close has returned, nothing it found running is left.
THEOREM CloseIsThorough == Spec => []FoundAreGone
<1>1. IInv => FoundAreGone
  BY DEF IInv, CloseInv, GroupInv, TypeOK, FoundAreGone
<1> QED BY <1>1, RegistryInvariant, PTL

\* The variables keep their types.
THEOREM TypeCorrect == Spec => []TypeOK
<1>1. IInv => TypeOK
  BY DEF IInv
<1> QED BY <1>1, RegistryInvariant, PTL

\* What a call of run evicts is completed, and older than the completed that stay.
LEMMA OldestGo ==
  ASSUME TypeOK, NEW p \in Evicted, NEW q \in Completed \ Evicted
  PROVE  born[p] < born[q]
<1> DEFINE Older(x) == {y \in Completed : born[y] < born[x]}
<1>1. p \in Completed /\ Cardinality(handles) - Cardinality(Older(p)) >= MaxProcesses
  BY DEF Evicted
<1>2. ~(Cardinality(handles) - Cardinality(Older(q)) >= MaxProcesses)
  BY DEF Evicted
<1>3. SUFFICES ASSUME ~(born[p] < born[q]) PROVE FALSE
  OBVIOUS
<1>4. born[p] \in Nat /\ \A x \in Completed : born[x] \in Nat
  BY <1>1 DEF TypeOK, Completed
<1>5. Older(q) \subseteq Older(p)
  BY <1>3, <1>4
<1>6. IsFiniteSet(Completed)
  BY Counted, FS_Subset DEF Completed
<1>7. IsFiniteSet(Older(p)) /\ IsFiniteSet(Older(q))
  BY <1>6, FS_Subset
<1>8. Cardinality(Older(q)) <= Cardinality(Older(p))
  BY <1>5, <1>7, FS_Subset
<1>9. Cardinality(Older(q)) \in Nat /\ Cardinality(Older(p)) \in Nat
  BY <1>7, FS_CardinalityType
<1> HIDE DEF Older
<1> QED BY <1>1, <1>2, <1>8, <1>9, Counted, LimitAssumption

\* The registry implements the table of handles: each step of a run, of a process or
\* of close inserts a handle, completes one, discards completed ones, or does nothing
\* to the table.
THEOREM TableImplemented == Spec => ImplementsTable
<1>1. Init => Table!Init
  BY DEF Init, Table!Init, Running, Completed
<1>2. IInv /\ IInv' /\ [Next]_vars => [Table!Next]_Table!vars
  <2> SUFFICES ASSUME IInv, IInv', [Next]_vars PROVE [Table!Next]_Table!vars
    OBVIOUS
  <2>1. ASSUME UNCHANGED <<handles, exited, born>> PROVE UNCHANGED Table!vars
    BY <2>1 DEF Table!vars, Running, Completed
  <2>2. ASSUME NEW p \in Proc, RunChecks(p) PROVE Table!Discard
    <3>1. handles' = handles \ Evicted /\ UNCHANGED <<exited, born>>
      BY <2>2 DEF RunChecks
    <3>2. Running' = Running /\ Completed' = Completed \ Evicted
      BY <3>1 DEF Running, Completed, Evicted
    <3> QED BY <3>1, <3>2, OldestGo DEF Table!Discard, IInv
  <2>3. ASSUME NEW p \in Proc, RunRegisters(p) PROVE Table!Insert(p)
    <3>1. ~exited[p] /\ born[p] = 0
      BY <2>3 DEF RunRegisters, IInv, TypeOK, GroupInv, OrderInv
    <3>2. handles' = handles \union {p} /\ exited' = exited
      BY <2>3 DEF RunRegisters
    <3>3. Running' = Running \union {p} /\ Completed' = Completed
      BY <3>1, <3>2 DEF Running, Completed
    <3>4. Running' \union Completed = handles'
      BY <3>1, <3>2 DEF Running, Completed
    <3>5. Fits(handles')
      <4>1. TypeOK' /\ PlaceInv'
        BY DEF IInv
      <4>2. Cardinality(handles') \in Nat /\ Cardinality(Spawning') \in Nat
        BY <4>1, ProcAssumption, FS_Subset, FS_CardinalityType DEF TypeOK, Spawning
      <4> QED BY <4>1, <4>2, LimitAssumption DEF PlaceInv, Fits
    <3>6. \A q \in Proc : born[q] <= Cardinality(Started) /\ born[q] \in Nat
      BY DEF IInv, OrderInv, TypeOK
    <3>7. born' = [born EXCEPT ![p] = Cardinality(Started) + 1]
      BY <2>3 DEF RunRegisters
    <3>8. Cardinality(Started) \in Nat
      BY Counted DEF IInv
    <3>9. \A q \in Proc :
            IF q = p THEN \A r \in Proc : born[r] < born'[p] ELSE born'[q] = born[q]
      BY <3>6, <3>7, <3>8 DEF IInv, TypeOK
    <3> QED BY <3>1, <3>3, <3>4, <3>5, <3>9 DEF Table!Insert
  <2>4. ASSUME NEW p \in Proc, MarkExited(p) PROVE Table!Complete(p)
    <3>1. p \in handles /\ ~exited[p]
      BY <2>4 DEF MarkExited, IInv, GroupInv, OrderInv
    <3>2. exited' = [exited EXCEPT ![p] = TRUE] /\ UNCHANGED <<handles, born>>
      BY <2>4 DEF MarkExited, registry
    <3>3. Running' = Running \ {p} /\ Completed' = Completed \union {p}
      BY <3>1, <3>2 DEF Running, Completed, IInv, TypeOK
    <3> QED BY <3>1, <3>2, <3>3 DEF Table!Complete, Running
  <2>5. ASSUME NEW p \in Proc,
               \/ RunFails(p) \/ Reap(p)
               \/ \E part \in Part : Exits(p, part)
               \/ \E force \in BOOLEAN : Kill(p, force)
        PROVE  UNCHANGED Table!vars
    BY <2>1, <2>5 DEF RunFails, Reap, Exits, Kill, registry
  <2>6. CASE CloseStarts \/ CloseStep
    BY <2>1, <2>6 DEF CloseStarts, CloseStep, CloseSatisfied, CloseTimesOut, CloseEnds,
      processes, registry
  <2>7. CASE UNCHANGED vars
    BY <2>1, <2>7 DEF vars, processes, registry
  <2> QED BY <2>2, <2>3, <2>4, <2>5, <2>6, <2>7 DEF Next, Table!Next
<1> QED BY <1>1, <1>2, RegistryInvariant, PTL DEF Spec, ImplementsTable, Table!Spec
=============================================================================
