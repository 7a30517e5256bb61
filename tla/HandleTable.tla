----------------------------- MODULE HandleTable -----------------------------
(* What a user of the MCP tools may rely on of the handles of managed        *)
(* processes: how many there are, in which order they come, and which go.    *)
(* ProcessRegistry implements it.                                            *)
EXTENDS Naturals

CONSTANTS
  Proc,    \* the processes that are ever run
  Fits(_)  \* whether there may be so many handles

VARIABLES
  running,    \* the handles of running processes
  completed,  \* those with an exit code
  born        \* the order in which the handles came, 0 before

vars == <<running, completed, born>>

Init == running = {} /\ completed = {} /\ born = [p \in Proc |-> 0]

\* A new handle: one that was discarded does not come back.
Insert(p) ==
  /\ born[p] = 0
  /\ running' = running \union {p}
  /\ Fits(running' \union completed)
  /\ \A q \in Proc : IF q = p THEN \A r \in Proc : born[r] < born'[p] ELSE born'[q] = born[q]
  /\ UNCHANGED completed

\* For good: a completed process does not run again.
Complete(p) ==
  /\ p \in running
  /\ running' = running \ {p} /\ completed' = completed \union {p}
  /\ UNCHANGED born

\* Only completed handles go, and those that stay are younger.
Discard ==
  /\ completed' \subseteq completed
  /\ \A p \in completed \ completed', q \in completed' : born[p] < born[q]
  /\ UNCHANGED <<running, born>>

Next == (\E p \in Proc : Insert(p) \/ Complete(p)) \/ Discard
Spec == Init /\ [][Next]_vars
=============================================================================
