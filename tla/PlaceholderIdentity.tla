------------------------ MODULE PlaceholderIdentity ------------------------
(* SyntheticMounts with a history variable: the directories that stand in    *)
(* the place of a session's placeholders, under another identity than its    *)
(* markers record, when its stop begins.  The code unlinks these markers     *)
(* without reading them, so that its own state does not say it later.        *)
EXTENDS SyntheticMounts

VARIABLE foreign   \* by session and target; NoInode where there is none

vars_h == <<vars, foreign>>

NoneForeign == [t \in Target |-> NoInode]

\* The daemon's trap has the policy lock and is about to call
\* unregister-synthetics.
StopBegins(d) == pc[d] = "stopping" /\ pc'[d] = "unrDrop"

\* d's marker names one directory, and another one is there.
Replaced(d, t) ==
  Exists(t) /\ marker[t][d] \in Ino /\ marker[t][d] # obj[t].ino

ForeignNext(d) ==
  IF StopBegins(d)
  THEN [t \in Target |-> IF Replaced(d, t) THEN obj[t].ino ELSE NoInode]
  ELSE IF pc'[d] = "idle" THEN NoneForeign ELSE foreign[d]

HistoryInit == Init /\ foreign = [d \in Daemon |-> NoneForeign]
HistoryNext == Next /\ foreign' = [d \in Daemon |-> ForeignNext(d)]

HistorySpec == HistoryInit /\ [][HistoryNext]_vars_h /\ Fairness

\* A session that made a placeholder and recorded its identity does not, when it
\* stops, remove a directory of another identity that stood there already when
\* the stop took the policy lock.
\* (README.en.md:233-235, "`stop` removes a placeholder only if it is still
\* empty, has the expected identity, and has no other active holder";
\* unregister_synthetics does not read the identity in the session's marker.)
OnlyExpectedRemoved ==
  \A d \in Daemon, t \in Target :
    LabRemoves(t) /\ pc[d] = "unrRemove" /\ cur[d] = t => obj[t].ino # foreign[d][t]
ForeignDirectoryKept == [][OnlyExpectedRemoved]_vars_h
============================================================================
