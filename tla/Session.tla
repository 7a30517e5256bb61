------------------------------ MODULE Session -------------------------------
(* What the users of one session directory may rely on: the session is on   *)
(* or off, and what they are told of it is true.  SessionLifecycle          *)
(* implements it.                                                           *)
CONSTANTS
  Client,  \* invocations of native-lab
  Daemon,  \* the daemons that are ever started
  None     \* no session

VARIABLES
  live,     \* the daemons that run
  spent,    \* those that have been started
  session,  \* the daemon whose session is installed
  told      \* what each client has been told

vars == <<live, spent, session, told>>
Quiet == [c \in Client |-> "nothing"]

Init == live = {} /\ spent = {} /\ session = None /\ told = Quiet

\* A daemon starts alone, once, and behind nobody's back.
Start(d) ==
  /\ live = {} /\ d \notin spent /\ told = Quiet
  /\ live' = {d} /\ spent' = spent \union {d} /\ session' = d
  /\ UNCHANGED told

End == live' = {} /\ UNCHANGED <<spent, session, told>>

\* The state goes only when nobody uses it.
Forget == live = {} /\ session' = None /\ UNCHANGED <<live, spent, told>>

Tell(c, what) ==
  /\ told[c] = "nothing"
  /\ told' = [told EXCEPT ![c] = what]
  /\ UNCHANGED <<live, spent>>
Join(c) == session # None /\ Tell(c, "joined") /\ UNCHANGED session
Ended(c) == live = {} /\ Tell(c, "ended") /\ UNCHANGED session
Gone(c) == live = {} /\ Tell(c, "gone") /\ session' = None

Leave(c) == told' = [told EXCEPT ![c] = "nothing"] /\ UNCHANGED <<live, spent, session>>

Next ==
  \/ \E d \in Daemon : Start(d)
  \/ End \/ Forget
  \/ \E c \in Client : Join(c) \/ Ended(c) \/ Gone(c) \/ Leave(c)
Spec == Init /\ [][Next]_vars
=============================================================================
