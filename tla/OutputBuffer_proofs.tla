------------------------ MODULE OutputBuffer_proofs -------------------------
(* The calls that wait for output, and what the buffer holds, for every     *)
(* buffer, reads, timing and number of calls.                               *)
EXTENDS OutputBuffer, OutputText_proofs

----------------------------------------------------------------------------
(* The calls that wait.  What FindLiteral computes does not matter here: the *)
(* proofs use only that its answer changes when the events do.              *)

Fields(r) == [op |-> r.op, state |-> r.state, pattern |-> r.pattern,
              stream |-> r.stream, minimum |-> r.minimum]
ReplyFields(r) ==
  [call |-> r.call, reason |-> r.reason, cursor |-> r.cursor, exited |-> r.exited]

\* Calls and replies are records; the flags of the streams are a function.
ShapeInv ==
  /\ call = [c \in Caller |-> call[c]] /\ reply = [c \in Caller |-> reply[c]]
  /\ drained = [s \in Streams |-> drained[s]]
  /\ \A c \in Caller : call[c] = Fields(call[c]) /\ reply[c] = ReplyFields(reply[c])

\* Nothing is appended once the exit is marked.
DrainInv == exited => \A s \in Streams : drained[s]

\* Replies of an exit: the exit is marked, and the cursor has not moved since.
ReplyInv ==
  \A c \in Caller : reply[c].reason = "process_exited" => exited /\ reply[c].cursor = cursor

IInv == ShapeInv /\ DrainInv /\ ReplyInv /\ NoLostWakeup /\ WaitTimeoutIsRunning

\* The fields of a call that is put to sleep, woken or expired.
LEMMA Woken ==
  ASSUME ShapeInv, NotifyAll
  PROVE  /\ call' = [c \in Caller |-> call'[c]]
         /\ \A c \in Caller : call'[c] = Fields(call'[c]) /\ call'[c].state # "waiting"
BY DEF ShapeInv, NotifyAll, Fields

\* Appending wakes every sleeper or changes nothing.
LEMMA Appended ==
  ASSUME NEW s, NEW text, AppendOutput(s, text)
  PROVE  NotifyAll \/ UNCHANGED <<written, events, buffered, cursor, truncated, call>>
BY DEF AppendOutput, output

\* A drain that is not done appends before the exit is marked.
LEMMA DrainStep ==
  ASSUME IInv, NEW s \in Streams, DrainReads(s) \/ DrainEnds(s)
  PROVE  IInv'
<1> USE DEF IInv
<1>1. ~drained[s] /\ ~exited /\ ~exited'
  BY DEF DrainReads, DrainEnds, DrainInv
<1>2. UNCHANGED reply
  BY DEF DrainReads, DrainEnds
<1>3. NotifyAll \/ UNCHANGED <<events, call>>
  BY Appended DEF DrainReads, DrainEnds
<1>4. drained' = [r \in Streams |-> drained'[r]]
  BY DEF DrainReads, DrainEnds, ShapeInv
<1>5. ShapeInv'
  <2>1. CASE NotifyAll
    BY <1>2, <1>4, <2>1, Woken DEF ShapeInv, ReplyFields
  <2>2. CASE UNCHANGED <<events, call>>
    BY <1>2, <1>4, <2>2 DEF ShapeInv, Fields, ReplyFields
  <2> QED BY <1>3, <2>1, <2>2
<1>6. DrainInv' /\ ReplyInv' /\ WaitTimeoutIsRunning'
  BY <1>1, <1>2 DEF DrainInv, ReplyInv, WaitTimeoutIsRunning
<1>7. NoLostWakeup'
  <2>1. CASE NotifyAll
    BY <2>1, Woken DEF NoLostWakeup
  <2>2. CASE UNCHANGED <<events, call>>
    BY <1>1, <2>2 DEF NoLostWakeup
  <2> QED BY <1>3, <2>1, <2>2
<1> QED BY <1>5, <1>6, <1>7

\* A call that looks finds something to return or is right to sleep.
LEMMA AnswerStep ==
  ASSUME IInv, NEW c \in Caller, NEW asked, NEW reason, NEW at,
         UNCHANGED <<output, partial, drained, reaped, exited>>,
         asked = Fields(asked), Answer(c, asked, reason, at),
         reason = "process_exited" => exited /\ at = cursor,
         reason = "timeout" /\ asked.op = "wait" => ~exited
  PROVE  IInv'
<1> USE DEF IInv, output
<1>1. ShapeInv'
  BY DEF ShapeInv, Answer, Fields, ReplyFields, Idle
<1>2. DrainInv'
  BY DEF DrainInv
<1>3. ReplyInv'
  BY DEF ReplyInv, Answer, ShapeInv
<1>4. NoLostWakeup'
  BY DEF NoLostWakeup, Answer, ShapeInv, Idle
<1>5. WaitTimeoutIsRunning'
  BY DEF WaitTimeoutIsRunning, Answer, ShapeInv
<1> QED BY <1>1, <1>2, <1>3, <1>4, <1>5

\* A call that goes to sleep has looked and found nothing to return.
LEMMA SleepStep ==
  ASSUME IInv, NEW c \in Caller, NEW asked,
         UNCHANGED <<output, partial, drained, reaped, exited>>,
         asked = Fields(asked), Sleep(c, asked), ~exited,
         asked.op = "expect" =>
           FindLiteral(events, asked.pattern, asked.stream, asked.minimum) = NoMatch
  PROVE  IInv'
<1> USE DEF IInv, output
<1>1. call' = [call EXCEPT ![c] = [asked EXCEPT !.state = "waiting"]]
      /\ reply' = [reply EXCEPT ![c] = NoReply]
  BY DEF Sleep
<1>2. ShapeInv'
  BY <1>1 DEF ShapeInv, Fields, ReplyFields, NoReply
<1>3. DrainInv'
  BY DEF DrainInv
<1>4. ReplyInv' /\ WaitTimeoutIsRunning'
  BY <1>1 DEF ReplyInv, WaitTimeoutIsRunning, ShapeInv, NoReply
<1>5. NoLostWakeup'
  <2> SUFFICES ASSUME NEW e \in Caller, call'[e].state = "waiting"
               PROVE  ~exited /\ (call'[e].op = "expect" =>
                 FindLiteral(events, call'[e].pattern, call'[e].stream, call'[e].minimum)
                   = NoMatch)
    BY DEF NoLostWakeup
  <2>1. CASE e = c
    BY <1>1, <2>1 DEF ShapeInv, Fields
  <2>2. CASE e # c
    BY <1>1, <2>2 DEF ShapeInv, NoLostWakeup
  <2> QED BY <2>1, <2>2
<1> QED BY <1>2, <1>3, <1>4, <1>5

\* The loop of expect and the loop of wait, from the start or after a wakeup.
LEMMA LookStep ==
  ASSUME IInv, NEW c \in Caller, NEW asked, asked = Fields(asked),
         UNCHANGED <<output, partial, drained, reaped, exited>>,
         ExpectLooks(c, asked) \/ (asked.op # "expect" /\ WaitLooks(c, asked))
  PROVE  IInv'
<1>1. CASE ExpectLooks(c, asked)
  <2> DEFINE match == FindLiteral(events, asked.pattern, asked.stream, asked.minimum)
  <2>1. CASE match # NoMatch
    BY <1>1, <2>1, AnswerStep DEF ExpectLooks
  <2>2. CASE match = NoMatch /\ exited
    BY <1>1, <2>2, AnswerStep DEF ExpectLooks
  <2>3. CASE match = NoMatch /\ ~exited
    BY <1>1, <2>3, SleepStep DEF ExpectLooks
  <2> QED BY <2>1, <2>2, <2>3
<1>2. CASE asked.op # "expect" /\ WaitLooks(c, asked)
  <2>1. CASE exited
    BY <1>2, <2>1, AnswerStep DEF WaitLooks
  <2>2. CASE ~exited
    BY <1>2, <2>2, SleepStep DEF WaitLooks
  <2> QED BY <2>1, <2>2
<1> QED BY <1>1, <1>2

\* A call is cancelled, or its timer goes off: it no longer sleeps.
LEMMA LeaveStep ==
  ASSUME IInv, NEW c \in Caller, Expire(c) \/ Cancel(c)
  PROVE  IInv'
<1> USE DEF IInv, output
<1>1. /\ UNCHANGED <<output, drained, exited, reply>>
      /\ call' = [call EXCEPT ![c] = Idle] \/ call' = [call EXCEPT ![c].state = "expired"]
  BY DEF Expire, Cancel
<1>2. ShapeInv'
  BY <1>1 DEF ShapeInv, Fields, ReplyFields, Idle
<1>3. DrainInv' /\ ReplyInv' /\ WaitTimeoutIsRunning'
  BY <1>1 DEF DrainInv, ReplyInv, WaitTimeoutIsRunning
<1>4. call'[c].state # "waiting" /\ \A e \in Caller : e # c => call'[e] = call[e]
  BY <1>1 DEF ShapeInv, Fields, Idle
<1>5. NoLostWakeup'
  BY <1>1, <1>4 DEF NoLostWakeup
<1> QED BY <1>2, <1>3, <1>5

\* Every step keeps the invariant.
LEMMA NextInv == IInv /\ [Next]_vars => IInv'
<1> SUFFICES ASSUME IInv, [Next]_vars PROVE IInv'
  OBVIOUS
<1> USE DEF IInv
<1>1. CASE UNCHANGED vars
  BY <1>1 DEF vars, output, ShapeInv, DrainInv, ReplyInv, NoLostWakeup,
    WaitTimeoutIsRunning, Fields, ReplyFields
<1>2. ASSUME NEW s \in Streams, DrainReads(s) \/ DrainEnds(s) PROVE IInv'
  BY <1>2, DrainStep
<1>3. CASE Reap
  BY <1>3 DEF Reap, output, ShapeInv, DrainInv, ReplyInv, NoLostWakeup,
    WaitTimeoutIsRunning, Fields, ReplyFields
<1>4. CASE MarkExited
  <2>1. ShapeInv' /\ NoLostWakeup'
    BY <1>4, Woken DEF MarkExited, ShapeInv, NoLostWakeup, ReplyFields
  <2> QED BY <1>4, <2>1 DEF MarkExited, output, DrainInv, ReplyInv, WaitTimeoutIsRunning
<1>5. ASSUME NEW c \in Caller, Expect(c) PROVE IInv'
  <2>1. PICK pattern \in Pattern, stream \in Asked, minimum \in 0 .. cursor + 1 :
          ExpectLooks(c, [op |-> "expect", state |-> "idle", pattern |-> pattern,
                          stream |-> stream, minimum |-> minimum])
    BY <1>5 DEF Expect
  <2> DEFINE asked == [op |-> "expect", state |-> "idle", pattern |-> pattern,
                       stream |-> stream, minimum |-> minimum]
  <2>2. asked = Fields(asked)
    BY DEF Fields
  <2>3. UNCHANGED <<output, partial, drained, reaped, exited>>
    BY <1>5 DEF Expect
  <2>4. ExpectLooks(c, asked)
    BY <2>1
  <2> HIDE DEF asked
  <2> QED BY <2>2, <2>3, <2>4, LookStep
<1>6. ASSUME NEW c \in Caller, Wait(c) PROVE IInv'
  <2> DEFINE asked == [Idle EXCEPT !.op = "wait"]
  <2>1. asked = Fields(asked) /\ asked.op # "expect"
    BY DEF Idle, Fields
  <2>2. WaitLooks(c, asked) /\ UNCHANGED <<output, partial, drained, reaped, exited>>
    BY <1>6 DEF Wait
  <2> HIDE DEF asked
  <2> QED BY <2>1, <2>2, LookStep
<1>7. ASSUME NEW c \in Caller, Resume(c) PROVE IInv'
  <2>1. call[c] = Fields(call[c])
    BY DEF ShapeInv
  <2>2. UNCHANGED <<output, partial, drained, reaped, exited>>
    BY <1>7 DEF Resume
  <2>3. ExpectLooks(c, call[c]) \/ (call[c].op # "expect" /\ WaitLooks(c, call[c]))
    BY <1>7 DEF Resume
  <2> DEFINE asked == call[c]
  <2> HIDE DEF asked
  <2>4. asked = Fields(asked)
        /\ (ExpectLooks(c, asked) \/ (asked.op # "expect" /\ WaitLooks(c, asked)))
    BY <2>1, <2>3 DEF asked
  <2> QED BY <2>2, <2>4, LookStep
<1>8. ASSUME NEW c \in Caller, TimeOut(c) PROVE IInv'
  <2>1. call[c] = Fields(call[c])
    BY DEF ShapeInv
  <2>2. UNCHANGED <<output, partial, drained, reaped, exited>>
    BY <1>8 DEF TimeOut
  <2>3. CASE call[c].op = "wait" /\ exited
    BY <1>8, <2>1, <2>2, <2>3, AnswerStep DEF TimeOut
  <2>4. CASE ~(call[c].op = "wait" /\ exited)
    BY <1>8, <2>1, <2>2, <2>4, AnswerStep DEF TimeOut
  <2> QED BY <2>3, <2>4
<1>9. ASSUME NEW c \in Caller, Expire(c) \/ Cancel(c) PROVE IInv'
  BY <1>9, LeaveStep
<1> QED BY <1>1, <1>2, <1>3, <1>4, <1>5, <1>6, <1>7, <1>8, <1>9 DEF Next, CallReturns

\* The inductive invariant holds of every reachable state.
THEOREM BufferInvariant == Spec => []IInv
<1>1. Init => IInv
  BY DEF Init, IInv, ShapeInv, DrainInv, ReplyInv, NoLostWakeup, WaitTimeoutIsRunning,
    Fields, ReplyFields, Idle, NoReply
<1> QED BY <1>1, NextInv, PTL DEF Spec

\* No call sleeps while there is something for it to return.
THEOREM NoWakeupLost == Spec => []NoLostWakeup
BY BufferInvariant, PTL DEF IInv

\* No output follows a reported exit.
THEOREM ExitIsLast == Spec => []ExitReportedLast
<1>1. IInv => ExitReportedLast
  BY DEF IInv, ReplyInv, ExitReportedLast
<1> QED BY <1>1, BufferInvariant, PTL

\* A timeout that wait reports is of a process not known to have exited.
THEOREM WaitIsTruthful == Spec => []WaitTimeoutIsRunning
BY BufferInvariant, PTL DEF IInv

----------------------------------------------------------------------------
(* The buffer is the end of the history: an event holds the characters of   *)
(* the history that its cursors name; the cursors of all events are the     *)
(* last ones; appending adds the next, and trimming drops the first.        *)

----------------------------------------------------------------------------
(* Events and the history *)

\* Everything that is ever appended.
Characters == {Replacement} \union UNION {Range(text) : text \in Chunk}

\* What is read, and what replaces a character that never became complete.
LEMMA ChunkTypes ==
  /\ \A text \in Chunk : text \in Seq(Characters)
  /\ <<Replacement>> \in Seq(Characters)
<1>1. ASSUME NEW text \in Chunk PROVE text \in Seq(Characters)
  <2>1. text \in Seq(Range(text))
    BY TextAssumption
  <2>2. Range(text) \subseteq Characters
    BY DEF Characters
  <2> HIDE DEF Characters
  <2>3. /\ Len(text) \in Nat /\ DOMAIN text = 1 .. Len(text)
        /\ text \in [1 .. Len(text) -> Range(text)]
    BY <2>1, LenProperties
  <2>4. text \in [1 .. Len(text) -> Characters]
    BY <2>2, <2>3
  <2> QED BY <2>3, <2>4
<1>2. Replacement \in Characters
  BY DEF Characters
<1> QED BY <1>1, <1>2

\* An event holds characters of the history, w, where its cursors say.
Placed(e, w) ==
  /\ Len(e.text) > 0 /\ e.start > 0
  /\ e.cursor = e.start + Len(e.text) - 1 /\ e.cursor <= Len(w)
  /\ \A j \in 1 .. Len(e.text) :
       w[e.start + j - 1] = [stream |-> e.stream, char |-> e.text[j]]
AllPlaced(es, w) == \A k \in 1 .. Len(es) : Placed(es[k], w)

\* The end of an event says as truly where it is.
LEMMA TrailingPlaced ==
  ASSUME NEW T, NEW e \in Events(T), NEW w, Placed(e, w), NEW c \in 0 .. Len(e.text) - 1
  PROVE  Placed(Trailing(e, c), w)
<1> DEFINE r == Trailing(e, c)
           l == Len(e.text)
           a == e.start
           m == l - c
<1>1. /\ l \in Nat /\ a \in Nat /\ e.cursor \in Int /\ l > 0 /\ a > 0 /\ e.cursor = a + l - 1
      /\ e.cursor <= Len(w)
      /\ \A j \in 1 .. l : w[a + j - 1] = [stream |-> e.stream, char |-> e.text[j]]
  BY MarkTypes DEF Placed
<1>2. c \in 0 .. l /\ c \in Nat /\ c < l
  BY <1>1
<1>3. /\ r.start = a + c /\ r.cursor = e.cursor /\ r.stream = e.stream
      /\ Len(r.text) = m /\ \A j \in 1 .. m : r.text[j] = e.text[c + j]
  BY <1>2, TrailingIs
<1> HIDE DEF r, l, a
<1>4. m > 0 /\ m \in Nat /\ a + c > 0 /\ e.cursor = a + c + m - 1 /\ c \in Nat
  BY <1>1, <1>2
<1>5. ASSUME NEW j \in 1 .. m
      PROVE  w[r.start + j - 1] = [stream |-> r.stream, char |-> r.text[j]]
  <2>1. c + j \in 1 .. l /\ a + (c + j) - 1 = a + c + j - 1
    BY <1>1, <1>2, <1>4
  <2>2. w[a + (c + j) - 1] = [stream |-> e.stream, char |-> e.text[c + j]]
    BY <1>1, <2>1
  <2>3. w[r.start + j - 1] = w[a + (c + j) - 1]
    BY <1>3, <2>1
  <2>4. r.stream = e.stream /\ r.text[j] = e.text[c + j]
    BY <1>3
  <2> QED BY <2>2, <2>3, <2>4
<1>6. Len(r.text) > 0 /\ r.start > 0 /\ r.cursor = r.start + Len(r.text) - 1 /\ r.cursor <= Len(w)
  <2> HIDE DEF m
  <2> QED BY <1>1, <1>3, <1>4
<1> QED BY <1>3, <1>5, <1>6 DEF Placed, r

\* So do the events that trimming keeps.
LEMMA EndsPlaced ==
  ASSUME NEW T, NEW es \in Seq(Events(T)), NEW w, AllPlaced(es, w), NEW ds, EndsOf(ds, es)
  PROVE  AllPlaced(ds, w)
<1> SUFFICES ASSUME NEW k \in 1 .. Len(ds) PROVE Placed(ds[k], w)
  BY DEF AllPlaced
<1>1. PICK i \in 1 .. Len(es) : \E c \in 0 .. Len(es[i].text) - 1 : ds[k] = Trailing(es[i], c)
  BY DEF EndsOf
<1>2. PICK c \in 0 .. Len(es[i].text) - 1 : ds[k] = Trailing(es[i], c)
  BY <1>1
<1>3. es[i] \in Events(T) /\ Placed(es[i], w)
  BY EventMark DEF AllPlaced
<1>4. Placed(Trailing(es[i], c), w)
  BY <1>3, TrailingPlaced
<1> QED BY <1>2, <1>4

\* Dropping twice drops the sum.
LEMMA DropTwice ==
  ASSUME NEW T, NEW q \in Seq(T), NEW a \in 0 .. Len(q), NEW b \in 0 .. Len(q) - a
  PROVE  SubSeq(SubSeq(q, a + 1, Len(q)), b + 1, Len(q) - a) = SubSeq(q, a + b + 1, Len(q))
<1> DEFINE N == Len(q)
           m == N - a
           p == SubSeq(q, a + 1, N)
           r == SubSeq(p, b + 1, Len(p))
           z == SubSeq(q, a + b + 1, N)
<1>1. N \in Nat /\ a \in Nat /\ b \in Nat /\ m \in Nat /\ b \in 0 .. m /\ a + b \in 0 .. N
  BY LenProperties
<1>2. p \in Seq(T) /\ Len(p) = m /\ \A j \in 1 .. m : p[j] = q[a + j]
  BY Dropped
<1> HIDE DEF p
<1>3. /\ r \in Seq(T) /\ Len(r) = Len(p) - b /\ \A j \in 1 .. Len(p) - b : r[j] = p[b + j]
  <2>1. b \in 0 .. Len(p)
    BY <1>1, <1>2
  <2> QED BY <1>2, <2>1, Dropped
<1>4. /\ z \in Seq(T) /\ Len(z) = N - (a + b)
      /\ \A j \in 1 .. N - (a + b) : z[j] = q[(a + b) + j]
  BY <1>1, Dropped
<1> HIDE DEF r, z, N
<1>5. Len(p) - b = N - (a + b)
  BY <1>1, <1>2
<1>6. ASSUME NEW j \in 1 .. Len(r) PROVE r[j] = z[j]
  <2>1. j \in 1 .. Len(p) - b /\ j \in 1 .. N - (a + b) /\ b + j \in 1 .. m
        /\ a + (b + j) = (a + b) + j
    BY <1>1, <1>2, <1>3, <1>5
  <2>2. r[j] = p[b + j] /\ p[b + j] = q[a + (b + j)] /\ z[j] = q[(a + b) + j]
    BY <1>2, <1>3, <1>4, <2>1
  <2> QED BY <2>1, <2>2
<1>7. r = z
  BY <1>3, <1>4, <1>5, <1>6, SeqEqual
<1> QED BY <1>2, <1>7 DEF r, z, p, N

\* Trimming drops characters at the front, as many as the limits ask for.
LEMMA TrimIs ==
  ASSUME NEW T, NEW es \in Seq(Events(T)), Full(es), NEW count, count = Chars(es),
         Trim(es, count), truncated \in BOOLEAN
  PROVE  \E d \in 0 .. count :
           /\ events' \in Seq(Events(T)) /\ Full(events')
           /\ \A w : AllPlaced(es, w) => AllPlaced(events', w)
           /\ Cursors(events') = SubSeq(Cursors(es), d + 1, count)
           /\ buffered' = count - d /\ buffered' <= MaxChars
           /\ Len(events') <= MaxEvents
           /\ truncated' \in BOOLEAN /\ (truncated' <=> (truncated \/ d > 0))
           /\ d > 0 => buffered' = MaxChars \/ Len(events') = MaxEvents
           /\ d = 0 => Len(es) <= MaxEvents /\ count <= MaxChars
<1> DEFINE surplus == Max({0, Len(es) - MaxEvents})
           some == SubSeq(es, surplus + 1, Len(es))
           lost == Chars(SubSeq(es, 1, surplus))
           counted == count - lost
           overflow == Max({0, counted - MaxChars})
           N == Len(es)
<1>1. MaxChars \in Nat \ {0} /\ MaxEvents \in Nat \ {0}
  BY BufferAssumption
<1>2. N \in Nat /\ count \in Nat /\ Cursors(es) \in Seq(Nat) /\ Len(Cursors(es)) = count
  BY EventTypes, EventsLaid
<1>3. /\ events' = IF overflow > 0 THEN DropChars(some, overflow) ELSE some
      /\ buffered' = counted - overflow
      /\ truncated' = (truncated \/ surplus > 0 \/ overflow > 0)
  BY DEF Trim
<1>4. /\ surplus \in 0 .. N /\ (N <= MaxEvents => surplus = 0)
      /\ (N > MaxEvents => surplus = N - MaxEvents)
  <2>1. N - MaxEvents \in Int
    BY <1>1, <1>2
  <2>2. surplus = IF N - MaxEvents > 0 THEN N - MaxEvents ELSE 0
    BY <2>1, MaxZero
  <2> HIDE DEF surplus, N
  <2> QED BY <1>1, <1>2, <2>2
<1> HIDE DEF surplus
<1>5. /\ some \in Seq(Events(T)) /\ Len(some) = N - surplus
      /\ Full(some) /\ EndsOf(some, es) /\ lost \in 0 .. count /\ (surplus > 0 => lost > 0)
      /\ Cursors(some) = SubSeq(Cursors(es), lost + 1, count)
      /\ Chars(some) = counted
  BY <1>4, RestIs
<1> HIDE DEF some, lost
<1>6. counted \in Nat
  BY <1>2, <1>5
<1>7. /\ overflow \in 0 .. counted /\ (counted <= MaxChars => overflow = 0)
      /\ (counted > MaxChars => overflow = counted - MaxChars)
  <2>1. counted - MaxChars \in Int
    BY <1>1, <1>6
  <2>2. overflow = IF counted - MaxChars > 0 THEN counted - MaxChars ELSE 0
    BY <2>1, MaxZero
  <2> HIDE DEF overflow, counted
  <2> QED BY <1>1, <1>6, <2>2
<1> HIDE DEF overflow
<1>8. /\ events' \in Seq(Events(T)) /\ Len(events') <= Len(some) /\ Full(events')
      /\ Cursors(events') = SubSeq(Cursors(some), overflow + 1, counted)
      /\ \A w : AllPlaced(some, w) => AllPlaced(events', w)
      /\ overflow = 0 => events' = some
  <2>1. CASE overflow > 0
    <3>1. events' = DropChars(some, overflow)
      BY <1>3, <2>1
    <3>2. overflow \in 0 .. Chars(some)
      BY <1>5, <1>7
    <3> DEFINE ds == DropChars(some, overflow)
    <3>3. /\ ds \in Seq(Events(T)) /\ Len(ds) <= Len(some) /\ Full(ds) /\ EndsOf(ds, some)
          /\ Cursors(ds) = SubSeq(Cursors(some), overflow + 1, Chars(some))
      BY <1>5, <3>2, DropCharsIs
    <3> HIDE DEF ds
    <3>4. \A w : AllPlaced(some, w) => AllPlaced(ds, w)
      BY <1>5, <3>3, EndsPlaced
    <3>5. events' = ds
      BY <3>1 DEF ds
    <3>6. overflow # 0
      BY <1>7, <2>1
    <3> QED BY <1>5, <3>3, <3>4, <3>5, <3>6
  <2>2. CASE ~(overflow > 0)
    <3>1. events' = some /\ overflow = 0
      BY <1>3, <1>6, <1>7, <2>2
    <3>2. Len(some) <= Len(some)
      BY <1>2, <1>4, <1>5
    <3>3. Cursors(some) = SubSeq(Cursors(some), 0 + 1, counted)
      <4> DEFINE q == Cursors(some)
      <4>1. q \in Seq(Nat) /\ Len(q) = counted
        BY <1>5, EventsLaid
      <4> HIDE DEF q, counted
      <4>2. 0 \in 0 .. Len(q) /\ Len(q) \in Nat
        BY <1>6, <4>1
      <4>3. /\ SubSeq(q, 0 + 1, Len(q)) \in Seq(Nat) /\ Len(SubSeq(q, 0 + 1, Len(q))) = Len(q) - 0
            /\ \A j \in 1 .. Len(q) - 0 : SubSeq(q, 0 + 1, Len(q))[j] = q[0 + j]
        BY <4>1, <4>2, Dropped
      <4>4. Len(q) - 0 = Len(q) /\ \A j \in 1 .. Len(q) : 0 + j = j
        BY <4>2
      <4>5. Len(SubSeq(q, 0 + 1, Len(q))) = Len(q)
            /\ \A j \in 1 .. Len(q) : SubSeq(q, 0 + 1, Len(q))[j] = q[j]
        BY <4>3, <4>4
      <4>6. SubSeq(q, 0 + 1, Len(q)) = q
        BY <4>1, <4>3, <4>5, SeqEqual
      <4> QED BY <4>1, <4>6 DEF q
    <3> QED BY <1>5, <3>1, <3>2, <3>3
  <2> QED BY <2>1, <2>2
<1>9. \A w : AllPlaced(es, w) => AllPlaced(events', w)
  BY <1>5, <1>8, EndsPlaced
<1> DEFINE d == lost + overflow
<1>10. d \in 0 .. count /\ buffered' = count - d
  <2>1. /\ lost \in Nat /\ lost <= count /\ overflow \in Nat /\ overflow <= count - lost
        /\ buffered' = (count - lost) - overflow
    BY <1>2, <1>3, <1>5, <1>7
  <2> QED BY <1>2, <2>1
<1>11. Cursors(events') = SubSeq(Cursors(es), d + 1, count)
  <2>1. lost \in 0 .. Len(Cursors(es)) /\ overflow \in 0 .. Len(Cursors(es)) - lost
    BY <1>2, <1>5, <1>7
  <2>2. SubSeq(SubSeq(Cursors(es), lost + 1, Len(Cursors(es))), overflow + 1, Len(Cursors(es)) - lost)
        = SubSeq(Cursors(es), lost + overflow + 1, Len(Cursors(es)))
    BY <1>2, <2>1, DropTwice
  <2> QED BY <1>2, <1>5, <1>8, <2>2
<1>12. buffered' <= MaxChars /\ (overflow > 0 => buffered' = MaxChars)
  <2> HIDE DEF counted
  <2> QED BY <1>1, <1>3, <1>6, <1>7
<1>13. Len(events') <= MaxEvents /\ (overflow = 0 /\ surplus > 0 => Len(events') = MaxEvents)
  <2>1. Len(some) <= MaxEvents /\ (surplus > 0 => Len(some) = MaxEvents)
    <3> HIDE DEF N
    <3> QED BY <1>1, <1>2, <1>4, <1>5
  <2>2. Len(events') \in Nat /\ Len(some) \in Nat
    BY <1>5, <1>8, LenProperties
  <2> QED BY <1>1, <1>8, <2>1, <2>2
<1>14. d > 0 <=> (surplus > 0 \/ overflow > 0)
  <2>1. surplus = 0 => lost = 0
    <3> SUFFICES ASSUME surplus = 0 PROVE lost = 0
      OBVIOUS
    <3>1. Len(some) = N
      BY <1>2, <1>5
    <3>2. some = es
      <4>1. /\ SubSeq(es, 0 + 1, N) \in Seq(Events(T))
            /\ \A j \in 1 .. N - 0 : SubSeq(es, 0 + 1, N)[j] = es[0 + j]
        BY <1>2, Dropped
      <4>2. some = SubSeq(es, 0 + 1, N)
        BY DEF some
      <4>3. N - 0 = N /\ \A j \in 1 .. N : 0 + j = j
        BY <1>2
      <4>4. \A j \in 1 .. N : some[j] = es[j]
        BY <4>1, <4>2, <4>3
      <4> QED BY <1>5, <3>1, <4>4, SeqEqual
    <3> QED BY <1>2, <1>5, <3>2
  <2>2. surplus \in Nat /\ lost \in Nat /\ overflow \in Nat
    BY <1>2, <1>4, <1>5, <1>6, <1>7
  <2> QED BY <1>5, <2>1, <2>2
<1>15. /\ truncated' \in BOOLEAN /\ (truncated' <=> (truncated \/ d > 0))
  <2> HIDE DEF d
  <2> QED BY <1>3, <1>14
<1>16. d > 0 => buffered' = MaxChars \/ Len(events') = MaxEvents
  <2> HIDE DEF d
  <2>1. overflow \in Nat
    BY <1>6, <1>7
  <2> QED BY <1>12, <1>13, <1>14, <2>1
<1>17. d = 0 => Len(es) <= MaxEvents /\ count <= MaxChars
  <2> SUFFICES ASSUME d = 0 PROVE N <= MaxEvents /\ count <= MaxChars
    OBVIOUS
  <2>1. surplus = 0 /\ overflow = 0 /\ lost = 0
    BY <1>2, <1>4, <1>5, <1>6, <1>7, <1>14
  <2>2. counted = count
    BY <1>2, <2>1
  <2> HIDE DEF N, counted
  <2> QED BY <1>1, <1>2, <1>4, <1>7, <2>1, <2>2
<1> HIDE DEF d
<1> QED BY <1>8, <1>9, <1>10, <1>11, <1>12, <1>13, <1>15, <1>16, <1>17

----------------------------------------------------------------------------
(* The step that appends *)

\* The events are the end of the history, cut into pieces that say where they are.
BufferInv ==
  /\ written \in Seq([stream : Streams, char : Characters]) /\ cursor = Len(written)
  /\ events \in Seq(Events(Characters)) /\ Full(events) /\ AllPlaced(events, written)
  /\ buffered \in 0 .. MaxChars /\ buffered <= cursor
  /\ Cursors(events) = [k \in 1 .. buffered |-> cursor - buffered + k]
  /\ truncated \in BOOLEAN /\ NothingDroppedNeedlessly

\* The numbers of the buffer.
LEMMA BufferChars ==
  ASSUME BufferInv
  PROVE  /\ Chars(events) = buffered /\ buffered \in Nat /\ cursor \in Nat
         /\ Len(events) \in Nat /\ MaxChars \in Nat \ {0} /\ MaxEvents \in Nat \ {0}
<1>1. MaxChars \in Nat \ {0} /\ MaxEvents \in Nat \ {0}
  BY BufferAssumption
<1>2. buffered \in Nat /\ cursor \in Nat /\ Len(events) \in Nat
  BY <1>1, LenProperties DEF BufferInv
<1>3. Len(Cursors(events)) = Chars(events)
  BY EventsLaid DEF BufferInv
<1>4. Len([k \in 1 .. buffered |-> cursor - buffered + k]) = buffered
  BY <1>2
<1> QED BY <1>1, <1>2, <1>3, <1>4 DEF BufferInv

\* What is written stays where it is when more is appended.
LEMMA PlacedGrows ==
  ASSUME NEW U, NEW w \in Seq(U), NEW more \in Seq(U), NEW T, NEW e \in Events(T), Placed(e, w)
  PROVE  Placed(e, w \o more)
<1> DEFINE l == Len(e.text)
           a == e.start
           all == w \o more
<1>1. /\ l \in Nat /\ a \in Nat /\ e.cursor \in Int /\ l > 0 /\ a > 0 /\ e.cursor = a + l - 1
      /\ e.cursor <= Len(w)
      /\ \A j \in 1 .. l : w[a + j - 1] = [stream |-> e.stream, char |-> e.text[j]]
  BY MarkTypes DEF Placed
<1>2. /\ Len(all) = Len(w) + Len(more) /\ Len(w) \in Nat /\ Len(more) \in Nat
      /\ \A i \in 1 .. Len(w) : all[i] = w[i]
  BY ConcatProperties, LenProperties
<1> HIDE DEF l, a, all
<1>3. ASSUME NEW j \in 1 .. l
      PROVE  all[a + j - 1] = [stream |-> e.stream, char |-> e.text[j]]
  <2>1. a + j - 1 \in 1 .. Len(w)
    BY <1>1, <1>2
  <2> QED BY <1>1, <1>2, <2>1
<1>4. e.cursor <= Len(all)
  BY <1>1, <1>2
<1> QED BY <1>1, <1>3, <1>4 DEF Placed, l, a, all

\* What is appended to the history.
Piece(s, text) == [k \in DOMAIN text |-> [stream |-> s, char |-> text[k]]]

\* The new event, placed at the end of the longer history.
LEMMA NewEvent ==
  ASSUME BufferInv, NEW s \in Streams, NEW text \in Seq(Characters), text # << >>
  PROVE  LET more == Piece(s, text)
             e == Event(cursor + 1, s, text)
         IN
         /\ e \in Events(Characters) /\ Placed(e, written \o more) /\ e.text = text
         /\ more \in Seq([stream : Streams, char : Characters])
         /\ Len(text) \in Nat /\ Len(text) > 0
         /\ Len(written \o more) = cursor + Len(text)
         /\ written \o more \in Seq([stream : Streams, char : Characters])
         /\ Len(Mark(e)) = Len(text) /\ \A j \in 1 .. Len(text) : Mark(e)[j] = cursor + j
<1> DEFINE U == [stream : Streams, char : Characters]
           l == Len(text)
           more == Piece(s, text)
           e == Event(cursor + 1, s, text)
           all == written \o more
<1>1. l \in Nat /\ DOMAIN text = 1 .. l /\ \A k \in 1 .. l : text[k] \in Characters
  BY LenProperties, ElementOfSeq
<1>2. l > 0
  BY <1>1, EmptySeq
<1>3. cursor \in Nat /\ written \in Seq(U) /\ Len(written) = cursor
  BY BufferChars DEF BufferInv
<1>4. /\ e.start = cursor + 1 /\ e.cursor = cursor + 1 + l - 1
      /\ e.stream = s /\ e.text = text
  BY DEF Event
<1>5. e \in Events(Characters)
  <2>1. cursor + 1 \in Nat /\ cursor + 1 + l - 1 \in Int
    BY <1>1, <1>3
  <2> HIDE DEF l
  <2>2. e = [start |-> cursor + 1, cursor |-> cursor + 1 + l - 1, stream |-> s, text |-> text]
    BY DEF Event, l
  <2> HIDE DEF e
  <2> QED BY <2>1, <2>2 DEF Events
<1>6. more \in Seq(U) /\ Len(more) = l
      /\ \A k \in 1 .. l : more[k] = [stream |-> s, char |-> text[k]]
  <2>1. more \in [1 .. l -> U] /\ \A k \in 1 .. l : more[k] = [stream |-> s, char |-> text[k]]
    BY <1>1 DEF Piece
  <2> HIDE DEF l, U, more
  <2> QED BY <1>1, <2>1
<1> HIDE DEF U, l, more, e
<1>7. /\ all \in Seq(U) /\ Len(all) = cursor + l
      /\ \A i \in 1 .. cursor + l : all[i] = IF i <= cursor THEN written[i] ELSE more[i - cursor]
  BY <1>3, <1>6, ConcatProperties
<1> HIDE DEF all
<1>8. ASSUME NEW j \in 1 .. l
      PROVE  all[e.start + j - 1] = [stream |-> e.stream, char |-> e.text[j]]
  <2>1. e.start + j - 1 = cursor + j /\ cursor + j \in 1 .. cursor + l
        /\ ~(cursor + j <= cursor) /\ (cursor + j) - cursor = j
    BY <1>1, <1>3, <1>4
  <2>2. all[cursor + j] = more[j]
    BY <1>7, <2>1
  <2> QED BY <1>4, <1>6, <2>1, <2>2
<1>9. Placed(e, all)
  <2>1. Len(e.text) = l
    BY <1>4 DEF l
  <2>2. e.start > 0 /\ e.cursor = e.start + l - 1 /\ e.cursor <= Len(all)
    BY <1>1, <1>3, <1>4, <1>7
  <2> QED BY <1>2, <1>8, <2>1, <2>2 DEF Placed
<1>10. Len(Mark(e)) = l /\ \A j \in 1 .. l : Mark(e)[j] = cursor + j
  <2>1. Len(e.text) = l
    BY <1>4 DEF l
  <2>2. Len(Mark(e)) = l /\ \A j \in 1 .. l : Mark(e)[j] = e.start + j - 1
    BY <1>5, <2>1, MarkTypes
  <2>3. \A j \in 1 .. l : e.start + j - 1 = cursor + j
    BY <1>1, <1>3, <1>4
  <2> QED BY <2>2, <2>3
<1> QED BY <1>1, <1>2, <1>4, <1>5, <1>6, <1>7, <1>9, <1>10 DEF U, l, all, more, e

\* The last n of the cursors up to a.
LastCursors(n, a) == [k \in 1 .. n |-> a - n + k]

Joined(q, m) == q \o m

\* m is the l cursors after a.
Following(m, l, a) == m \in Seq(Nat) /\ Len(m) = l /\ \A j \in 1 .. l : m[j] = a + j

\* The cursors after an append.
LEMMA CursorsGrow ==
  ASSUME NEW n \in Nat, NEW a \in Nat, n <= a, NEW l \in Nat, NEW m, Following(m, l, a)
  PROVE  Joined(LastCursors(n, a), m) = LastCursors(n + l, a + l)
<1> DEFINE q == LastCursors(n, a)
           r == LastCursors(n + l, a + l)
<1>0. m \in Seq(Nat) /\ Len(m) = l /\ \A j \in 1 .. l : m[j] = a + j
  BY DEF Following
<1>1. q \in [1 .. n -> Nat] /\ \A k \in 1 .. n : q[k] = a - n + k
  BY DEF LastCursors
<1>2. r \in [1 .. n + l -> Nat] /\ \A k \in 1 .. n + l : r[k] = a + l - (n + l) + k
  BY DEF LastCursors
<1> HIDE DEF q, r
<1>3. q \in Seq(Nat) /\ Len(q) = n /\ r \in Seq(Nat) /\ Len(r) = n + l
  <2>1. q \in Seq(Nat) /\ Len(q) = n
    BY <1>1
  <2> DEFINE size == n + l
  <2>2. size \in Nat /\ r \in [1 .. size -> Nat]
    BY <1>2
  <2> HIDE DEF size
  <2>3. r \in Seq(Nat) /\ Len(r) = size
    BY <2>2
  <2> QED BY <2>1, <2>3 DEF size
<1> DEFINE all == q \o m
<1>4. all \in Seq(Nat) /\ Len(all) = n + l
      /\ \A i \in 1 .. n + l : all[i] = IF i <= n THEN q[i] ELSE m[i - n]
  BY <1>0, <1>3, ConcatProperties
<1> HIDE DEF all
<1>5. ASSUME NEW i \in 1 .. n + l PROVE all[i] = r[i]
  <2>1. r[i] = a - n + i
    <3>1. a + l - (n + l) + i = a - n + i
      OBVIOUS
    <3> QED BY <1>2, <3>1
  <2>2. CASE i <= n
    <3>1. i \in 1 .. n
      BY <2>2
    <3> QED BY <1>1, <1>4, <2>1, <2>2, <3>1
  <2>3. CASE ~(i <= n)
    <3>1. i - n \in 1 .. l /\ a + (i - n) = a - n + i
      BY <2>3
    <3>2. all[i] = m[i - n]
      BY <1>4, <2>3
    <3> QED BY <1>0, <2>1, <3>1, <3>2
  <2> QED BY <2>2, <2>3
<1>6. all = r
  BY <1>3, <1>4, <1>5, SeqEqual
<1> QED BY <1>6 DEF all, q, r, Joined

\* The cursors after a trim.
LEMMA CursorsDrop ==
  ASSUME NEW n \in Nat, NEW a \in Nat, n <= a, NEW d \in 0 .. n
  PROVE  SubSeq(LastCursors(n, a), d + 1, n) = LastCursors(n - d, a)
<1> DEFINE q == LastCursors(n, a)
           r == LastCursors(n - d, a)
<1>1. q \in [1 .. n -> Nat] /\ \A k \in 1 .. n : q[k] = a - n + k
  BY DEF LastCursors
<1>2. r \in [1 .. n - d -> Nat] /\ \A k \in 1 .. n - d : r[k] = a - (n - d) + k
  BY DEF LastCursors
<1> HIDE DEF q, r
<1>3. q \in Seq(Nat) /\ Len(q) = n /\ r \in Seq(Nat) /\ Len(r) = n - d
  <2>1. q \in Seq(Nat) /\ Len(q) = n
    BY <1>1
  <2> DEFINE size == n - d
  <2>2. size \in Nat /\ r \in [1 .. size -> Nat]
    BY <1>2
  <2> HIDE DEF size
  <2>3. r \in Seq(Nat) /\ Len(r) = size
    BY <2>2
  <2> QED BY <2>1, <2>3 DEF size
<1> DEFINE p == SubSeq(q, d + 1, n)
<1>4. p \in Seq(Nat) /\ Len(p) = n - d /\ \A j \in 1 .. n - d : p[j] = q[d + j]
  BY <1>3, Dropped
<1> HIDE DEF p
<1>5. ASSUME NEW j \in 1 .. n - d PROVE p[j] = r[j]
  <2>1. d + j \in 1 .. n /\ a - n + (d + j) = a - (n - d) + j
    OBVIOUS
  <2> QED BY <1>1, <1>2, <1>4, <2>1
<1>6. p = r
  BY <1>3, <1>4, <1>5, SeqEqual
<1> QED BY <1>6 DEF p, q, r

\* Appending what was read, with all the trimming it causes.
LEMMA AppendStep ==
  ASSUME BufferInv, NEW s \in Streams, NEW text \in Seq(Characters), AppendOutput(s, text)
  PROVE  BufferInv'
<1>1. CASE text = << >>
  BY <1>1 DEF AppendOutput, output, BufferInv, NothingDroppedNeedlessly
<1>2. CASE text # << >>
  <2> DEFINE l == Len(text)
             more == Piece(s, text)
             e == Event(cursor + 1, s, text)
             es == Append(events, e)
             U == [stream : Streams, char : Characters]
             all == written \o more
             N == Len(es)
             count == buffered + l
  <2>1. written' = all /\ cursor' = cursor + l /\ Trim(es, count)
    BY <1>2 DEF AppendOutput, Piece
  <2>2. /\ e \in Events(Characters) /\ Placed(e, all) /\ e.text = text
        /\ more \in Seq(U) /\ all \in Seq(U)
        /\ l \in Nat /\ l > 0 /\ Len(all) = cursor + l
        /\ Len(Mark(e)) = l /\ \A j \in 1 .. l : Mark(e)[j] = cursor + j
    BY <1>2, NewEvent
  <2>3. /\ Chars(events) = buffered /\ buffered \in Nat /\ cursor \in Nat
        /\ Len(events) \in Nat /\ MaxChars \in Nat \ {0} /\ MaxEvents \in Nat \ {0}
    BY BufferChars
  <2>4. /\ written \in Seq(U) /\ cursor = Len(written) /\ buffered <= cursor
        /\ events \in Seq(Events(Characters)) /\ Full(events) /\ AllPlaced(events, written)
        /\ Cursors(events) = LastCursors(buffered, cursor)
        /\ truncated \in BOOLEAN /\ Len(events) <= MaxEvents /\ (truncated <=> buffered < cursor)
        /\ (truncated => buffered = MaxChars \/ Len(events) = MaxEvents)
        /\ buffered <= MaxChars
    BY <2>3 DEF BufferInv, NothingDroppedNeedlessly, LastCursors
  <2> HIDE DEF l, more, e, U
  <2>5. /\ es \in Seq(Events(Characters)) /\ N = Len(events) + 1
        /\ \A k \in 1 .. Len(events) : es[k] = events[k]
        /\ es[Len(events) + 1] = e
        /\ Cursors(es) = LastCursors(buffered, cursor) \o Mark(e)
        /\ Chars(es) = count
    <3>1. Len(e.text) = l
      BY <2>2 DEF l
    <3>2. e \in Events(Characters) /\ events \in Seq(Events(Characters))
      BY <2>2, <2>4
    <3>3. /\ es \in Seq(Events(Characters)) /\ N = Len(events) + 1
          /\ \A k \in 1 .. Len(events) : es[k] = events[k]
          /\ es[Len(events) + 1] = e
          /\ Cursors(es) = Cursors(events) \o Mark(e)
          /\ Chars(es) = Chars(events) + l
      BY <3>1, <3>2, EventsAppend
    <3> QED BY <2>3, <2>4, <3>3
  <2> HIDE DEF es, all
  <2>6. Full(es) /\ AllPlaced(es, all)
    <3> SUFFICES ASSUME NEW k \in 1 .. N PROVE Placed(es[k], all)
      BY DEF Full, AllPlaced, Placed
    <3>1. CASE k = Len(events) + 1
      BY <2>2, <2>5, <3>1
    <3>2. CASE k \in 1 .. Len(events)
      <4>1. es[k] = events[k] /\ Placed(events[k], written)
        BY <2>4, <2>5, <3>2 DEF AllPlaced
      <4>2. events[k] \in Events(Characters)
        BY <2>4, <3>2, EventMark
      <4>3. Placed(events[k], written \o more)
        BY <2>2, <2>4, <4>1, <4>2, PlacedGrows
      <4> QED BY <4>1, <4>3 DEF all
    <3>3. k = Len(events) + 1 \/ k \in 1 .. Len(events)
      <4> HIDE DEF N
      <4> QED BY <2>3, <2>5
    <3> QED BY <3>1, <3>2, <3>3
  <2>7. Cursors(es) = LastCursors(count, cursor + l)
    <3>1. Mark(e) \in Seq(Nat)
      BY <2>2, MarkTypes
    <3>2. Following(Mark(e), l, cursor)
      BY <2>2, <3>1 DEF Following
    <3>3. buffered \in Nat /\ cursor \in Nat /\ buffered <= cursor /\ l \in Nat
      BY <2>2, <2>3, <2>4
    <3>4. Joined(LastCursors(buffered, cursor), Mark(e)) = LastCursors(buffered + l, cursor + l)
      BY <3>2, <3>3, CursorsGrow
    <3> QED BY <2>5, <3>4 DEF Joined
  <2>8. PICK d \in 0 .. count :
           /\ events' \in Seq(Events(Characters)) /\ Full(events')
           /\ \A w : AllPlaced(es, w) => AllPlaced(events', w)
           /\ Cursors(events') = SubSeq(Cursors(es), d + 1, count)
           /\ buffered' = count - d /\ buffered' <= MaxChars
           /\ Len(events') <= MaxEvents
           /\ truncated' \in BOOLEAN /\ (truncated' <=> (truncated \/ d > 0))
           /\ d > 0 => buffered' = MaxChars \/ Len(events') = MaxEvents
           /\ d = 0 => Len(es) <= MaxEvents /\ count <= MaxChars
    <3> HIDE DEF count
    <3> QED BY <2>1, <2>4, <2>5, <2>6, TrimIs
  <2>9. count \in Nat /\ count <= cursor' /\ cursor' \in Nat /\ buffered' \in Nat /\ d \in Nat
    BY <2>1, <2>2, <2>3, <2>4, <2>8
  <2>10. buffered' \in 0 .. MaxChars /\ buffered' <= cursor'
    BY <2>3, <2>8, <2>9
  <2>11. Cursors(events') = LastCursors(buffered', cursor')
    <3> HIDE DEF count
    <3>1. SubSeq(LastCursors(count, cursor'), d + 1, count) = LastCursors(count - d, cursor')
      BY <2>9, CursorsDrop
    <3> QED BY <2>1, <2>7, <2>8, <3>1
  <2>12. AllPlaced(events', written')
    BY <2>1, <2>6, <2>8
  <2>13. truncated' <=> buffered' < cursor'
    BY <2>1, <2>2, <2>3, <2>4, <2>8, <2>9
  <2>14. truncated' => buffered' = MaxChars \/ Len(events') = MaxEvents
    <3> SUFFICES ASSUME truncated', d = 0 PROVE FALSE
      BY <2>8, <2>9
    <3>1. truncated
      BY <2>8
    <3>2. N <= MaxEvents /\ count <= MaxChars
      BY <2>8
    <3> HIDE DEF N
    <3> QED BY <2>2, <2>3, <2>4, <2>5, <3>1, <3>2
  <2>15. NothingDroppedNeedlessly'
    BY <2>8, <2>13, <2>14 DEF NothingDroppedNeedlessly
  <2> QED BY <2>1, <2>2, <2>8, <2>10, <2>11, <2>12, <2>15 DEF BufferInv, LastCursors, U
<1> QED BY <1>1, <1>2

\* The buffer of a process that has written nothing.
LEMMA BufferStart == Init => BufferInv
<1> SUFFICES ASSUME Init PROVE BufferInv
  OBVIOUS
<1>1. written = << >> /\ events = << >> /\ buffered = 0 /\ cursor = 0 /\ truncated = FALSE
  BY DEF Init
<1>2. MaxChars \in Nat \ {0} /\ MaxEvents \in Nat \ {0}
  BY BufferAssumption
<1>3. events \in Seq(Events(Characters)) /\ Len(events) = 0
      /\ written \in Seq([stream : Streams, char : Characters]) /\ Len(written) = 0
  BY <1>1
<1>4. Full(events) /\ AllPlaced(events, written)
  BY <1>3 DEF Full, AllPlaced
<1>5. Cursors(events) = << >>
  <2>1. Marks(events) \in Seq(Seq(Nat)) /\ Len(Marks(events)) = 0
    BY <1>3, EventTypes
  <2>2. Cursors(events) \in Seq(Nat) /\ Laid(Marks(events), Cursors(events), Bounds(events))
    BY <1>3, EventsLaid
  <2>3. Len(Cursors(events)) = 0
    BY <2>1, <2>2 DEF Laid
  <2> QED BY <2>2, <2>3, EmptySeq
<1>6. [k \in 1 .. buffered |-> cursor - buffered + k] = << >>
  BY <1>1
<1>7. NothingDroppedNeedlessly
  BY <1>1, <1>2 DEF NothingDroppedNeedlessly
<1>8. /\ cursor = Len(written) /\ buffered \in 0 .. MaxChars /\ buffered <= cursor
      /\ truncated \in BOOLEAN
  <2>1. cursor = Len(written) /\ truncated \in BOOLEAN
    BY <1>1, <1>3
  <2>2. buffered = 0 /\ cursor = 0
    BY <1>1
  <2> QED BY <1>2, <2>1, <2>2
<1>9. Cursors(events) = [k \in 1 .. buffered |-> cursor - buffered + k]
  BY <1>5, <1>6
<1> QED BY <1>3, <1>4, <1>7, <1>8, <1>9 DEF BufferInv

\* Only the drains change the buffer.
LEMMA BufferStep == BufferInv /\ [Next]_vars => BufferInv'
<1> SUFFICES ASSUME BufferInv, [Next]_vars PROVE BufferInv'
  OBVIOUS
<1>1. ASSUME UNCHANGED output PROVE BufferInv'
  BY <1>1 DEF output, BufferInv, NothingDroppedNeedlessly
<1>2. ASSUME NEW s \in Streams, DrainReads(s) PROVE BufferInv'
  <2>1. PICK text \in Chunk : AppendOutput(s, text)
    BY <1>2 DEF DrainReads
  <2>2. text \in Seq(Characters)
    BY ChunkTypes
  <2> QED BY <2>1, <2>2, AppendStep
<1>3. ASSUME NEW s \in Streams, DrainEnds(s) PROVE BufferInv'
  <2> DEFINE text == IF partial[s] THEN <<Replacement>> ELSE << >>
  <2>1. AppendOutput(s, text)
    BY <1>3 DEF DrainEnds
  <2>2. text \in Seq(Characters)
    BY ChunkTypes
  <2> HIDE DEF text
  <2> QED BY <2>1, <2>2, AppendStep
<1>4. CASE Reap \/ MarkExited \/ UNCHANGED vars
  BY <1>1, <1>4 DEF Reap, MarkExited, vars, output
<1>5. ASSUME NEW c \in Caller, Expect(c) \/ Wait(c) \/ CallReturns(c) \/ Expire(c) \/ Cancel(c)
      PROVE  BufferInv'
  BY <1>1, <1>5 DEF Expect, Wait, CallReturns, Resume, TimeOut, Expire, Cancel, output
<1> QED BY <1>2, <1>3, <1>4, <1>5 DEF Next

----------------------------------------------------------------------------
(* Types and theorems *)

\* The flags of the tasks, and the calls and replies.
TaskTypes ==
  /\ {reaped, exited} \subseteq BOOLEAN
  /\ {partial, drained} \subseteq [Streams -> BOOLEAN]
CallTyped(r) ==
  /\ r.state \in {"idle", "waiting", "notified", "expired"}
  /\ (r.op = "none") <=> (r.state = "idle")
ReplyTyped(r) == r.reason \in {"none", "matched", "process_exited", "timeout"}
CallTypes == \A c \in Caller : CallTyped(call[c]) /\ ReplyTyped(reply[c])

\* A caller without a call.
LEMMA IdleTyped == CallTyped(Idle) /\ ReplyTyped(NoReply)
BY DEF CallTyped, ReplyTyped, Idle, NoReply

\* The flags stay flags.
LEMMA TaskTypesStep ==
  ASSUME TaskTypes, [Next]_vars
  PROVE  TaskTypes'
<1> USE DEF TaskTypes
<1>1. ASSUME NEW s \in Streams, DrainReads(s) PROVE TaskTypes'
  BY <1>1 DEF DrainReads
<1>2. ASSUME NEW s \in Streams, DrainEnds(s) PROVE TaskTypes'
  BY <1>2 DEF DrainEnds
<1>3. CASE Reap \/ MarkExited
  BY <1>3 DEF Reap, MarkExited
<1>4. ASSUME NEW c \in Caller, Expect(c) \/ Wait(c) \/ CallReturns(c) \/ Expire(c) \/ Cancel(c)
      PROVE  TaskTypes'
  BY <1>4 DEF Expect, Wait, CallReturns, Resume, TimeOut, Expire, Cancel
<1>5. CASE UNCHANGED vars
  BY <1>5 DEF vars
<1> QED BY <1>1, <1>2, <1>3, <1>4, <1>5 DEF Next

\* A call that is answered.
LEMMA AnswerTypes ==
  ASSUME IInv, CallTypes, NEW c \in Caller, NEW asked, NEW reason, NEW at,
         Answer(c, asked, reason, at), reason \in {"matched", "process_exited", "timeout"}
  PROVE  CallTypes'
<1> SUFFICES ASSUME NEW e \in Caller PROVE CallTyped(call'[e]) /\ ReplyTyped(reply'[e])
  BY DEF CallTypes
<1>1. call' = [call EXCEPT ![c] = Idle]
      /\ reply' = [reply EXCEPT ![c] =
           [call |-> asked, reason |-> reason, cursor |-> at, exited |-> exited]]
  BY DEF Answer
<1>2. CASE e = c
  <2>1. call'[e] = Idle
        /\ reply'[e] = [call |-> asked, reason |-> reason, cursor |-> at, exited |-> exited]
    BY <1>1, <1>2 DEF IInv, ShapeInv
  <2> QED BY <2>1, IdleTyped DEF ReplyTyped
<1>3. CASE e # c
  <2>1. call'[e] = call[e] /\ reply'[e] = reply[e]
    BY <1>1, <1>3 DEF IInv, ShapeInv
  <2> QED BY <2>1 DEF CallTypes
<1> QED BY <1>2, <1>3

\* A call that goes to sleep.
LEMMA SleepTypes ==
  ASSUME IInv, CallTypes, NEW c \in Caller, NEW asked, asked = Fields(asked), asked.op # "none",
         Sleep(c, asked)
  PROVE  CallTypes'
<1> SUFFICES ASSUME NEW e \in Caller PROVE CallTyped(call'[e]) /\ ReplyTyped(reply'[e])
  BY DEF CallTypes
<1>1. call' = [call EXCEPT ![c] = [asked EXCEPT !.state = "waiting"]]
      /\ reply' = [reply EXCEPT ![c] = NoReply]
  BY DEF Sleep
<1>2. CASE e = c
  <2> DEFINE r == [asked EXCEPT !.state = "waiting"]
  <2>1. call'[e] = r /\ reply'[e] = NoReply
    BY <1>1, <1>2 DEF IInv, ShapeInv
  <2>2. r.state = "waiting" /\ r.op = asked.op
    BY DEF Fields
  <2> QED BY <2>1, <2>2, IdleTyped DEF CallTyped
<1>3. CASE e # c
  <2>1. call'[e] = call[e] /\ reply'[e] = reply[e]
    BY <1>1, <1>3 DEF IInv, ShapeInv
  <2> QED BY <2>1 DEF CallTypes
<1> QED BY <1>2, <1>3

\* A call that looks is answered or goes to sleep.
LEMMA LookTypes ==
  ASSUME IInv, CallTypes, NEW c \in Caller, NEW asked, asked = Fields(asked), asked.op # "none",
         ExpectLooks(c, asked) \/ WaitLooks(c, asked)
  PROVE  CallTypes'
<1>1. \/ \E at : Answer(c, asked, "matched", at)
      \/ \E at : Answer(c, asked, "process_exited", at)
      \/ Sleep(c, asked)
  BY DEF ExpectLooks, WaitLooks
<1> QED BY <1>1, AnswerTypes, SleepTypes

\* One caller's call changes, to another of its type.
LEMMA OneCallTypes ==
  ASSUME IInv, CallTypes, NEW c \in Caller, NEW r, CallTyped(r), call' = [call EXCEPT ![c] = r],
         reply' = reply
  PROVE  CallTypes'
<1> SUFFICES ASSUME NEW e \in Caller PROVE CallTyped(call'[e])
  BY DEF CallTypes
<1>1. call'[e] = IF e = c THEN r ELSE call[e]
  BY DEF IInv, ShapeInv
<1> QED BY <1>1 DEF CallTypes

\* Calls that are woken.
LEMMA NotifyTypes ==
  ASSUME IInv, CallTypes, NotifyAll \/ UNCHANGED call, reply' = reply
  PROVE  CallTypes'
<1> SUFFICES ASSUME NEW e \in Caller PROVE CallTyped(call'[e])
  BY DEF CallTypes
<1>1. CASE call'[e] = call[e]
  BY <1>1 DEF CallTypes
<1>2. CASE call[e].state = "waiting" /\ NotifyAll
  <2>1. call[e] = Fields(call[e]) /\ CallTyped(call[e])
    BY DEF IInv, ShapeInv, CallTypes
  <2> DEFINE r == [call[e] EXCEPT !.state = "notified"]
  <2>2. call'[e] = r
    BY <1>2 DEF NotifyAll
  <2>3. r.state = "notified" /\ r.op = call[e].op
    BY <2>1 DEF Fields
  <2> QED BY <1>2, <2>1, <2>2, <2>3 DEF CallTyped
<1> QED BY <1>1, <1>2 DEF NotifyAll

\* Every step keeps the types of the calls and replies.
LEMMA CallTypesStep ==
  ASSUME IInv, CallTypes, [Next]_vars
  PROVE  CallTypes'
<1>1. ASSUME NEW s \in Streams, DrainReads(s) \/ DrainEnds(s) PROVE CallTypes'
  <2>1. UNCHANGED reply /\ (NotifyAll \/ UNCHANGED call)
    BY <1>1, Appended DEF DrainReads, DrainEnds
  <2> QED BY <2>1, NotifyTypes
<1>2. CASE Reap \/ MarkExited \/ UNCHANGED vars
  BY <1>2, NotifyTypes DEF Reap, MarkExited, vars
<1>3. ASSUME NEW c \in Caller, Expect(c) PROVE CallTypes'
  <2>1. PICK pattern \in Pattern, stream \in Asked, minimum \in 0 .. cursor + 1 :
          ExpectLooks(c, [op |-> "expect", state |-> "idle", pattern |-> pattern,
                          stream |-> stream, minimum |-> minimum])
    BY <1>3 DEF Expect
  <2> DEFINE asked == [op |-> "expect", state |-> "idle", pattern |-> pattern,
                       stream |-> stream, minimum |-> minimum]
  <2>2. asked = Fields(asked) /\ asked.op # "none" /\ ExpectLooks(c, asked)
    BY <2>1 DEF Fields
  <2> HIDE DEF asked
  <2> QED BY <2>2, LookTypes
<1>4. ASSUME NEW c \in Caller, Wait(c) PROVE CallTypes'
  <2> DEFINE asked == [Idle EXCEPT !.op = "wait"]
  <2>1. asked = Fields(asked) /\ asked.op # "none" /\ WaitLooks(c, asked)
    BY <1>4 DEF Idle, Fields, Wait
  <2> HIDE DEF asked
  <2> QED BY <2>1, LookTypes
<1>5. ASSUME NEW c \in Caller, Resume(c) PROVE CallTypes'
  <2> DEFINE asked == call[c]
  <2>1. asked = Fields(asked) /\ asked.op # "none"
        /\ (ExpectLooks(c, asked) \/ WaitLooks(c, asked))
    BY <1>5 DEF Resume, IInv, ShapeInv, CallTypes, CallTyped
  <2> HIDE DEF asked
  <2> QED BY <2>1, LookTypes
<1>6. ASSUME NEW c \in Caller, TimeOut(c) PROVE CallTypes'
  <2>1. \/ Answer(c, call[c], "process_exited", cursor)
        \/ Answer(c, call[c], "timeout", cursor)
    BY <1>6 DEF TimeOut
  <2> QED BY <2>1, AnswerTypes
<1>7. ASSUME NEW c \in Caller, Expire(c) PROVE CallTypes'
  <2> DEFINE r == [call[c] EXCEPT !.state = "expired"]
  <2>1. call' = [call EXCEPT ![c] = r] /\ reply' = reply
    BY <1>7 DEF Expire
  <2>2. call[c] = Fields(call[c]) /\ CallTyped(call[c])
        /\ call[c].state \in {"waiting", "notified"}
    BY <1>7 DEF IInv, ShapeInv, CallTypes, Expire
  <2>3. r.state = "expired" /\ r.op = call[c].op
    BY <2>2 DEF Fields
  <2>4. CallTyped(r)
    BY <2>2, <2>3 DEF CallTyped
  <2> HIDE DEF r
  <2> QED BY <2>1, <2>4, OneCallTypes
<1>8. ASSUME NEW c \in Caller, Cancel(c) PROVE CallTypes'
  BY <1>8, IdleTyped, OneCallTypes DEF Cancel
<1> QED BY <1>1, <1>2, <1>3, <1>4, <1>5, <1>6, <1>7, <1>8 DEF Next, CallReturns

\* Every event of the buffer holds the characters its cursors say, so all is Honest.
LEMMA BufferMeans ==
  ASSUME BufferInv
  PROVE  RetainedIsSuffix /\ NothingDroppedNeedlessly /\ Honest(events)
         /\ cursor \in Nat /\ buffered \in 0 .. MaxChars /\ truncated \in BOOLEAN
         /\ \A k \in DOMAIN events : events[k].stream \in Streams
<1>1. DOMAIN events = 1 .. Len(events) /\ events \in Seq(Events(Characters))
  BY EventTypes DEF BufferInv
<1>2. ASSUME NEW k \in 1 .. Len(events)
      PROVE  /\ events[k].text # << >>
             /\ events[k].cursor = events[k].start + Len(events[k].text) - 1
             /\ \A j \in DOMAIN events[k].text :
                  written[events[k].start + j - 1]
                    = [stream |-> events[k].stream, char |-> events[k].text[j]]
             /\ events[k].stream \in Streams
  <2> DEFINE e == events[k]
  <2>1. e \in Events(Characters) /\ Placed(e, written)
    BY <1>1, EventMark DEF BufferInv, AllPlaced
  <2> HIDE DEF e
  <2>2. e.text \in Seq(Characters) /\ Len(e.text) > 0 /\ e.stream \in Streams
    BY <2>1, MarkTypes DEF Placed
  <2>3. DOMAIN e.text = 1 .. Len(e.text)
    BY <2>2, LenProperties
  <2>4. e.text # << >>
    BY <2>2
  <2> QED BY <2>1, <2>2, <2>3, <2>4 DEF Placed, e
<1>3. Honest(events)
  BY <1>1, <1>2 DEF Honest
<1>4. cursor \in Nat
  BY BufferChars
<1> QED BY <1>1, <1>2, <1>3, <1>4 DEF BufferInv, RetainedIsSuffix, Faithful, Window

\* The buffer is the end of the history, at every step.
THEOREM HistoryKept == Spec => []BufferInv
BY BufferStart, BufferStep, PTL DEF Spec

\* After any reads and trims, the events hold the last characters of both streams
\* with their cursors, none lost or repeated, and buffered_chars counts them.
THEOREM SuffixRetained == Spec => []RetainedIsSuffix
BY HistoryKept, BufferMeans, PTL

\* Output is dropped only at a limit, and history_truncated says whether it was.
THEOREM DroppedAtLimit == Spec => []NothingDroppedNeedlessly
BY HistoryKept, BufferMeans, PTL

\* Every variable of the buffer, its tasks and its calls has its type.
THEOREM BufferTypes == Spec => []TypeOK
<1>1. Init => TaskTypes /\ CallTypes
  BY IdleTyped DEF Init, TaskTypes, CallTypes
<1>2. IInv /\ TaskTypes /\ CallTypes /\ [Next]_vars => (TaskTypes /\ CallTypes)'
  BY TaskTypesStep, CallTypesStep
<1>3. BufferInv /\ TaskTypes /\ CallTypes => TypeOK
  BY BufferMeans DEF TaskTypes, CallTypes, CallTyped, ReplyTyped, TypeOK
<1> QED BY <1>1, <1>2, <1>3, BufferInvariant, HistoryKept, PTL DEF Spec
=============================================================================
