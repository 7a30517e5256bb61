---------------------------- MODULE OutputBuffer ----------------------------
(* The output of one managed process, and the tool calls that wait for it.  *)
(*                                                                          *)
(* Two drain tasks read stdout and stderr of the child, decode what they    *)
(* read and append it to a bounded list of events; a third task marks the   *)
(* process as exited once the child is reaped and both drains are done.     *)
(* Calls to expect and wait sleep on the condition of the process.  All run *)
(* on one event loop: what happens between two awaits is one step, and a    *)
(* call that was notified or has timed out runs again some steps later.     *)
EXTENDS OutputText

CONSTANTS
  Caller,       \* calls that may be in progress at the same time
  Chunk,        \* what one read may decode to; empty: part of a character
  Replacement,  \* U+FFFD, for a character that never became complete
  Pattern,      \* the literals that are looked for
  Asked,        \* the selections of streams that expect is called with
  MaxChars,     \* max_buffer_chars
  MaxEvents,    \* MAX_BUFFER_EVENTS
  MaxWritten    \* bound of the model: characters that are read in all

ASSUME BufferAssumption == {MaxChars, MaxEvents} \subseteq Nat \ {0}
ASSUME TextAssumption == \A text \in Chunk \union Pattern : text \in Seq(Range(text))
ASSUME AskedAssumption == << >> \notin Pattern /\ Asked \subseteq Selection

VARIABLES
  written,    \* every character so far and its stream; the code forgets them
  events,
  buffered,   \* buffered_chars
  cursor,
  truncated,  \* history_truncated
  partial,    \* whether the decoder of a stream holds part of a character
  drained,    \* whether the drain task of a stream has returned
  reaped,     \* whether the child's exit status has been collected
  exited,     \* whether exit_code is set
  call,       \* the call in progress of each caller
  reply       \* what the last call of each caller returned, while it has no other

output == <<written, events, buffered, cursor, truncated>>
vars == <<output, partial, drained, reaped, exited, call, reply>>

Idle == [op |-> "none", state |-> "idle", pattern |-> << >>, stream |-> "both",
         minimum |-> 0]
NoReply == [call |-> Idle, reason |-> "none", cursor |-> 0, exited |-> FALSE]

Init ==
  /\ written = << >> /\ events = << >> /\ buffered = 0 /\ cursor = 0
  /\ truncated = FALSE
  /\ partial = [s \in Streams |-> FALSE]
  /\ drained = [s \in Streams |-> FALSE]
  /\ reaped = FALSE /\ exited = FALSE
  /\ call = [c \in Caller |-> Idle]
  /\ reply = [c \in Caller |-> NoReply]

----------------------------------------------------------------------------
(* The buffer *)

NotifyAll ==
  call' = [c \in Caller |-> IF call[c].state = "waiting"
                            THEN [call[c] EXCEPT !.state = "notified"] ELSE call[c]]

\* (mutant: the oldest event goes whole)
TrimWhole(es, count) ==
  LET surplus  == Max({0, Len(es) - MaxEvents})
      Rest(n)  == SubSeq(es, n + 1, Len(es))
      gone     == Min({n \in surplus .. Len(es) : Chars(Rest(n)) <= MaxChars})
  IN  /\ events' = Rest(gone)
      /\ buffered' = Chars(Rest(gone))
      /\ truncated' = (truncated \/ gone > 0)

\* (mutant: characters that are cut off stay counted)
TrimUncounted(es, count) ==
  LET surplus  == Max({0, Len(es) - MaxEvents})
      some     == SubSeq(es, surplus + 1, Len(es))
      overflow == Max({0, Chars(some) - MaxChars})
  IN  /\ events' = DropChars(some, overflow)
      /\ buffered' = count - Chars(SubSeq(es, 1, surplus))
      /\ truncated' = (truncated \/ surplus > 0 \/ overflow > 0)

\* Too many events: whole events go.  Then, too many characters: the oldest go.
Trim(es, count) ==
  LET surplus  == Max({0, Len(es) - MaxEvents})
      some     == SubSeq(es, surplus + 1, Len(es))
      counted  == count - Chars(SubSeq(es, 1, surplus))
      overflow == Max({0, counted - MaxChars})
  IN  /\ events' = IF overflow > 0 THEN DropChars(some, overflow) ELSE some
      /\ buffered' = counted - overflow
      /\ truncated' = (truncated \/ surplus > 0 \/ overflow > 0)

\* (mutant: nobody is notified)
AppendSilently(stream, text) ==
  IF text = << >>
  THEN UNCHANGED <<output, call>>
  ELSE /\ written' = written \o [k \in DOMAIN text |-> [stream |-> stream, char |-> text[k]]]
       /\ cursor' = cursor + Len(text)
       /\ Trim(Append(events, Event(cursor + 1, stream, text)), buffered + Len(text))
       /\ UNCHANGED call

AppendOutput(stream, text) ==
  IF text = << >>
  THEN UNCHANGED <<output, call>>
  ELSE /\ written' = written \o [k \in DOMAIN text |-> [stream |-> stream, char |-> text[k]]]
       /\ cursor' = cursor + Len(text)
       /\ Trim(Append(events, Event(cursor + 1, stream, text)), buffered + Len(text))
       /\ NotifyAll

----------------------------------------------------------------------------
(* The tasks of the process *)

DrainReads(s) ==
  /\ ~drained[s]
  /\ \E text \in Chunk, more \in BOOLEAN :
       /\ Len(written) + Len(text) <= MaxWritten
       /\ text = << >> => more
       /\ partial' = [partial EXCEPT ![s] = more]
       /\ AppendOutput(s, text)
  /\ UNCHANGED <<drained, reaped, exited, reply>>

\* End of file: nobody holds the write end any more.
DrainEnds(s) ==
  /\ ~drained[s]
  /\ drained' = [drained EXCEPT ![s] = TRUE]
  /\ partial' = [partial EXCEPT ![s] = FALSE]
  /\ AppendOutput(s, IF partial[s] THEN <<Replacement>> ELSE << >>)
  /\ UNCHANGED <<reaped, exited, reply>>

\* The child exits; its descendants may go on writing to the pipes.
Reap ==
  /\ ~reaped
  /\ reaped' = TRUE
  /\ UNCHANGED <<output, partial, drained, exited, call, reply>>

\* (mutant: the drains are not waited for)
MarkExitedEarly ==
  /\ reaped /\ ~exited
  /\ exited' = TRUE
  /\ NotifyAll
  /\ UNCHANGED <<output, partial, drained, reaped, reply>>

\* (mutant: nobody is notified)
MarkExitedSilently ==
  /\ reaped /\ ~exited /\ \A s \in Streams : drained[s]
  /\ exited' = TRUE
  /\ UNCHANGED <<output, partial, drained, reaped, call, reply>>

MarkExited ==
  /\ reaped /\ ~exited /\ \A s \in Streams : drained[s]
  /\ exited' = TRUE
  /\ NotifyAll
  /\ UNCHANGED <<output, partial, drained, reaped, reply>>

----------------------------------------------------------------------------
(* Calls *)

Answer(c, asked, reason, at) ==
  /\ call' = [call EXCEPT ![c] = Idle]
  /\ reply' = [reply EXCEPT ![c] =
       [call |-> asked, reason |-> reason, cursor |-> at, exited |-> exited]]

Sleep(c, asked) ==
  /\ call' = [call EXCEPT ![c] = [asked EXCEPT !.state = "waiting"]]
  /\ reply' = [reply EXCEPT ![c] = NoReply]

ExpectLooks(c, asked) ==
  LET match == FindLiteral(events, asked.pattern, asked.stream, asked.minimum)
  IN  IF match # NoMatch THEN Answer(c, asked, "matched", match.cursor)
      ELSE IF exited THEN Answer(c, asked, "process_exited", cursor)
      ELSE Sleep(c, asked)

WaitLooks(c, asked) ==
  IF exited THEN Answer(c, asked, "process_exited", cursor) ELSE Sleep(c, asked)

\* "start" is minimum 0, "now" is cursor + 1, the others are an after_cursor.
Expect(c) ==
  /\ call[c].state = "idle"
  /\ \E pattern \in Pattern, stream \in Asked, minimum \in 0 .. cursor + 1 :
       ExpectLooks(c, [op |-> "expect", state |-> "idle", pattern |-> pattern,
                       stream |-> stream, minimum |-> minimum])
  /\ UNCHANGED <<output, partial, drained, reaped, exited>>

Wait(c) ==
  /\ call[c].state = "idle"
  /\ WaitLooks(c, [Idle EXCEPT !.op = "wait"])
  /\ UNCHANGED <<output, partial, drained, reaped, exited>>

Resume(c) ==
  /\ call[c].state = "notified"
  /\ IF call[c].op = "expect" THEN ExpectLooks(c, call[c]) ELSE WaitLooks(c, call[c])
  /\ UNCHANGED <<output, partial, drained, reaped, exited>>

\* The timer cancels the task; the task has not run yet.
Expire(c) ==
  /\ call[c].state \in {"waiting", "notified"}
  /\ call' = [call EXCEPT ![c].state = "expired"]
  /\ UNCHANGED <<output, partial, drained, reaped, exited, reply>>

\* (mutant: wait does not look at the exit code again)
TimeOutBlindly(c) ==
  /\ call[c].state = "expired"
  /\ Answer(c, call[c], "timeout", cursor)
  /\ UNCHANGED <<output, partial, drained, reaped, exited>>

\* It runs: wait looks at the exit code once more, expect looks at nothing.
TimeOut(c) ==
  /\ call[c].state = "expired"
  /\ Answer(c, call[c], IF call[c].op = "wait" /\ exited THEN "process_exited"
                                                         ELSE "timeout", cursor)
  /\ UNCHANGED <<output, partial, drained, reaped, exited>>

\* The client of the protocol cancels the call.
Cancel(c) ==
  /\ call[c].state # "idle"
  /\ call' = [call EXCEPT ![c] = Idle]
  /\ UNCHANGED <<output, partial, drained, reaped, exited, reply>>

CallReturns(c) == Resume(c) \/ TimeOut(c)

Next ==
  \/ \E s \in Streams : DrainReads(s) \/ DrainEnds(s)
  \/ Reap \/ MarkExited
  \/ \E c \in Caller : Expect(c) \/ Wait(c) \/ CallReturns(c) \/ Expire(c) \/ Cancel(c)

(* The event loop runs every task that is ready.  Nothing obliges the child *)
(* to exit, and a timeout may be an hour away: neither is assumed.          *)
Fairness == WF_vars(MarkExited) /\ \A c \in Caller : WF_vars(CallReturns(c))

Spec == Init /\ [][Next]_vars
FairSpec == Spec /\ Fairness

----------------------------------------------------------------------------
(* Reference definitions, over the whole history *)

\* the cursors of the retained characters of a selection, in order
Window == [k \in 1 .. buffered |-> cursor - buffered + k]
Retained(stream) ==
  Picked(Window, {k \in DOMAIN Window : MatchesStream(written[Window[k]], stream)})
\* every event is labelled with the cursors of the characters it holds
Honest(es) ==
  \A k \in DOMAIN es :
    /\ es[k].text # << >> /\ es[k].cursor = es[k].start + Len(es[k].text) - 1
    /\ \A j \in DOMAIN es[k].text :
         written[es[k].start + j - 1] = [stream |-> es[k].stream, char |-> es[k].text[j]]
Faithful(es, cursors) == Honest(es) /\ Cursors(es) = cursors

FirstOf(q, n) == SubSeq(q, 1, Min({n, Len(q)}))
LastOf(q, n) == SubSeq(q, Max({0, Len(q) - n}) + 1, Len(q))
\* cursors after the n-th last line break, a final one not counted
LastLines(q, n) ==
  Picked(q, {i \in DOMAIN q :
    Cardinality({k \in i .. Len(q) - 1 : written[q[k]].char = Newline}) < n})

\* where an occurrence ends whose characters are consecutive in one stream
Ends(pattern, stream, from, to) ==
  LET own(s) == Picked([k \in 1 .. to |-> k], {q \in 1 .. to : q >= from /\ written[q].stream = s})
      text(s) == [k \in DOMAIN own(s) |-> written[own(s)[k]].char]
  IN  UNION {{own(s)[i + Len(pattern) - 1] : i \in Occurrences(text(s), pattern)} :
             s \in {r \in Streams : stream \in {r, "both"}}}

----------------------------------------------------------------------------
(* Properties *)

\* Every variable has its type.
TypeOK ==
  /\ cursor \in Nat /\ buffered \in 0 .. MaxChars
  /\ {truncated, reaped, exited} \subseteq BOOLEAN
  /\ {partial, drained} \subseteq [Streams -> BOOLEAN]
  /\ \A k \in DOMAIN events : events[k].stream \in Streams
  /\ \A c \in Caller :
       /\ call[c].state \in {"idle", "waiting", "notified", "expired"}
       /\ (call[c].op = "none") <=> (call[c].state = "idle")
       /\ reply[c].reason \in {"none", "matched", "process_exited", "timeout"}

\* The buffer is the end of the history: after any trimming, the events hold
\* the last characters with their cursors, none lost or repeated in between,
\* and buffered_chars counts them.
RetainedIsSuffix ==
  /\ cursor = Len(written)
  /\ Faithful(events, Window)

\* History is given up only at a limit: truncated is set exactly when something
\* was dropped, and then the buffer is full in characters or in events.
NothingDroppedNeedlessly ==
  /\ Len(events) <= MaxEvents
  /\ truncated <=> buffered < cursor
  /\ truncated => buffered = MaxChars \/ Len(events) = MaxEvents

\* head, tail and the tail of wait return exactly the first or last retained
\* characters or lines of the streams asked for, at their own cursors.
SelectionsExact ==
  \A stream \in Selection, n \in 0 .. MaxChars + 1 :
    LET q == Retained(stream)
        lines == SelectTailLines(events, stream, n)
    IN  /\ n > 0 => /\ Faithful(SelectHead(events, stream, n), FirstOf(q, n))
                    /\ Faithful(SelectTail(events, stream, n), LastOf(q, n))
        /\ Faithful(lines[1], LastLines(q, n))
        /\ lines[2] <=> LastLines(q, n) # q

\* expect finds a literal across read boundaries and across output of the other
\* stream, at the cursor where the first occurrence after the minimum is
\* complete, as a search of the retained part of the history does.
FindIsReference ==
  \A pattern \in Pattern, stream \in Selection, minimum \in 0 .. cursor + 1 :
    LET from == Max({minimum, cursor - buffered + 1})
        ends == Ends(pattern, stream, from, cursor)
        match == FindLiteral(events, pattern, stream, minimum)
    IN  IF ends = {} THEN match = NoMatch
        ELSE match.cursor = Min(ends) /\ match.stream = written[Min(ends)].stream

\* No lost wakeup: a call that sleeps has nothing to return.
NoLostWakeup ==
  \A c \in Caller :
    call[c].state = "waiting" =>
      /\ ~exited
      /\ call[c].op = "expect" =>
           FindLiteral(events, call[c].pattern, call[c].stream, call[c].minimum) = NoMatch

\* Exit is reported last: the cursor returned with process_exited is that of the
\* last character the process group ever wrote.
ExitReportedLast ==
  \A c \in Caller : reply[c].reason = "process_exited" => reply[c].cursor = cursor

\* wait does not report a timeout of a process that is known to have exited,
\* though the exit came between the timer and the call's next step.
WaitTimeoutIsRunning ==
  \A c \in Caller :
    reply[c].call.op = "wait" /\ reply[c].reason = "timeout" => ~reply[c].exited

\* An exit is announced to every call, however far away its timeout is.
ExitReturnsCalls == \A c \in Caller : exited ~> call[c].state = "idle"

\* An expect that reports a timeout at a cursor has seen no occurrence up to that
\* cursor: resuming after it skips none.
\* (README.en.md: after_cursor resumes precisely; in expect, unlike wait,
\* nothing is looked at once the timer has cancelled the task.)
TimeoutSkipsNothing ==
  \A c \in Caller :
    reply[c].call.op = "expect" /\ reply[c].reason = "timeout" =>
      Ends(reply[c].call.pattern, reply[c].call.stream, reply[c].call.minimum,
           reply[c].cursor) = {}
=============================================================================
