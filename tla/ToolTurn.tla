------------------------------- MODULE ToolTurn -------------------------------
(***************************************************************************)
(* The tool calls of one model turn of a native run (TurnEngine.run): the  *)
(* loop takes them in order, decides each one, and runs a stretch of       *)
(* concurrency-safe reads as one batch (prepare_read_only_batch,           *)
(* execute_read_only_batch).  A tool runs in a thread, which nothing can   *)
(* interrupt: a cancelled task waits for its thread (run_blocking_safely). *)
(***************************************************************************)
EXTENDS Integers, Sequences

CONSTANT MaxToolCalls       \* bound: tool calls of the turn

TurnCalls == 1..MaxToolCalls

\* A read that may run beside others; any other tool; a call that is answered
\* with an error before it is decided (unknown tool, invalid patch).
ToolKinds == {"read", "alone", "invalid"}

VARIABLES
    kind,       \* [call -> its kind]
    index,      \* call_index
    high,       \* the last call of the batch; the batch is index..high
    denied,     \* deferred_denial: the call after the batch was denied
    phase,      \* "decide", "extend" the batch, "gather", "collect" or "over"
    work,       \* [call -> its task and thread]
    messages,   \* the calls answered, in the order of the conversation
    cancelled,  \* cancel_requested
    outcome     \* how the turn ended

turnVars == <<kind, index, high, denied, phase, work, messages, cancelled, outcome>>

\* A task before its thread, in its thread, and its ends.
Work == {"none", "task", "thread", "done", "raised", "cancelled"}

ToolTurnTypeOK ==
    /\ kind \in [TurnCalls -> ToolKinds]
    /\ index \in 1..MaxToolCalls + 1 /\ high \in 0..MaxToolCalls
    /\ denied \in BOOLEAN /\ cancelled \in BOOLEAN
    /\ phase \in {"decide", "extend", "gather", "collect", "over"}
    /\ work \in [TurnCalls -> Work]
    /\ \A i \in DOMAIN messages : messages[i] \in TurnCalls
    /\ outcome \in {"none", "answered", "cancelled", "failed", "interrupted"}

ToolTurnInit ==
    /\ kind \in [TurnCalls -> ToolKinds]
    /\ index = 1 /\ high = 0 /\ denied = FALSE /\ phase = "decide"
    /\ work = [i \in TurnCalls |-> "none"]
    /\ messages = <<>> /\ cancelled = FALSE /\ outcome = "none"

Batch == index..high

Over(how) == phase' = "over" /\ outcome' = how

-----------------------------------------------------------------------------
(* Deciding the call at `index`                                            *)

TurnAnswered ==
    /\ phase = "decide" /\ index > MaxToolCalls
    /\ Over("answered")
    /\ UNCHANGED <<kind, index, high, denied, work, messages, cancelled>>

\* Cancelled before the call, while it is decided, or by the approver.
TurnCancelled ==
    /\ phase = "decide" /\ index <= MaxToolCalls
    /\ Over("cancelled")
    /\ UNCHANGED <<kind, index, high, denied, work, messages, cancelled>>

\* The third identical call in a row ends the run.
Repeated ==
    /\ phase = "decide" /\ index <= MaxToolCalls /\ ~cancelled
    /\ Over("failed")
    /\ UNCHANGED <<kind, index, high, denied, work, messages, cancelled>>

\* Answered at once: the call is invalid, or denied.
AnswerAtOnce ==
    /\ phase = "decide" /\ index <= MaxToolCalls /\ ~cancelled
    /\ messages' = Append(messages, index)
    /\ index' = index + 1
    /\ UNCHANGED <<kind, high, denied, phase, work, cancelled, outcome>>

\* Allowed: a read opens a batch, any other tool runs by itself.
Allow ==
    /\ phase = "decide" /\ index <= MaxToolCalls /\ ~cancelled
    /\ kind[index] # "invalid"
    /\ high' = index
    /\ phase' = IF kind[index] = "read" THEN "extend" ELSE "gather"
    /\ work' = [work EXCEPT ![index] = "task"]
    /\ UNCHANGED <<kind, index, denied, messages, cancelled, outcome>>

NextIsRead == high < MaxToolCalls /\ kind[high + 1] = "read"

\* The next call, if it is such a read and no repetition, is decided too.
Extend ==
    /\ phase = "extend" /\ NextIsRead /\ ~cancelled
    /\ high' = high + 1
    /\ work' = [work EXCEPT ![high + 1] = "task"]
    /\ UNCHANGED <<kind, index, denied, phase, messages, cancelled, outcome>>

\* The batch ends here, with the next call denied or for the loop to decide.
CloseBatch ==
    /\ phase = "extend" /\ ~(NextIsRead /\ cancelled)
    /\ phase' = "gather"
    /\ denied' \in IF NextIsRead THEN BOOLEAN ELSE {FALSE}
    /\ UNCHANGED <<kind, index, high, work, messages, cancelled, outcome>>

\* A cancellation, or the approver of a later call, drops the calls decided.
AbandonBatch ==
    /\ phase = "extend" /\ NextIsRead
    /\ Over("cancelled")
    /\ work' = [i \in TurnCalls |-> IF i \in Batch THEN "none" ELSE work[i]]
    /\ UNCHANGED <<kind, index, high, denied, messages, cancelled>>

-----------------------------------------------------------------------------
(* Running the batch                                                       *)

Pending == {i \in TurnCalls : work[i] \in {"task", "thread"}}
Broken == {i \in TurnCalls : work[i] \in {"raised", "cancelled"}}

StartThread(i) ==
    /\ phase = "gather" /\ work[i] = "task"
    /\ work' = [work EXCEPT ![i] = "thread"]
    /\ UNCHANGED <<kind, index, high, denied, phase, messages, cancelled, outcome>>

\* The tool returns an observation, or raises (the deadline, an OSError).
ThreadEnds(i) ==
    /\ work[i] = "thread"
    /\ \E end \in {"done", "raised"} : work' = [work EXCEPT ![i] = end]
    /\ UNCHANGED <<kind, index, high, denied, phase, messages, cancelled, outcome>>

\* The first exception ends gather, as does the end of the run's own task: the
\* tasks not done are cancelled.  One that waits for its thread swallows that
\* and sets cancel_requested.
CancelTasks ==
    /\ work' = [i \in TurnCalls |-> IF work[i] = "task" THEN "cancelled" ELSE work[i]]
    /\ cancelled' = (cancelled \/ \E i \in TurnCalls : work[i] = "thread")

GatherFails ==
    /\ phase = "gather"
    /\ Broken # {}
    /\ phase' = "collect"
    /\ CancelTasks
    /\ UNCHANGED <<kind, index, high, denied, messages, outcome>>

RunInterrupted ==
    /\ phase = "gather"
    /\ kind[index] = "read" \/ work[index] = "task"
    /\ phase' = "collect"
    /\ outcome' = "interrupted"
    /\ CancelTasks
    /\ UNCHANGED <<kind, index, high, denied, messages>>

\* All have returned: their observations in the order of the calls, then the
\* denial that was put off; then the cancellation, if there was one.
Answered == [i \in 1..(high - index + 1) |-> index + i - 1]

\* Mutant: the denial is answered before the reads it follows.
CollectDenialFirst ==
    /\ phase = "gather" /\ \A i \in Batch : work[i] = "done"
    /\ messages' = messages \o (IF denied THEN <<high + 1>> ELSE <<>>) \o Answered
    /\ index' = high + (IF denied THEN 2 ELSE 1)
    /\ denied' = FALSE
    /\ IF cancelled THEN Over("cancelled") ELSE phase' = "decide" /\ UNCHANGED outcome
    /\ UNCHANGED <<kind, high, work, cancelled>>

Collect ==
    /\ phase = "gather" /\ \A i \in Batch : work[i] = "done"
    /\ messages' = messages \o Answered \o (IF denied THEN <<high + 1>> ELSE <<>>)
    /\ index' = high + (IF denied THEN 2 ELSE 1)
    /\ denied' = FALSE
    /\ IF cancelled THEN Over("cancelled") ELSE phase' = "decide" /\ UNCHANGED outcome
    /\ UNCHANGED <<kind, high, work, cancelled>>

\* The finally of execute_read_only_batch waits for every task, then lets the
\* exception go; a tool that ran by itself is awaited by its own task.
BatchOver ==
    /\ phase = "collect" /\ Pending = {}
    /\ Over(IF outcome = "interrupted" THEN outcome ELSE "failed")
    /\ UNCHANGED <<kind, index, high, denied, work, messages, cancelled>>

\* The user; or the end of the run's task, swallowed by a tool by itself.
UserCancels ==
    /\ phase # "over" /\ ~cancelled
    /\ cancelled' = TRUE
    /\ UNCHANGED <<kind, index, high, denied, phase, work, messages, outcome>>

ToolTurnNext ==
    \/ TurnAnswered \/ TurnCancelled \/ Repeated \/ AnswerAtOnce \/ Allow
    \/ Extend \/ CloseBatch \/ AbandonBatch
    \/ \E i \in TurnCalls : StartThread(i) \/ ThreadEnds(i)
    \/ GatherFails \/ RunInterrupted \/ Collect \/ BatchOver \/ UserCancels

-----------------------------------------------------------------------------
(* Properties                                                              *)

(* Whatever the order in which reads finish, and wherever a denial falls,  *)
(* the conversation gets one answer per call, in the order of the calls,   *)
(* up to the call the loop is at (TurnEngine.run); and when the turn is    *)
(* over, by an exception or an interruption too, none of its tools is      *)
(* still at work in a thread (run_blocking_safely and the finally of       *)
(* execute_read_only_batch).                                               *)
TurnInOrder ==
    /\ messages = [i \in 1..Len(messages) |-> i]
    /\ Len(messages) = index - 1
    /\ phase = "over" => Pending = {}
=============================================================================
