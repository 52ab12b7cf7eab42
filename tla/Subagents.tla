------------------------------ MODULE Subagents ------------------------------
(***************************************************************************)
(* The subagents a native run dispatches: a call names agents, their       *)
(* dependencies and the transactions they propose; run_dispatch_subagents  *)
(* starts them in waves (asyncio.gather under wait_for), executes the      *)
(* proposed transactions after each wave and answers the call.  Each agent *)
(* is a run of its own in a directory of its own; the parent's journal     *)
(* gets subagents.agent_started and subagents.agent_completed.             *)
(*                                                                         *)
(* gather ends with the first task that raises or is cancelled and leaves  *)
(* the others running, so tasks outlive their call; what ends the run      *)
(* later (completion.finish, the release of the lease) does not wait for   *)
(* them.                                                                   *)
(***************************************************************************)
EXTENDS Integers, FiniteSets

CONSTANTS
    Agents,     \* ids the model may give to subagents
    Plans,      \* what a call may ask: records [deps |->, proposes |->]
    MaxCalls    \* bound: dispatch calls of the run

Calls == 1..MaxCalls

VARIABLES
    run,        \* the parent: at its model, in a call, ended, released
    call,       \* the number of the last dispatch call
    plan,       \* its plan
    task,       \* [call -> [agent -> the state of its run_one task]]
    report,     \* [call -> [agent -> the status its run ended with]]
    pending,    \* agents of the call not yet in a wave
    due,        \* agents of a finished wave still to be accounted for
    txn,        \* the agent whose transaction is executed; None
    completed,  \* the dispatcher's `completed`
    applied,    \* history: agents of the call whose transaction succeeded
    stop,       \* what cancelled the wave: "no", "timeout" or "interrupt"
    answer,     \* [call -> how it was answered]
    dirs        \* subagents' run directories that exist

vars == <<run, call, plan, task, report, pending, due, txn, completed,
          applied, stop, answer, dirs>>

None == "-"
Idle == [deps |-> [a \in {} |-> {}], proposes |-> {}]

(* A run_one task: created, agent_started emitted, its child run under way,*)
(* that run over with agent_completed still to be emitted, and its end.    *)
Live == {"created", "started", "running", "reporting"}
States == Live \cup {"out", "returned", "refused", "raised", "cancelled"}

Ids == DOMAIN plan.deps
Wave == {a \in Ids : task[call][a] # "out"} \ completed

SubagentsTypeOK ==
    /\ run \in {"model", "call", "ended", "released"}
    /\ call \in 0..MaxCalls
    /\ plan \in Plans \cup {Idle}
    /\ task \in [Calls -> [Agents -> States]]
    /\ report \in [Calls -> [Agents -> {None, "completed", "failed"}]]
    /\ pending \cup due \cup completed \cup applied \cup dirs \subseteq Agents
    /\ txn \in Agents \cup {None}
    /\ stop \in {"no", "timeout", "interrupt"}
    /\ answer \in [Calls -> {"none", "ok", "error", "timeout", "interrupt", "crash"}]

SubagentsInit ==
    /\ run = "model" /\ call = 0 /\ plan = Idle
    /\ task = [c \in Calls |-> [a \in Agents |-> "out"]]
    /\ report = [c \in Calls |-> [a \in Agents |-> None]]
    /\ pending = {} /\ due = {} /\ txn = None /\ completed = {} /\ applied = {}
    /\ stop = "no"
    /\ answer = [c \in Calls |-> "none"]
    /\ dirs = {}

-----------------------------------------------------------------------------
(* The dispatcher                                                          *)

\* The schedule can be put in waves: no dependency outside the call, no cycle.
Schedulable(p) ==
    LET Ready[n \in 0..Cardinality(Agents)] ==
            IF n = 0 THEN {}
            ELSE {a \in DOMAIN p.deps : p.deps[a] \subseteq Ready[n - 1]}
    IN Ready[Cardinality(Agents)] = DOMAIN p.deps

\* The call is answered and the run goes back to its model; or an exception
\* the tool does not catch ends the run as failed; or the run's own task was
\* cancelled, which leaves no event and only releases the lease.
Answers(how) ==
    /\ answer' = [answer EXCEPT ![call] = how]
    /\ run' = CASE how = "crash" -> "ended"
               [] how = "interrupt" -> "released"
               [] OTHER -> "model"
    /\ pending' = {} /\ due' = {} /\ txn' = None
    /\ UNCHANGED <<call, plan, task, report, completed, applied, dirs>>

Dispatch(p) ==
    /\ run = "model" /\ stop = "no" /\ call < MaxCalls
    /\ call' = call + 1 /\ plan' = p
    /\ completed' = {} /\ applied' = {}
    /\ IF Schedulable(p)
       THEN run' = "call" /\ pending' = DOMAIN p.deps /\ UNCHANGED answer
       ELSE /\ answer' = [answer EXCEPT ![call + 1] = "error"]
            /\ UNCHANGED <<run, pending>>
    /\ UNCHANGED <<task, report, due, txn, stop, dirs>>

\* Agents all of whose dependencies are in `completed` start together.
Ready == {a \in pending : plan.deps[a] \subseteq completed}

StartWave ==
    /\ run = "call" /\ Wave = {} /\ pending # {}
    /\ pending' = pending \ Ready
    /\ task' = [task EXCEPT ![call] = [a \in Agents |->
                    IF a \in Ready THEN "created" ELSE task[call][a]]]
    /\ UNCHANGED <<run, call, plan, report, due, txn, completed, applied, stop,
                   answer, dirs>>

\* Mutant: gather(return_exceptions=True), its results not looked at.
WaveReturnsAny ==
    /\ run = "call" /\ Wave # {} /\ due = {} /\ stop = "no"
    /\ \A a \in Wave : task[call][a] \notin Live
    /\ due' = Wave
    /\ UNCHANGED <<run, call, plan, task, report, pending, txn, completed,
                   applied, stop, answer, dirs>>

\* gather returns when all have returned.
WaveReturns ==
    /\ run = "call" /\ Wave # {} /\ due = {} /\ stop = "no"
    /\ \A a \in Wave : task[call][a] = "returned"
    /\ due' = Wave
    /\ UNCHANGED <<run, call, plan, task, report, pending, txn, completed,
                   applied, stop, answer, dirs>>

\* gather hands on the first exception and leaves the rest running.  The tool
\* catches a ValueError ("refused"); any other exception ends the run.
WaveRaises(kind) ==
    /\ run = "call" /\ stop = "no" /\ due = {}
    /\ \E a \in Wave : task[call][a] = kind
    /\ Answers(IF kind = "refused" THEN "error" ELSE "crash")
    /\ UNCHANGED stop

\* The deadline, or whoever cancels the run's own task, cancels the wave.  A
\* child in a blocking tool swallows the cancellation and only ends its run
\* (run_blocking_safely); the other tasks die.
CancelWave(why, survivors) ==
    /\ run = "call" /\ stop = "no" /\ Wave # {} /\ due = {}
    /\ \A a \in Wave : task[call][a] \notin {"refused", "raised"}
    /\ survivors \subseteq {a \in Wave : task[call][a] = "running"}
    /\ stop' = why
    /\ task' = [task EXCEPT ![call] = [a \in Agents |->
                    IF a \in Wave \ survivors /\ task[call][a] \in Live
                    THEN "cancelled" ELSE task[call][a]]]
    /\ UNCHANGED <<run, call, plan, report, pending, due, txn, completed,
                   applied, answer, dirs>>

\* The first task to die ends gather; without one it waits for all.
WaveCancelled ==
    /\ run = "call" /\ stop # "no"
    /\ \/ \E a \in Wave : task[call][a] = "cancelled"
       \/ \A a \in Wave : task[call][a] \notin Live
    /\ Answers(stop)
    /\ UNCHANGED stop

\* After a wave: an agent that proposed nothing is complete.
Account(a) ==
    /\ run = "call" /\ txn = None /\ a \in due \ plan.proposes
    /\ due' = due \ {a} /\ completed' = completed \cup {a}
    /\ UNCHANGED <<run, call, plan, task, report, pending, txn, applied, stop,
                   answer, dirs>>

\* Mutant: the agent is complete before its transaction is executed.
BeginTransactionEarly(a) ==
    /\ run = "call" /\ txn = None /\ a \in due \cap plan.proposes
    /\ report[call][a] = "completed"
    /\ due' = due \ {a} /\ completed' = completed \cup {a}
    /\ txn' = a
    /\ UNCHANGED <<run, call, plan, task, report, pending, applied, stop,
                   answer, dirs>>

\* A transaction is executed if its agent's run completed ...
BeginTransaction(a) ==
    /\ run = "call" /\ txn = None /\ a \in due \cap plan.proposes
    /\ report[call][a] = "completed"
    /\ txn' = a
    /\ UNCHANGED <<run, call, plan, task, report, pending, due, completed,
                   applied, stop, answer, dirs>>

TransactionSucceeds ==
    /\ txn # None
    /\ applied' = applied \cup {txn}
    /\ completed' = completed \cup {txn}
    /\ due' = due \ {txn} /\ txn' = None
    /\ UNCHANGED <<run, call, plan, task, report, pending, stop, answer, dirs>>

\* ... and the call fails if it did not, or if the transaction is a repeated
\* action, denied, cancelled or fails.
TransactionFails ==
    /\ run = "call"
    /\ \/ txn # None
       \/ \E a \in due \cap plan.proposes :
              txn = None /\ report[call][a] # "completed"
    /\ Answers("error")
    /\ UNCHANGED stop

DispatchCompletes ==
    /\ run = "call" /\ Wave = {} /\ pending = {}
    /\ Answers("ok")
    /\ UNCHANGED stop

-----------------------------------------------------------------------------
(* run_one, one task per agent of a call.  An event of a run whose lease   *)
(* is gone is refused (SessionValidationError).                            *)

Moves(c, a, state) == task' = [task EXCEPT ![c][a] = state]

Started(c, a) ==
    /\ task[c][a] = "created"
    /\ Moves(c, a, IF run = "released" THEN "raised" ELSE "started")
    /\ UNCHANGED <<run, call, plan, report, pending, due, txn, completed,
                   applied, stop, answer, dirs>>

\* The child's run directory is made with exist_ok=False.
Works(c, a) ==
    /\ task[c][a] = "started" /\ a \notin dirs
    /\ Moves(c, a, "running")
    /\ dirs' = dirs \cup {a}
    /\ UNCHANGED <<run, call, plan, report, pending, due, txn, completed,
                   applied, stop, answer>>

\* derive_subagent_task refuses: a ValueError.  Or the directory exists, from
\* an earlier call: FileExistsError.
Fails(c, a) ==
    /\ task[c][a] = "started"
    /\ \/ Moves(c, a, "refused")
       \/ a \in dirs /\ Moves(c, a, "raised")
    /\ UNCHANGED <<run, call, plan, report, pending, due, txn, completed,
                   applied, stop, answer, dirs>>

Returns(c, a, status) ==
    /\ task[c][a] = "running"
    /\ Moves(c, a, "reporting")
    /\ report' = [report EXCEPT ![c][a] = status]
    /\ UNCHANGED <<run, call, plan, pending, due, txn, completed, applied,
                   stop, answer, dirs>>

Reported(c, a) ==
    /\ task[c][a] = "reporting"
    /\ Moves(c, a, IF run = "released" THEN "raised" ELSE "returned")
    /\ UNCHANGED <<run, call, plan, report, pending, due, txn, completed,
                   applied, stop, answer, dirs>>

-----------------------------------------------------------------------------
(* The end of the run: completion.finish emits run.<status>, then the      *)
(* lifecycle saves the clock and releases the lease.                       *)

Finish ==
    /\ run = "model"
    /\ run' = "ended"
    /\ UNCHANGED <<call, plan, task, report, pending, due, txn, completed,
                   applied, stop, answer, dirs>>

\* The run's task is cancelled outside a wave.
Interrupt ==
    /\ run = "model" \/ txn # None
    /\ run' = "released" /\ txn' = None
    /\ UNCHANGED <<call, plan, task, report, pending, due, completed, applied,
                   stop, answer, dirs>>

Release ==
    /\ run = "ended"
    /\ run' = "released"
    /\ UNCHANGED <<call, plan, task, report, pending, due, txn, completed,
                   applied, stop, answer, dirs>>

SubagentsNext ==
    \/ \E p \in Plans : Dispatch(p)
    \/ StartWave \/ WaveReturns \/ WaveCancelled
    \/ \E kind \in {"refused", "raised"} : WaveRaises(kind)
    \/ \E why \in {"timeout", "interrupt"}, s \in SUBSET Agents : CancelWave(why, s)
    \/ \E a \in Agents : Account(a) \/ BeginTransaction(a)
    \/ TransactionSucceeds \/ TransactionFails \/ DispatchCompletes
    \/ \E c \in Calls, a \in Agents :
           \/ Started(c, a) \/ Works(c, a) \/ Fails(c, a) \/ Reported(c, a)
           \/ \E status \in {"completed", "failed"} : Returns(c, a, status)
    \/ Finish \/ Interrupt \/ Release

-----------------------------------------------------------------------------
(* Properties                                                              *)

(* An agent runs on what it depends on: its task exists only once every    *)
(* agent it depends on has returned a report and, if that one proposed a   *)
(* transaction, the transaction has succeeded (the waves of                *)
(* run_dispatch_subagents).                                                *)
WaveOrder ==
    \A a \in Ids : task[call][a] # "out" =>
        \A d \in plan.deps[a] :
            /\ task[call][d] = "returned"
            /\ d \in plan.proposes => report[call][d] = "completed" /\ d \in applied

(* The report the model gets is whole: when a call is answered with one,   *)
(* and while a transaction its agents proposed is executed, none of the    *)
(* call's agents is still running or was lost, whatever other calls left   *)
(* behind.                                                                 *)
ReportIsWhole ==
    /\ \A c \in 1..call : answer[c] = "ok" =>
           \A a \in Agents : task[c][a] \in {"out", "returned"}
    /\ txn # None => \A a \in Agents : task[call][a] \in {"out", "returned"}

=============================================================================
