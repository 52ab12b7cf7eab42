----------------------------- MODULE LocalProcess -----------------------------
(***************************************************************************)
(* run_local_process: a command in a process group of its own, threads     *)
(* that drain its pipes (and hand stdout, line by line, to a callback), a  *)
(* deadline and a cancellation, and the clean-up of the group.  Calls run  *)
(* beside each other and share the slots for callback readers.             *)
(*                                                                         *)
(* The leader may leave descendants: in its group (the clean-up reaches    *)
(* them) or outside it (a daemon of its own session, which may hold the    *)
(* pipe open for as long as it likes).                                     *)
(***************************************************************************)
EXTENDS Integers, FiniteSets

CONSTANTS
    Runs,       \* calls of run_local_process
    Slots,      \* callback readers there may be (8 in the code)
    MaxOutput   \* bound: lines a process group writes

VARIABLES
    slots,      \* callback slots left
    step,       \* [run -> where run_local_process is]
    leader,     \* [run -> the leader: "none", "alive" or "dead"]
    kin,        \* [run -> a descendant in the group is alive]
    daemon,     \* [run -> a descendant outside it holds the pipe open]
    pipe,       \* [run -> lines in the pipe]
    written,    \* [run -> lines ever written]
    reader,     \* [run -> the stdout thread]
    captured,   \* [run -> lines it has captured]
    stopio,     \* [run -> stop_io]
    result      \* [run -> what the caller gets]

localVars == <<slots, step, leader, kin, daemon, pipe, written, reader,
               captured, stopio, result>>

\* "reserved": the slot is taken, the process not there yet; "watch": the loop;
\* "reap": the loop, the leader gone and its group stopped; "stop": finally.
Steps == {"idle", "reserved", "spawned", "watch", "reap", "stop", "back"}
Results == {"none", "refused", "raised", "done", "timeout", "cancelled"}

LocalProcessTypeOK ==
    /\ slots \in 0..Slots
    /\ step \in [Runs -> Steps]
    /\ leader \in [Runs -> {"none", "alive", "dead"}]
    /\ kin \in [Runs -> BOOLEAN] /\ daemon \in [Runs -> BOOLEAN]
    /\ pipe \in [Runs -> 0..MaxOutput]
    /\ written \in [Runs -> 0..MaxOutput] /\ captured \in [Runs -> 0..MaxOutput]
    /\ reader \in [Runs -> {"none", "reading", "calling", "ended", "failed"}]
    /\ stopio \in [Runs -> BOOLEAN]
    /\ result \in [Runs -> [how : Results, whole : BOOLEAN]]

LocalProcessInit ==
    /\ slots = Slots
    /\ step = [r \in Runs |-> "idle"]
    /\ leader = [r \in Runs |-> "none"]
    /\ kin = [r \in Runs |-> FALSE] /\ daemon = [r \in Runs |-> FALSE]
    /\ pipe = [r \in Runs |-> 0] /\ written = [r \in Runs |-> 0]
    /\ reader = [r \in Runs |-> "none"]
    /\ captured = [r \in Runs |-> 0]
    /\ stopio = [r \in Runs |-> FALSE]
    /\ result = [r \in Runs |-> [how |-> "none", whole |-> FALSE]]

Goes(r, to) == step' = [step EXCEPT ![r] = to]

\* The call ends; `whole` is the negation of output_incomplete.
Ends(r, how, whole) == result' = [result EXCEPT ![r] = [how |-> how, whole |-> whole]]

-----------------------------------------------------------------------------
(* The caller's thread                                                     *)

\* Refused without a process: by the sandbox, a cancellation, the deadline, or
\* because the callback slots are taken.
Refuse(r) ==
    /\ step[r] = "idle"
    /\ Goes(r, "back") /\ Ends(r, "refused", TRUE)
    /\ UNCHANGED <<slots, leader, kin, daemon, pipe, written, reader, captured, stopio>>

\* Mutant: the call does not look whether it got the slot.
ReserveUnchecked(r) ==
    /\ step[r] = "idle"
    /\ slots' = slots - 1 /\ Goes(r, "reserved")
    /\ UNCHANGED <<leader, kin, daemon, pipe, written, reader, captured, stopio, result>>

Reserve(r) ==
    /\ step[r] = "idle" /\ slots > 0
    /\ slots' = slots - 1 /\ Goes(r, "reserved")
    /\ UNCHANGED <<leader, kin, daemon, pipe, written, reader, captured, stopio, result>>

Spawn(r) ==
    /\ step[r] = "reserved"
    /\ leader' = [leader EXCEPT ![r] = "alive"] /\ Goes(r, "spawned")
    /\ UNCHANGED <<slots, kin, daemon, pipe, written, reader, captured, stopio, result>>

\* Popen raises: the slot is given back.
SpawnFails(r) ==
    /\ step[r] = "reserved"
    /\ slots' = slots + 1
    /\ Goes(r, "back") /\ Ends(r, "raised", TRUE)
    /\ UNCHANGED <<leader, kin, daemon, pipe, written, reader, captured, stopio>>

StartReader(r) ==
    /\ step[r] = "spawned"
    /\ reader' = [reader EXCEPT ![r] = "reading"] /\ Goes(r, "watch")
    /\ UNCHANGED <<slots, leader, kin, daemon, pipe, written, captured, stopio, result>>

\* No thread can be started: on to the finally.
StartFails(r) ==
    /\ step[r] = "spawned"
    /\ Goes(r, "stop") /\ stopio' = [stopio EXCEPT ![r] = TRUE]
    /\ Ends(r, "raised", TRUE)
    /\ UNCHANGED <<slots, leader, kin, daemon, pipe, written, reader, captured>>

\* Mutant: what was given up is not said to be missing.
GiveUpSilently(r, how) ==
    /\ step[r] \in {"watch", "reap"}
    /\ Ends(r, how, TRUE)
    /\ Goes(r, "stop") /\ stopio' = [stopio EXCEPT ![r] = TRUE]
    /\ UNCHANGED <<slots, leader, kin, daemon, pipe, written, reader, captured>>

\* The deadline or cancel_event: whatever the threads still have to read is
\* given up, and said to be missing.
GiveUp(r, how) ==
    /\ step[r] \in {"watch", "reap"}
    /\ Ends(r, how, reader[r] \in {"ended", "failed"})
    /\ Goes(r, "stop") /\ stopio' = [stopio EXCEPT ![r] = TRUE]
    /\ UNCHANGED <<slots, leader, kin, daemon, pipe, written, reader, captured>>

\* process.wait() returns: descendants in the group go down with the leader.
LeaderReaped(r) ==
    /\ step[r] = "watch" /\ leader[r] = "dead"
    /\ kin' = [kin EXCEPT ![r] = FALSE] /\ Goes(r, "reap")
    /\ UNCHANGED <<slots, leader, daemon, pipe, written, reader, captured, stopio, result>>

\* The loop ends by itself when every thread has come to the end of its pipe.
Drained(r) ==
    /\ step[r] = "reap" /\ reader[r] = "ended"
    /\ Ends(r, "done", TRUE)
    /\ Goes(r, "stop") /\ stopio' = [stopio EXCEPT ![r] = TRUE]
    /\ UNCHANGED <<slots, leader, kin, daemon, pipe, written, reader, captured>>

\* An exception of a thread is raised here.
WorkerError(r) ==
    /\ step[r] \in {"watch", "reap"} /\ reader[r] = "failed"
    /\ Goes(r, "stop") /\ stopio' = [stopio EXCEPT ![r] = TRUE]
    /\ UNCHANGED <<slots, leader, kin, daemon, pipe, written, reader, captured, result>>

\* Mutant: the slot is left to a reader that may never have been started.
CleanUpKeepsSlot(r) ==
    /\ step[r] = "stop"
    /\ leader' = [leader EXCEPT ![r] = "dead"] /\ kin' = [kin EXCEPT ![r] = FALSE]
    /\ Goes(r, "back")
    /\ IF reader[r] = "failed" THEN Ends(r, "raised", TRUE) ELSE UNCHANGED result
    /\ UNCHANGED <<slots, daemon, pipe, written, reader, captured, stopio>>

\* The finally: the group is stopped, the threads get a quarter of a second; a
\* reader that was never started leaves its slot to this thread.
CleanUp(r) ==
    /\ step[r] = "stop"
    /\ leader' = [leader EXCEPT ![r] = "dead"] /\ kin' = [kin EXCEPT ![r] = FALSE]
    /\ slots' = IF reader[r] = "none" THEN slots + 1 ELSE slots
    /\ Goes(r, "back")
    /\ IF reader[r] = "failed" THEN Ends(r, "raised", TRUE) ELSE UNCHANGED result
    /\ UNCHANGED <<daemon, pipe, written, reader, captured, stopio>>

-----------------------------------------------------------------------------
(* The stdout thread (stdout_work, _drain_stdout_lines)                    *)

PipeClosed(r) == leader[r] # "alive" /\ ~kin[r] /\ ~daemon[r]

\* The thread gives its slot back when it ends.
ReaderEnds(r, how) ==
    /\ reader' = [reader EXCEPT ![r] = how]
    /\ slots' = slots + 1

\* It captures what there is and calls back, unless stop_io was set meanwhile.
Read(r) ==
    /\ reader[r] = "reading" /\ pipe[r] > 0
    /\ IF stopio[r]
       THEN ReaderEnds(r, "ended") /\ UNCHANGED <<pipe, captured>>
       ELSE /\ pipe' = [pipe EXCEPT ![r] = @ - 1]
            /\ captured' = [captured EXCEPT ![r] = @ + 1]
            /\ reader' = [reader EXCEPT ![r] = "calling"] /\ UNCHANGED slots
    /\ UNCHANGED <<step, leader, kin, daemon, written, stopio, result>>

\* The callback returns; it may never do.
CallbackReturns(r) ==
    /\ reader[r] = "calling"
    /\ reader' = [reader EXCEPT ![r] = "reading"]
    /\ UNCHANGED <<slots, step, leader, kin, daemon, pipe, written, captured, stopio, result>>

ReaderStops(r) ==
    /\ reader[r] = "reading"
    /\ stopio[r] \/ (pipe[r] = 0 /\ PipeClosed(r))
    /\ ReaderEnds(r, "ended")
    /\ UNCHANGED <<step, leader, kin, daemon, pipe, written, captured, stopio, result>>

ReaderFails(r) ==
    /\ reader[r] = "reading"
    /\ ReaderEnds(r, "failed")
    /\ UNCHANGED <<step, leader, kin, daemon, pipe, written, captured, stopio, result>>

-----------------------------------------------------------------------------
(* The command (external): it writes, leaves descendants and exits.        *)

Write(r) ==
    /\ leader[r] = "alive" \/ kin[r] \/ daemon[r]
    /\ written[r] < MaxOutput
    /\ written' = [written EXCEPT ![r] = @ + 1]
    /\ pipe' = [pipe EXCEPT ![r] = @ + 1]
    /\ UNCHANGED <<slots, step, leader, kin, daemon, reader, captured, stopio, result>>

Fork(r) ==
    /\ leader[r] = "alive" /\ ~kin[r] /\ ~daemon[r]
    /\ \/ kin' = [kin EXCEPT ![r] = TRUE] /\ UNCHANGED daemon
       \/ daemon' = [daemon EXCEPT ![r] = TRUE] /\ UNCHANGED kin
    /\ UNCHANGED <<slots, step, leader, pipe, written, reader, captured, stopio, result>>

Exit(r) ==
    /\ \/ leader[r] = "alive" /\ leader' = [leader EXCEPT ![r] = "dead"]
                              /\ UNCHANGED <<kin, daemon>>
       \/ kin[r] /\ kin' = [kin EXCEPT ![r] = FALSE] /\ UNCHANGED <<leader, daemon>>
       \/ daemon[r] /\ daemon' = [daemon EXCEPT ![r] = FALSE] /\ UNCHANGED <<leader, kin>>
    /\ UNCHANGED <<slots, step, pipe, written, reader, captured, stopio, result>>

LocalProcessNext == \E r \in Runs :
    \/ Refuse(r) \/ Reserve(r) \/ Spawn(r) \/ SpawnFails(r)
    \/ StartReader(r) \/ StartFails(r)
    \/ \E how \in {"timeout", "cancelled"} : GiveUp(r, how)
    \/ LeaderReaped(r) \/ Drained(r) \/ WorkerError(r) \/ CleanUp(r)
    \/ Read(r) \/ CallbackReturns(r) \/ ReaderStops(r) \/ ReaderFails(r)
    \/ Write(r) \/ Fork(r) \/ Exit(r)

-----------------------------------------------------------------------------
(* Properties                                                              *)

Holds(r) ==
    \/ step[r] \in {"reserved", "spawned"}
    \/ reader[r] \in {"reading", "calling"}
    \/ step[r] = "stop" /\ reader[r] = "none"

(* A callback slot is held by the call that took it or by its reader, also *)
(* by one whose callback outlives the call, and comes back exactly once,   *)
(* on every way out (execution/local_process.py, _CALLBACK_SLOTS).         *)
SlotsConserved == slots + Cardinality({r \in Runs : Holds(r)}) = Slots

(* What the caller is told is true: after the call nothing of the process  *)
(* group is alive, and output that is not said to be incomplete is all the *)
(* group wrote.                                                            *)
ResultIsTrue == \A r \in Runs : step[r] = "back" /\ result[r].how # "refused" =>
    /\ leader[r] # "alive" /\ ~kin[r]
    /\ result[r].how # "raised" /\ result[r].whole => captured[r] = written[r]
=============================================================================
