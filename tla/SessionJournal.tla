---------------------------- MODULE SessionJournal ----------------------------
(***************************************************************************)
(* One durable session of the native harness: the manifest (session.json), *)
(* the event log (events.jsonl) and the process that owns the writer lease *)
(* and runs the tool loop.  Every durable write is a step of its own, so a *)
(* crash can fall between any two of them; a later process resumes or      *)
(* continues the session from what the disk holds.                         *)
(*                                                                         *)
(* While a process is up, its in-memory manifest equals the one on disk:   *)
(* every change to it is saved before the next await that a crash could    *)
(* separate from it, so one variable stands for both.                      *)
(*                                                                         *)
(* The subagents of a dispatch work beside the tool loop and share its     *)
(* journal: a wave of them is awaited together, and those left behind by   *)
(* one that raises go on as strays, beyond the call.  Reads that the       *)
(* scheduler runs as a parallel batch and transactions that a subagent     *)
(* proposed are not in this module (ToolTurn, Subagents have them), nor is *)
(* an emit() cut short by a cancellation (EventLog has it).                *)
(***************************************************************************)
EXTENDS Integers, Sequences, FiniteSets

CONSTANTS
    MaxCalls,    \* bound: calls and verification commands ever issued
    MaxBatch,    \* bound: tool calls in one model turn
    MaxCrashes,  \* bound: process deaths
    MaxTurns,    \* bound: user instructions (the first, then continuations)
    Tools,       \* kinds of tool call the model may issue
    Agents       \* bound: subagents that can be at work at once

ASSUME SessionAssumption ==
    /\ MaxCalls \in Nat /\ MaxBatch \in Nat
    /\ MaxCrashes \in Nat /\ MaxTurns \in Nat
    /\ Tools \subseteq {"READ", "MODIFY", "AGENT"}

VARIABLES
    manifest,   \* session.json
    log,        \* events.jsonl: how many lines, the last event's type, and
                \* the allow and start events among them (MarkEvents)
    tail,       \* how the last line of events.jsonl was left
    pc,         \* where the process is; "new" and "down": there is none
    queue,      \* the calls of this turn still to do, the current one first
    msgs,       \* TurnState.messages
    seq,        \* RunPersistence.sequence
    ev, ret,    \* the event being emitted, and where emit() returns to
    outcome,    \* the status finish() was given
    cancel,     \* cancel_requested
    ahead,      \* manifest_was_ahead of the resume being validated
    agents,     \* per subagent: the call it works for, and where it is
    issued, crashes, turns,     \* the bounded counters
    ran,        \* history: calls whose side effect has begun
    cut,        \* history: the calls whose side effect was running when the
                \* process died, until a resume
    live        \* history: calls issued by the process now running

durable == <<manifest, log, tail>>
process == <<pc, queue, msgs, seq, ev, ret, outcome, cancel, ahead, agents>>
history == <<ran, cut, live>>
bounds  == <<issued, crashes, turns>>
vars == <<durable, process, history, bounds>>

-----------------------------------------------------------------------------
Terminal == {"completed", "failed", "cancelled"}
Phases == {"created", "running", "waiting_approval", "verifying"} \cup Terminal
Whats == Tools \cup {"VERIFY"}
NoCall == [id |-> 0, what |-> "NONE"]
Call == [id : 1..MaxCalls, what : Whats]
Effects == {"READ", "MODIFY", "EXECUTE"}
Effect(c) == CASE c.what = "MODIFY" -> "MODIFY"
               [] c.what = "VERIFY" -> "EXECUTE"
               [] OTHER -> "READ"

\* A conversation item: a user (or harness) message, an assistant's tool
\* call, or the observation that answers one.
User == [k |-> "user", id |-> 0, says |-> "text"]
Calling(c) == [k |-> "call", id |-> c.id, says |-> "text"]
Obs(c, s) == [k |-> "obs", id |-> c.id, says |-> s]
Unperformed == {"denied", "invalid", "abandoned"}
Item == [k : {"user", "call", "obs"}, id : 0..MaxCalls,
         says : {"text", "ran"} \cup Unperformed]

\* approval.resolved carries its decision: allowed and refused are two types.
AllowEvents == {"approval.allowed", "approval.reused"}
StartEvents == {"tool.started", "verification.started"}
AgentEvents == {"subagents.agent_started", "subagents.agent_completed"}
EventTypes == {"run.created", "model.requested", "model.completed",
    "model.failed", "tool.requested", "hook.denied", "approval.requested",
    "approval.refused", "approval.abandoned", "tool.completed",
    "subagents.wave_started", "subagents.wave_completed",
    "verification.completed", "verification.reused", "loop.wind_down_started",
    "session.resumed", "session.continued", "run.error", "run.finished"}
    \cup AllowEvents \cup StartEvents \cup AgentEvents
Event == [type : EventTypes, id : 0..MaxCalls]
MarkEvents == [type : AllowEvents \cup StartEvents, id : 0..MaxCalls]
AppendTo(l, e) ==
    [lines |-> l.lines + 1, last |-> e.type,
     marks |-> l.marks \cup ({e} \cap MarkEvents)]
Manifest == [phase : Phases, terminal : BOOLEAN, lastSeq : Int,
             messages : Seq(Item), pending : Call \cup {NoCall},
             granted : SUBSET Effects]
Log == [lines : Nat, last : EventTypes \cup {"none"}, marks : SUBSET MarkEvents]
NoEvent == [type |-> "run.created", id |-> 0]

Decisions == {"ALLOW_ONCE", "ALLOW_SESSION", "DENY", "CANCEL"}
Downs == {"new", "down", "validating"}
PCs == Downs \cup {"emit", "append", "prepare", "loop", "model", "next",
    "ask", "waiting", "approved", "denied", "cancelled", "started", "tool",
    "dispatch", "wave", "gather", "effect", "in_effect", "observe",
    "deny_save", "final", "verify_failed", "finish", "exit", "reconcile"}
Up == pc \notin Downs
cur == Head(queue)

\* A subagent waits to announce itself, writes that line, works, waits to
\* report, writes that line.  One emission at a time holds _emit_lock from the
\* save of the manifest to the append.
AgentPlaces ==
    {"idle", "starting", "announcing", "working", "ending", "reporting"}
Resting == [call |-> NoCall, at |-> "idle"]
Writing(a) == agents[a].at \in {"announcing", "reporting"}
AgentEvent(a) ==
    [type |-> IF agents[a].at \in {"starting", "announcing"}
              THEN "subagents.agent_started" ELSE "subagents.agent_completed",
     id |-> agents[a].call.id]
LockFree == pc # "append" /\ \A a \in Agents : ~Writing(a)
InFlight == (IF pc = "append" THEN {ev} ELSE {})
    \cup {AgentEvent(a) : a \in {b \in Agents : Writing(b)}}
Crew(c) == {a \in Agents : agents[a].call = c}

\* The calls and commands whose side effect is running.
Underway == (IF pc = "in_effect" THEN {cur} ELSE {})
    \cup {agents[a].call : a \in {b \in Agents : agents[b].at = "working"}}

Logged(types, id) == \E e \in log.marks : e.type \in types /\ e.id = id

\* An awaited emit(): saving the manifest and appending the line are steps of
\* their own (EmitSave, EmitAppend); then control goes to next.
Emit(type, id, next) ==
    /\ ev' = [type |-> type, id |-> id]
    /\ pc' = "emit"
    /\ ret' = next
Goto(next) == pc' = next /\ UNCHANGED <<ev, ret>>
\* Mutant: the terminal flag keeps its old value.
CheckpointSamePhase(phase, m) ==
    manifest' = [manifest EXCEPT !.phase = phase, !.messages = m]
Checkpoint(phase, m) ==
    manifest' = [manifest EXCEPT !.phase = phase, !.messages = m,
                                 !.terminal = phase \in Terminal]
Finish(status) == outcome' = status /\ Goto("finish")

Init ==
    /\ manifest = [phase |-> "created", terminal |-> FALSE, lastSeq |-> -1,
                   messages |-> <<>>, pending |-> NoCall, granted |-> {}]
    /\ log = [lines |-> 0, last |-> "none", marks |-> {}] /\ tail = "ok"
    /\ pc = "new" /\ queue = <<>> /\ msgs = <<>> /\ seq = 0
    /\ ev = NoEvent /\ ret = "new" /\ outcome = "failed"
    /\ cancel = FALSE /\ ahead = FALSE /\ agents = [a \in Agents |-> Resting]
    /\ issued = 0 /\ crashes = 0 /\ turns = 0
    /\ ran = {} /\ cut = {} /\ live = {}

-----------------------------------------------------------------------------
(* The journal: RunPersistence.emit *)

\* Mutant: the snapshot does not name the event it announces.
EmitSaveStale ==
    /\ pc = "emit" /\ LockFree
    /\ manifest' = [manifest EXCEPT !.messages = msgs]
    /\ Goto("append")
    /\ UNCHANGED <<log, tail, queue, msgs, seq, outcome, cancel, ahead,
                   agents, history, bounds>>

\* The manifest snapshot that names the event is saved before its line.
EmitSave ==
    /\ pc = "emit" /\ LockFree
    /\ manifest' = [manifest EXCEPT !.lastSeq = seq, !.messages = msgs]
    /\ Goto("append")
    /\ UNCHANGED <<log, tail, queue, msgs, seq, outcome, cancel, ahead,
                   agents, history, bounds>>

\* A line appended to an unterminated one spoils both.
EmitAppend ==
    /\ pc = "append"
    /\ log' = AppendTo(log, ev)
    /\ tail' = IF tail = "ok" THEN "ok" ELSE "torn"
    /\ seq' = seq + 1
    /\ pc' = ret /\ ret' = "new" /\ ev' = NoEvent
    /\ UNCHANGED <<manifest, queue, msgs, outcome, cancel, ahead, agents,
                   history, bounds>>

-----------------------------------------------------------------------------
(* A fresh run, and the loop up to the model's answer *)

Launch ==
    /\ pc = "new" /\ turns < MaxTurns
    /\ turns' = turns + 1
    /\ Emit("run.created", 0, "prepare")
    /\ UNCHANGED <<durable, queue, msgs, seq, outcome, cancel, ahead, agents,
                   history, issued, crashes>>

\* The workspace is cloned, the first messages built and checkpointed.
Prepare ==
    /\ pc = "prepare"
    /\ msgs' = <<User>>
    /\ Checkpoint("running", msgs')
    /\ Goto("loop")
    /\ UNCHANGED <<log, tail, queue, seq, outcome, cancel, ahead, agents,
                   history, bounds>>

UserCancel ==
    /\ Up /\ ~cancel
    /\ cancel' = TRUE
    /\ UNCHANGED <<durable, pc, queue, msgs, seq, ev, ret, outcome, ahead,
                   agents, history, bounds>>

\* The loop's exits before a model request: cancelled, or out of wall time.
StopAtLoop ==
    /\ pc = "loop"
    /\ IF cancel THEN Finish("cancelled") ELSE Finish("failed")
    /\ UNCHANGED <<durable, queue, msgs, seq, cancel, ahead, agents, history,
                   bounds>>

OutOfSteps ==
    /\ pc = "loop"
    /\ msgs' = Append(msgs, User)
    /\ outcome' = "failed"
    /\ Emit("loop.wind_down_started", 0, "finish")
    /\ UNCHANGED <<durable, queue, seq, cancel, ahead, agents, history,
                   bounds>>

RequestModel ==
    /\ pc = "loop" /\ ~cancel
    /\ Emit("model.requested", 0, "model")
    /\ UNCHANGED <<durable, queue, msgs, seq, outcome, cancel, ahead, agents,
                   history, bounds>>

\* complete_model_with_retry returns no turn once cancellation is requested;
\* a turn that exhausts the token budget is dropped.
NoTurn ==
    /\ pc = "model"
    /\ \/ cancel /\ Finish("cancelled")
       \/ Finish("failed")
    /\ UNCHANGED <<durable, queue, msgs, seq, cancel, ahead, agents, history,
                   bounds>>

ModelFailed ==
    /\ pc = "model"
    /\ outcome' = "failed"
    /\ Emit("model.failed", 0, "finish")
    /\ UNCHANGED <<durable, queue, msgs, seq, cancel, ahead, agents, history,
                   bounds>>

ModelCalls ==
    /\ pc = "model"
    /\ \E n \in 1..MaxBatch : \E w \in [1..n -> Tools] :
         LET calls == [i \in 1..n |-> [id |-> issued + i, what |-> w[i]]]
         IN  /\ issued + n <= MaxCalls
             /\ issued' = issued + n
             /\ queue' = calls
             /\ msgs' = msgs \o [i \in 1..n |-> Calling(calls[i])]
             /\ live' = live \cup (issued + 1)..(issued + n)
    /\ Emit("model.completed", 0, "next")
    /\ UNCHANGED <<durable, seq, outcome, cancel, ahead, agents, ran, cut,
                   crashes, turns>>

ModelAnswers ==
    /\ pc = "model"
    /\ Emit("model.completed", 0, "final")
    /\ UNCHANGED <<durable, queue, msgs, seq, outcome, cancel, ahead, agents,
                   history, bounds>>

-----------------------------------------------------------------------------
(* One tool call: prepare_tool_call *)

NextCall ==
    /\ pc = "next"
    /\ \/ /\ queue = <<>>
          /\ Goto("loop") /\ UNCHANGED <<msgs, queue, outcome>>
       \/ /\ queue # <<>> /\ cancel
          /\ Finish("cancelled") /\ UNCHANGED <<msgs, queue>>
       \/ /\ queue # <<>> /\ ~cancel
          /\ Emit("tool.requested", cur.id, "ask")
          /\ UNCHANGED <<msgs, queue, outcome>>
       \/ /\ queue # <<>> /\ ~cancel      \* the third repetition of a call
          /\ Finish("failed") /\ UNCHANGED <<msgs, queue>>
    /\ UNCHANGED <<durable, seq, cancel, ahead, agents, history, bounds>>

\* Mutant: the rejected call is dropped without an observation.
RejectCallSilently ==
    /\ pc = "ask" /\ cur.what # "VERIFY"
    /\ queue' = Tail(queue)
    /\ Emit("tool.completed", cur.id, "next")
    /\ UNCHANGED <<durable, msgs, seq, outcome, cancel, ahead, agents,
                   history, bounds>>

\* An unknown tool (before tool.requested) or an invalid patch (after it) is
\* answered with an error observation and no checkpoint.
RejectCall ==
    /\ \/ pc = "next" /\ ~cancel
       \/ pc = "ask"
    /\ queue # <<>>
    /\ cur.what # "VERIFY"
    /\ msgs' = Append(msgs, Obs(cur, "invalid"))
    /\ queue' = Tail(queue)
    /\ Emit("tool.completed", cur.id, "next")
    /\ UNCHANGED <<durable, seq, outcome, cancel, ahead, agents, history,
                   bounds>>

\* Mutant: the hook's verdict is logged and then ignored.
HookIgnored ==
    /\ pc = "ask" /\ cur.what # "VERIFY"
    /\ Emit("hook.denied", cur.id, "approved")
    /\ UNCHANGED <<durable, queue, msgs, seq, outcome, cancel, ahead, agents,
                   history, bounds>>

HookDenies ==
    /\ pc = "ask" /\ cur.what # "VERIFY"
    /\ Emit("hook.denied", cur.id, "denied")
    /\ UNCHANGED <<durable, queue, msgs, seq, outcome, cancel, ahead, agents,
                   history, bounds>>

Pending(c) == IF Effect(c) = "READ" THEN NoCall ELSE c

ReuseGrant ==
    /\ pc = "ask" /\ Effect(cur) \in manifest.granted
    /\ manifest' = [manifest EXCEPT !.phase = "running", !.pending = Pending(cur)]
    /\ Emit("approval.reused", cur.id, "approved")
    /\ UNCHANGED <<log, tail, queue, msgs, seq, outcome, cancel, ahead,
                   agents, history, bounds>>

\* Not granted, or granted while the permission guard has an opinion.
RequestApproval ==
    /\ pc = "ask"
    /\ manifest' = [manifest EXCEPT !.phase = "waiting_approval", !.pending = cur]
    /\ Emit("approval.requested", cur.id, "waiting")
    /\ UNCHANGED <<log, tail, queue, msgs, seq, outcome, cancel, ahead,
                   agents, history, bounds>>

\* With a session grant only the guard's own decisions can arrive here.
Decide(d) ==
    /\ pc = "waiting"
    /\ Effect(cur) \in manifest.granted => d \in {"ALLOW_ONCE", "DENY"}
    /\ manifest' = [manifest EXCEPT
          !.phase = "running",
          !.pending = IF d \in {"DENY", "CANCEL"} THEN NoCall ELSE Pending(cur),
          !.granted = IF d = "ALLOW_SESSION" THEN @ \cup {Effect(cur)} ELSE @]
    /\ CASE d = "DENY"   -> Emit("approval.refused", cur.id, "denied")
         [] d = "CANCEL" -> Emit("approval.refused", cur.id, "cancelled")
         [] OTHER        -> Emit("approval.allowed", cur.id, "approved")
    /\ UNCHANGED <<log, tail, queue, msgs, seq, outcome, cancel, ahead,
                   agents, history, bounds>>

ApprovalCancelled ==
    /\ pc = "cancelled"
    /\ Finish("cancelled")
    /\ UNCHANGED <<durable, queue, msgs, seq, cancel, ahead, agents, history,
                   bounds>>

\* A denied verification command fails; a denied tool call is answered.
Denied ==
    /\ pc = "denied"
    /\ \/ /\ cancel
          /\ Finish("cancelled") /\ UNCHANGED msgs
       \/ /\ ~cancel /\ cur.what = "VERIFY"
          /\ Emit("verification.completed", cur.id, "verify_failed")
          /\ UNCHANGED <<msgs, outcome>>
       \/ /\ ~cancel /\ cur.what # "VERIFY"
          /\ msgs' = Append(msgs, Obs(cur, "denied"))
          /\ Emit("tool.completed", cur.id, "deny_save")
          /\ UNCHANGED outcome
    /\ UNCHANGED <<durable, queue, seq, cancel, ahead, agents, history,
                   bounds>>

DenySave ==
    /\ pc = "deny_save"
    /\ Checkpoint("running", msgs)
    /\ queue' = Tail(queue)
    /\ Goto("next")
    /\ UNCHANGED <<log, tail, msgs, seq, outcome, cancel, ahead, agents,
                   history, bounds>>

-----------------------------------------------------------------------------
(* execute_prepared_tool_call, and verify_all's command *)

\* A cancellation after the decision leaves the approved action pending.
Approved ==
    /\ pc = "approved"
    /\ IF cancel THEN Finish("cancelled")
       ELSE /\ Emit(IF cur.what = "VERIFY" THEN "verification.started"
                    ELSE "tool.started", cur.id, "started")
            /\ UNCHANGED outcome
    /\ UNCHANGED <<durable, queue, msgs, seq, cancel, ahead, agents, history,
                   bounds>>

\* Mutant: the pending action is never cleared.
MarkStartedKeeps ==
    /\ pc = "started"
    /\ Goto("tool")
    /\ UNCHANGED <<durable, queue, msgs, seq, outcome, cancel, ahead, agents,
                   history, bounds>>

\* The pending action is cleared only once its started event is durable.
MarkStarted ==
    /\ pc = "started"
    /\ manifest' = IF manifest.pending = cur
                   THEN [manifest EXCEPT !.pending = NoCall] ELSE manifest
    /\ Goto("tool")
    /\ UNCHANGED <<log, tail, queue, msgs, seq, outcome, cancel, ahead,
                   agents, history, bounds>>

EnterTool ==
    /\ pc = "tool"
    /\ Goto(IF cur.what = "AGENT" THEN "dispatch" ELSE "effect")
    /\ UNCHANGED <<durable, queue, msgs, seq, outcome, cancel, ahead, agents,
                   history, bounds>>

BeginEffect ==
    /\ pc = "effect"
    /\ ran' = ran \cup {cur.id}
    /\ Goto("in_effect")
    /\ UNCHANGED <<durable, queue, msgs, seq, outcome, cancel, ahead, agents,
                   cut, live, bounds>>

EndEffect ==
    /\ pc = "in_effect"
    /\ Emit(IF cur.what = "VERIFY" THEN "verification.completed"
            ELSE "tool.completed", cur.id, "observe")
    /\ UNCHANGED <<durable, queue, msgs, seq, outcome, cancel, ahead, agents,
                   history, bounds>>

\* Only after tool.completed is durable does the runner append the
\* observation and checkpoint it.
Observe ==
    /\ pc = "observe" /\ cur.what # "VERIFY"
    /\ msgs' = Append(msgs, Obs(cur, "ran"))
    /\ Checkpoint("running", msgs')
    /\ queue' = Tail(queue)
    /\ IF cancel THEN Finish("cancelled") ELSE Goto("next") /\ UNCHANGED outcome
    /\ UNCHANGED <<log, tail, seq, cancel, ahead, agents, history, bounds>>

Verified ==
    /\ pc = "observe" /\ cur.what = "VERIFY"
    /\ \/ /\ cancel
          /\ Finish("cancelled")
       \/ /\ ~cancel
          /\ Finish("completed")
       \/ /\ ~cancel
          /\ Goto("verify_failed") /\ UNCHANGED outcome
    /\ UNCHANGED <<durable, queue, msgs, seq, cancel, ahead, agents, history,
                   bounds>>

VerifyFailed ==
    /\ pc = "verify_failed"
    /\ msgs' = Append(msgs, User)
    /\ Checkpoint("verifying", msgs')
    /\ queue' = <<>>
    /\ Goto("loop")
    /\ UNCHANGED <<log, tail, seq, outcome, cancel, ahead, agents, history,
                   bounds>>

\* The final answer: nothing to verify, cached evidence, or a command to run.
FinalAnswer ==
    /\ pc = "final"
    /\ \/ /\ Finish("completed")
          /\ UNCHANGED <<queue, issued>>
       \/ /\ cancel
          /\ Finish("cancelled")
          /\ UNCHANGED <<queue, issued>>
       \/ /\ ~cancel
          /\ outcome' = "completed"
          /\ Emit("verification.reused", 0, "finish")
          /\ UNCHANGED <<queue, issued>>
       \/ /\ ~cancel /\ issued < MaxCalls
          /\ issued' = issued + 1
          /\ queue' = <<[id |-> issued', what |-> "VERIFY"]>>
          /\ Goto("ask") /\ UNCHANGED outcome
    /\ UNCHANGED <<durable, msgs, seq, cancel, ahead, agents, history,
                   crashes, turns>>

-----------------------------------------------------------------------------
(* A subagent call: run_dispatch_subagents and its run_one tasks *)

\* Waves follow one another until the schedule is through or turns out to be
\* invalid; either way the call is answered.
NextWave ==
    /\ pc = "dispatch"
    /\ \/ Emit("subagents.wave_started", cur.id, "wave")
       \/ Emit("tool.completed", cur.id, "observe")
    /\ UNCHANGED <<durable, queue, msgs, seq, outcome, cancel, ahead, agents,
                   history, bounds>>

StartWave ==
    /\ pc = "wave"
    /\ \E crew \in SUBSET {a \in Agents : agents[a] = Resting} :
         /\ crew # {}
         /\ agents' = [a \in Agents |-> IF a \in crew
                         THEN [call |-> cur, at |-> "starting"] ELSE agents[a]]
    /\ Goto("gather")
    /\ UNCHANGED <<durable, queue, msgs, seq, outcome, cancel, ahead, history,
                   bounds>>

\* emit(), as a subagent calls it: the line it names waits for the lock.
AgentSave(a) ==
    /\ agents[a].at \in {"starting", "ending"} /\ LockFree
    /\ manifest' = [manifest EXCEPT !.lastSeq = seq, !.messages = msgs]
    /\ agents' = [agents EXCEPT ![a].at =
                    IF @ = "starting" THEN "announcing" ELSE "reporting"]
    /\ UNCHANGED <<log, tail, pc, queue, msgs, seq, ev, ret, outcome, cancel,
                   ahead, history, bounds>>

\* Once announced it works: by default it edits the parent's workspace.
AgentAppend(a) ==
    /\ Writing(a)
    /\ log' = AppendTo(log, AgentEvent(a))
    /\ tail' = IF tail = "ok" THEN "ok" ELSE "torn"
    /\ seq' = seq + 1
    /\ IF agents[a].at = "announcing"
       THEN /\ agents' = [agents EXCEPT ![a].at = "working"]
            /\ ran' = ran \cup {agents[a].call.id}
       ELSE agents' = [agents EXCEPT ![a] = Resting] /\ UNCHANGED ran
    /\ UNCHANGED <<manifest, pc, queue, msgs, ev, ret, outcome, cancel, ahead,
                   cut, live, bounds>>

AgentEnds(a) ==
    /\ agents[a].at = "working"
    /\ agents' = [agents EXCEPT ![a].at = "ending"]
    /\ UNCHANGED <<durable, pc, queue, msgs, seq, ev, ret, outcome, cancel,
                   ahead, history, bounds>>

Gathered(a) == pc = "gather" /\ agents[a].call = cur

\* What one of the awaited raises ends the call, as a failed observation or as
\* the run's error; its siblings go on.  What a stray raises nobody hears.
AgentRaises(a) ==
    /\ agents[a].at \in {"starting", "working"}
    /\ agents' = [agents EXCEPT ![a] = Resting]
    /\ \/ /\ Gathered(a)
          /\ Emit("tool.completed", cur.id, "observe") /\ UNCHANGED outcome
       \/ /\ Gathered(a)
          /\ outcome' = "failed" /\ Emit("run.error", 0, "finish")
       \/ /\ ~Gathered(a)
          /\ UNCHANGED <<pc, ev, ret, outcome>>
    /\ UNCHANGED <<durable, queue, msgs, seq, cancel, ahead, history, bounds>>

\* The deadline cancels the whole wave.
WaveTimeout ==
    /\ pc = "gather" /\ Crew(cur) # {}
    /\ \A a \in Crew(cur) : ~Writing(a)
    /\ agents' = [a \in Agents |->
                    IF a \in Crew(cur) THEN Resting ELSE agents[a]]
    /\ Emit("tool.completed", cur.id, "observe")
    /\ UNCHANGED <<durable, queue, msgs, seq, outcome, cancel, ahead, history,
                   bounds>>

WaveDone ==
    /\ pc = "gather" /\ Crew(cur) = {}
    /\ Emit("subagents.wave_completed", cur.id, "dispatch")
    /\ UNCHANGED <<durable, queue, msgs, seq, outcome, cancel, ahead, agents,
                   history, bounds>>

Dispatch ==
    \/ NextWave \/ StartWave \/ WaveTimeout \/ WaveDone
    \/ \E a \in Agents :
         AgentSave(a) \/ AgentAppend(a) \/ AgentEnds(a) \/ AgentRaises(a)

-----------------------------------------------------------------------------
(* The end of a run *)

\* Any other exception of the engine, the approval policy or a tool.
EngineError ==
    /\ pc \in {"prepare", "model", "waiting", "in_effect"}
    /\ outcome' = "failed"
    /\ Emit("run.error", 0, "finish")
    /\ UNCHANGED <<durable, queue, msgs, seq, cancel, ahead, agents, history,
                   bounds>>

\* A patch that cannot be collected turns any status into failed.
FinishRun ==
    /\ pc = "finish"
    /\ \E status \in {outcome, "failed"} : Checkpoint(status, msgs)
    /\ Emit("run.finished", 0, "exit")
    /\ UNCHANGED <<log, tail, queue, msgs, seq, outcome, cancel, ahead,
                   agents, history, bounds>>

\* A process that ends takes its strays with it.
Forget(next) ==
    /\ agents' = [a \in Agents |-> Resting]
    /\ pc' = next /\ queue' = <<>> /\ msgs' = <<>> /\ seq' = 0
    /\ ev' = NoEvent /\ ret' = "new" /\ outcome' = "failed"
    /\ cancel' = FALSE /\ ahead' = FALSE /\ live' = {}

Exit ==
    /\ pc = "exit"
    /\ Forget("down")
    /\ UNCHANGED <<durable, ran, cut, bounds>>

\* A death during the append leaves nothing, a torn line, the whole line
\* without its newline, or the whole line.
Crash ==
    /\ pc \notin {"new", "down"} /\ crashes < MaxCrashes
    /\ crashes' = crashes + 1
    /\ Forget("down")
    /\ cut' = cut \cup Underway
    /\ \/ UNCHANGED <<log, tail>>
       \/ InFlight # {} /\ tail' = "torn" /\ UNCHANGED log
       \/ \E e \in InFlight :
            /\ log' = AppendTo(log, e)
            /\ tail' \in IF tail = "ok" THEN {"ok", "open"} ELSE {"torn"}
    /\ UNCHANGED <<manifest, ran, issued, turns>>

-----------------------------------------------------------------------------
(* claim_and_validate_resume, resume, _open_continuation *)

\* A log with an invalid line is refused; a manifest one event ahead of the
\* log is rolled back and saved before the rest is validated.
Claim ==
    /\ pc = "down" /\ tail # "torn"
    /\ manifest.lastSeq \in {log.lines - 1, log.lines}
    /\ ahead' = (manifest.lastSeq = log.lines)
    /\ manifest' = [manifest EXCEPT !.lastSeq = log.lines - 1]
    /\ Goto("validating")
    /\ UNCHANGED <<log, tail, queue, msgs, seq, outcome, cancel, agents,
                   history, bounds>>

\* Mutant: verification commands are forgotten.
AmbiguousToolOnly == ~ahead /\ log.last = "tool.started"
Ambiguous == ~ahead /\ log.last \in StartEvents

\* The session was ambiguous or terminal, or its workspace did not validate.
Refuse ==
    /\ pc = "validating"
    /\ Forget("down")
    /\ UNCHANGED <<durable, ran, cut, bounds>>

\* Mutant: a terminal session is resumed like any other.
ResumeTerminal ==
    /\ pc = "validating" /\ ~Ambiguous
    /\ msgs' = manifest.messages
    /\ seq' = manifest.lastSeq + 1
    /\ cut' = {}
    /\ Emit("session.resumed", 0, "reconcile")
    /\ UNCHANGED <<durable, queue, outcome, cancel, ahead, agents, ran, live,
                   bounds>>

\* Mutant: the resumed log is continued one line too low.
ResumeReuseLine ==
    /\ pc = "validating" /\ ~Ambiguous /\ ~manifest.terminal
    /\ msgs' = manifest.messages
    /\ seq' = manifest.lastSeq
    /\ cut' = {}
    /\ Emit("session.resumed", 0, "reconcile")
    /\ UNCHANGED <<durable, queue, outcome, cancel, ahead, agents, ran, live,
                   bounds>>

Resume ==
    /\ pc = "validating" /\ ~Ambiguous /\ ~manifest.terminal
    /\ msgs' = manifest.messages
    /\ seq' = manifest.lastSeq + 1
    /\ cut' = {}
    /\ Emit("session.resumed", 0, "reconcile")
    /\ UNCHANGED <<durable, queue, outcome, cancel, ahead, agents, ran, live,
                   bounds>>

Continue ==
    /\ pc = "validating" /\ ~Ambiguous /\ turns < MaxTurns
    /\ turns' = turns + 1
    /\ msgs' = Append(manifest.messages, User)
    /\ Checkpoint("running", msgs')
    /\ seq' = manifest.lastSeq + 1
    /\ cut' = {}
    /\ Emit("session.continued", 0, "reconcile")
    /\ UNCHANGED <<log, tail, queue, outcome, cancel, ahead, agents, ran,
                   live, issued, crashes>>

\* _reconcile_interrupted_approval
Reconcile ==
    /\ pc = "reconcile"
    /\ IF manifest.pending = NoCall
       THEN Goto("loop") /\ UNCHANGED <<manifest, msgs>>
       ELSE LET p == manifest.pending
            IN  /\ msgs' = Append(msgs, IF p.what = "VERIFY" THEN User
                                        ELSE Obs(p, "abandoned"))
                /\ manifest' = [manifest EXCEPT !.phase = "running",
                                  !.pending = NoCall, !.messages = msgs']
                /\ Emit("approval.abandoned", p.id, "loop")
    /\ UNCHANGED <<log, tail, queue, seq, outcome, cancel, ahead, agents,
                   history, bounds>>

-----------------------------------------------------------------------------
Next ==
    \/ EmitSave \/ EmitAppend
    \/ Launch \/ Prepare \/ UserCancel \/ StopAtLoop \/ OutOfSteps
    \/ RequestModel \/ NoTurn \/ ModelFailed \/ ModelCalls \/ ModelAnswers
    \/ NextCall \/ RejectCall \/ HookDenies \/ ReuseGrant \/ RequestApproval
    \/ \E d \in Decisions : Decide(d)
    \/ ApprovalCancelled \/ Denied \/ DenySave
    \/ Approved \/ MarkStarted \/ EnterTool \/ BeginEffect \/ EndEffect
    \/ Observe \/ Verified \/ VerifyFailed \/ FinalAnswer
    \/ Dispatch
    \/ EngineError \/ FinishRun \/ Exit \/ Crash
    \/ Claim \/ Refuse \/ Resume \/ Continue \/ Reconcile

Spec == Init /\ [][Next]_vars

-----------------------------------------------------------------------------
(* Properties *)

\* Every variable has its type.
TypeOK ==
    /\ manifest \in Manifest /\ log \in Log
    /\ tail \in {"ok", "open", "torn"}
    /\ pc \in PCs /\ ret \in PCs
    /\ queue \in Seq(Call)
    /\ msgs \in Seq(Item)
    /\ seq \in Nat
    /\ ev \in Event
    /\ outcome \in Terminal
    /\ cancel \in BOOLEAN /\ ahead \in BOOLEAN
    /\ issued \in 0..MaxCalls /\ crashes \in Nat /\ turns \in Nat
    /\ ran \subseteq 1..MaxCalls /\ live \subseteq 1..MaxCalls
    /\ cut \subseteq Call
    /\ agents \in [Agents -> [call : Call \cup {NoCall}, at : AgentPlaces]]

\* Wherever the process dies, also while recovering, the manifest names the
\* last line of the log or the one after it: _validate_events never refuses a
\* session because its sequence numbers disagree.
JournalAligned == manifest.lastSeq \in {log.lines - 1, log.lines}

\* model_copy(update=...) skips SessionManifest.validate_lifecycle, so nothing
\* but the order of the updates keeps the manifest on disk one that load()
\* accepts; save() loads it before every write.
ManifestLoadable ==
    /\ manifest.terminal = (manifest.phase \in Terminal)
    /\ manifest.phase = "waiting_approval" => manifest.pending # NoCall

Histories == {msgs, manifest.messages}
Issued(m) == {m[i].id : i \in {j \in DOMAIN m : m[j].k = "call"}}
Answered(m) == {m[i].id : i \in {j \in DOMAIN m : m[j].k = "obs"}}

\* What the conversation says was not performed (denied, invalid, or
\* "approval was interrupted before execution; the action was not performed")
\* never ran, in this process or an earlier one.
UnperformedNeverRan ==
    \A m \in Histories : \A i \in DOMAIN m :
        m[i].k = "obs" /\ m[i].says \in Unperformed => m[i].id \notin ran

\* No call gets two observations, one from the process that ran or refused it
\* and one from the reconciliation of a later process.
AnsweredOnce ==
    \A m \in Histories : \A i, j \in DOMAIN m :
        m[i].k = "obs" /\ m[j].k = "obs" /\ m[i].id = m[j].id => i = j

\* No side effect begins before its started event is in the log, nor is one
\* started there without the approval that allowed it, granted or reused.
EffectIsJournaled ==
    /\ \A id \in ran : Logged(StartEvents, id)
    /\ \A id \in 1..MaxCalls : Logged(StartEvents, id) => Logged(AllowEvents, id)

\* Within one process every call is answered before the next model request:
\* by its result, a denial or an error, whatever the approver, the hooks and
\* the cancellation do.
LiveCallsAnswered ==
    pc = "model" => Issued(msgs) \cap live \subseteq Answered(msgs)

\* A session that died inside a side effect is not resumed or continued,
\* however many recoveries were tried and died in between
\* (claim_and_validate_resume's "stopped during a side effect").
NoResumeMidEffect ==
    [][pc = "validating" /\ pc' = "emit" => cut = {}]_vars

\* What is left of that beside subagents: one that died inside a tool's or a
\* verification command's own side effect is handed over only if a subagent
\* left behind by an earlier call spoke after the start.  Its line is the last
\* of the log, or it is the event the manifest was ahead by, and
\* claim_and_validate_resume then does not look at the last line at all.
OnlyAgentsResumeMidEffect ==
    [][pc = "validating" /\ pc' = "emit" /\ (\E c \in cut : c.what # "AGENT")
         => ahead \/ log.last \in AgentEvents]_vars

\* A terminal session becomes active again only through a new user turn.
TerminalNeedsContinuation ==
    [][manifest.terminal /\ ~manifest'.terminal => turns' = turns + 1]_vars

\* What _reconcile_interrupted_approval's docstring claims: after it the
\* conversation goes to the provider without an orphaned tool call.
NoOrphanAfterReconcile ==
    pc = "emit" /\ ev.type = "model.requested" /\ log.last = "approval.abandoned"
        => Issued(msgs) \subseteq Answered(msgs)
=============================================================================
