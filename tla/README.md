# Looplane: TLA+ models and proofs

Looplane is a coding agent: a native harness that runs a model's tool calls on a
workspace and journals what it does, adapters that drive other agents as
conversations, a terminal and an SDK in front of both, and a Cloudflare Worker
that runs the harness remotely in a container. These modules model the parts
whose correctness depends on the order of steps: writes and deaths, callbacks,
messages, cancellations and timeouts. Every definition is a translation of the
code; `PROJECT.json` names its lines under `"map"`.

    tlc -workers 2 -config Journal.cfg MCSessionJournal
    tlapm SessionJournal_proofs.tla

| module | models |
|---|---|
| `SessionJournal` | a durable session of the native harness: manifest, event log, tool loop, approvals, concurrent subagents, deaths, recovery |
| `SessionJournal_proofs` | theorems about its order: numbering, approval and start before the effect, which resumes inside one are possible |
| `SessionHistory_proofs` | theorems about what it says: manifests that load, observations that are true and single, calls answered in time |
| `MCSessionJournal` | the view and the symmetry under which TLC explores it |
| `Workspace`, `MCWorkspace` | the files of a session, the tools that edit them, transactions, the verification gate |
| `Workspace_proofs` | their theorems |
| `ControlPlane`, `MCControlPlane` | one remote run: two Durable Objects, the Worker's routes and background run, the agent's event sink and approval poller |
| `RemoteRun` | what the control plane promises of a run (abstract) |
| `ControlPlane_proofs` | theorems about the plane, and that it implements `RemoteRun` |
| `Conversation` | one external conversation: controller, turn handles, Codex session and its reader, the audited host, the app-server |
| `Conversation_proofs` | theorems about it, and that it implements `TurnService` |
| `ConversationOrder_proofs` | the theorem that a sink sees consecutive events |
| `ConversationWire_proofs` | theorems about what goes through the two pipes: whose events a sink sees, what the app-server works on |
| `TurnService` | what a conversation promises its embedder (abstract) |
| `ToolTurn` | the tool calls of one model turn: batches of reads, denials, interruption |
| `Subagents` | a dispatching run: waves of subagents, their transactions, tasks that outlive their call |
| `EventLog` | session.json and events.jsonl under several emitters, cancelled writes, the writer lease |
| `LocalProcess` | `run_local_process`: process group, readers, callback slots, deadline |
| `McpStdio` | the stdio MCP client and its server |
| `Credentials` | the subscription credential under several tasks and processes |
| `Sockets` | the WebSocket front: session table, connections, eviction |
| `ClaudeSession` | the Claude session, its reader task and the Node sidecar |
| `Services`, `MCServices` | the last eight side by side, for one run |
| `Services_proofs` | theorems about all eight |

## 1. Inventory

Paths are relative to `src/src/looplane/`, those of the Worker to
`src/cloudflare/src/`. `PROJECT.json` has the same list under `"components"`, with
what is left out, and under `"hazards"` the places that are hard to test.

**Durable session and native tool loop** (`agent/runner.py`, `agent/checkpoints.py`,
`session.py`, `events.py`, `agent/tool_scheduler.py`, `agent/verification.py`,
`agent/completion.py`, `agent/run_lifecycle.py`, `approvals.py`).
*State*: `session.json` (phase, terminal, conversation, pending action, granted
effects, last event number), `events.jsonl`, and in memory the conversation, the
sequence counter and the calls of the current turn.
*Operations*: emit an event (save the manifest, then append the line), checkpoint,
request a model turn, prepare, approve, execute and observe a call, verify, finish;
claim, resume, continue, reconcile an interrupted approval.
*Interaction*: approval policies and hooks are awaited callbacks; a second process
takes over through the files alone.
*Hard*: a death between any two writes and inside one; recovery that dies too;
cancellation at every await; updates that bypass the manifest's validator.
*Correct when*: the journal always lets a later process recover; what the
conversation says did not happen did not; no side effect runs unjournaled or
unapproved; a session that died inside a side effect is not resumed, unless a
subagent's line hides it; a call is answered once, and before the next model request.

**Cloudflare control plane** (`control-plane.ts`, `run-session-do.ts`,
`capability-do.ts`, `index.ts`) with the **Sandbox entry** (`sandbox_entry.py`).
*State*: the record of the run's `RunSession` object (status, live events, pending
approvals, decisions, error), the record of its `RunCapability` object (active,
uses, expiry), where the background run is, whether the container is up.
*Operations*: run, cancel, decide, read; model, event and approval requests of the
agent; activate, mark running, stage, execute, read the result, complete, fail,
revoke, destroy.
*Interaction*: each object serialises its own transactions; a Worker handler that
calls both is not atomic; `waitUntil()` keeps the background run alive; the agent
posts events best effort and polls for decisions.
*Hard*: a cancellation against every step of the background run; a check in one
object and a write in the other; calls that throw after taking effect; client
timeouts while the server goes on; the platform ending the background run.
*Correct when*: a terminal status is final; a revoked run makes no more model
calls; a recorded decision that the agent finds is the one carried out; no container is
left behind silently; every run ends, if none of its unbounded calls hangs.

**Conversation controller and runtime sessions** (`conversation_controller.py`,
`conversation_runtime.py`, `runtimes/codex/*`, `claude_agent_session.py`,
`conversation_websocket.py`). *State*: turn lock, lifecycle lock, closed and
started flags, injected context, shared limiter; per runtime the turn being
started or active, its native identities, outstanding requests, the event queue.
*Operations*: start, turn, cancel, compact, inject, close; handle a frame of the
app-server. *Hard*: the reader task, the turn, a cancellation, a close and the
server interleave at every await; interrupt and completion race; a compaction's
last events arrive after it has returned. *Correct when*: one native turn at a
time; every event is delivered to its own turn, once and in order, while the
conversation is open; a turn reported cancelled is no longer running; a cancelled
turn ends; injected context is sent once.

**Workspace, tools and verification gate** (`tooling/*`, `agent/verification.py`,
`agent/completion.py`). *State*: files, versions last read, the read cache, a
transaction's snapshot, evidence of checks, the verified fingerprint. *Hard*: the
user, a formatter or a subagent edits between any two steps; a rollback that fails
half way; an exception that rolls nothing back. *Correct when*: a verified run
reports contents that passed; an edit that was neither read nor put back by a
rollback is not written over; a failed transaction leaves what it found.

**The calls of a turn** (`agent/runner.py`, `agent/tool_scheduler.py`). *State*: the
batch, its threads, the conversation. *Hard*: a denial inside a stretch of reads,
one read that fails, a cancellation that a thread cannot see. *Correct when*: one
answer per call, in call order; no thread at work after the turn.

**Subagents** (`agent/subagent_dispatch.py`). *State*: schedule, tasks, reports.
*Hard*: `gather` ends with the first exception and leaves the rest running. *Correct
when*: dependencies are complete and their transactions applied before an agent
starts; a report tells of agents that have returned.

**Event log and lease** (`agent/checkpoints.py`, `session.py`, `events.py`,
`agent/run_lifecycle.py`). *Hard*: writes are done by threads, which outlive the task
that is cancelled. *Correct when*: events are in order and counted once, the owner's
token stays on disk, no recovery is refused.

**Local processes** (`execution/*`). *State*: callback slots, threads, the group.
*Hard*: descendants in and out of the group, a callback that never returns. *Correct
when*: slots come back once; a result not marked incomplete is all there was.

**MCP client** (`mcp_client.py`). *Hard*: what a timed-out call leaves in the pipe;
servers that die. *Correct when*: an answer is the answer to the request it is given to.

**Credentials** (`codex_oauth.py`). *Hard*: single-use refresh tokens shared by
processes through a file. *Correct when*: no replaced token is presented; the file
holds one the service takes unless an answer was lost.

**WebSocket front** (`conversation_websocket.py`). *Hard*: eviction and a second
connection beside a turn. *Correct when*: a connection has its conversation alone.

**Claude session** (`claude_agent_session.py`, `src/scripts/claude-agent-session.mjs`).
*Hard*: frames that cross the end of a turn. *Correct when*: both sides agree on the
turn, the open tools and the open approvals.

**Context, memory and prompts**, **external CLI runners**, **publishing**,
**attachments and replay**, **providers and dialects**, **process sandbox**, **terminal
and CLI**, **SDK**, **editor extension**: section 8.

## 2. Plan

Each module is parameterised by CONSTANTS, has one action per operation and
contains no RECURSIVE operator. Done: everything in the table above. The two
abstract specifications are implemented by their modules as TLC properties
(`KeepsPromise`, `ServesTurns`) and as theorems. Every safety property the passing runs
check is proved; the three liveness properties are TLC's. Next, in order:

1. The shared backend limiter, under several controllers.
2. A sweep of the runs over larger instances (three tasks, three processes).

## 3. `SessionJournal`

**State.** `manifest` is session.json; the in-memory manifest equals it, since every
change is saved before an await that could separate them. `log` keeps of
events.jsonl what recovery and the properties read: the number of lines, the type
of the last, and the allow and start events. `tail` says whether the last line is
whole, torn, or whole without its newline. `pc`, `queue`, `msgs`, `seq`, `ev`, `ret`,
`outcome`, `cancel`, `ahead` are the process, `agents` its subagents: each idle, or at
one place of `run_one` for one call. `Forget` empties them when the process ends.
`ran`, `cut`, `live` are history: which effects have begun, which were cut by a death
until a resume, which calls this process issued.

**Actions.** `Emit` sets the event and where to return; `EmitSave` and `EmitAppend`
are the two durable writes of `RunPersistence.emit`, so `Crash` can fall between
them, or inside the append. A call goes `NextCall` (tool.requested) → hook, grant or
`RequestApproval` and `Decide` → `Approved` → `MarkStarted` (pending cleared once
started is durable) → `EnterTool` → `BeginEffect` → `EndEffect` → `Observe`. A
subagent call goes `EnterTool` → `NextWave` → `StartWave` instead: a wave of any number
of subagents runs side by side and beside the loop, which waits for it (`WaveDone`).
Each announces itself, edits and reports (`AgentSave`, `AgentAppend`, `AgentEnds`), taking
the emit lock in turn with the others and with the loop, as both halves of an event
must be one emitter's. One that raises (`AgentRaises`) ends the call and leaves its
siblings at work as strays, which write their lines beside the calls that follow, until
the process ends; the deadline (`WaveTimeout`) cancels the whole wave. `dispatch_started`
and `dispatch_completed` are not told from the lines of the waves. A verification
command takes the road of a tool with its own events. `Claim` is
`claim_and_validate_resume` up to its rollback save, `Refuse`, `Resume` and
`Continue` its outcomes, `Reconcile` is `_reconcile_interrupted_approval`. Session
grants may be bypassed by the permission guard, hence `RequestApproval` is enabled
with a grant too. `run.completed`, `run.failed` and `run.cancelled` are one event
type, `run.finished`.

**Properties.** `JournalAligned`: the manifest names the last line or the next, so no
recovery is refused for numbering. `ManifestLoadable`: the validator that
`model_copy` bypasses would accept what is on disk. `UnperformedNeverRan`,
`AnsweredOnce`: what a call's observation says is true, and there is one.
`EffectIsJournaled`: approval, start, effect in this order in the log.
`LiveCallsAnswered`: no call of this process reaches the provider unanswered.
`NoResumeMidEffect`, that a death inside an effect ends the session, fails with subagents:
any line that one of them writes, an announcement or a report, while another works or
a tool of the parent runs, is the last and hides the start. `OnlyAgentsResumeMidEffect`
says what is left of it: one that died inside a tool's or a command's own effect is
handed over only if a subagent left behind by an earlier call wrote after the start,
so that its line is the last, or the manifest was ahead by it. Of a death inside a
subagent's edits it says nothing.
`TerminalNeedsContinuation`: a finished session runs again only on a new user turn.

**Runs.** `Journal.cfg`: two calls, two in a turn, two deaths, two user turns, modifying
tools and subagent calls (whose effect is READ, so they also stand for the approval of a
reading tool, which needs no pending action). Two calls are the least at which one is
orphaned by, reordered with or mistaken for the other, or runs beside a stray of the
other; two interchangeable subagents, so that one reports while another edits, or raises
and leaves another behind; the second death falls into the recovery from the first; the
second turn makes a continuation meet a pending action and a grant meet a call;
verification commands count as calls. The view keeps of a state what its future and the
properties read: line numbers by their difference, of an event whether it allows or starts
a call or is a subagent's, `ahead` while the session is validated, the queue, the
cancellation and the outcome until they are read for the last time, a grant while a call
of its effect may come. `JournalOrphan.cfg` and
`JournalAgent.cfg` find two violations (section 9).

**Proofs** (`SessionJournal_proofs`), for every bound, any tools, any number of deaths,
any set of subagents, from `SessionAssumption` only (bounds are naturals, tools are of
the three kinds):

- `TypeCorrect` and `Aligned`. `TypeOK` is not inductive: a handler takes the head of
  `queue`, and a resumed process counts from `manifest.lastSeq + 1`. `Control` says
  at which places, or after which event, a call is being processed; `Numbering` says
  how the manifest, the counter and the log differ at each place. The three together
  (`TypeInv`) are inductive; the step is split into one lemma per group of variables,
  one case per action that writes it.
- `MidEffectHidden` (`OnlyAgentsResumeMidEffect`), and from the same invariant
  `MidEffectRefused` (`NoResumeMidEffect` when there are no subagent calls, which
  `journal_agent` shows is needed). `MidEffect` is the strengthening: from the durable
  start to the end of the effect the last line is a start or a subagent's, the loop
  emits nothing, and without subagents the manifest is level with it; once cut, the last
  line stays, however many claims and deaths follow.
- `EffectsJournaled` (`EffectIsJournaled`). `Journaled` adds, for each place from the
  decision to the effect and for the event on its way to the log, which mark is
  there already.

`SessionHistory_proofs` extends that module and cites its step lemmas:

- `Loadable` (`ManifestLoadable`) and `FinishedStays` (`TerminalNeedsContinuation`) follow
  from `Lifecycle`, which says at which places the manifest on disk is terminal, and
  at which it waits for an approval; neither property survives a step without it,
  since the terminal flag is read back by `Claim` after a death.
- `RefusalsHold` (`UnperformedNeverRan`) and `SingleAnswers` (`AnsweredOnce`) from `Truth`:
  calls are `Numbered` by their turn and place in it, those of a turn `Lined` up in
  the queue without repetition, those in the queue `Untouched` (not begun, not
  answered), what the manifest takes back after a death is `Kept` (a pending action
  was not started, a started one was not answered), and each place of the loop is
  `Telling` what the observation it is about to write will say.
- `CallsAnswered` (`LiveCallsAnswered`) from `Owed`: outside the loop's middle nothing a
  live process issued is without an answer, inside it what is owed is the call at
  hand and the queue. `Crewed` says of a subagent's call, a stray's too, that nothing
  will ever report it as not performed.

**Not modelled here**: read batches (`ToolTurn`), the schedule and the transactions of
subagents (`Subagents`), an emission cut short by a cancellation and other late writes
(`EventLog`; so `WaveTimeout` waits until none of its wave is between the save and the
append), the fingerprint behind a verified answer (`Workspace`); nowhere: subagents of
subagents, model retries and budgets (a request answers, answers nothing or fails),
compaction of the conversation.

## 4. `ControlPlane`

**State.** `session`, `capability`, `expired` are the two objects and the clock they
compare with; `worker`, `activated`, `cleanup` are `executeRunInSandbox` and its
locals; `route` is the cancel route between its calls; `container`, `agent`,
`request`, `awaited`, `errors`, `result` are the Sandbox; `posts` are event appends on
their way, each `check` or `append`; `got`, `calls`, `revoked` are history.

**Actions.** One per transaction or external call, in the handlers' order. A call that
throws (`Fault`, at most `MaxFaults`) may have taken effect or not. The `finally`
block is `Revoke`, `Destroy`, `ReportCleanup`. `PostTimeout` lets the agent go on
while its append is still under way; `CheckPost` and `AppendPost` are the two halves
of the event route, `CheckPoll` and `ReadPoll` of the approval route; `PollTimeout`
is the poller's 210 s, looked at when an answer says "pending". Staging starts the container again if the cancel route has
destroyed it. What the session answers to a poll and what the agent does with it are
steps of their own: `ReadPoll` sends "pending" on its way, and only then does the agent
poll again (`PollAgain`) or find its deadline reached (`PollTimeout`); a decision may be
accepted in between. A call of the background run that has no timeout may throw or
hang for ever (`Lost`). `Expire` stands for the token's and the capability's common expiry.

**Properties.** `TerminalIsFinal`, `LeakIsReported` (with at most one failing call),
`Settles`, and `KeepsPromise`: the plane implements `RemoteRun` under the mapping
status ← `session.status`, open ← `session.pending`, decided ← `session.decisions`,
absent ← the request whose "pending" is on its way (`Absent`), acted ← `got`, admitted ←
`calls`, cut ← `revoked`. `RemoteRun` says: queued, running,
one terminal status; a request is shown while the run lives and decided once; the
agent acts once, on that verdict or because its last look found none, though one may
have been recorded since; model
requests stay within the budget, come only after the run began and never after a
revocation, although a cancelled run that is still queued activates its capability
after it.

**Runs.** `Control.cfg`: two interchangeable requests, so that one is decided while the
other is asked; budget and lines of two, so that both limits are met in mid-run; a
sink disabled by its second error; one throwing call; the platform may end the run.
`ControlLive.cfg` checks `Settles` with two throwing calls. *Fairness*: weak fairness
of the background run's next step alone. The code bounds `exec` by the sandbox timeout,
revocation and destroy by the destroy timeout. It bounds nothing else: activation, the
status calls, staging and the reads of the result may hang, which is an outcome of
their steps (worker "hung") and an exception in `Settles`. Nothing is
assumed of the agent, the operator or the cancel route. Two assumptions are explicit:
`Recorded` excludes that recording a failure fails too, which the Worker swallows,
and `Dies = FALSE` excludes that the platform ends `waitUntil()`; without either a
session may stay `running` for ever, and the code has no alarm for it.
`ControlCleanup.cfg` finds a violation (section 9).

**Proofs** (`ControlPlane_proofs`), for any set of requests, any budget and bounds, from
`ControlAssumption`: every safety property above. `Inv` is `TypeOK` with seven more:
`Life` (the session has a status once accepted, is terminal once the cancel route has
gone on, has nothing pending then, and the command starts once, in a session marked
running), `Bundled` (an agent that exited left a result), `Quiet` (before the command
starts nothing was asked, answered or admitted), `Metered` (no capability revoked
before its session is over is active again for an agent, and an active one counts
every request let through), `Posted` and `Asking` (an append that was checked shows its
request once, a request not asked for is fresh, one that is polled is unanswered),
`Contained` (a container exists for an activated run only, and outlives the run only
after a failed destroy). `TypeOK` alone is not inductive: the worker completes the
session with a result another actor wrote, which `Bundled` says is there.
`ControlTyped`, `LeaksAreReported` and `EndIsFinal` follow from `Inv`. `Implementation`
(`KeepsPromise`) goes through the variables `RemoteRun` sees: a step that changes the
session record is `Accept`, `Begin`, `End`, `Show`, `Withdraw` or `Decide` of the promise,
one that changes `got` is `Act` or `GiveUp`, the agent's place `Look` or `LookAgain`, `calls` `Admit`, `revoked` `Cut`,
no step changes two of the groups, and every other step is a stutter. `Settles` is
liveness and stays with TLC.

**Not modelled**: request validation and authentication, provider profiles, artefact
upload, the limits on pending approvals and on remembered decisions (one agent asks
for one approval at a time), a timed-out destroy or revocation that takes effect
only after later steps.

## 5. `Conversation`

**State.** `holder`, `waiting`, `pc`, `interrupted`, `held`, `reply` are the turn lock and
the coroutine that has it: the lock admits one, so one program counter serves all
turns and compactions. A local turn id is the number of its task. `state`, `reader`,
`fatal`, `rpcs`, `asks`, `queue`, `sequence`, `cor` are the session's fields, `cor` those of
`CodexCorrelation`. `toServer` and `fromServer` are the pipes, `srv` the app-server.
`host` says whether the session is used alone or inside `IsolatedCodexConversation`,
whose audit of a terminal event is one more await between the end and its delivery.
`injected`, `carried`, `last`, `owner`, `late` are history.

**Actions.** One per stretch of code between two awaits that can suspend. A turn goes
`EnsureStarted` → `SendTurn` → `TurnSent` → `ReadEvent` … `ReadTerminal` (→ `AuditEnds`), with
`Answer` after an approval request. `CancelTurn` is the moment `_consume_turn` finds the
cancellation: with an event at hand, which it holds until the interrupt is answered,
with none, or while the audit runs. `GraceExpires` is the one deadline of interrupt
and terminal. Every exception leads through `RunFails` (a last interrupt) to a close,
except in a compaction, which only releases the lock. `BeginClose` and `EndClose` are
the two halves of `aclose`; a second closer waits for the first. The reader's actions
are one per kind of frame; `Located` is `local_turn` with its three outcomes (known,
adopted, bound to the turn being started), `RejectFrame` everything that raises, and
the end of the session that follows. The app-server answers in either order with
its notifications, may refuse any request, replaces a native turn by a new one,
compacts of its own accord, may end a turn with an approval open, and may exit.

**Properties.** `OwnEventsOnly`, `EventsInOrder`: a sink sees its own native turns'
events, every one, in order; a compaction that follows one given up on may see that
one's events, which the code cannot tell apart. `CancelledIsOver`: a turn reported
cancelled is not being worked on, because the app-server said so or was killed.
`OneNativeTurn`. `ContextOnce`: an injected item is sent with one turn, and lost only
with its controller. `CancelEnds`, `CloseEnds`: the grace budget bounds a cancelled
turn, and nobody keeps or awaits the lock after a close. `ServesTurns`: the conversation implements `TurnService`: jobs
are served one at a time in the order they were asked for, events go to the sink of
the job that is served, a job ends once and as its last event says, and a turn that
ends without one has shut the conversation. A compaction is excepted: its POST_COMPACT
hook runs after the sink was given the completion, and when it denies, the job ends in
error, with the conversation open.

**Runs.** `Conversation.cfg`: two tasks, so that one meets what the other left behind;
two native turns, so that one is replaced or answered late; one notification
besides start and end; both hosts. `ConversationLive.cfg`: the audited host, one native
turn, an item to inject. `ConversationEnd.cfg` finds a violation (section 9).
*Fairness*: the event loop runs the holder when it can run, where it waits a timer
fires (`request_timeout_seconds`, `interrupt_grace_seconds`), and a close ends, at the
latest by SIGKILL. Nothing is assumed of the app-server, of the pipes or of the
reader. An approval may stay open for ever unless the turn is cancelled or the
conversation closed (`Stopped`): `_consume_turn` does not watch for a cancellation
during the callback, but the terminal cancels the task some time after the request,
and the websocket decides for a client that left. A turn that nobody cancels may wait
for ever for a silent app-server: the code sets no limit.

**Not modelled**: the shared limiter; the local compaction fallback; tools that must
start before they complete; the app-server's `error` notification; limits on frames
and text. The shipped audited host has neither `capabilities` nor
`compact_context`, so compactions occur with the session alone. There `compact_context`
returns at the completion event while the native turn may still be open; a turn
sent at once is then refused and closes the controller (`SendRefused`).

**Proofs** (`Conversation_proofs`), for any tasks, native turns, items and hosts, from
`ConversationAssumption` (bounds are naturals, hosts of the two kinds). The inductive
invariant `Inv` (theorem `ConversationInvariant`) is the types of the variables with

- `Placed`: the holder is at a place of its kind of job and has no result yet, who
  waits was asked for and waits once, nobody is given an event before it is served;
- `Cancelling`: only a cancelled turn interrupts or runs out of its grace;
- `Asked`: an open request of the holder is the one it awaits, and an answer that binds
  a turn names a native one (the type of `cor` needs that);
- `Known`, `Named`: the correlation, and every event in the queue, refer to tasks that
  were asked for; a compaction under way is known to be one, so nothing queues a
  terminal event for it. Without that a compaction would be given the end of a turn;
- `Rising`: events of turns are numbered upwards through the queue, the event at hand
  and the one last seen;
- `Carried`: what is pending was sent to nobody; `Working`: an open native turn is of a
  kind.

From it follow `TypeCorrect` (`TypeOK`), `InjectedOnce` (`ContextOnce`) and `TurnsAreServed`
(`ServesTurns`). For the last, each action is a step of the promise or changes nothing
that it sees: a release is the end of one job and the start of the next, an event
read is `Deliver` to the job served (`Named` says it is one that may be delivered,
`Rising` that it is not the one shown before), and what drops an event without telling the
sink (a close, an audit that fails) shuts the conversation.

`ConversationOrder_proofs` adds to `Inv` what `EventsInOrder` needs, in the same form: a
definition, a lemma that every step keeps it, and the theorem `StaysInOrder` for all:

- `Lined`, `Settled`, `Apart`: tasks hold the lock in the order of their numbers, a closed
  session is quiet, and nothing refers to a task that still waits;
- `Heard`: the end of a turn is in the queue once, and only while that turn holds the
  lock, unless the session was closed. So a cancellation that comes during the audit
  finds its turn over and does not interrupt, and the event of the audit is the only
  one that is ever dropped;
- `Counted`: what is queued, held or given to the sink is numbered without a gap, from
  the event last seen to the next number of the session. Without `Heard` it is not
  inductive: an interrupt that dropped an event could be followed by the next one.

`EventsAreInOrder` follows from `Counted` at the five steps that give an event to the sink.

`ConversationWire_proofs` follows a task through the two pipes. The invariant (`Wired`,
theorem `StaysWired`) needs both of the above and is inductive with them only:

- `Orderly`, `Streams`: native turns are opened in the order of the tasks, frames come in
  the order of the native turns, and none about a task follows its terminal event;
- `Mentions`, `Sending`, `Names`: nothing names a task before its request was sent, or a
  native turn before it was opened;
- `Turns`, `Reads`: once a turn is bound to a native turn of its own (`Clean`), what is
  bound, queued or held for it is its own, nobody else is live in the pipes while it is
  active, and it is not live itself once its end was read. A turn that has a result got
  it that way or by a close: `CancelledOver`;
- `Prompt`, `Refusals`: as long as no compaction was given up on (`late`), one task is
  live and the session takes no event for another's: `OneTurnAtATime`. A compaction
  given up on is the case the code cannot tell apart, so `Turns` must hold without
  `Prompt`: a turn sent after it is `Clean` before it reads anything, because the
  response to its request stands behind every frame of the compaction.

Liveness (`CancelEnds`, `CloseEnds`, `EndIsHeard`) stays with TLC.

## 6. `Workspace`

**State.** `files` maps each path to a stamp for its contents, 0 for no file; a
fingerprint is the whole map. `known` is `ReadVersionStore`, `cached` the read cache. `op`
is the tool in progress, `txn` and `todo` a transaction and what its rollback still has
to restore. `evidence` is `VerificationCache`, `verified`, `changed` and `start` the fields of
`TurnState` and `verify_all`; `{}` stands for None. `passed`, `reads`, `putback`, `raced` are
history: which check passed on which contents from its beginning to its end, which
contents of which file were read in the turn (or written by a replacement of what was
read), which a rollback put back unread, and which files others edited since the
rollback or the last fingerprint began.

**Actions.** A replacement is `ReplaceReads`, `WriteEdit`, then `EditAccepted` or
`EditUndone`: between any two others may edit (`Outside`). A patch takes the same road
from `PatchChecks`. `RunCheck` … `FinishCheck` is a manual check with its frame, inside a
transaction without. `BeginTransaction` captures the named paths; a failing step
leads to `Restore`, one path at a time, then `RolledBack` or `RollbackFails`; `StepRaises`
is an exception the handler does not list. `FinalAnswer` … `Confirm` is the gate; a turn
that it finds unchanged is reported by `ReportUnchanged`, a step later: the memory of the
session is extracted in a thread and the patch collected, and others may edit before. A
step whose fingerprint cannot be read has an alternative of its own.

**Properties.** `VerifiedIsPassed`, `UntouchedIsTrusted`, `RereadArms`, `UnseenEditsSurvive`,
`FailedTransactionUndone`, each commented in the module. Two have exceptions that the
code makes: `UntouchedIsTrusted` those files that others edited between the fingerprint and
the patch, which a completion without changes reports unverified, and `UnseenEditsSurvive`
contents that a rollback put back: it records the version of every path of its
transaction, read or not (`snapshots.py`, `restore`), so the replacement that follows may
write over an edit nobody has read, although `replace_text` asks for `read_file` first and
the release review (`docs/research/m3-release-review.md:114`) says that unread reads "fail
closed". A read that was a step of a failed transaction counts as a read.

**Run.** `Workspace.cfg`: two files (one in a transaction and one beside it), two
interchangeable checks (so that the first may pass on contents the second never
saw), three edits, three operations, one edit from outside, two turns.

**Assumed.** An edit from outside makes contents that were never there (a change and
its reversal between two fingerprints is invisible to the code, and to the model);
a fingerprint is atomic; an edit gives a file a new modification time; ignored files
are outside the fingerprint. Ranged and truncated reads record nothing and are left
out. One consequence of the code no property forbids: compaction of the conversation
may drop contents for which the cache still answers "unchanged".

**Proofs** (`Workspace_proofs`): every property of the run, for any files, checks and
bounds, from `WorkspaceAssumption`. The argument behind all of them is `Stamped`:
contents seen so far are stamps up to the counter, so an edit gives contents that
were never there, and contents seen before and there now were there all along or
were put back by a rollback, which puts back the recorded versions too. Beside it stand
`Provenance` (a recorded version, and what a replacement has read, is of contents that
were read or that a rollback put back), `Cached` (a cached file is as recorded, a file under
review is not cached), `Restored` (what the rollback is through with is restored unless
edited since), `Evident` (evidence is of contents on which the check passed from
beginning to end), `Verifying` (while `verify_all` runs, if the contents are those of
the start, the checks that are through passed on them) and `Trusted` (what is taken as
verified was the base or passed every check; while a turn without changes is closing,
the files that others have not raced are those of the verified tree). `Typed` gives frames and results their
types, `Framed` ties them to the place of the run. Two of the five are action
properties (`ForeignEditsSurvive`, `RollbackIsComplete`) and follow from the same `Inv`.

## 7. `Services`: eight parts in one run

The parts share no state; `part` chooses one at the start, so that the run explores
each of them alone and one configuration holds all bounds. Every property is of the
form "in this part, ...". There is no liveness: each part waits for a server, a
user or a process that may never answer.

- `Subagents`. `WaveReturns` needs every task of the wave, `WaveRaises` one that raised and
  leaves the others (they go on in later calls, and after `Finish`); `WaveCancelled`
  is the deadline or an interruption, which a child in a blocking tool survives until
  its run ends. `WaveOrder`, `ReportIsWhole`. Two calls, three agents, three plans: one
  with a transaction beside an independent agent, one with an agent that depends on
  two, one with a cycle.
- `ToolTurn`. Tasks and threads apart: a cancelled task in a thread waits for it. Four
  calls of any kind: a batch of two with a denial after it and a call beyond.
  `TurnInOrder`.
- `LocalProcess`. The command may fork into its group or leave it holding the pipe;
  readers give their slot back themselves, also after the call. Two calls, one slot,
  so that one is refused or waits on the other's reader. `SlotsConserved`, `ResultIsTrue`.
- `McpStdio`. A pipe and the read-ahead buffer behind it; `TimesOut` may strike with an
  answer in the buffer, as `select` looks at the pipe alone. Two callers, two servers,
  five request numbers, one unasked line each. `AnswerIsOwn`.
- `Credentials`. `Rotate` (the service) and `Save` are apart, so an answer may be lost
  between them; the lock is per process, so `LockAndReload` may still present a
  token another process is replacing. Two tasks in one process, one in another.
  `TokenChain`.
- `Sockets`. A controller closed by a failed turn stays in the table; `OpenFails` leaves
  its conversation taken for ever, which `OwnController` admits. Two conversations,
  three connections.
- `EventLog`. `emit` is `Emit`, `Check`, `Replace`, `AppendLine` under the lock; checkpoints and
  the clock save beside it (`SaveAlone`). A cancellation frees the lock and leaves the
  thread's write in `strays`, which lands later or never. `OnlyStraysBreak`: as long as
  none has landed, order, numbering and the lease hold for two emitters, two writers
  and a death, tasks that outlive a wave included; the run stops at the first stray
  (`UntilStray`), which is all the property speaks of. That strays do break it is
  finding 5, in a run of its own. Seen in the model beyond it: a manifest replaced late by
  an old writer restores its token, the new writer's `save` raises, and so does the
  `save_clock` in its `finally`, ahead of the release of its lease ("stuck").
- `ClaudeSession`. Two pipes; the host, the reader and the sidecar's callbacks each
  take a frame at a time. `InStep`: with the pipes empty both sides agree, and the
  session fails only when a frame crossed the end of its turn, the sidecar died or its
  output passed `max_frames` or `max_frame_bytes` (`Flood`, at any frame: those left out
  count too). A tool aborted while its approval is waited for gets its result like any
  other (`ToolResult`), and its request stays open on both sides till the turn ends. That a
  crossing ends the whole session is what the code does ("stale or invalid
  approval", "invalid interrupt"), and no doc says otherwise. Two turns, two tools.

**Proofs** (`Services_proofs`), for every bound and set, from `ServicesAssumption`, which
collects what the parts need of their constants (bounds are naturals, the runs are
finitely many, a plan names its own agents, there is a first writer). A step is one of
the part at work or leaves that part alone (`PartSteps`), so each part has an invariant
of its own:

- `SlotsComeBack`, `ResultsAreTrue`: the slots are counted with their holders, by
  cardinality; `Placed` says what there is of a process at each place of a call,
  `Told` what its result may claim.
- `ConnectionsApart`: controllers are `Numbered` as they are made, and a connection
  past its handshake is `Wanting` a conversation it has.
- `TokensChain`: one refresh per process (`Serial`); tokens are new when given out
  (`Minted`); the file holds none that was replaced (`Current`); an answer on its way is
  known to its task alone (`Answering`).
- `AnswersAreOwn`: the pipe and the buffer hold what the client's present server wrote
  (`OwnOutput`), and the handshake was with that server (`Shaken`).
- `AnswersInOrder`: the conversation is the answers up to the index (`Counted`), and a
  tool not yet through belongs to the batch (`Batched`).
- `WavesInOrder`, `ReportsAreWhole`: what there is between calls (`Calm`), what the tasks of
  this call relied on (`Waved`), and that an answered call left no task (`Whole`).
- `StraysAlone`: who is in an event has the lock, and the number of the next line
  (`Locked`); only a run that is up and its tasks write, the run not while it awaits a
  wave (`Attended`); the owner of the lease is the run at work, with its token on disk
  (`Leased`); it knows where the log ends (`Ordered`); manifest and memory name that line
  or the next (`InPace`). The last needs that no task was left behind, the others only
  that no write has landed beside the lease.

- `SidesInStep`: an action of the session is first restated by what it takes from and
  puts into the pipes (`ClaudeSteps`). Then `ClaudeInv` has two cases. While nothing has
  crossed (`Straight`), the two sides are at the same turn but for the frame that begins
  it and the one that ends it (`SameTurn`, `Begun`, `Spoken`); whoever waits for an
  acknowledgement waits for one that is on its way (`Waiting`), to the one request that
  is awaited (`Answered`, `Accepting`, `Sought`); the frames of a tool come in order, once
  each (`Opening`, `Following`, `Closing`); the sidecar is ahead of the host by just the
  frames in the pipe (`Ahead`, `Opened`, `Pending`); and a request it keeps, that of an
  aborted tool included, is of a tool that asked in this turn or an earlier one, so that it
  is never taken for one of a turn to come (`Dated`). With the pipes empty that is agreement.
  Once an approval has crossed the end of its turn (`CrossingStep`), the sidecar has
  acknowledged what nobody can take (`Doomed`): no step undoes that but the end of the
  sidecar, so the host never goes on with a session that is out of step. A crossed
  interrupt ends the sidecar at once, and `Alive` says that nothing but a crossing, a
  death or a flood leaves a session open without its sidecar.
- `TypeCorrect`: `TypeOK`, part by part. Those of the processes, the files and the Claude
  session follow from their invariants; the others add what keeps their counts within
  the bounds (`SocketsBound`, `CredentialsBound`, `McpBound`, `TurnBound`, `SubagentsBound`). In
  none of these is the type invariant inductive alone: a denial that is put off has a
  call after the batch, an answered refresh knows the token it was given for, an
  executed transaction is of an agent of the call.

## 8. Not modelled

- *Pure or presentational*: prompts, instructions, skills, memory text, wire dialects,
  catalogues, pricing, permission rules, path and argument validation, transcript
  export, terminal widgets, the CLI's parsing, the SDK's types, the editor extension.
- *Somebody else's state*: sandbox profiles (the kernel's), publishing and worktrees
  (git's), OAuth login (a browser's), attachments (copied one at a time).
- *Not reachable in production*: `BackgroundProcessManager`, `PtySession` and
  `AsyncToolDispatch` are constructed by tests only; the trees under `src/.research/` are
  frozen copies of earlier versions of the harness.
- *Left for room*: the shared backend limiter, conversation history storage, the MCP
  HTTP client, model retries and budgets, context compaction.

The share of lines under `"map"` is small for these reasons: `terminal/app.py`, `cli.py`,
`models.py` and the frozen copies make up most of the repository, and their control
is parsing, drawing and HTTP. What was modelled is where steps interleave.

Out of the prover's reach, and left to TLC: liveness under fairness and ENABLED.
Induction over data is not needed: the modules use functions, sets and sequences,
and no RECURSIVE operator.

## 9. Disagreements found

1. `_reconcile_interrupted_approval` says it avoids sending an orphaned tool call to
   the provider; after a death in the first approval of a two-call turn the second
   call is sent unanswered (`journal_orphan`).
2. Resume is documented to refuse a session that died inside a side effect; a
   subagent's announcement or report follows the call's tool.started, so one that died
   while a subagent edited the shared workspace is resumed (`journal_agent`).
3. A test says a run whose destroy failed ends `failed`; the test's double of `/fail`
   overwrites the status, the object's `/fail` keeps a terminal one, and the run stays
   `completed` (`control_cleanup`).
4. Each turn is documented to stream a terminal event, at which the workspace is
   audited. `emit_compaction_started` marks any turn as a compaction, and
   `complete_turn` swallows the end of such turns; a turn in which the app-server
   compacts by itself has no terminal event, and its run waits for ever
   (`conversation_end`).
5. The emit lock is there so that parallel calls "commit events in order". A wave that
   runs into its deadline cancels an event whose line a thread is appending: the line
   lands, its number is used again, and the session can be neither resumed nor
   continued (`eventlog`; one writer, two emitters, three events).
