----------------------------- MODULE Conversation -----------------------------
(***************************************************************************)
(* One external conversation: the ConversationController and its turn      *)
(* handles, the CodexAppServerSession they drive (alone, or inside the     *)
(* IsolatedCodexConversation that audits each terminal event), and the     *)
(* app-server process at the other end of the two pipes.                   *)
(*                                                                         *)
(* Coroutines of one event loop interleave at their awaits, so one action  *)
(* is the code between two awaits that can suspend.  The turn lock lets    *)
(* one task at a time past run() or compact_context(): pc is that task's   *)
(* place.  A local turn id is the number of the task that made it.         *)
(***************************************************************************)
EXTENDS Integers, Sequences, FiniteSets

CONSTANTS
    MaxTasks,    \* bound: turns and compactions ever started
    MaxNatives,  \* bound: native turns the app-server ever opens
    MaxItems,    \* bound: item notifications of one native turn
    Hosts,       \* which sessions: "isolated", the audited host, or "session"
    Context      \* the items an embedder may inject

ASSUME ConversationAssumption ==
    /\ MaxTasks \in Nat /\ MaxNatives \in Nat /\ MaxItems \in Nat
    /\ Hosts \subseteq {"isolated", "session"}

VARIABLES
    host,        \* which of Hosts the controller was given
    closed, started,       \* ConversationController._closed, _started
    pending,     \* _pending_injected_context
    holder, waiting,       \* the turn lock: its holder, and who waits for it
    kind, result,          \* of every task: what it is, and how it ended
    cancelled,   \* tasks whose _cancel_requested is set
    pc,          \* where the holder is
    interrupted, \* local to _consume_turn
    held,        \* the event taken and not yet delivered, or None
    reply,       \* the result of the RPC the holder awaits
    state,       \* the session: "new", "ready", "closing" or "closed"
    reader, fatal,         \* its reader task runs; _fatal is set
    rpcs, asks,  \* _pending_rpc, and the approval mapper's pending
    queue, sequence,       \* _event_queue, _next_sequence
    cor,         \* CodexCorrelation
    toServer, fromServer,  \* the pipes
    srv,         \* external: the app-server
    injected, carried,     \* history: items injected; turns that carried them
    last,        \* history: the last event given to a sink, and whose
    owner,       \* history: the task a native turn was opened for
    late         \* history: a compaction request was given up

tasks == <<holder, waiting, kind, result, cancelled>>
control == <<host, closed, started, pending>>
coroutine == <<pc, interrupted, held, reply>>
link == <<state, reader, fatal>>
outbox == <<queue, sequence>>
server == <<toServer, fromServer, srv>>
seen == <<injected, carried, last, owner, late>>
vars == <<tasks, control, coroutine, link, rpcs, asks, outbox, cor, server, seen>>

-----------------------------------------------------------------------------
Tasks == 1..MaxTasks
Natives == 1..MaxNatives
Results == {"none", "completed", "cancelled", "failed", "error"}
TerminalEvents == {"completed", "failed", "interrupted"}
EventTypes == TerminalEvents \cup
    {"started", "item", "ask", "resolved", "compacting", "compacted", "stop", "broken"}
Ops == {"turn", "compact", "interrupt"}
Event == [type : EventTypes, turn : 0..MaxTasks, nat : 0..MaxNatives, seq : Int]
Frame == [f : TerminalEvents \cup {"ok", "refused", "started", "item", "ask",
                                   "compacted", "eof"},
          op : Ops, t : 0..MaxTasks, nat : 0..MaxNatives]
Request == [op : Ops \cup {"answer"}, t : Tasks, nat : 0..MaxNatives]

None == [type |-> "stop", turn |-> 0, nat |-> 0, seq |-> -1]
Stop == [None EXCEPT !.seq = 0]
Broken == [Stop EXCEPT !.type = "broken"]
NoReply == [s |-> "none", nat |-> 0]
Failed == [s |-> "error", nat |-> 0]
Awaits == {"starting", "compacting", "interrupting", "last_interrupt"}

\* CodexCorrelation.__init__
NoTurns == [starting |-> 0, active |-> 0,
            native |-> [t \in Tasks |-> 0], local |-> [n \in Natives |-> 0],
            opened |-> {}, completed |-> {},
            compactions |-> {}, compacting |-> {}, compacted |-> {}]

Init ==
    /\ host \in Hosts
    /\ closed = FALSE /\ started = FALSE /\ pending = {}
    /\ holder = 0 /\ waiting = <<>> /\ cancelled = {}
    /\ kind = [t \in Tasks |-> "none"] /\ result = [t \in Tasks |-> "none"]
    /\ pc = "idle" /\ interrupted = FALSE /\ held = None /\ reply = NoReply
    /\ state = "new" /\ reader = FALSE /\ fatal = FALSE
    /\ rpcs = {} /\ asks = {} /\ queue = <<>> /\ sequence = 0
    /\ cor = NoTurns
    /\ toServer = <<>> /\ fromServer = <<>>
    /\ srv = [up |-> FALSE, nat |-> 0, kind |-> "none", items |-> 0,
              asking |-> FALSE, stop |-> FALSE, next |-> 1]
    /\ injected = {} /\ carried = [x \in Context |-> {}]
    /\ last = [to |-> 0, event |-> None]
    /\ owner = [n \in Natives |-> 0] /\ late = FALSE

\* _ensure_ready
Ready == state = "ready" /\ ~fatal

Goto(next) == pc' = next /\ UNCHANGED <<interrupted, held, reply>>

\* Run events through _emit, in order.
Emit(types, t, nat) ==
    /\ queue' = queue \o [i \in DOMAIN types |->
         [type |-> types[i], turn |-> t, nat |-> nat, seq |-> sequence + i - 1]]
    /\ sequence' = sequence + Len(types)

\* _rpc up to its await: the future is registered and the frame written.
Send(op, t, nat) ==
    /\ rpcs' = rpcs \cup {<<op, t>>}
    /\ toServer' = Append(toServer, [op |-> op, t |-> t, nat |-> nat])

\* Mutant: whoever gets the lock is not woken.
ReleaseSleeps(r) ==
    /\ result' = [result EXCEPT ![holder] = r]
    /\ IF waiting = <<>> THEN holder' = 0 /\ UNCHANGED waiting
       ELSE holder' = Head(waiting) /\ waiting' = Tail(waiting)
    /\ pc' = "idle"
    /\ interrupted' = FALSE /\ held' = None /\ reply' = NoReply
    /\ UNCHANGED <<kind, cancelled>>

\* The holder ends with r, and the lock passes to whoever waited longest.
Release(r) ==
    /\ result' = [result EXCEPT ![holder] = r]
    /\ IF waiting = <<>> THEN holder' = 0 /\ pc' = "idle" /\ UNCHANGED waiting
       ELSE holder' = Head(waiting) /\ waiting' = Tail(waiting) /\ pc' = "start"
    /\ interrupted' = FALSE /\ held' = None /\ reply' = NoReply
    /\ UNCHANGED <<kind, cancelled>>

\* Every pending future fails.
FailAll ==
    /\ rpcs' = {}
    /\ reply' = IF pc \in Awaits /\ reply = NoReply THEN Failed ELSE reply

-----------------------------------------------------------------------------
(* CodexCorrelation *)

\* bind_turn refuses to rebind either side.
CanBind(c, nat, t) == c.local[nat] \in {0, t} /\ c.native[t] \in {0, nat}
Bind(c, nat, t) == [c EXCEPT !.local[nat] = t, !.native[t] = nat]

\* local_turn: the local turn a native id stands for, or 0 when it raises.
Local(c, nat) ==
    CASE c.local[nat] # 0  -> c.local[nat]
      [] c.local[nat] = 0 /\ c.starting = 0 -> c.active
      [] OTHER -> IF CanBind(c, nat, c.starting) THEN c.starting ELSE 0

\* What local_turn leaves behind: nothing new, an adopted id, or a binding.
Located(c, nat) ==
    CASE c.local[nat] # 0  -> c
      [] c.local[nat] = 0 /\ c.starting = 0 -> [c EXCEPT !.local[nat] = c.active]
      [] OTHER -> Bind(c, nat, c.starting)

\* emit_compaction_started and emit_compaction_completed
Compacting(c, t) ==
    IF t \in c.compacting THEN c
    ELSE [c EXCEPT !.compactions = @ \cup {t}, !.compacting = @ \cup {t},
                   !.active = t]
CompactingEvents(c, t) == IF t \in c.compacting THEN <<>> ELSE <<"compacting">>
Compacted(c, t) ==
    [Compacting(c, t) EXCEPT !.compacted = @ \cup {t}]
CompactedEvents(c, t) ==
    CompactingEvents(c, t) \o IF t \in c.compacted THEN <<>> ELSE <<"compacted">>

\* emit_turn_started
Opened(c, t) == IF t \in c.compactions THEN Compacting(c, t)
                ELSE [c EXCEPT !.opened = @ \cup {t}]
OpenedEvents(c, t) ==
    CASE t \in c.compactions -> CompactingEvents(c, t)
      [] t \in c.opened      -> <<>>
      [] OTHER               -> <<"started">>

\* The turn is terminal, and no longer the active one.
Completed(c, t) ==
    [c EXCEPT !.completed = @ \cup {t}, !.compactions = @ \ {t},
              !.active = IF @ = t THEN 0 ELSE @]

-----------------------------------------------------------------------------
(* The embedder *)

\* controller.turn(...).run(), or compact_context(); the shipped host has no
\* native compaction.
NewTask(t, k) ==
    /\ ~closed /\ kind[t] = "none"
    /\ \A u \in 1..(t - 1) : kind[u] # "none"
    /\ k = "compact" => host = "session"
    /\ kind' = [kind EXCEPT ![t] = k]
    /\ IF holder = 0 THEN holder' = t /\ Goto("start") /\ UNCHANGED waiting
       ELSE waiting' = Append(waiting, t) /\ UNCHANGED <<holder, coroutine>>
    /\ UNCHANGED <<result, cancelled, control, link, rpcs, asks, outbox, cor,
                   server, seen>>

RequestCancel(t) ==
    /\ kind[t] = "turn" /\ result[t] = "none" /\ t \notin cancelled
    /\ cancelled' = cancelled \cup {t}
    /\ UNCHANGED <<holder, waiting, kind, result, control, coroutine, link,
                   rpcs, asks, outbox, cor, server, seen>>

InjectItems(x) ==
    /\ ~closed /\ x \notin injected
    /\ pending' = pending \cup {x} /\ injected' = injected \cup {x}
    /\ UNCHANGED <<tasks, host, closed, started, coroutine, link, rpcs, asks,
                   outbox, cor, server, carried, last, owner, late>>

\* aclose, by the embedder or by the holder.
BeginClose ==
    /\ closed' = TRUE
    /\ state' = IF state = "closed" THEN "closed" ELSE "closing"
    /\ UNCHANGED <<reader, fatal, host, started, pending>>

Close ==
    /\ ~closed
    /\ BeginClose
    /\ UNCHANGED <<tasks, coroutine, rpcs, asks, outbox, cor, server, seen>>

\* Mutant: the event stream is never ended.
EndCloseSilently ==
    /\ state = "closing"
    /\ state' = "closed" /\ reader' = FALSE
    /\ FailAll
    /\ srv' = [srv EXCEPT !.up = FALSE] /\ toServer' = <<>> /\ fromServer' = <<>>
    /\ UNCHANGED <<tasks, control, pc, interrupted, held, fatal, asks, outbox,
                   cor, seen>>

\* The process is gone, at the latest by SIGKILL: the reader is cancelled, the
\* pending requests fail, and the end of the stream is queued.
EndClose ==
    /\ state = "closing"
    /\ state' = "closed" /\ reader' = FALSE
    /\ FailAll
    /\ queue' = Append(queue, Stop)
    /\ srv' = [srv EXCEPT !.up = FALSE] /\ toServer' = <<>> /\ fromServer' = <<>>
    /\ UNCHANGED <<tasks, control, pc, interrupted, held, fatal, asks, sequence,
                   cor, seen>>

-----------------------------------------------------------------------------
(* The holder, up to its request *)

\* _ensure_started: the process starts and a thread opens, or it is closed.
EnsureStarted ==
    /\ pc = "start" /\ ~closed
    /\ \/ started /\ Goto("send") /\ UNCHANGED <<started, state, reader, srv>>
       \/ /\ ~started /\ state = "new"
          /\ started' = TRUE /\ state' = "ready" /\ reader' = TRUE
          /\ srv' = [srv EXCEPT !.up = TRUE]
          /\ Goto("send")
    /\ UNCHANGED <<tasks, host, closed, pending, fatal, rpcs, asks, outbox, cor,
                   toServer, fromServer, seen>>

\* An exception before send_turn returns: the turn closes the controller,
\* a compaction only gives up the lock.
Fails ==
    IF kind[holder] = "turn" THEN Goto("closing") /\ UNCHANGED tasks
    ELSE Release("error")

StartFails ==
    /\ pc = "start"
    /\ \/ closed /\ UNCHANGED state
       \/ ~closed /\ ~started /\ state' = "closed"
    /\ Fails
    /\ UNCHANGED <<control, reader, fatal, rpcs, asks, outbox, cor, server, seen>>

\* Mutant: the injected items stay queued.
SendTurnKeeps ==
    /\ pc = "send" /\ kind[holder] = "turn"
    /\ Ready /\ cor.active = 0 /\ cor.starting = 0
    /\ cor' = [cor EXCEPT !.starting = holder]
    /\ Send("turn", holder, 0)
    /\ carried' = [x \in Context |->
                     carried[x] \cup IF x \in pending THEN {holder} ELSE {}]
    /\ Goto("starting")
    /\ UNCHANGED <<tasks, control, link, asks, outbox, fromServer,
                   srv, injected, last, owner, late>>

\* Mutant: send_turn does not look for an active turn.
SendTurnAnyway ==
    /\ pc = "send" /\ kind[holder] = "turn" /\ Ready
    /\ cor' = [cor EXCEPT !.starting = holder]
    /\ Send("turn", holder, 0)
    /\ pending' = {}
    /\ carried' = [x \in Context |->
                     carried[x] \cup IF x \in pending THEN {holder} ELSE {}]
    /\ Goto("starting")
    /\ UNCHANGED <<tasks, host, closed, started, link, asks, outbox, fromServer,
                   srv, injected, last, owner, late>>

\* The context is drained and rendered into the turn, and send_turn asks for it.
SendTurn ==
    /\ pc = "send" /\ kind[holder] = "turn"
    /\ Ready /\ cor.active = 0 /\ cor.starting = 0
    /\ cor' = [cor EXCEPT !.starting = holder]
    /\ Send("turn", holder, 0)
    /\ pending' = {}
    /\ carried' = [x \in Context |->
                     carried[x] \cup IF x \in pending THEN {holder} ELSE {}]
    /\ Goto("starting")
    /\ UNCHANGED <<tasks, host, closed, started, link, asks, outbox, fromServer,
                   srv, injected, last, owner, late>>

SendCompact ==
    /\ pc = "send" /\ kind[holder] = "compact"
    /\ Ready /\ cor.active = 0 /\ cor.starting = 0
    /\ cor' = [cor EXCEPT !.starting = holder, !.compactions = @ \cup {holder}]
    /\ Send("compact", holder, 0)
    /\ Goto("compacting")
    /\ UNCHANGED <<tasks, control, link, asks, outbox, fromServer, srv, seen>>

\* The session is not ready or busy; a context provider fails, the hook denies
\* the compaction, or the text is too long.
SendRefused ==
    /\ pc = "send"
    /\ Fails
    /\ pending' \in {pending, {}} /\ (kind[holder] = "compact" => pending' = pending)
    /\ UNCHANGED <<host, closed, started, link, rpcs, asks, outbox, cor, server, seen>>

\* send_turn resumes with the native id.
TurnSent ==
    /\ pc = "starting" /\ reply.s = "ok"
    /\ IF CanBind(cor, reply.nat, holder)
       THEN LET bound == Bind(cor, reply.nat, holder)
            IN  /\ cor' = [Opened(bound, holder) EXCEPT !.starting = 0,
                     !.active = IF holder \in cor.completed
                                THEN Opened(bound, holder).active ELSE holder]
                /\ Emit(OpenedEvents(bound, holder), holder, reply.nat)
                /\ pc' = "read"
       ELSE cor' = [cor EXCEPT !.starting = 0] /\ pc' = "closing" /\ UNCHANGED outbox
    /\ reply' = NoReply
    /\ UNCHANGED <<tasks, control, interrupted, held, link, rpcs, asks, server, seen>>

\* An error response, a dead session, or no response in time.
TurnNotSent ==
    /\ pc = "starting"
    /\ \/ reply.s = "error" /\ UNCHANGED rpcs
       \/ reply.s = "none" /\ rpcs' = rpcs \ {<<"turn", holder>>}
    /\ cor' = [cor EXCEPT !.starting = 0]
    /\ pc' = "closing" /\ reply' = NoReply
    /\ UNCHANGED <<tasks, control, interrupted, held, link, asks, outbox,
                   server, seen>>

-----------------------------------------------------------------------------
(* _consume_turn *)

Given(e) == last' = [to |-> holder, event |-> e]
TakeNext == queue' = Tail(queue) /\ UNCHANGED sequence
EndOfStream == {"stop", "broken"}
\* The two tasks of the wait are both done only if the event needs no audit.
Heeded == ~interrupted => holder \notin cancelled

\* Mutant: any turn's event is taken for this one's.
DeliverAny(e) ==
    /\ interrupted' = interrupted /\ reply' = NoReply
    /\ \/ /\ e.type \notin EndOfStream /\ Given(e)
          /\ pc' = IF e.type = "ask" THEN "asking" ELSE "read"
          /\ held' = IF e.type = "ask" THEN e ELSE None
       \/ pc' = "failing" /\ held' = None /\ UNCHANGED last

\* An event of this turn goes to the sink, and an approval request then to the
\* callback; another turn's event, the end of the stream and a failing sink
\* are exceptions.
Deliver(e) ==
    /\ interrupted' = interrupted /\ reply' = NoReply
    /\ \/ /\ e.turn = holder /\ Given(e)
          /\ pc' = IF e.type = "ask" THEN "asking" ELSE "read"
          /\ held' = IF e.type = "ask" THEN e ELSE None
       \/ pc' = "failing" /\ held' = None /\ UNCHANGED last

TurnEnds(e) ==
    \/ /\ e.turn = holder /\ Given(e)
       /\ Release(CASE e.type = "completed"   -> "completed"
                    [] e.type = "interrupted" -> "cancelled"
                    [] OTHER                  -> "failed")
    \/ /\ pc' = "failing" /\ held' = None
       /\ UNCHANGED <<tasks, interrupted, reply, last>>

ReadEvent ==
    /\ pc = "read" /\ queue # <<>> /\ Head(queue).type \notin TerminalEvents
    /\ Heeded
    /\ TakeNext /\ Deliver(Head(queue))
    /\ UNCHANGED <<tasks, control, link, rpcs, asks, cor, server, injected,
                   carried, owner, late>>

ReadTerminal ==
    /\ pc = "read" /\ queue # <<>> /\ Head(queue).type \in TerminalEvents
    /\ TakeNext
    /\ \/ /\ host = "session"
          /\ TurnEnds(Head(queue))
       \/ /\ host = "isolated" /\ Heeded
          /\ held' = Head(queue) /\ pc' = "auditing"
          /\ UNCHANGED <<tasks, interrupted, reply, last>>
    /\ UNCHANGED <<control, link, rpcs, asks, cor, server, injected, carried,
                   owner, late>>

\* The audit of the workspace may turn any end into a failure.
AuditEnds ==
    /\ pc = "auditing" /\ Heeded
    /\ \E e \in {held, [held EXCEPT !.type = "failed"]} : TurnEnds(e)
    /\ UNCHANGED <<control, link, rpcs, asks, outbox, cor, server, injected,
                   carried, owner, late>>

\* The decision goes to the app-server and back to the reader of the events.
Answer ==
    /\ pc = "asking" /\ Ready /\ held.nat \in asks
    /\ toServer' = Append(toServer, [op |-> "answer", t |-> holder, nat |-> held.nat])
    /\ asks' = asks \ {held.nat}
    /\ Emit(<<"resolved">>, held.turn, held.nat)
    /\ pc' = "read" /\ held' = None /\ UNCHANGED <<interrupted, reply>>
    /\ UNCHANGED <<tasks, control, link, rpcs, cor, fromServer, srv, seen>>

\* The callback raises, is cancelled or decides what is not available, or
\* respond_approval finds the session dead or the request answered.
AnswerFails ==
    /\ pc = "asking"
    /\ pc' = "failing" /\ held' = None /\ UNCHANGED <<interrupted, reply>>
    /\ UNCHANGED <<tasks, control, link, rpcs, asks, outbox, cor, server, seen>>

-----------------------------------------------------------------------------
(* Cancellation, failure and the close they lead to *)

\* interrupt: refused for a turn that is already terminal.
CanInterrupt == Ready /\ cor.native[holder] # 0 /\ holder \notin cor.completed
Interrupt(next) ==
    IF CanInterrupt
    THEN Send("interrupt", holder, cor.native[holder]) /\ pc' = next
    ELSE pc' = "failing" /\ UNCHANGED <<rpcs, toServer>>

\* Mutant: the event that arrived together with the cancellation is dropped.
CancelTurnDrops ==
    /\ pc \in {"read", "auditing"} /\ ~interrupted /\ holder \in cancelled
    /\ held' = None
    /\ IF pc = "read" /\ queue # <<>> /\ Head(queue).type \notin TerminalEvents
       THEN TakeNext ELSE UNCHANGED outbox
    /\ interrupted' = TRUE /\ reply' = NoReply
    /\ Interrupt("interrupting")
    /\ UNCHANGED <<tasks, control, link, asks, cor, fromServer, srv, seen>>

\* The user's cancellation is noticed: with no event at hand, with one that is
\* then held until the interrupt is answered, or during the audit.
CancelTurn ==
    /\ pc \in {"read", "auditing"} /\ ~interrupted /\ holder \in cancelled
    /\ \/ /\ pc = "read" /\ queue # <<>> /\ Head(queue).type \notin TerminalEvents
          /\ held' = Head(queue) /\ TakeNext
       \/ /\ \/ pc = "auditing"
             \/ queue = <<>>
             \/ queue # <<>> /\ host = "isolated" /\ Head(queue).type \in TerminalEvents
          /\ held' = None /\ UNCHANGED outbox
    /\ interrupted' = TRUE /\ reply' = NoReply
    /\ Interrupt("interrupting")
    /\ UNCHANGED <<tasks, control, link, asks, cor, fromServer, srv, seen>>

Interrupted ==
    /\ pc = "interrupting" /\ reply.s = "ok"
    /\ IF held = None
       THEN pc' = "read" /\ reply' = NoReply /\ UNCHANGED <<interrupted, held, last>>
       ELSE Deliver(held)
    /\ UNCHANGED <<tasks, control, link, rpcs, asks, outbox, cor, server,
                   injected, carried, owner, late>>

InterruptFails ==
    /\ pc = "interrupting" /\ reply.s = "error"
    /\ pc' = "failing" /\ held' = None /\ reply' = NoReply /\ UNCHANGED interrupted
    /\ UNCHANGED <<tasks, control, link, rpcs, asks, outbox, cor, server, seen>>

\* Mutant: only the interrupt itself is bounded.
GraceForInterrupt ==
    /\ pc = "interrupting" /\ reply.s = "none"
    /\ pc' = "expiring" /\ held' = None /\ UNCHANGED <<interrupted, reply>>
    /\ UNCHANGED <<tasks, control, link, rpcs, asks, outbox, cor, server, seen>>

\* One deadline for the interrupt and for the terminal event after it.
GraceExpires ==
    /\ \/ pc = "interrupting" /\ reply.s = "none"
       \/ pc \in {"read", "auditing"} /\ interrupted
    /\ pc' = "expiring" /\ held' = None /\ UNCHANGED <<interrupted, reply>>
    /\ UNCHANGED <<tasks, control, link, rpcs, asks, outbox, cor, server, seen>>

\* _run_active_turn's handler: one more interrupt, whatever becomes of it.
RunFails ==
    /\ pc = "failing"
    /\ IF CanInterrupt
       THEN Send("interrupt", holder, cor.native[holder]) /\ pc' = "last_interrupt"
       ELSE pc' = "closing" /\ UNCHANGED <<rpcs, toServer>>
    /\ UNCHANGED <<tasks, control, interrupted, held, reply, link, asks, outbox,
                   cor, fromServer, srv, seen>>

LastInterrupt ==
    /\ pc = "last_interrupt"
    /\ pc' = "closing" /\ reply' = NoReply /\ UNCHANGED <<interrupted, held>>
    /\ UNCHANGED <<tasks, control, link, rpcs, asks, outbox, cor, server, seen>>

CloseByTurn ==
    /\ pc \in {"closing", "expiring"} /\ ~closed
    /\ BeginClose
    /\ UNCHANGED <<tasks, coroutine, rpcs, asks, outbox, cor, server, seen>>

\* Mutant: the turn does not close the controller it gave up on.
RunEndsOpen ==
    /\ pc \in {"closing", "expiring"}
    /\ Release(IF pc = "expiring" THEN "cancelled" ELSE "error")
    /\ UNCHANGED <<control, link, rpcs, asks, outbox, cor, server, seen>>

\* A close in progress, its own or another's, is waited for.
RunEnds ==
    /\ pc \in {"closing", "expiring"} /\ closed /\ state = "closed"
    /\ Release(IF pc = "expiring" THEN "cancelled" ELSE "error")
    /\ UNCHANGED <<control, link, rpcs, asks, outbox, cor, server, seen>>

-----------------------------------------------------------------------------
(* compact_context, of the session and of the controller *)

CompactSent ==
    /\ pc = "compacting" /\ reply.s = "ok"
    /\ pc' = "binding" /\ reply' = NoReply /\ UNCHANGED <<interrupted, held>>
    /\ UNCHANGED <<tasks, control, link, rpcs, asks, outbox, cor, server, seen>>

CompactBound ==
    /\ pc = "binding" /\ cor.native[holder] # 0
    /\ cor' = [cor EXCEPT !.starting = 0]
    /\ Goto("compact_read")
    /\ UNCHANGED <<tasks, control, link, rpcs, asks, outbox, server, seen>>

\* An error response, or no response or no turn to bind in time.
CompactNotStarted ==
    /\ \/ pc = "compacting" /\ reply.s = "error" /\ UNCHANGED <<rpcs, late>>
       \/ /\ pc = "compacting" /\ reply.s = "none"
          /\ rpcs' = rpcs \ {<<"compact", holder>>} /\ late' = TRUE
       \/ /\ pc = "binding" /\ cor.native[holder] = 0
          /\ late' = TRUE /\ UNCHANGED rpcs
    /\ cor' = [cor EXCEPT !.starting = 0, !.compactions = @ \ {holder}]
    /\ Release("error")
    /\ UNCHANGED <<control, link, asks, outbox, server, injected, carried, last, owner>>

\* An event of the compaction goes to the sink.  The completed compaction is
\* the last; the POST_COMPACT hook that runs then, and touches nothing here,
\* may deny it, and the task raises although its sink has seen the end.
\* Another task's event, the end of the stream and a failing sink raise too.
CompactReads ==
    /\ pc = "compact_read" /\ queue # <<>>
    /\ TakeNext
    /\ LET e == Head(queue)
       IN  \/ /\ e.turn = holder /\ Given(e)
              /\ IF e.type = "compacted"
                 THEN Release("completed") \/ Release("error")
                 ELSE UNCHANGED <<tasks, coroutine>>
           \/ Release("error") /\ UNCHANGED last
    /\ UNCHANGED <<control, link, rpcs, asks, cor, server, injected, carried,
                   owner, late>>

CompactTimesOut ==
    /\ pc = "compact_read" /\ queue = <<>>
    /\ Release("error")
    /\ UNCHANGED <<control, link, rpcs, asks, outbox, cor, server, seen>>

-----------------------------------------------------------------------------
(* The reader: _handle_frame, the event mapper and the approval mapper *)

Arrived(types) == reader /\ fromServer # <<>> /\ Head(fromServer).f \in types
msg == Head(fromServer)
from == Local(cor, msg.nat)
Consume == fromServer' = Tail(fromServer) /\ UNCHANGED <<toServer, srv>>

ReadResponse ==
    /\ Arrived({"ok", "refused"}) /\ <<msg.op, msg.t>> \in rpcs
    /\ rpcs' = rpcs \ {<<msg.op, msg.t>>}
    /\ reply' = IF pc \in Awaits /\ msg.t = holder
                THEN [s |-> IF msg.f = "ok" THEN "ok" ELSE "error", nat |-> msg.nat]
                ELSE reply
    /\ Consume
    /\ UNCHANGED <<tasks, control, pc, interrupted, held, link, asks, outbox,
                   cor, seen>>

ReadStarted ==
    /\ Arrived({"started"}) /\ from # 0
    /\ cor' = Opened(Located(cor, msg.nat), from)
    /\ Emit(OpenedEvents(Located(cor, msg.nat), from), from, msg.nat)
    /\ Consume
    /\ UNCHANGED <<tasks, control, coroutine, link, rpcs, asks, seen>>

ReadItem ==
    /\ Arrived({"item"}) /\ from # 0
    /\ cor' = Located(cor, msg.nat)
    /\ Emit(<<"item">>, from, msg.nat)
    /\ Consume
    /\ UNCHANGED <<tasks, control, coroutine, link, rpcs, asks, seen>>

ReadAsk ==
    /\ Arrived({"ask"}) /\ from # 0
    /\ cor' = Located(cor, msg.nat)
    /\ asks' = asks \cup {msg.nat}
    /\ Emit(<<"ask">>, from, msg.nat)
    /\ Consume
    /\ UNCHANGED <<tasks, control, coroutine, link, rpcs, seen>>

ReadCompacted ==
    /\ Arrived({"compacted"}) /\ from # 0
    /\ cor' = Compacted(Located(cor, msg.nat), from)
    /\ Emit(CompactedEvents(Located(cor, msg.nat), from), from, msg.nat)
    /\ Consume
    /\ UNCHANGED <<tasks, control, coroutine, link, rpcs, asks, seen>>

\* complete_turn: a compaction's end is not an event, unless it brings the
\* completion of the compaction itself.
ReadEnded ==
    /\ Arrived(TerminalEvents) /\ from # 0 /\ from \notin cor.completed
    /\ LET c == Located(cor, msg.nat)
       IN  CASE from \notin c.compactions ->
                  cor' = Completed(c, from) /\ Emit(<<msg.f>>, from, msg.nat)
             [] from \in c.compactions /\ msg.f = "completed" ->
                  /\ cor' = Completed(Compacted(c, from), from)
                  /\ Emit(CompactedEvents(c, from), from, msg.nat)
             [] OTHER -> cor' = Completed(c, from) /\ UNCHANGED outbox
    /\ Consume
    /\ UNCHANGED <<tasks, control, coroutine, link, rpcs, asks, seen>>

\* What _handle_frame raises for: the end of the stream, a stale response, a
\* turn that cannot be located, a second terminal event.
Unreadable ==
    CASE msg.f = "eof"              -> TRUE
      [] msg.f \in {"ok", "refused"} -> <<msg.op, msg.t>> \notin rpcs
      [] msg.f \in TerminalEvents    -> from = 0 \/ from \in cor.completed
      [] OTHER                      -> from = 0

\* The reader ends; unless the session is closing, _fail ends the session.
RejectFrame ==
    /\ reader /\ fromServer # <<>> /\ Unreadable
    /\ reader' = FALSE
    /\ IF state = "ready"
       THEN /\ fatal' = TRUE /\ FailAll
            /\ queue' = Append(queue, Broken)
            /\ srv' = [srv EXCEPT !.up = FALSE] /\ fromServer' = <<>> /\ toServer' = <<>>
       ELSE Consume /\ UNCHANGED <<fatal, rpcs, reply, queue>>
    /\ UNCHANGED <<tasks, control, pc, interrupted, held, state, asks, sequence,
                   cor, seen>>

-----------------------------------------------------------------------------
(* External: the app-server, as the session and its tests take it to behave *)

Frm(f, op, t, nat) == [f |-> f, op |-> op, t |-> t, nat |-> nat]
req == Head(toServer)
Tell(frames) == fromServer' = fromServer \o frames
ServerRest == UNCHANGED <<tasks, control, coroutine, link, rpcs, asks, outbox, cor,
                          injected, carried, last, late>>

\* It opens a native turn and says so, before or after the response.
ServerOpens ==
    /\ srv.up /\ toServer # <<>> /\ req.op \in {"turn", "compact"}
    /\ srv.nat = 0 /\ srv.next <= MaxNatives
    /\ toServer' = Tail(toServer)
    /\ srv' = [srv EXCEPT !.nat = srv.next, !.next = @ + 1, !.kind = req.op,
                          !.items = 0, !.asking = FALSE, !.stop = FALSE]
    /\ owner' = [owner EXCEPT ![srv.next] = req.t]
    /\ LET ok == Frm("ok", req.op, req.t, srv.next)
           begun == Frm("started", req.op, 0, srv.next)
       IN  Tell(<<ok, begun>>) \/ Tell(<<begun, ok>>)
    /\ ServerRest

\* Any request may be refused.
ServerRefuses ==
    /\ srv.up /\ toServer # <<>> /\ req.op # "answer"
    /\ toServer' = Tail(toServer)
    /\ Tell(<<Frm("refused", req.op, req.t, 0)>>)
    /\ UNCHANGED <<srv, owner>> /\ ServerRest

ServerInterrupts ==
    /\ srv.up /\ toServer # <<>> /\ req.op = "interrupt"
    /\ srv.nat # 0 /\ owner[srv.nat] = owner[req.nat]
    /\ toServer' = Tail(toServer)
    /\ srv' = [srv EXCEPT !.stop = TRUE, !.asking = FALSE]
    /\ Tell(<<Frm("ok", req.op, req.t, 0)>>)
    /\ UNCHANGED owner /\ ServerRest

ServerAnswered ==
    /\ srv.up /\ toServer # <<>> /\ req.op = "answer"
    /\ toServer' = Tail(toServer)
    /\ srv' = [srv EXCEPT !.asking = @ /\ srv.nat # req.nat]
    /\ UNCHANGED <<fromServer, owner>> /\ ServerRest

\* A delta or another item, an approval request, a completed compaction: the
\* one asked for, or one the app-server makes of its own accord inside a turn.
ServerWorks ==
    /\ srv.up /\ srv.nat # 0 /\ ~srv.asking /\ ~srv.stop /\ srv.items < MaxItems
    /\ \E f \in IF srv.kind = "compact" THEN {"compacted"}
               ELSE {"item", "ask", "compacted"} :
         /\ srv' = [srv EXCEPT !.items = @ + 1, !.asking = (f = "ask")]
         /\ Tell(<<Frm(f, srv.kind, 0, srv.nat)>>)
    /\ UNCHANGED <<toServer, owner>> /\ ServerRest

\* Codex 0.149 goes on with the same turn under a fresh id.
ServerReplaces ==
    /\ srv.up /\ srv.kind = "turn" /\ srv.nat # 0 /\ ~srv.asking
    /\ srv.next <= MaxNatives
    /\ srv' = [srv EXCEPT !.nat = srv.next, !.next = @ + 1]
    /\ owner' = [owner EXCEPT ![srv.next] = owner[srv.nat]]
    /\ Tell(<<Frm("started", "turn", 0, srv.next)>>)
    /\ UNCHANGED toServer /\ ServerRest

ServerEnds ==
    /\ srv.up /\ srv.nat # 0
    /\ \E f \in TerminalEvents :
         /\ f = "interrupted" => srv.stop
         /\ f = "completed" => ~srv.asking
         /\ Tell(<<Frm(f, srv.kind, 0, srv.nat)>>)
    /\ srv' = [srv EXCEPT !.nat = 0, !.asking = FALSE, !.stop = FALSE]
    /\ UNCHANGED <<toServer, owner>> /\ ServerRest

ServerExits ==
    /\ srv.up
    /\ srv' = [srv EXCEPT !.up = FALSE, !.nat = 0]
    /\ toServer' = <<>> /\ Tell(<<Frm("eof", "turn", 0, 0)>>)
    /\ UNCHANGED owner /\ ServerRest

-----------------------------------------------------------------------------
Deciding == Answer \/ AnswerFails
Running ==
    \/ EnsureStarted \/ StartFails \/ SendTurn \/ SendCompact \/ SendRefused
    \/ TurnSent \/ TurnNotSent
    \/ ReadEvent \/ ReadTerminal \/ AuditEnds
    \/ CancelTurn \/ Interrupted \/ InterruptFails \/ GraceExpires
    \/ RunFails \/ LastInterrupt \/ CloseByTurn \/ RunEnds
    \/ CompactSent \/ CompactBound \/ CompactNotStarted \/ CompactReads
    \/ CompactTimesOut
Reader ==
    \/ ReadResponse \/ ReadStarted \/ ReadItem \/ ReadAsk \/ ReadCompacted
    \/ ReadEnded \/ RejectFrame
Embedder ==
    \/ \E t \in Tasks : (\E k \in {"turn", "compact"} : NewTask(t, k)) \/ RequestCancel(t)
    \/ \E x \in Context : InjectItems(x)
    \/ Close
Server ==
    \/ ServerOpens \/ ServerRefuses \/ ServerInterrupts \/ ServerAnswered
    \/ ServerWorks \/ ServerReplaces \/ ServerEnds \/ ServerExits
Next == Running \/ Deciding \/ Reader \/ Embedder \/ EndClose \/ Server

Spec == Init /\ [][Next]_vars

\* A user who cancels or closes no longer keeps an approval open: the terminal
\* forces the stop after a delay, the websocket decides for a client that left.
Stopped == Deciding /\ (closed \/ holder \in cancelled)

\* The event loop runs what can run, timers fire and a close ends; nothing is
\* asked of the app-server, its pipes, or a user who has not stopped the turn.
FairSpec ==
    Spec /\ WF_vars(Running) /\ WF_vars(Stopped) /\ WF_vars(EndClose)

-----------------------------------------------------------------------------
(* Properties *)

\* Every variable has its type.
TypeOK ==
    /\ host \in {"isolated", "session"} /\ state \in {"new", "ready", "closing", "closed"}
    /\ {closed, started, interrupted, reader, fatal, late} \subseteq BOOLEAN
    /\ holder \in 0..MaxTasks /\ waiting \in Seq(Tasks) /\ cancelled \subseteq Tasks
    /\ kind \in [Tasks -> {"none", "turn", "compact"}]
    /\ result \in [Tasks -> Results]
    /\ (pc = "idle") = (holder = 0)
    /\ held \in Event /\ reply \in [s : {"none", "ok", "error"}, nat : 0..MaxNatives]
    /\ rpcs \subseteq Ops \X Tasks /\ asks \subseteq Natives
    /\ queue \in Seq(Event) /\ sequence \in Nat
    /\ cor.starting \in 0..MaxTasks /\ cor.active \in 0..MaxTasks
    /\ cor.native \in [Tasks -> 0..MaxNatives] /\ cor.local \in [Natives -> 0..MaxTasks]
    /\ toServer \in Seq(Request) /\ fromServer \in Seq(Frame)

\* Whatever the app-server replaces, delays or answers late, a sink only sees
\* events of the native turns that were opened for its task; only a compaction
\* that follows one given up on may see the events of that one.
OwnEventsOnly ==
    last.to # 0 =>
        /\ last.event.turn = last.to
        /\ owner[last.event.nat] = last.to \/ (late /\ kind[last.to] = "compact")

\* A sink sees consecutive events: none is lost or doubled, in particular not
\* the one that arrives together with a cancellation.
EventsInOrder ==
    [][last'.to = last.to /\ last' # last => last'.event.seq = last.event.seq + 1]_vars

\* Once a turn is reported cancelled, the app-server no longer works on it:
\* it said so, or it was killed with its session.
CancelledIsOver ==
    \A t \in Tasks : result[t] = "cancelled" /\ srv.up /\ srv.nat # 0 =>
        owner[srv.nat] # t

\* The app-server is never asked to begin while it still works, unless a
\* compaction request was given up on before it answered.
OneNativeTurn ==
    srv.up /\ toServer # <<>> /\ req.op \in {"turn", "compact"} /\ ~late => srv.nat = 0

\* An injected item goes into one turn, and waits for it until the controller
\* closes.
ContextOnce ==
    \A x \in Context :
        /\ Cardinality(carried[x]) <= 1
        /\ x \in injected /\ carried[x] = {} /\ x \notin pending =>
              closed \/ pc = "closing"

\* A cancelled turn that holds the lock ends, whatever the app-server does
\* ("bounds the interrupt() call itself and includes terminal waiting in the
\* same grace budget").
CancelEnds == \A t \in Tasks :
    (holder = t /\ t \in cancelled) ~> (result[t] # "none")

\* After a close, by anyone and at any moment, nobody holds or waits for the
\* turn lock for ever.
CloseEnds == closed ~> (holder = 0)

\* The controller, its turn handles, the session and the app-server together
\* serve turns the way TurnService has it: first come, first served, one
\* terminal event, the last, which says how the turn ended, and no turn that
\* ends without one leaves the conversation open; a compaction shows its
\* completion last, and ends with it unless a hook denies it then.
Service == INSTANCE TurnService WITH
    Jobs <- Tasks, job <- kind, ended <- result, shown <- last, dropped <- cancelled, shut <- closed,
    line <- IF holder = 0 THEN <<>> ELSE <<holder>> \o waiting
ServesTurns == Service!Spec

\* A turn that the app-server has ended has a terminal event to read ("Each
\* turn streams typed text, tool, approval, and terminal events"): nobody waits
\* for the events of a turn that has none left to come.
EndIsHeard ==
    pc = "read" /\ holder \in cor.completed /\ Ready => queue # <<>>

=============================================================================
