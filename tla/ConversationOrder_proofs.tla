---------------------- MODULE ConversationOrder_proofs ----------------------
(***************************************************************************)
(* More proofs about Conversation: the sink of a task sees consecutive     *)
(* events (EventsInOrder).                                                 *)
(*                                                                         *)
(* Three things make it true.  The tasks hold the lock in the order of     *)
(* their numbers (Lined), and nothing refers to one that still waits       *)
(* (Apart).  The end of a turn is in the queue at most once, and only      *)
(* while the turn holds the lock (Heard), so that the audit and the wait   *)
(* for an interrupt are never about the same turn.  And what is in the     *)
(* queue, held, or given to the sink is numbered without a gap (Counted).  *)
(***************************************************************************)
EXTENDS Conversation_proofs

\* The tasks hold the lock in the order of their numbers; one that has no
\* result holds it or waits.
Lined ==
    /\ \A u \in Tasks : kind[u] # "none" => \A v \in 1..(u - 1) : kind[v] # "none"
    /\ \A i, j \in DOMAIN waiting : i < j => waiting[i] < waiting[j]
    /\ holder # 0 => \A i \in DOMAIN waiting : holder < waiting[i]
    /\ \A u \in Tasks : kind[u] # "none" /\ result[u] = "none" =>
          u = holder \/ \E i \in DOMAIN waiting : waiting[i] = u

\* A closed session reads nothing and has no server, and neither has one that was
\* never started.
Settled ==
    /\ state = "closed" => ~reader /\ ~srv.up
    /\ started => state # "new"
    /\ reader \/ srv.up => started

\* Nothing refers to who waits, and compactions are of a bare session.
Apart ==
    /\ \A t \in Tasks : Refers(t) => \A i \in DOMAIN waiting : waiting[i] # t
    /\ \A t \in Tasks : kind[t] = "compact" => host = "session"
    /\ pc = "auditing" => host = "isolated"

\* The turns whose end is in the queue; it is there once.
Terminated(q) == {q[i].turn : i \in {j \in DOMAIN q : q[j].type \in TerminalEvents}}
Solo(q) == \A i, j \in DOMAIN q :
    i < j /\ q[i].type \in TerminalEvents /\ q[j].type \in TerminalEvents =>
       q[i].turn # q[j].turn

\* The end of a turn is in the queue once, while the turn holds the lock; a turn
\* that has its result was ended, unless the session was closed.
Heard ==
    /\ Solo(queue)
    /\ \A t \in Terminated(queue) :
          /\ t # 0 /\ t \in cor.completed
          /\ kind[t] = "turn" => t = holder \/ state = "closed"
    /\ pc = "auditing" =>
          /\ held.turn = holder \/ state = "closed"
          /\ held.turn # 0 /\ held.turn \in cor.completed
          /\ held.turn \notin Terminated(queue)
    /\ \A t \in Tasks : kind[t] = "turn" /\ result[t] # "none" =>
          t \in cor.completed \/ state = "closed"

\* The events of turns are numbered without a gap, from the one the sink has
\* seen, or from the one at hand, to the last in the queue.
Gapless(q, s) ==
    \A i \in DOMAIN q : q[i].seq >= 0 /\ (q[i].turn # 0 =>
       /\ i = Len(q) => q[i].seq + 1 = s
       /\ i + 1 \in DOMAIN q /\ q[i + 1].turn # 0 => q[i + 1].seq = q[i].seq + 1)
Follows(q, s, n) ==
    /\ q = <<>> => n + 1 = s
    /\ 1 \in DOMAIN q /\ q[1].turn # 0 => q[1].seq = n + 1
Counted ==
    /\ Gapless(queue, sequence)
    /\ last.to # 0 /\ last.to = holder =>
         /\ pc \in {"read", "asking", "compact_read"} =>
               Follows(queue, sequence, last.event.seq)
         /\ pc \in {"auditing", "interrupting"} /\ held.turn # 0 =>
               held.seq = last.event.seq + 1
         /\ pc = "interrupting" /\ held = None =>
               Follows(queue, sequence, last.event.seq)
    /\ pc = "interrupting" /\ held.turn # 0 => Follows(queue, sequence, held.seq)

-----------------------------------------------------------------------------
(* Who holds the lock *)

\* The lock stays where it is, and the holder does not go back.
LockStays ==
    /\ UNCHANGED <<holder, waiting, kind, result>>
    /\ pc' \in {"start", "send"} => pc \in {"start", "send"}
    /\ (pc' = "idle") = (pc = "idle")

\* The others who wait move up.
MoveUp == \A i \in DOMAIN waiting : i # 1 =>
    i - 1 \in DOMAIN waiting' /\ waiting'[i - 1] = waiting[i]

\* Who waits is a task.
LEMMA InLine ==
    ASSUME TypedTasks
    PROVE  /\ waiting \in Seq(Tasks) /\ holder \in 0..MaxTasks /\ holder \in Int
           /\ Len(waiting) \in Nat /\ DOMAIN waiting = 1..Len(waiting)
           /\ \A i \in DOMAIN waiting : waiting[i] \in Tasks /\ waiting[i] \in Int
           /\ \A i \in DOMAIN waiting : i \in Int /\ 1 <= i
           /\ Tasks \subseteq Int /\ 0 \notin Tasks
  <1>1. waiting \in Seq(Tasks) /\ holder \in 0..MaxTasks
    BY DEF TypedTasks
  <1>2. Len(waiting) \in Nat /\ DOMAIN waiting = 1..Len(waiting)
    BY <1>1, LenProperties
  <1>3. \A i \in DOMAIN waiting : waiting[i] \in Tasks
    <2>1. \A i \in 1..Len(waiting) : waiting[i] \in Tasks
      BY <1>1, ElementOfSeq
    <2> QED BY <1>2, <2>1
  <1>4. Tasks \subseteq Int /\ 0 \notin Tasks /\ holder \in Int
    BY <1>1, Bounded DEF Tasks
  <1>5. \A i \in DOMAIN waiting : waiting[i] \in Int
    BY <1>3, <1>4
  <1>6. \A i \in DOMAIN waiting : i \in Int /\ 1 <= i
    BY <1>2
  <1> QED BY <1>1, <1>2, <1>3, <1>4, <1>5, <1>6

\* A step leaves the lock alone, passes it, or asks for it.
LEMMA LockSteps ==
    ASSUME Inv, [Next]_vars
    PROVE  \/ LockStays
           \/ pc # "idle" /\ LockPasses /\ MoveUp
           \/ \E t \in Tasks, k \in {"turn", "compact"} : NewTask(t, k)
  <1>0. TypedTasks /\ TypedCoroutine /\ Placed
    BY DEF Inv
  <1>1. ASSUME GivesUp, pc # "idle"
        PROVE  pc # "idle" /\ LockPasses /\ MoveUp
    <2>1. PICK r \in Ended : Release(r)
      BY <1>1 DEF GivesUp
    <2>2. CASE waiting = <<>>
      <3>1. DOMAIN waiting = {}
        BY <2>2
      <3> QED BY <1>0, <1>1, <3>1, HolderFacts, Passing DEF MoveUp
    <2>3. CASE waiting # <<>>
      <3>1. waiting' = Tail(waiting)
        BY <2>1, <2>3 DEF Release
      <3>2. /\ Tail(waiting) \in Seq(Tasks)
            /\ Len(Tail(waiting)) = Len(waiting) - 1
            /\ \A i \in 1..Len(Tail(waiting)) : Tail(waiting)[i] = waiting[i + 1]
        BY <1>0, <2>3, InLine, HeadTailProperties
      <3>3. DOMAIN waiting' = 1..(Len(waiting) - 1)
        BY <3>1, <3>2, LenProperties
      <3>4. MoveUp
        <4> SUFFICES ASSUME NEW i \in DOMAIN waiting, i # 1
                     PROVE  i - 1 \in DOMAIN waiting' /\ waiting'[i - 1] = waiting[i]
          BY DEF MoveUp
        <4>1. i - 1 \in 1..(Len(waiting) - 1) /\ (i - 1) + 1 = i
          BY <1>0, InLine
        <4>2. Tail(waiting)[i - 1] = waiting[(i - 1) + 1]
          BY <3>2, <4>1
        <4> QED BY <3>1, <3>3, <4>1, <4>2
      <3> QED BY <1>0, <1>1, <3>4, HolderFacts, Passing
    <2> QED BY <2>2, <2>3
  <1>2. StartFails \/ SendRefused => pc # "idle" /\ (GivesUp \/ LockStays)
    BY <1>0, GivingUp DEF TurnCloses, LockStays, tasks
  <1>3. ReadTerminal \/ AuditEnds => pc # "idle" /\ (GivesUp \/ LockStays)
    BY <1>0, GivingUp DEF LockStays, tasks
  <1>4. RunEnds \/ CompactNotStarted \/ CompactTimesOut => pc # "idle" /\ GivesUp
    BY <1>0, GivingUp
  <1>5. CompactReads => pc # "idle" /\ (GivesUp \/ LockStays)
    BY <1>0, GivingUp DEF LockStays, tasks, coroutine
  <1>6. EnsureStarted \/ SendTurn \/ SendCompact => LockStays
    BY DEF EnsureStarted, SendTurn, SendCompact, Goto, LockStays, tasks
  <1>7. TurnSent \/ TurnNotSent => LockStays
    BY DEF TurnSent, TurnNotSent, LockStays, tasks
  <1>8. ReadEvent => LockStays
    BY DeliverFacts DEF ReadEvent, LockStays, tasks
  <1>9. Answer \/ AnswerFails => LockStays
    BY DEF Answer, AnswerFails, LockStays, tasks
  <1>10. CancelTurn => LockStays
    BY DEF CancelTurn, Interrupt, LockStays, tasks
  <1>11. Interrupted => LockStays
    BY DeliverFacts DEF Interrupted, LockStays, tasks
  <1>12. InterruptFails \/ GraceExpires => LockStays
    BY DEF InterruptFails, GraceExpires, LockStays, tasks
  <1>13. RunFails \/ LastInterrupt \/ CloseByTurn => LockStays
    BY DEF RunFails, LastInterrupt, CloseByTurn, LockStays, tasks, coroutine
  <1>14. CompactSent \/ CompactBound => LockStays
    BY DEF CompactSent, CompactBound, Goto, LockStays, tasks
  <1>15. ReadResponse \/ RejectFrame => LockStays
    BY DEF ReadResponse, RejectFrame, LockStays, tasks
  <1>16. Mapping => LockStays
    BY MappingRest DEF LockStays, tasks, coroutine
  <1>17. (\E t \in Tasks : RequestCancel(t)) => LockStays
    BY DEF RequestCancel, LockStays, tasks, coroutine
  <1>18. (\E x \in Context : InjectItems(x)) \/ Close \/ EndClose => LockStays
    BY DEF InjectItems, Close, EndClose, LockStays, tasks, coroutine
  <1>19. Server \/ UNCHANGED vars => LockStays
    BY ServerFrame DEF vars, LockStays, tasks, coroutine
  <1> QED
    BY <1>1, <1>2, <1>3, <1>4, <1>5, <1>6, <1>7, <1>8, <1>9, <1>10, <1>11,
       <1>12,
       <1>13, <1>14, <1>15, <1>16, <1>17, <1>18, <1>19
       DEF Next, Running, Deciding, Reader, Mapping, Embedder

\* A new task is the last in the line.
LEMMA NewTaskFacts ==
    ASSUME TypedTasks, Placed, NEW t \in Tasks, NEW k \in {"turn", "compact"}, NewTask(t, k)
    PROVE  /\ kind[t] = "none" /\ kind' = [kind EXCEPT ![t] = k] /\ result' = result
           /\ \A u \in 1..(t - 1) : kind[u] # "none"
           /\ k = "compact" => host = "session"
           /\ \/ /\ holder = 0 /\ holder' = t /\ pc' = "start"
                 /\ waiting = <<>> /\ waiting' = <<>>
              \/ /\ holder # 0 /\ holder' = holder /\ pc' = pc
                 /\ Len(waiting) \in Nat /\ DOMAIN waiting = 1..Len(waiting)
                 /\ DOMAIN waiting' = 1..(Len(waiting) + 1)
                 /\ waiting'[Len(waiting) + 1] = t
                 /\ \A i \in DOMAIN waiting : waiting'[i] = waiting[i]
           /\ \A u \in Tasks : u # t => kind'[u] = kind[u]
           /\ kind'[t] = k
           /\ UNCHANGED <<control, link, rpcs, asks, outbox, cor, server, seen,
                          interrupted, held, reply>>
  <1>1. /\ kind[t] = "none" /\ kind' = [kind EXCEPT ![t] = k] /\ result' = result
        /\ \A u \in 1..(t - 1) : kind[u] # "none"
        /\ k = "compact" => host = "session"
        /\ UNCHANGED <<control, link, rpcs, asks, outbox, cor, server, seen,
                       interrupted, held, reply>>
    BY DEF NewTask, Goto, coroutine
  <1>2. /\ \A u \in Tasks : u # t => kind'[u] = kind[u]
        /\ kind'[t] = k
    BY <1>1 DEF TypedTasks
  <1>3. CASE holder = 0
    <2>1. holder' = t /\ pc' = "start" /\ waiting' = waiting /\ waiting = <<>>
      BY <1>3 DEF NewTask, Goto, Placed
    <2> QED BY <1>1, <1>2, <1>3, <2>1
  <1>4. CASE holder # 0
    <2>1. holder' = holder /\ pc' = pc /\ waiting' = Append(waiting, t)
      BY <1>4 DEF NewTask, coroutine
    <2>2. waiting \in Seq(Tasks)
      BY DEF TypedTasks
    <2>3. /\ Len(waiting) \in Nat /\ DOMAIN waiting = 1..Len(waiting)
          /\ DOMAIN waiting' = 1..(Len(waiting) + 1)
          /\ waiting'[Len(waiting) + 1] = t
          /\ \A i \in DOMAIN waiting : waiting'[i] = waiting[i]
      BY <2>1, <2>2, LenProperties, AppendProperties
    <2> QED BY <1>1, <1>2, <1>4, <2>1, <2>3
  <1> QED BY <1>3, <1>4

\* The line stays in order.
LEMMA LinedStep ==
    ASSUME Inv, Lined, [Next]_vars
    PROVE  Lined'
  <1>0. TypedTasks /\ Placed
    BY DEF Inv
  <1>1. /\ waiting \in Seq(Tasks) /\ holder \in 0..MaxTasks
        /\ \A i \in DOMAIN waiting : waiting[i] \in Tasks /\ waiting[i] \in Int /\ i \in Int
    BY <1>0, InLine
  <1>2. CASE LockStays
    BY <1>2 DEF LockStays, Lined
  <1>3. CASE pc # "idle" /\ LockPasses /\ MoveUp
    <2>1. \A u \in Tasks : kind'[u] = kind[u] /\ (result'[u] = "none" => result[u] = "none")
      BY <1>0, <1>3, HolderFacts DEF LockPasses
    <2>2. \A i, j \in DOMAIN waiting' : i < j => waiting'[i] < waiting'[j]
      <3> SUFFICES ASSUME NEW i \in DOMAIN waiting', NEW j \in DOMAIN waiting', i < j
                   PROVE  waiting'[i] < waiting'[j]
        OBVIOUS
      <3>1. /\ i + 1 \in DOMAIN waiting /\ waiting'[i] = waiting[i + 1]
            /\ j + 1 \in DOMAIN waiting /\ waiting'[j] = waiting[j + 1]
            /\ i \in Int /\ j \in Int
        BY <1>3 DEF LockPasses
      <3> QED BY <3>1 DEF Lined
    <2>3. holder' # 0 => \A i \in DOMAIN waiting' : holder' < waiting'[i]
      <3> SUFFICES ASSUME holder' # 0, NEW i \in DOMAIN waiting'
                   PROVE  holder' < waiting'[i]
        OBVIOUS
      <3>1. /\ i + 1 \in DOMAIN waiting /\ waiting'[i] = waiting[i + 1] /\ i + 1 # 1
            /\ 1 \in DOMAIN waiting /\ holder' = waiting[1] /\ i + 1 \in Int /\ i \in Int
        BY <1>1, <1>3 DEF LockPasses
      <3>2. waiting \in Seq(Tasks) /\ Len(waiting) \in Nat /\ DOMAIN waiting = 1..Len(waiting)
        BY <1>1, LenProperties
      <3>3. 1 < i + 1
        BY <3>1, <3>2
      <3> QED BY <3>1, <3>3 DEF Lined
    <2>4. ASSUME NEW u \in Tasks, kind'[u] # "none", result'[u] = "none"
          PROVE  u = holder' \/ \E i \in DOMAIN waiting' : waiting'[i] = u
      <3>1. u # holder /\ holder # 0
        BY <1>0, <1>3, <2>4, HolderFacts DEF LockPasses, Tasks
      <3>2. PICK i \in DOMAIN waiting : waiting[i] = u
        BY <2>1, <2>4, <3>1 DEF Lined
      <3>4. CASE i = 1
        <4>1. DOMAIN waiting # {} /\ 1 \in DOMAIN waiting
          BY <3>2, <3>4
        <4>2. waiting # <<>>
          BY <4>1
        <4> QED BY <1>3, <3>2, <3>4, <4>2 DEF LockPasses
      <3>5. CASE i # 1
        BY <1>3, <3>2, <3>5 DEF MoveUp
      <3> QED BY <3>4, <3>5
    <2>5. \A u \in Tasks : kind'[u] # "none" => \A v \in 1..(u - 1) : kind'[v] # "none"
      <3>1. kind' = kind
        BY <1>3 DEF LockPasses
      <3> QED BY <3>1 DEF Lined
    <2> QED BY <2>2, <2>3, <2>4, <2>5 DEF Lined
  <1>4. ASSUME NEW t \in Tasks, NEW k \in {"turn", "compact"}, NewTask(t, k)
        PROVE  Lined'
    <2>1. /\ kind[t] = "none" /\ \A u \in 1..(t - 1) : kind[u] # "none"
          /\ \A u \in Tasks : u # t => kind'[u] = kind[u]
          /\ kind'[t] = k /\ result' = result
      BY <1>0, <1>4, NewTaskFacts
    <2>2. \A u \in Tasks : kind'[u] # "none" => \A v \in 1..(u - 1) : kind'[v] # "none"
      BY <2>1, Bounded DEF Lined, Tasks
    <2>3. \A u \in Tasks : kind[u] # "none" => u < t
      BY <2>1, Bounded DEF Lined, Tasks
    <2>4. CASE holder = 0
      <3>1. holder' = t /\ waiting = <<>> /\ waiting' = <<>>
        BY <1>0, <1>4, <2>4, NewTaskFacts
      <3> QED BY <2>1, <2>2, <2>4, <3>1 DEF Lined, Tasks
    <2>5. CASE holder # 0
      <3>1. /\ holder' = holder
            /\ Len(waiting) \in Nat /\ DOMAIN waiting = 1..Len(waiting)
            /\ DOMAIN waiting' = 1..(Len(waiting) + 1)
            /\ waiting'[Len(waiting) + 1] = t
            /\ \A i \in DOMAIN waiting : waiting'[i] = waiting[i]
        BY <1>0, <1>4, <2>5, NewTaskFacts
      <3>2. holder < t
        BY <1>0, <1>1, <2>3, <2>5 DEF Placed, Tasks
      <3>3. \A i \in DOMAIN waiting : waiting[i] < t
        BY <1>0, <1>1, <2>3 DEF Placed
      <3>4. \A i, j \in DOMAIN waiting' : i < j => waiting'[i] < waiting'[j]
        BY <3>1, <3>3 DEF Lined
      <3>5. \A i \in DOMAIN waiting' : holder < waiting'[i]
        BY <2>5, <3>1, <3>2 DEF Lined
      <3>6. \A u \in Tasks : kind'[u] # "none" /\ result'[u] = "none" =>
               u = holder' \/ \E i \in DOMAIN waiting' : waiting'[i] = u
        BY <2>1, <3>1 DEF Lined
      <3> QED BY <2>2, <3>1, <3>4, <3>5, <3>6 DEF Lined
    <2> QED BY <2>4, <2>5
  <1> QED BY <1>2, <1>3, <1>4, LockSteps

-----------------------------------------------------------------------------
(* The session settles, and the reader's references are few *)

\* The app-server does not come up by itself.
LEMMA ServerStays ==
    ASSUME TypedServer, Server
    PROVE  srv'.up => srv.up
  <1>1. srv \in Servers
    BY DEF TypedServer
  <1>2. CASE ServerOpens
    BY <1>1, <1>2 DEF ServerOpens, Servers
  <1>3. CASE ServerRefuses \/ ServerInterrupts
    BY <1>1, <1>3 DEF ServerRefuses, ServerInterrupts, Servers
  <1>4. CASE ServerAnswered
    <2>1. srv' = [srv EXCEPT !.asking = srv.asking /\ srv.nat # req.nat]
      BY <1>1, <1>4 DEF ServerAnswered, Servers
    <2> QED BY <1>1, <2>1 DEF Servers
  <1>7. CASE ServerWorks
    <2>1. PICK f \in {"item", "ask", "compacted"} :
            srv' = [srv EXCEPT !.items = srv.items + 1, !.asking = (f = "ask")]
      BY <1>1, <1>7 DEF ServerWorks, Servers
    <2> QED BY <1>1, <2>1 DEF Servers
  <1>5. CASE ServerReplaces \/ ServerEnds
    BY <1>1, <1>5 DEF ServerReplaces, ServerEnds, Servers
  <1>6. CASE ServerExits
    BY <1>1, <1>6 DEF ServerExits, Servers
  <1> QED BY <1>2, <1>3, <1>4, <1>5, <1>6, <1>7 DEF Server

\* A closed session stays closed, and quiet.
LEMMA SettledStep ==
    ASSUME Inv, Settled, [Next]_vars
    PROVE  Settled' /\ (state = "closed" => state' = "closed")
  <1>0. TypedServer /\ TypedLink /\ TypedControl /\ srv \in Servers
    BY DEF Inv, TypedServer
  <1>1. ASSUME UNCHANGED <<started, reader, state>>, srv'.up => srv.up
        PROVE  Settled' /\ (state = "closed" => state' = "closed")
    BY <1>1 DEF Settled
  <1>2. CASE EnsureStarted
    <2>1. \/ UNCHANGED <<started, reader, state, srv>>
          \/ started' = TRUE /\ state = "new" /\ state' = "ready"
      BY <1>2 DEF EnsureStarted
    <2> QED BY <1>1, <2>1 DEF Settled
  <1>3. CASE StartFails
    <2>1. /\ UNCHANGED <<started, reader, srv>>
          /\ state' = state \/ (~started /\ state' = "closed")
      BY <1>3 DEF StartFails, control, server
    <2> QED BY <1>1, <2>1 DEF Settled
  <1>4. CASE CloseByTurn \/ Close
    <2>1. /\ UNCHANGED <<started, reader, srv>>
          /\ state' = IF state = "closed" THEN "closed" ELSE "closing"
      BY <1>4 DEF CloseByTurn, Close, BeginClose, server
    <2> QED BY <2>1 DEF Settled
  <1>5. CASE EndClose
    <2>1. /\ started' = started /\ ~reader' /\ state' = "closed"
          /\ srv' = [srv EXCEPT !.up = FALSE]
      BY <1>5 DEF EndClose, control
    <2>2. ~srv'.up
      BY <1>0, <2>1 DEF Servers
    <2> QED BY <2>1, <2>2 DEF Settled
  <1>6. CASE RejectFrame
    <2>1. /\ UNCHANGED <<started, state>> /\ ~reader'
          /\ srv' = srv \/ srv' = [srv EXCEPT !.up = FALSE]
      BY <1>6 DEF RejectFrame, Consume, control
    <2>2. srv'.up => srv.up
      BY <1>0, <2>1 DEF Servers
    <2> QED BY <2>1, <2>2 DEF Settled
  <1>7. CASE Server
    <2>1. UNCHANGED <<started, reader, state>>
      BY <1>7, ServerFrame DEF control, link
    <2> QED BY <1>0, <1>1, <1>7, <2>1, ServerStays
  <1>8. CASE SendTurn \/ SendCompact \/ SendRefused \/ TurnSent \/ TurnNotSent
    BY <1>1, <1>8 DEF SendTurn, SendCompact, SendRefused, TurnSent, TurnNotSent,
       control, link, server
  <1>9. CASE ReadEvent \/ ReadTerminal \/ AuditEnds \/ CancelTurn \/ Interrupted
    BY <1>1, <1>9 DEF ReadEvent, ReadTerminal, AuditEnds, CancelTurn,
       Interrupted,
       control, link, server
  <1>10. CASE InterruptFails \/ GraceExpires \/ RunFails \/ LastInterrupt \/ RunEnds
    BY <1>1, <1>10 DEF InterruptFails, GraceExpires, RunFails, LastInterrupt,
       RunEnds,
       control, link, server
  <1>11. CASE CompactSent \/ CompactBound \/ CompactNotStarted \/ CompactReads
            \/ CompactTimesOut
    BY <1>1, <1>11 DEF CompactSent, CompactBound, CompactNotStarted,
       CompactReads,
       CompactTimesOut, control, link, server
  <1>12. CASE Answer \/ AnswerFails \/ ReadResponse
    BY <1>1, <1>12 DEF Answer, AnswerFails, ReadResponse, Consume, control,
       link, server
  <1>13. CASE Mapping \/ UNCHANGED vars
    BY <1>1, <1>13, MappingRest DEF vars, control, link, server
  <1>14. CASE (\E t \in Tasks : RequestCancel(t)) \/ (\E x \in Context : InjectItems(x))
    BY <1>1, <1>14 DEF RequestCancel, InjectItems, control, link, server
  <1>15. ASSUME NEW t \in Tasks, NEW k \in {"turn", "compact"}, NewTask(t, k)
         PROVE  Settled' /\ (state = "closed" => state' = "closed")
    BY <1>1, <1>15 DEF NewTask, control, link, server
  <1> QED
    BY <1>2, <1>3, <1>4, <1>5, <1>6, <1>7, <1>8, <1>9, <1>10, <1>11, <1>12,
       <1>13,
       <1>14, <1>15 DEF Next, Running, Deciding, Reader, Mapping, Embedder

\* No step forgets that a turn is over, and only the holder, or who was referred
\* to, is referred to.
LEMMA ReferSteps ==
    ASSUME Inv, [Next]_vars
    PROVE  /\ cor.completed \subseteq cor'.completed
           /\ \A t \in Tasks : Refers(t)' => Refers(t) \/ t = holder
           /\ ~Mapping => cor'.completed = cor.completed
  <1>0. /\ TypedTasks /\ TypedCoroutine /\ TypedCor /\ TypedServer /\ Placed
        /\ Asked /\ Known /\ cor \in Correlations
    BY DEF Inv, TypedCor
  <1> DEFINE Goal == /\ cor.completed \subseteq cor'.completed
                     /\ \A t \in Tasks : Refers(t)' => Refers(t) \/ t = holder
                     /\ ~Mapping => cor'.completed = cor.completed
  <1> SUFFICES Goal
    OBVIOUS
  <1>1. ASSUME cor' = cor
        PROVE  Goal
    BY <1>1 DEF Refers
  <1>2. ASSUME cor'.starting \in {0, cor.starting, holder},
               cor'.active \in {cor.active, holder},
               \A n \in Natives : cor'.local[n] \in {cor.local[n], holder},
               cor'.completed = cor.completed
        PROVE  Goal
    BY <1>2 DEF Refers, Tasks
  <1>3. CASE SendTurn
    <2>1. cor' = [cor EXCEPT !.starting = holder]
      BY <1>3 DEF SendTurn
    <2>2. /\ cor'.starting = holder /\ cor'.active = cor.active /\ cor'.local = cor.local
          /\ cor'.completed = cor.completed
      BY <1>0, <2>1 DEF Correlations
    <2> QED BY <1>2, <2>2
  <1>4. CASE SendCompact
    <2> DEFINE more == cor.compactions \cup {holder}
    <2>1. cor' = [cor EXCEPT !.starting = holder, !.compactions = more]
      BY <1>0, <1>4 DEF SendCompact, Correlations
    <2> HIDE DEF more
    <2>2. /\ cor'.starting = holder /\ cor'.active = cor.active /\ cor'.local = cor.local
          /\ cor'.completed = cor.completed
      BY <1>0, <2>1 DEF Correlations
    <2> QED BY <1>2, <2>2
  <1>5. CASE TurnSent
    <2>1. /\ cor'.starting = 0 /\ cor'.active \in {cor.active, holder}
          /\ \A n \in Natives : cor'.local[n] \in {cor.local[n], holder}
          /\ cor'.completed = cor.completed
      BY <1>0, <1>5, TurnSentFacts
    <2> QED BY <1>2, <2>1
  <1>6. CASE TurnNotSent \/ CompactBound
    <2>1. cor' = [cor EXCEPT !.starting = 0]
      BY <1>6 DEF TurnNotSent, CompactBound
    <2>2. /\ cor'.starting = 0 /\ cor'.active = cor.active /\ cor'.local = cor.local
          /\ cor'.completed = cor.completed
      BY <1>0, <2>1 DEF Correlations
    <2> QED BY <1>2, <2>2
  <1>7. CASE CompactNotStarted
    <2> DEFINE fewer == cor.compactions \ {holder}
    <2>1. cor' = [cor EXCEPT !.starting = 0, !.compactions = fewer]
      BY <1>0, <1>7 DEF CompactNotStarted, Correlations
    <2> HIDE DEF fewer
    <2>2. /\ cor'.starting = 0 /\ cor'.active = cor.active /\ cor'.local = cor.local
          /\ cor'.completed = cor.completed
      BY <1>0, <2>1 DEF Correlations
    <2> QED BY <1>2, <2>2
  <1>8. CASE Mapping
    <2>1. Mapped
      BY <1>0, <1>8, MappingMaps
    <2>2. /\ Refers(from) /\ from \in Tasks
          /\ cor'.starting = cor.starting /\ cor'.active \in {cor.active, from, 0}
          /\ \A n \in Natives : cor'.local[n] \in {cor.local[n], from}
          /\ cor.completed \subseteq cor'.completed
      BY <2>1 DEF Mapped
    <2>3. ASSUME NEW t \in Tasks, Refers(t)'
          PROVE  Refers(t)
      <3>1. t # 0
        BY DEF Tasks
      <3> QED BY <2>2, <2>3, <3>1 DEF Refers
    <2> QED BY <1>8, <2>2, <2>3
  <1>9. CASE EnsureStarted \/ StartFails \/ SendRefused \/ ReadEvent \/ ReadTerminal
             \/ AuditEnds \/ Answer \/ AnswerFails
    <2>1. cor' = cor
      BY <1>9 DEF EnsureStarted, StartFails, SendRefused, ReadEvent,
         ReadTerminal,
         AuditEnds, Answer, AnswerFails
    <2> QED BY <1>1, <2>1
  <1>10. CASE CancelTurn \/ Interrupted \/ InterruptFails \/ GraceExpires \/ RunFails
             \/ LastInterrupt \/ CloseByTurn \/ RunEnds
    <2>1. cor' = cor
      BY <1>10 DEF CancelTurn, Interrupted, InterruptFails, GraceExpires,
         RunFails,
         LastInterrupt, CloseByTurn, RunEnds
    <2> QED BY <1>1, <2>1
  <1>11. CASE CompactSent \/ CompactReads \/ CompactTimesOut \/ ReadResponse
             \/ RejectFrame \/ Close \/ EndClose
    <2>1. cor' = cor
      BY <1>11 DEF CompactSent, CompactReads, CompactTimesOut, ReadResponse,
         RejectFrame, Close, EndClose
    <2> QED BY <1>1, <2>1
  <1>12. CASE (\E t \in Tasks : RequestCancel(t)) \/ (\E x \in Context : InjectItems(x))
             \/ Server \/ UNCHANGED vars
    <2>1. cor' = cor
      BY <1>12, ServerFrame DEF RequestCancel, InjectItems, vars
    <2> QED BY <1>1, <2>1
  <1>13. ASSUME NEW t \in Tasks, NEW k \in {"turn", "compact"}, NewTask(t, k)
         PROVE  Goal
    <2>1. cor' = cor
      BY <1>13 DEF NewTask
    <2> QED BY <1>1, <2>1
  <1> HIDE DEF Goal
  <1> QED
    BY <1>3, <1>4, <1>5, <1>6, <1>7, <1>8, <1>9, <1>10, <1>11, <1>12, <1>13 DEF
       Next,
       Running, Deciding, Reader, Mapping, Embedder

\* Nothing refers to who waits.
LEMMA ApartStep ==
    ASSUME Inv, Apart, [Next]_vars
    PROVE  Apart'
  <1>0. /\ TypedTasks /\ TypedCoroutine /\ TypedCor /\ TypedControl /\ Placed /\ Known
        /\ cor \in Correlations
    BY DEF Inv, TypedCor
  <1>1. host' = host
    <2>1. TypedControl' /\ TypedControl
      BY <1>0, TypedControlStep
    <2>2. Running \/ Deciding \/ EndClose => host' = host
      <3>1. EnsureStarted \/ StartFails \/ SendTurn \/ SendCompact \/ SendRefused
            \/ TurnSent \/ TurnNotSent => host' = host
        BY DEF EnsureStarted, StartFails, SendTurn, SendCompact, SendRefused,
           TurnSent,
           TurnNotSent, control
      <3>2. ReadEvent \/ ReadTerminal \/ AuditEnds \/ CancelTurn \/ Interrupted
            \/ InterruptFails \/ GraceExpires => host' = host
        BY DEF ReadEvent, ReadTerminal, AuditEnds, CancelTurn, Interrupted,
           InterruptFails, GraceExpires, control
      <3>3. RunFails \/ LastInterrupt \/ CloseByTurn \/ RunEnds => host' = host
        BY DEF RunFails, LastInterrupt, CloseByTurn, BeginClose, RunEnds,
           control
      <3>4. CompactSent \/ CompactBound \/ CompactNotStarted \/ CompactReads
            \/ CompactTimesOut => host' = host
        BY DEF CompactSent, CompactBound, CompactNotStarted, CompactReads,
           CompactTimesOut, control
      <3>5. Answer \/ AnswerFails \/ EndClose => host' = host
        BY DEF Answer, AnswerFails, EndClose, control
      <3> QED BY <3>1, <3>2, <3>3, <3>4, <3>5 DEF Running, Deciding
    <2>3. Reader \/ Server \/ UNCHANGED vars => host' = host
      <3>1. Mapping \/ Server \/ UNCHANGED vars => host' = host
        BY MappingRest, ServerFrame DEF vars, control
      <3>2. ReadResponse \/ RejectFrame => host' = host
        BY DEF ReadResponse, RejectFrame, control
      <3> QED BY <3>1, <3>2 DEF Reader, Mapping
    <2>4. Embedder => host' = host
      <3>1. ASSUME NEW t \in Tasks, NEW k \in {"turn", "compact"}, NewTask(t, k)
            PROVE  host' = host
        BY <3>1 DEF NewTask, control
      <3>2. (\E t \in Tasks : RequestCancel(t)) \/ (\E x \in Context : InjectItems(x))
            \/ Close => host' = host
        BY DEF RequestCancel, InjectItems, Close, BeginClose, control
      <3> QED BY <3>1, <3>2 DEF Embedder
    <2> QED BY <2>2, <2>3, <2>4 DEF Next
  <1>2. pc' = "auditing" => pc = "auditing" \/ ReadTerminal
    <2> SUFFICES ASSUME pc' = "auditing", pc # "auditing"
                 PROVE  ReadTerminal
      OBVIOUS
    <2>1. ~LockPasses /\ ~TurnCloses
      BY DEF LockPasses, TurnCloses
    <2>2. pc # "idle" /\ GivesUp => FALSE
      BY <1>0, <2>1, HolderFacts, Passing
    <2>3. ~(StartFails \/ SendRefused \/ RunEnds \/ CompactNotStarted \/ CompactTimesOut
            \/ AuditEnds)
      BY <1>0, <2>1, <2>2, GivingUp
    <2>4. ~CompactReads
      BY <1>0, <2>2, GivingUp DEF coroutine
    <2>5. ~(EnsureStarted \/ SendTurn \/ SendCompact \/ TurnSent \/ TurnNotSent)
      BY DEF EnsureStarted, SendTurn, SendCompact, TurnSent, TurnNotSent, Goto
    <2>6. ~(ReadEvent \/ Interrupted)
      BY DeliverFacts DEF ReadEvent, Interrupted
    <2>7. ~(CancelTurn \/ InterruptFails \/ GraceExpires \/ RunFails)
      BY DEF CancelTurn, Interrupt, InterruptFails, GraceExpires, RunFails
    <2>8. ~(LastInterrupt \/ CloseByTurn \/ CompactSent \/ CompactBound)
      BY DEF LastInterrupt, CloseByTurn, CompactSent, CompactBound, Goto,
         coroutine
    <2>9. ~(Answer \/ AnswerFails \/ ReadResponse \/ RejectFrame \/ EndClose \/ Close)
      BY DEF Answer, AnswerFails, ReadResponse, RejectFrame, EndClose, Close,
         coroutine
    <2>10. ~(Mapping \/ Server \/ UNCHANGED vars)
      BY MappingRest, ServerFrame DEF coroutine, vars
    <2>11. ~((\E t \in Tasks : RequestCancel(t)) \/ (\E x \in Context : InjectItems(x)))
      BY DEF RequestCancel, InjectItems, coroutine
    <2>12. ASSUME NEW t \in Tasks, NEW k \in {"turn", "compact"}, NewTask(t, k)
           PROVE  FALSE
      BY <2>12 DEF NewTask, Goto, coroutine
    <2> QED
      BY <2>3, <2>4, <2>5, <2>6, <2>7, <2>8, <2>9, <2>10, <2>11, <2>12 DEF
         Next, Running,
         Deciding, Reader, Mapping, Embedder
  <1>3. pc' = "auditing" => host' = "isolated"
    <2>1. ReadTerminal /\ pc' = "auditing" => host = "isolated" \/ host = "session"
      BY <1>0 DEF TypedControl
    <2>2. ReadTerminal /\ host = "session" => pc' # "auditing"
      <3>1. GivesUp /\ pc = "read" => pc' # "auditing"
        <4>1. GivesUp /\ pc = "read" => LockPasses
          BY <1>0, HolderFacts, Passing
        <4> QED BY <4>1 DEF LockPasses
      <3> QED BY <3>1, TurnEndsFacts DEF ReadTerminal
    <2> QED BY <1>1, <1>2, <2>1, <2>2 DEF Apart
  <1>4. \A t \in Tasks : kind'[t] = "compact" => host' = "session"
    <2>1. CASE kind' = kind
      BY <1>1, <2>1 DEF Apart
    <2>2. ASSUME NEW t \in Tasks, NEW k \in {"turn", "compact"}, NewTask(t, k)
          PROVE  \A u \in Tasks : kind'[u] = "compact" => host' = "session"
      <3>1. /\ k = "compact" => host = "session"
            /\ \A u \in Tasks : u # t => kind'[u] = kind[u]
            /\ kind'[t] = k
        BY <1>0, <2>2, NewTaskFacts
      <3> QED BY <1>1, <3>1 DEF Apart
    <2> QED BY <2>1, <2>2, LockSteps DEF LockStays, LockPasses
  <1>5. ASSUME NEW t \in Tasks, Refers(t)', NEW i \in DOMAIN waiting'
        PROVE  waiting'[i] # t
    <2>1. Refers(t) \/ t = holder
      BY <1>5, ReferSteps
    <2>2. \A j \in DOMAIN waiting : waiting[j] # t
      BY <1>0, <2>1 DEF Placed, Apart
    <2>3. CASE LockStays
      BY <1>5, <2>2, <2>3 DEF LockStays
    <2>4. CASE LockPasses
      BY <1>5, <2>2, <2>4 DEF LockPasses
    <2>5. ASSUME NEW u \in Tasks, NEW k \in {"turn", "compact"}, NewTask(u, k)
          PROVE  waiting'[i] # t
      <3>1. CASE holder = 0
        <4>1. DOMAIN waiting' = {}
          BY <1>0, <2>5, <3>1, NewTaskFacts
        <4> QED BY <1>5, <4>1
      <3>2. CASE holder # 0
        <4>1. /\ Len(waiting) \in Nat /\ DOMAIN waiting = 1..Len(waiting)
              /\ DOMAIN waiting' = 1..(Len(waiting) + 1)
              /\ waiting'[Len(waiting) + 1] = u
              /\ \A j \in DOMAIN waiting : waiting'[j] = waiting[j]
              /\ kind[u] = "none"
          BY <1>0, <2>5, <3>2, NewTaskFacts
        <4>2. Refers(t)
          BY <1>5, <2>5 DEF NewTask, Refers
        <4>3. t # u
          BY <1>0, <4>1, <4>2 DEF Known
        <4> QED BY <1>5, <2>2, <4>1, <4>3
      <3> QED BY <3>1, <3>2
    <2> QED BY <2>3, <2>4, <2>5, LockSteps
  <1> QED BY <1>3, <1>4, <1>5 DEF Apart

-----------------------------------------------------------------------------
(* The ends of turns in the queue *)

\* The queue keeps its ends, one is taken, or one is added.
LEMMA TerminatedTake ==
    ASSUME queue \in Seq(Event), queue # <<>>, Solo(queue), queue' = Tail(queue)
    PROVE  /\ Solo(queue') /\ Terminated(queue') \subseteq Terminated(queue)
           /\ Head(queue).type \in TerminalEvents =>
                 /\ Head(queue).turn \in Terminated(queue)
                 /\ Head(queue).turn \notin Terminated(queue')
  <1>1. /\ Head(queue) = queue[1] /\ Len(queue) \in Nat
        /\ Len(queue') = Len(queue) - 1 /\ queue' \in Seq(Event)
        /\ Len(queue) >= 1
        /\ \A i \in 1..Len(queue') : i + 1 \in 1..Len(queue) /\ queue'[i] = queue[i + 1]
    BY TakeFacts
  <1>2. DOMAIN queue = 1..Len(queue) /\ DOMAIN queue' = 1..Len(queue')
    BY <1>1, LenProperties
  <1>3. /\ \A i \in DOMAIN queue' : i + 1 \in DOMAIN queue /\ queue'[i] = queue[i + 1]
        /\ \A i \in DOMAIN queue' : i \in Int /\ 1 < i + 1
        /\ 1 \in DOMAIN queue
    BY <1>1, <1>2
  <1>4. Solo(queue')
    <2> SUFFICES ASSUME NEW i \in DOMAIN queue', NEW j \in DOMAIN queue', i < j,
                        queue'[i].type \in TerminalEvents, queue'[j].type \in TerminalEvents
                 PROVE  queue'[i].turn # queue'[j].turn
      BY DEF Solo
    <2>1. i + 1 < j + 1
      BY <1>3
    <2> QED BY <1>3, <2>1 DEF Solo
  <1>5. Terminated(queue') \subseteq Terminated(queue)
    BY <1>3 DEF Terminated
  <1>6. Head(queue).type \in TerminalEvents =>
          /\ Head(queue).turn \in Terminated(queue)
          /\ Head(queue).turn \notin Terminated(queue')
    BY <1>1, <1>3 DEF Terminated, Solo
  <1> QED BY <1>4, <1>5, <1>6

\* The end of the stream is no turn's end.
LEMMA TerminatedAppend ==
    ASSUME queue \in Seq(Event), NEW e \in Event, e.type \notin TerminalEvents,
           Solo(queue), queue' = Append(queue, e)
    PROVE  Solo(queue') /\ Terminated(queue') \subseteq Terminated(queue)
  <1>1. /\ queue' \in Seq(Event) /\ Len(queue) \in Nat
        /\ Len(queue') = Len(queue) + 1 /\ queue'[Len(queue')] = e
        /\ \A i \in 1..Len(queue) : queue'[i] = queue[i]
    BY EndQueued
  <1>2. DOMAIN queue = 1..Len(queue) /\ DOMAIN queue' = 1..Len(queue')
    BY <1>1, LenProperties
  <1>3. \A i \in DOMAIN queue' : queue'[i].type \in TerminalEvents =>
           i \in DOMAIN queue /\ queue'[i] = queue[i]
    BY <1>1, <1>2
  <1> QED BY <1>3 DEF Terminated, Solo

\* New events end at most one turn, and only where one of them says so.
LEMMA TerminatedEmit ==
    ASSUME NEW types \in Seq(EventTypes), NEW t \in 0..MaxTasks,
           NEW n \in 0..MaxNatives, TypedOut, Emit(types, t, n), Solo(queue)
    PROVE  /\ (\A i \in 1..Len(types) : types[i] \notin TerminalEvents) =>
                 Solo(queue') /\ Terminated(queue') \subseteq Terminated(queue)
           /\ Len(types) = 1 /\ t \notin Terminated(queue) =>
                 Solo(queue') /\ Terminated(queue') \subseteq Terminated(queue) \cup {t}
  <1>1. /\ queue' \in Seq(Event) /\ Len(types) \in Nat /\ Len(queue) \in Nat
        /\ Len(queue') = Len(queue) + Len(types)
        /\ \A i \in 1..Len(queue) : queue'[i] = queue[i]
        /\ \A i \in (Len(queue) + 1)..Len(queue') :
              /\ i - Len(queue) \in 1..Len(types)
              /\ queue'[i].type = types[i - Len(queue)]
              /\ queue'[i].turn = t
    BY EmitFacts
  <1>2. DOMAIN queue = 1..Len(queue) /\ DOMAIN queue' = 1..Len(queue')
    BY <1>1, LenProperties DEF TypedOut
  <1>3. \A i \in DOMAIN queue' :
           \/ i \in DOMAIN queue /\ queue'[i] = queue[i]
           \/ /\ i \in Int /\ i \in (Len(queue) + 1)..Len(queue')
              /\ i - Len(queue) \in 1..Len(types)
              /\ queue'[i].type = types[i - Len(queue)] /\ queue'[i].turn = t
    BY <1>1, <1>2
  <1>4. ASSUME \A i \in 1..Len(types) : types[i] \notin TerminalEvents
        PROVE  Solo(queue') /\ Terminated(queue') \subseteq Terminated(queue)
    <2>1. \A i \in DOMAIN queue' : queue'[i].type \in TerminalEvents =>
             i \in DOMAIN queue /\ queue'[i] = queue[i]
      BY <1>3, <1>4
    <2> QED BY <2>1 DEF Terminated, Solo
  <1>5. ASSUME Len(types) = 1, t \notin Terminated(queue)
        PROVE  Solo(queue') /\ Terminated(queue') \subseteq Terminated(queue) \cup {t}
    <2>1. \A i \in DOMAIN queue' :
             \/ i \in DOMAIN queue /\ queue'[i] = queue[i]
             \/ i = Len(queue) + 1 /\ queue'[i].turn = t
      BY <1>1, <1>3, <1>5
    <2>2. \A i \in DOMAIN queue : i <= Len(queue) /\ i \in Int
      BY <1>1, <1>2
    <2>3. \A i \in DOMAIN queue : queue[i].type \in TerminalEvents => queue[i].turn # t
      BY <1>5 DEF Terminated
    <2>4. Terminated(queue') \subseteq Terminated(queue) \cup {t}
      BY <2>1 DEF Terminated
    <2>5. Solo(queue')
      <3> SUFFICES ASSUME NEW i \in DOMAIN queue', NEW j \in DOMAIN queue', i < j,
                          queue'[i].type \in TerminalEvents,
                          queue'[j].type \in TerminalEvents
                   PROVE  queue'[i].turn # queue'[j].turn
        BY DEF Solo
      <3>1. CASE j \in DOMAIN queue /\ queue'[j] = queue[j]
        <4>1. i \in DOMAIN queue /\ queue'[i] = queue[i]
          BY <1>1, <2>1, <2>2, <3>1
        <4> QED BY <3>1, <4>1 DEF Solo
      <3>2. CASE j = Len(queue) + 1 /\ queue'[j].turn = t
        <4>1. i \in DOMAIN queue /\ queue'[i] = queue[i]
          BY <1>1, <2>1, <3>2
        <4> QED BY <2>3, <3>2, <4>1
      <3> QED BY <2>1, <3>1, <3>2
    <2> QED BY <2>4, <2>5
  <1> QED BY <1>4, <1>5

\* The reader hears of the end of a turn that was not over.
HearsEnd ==
    /\ reader /\ from \in Tasks /\ Refers(from)
    /\ from \notin cor.completed /\ from \in cor'.completed
    /\ kind[from] = "turn" \/ result[from] # "none"
    /\ msg.nat \in 0..MaxNatives
    /\ \E f \in TerminalEvents : Emit(<<f>>, from, msg.nat)
    /\ UNCHANGED <<tasks, coroutine, state, last>>

\* Otherwise, the reader only adds what is no end.
AddsPlain ==
    \E types \in Seq(EventTypes), t \in Tasks, n \in 0..MaxNatives :
       /\ Emit(types, t, n)
       /\ \A i \in 1..Len(types) : types[i] \notin TerminalEvents

\* Either of the two is what the event mapper does.
LEMMA MappingEnds ==
    ASSUME TypedCor, TypedServer, TypedTasks, Known, Mapping
    PROVE  UNCHANGED outbox \/ AddsPlain \/ HearsEnd
  <1> DEFINE c == Located(cor, msg.nat)
  <1>1. /\ cor \in Correlations /\ msg.nat \in Natives /\ Local(cor, msg.nat) # 0
        /\ UNCHANGED <<tasks, coroutine, state, last>> /\ msg.nat \in 0..MaxNatives
    BY MappingFrame, Bounded DEF TypedCor, from, Natives, link, seen
  <1>2. from \in Tasks /\ c \in Correlations /\ SameTurns(cor, c) /\ Refers(from)
    BY <1>1, LocatedFacts, MappingMaps DEF from, Mapped
  <1> HIDE DEF c
  <1>3. ASSUME NEW types \in Seq(EventTypes), Emit(types, from, msg.nat),
               \A i \in 1..Len(types) : types[i] \notin TerminalEvents
        PROVE  AddsPlain
    BY <1>1, <1>2, <1>3 DEF AddsPlain
  <1>4. /\ "compacting" \notin TerminalEvents /\ "compacted" \notin TerminalEvents
        /\ "started" \notin TerminalEvents /\ "item" \notin TerminalEvents
        /\ "ask" \notin TerminalEvents
    BY DEF TerminalEvents
  <1>5. CASE ReadStarted
    <2>1. Emit(OpenedEvents(c, from), from, msg.nat)
      BY <1>5 DEF ReadStarted, c
    <2>2. /\ OpenedEvents(c, from) \in Seq(EventTypes)
          /\ \A i \in 1..Len(OpenedEvents(c, from)) :
                OpenedEvents(c, from)[i] \in {"started", "compacting"}
      BY <1>2, OpenedFacts
    <2> QED BY <1>3, <1>4, <2>1, <2>2
  <1>6. CASE ReadItem \/ ReadAsk
    <2>1. PICK f \in {"item", "ask"} : Emit(<<f>>, from, msg.nat)
      BY <1>6 DEF ReadItem, ReadAsk
    <2> DEFINE one == <<f>>
    <2>2. one \in Seq(EventTypes) /\ Len(one) = 1 /\ one[1] = f
      BY DEF EventTypes
    <2>3. Emit(one, from, msg.nat)
      BY <2>1
    <2> HIDE DEF one
    <2>4. \A i \in 1..Len(one) : one[i] \notin TerminalEvents
      BY <1>4, <2>2
    <2> QED BY <1>3, <2>2, <2>3, <2>4
  <1>7. ASSUME Emit(CompactedEvents(c, from), from, msg.nat)
        PROVE  AddsPlain
    <2>1. /\ CompactedEvents(c, from) \in Seq(EventTypes)
          /\ \A i \in 1..Len(CompactedEvents(c, from)) :
                CompactedEvents(c, from)[i] \in {"compacting", "compacted"}
      BY <1>2, CompactedFacts
    <2> QED BY <1>3, <1>4, <1>7, <2>1
  <1>8. CASE ReadCompacted
    BY <1>7, <1>8 DEF ReadCompacted, c
  <1>9. CASE ReadEnded
    <2>1. msg.f \in TerminalEvents /\ from \notin cor.completed /\ reader
      BY <1>9 DEF ReadEnded, Arrived, msg
    <2>2. CASE from \notin c.compactions
      <3>1. cor' = Completed(c, from) /\ Emit(<<msg.f>>, from, msg.nat)
        BY <1>9, <2>2 DEF ReadEnded, c
      <3>2. from \in cor'.completed
        BY <1>2, <3>1, CompletedFacts
      <3>3. kind[from] = "turn" \/ result[from] # "none"
        <4>1. from \notin cor.compactions /\ kind[from] \in {"none", "turn", "compact"}
          BY <1>2, <2>2 DEF SameTurns, TypedTasks
        <4> QED BY <1>2, <2>1, <4>1 DEF Known
      <3> QED BY <1>1, <1>2, <2>1, <3>1, <3>2, <3>3 DEF HearsEnd
    <2>3. CASE from \in c.compactions /\ msg.f = "completed"
      <3>1. Emit(CompactedEvents(c, from), from, msg.nat)
        BY <1>9, <2>3 DEF ReadEnded, c
      <3> QED BY <1>7, <3>1
    <2>4. CASE from \in c.compactions /\ msg.f # "completed"
      BY <1>9, <2>4 DEF ReadEnded, c
    <2> QED BY <2>2, <2>3, <2>4
  <1> QED BY <1>5, <1>6, <1>8, <1>9 DEF Mapping

\* The end of a turn is heard once, by its holder.
LEMMA HeardStep ==
    ASSUME Inv, Lined, Settled, Apart, Heard, [Next]_vars
    PROVE  Heard'
  <1>0. /\ TypedTasks /\ TypedCoroutine /\ TypedOut /\ TypedCor /\ TypedServer
        /\ TypedSeen /\ Placed /\ Asked /\ Known /\ Named
        /\ queue \in Seq(Event) /\ sequence \in Nat
    BY DEF Inv, TypedOut
  <1>1. /\ cor.completed \subseteq cor'.completed
        /\ state = "closed" => state' = "closed"
    BY ReferSteps, SettledStep
  <1>2. ASSUME Solo(queue'), Terminated(queue') \subseteq Terminated(queue),
               UNCHANGED <<holder, kind, result>>,
               pc' = "auditing" => pc = "auditing" /\ held' = held
        PROVE  Heard'
    <2>1. /\ \A t \in Terminated(queue') :
                /\ t # 0 /\ t \in cor'.completed
                /\ kind'[t] = "turn" => t = holder' \/ state' = "closed"
          /\ pc' = "auditing" =>
                /\ held'.turn = holder' \/ state' = "closed"
                /\ held'.turn # 0 /\ held'.turn \in cor'.completed
                /\ held'.turn \notin Terminated(queue')
      BY <1>1, <1>2 DEF Heard
    <2>2. \A t \in Tasks : kind'[t] = "turn" /\ result'[t] # "none" =>
             t \in cor'.completed \/ state' = "closed"
      BY <1>1, <1>2 DEF Heard
    <2> QED BY <1>2, <2>1, <2>2 DEF Heard
  <1>3. ASSUME pc # "idle", GivesUp,
               Solo(queue'), Terminated(queue') \subseteq Terminated(queue),
               \/ kind[holder] = "compact" \/ state = "closed"
               \/ holder \in cor.completed /\ holder \notin Terminated(queue')
        PROVE  Heard'
    <2>1. LockPasses
      BY <1>0, <1>3, HolderFacts, Passing
    <2>2. /\ pc' # "auditing" /\ kind' = kind
          /\ \A t \in Tasks : t # holder => result'[t] = result[t]
      BY <2>1 DEF LockPasses
    <2>3. \A t \in Terminated(queue') :
             /\ t # 0 /\ t \in cor'.completed
             /\ kind'[t] = "turn" => t = holder' \/ state' = "closed"
      BY <1>1, <1>3, <2>2 DEF Heard
    <2>4. \A t \in Tasks : kind'[t] = "turn" /\ result'[t] # "none" =>
             t \in cor'.completed \/ state' = "closed"
      BY <1>1, <1>3, <2>2 DEF Heard
    <2> QED BY <1>3, <2>2, <2>3, <2>4 DEF Heard
  <1>4. ASSUME UNCHANGED outbox
        PROVE  Solo(queue') /\ Terminated(queue') \subseteq Terminated(queue)
    BY <1>4 DEF outbox, Heard
  <1>5. ASSUME queue # <<>>, queue' = Tail(queue)
        PROVE  /\ Solo(queue') /\ Terminated(queue') \subseteq Terminated(queue)
               /\ Head(queue).type \in TerminalEvents =>
                     /\ Head(queue).turn \in Terminated(queue)
                     /\ Head(queue).turn \notin Terminated(queue')
    BY <1>0, <1>5, TerminatedTake DEF Heard
  <1>6. ASSUME AddsPlain
        PROVE  Solo(queue') /\ Terminated(queue') \subseteq Terminated(queue)
    <2>1. PICK types \in Seq(EventTypes), t \in Tasks, n \in 0..MaxNatives :
             /\ Emit(types, t, n)
             /\ \A i \in 1..Len(types) : types[i] \notin TerminalEvents
      BY <1>6 DEF AddsPlain
    <2>2. t \in 0..MaxTasks
      BY Bounded DEF Tasks
    <2> QED BY <1>0, <2>1, <2>2, TerminatedEmit DEF Heard
  <1>7. ASSUME queue' = Append(queue, Stop) \/ queue' = Append(queue, Broken)
        PROVE  Solo(queue') /\ Terminated(queue') \subseteq Terminated(queue)
    <2>1. /\ Stop \in Event /\ Stop.type \notin TerminalEvents
          /\ Broken \in Event /\ Broken.type \notin TerminalEvents
      BY EventFacts DEF TerminalEvents
    <2> QED BY <1>0, <1>7, <2>1, TerminatedAppend DEF Heard
  <1>8. CASE StartFails \/ SendRefused
    <2>1. /\ pc \in {"start", "send"} /\ UNCHANGED outbox /\ Fails
      BY <1>8 DEF StartFails, SendRefused
    <2>2. CASE kind[holder] = "turn"
      BY <1>2, <1>4, <2>1, <2>2 DEF Fails, Goto, tasks
    <2>3. CASE kind[holder] # "turn"
      <3>1. kind[holder] = "compact"
        BY <1>0, <2>1, <2>3, HolderFacts
      <3>2. GivesUp
        BY <2>1, <2>3 DEF Fails, GivesUp, Ended, Results
      <3> QED BY <1>3, <1>4, <2>1, <3>1, <3>2
    <2> QED BY <2>2, <2>3
  <1>9. CASE ReadTerminal
    <2>1. /\ pc = "read" /\ queue # <<>> /\ queue' = Tail(queue)
          /\ Head(queue).type \in TerminalEvents
          /\ \/ Head(queue).turn = holder /\ GivesUp
             \/ pc' = "failing" /\ UNCHANGED tasks
             \/ pc' = "auditing" /\ held' = Head(queue) /\ UNCHANGED tasks
      BY <1>0, <1>9, GivingUp
    <2>2. /\ Solo(queue') /\ Terminated(queue') \subseteq Terminated(queue)
          /\ Head(queue).turn \in Terminated(queue)
          /\ Head(queue).turn \notin Terminated(queue')
      BY <1>5, <2>1
    <2>3. /\ Head(queue).turn # 0 /\ Head(queue).turn \in cor.completed
          /\ kind[Head(queue).turn] = "turn" => Head(queue).turn = holder \/ state = "closed"
      BY <2>2 DEF Heard
    <2>4. CASE Head(queue).turn = holder /\ GivesUp
      BY <1>3, <2>1, <2>2, <2>3, <2>4
    <2>5. CASE pc' = "failing" /\ UNCHANGED tasks
      BY <1>2, <2>2, <2>5 DEF tasks
    <2>6. CASE pc' = "auditing" /\ held' = Head(queue) /\ UNCHANGED tasks
      <3>1. Head(queue).turn = holder \/ state = "closed"
        <4>1. Head(queue).turn \in Tasks /\ kind[Head(queue).turn] # "none"
          <5>1. Head(queue) = queue[1] /\ 1 \in DOMAIN queue /\ Head(queue) \in Event
            <6>1. /\ Head(queue) = queue[1] /\ Len(queue) \in Nat /\ Len(queue) >= 1
                  /\ Head(queue) \in Event
              BY <1>0, <2>1, TakeFacts
            <6> QED BY <1>0, <6>1, LenProperties
          <5> QED BY <1>0, <2>3, <5>1 DEF Named, Fits, Event, Tasks
        <4>2. host = "isolated"
          <5>1. Apart'
            BY ApartStep
          <5>2. host' = host
            BY <1>9 DEF ReadTerminal, control
          <5> QED BY <2>6, <5>1, <5>2 DEF Apart
        <4>3. kind[Head(queue).turn] = "turn"
          BY <1>0, <4>1, <4>2 DEF Apart, TypedTasks
        <4> QED BY <2>3, <4>3
      <3>2. UNCHANGED <<holder, kind, result>>
        BY <2>6 DEF tasks
      <3>3. \A t \in Terminated(queue') :
               /\ t # 0 /\ t \in cor'.completed
               /\ kind'[t] = "turn" => t = holder' \/ state' = "closed"
        BY <1>1, <2>2, <3>2 DEF Heard
      <3>4. \A t \in Tasks : kind'[t] = "turn" /\ result'[t] # "none" =>
               t \in cor'.completed \/ state' = "closed"
        BY <1>1, <3>2 DEF Heard
      <3>5. /\ held'.turn = holder' \/ state' = "closed"
            /\ held'.turn # 0 /\ held'.turn \in cor'.completed
            /\ held'.turn \notin Terminated(queue')
        BY <1>1, <2>2, <2>3, <2>6, <3>1, <3>2
      <3> QED BY <2>2, <3>3, <3>4, <3>5 DEF Heard
    <2> QED BY <2>1, <2>4, <2>5, <2>6
  <1>10. CASE AuditEnds
    <2>1. /\ pc = "auditing" /\ UNCHANGED outbox
          /\ \/ held.turn = holder /\ GivesUp
             \/ pc' = "failing" /\ UNCHANGED tasks
      BY <1>0, <1>10, GivingUp DEF AuditEnds
    <2>2. held.turn \in cor.completed /\ held.turn \notin Terminated(queue')
      BY <2>1 DEF Heard, outbox
    <2>3. CASE held.turn = holder /\ GivesUp
      BY <1>3, <1>4, <2>1, <2>2, <2>3
    <2>4. CASE pc' = "failing" /\ UNCHANGED tasks
      BY <1>2, <1>4, <2>1, <2>4 DEF tasks
    <2> QED BY <2>1, <2>3, <2>4
  <1>11. CASE RunEnds
    <2>1. pc # "idle" /\ GivesUp /\ state = "closed" /\ UNCHANGED outbox
      BY <1>0, <1>11, GivingUp DEF RunEnds
    <2> QED BY <1>3, <1>4, <2>1
  <1>12. CASE CompactNotStarted \/ CompactTimesOut
    <2>1. pc \in CompactPlaces /\ GivesUp /\ UNCHANGED outbox
      BY <1>0, <1>12, GivingUp DEF CompactNotStarted, CompactTimesOut,
         CompactPlaces
    <2>2. pc # "idle" /\ kind[holder] = "compact"
      BY <1>0, <2>1, HolderFacts DEF CompactPlaces
    <2> QED BY <1>3, <1>4, <2>1, <2>2
  <1>13. CASE CompactReads
    <2>1. /\ pc = "compact_read" /\ queue # <<>> /\ queue' = Tail(queue)
          /\ GivesUp \/ UNCHANGED <<tasks, coroutine>>
      BY <1>0, <1>13, GivingUp
    <2>2. pc # "idle" /\ kind[holder] = "compact"
      BY <1>0, <2>1, HolderFacts DEF CompactPlaces
    <2>3. CASE GivesUp
      BY <1>3, <1>5, <2>1, <2>2, <2>3
    <2>4. CASE UNCHANGED <<tasks, coroutine>>
      BY <1>2, <1>5, <2>1, <2>4 DEF tasks, coroutine
    <2> QED BY <2>1, <2>3, <2>4
  <1>14. CASE EnsureStarted \/ SendTurn \/ SendCompact \/ TurnNotSent
    BY <1>2, <1>4, <1>14 DEF EnsureStarted, SendTurn, SendCompact, TurnNotSent,
       Goto, tasks
  <1>15. CASE TurnSent
    <2>1. UNCHANGED <<holder, kind, result>> /\ pc' # "auditing"
      BY <1>15 DEF TurnSent, tasks
    <2>2. UNCHANGED outbox \/ AddsPlain
      <3>1. reply.nat \in Natives /\ Natives \subseteq 0..MaxNatives
        BY <1>0, <1>15, TurnSentFacts, Bounded DEF Natives
      <3> QED BY <1>0, <1>15, <3>1, TurnSentFacts DEF AddsPlain
    <2> QED BY <1>2, <1>4, <1>6, <2>1, <2>2
  <1>16. CASE ReadEvent
    <2>1. /\ queue # <<>> /\ queue' = Tail(queue) /\ UNCHANGED <<holder, kind, result>>
          /\ pc' # "auditing"
      BY <1>16, DeliverFacts DEF ReadEvent, TakeNext, tasks
    <2> QED BY <1>2, <1>5, <2>1
  <1>17. CASE Interrupted
    <2>1. UNCHANGED <<holder, kind, result, outbox>> /\ pc' # "auditing"
      BY <1>17, DeliverFacts DEF Interrupted, tasks
    <2> QED BY <1>2, <1>4, <2>1
  <1>18. CASE CancelTurn
    <2>1. /\ UNCHANGED <<holder, kind, result>> /\ pc' # "auditing"
          /\ UNCHANGED outbox \/ (queue # <<>> /\ queue' = Tail(queue))
      BY <1>18 DEF CancelTurn, TakeNext, Interrupt, tasks
    <2> QED BY <1>2, <1>4, <1>5, <2>1
  <1>19. CASE Answer
    <2> DEFINE one == <<"resolved">>
    <2>1. /\ pc = "asking" /\ UNCHANGED <<holder, kind, result>> /\ pc' = "read"
          /\ Emit(one, held.turn, held.nat)
      BY <1>19 DEF Answer, tasks
    <2>2. held.turn \in Tasks /\ held.nat \in 0..MaxNatives
      BY <1>0, <2>1, HolderFacts DEF Named, TypedCoroutine, Event
    <2>3. one \in Seq(EventTypes) /\ \A i \in 1..Len(one) : one[i] \notin TerminalEvents
      BY DEF EventTypes, TerminalEvents
    <2> HIDE DEF one
    <2>4. AddsPlain
      BY <2>1, <2>2, <2>3 DEF AddsPlain
    <2> QED BY <1>2, <1>6, <2>1, <2>4
  <1>20. CASE AnswerFails \/ InterruptFails \/ GraceExpires \/ RunFails \/ LastInterrupt
    BY <1>2, <1>4, <1>20 DEF AnswerFails, InterruptFails, GraceExpires,
       RunFails,
       LastInterrupt, tasks
  <1>21. CASE CloseByTurn \/ Close \/ ReadResponse \/ (\E t \in Tasks : RequestCancel(t))
              \/ (\E x \in Context : InjectItems(x))
    BY <1>2, <1>4, <1>21 DEF CloseByTurn, Close, ReadResponse, RequestCancel,
       InjectItems, tasks, coroutine
  <1>22. CASE CompactSent \/ CompactBound
    BY <1>2, <1>4, <1>22 DEF CompactSent, CompactBound, Goto, tasks
  <1>23. CASE Mapping
    <2>1. UNCHANGED <<holder, kind, result, pc, held>>
      BY <1>23, MappingRest DEF tasks, coroutine
    <2>2. UNCHANGED outbox \/ AddsPlain \/ HearsEnd
      BY <1>0, <1>23, MappingEnds
    <2>3. CASE UNCHANGED outbox \/ AddsPlain
      BY <1>2, <1>4, <1>6, <2>1, <2>3
    <2>4. CASE HearsEnd
      <3>1. PICK f \in TerminalEvents : Emit(<<f>>, from, msg.nat)
        BY <2>4 DEF HearsEnd
      <3> DEFINE one == <<f>>
      <3>2. one \in Seq(EventTypes) /\ Len(one) = 1 /\ Emit(one, from, msg.nat)
        BY <3>1 DEF EventTypes
      <3> HIDE DEF one
      <3>3. /\ from \in Tasks /\ from \in 0..MaxTasks /\ from # 0 /\ msg.nat \in 0..MaxNatives
            /\ from \notin cor.completed /\ from \in cor'.completed /\ Refers(from)
            /\ reader /\ state' = state
        BY <2>4, Bounded DEF HearsEnd, Tasks
      <3>4. from \notin Terminated(queue)
        BY <3>3 DEF Heard
      <3>5. Solo(queue') /\ Terminated(queue') \subseteq Terminated(queue) \cup {from}
        BY <1>0, <3>2, <3>3, <3>4, TerminatedEmit DEF Heard
      <3>6. kind[from] = "turn" => from = holder
        <4>1. state # "closed" /\ kind[from] # "none"
          BY <1>0, <3>3 DEF Settled, Known
        <4>2. kind[from] = "turn" => result[from] = "none"
          BY <3>3, <4>1 DEF Heard
        <4> QED BY <3>3, <4>1, <4>2 DEF Lined, Apart
      <3>7. pc = "auditing" => held.turn # from
        BY <3>3 DEF Heard
      <3>8. \A t \in Terminated(queue') :
               /\ t # 0 /\ t \in cor'.completed
               /\ kind'[t] = "turn" => t = holder' \/ state' = "closed"
        BY <1>1, <2>1, <3>3, <3>5, <3>6 DEF Heard
      <3>9. pc' = "auditing" =>
               /\ held'.turn = holder' \/ state' = "closed"
               /\ held'.turn # 0 /\ held'.turn \in cor'.completed
               /\ held'.turn \notin Terminated(queue')
        BY <1>1, <2>1, <3>3, <3>5, <3>7 DEF Heard
      <3>10. \A t \in Tasks : kind'[t] = "turn" /\ result'[t] # "none" =>
                t \in cor'.completed \/ state' = "closed"
        BY <1>1, <2>1 DEF Heard
      <3> QED BY <3>5, <3>8, <3>9, <3>10 DEF Heard
    <2> QED BY <2>2, <2>3, <2>4
  <1>24. CASE RejectFrame
    <2>1. UNCHANGED <<holder, kind, result, pc, held>>
      BY <1>24 DEF RejectFrame, tasks
    <2>2. queue' = queue \/ queue' = Append(queue, Broken)
      BY <1>24 DEF RejectFrame
    <2>3. CASE queue' = queue
      BY <1>2, <2>1, <2>3 DEF Heard
    <2> QED BY <1>2, <1>7, <2>1, <2>2, <2>3
  <1>25. CASE EndClose
    BY <1>2, <1>7, <1>25 DEF EndClose, tasks
  <1>26. CASE Server \/ UNCHANGED vars
    <2>1. UNCHANGED <<holder, kind, result, outbox, pc, held>>
      BY <1>26, ServerFrame DEF vars, tasks, coroutine
    <2> QED BY <1>2, <1>4, <2>1
  <1>27. ASSUME NEW t \in Tasks, NEW k \in {"turn", "compact"}, NewTask(t, k)
         PROVE  Heard'
    <2>1. /\ kind[t] = "none" /\ result' = result
          /\ \A u \in Tasks : u # t => kind'[u] = kind[u]
          /\ \/ holder' = holder /\ pc' = pc
             \/ holder = 0 /\ pc' = "start"
          /\ UNCHANGED <<outbox, cor, held, state>>
      <3>1. /\ kind[t] = "none" /\ result' = result
            /\ \A u \in Tasks : u # t => kind'[u] = kind[u]
            /\ UNCHANGED <<outbox, cor, held, state>>
        BY <1>0, <1>27, NewTaskFacts DEF link
      <3>2. \/ holder' = holder /\ pc' = pc
            \/ holder = 0 /\ pc' = "start"
        BY <1>0, <1>27, NewTaskFacts
      <3> QED BY <3>1, <3>2
    <2>2. result[t] = "none"
      BY <1>0, <2>1 DEF Placed
    <2>3. \A u \in Terminated(queue) : u \in Tasks /\ kind[u] # "none"
      <3> SUFFICES ASSUME NEW i \in DOMAIN queue, queue[i].type \in TerminalEvents
                   PROVE  queue[i].turn \in Tasks /\ kind[queue[i].turn] # "none"
        BY DEF Terminated
      <3>1. queue[i].turn \in Terminated(queue)
        BY DEF Terminated
      <3>2. queue[i].turn # 0
        BY <3>1 DEF Heard
      <3>3. queue[i] \in Event
        <4>1. DOMAIN queue = 1..Len(queue)
          BY <1>0, LenProperties
        <4> QED BY <1>0, <4>1, ElementOfSeq
      <3>4. queue[i].turn \in Tasks
        BY <3>2, <3>3, Bounded DEF Event, Tasks
      <3> QED BY <1>0, <3>2, <3>4 DEF Named, Fits
    <2>4. \A u \in Terminated(queue) : u # t
      BY <2>1, <2>3
    <2>5. /\ queue' = queue /\ Solo(queue')
          /\ \A u \in Terminated(queue') :
                /\ u # 0 /\ u \in cor'.completed
                /\ kind'[u] = "turn" => u = holder' \/ state' = "closed"
      BY <2>1, <2>3, <2>4 DEF Heard, outbox
    <2>6. pc' = "auditing" =>
             /\ held'.turn = holder' \/ state' = "closed"
             /\ held'.turn # 0 /\ held'.turn \in cor'.completed
             /\ held'.turn \notin Terminated(queue')
      BY <2>1, <2>5 DEF Heard
    <2>7. \A u \in Tasks : kind'[u] = "turn" /\ result'[u] # "none" =>
             u \in cor'.completed \/ state' = "closed"
      BY <2>1, <2>2 DEF Heard
    <2> QED BY <2>5, <2>6, <2>7 DEF Heard
  <1> QED
    BY <1>8, <1>9, <1>10, <1>11, <1>12, <1>13, <1>14, <1>15, <1>16, <1>17,
       <1>18,
       <1>19, <1>20, <1>21, <1>22, <1>23, <1>24, <1>25, <1>26, <1>27 DEF Next, Running,
       Deciding, Reader, Mapping, Embedder

-----------------------------------------------------------------------------
(* The numbers of the events *)

\* What follows the event before the queue still does.
KeepsUp == \A n \in Int : Follows(queue, sequence, n) => Follows(queue', sequence', n)

\* The event that is taken is the next one.
LEMMA CountTake ==
    ASSUME queue \in Seq(Event), queue # <<>>, Gapless(queue, sequence),
           queue' = Tail(queue), sequence' = sequence
    PROVE  /\ Gapless(queue', sequence') /\ Head(queue) \in Event /\ Head(queue).seq >= 0
           /\ Head(queue).turn # 0 => Follows(queue', sequence', Head(queue).seq)
           /\ \A n \in Int : Follows(queue, sequence, n) /\ Head(queue).turn # 0 =>
                 Head(queue).seq = n + 1
  <1>1. /\ Head(queue) \in Event /\ Head(queue) = queue[1] /\ Len(queue) \in Nat
        /\ queue' \in Seq(Event) /\ Len(queue') = Len(queue) - 1
        /\ Len(queue) >= 1
        /\ \A i \in 1..Len(queue') : i + 1 \in 1..Len(queue) /\ queue'[i] = queue[i + 1]
    BY TakeFacts
  <1>2. DOMAIN queue = 1..Len(queue) /\ DOMAIN queue' = 1..Len(queue')
    BY <1>1, LenProperties
  <1>3. /\ 1 \in DOMAIN queue
        /\ \A i \in DOMAIN queue' : i \in Int /\ i + 1 \in DOMAIN queue
                                    /\ queue'[i] = queue[i + 1]
    BY <1>1, <1>2
  <1>4. Gapless(queue', sequence')
    <2> SUFFICES ASSUME NEW i \in DOMAIN queue'
                 PROVE  /\ queue'[i].seq >= 0
                        /\ queue'[i].turn # 0 /\ i = Len(queue') =>
                              queue'[i].seq + 1 = sequence'
                        /\ queue'[i].turn # 0 /\ i + 1 \in DOMAIN queue'
                              /\ queue'[i + 1].turn # 0 =>
                              queue'[i + 1].seq = queue'[i].seq + 1
      BY DEF Gapless
    <2>1. queue'[i].seq >= 0
      BY <1>3 DEF Gapless
    <2>2. i = Len(queue') => i + 1 = Len(queue)
      BY <1>1, <1>2
    <2>3. queue'[i].turn # 0 /\ i = Len(queue') => queue'[i].seq + 1 = sequence'
      BY <1>3, <2>2 DEF Gapless
    <2>4. ASSUME queue'[i].turn # 0, i + 1 \in DOMAIN queue', queue'[i + 1].turn # 0
          PROVE  queue'[i + 1].seq = queue'[i].seq + 1
      <3>1. (i + 1) + 1 \in DOMAIN queue /\ queue'[i + 1] = queue[(i + 1) + 1]
        BY <1>3, <2>4
      <3> QED BY <1>3, <2>4, <3>1 DEF Gapless
    <2> QED BY <2>1, <2>3, <2>4
  <1>5. ASSUME Head(queue).turn # 0
        PROVE  Follows(queue', sequence', Head(queue).seq)
    <2>1. ASSUME queue' = <<>>
          PROVE  Head(queue).seq + 1 = sequence'
      <3>1. Len(queue') = 0
        BY <1>1, <2>1, EmptySeq
      <3>2. 1 = Len(queue)
        BY <1>1, <3>1
      <3> QED BY <1>1, <1>3, <1>5, <3>2 DEF Gapless
    <2>2. ASSUME 1 \in DOMAIN queue', queue'[1].turn # 0
          PROVE  queue'[1].seq = Head(queue).seq + 1
      <3>1. 1 + 1 \in DOMAIN queue /\ queue'[1] = queue[1 + 1]
        BY <1>3, <2>2
      <3> QED BY <1>1, <1>3, <1>5, <2>2, <3>1 DEF Gapless
    <2> QED BY <2>1, <2>2 DEF Follows
  <1>6. \A n \in Int : Follows(queue, sequence, n) /\ Head(queue).turn # 0 =>
           Head(queue).seq = n + 1
    BY <1>1, <1>3 DEF Follows
  <1>7. Head(queue).seq >= 0
    BY <1>1, <1>3 DEF Gapless
  <1> QED BY <1>1, <1>4, <1>5, <1>6, <1>7

\* The end of the stream is of no turn.
LEMMA CountAppend ==
    ASSUME queue \in Seq(Event), Gapless(queue, sequence), NEW e \in Event,
           e.turn = 0, e.seq >= 0, queue' = Append(queue, e), sequence' = sequence
    PROVE  Gapless(queue', sequence') /\ KeepsUp
  <1>1. /\ queue' \in Seq(Event) /\ Len(queue) \in Nat
        /\ Len(queue') = Len(queue) + 1 /\ queue'[Len(queue')] = e
        /\ \A i \in 1..Len(queue) : queue'[i] = queue[i]
    BY EndQueued
  <1>2. DOMAIN queue = 1..Len(queue) /\ DOMAIN queue' = 1..Len(queue')
    BY <1>1, LenProperties
  <1>3. \A i \in DOMAIN queue' :
           \/ i \in DOMAIN queue /\ queue'[i] = queue[i] /\ i # Len(queue')
           \/ i = Len(queue') /\ queue'[i] = e
    BY <1>1, <1>2
  <1>4. Gapless(queue', sequence')
    <2> SUFFICES ASSUME NEW i \in DOMAIN queue'
                 PROVE  /\ queue'[i].seq >= 0
                        /\ queue'[i].turn # 0 /\ i = Len(queue') =>
                              queue'[i].seq + 1 = sequence'
                        /\ queue'[i].turn # 0 /\ i + 1 \in DOMAIN queue'
                              /\ queue'[i + 1].turn # 0 =>
                              queue'[i + 1].seq = queue'[i].seq + 1
      BY DEF Gapless
    <2>1. queue'[i].seq >= 0
      BY <1>3 DEF Gapless
    <2>2. queue'[i].turn # 0 => i \in DOMAIN queue /\ queue'[i] = queue[i] /\ i # Len(queue')
      BY <1>3
    <2>3. i + 1 \in DOMAIN queue' /\ queue'[i + 1].turn # 0 =>
             i + 1 \in DOMAIN queue /\ queue'[i + 1] = queue[i + 1]
      BY <1>3
    <2>4. queue'[i].turn # 0 /\ i + 1 \in DOMAIN queue' /\ queue'[i + 1].turn # 0 =>
             queue'[i + 1].seq = queue'[i].seq + 1
      BY <2>2, <2>3 DEF Gapless
    <2> QED BY <2>1, <2>2, <2>4
  <1>5. queue' # <<>>
    <2>1. Len(queue') # 0
      BY <1>1
    <2> QED BY <2>1
  <1>6. 1 \in DOMAIN queue' /\ queue'[1].turn # 0 => 1 \in DOMAIN queue /\ queue'[1] = queue[1]
    BY <1>3
  <1> QED BY <1>4, <1>5, <1>6 DEF Follows, KeepsUp

\* New events take the next numbers.
LEMMA CountEmit ==
    ASSUME NEW types \in Seq(EventTypes), NEW t \in 0..MaxTasks,
           NEW n \in 0..MaxNatives, TypedOut, Emit(types, t, n),
           Gapless(queue, sequence)
    PROVE  Gapless(queue', sequence') /\ KeepsUp
  <1>1. /\ queue' \in Seq(Event) /\ sequence' \in Nat
        /\ Len(types) \in Nat /\ Len(queue) \in Nat
        /\ Len(queue') = Len(queue) + Len(types)
        /\ sequence' = sequence + Len(types)
        /\ \A i \in 1..Len(queue) : queue'[i] = queue[i]
        /\ \A i \in (Len(queue) + 1)..Len(queue') :
              /\ i - Len(queue) \in 1..Len(types)
              /\ queue'[i].seq = sequence + (i - Len(queue)) - 1
    BY EmitFacts
  <1>2. /\ DOMAIN queue = 1..Len(queue) /\ DOMAIN queue' = 1..Len(queue')
        /\ queue \in Seq(Event) /\ sequence \in Nat
    BY <1>1, LenProperties DEF TypedOut
  <1>a. \A i \in DOMAIN queue : queue[i].seq \in Int
    <2>1. \A i \in 1..Len(queue) : queue[i] \in Event
      BY <1>2, ElementOfSeq
    <2> QED BY <1>2, <2>1 DEF Event
  <1>3. \A i \in DOMAIN queue' :
           \/ i \in DOMAIN queue /\ queue'[i] = queue[i] /\ i \in Int /\ i <= Len(queue)
           \/ /\ i \in Int /\ i > Len(queue) /\ i <= Len(queue')
              /\ queue'[i].seq = sequence + (i - Len(queue)) - 1
    <2> TAKE i \in DOMAIN queue'
    <2>1. CASE i \in 1..Len(queue)
      BY <1>1, <1>2, <2>1
    <2>2. CASE i \in (Len(queue) + 1)..Len(queue')
      BY <1>1, <1>2, <2>2
    <2> QED BY <1>1, <1>2, <2>1, <2>2
  <1>4. Gapless(queue', sequence')
    <2> SUFFICES ASSUME NEW i \in DOMAIN queue'
                 PROVE  /\ queue'[i].seq >= 0
                        /\ queue'[i].turn # 0 /\ i = Len(queue') =>
                              queue'[i].seq + 1 = sequence'
                        /\ queue'[i].turn # 0 /\ i + 1 \in DOMAIN queue'
                              /\ queue'[i + 1].turn # 0 =>
                              queue'[i + 1].seq = queue'[i].seq + 1
      BY DEF Gapless
    <2>1. CASE /\ i \in Int /\ i > Len(queue) /\ i <= Len(queue')
               /\ queue'[i].seq = sequence + (i - Len(queue)) - 1
      <3>1. queue'[i].seq >= 0 /\ (i = Len(queue') => queue'[i].seq + 1 = sequence')
        <4>1. \A s, l \in Nat : \A k \in Int : k > l =>
                 s + (k - l) - 1 >= 0 /\ s + (k - l) - 1 + 1 = s + (k - l)
          OBVIOUS
        <4>2. \A l, m \in Nat : (l + m) - l = m
          OBVIOUS
        <4>3. queue'[i].seq >= 0 /\ queue'[i].seq + 1 = sequence + (i - Len(queue))
          <5>1. sequence \in Nat /\ Len(queue) \in Nat /\ i \in Int /\ i > Len(queue)
            BY <1>1, <1>2, <2>1
          <5>2. /\ sequence + (i - Len(queue)) - 1 >= 0
                /\ sequence + (i - Len(queue)) - 1 + 1 = sequence + (i - Len(queue))
            BY <4>1, <5>1
          <5> QED BY <2>1, <5>2
        <4>4. Len(queue') - Len(queue) = Len(types)
          BY <1>1, <4>2
        <4> QED BY <1>1, <4>3, <4>4
      <3>2. ASSUME i + 1 \in DOMAIN queue'
            PROVE  queue'[i + 1].seq = queue'[i].seq + 1
        <4>1. i + 1 \in (Len(queue) + 1)..Len(queue')
          BY <1>1, <1>2, <2>1, <3>2
        <4>2. queue'[i + 1].seq = sequence + ((i + 1) - Len(queue)) - 1
          BY <1>1, <4>1
        <4> QED BY <1>1, <1>2, <2>1, <4>2
      <3> QED BY <3>1, <3>2
    <2>2. CASE i \in DOMAIN queue /\ queue'[i] = queue[i] /\ i \in Int /\ i <= Len(queue)
      <3>1. queue'[i].seq >= 0
        BY <2>2 DEF Gapless
      <3>2. ASSUME queue'[i].turn # 0, i = Len(queue')
            PROVE  queue'[i].seq + 1 = sequence'
        <4>1. i = Len(queue) /\ Len(types) = 0
          BY <1>1, <2>2, <3>2
        <4>2. queue[i].seq + 1 = sequence
          BY <2>2, <3>2, <4>1 DEF Gapless
        <4>3. sequence' = sequence
          BY <1>1, <1>2, <4>1
        <4> QED BY <2>2, <4>2, <4>3
      <3>3. ASSUME queue'[i].turn # 0, i + 1 \in DOMAIN queue', queue'[i + 1].turn # 0
            PROVE  queue'[i + 1].seq = queue'[i].seq + 1
        <4>1. CASE i + 1 \in DOMAIN queue
          <5>1. queue'[i + 1] = queue[i + 1]
            BY <1>1, <1>2, <4>1
          <5> QED BY <2>2, <3>3, <4>1, <5>1 DEF Gapless
        <4>2. CASE i + 1 \notin DOMAIN queue
          <5>1. i = Len(queue)
            BY <1>1, <1>2, <2>2, <4>2
          <5>2. i + 1 \in (Len(queue) + 1)..Len(queue')
            BY <1>1, <1>2, <3>3, <5>1
          <5>3. queue'[i + 1].seq = sequence + ((i + 1) - Len(queue)) - 1
            BY <1>1, <5>2
          <5>4. queue[i].seq + 1 = sequence
            BY <2>2, <3>3, <5>1 DEF Gapless
          <5> QED BY <1>1, <1>2, <2>2, <5>1, <5>3, <5>4
        <4> QED BY <4>1, <4>2
      <3> QED BY <3>1, <3>2, <3>3
    <2> QED BY <1>3, <2>1, <2>2
  <1>5. ASSUME NEW m \in Int, Follows(queue, sequence, m)
        PROVE  Follows(queue', sequence', m)
    <2>1. CASE queue = <<>>
      <3>1. Len(queue) = 0 /\ m + 1 = sequence
        BY <1>5, <2>1 DEF Follows
      <3>2. queue' = <<>> => m + 1 = sequence'
        <4>1. queue' = <<>> => Len(queue') = 0
          OBVIOUS
        <4>2. Len(queue') = 0 => sequence' = sequence
          BY <1>1, <1>2, <3>1
        <4> QED BY <3>1, <4>1, <4>2
      <3>3. 1 \in DOMAIN queue' => queue'[1].seq = m + 1
        <4>1. 1 \in DOMAIN queue' => queue'[1].seq = sequence + (1 - Len(queue)) - 1
          BY <1>1, <1>2, <3>1
        <4> QED BY <1>2, <3>1, <4>1
      <3> QED BY <3>2, <3>3 DEF Follows
    <2>2. CASE queue # <<>>
      <3>1. Len(queue) # 0 /\ 1 \in DOMAIN queue
        <4>1. Len(queue) # 0
          BY <1>2, <2>2, EmptySeq
        <4> QED BY <1>1, <1>2, <4>1
      <3>2. queue' # <<>>
        <4>1. Len(queue') # 0
          BY <1>1, <3>1
        <4> QED BY <4>1
      <3>3. queue'[1] = queue[1]
        BY <1>1, <1>2, <3>1
      <3> QED BY <1>5, <3>1, <3>2, <3>3 DEF Follows
    <2> QED BY <2>1, <2>2
  <1> QED BY <1>4, <1>5 DEF KeepsUp

\* The events stay numbered, whatever is queued, taken, held or given.
LEMMA CountedStep ==
    ASSUME Inv, Settled, Apart, Heard, Counted, [Next]_vars
    PROVE  Counted'
  <1>0. /\ TypedTasks /\ TypedCoroutine /\ TypedOut /\ TypedCor /\ TypedServer
        /\ TypedSeen /\ Placed /\ Asked /\ Known /\ Named
        /\ queue \in Seq(Event) /\ sequence \in Nat /\ Gapless(queue, sequence)
        /\ last.event.seq \in Int /\ held.seq \in Int
    BY DEF Inv, TypedOut, TypedSeen, TypedCoroutine, Event, Counted
  <1> DEFINE Reads == {"read", "asking", "compact_read"}
             Holds == {"auditing", "interrupting"}
  <1>1. ASSUME Gapless(queue', sequence'), KeepsUp, UNCHANGED <<pc, held, last, holder>>
        PROVE  Counted'
    <2>1. last.to # 0 /\ last.to = holder =>
            /\ pc \in Reads => Follows(queue', sequence', last.event.seq)
            /\ pc \in Holds /\ held.turn # 0 => held.seq = last.event.seq + 1
            /\ pc = "interrupting" /\ held = None =>
                  Follows(queue', sequence', last.event.seq)
      BY <1>0, <1>1 DEF Counted, KeepsUp
    <2>2. pc = "interrupting" /\ held.turn # 0 => Follows(queue', sequence', held.seq)
      BY <1>0, <1>1 DEF Counted, KeepsUp
    <2> QED BY <1>1, <2>1, <2>2 DEF Counted
  <1>2. ASSUME Gapless(queue', sequence'), pc' \notin Holds,
               pc' \notin Reads \/ last'.to # holder'
        PROVE  Counted'
    BY <1>2 DEF Counted
  <1>3. ASSUME Gapless(queue', sequence'), pc' \notin Holds,
               pc \in Reads, KeepsUp, last' = last, holder' = holder
        PROVE  Counted'
    <2>1. last.to # 0 /\ last.to = holder => Follows(queue', sequence', last.event.seq)
      BY <1>0, <1>3 DEF Counted, KeepsUp
    <2> QED BY <1>3, <2>1 DEF Counted
  <1>4. ASSUME Gapless(queue', sequence'), pc' \notin Holds, NEW e, Given(e),
               Follows(queue', sequence', e.seq)
        PROVE  Counted'
    <2>1. last'.event = e
      BY <1>4 DEF Given
    <2> QED BY <1>4, <2>1 DEF Counted
  <1>5. ASSUME Gapless(queue', sequence'), GivesUp, pc # "idle"
        PROVE  Counted'
    <2>1. LockPasses
      BY <1>0, <1>5, HolderFacts, Passing
    <2>2. pc' \notin Holds /\ pc' \notin Reads
      BY <2>1 DEF LockPasses
    <2> QED BY <1>2, <1>5, <2>2
  <1>6. ASSUME UNCHANGED outbox
        PROVE  Gapless(queue', sequence') /\ KeepsUp /\ queue' = queue /\ sequence' = sequence
    BY <1>0, <1>6 DEF outbox, KeepsUp
  <1>7. ASSUME queue # <<>>, queue' = Tail(queue), sequence' = sequence
        PROVE  /\ Gapless(queue', sequence') /\ Head(queue) \in Event /\ Head(queue).seq >= 0
               /\ Head(queue).turn # 0 => Follows(queue', sequence', Head(queue).seq)
               /\ \A n \in Int : Follows(queue, sequence, n) /\ Head(queue).turn # 0 =>
                     Head(queue).seq = n + 1
    BY <1>0, <1>7, CountTake
  <1>8. ASSUME queue' = Append(queue, Stop) \/ queue' = Append(queue, Broken),
               sequence' = sequence
        PROVE  Gapless(queue', sequence') /\ KeepsUp
    <2>1. PICK e \in Event : queue' = Append(queue, e) /\ e.turn = 0 /\ e.seq >= 0
      <3>1. Stop.seq = 0 /\ Broken.seq = 0
        BY DEF Stop, Broken, None
      <3> QED BY <1>8, <3>1, EventFacts
    <2> QED BY <1>0, <1>8, <2>1, CountAppend
  <1>9. ASSUME NEW types \in Seq(EventTypes), NEW t \in Tasks,
               NEW nat \in 0..MaxNatives, Emit(types, t, nat)
        PROVE  Gapless(queue', sequence') /\ KeepsUp
    <2>1. t \in 0..MaxTasks
      BY Bounded DEF Tasks
    <2> QED BY <1>0, <1>9, <2>1, CountEmit
  <1> HIDE DEF Reads, Holds
  <1>10. /\ {"read", "asking", "compact_read"} = Reads
         /\ {"auditing", "interrupting"} = Holds
    BY DEF Reads, Holds
  <1>11. ASSUME queue # <<>>, queue' = Tail(queue), sequence' = sequence,
                held' = Head(queue), last' = last, holder' = holder, pc = "read",
                pc' \in Holds
         PROVE  Counted'
    <2>1. /\ Gapless(queue', sequence') /\ Head(queue).seq >= 0
          /\ Head(queue).turn # 0 => Follows(queue', sequence', Head(queue).seq)
          /\ \A n \in Int : Follows(queue, sequence, n) /\ Head(queue).turn # 0 =>
                Head(queue).seq = n + 1
      BY <1>7, <1>11
    <2>2. held' # None
      <3>1. None.seq = -1
        BY DEF None
      <3> QED BY <1>11, <2>1, <3>1
    <2>3. last.to # 0 /\ last.to = holder => Follows(queue, sequence, last.event.seq)
      BY <1>11 DEF Counted
    <2>4. last.to # 0 /\ last.to = holder /\ held'.turn # 0 =>
             held'.seq = last.event.seq + 1
      BY <1>0, <1>11, <2>1, <2>3
    <2>5. pc' \notin Reads
      BY <1>11 DEF Reads, Holds
    <2> QED BY <1>11, <2>1, <2>2, <2>4, <2>5 DEF Counted, Reads, Holds
  <1>12. CASE StartFails \/ SendRefused
    <2>1. pc # "idle" /\ (GivesUp \/ TurnCloses) /\ UNCHANGED outbox
      BY <1>0, <1>12, GivingUp DEF StartFails, SendRefused
    <2>2. CASE TurnCloses
      <3>1. pc' \notin Holds /\ pc' \notin Reads
        BY <2>2 DEF TurnCloses, Holds, Reads
      <3> QED BY <1>2, <1>6, <2>1, <3>1
    <2> QED BY <1>5, <1>6, <2>1, <2>2
  <1>13. CASE EnsureStarted \/ SendTurn \/ SendCompact \/ TurnNotSent
    <2>1. UNCHANGED outbox /\ pc' \in {"send", "starting", "compacting", "closing"}
      BY <1>13 DEF EnsureStarted, SendTurn, SendCompact, TurnNotSent, Goto
    <2>2. pc' \notin Holds /\ pc' \notin Reads
      BY <2>1 DEF Holds, Reads
    <2> QED BY <1>2, <1>6, <2>1, <2>2
  <1>14. CASE TurnSent
    <2>1. /\ UNCHANGED <<holder, last>> /\ pc' \notin Holds
          /\ pc = "starting" /\ reply.nat \in 0..MaxNatives
      BY <1>0, <1>14 DEF TurnSent, tasks, seen, TypedCoroutine, Holds
    <2>2. /\ holder \in Tasks
          /\ \/ UNCHANGED outbox
             \/ \E types \in Seq(EventTypes) : Emit(types, holder, reply.nat)
      BY <1>0, <1>14, TurnSentFacts
    <2>3. Gapless(queue', sequence')
      BY <1>6, <1>9, <2>1, <2>2
    <2>4. last.to # holder
      <3>1. holder # 0
        BY <2>2 DEF Tasks
      <3>2. pc \in Unheard
        BY <2>1 DEF Unheard
      <3> QED BY <1>0, <3>1, <3>2 DEF Placed
    <2> QED BY <1>2, <2>1, <2>3, <2>4
  <1>15. CASE ReadEvent
    <2>1. /\ pc = "read" /\ queue # <<>> /\ queue' = Tail(queue) /\ sequence' = sequence
          /\ holder' = holder /\ Deliver(Head(queue))
      BY <1>15 DEF ReadEvent, TakeNext, tasks
    <2>2. holder # 0
      BY <1>0, <2>1, HolderFacts DEF Tasks
    <2>3. /\ Gapless(queue', sequence')
          /\ Head(queue).turn # 0 => Follows(queue', sequence', Head(queue).seq)
      BY <1>7, <2>1
    <2>4. \/ /\ Head(queue).turn = holder /\ Given(Head(queue)) /\ pc' \notin Holds
          \/ pc' \notin Holds /\ pc' \notin Reads
      BY <2>1, DeliverFacts DEF Reads, Holds
    <2> QED BY <1>2, <1>4, <2>2, <2>3, <2>4
  <1>16. CASE ReadTerminal
    <2>1. /\ pc = "read" /\ queue # <<>> /\ queue' = Tail(queue) /\ sequence' = sequence
          /\ \/ GivesUp
             \/ pc' = "failing"
             \/ pc' = "auditing" /\ held' = Head(queue) /\ UNCHANGED <<tasks, last>>
      BY <1>0, <1>16, GivingUp DEF ReadTerminal, TakeNext
    <2>2. Gapless(queue', sequence')
      BY <1>7, <2>1
    <2>3. CASE pc' = "failing"
      BY <1>2, <2>2, <2>3 DEF Reads, Holds
    <2>4. CASE pc' = "auditing" /\ held' = Head(queue) /\ UNCHANGED <<tasks, last>>
      BY <1>11, <2>1, <2>4 DEF tasks, Holds
    <2> QED BY <1>5, <2>1, <2>2, <2>3, <2>4
  <1>17. CASE AuditEnds
    <2>1. /\ pc # "idle" /\ UNCHANGED outbox /\ (GivesUp \/ pc' = "failing")
      BY <1>0, <1>17, GivingUp DEF AuditEnds
    <2>2. CASE pc' = "failing"
      BY <1>2, <1>6, <2>1, <2>2 DEF Reads, Holds
    <2> QED BY <1>5, <1>6, <2>1, <2>2
  <1>18. CASE Answer
    <2> DEFINE one == <<"resolved">>
    <2>1. /\ pc = "asking" /\ UNCHANGED <<holder, last>> /\ pc' = "read"
          /\ Emit(one, held.turn, held.nat)
      BY <1>18 DEF Answer, tasks, seen
    <2>2. held.turn \in Tasks /\ held.nat \in 0..MaxNatives
      BY <1>0, <2>1, HolderFacts DEF Named, TypedCoroutine, Event
    <2>3. one \in Seq(EventTypes)
      BY DEF EventTypes
    <2> HIDE DEF one
    <2>4. Gapless(queue', sequence') /\ KeepsUp
      BY <1>9, <2>1, <2>2, <2>3
    <2> QED BY <1>3, <2>1, <2>4 DEF Reads, Holds
  <1>19. CASE AnswerFails \/ InterruptFails \/ GraceExpires \/ RunFails \/ LastInterrupt
    <2>1. /\ UNCHANGED outbox
          /\ pc' \in {"failing", "expiring", "last_interrupt", "closing"}
      BY <1>19 DEF AnswerFails, InterruptFails, GraceExpires, RunFails,
         LastInterrupt
    <2>2. pc' \notin Holds /\ pc' \notin Reads
      BY <2>1 DEF Holds, Reads
    <2> QED BY <1>2, <1>6, <2>1, <2>2
  <1>20. CASE CancelTurn
    <2>1. /\ pc \in {"read", "auditing"} /\ UNCHANGED <<holder, last>>
          /\ \/ /\ pc = "read" /\ queue # <<>> /\ held' = Head(queue)
                /\ queue' = Tail(queue) /\ sequence' = sequence
             \/ held' = None /\ UNCHANGED outbox
      BY <1>20 DEF CancelTurn, TakeNext, tasks, seen
    <2>2. pc' = "failing" \/ (CanInterrupt /\ pc' = "interrupting")
      BY <1>20 DEF CancelTurn, Interrupt
    <2>3. CASE /\ pc = "read" /\ queue # <<>> /\ held' = Head(queue)
               /\ queue' = Tail(queue) /\ sequence' = sequence
      <3>1. CASE pc' = "failing"
        <4>1. Gapless(queue', sequence')
          BY <1>7, <2>3
        <4> QED BY <1>2, <3>1, <4>1 DEF Reads, Holds
      <3>2. CASE pc' = "interrupting"
        BY <1>11, <2>1, <2>3, <3>2 DEF Holds
      <3> QED BY <2>2, <3>1, <3>2
    <2>4. CASE held' = None /\ UNCHANGED outbox
      <3>1. CASE pc' = "failing"
        BY <1>2, <1>6, <2>4, <3>1 DEF Reads, Holds
      <3>2. CASE CanInterrupt /\ pc' = "interrupting"
        <4>1. pc = "read"
          <5>1. state = "ready" /\ holder \notin cor.completed
            BY <3>2 DEF CanInterrupt, Ready
          <5>2. pc = "auditing" => held.turn = holder /\ held.turn \in cor.completed
            BY <5>1 DEF Heard
          <5> QED BY <2>1, <5>1, <5>2
        <4>2. last.to # 0 /\ last.to = holder =>
                 Follows(queue', sequence', last.event.seq)
          BY <1>6, <2>4, <4>1 DEF Counted
        <4>3. held'.turn = 0 /\ pc' \notin Reads
          BY <2>4, <3>2, EventFacts DEF Reads
        <4> QED BY <1>6, <1>10, <2>1, <2>4, <3>2, <4>2, <4>3 DEF Counted
      <3> QED BY <2>2, <3>1, <3>2
    <2> QED BY <2>1, <2>3, <2>4
  <1>21. CASE Interrupted
    <2>1. /\ pc = "interrupting" /\ UNCHANGED outbox /\ holder' = holder
          /\ \/ held = None /\ pc' = "read" /\ last' = last
             \/ Deliver(held)
      BY <1>21 DEF Interrupted, tasks
    <2>2. holder # 0
      BY <1>0, <2>1, HolderFacts DEF Tasks
    <2>3. CASE held = None /\ pc' = "read" /\ last' = last
      <3>1. last.to # 0 /\ last.to = holder =>
               Follows(queue', sequence', last.event.seq)
        BY <1>6, <2>1, <2>3 DEF Counted
      <3> QED BY <1>6, <2>1, <2>3, <3>1 DEF Counted
    <2>4. CASE held.turn = holder /\ Given(held) /\ pc' \in {"asking", "read"}
      <3>1. Follows(queue', sequence', held.seq)
        BY <1>6, <2>1, <2>2, <2>4 DEF Counted
      <3> QED BY <1>4, <1>6, <2>1, <2>4, <3>1 DEF Holds
    <2>5. CASE pc' = "failing"
      BY <1>2, <1>6, <2>1, <2>5 DEF Reads, Holds
    <2> QED BY <2>1, <2>3, <2>4, <2>5, DeliverFacts
  <1>22. CASE RunEnds \/ CompactNotStarted \/ CompactTimesOut
    <2>1. pc # "idle" /\ GivesUp /\ UNCHANGED outbox
      BY <1>0, <1>22, GivingUp DEF RunEnds, CompactNotStarted, CompactTimesOut
    <2> QED BY <1>5, <1>6, <2>1
  <1>23. CASE CompactSent
    <2>1. UNCHANGED outbox /\ pc' = "binding"
      BY <1>23 DEF CompactSent
    <2> QED BY <1>2, <1>6, <2>1 DEF Reads, Holds
  <1>24. CASE CompactBound
    <2>1. /\ UNCHANGED outbox /\ pc' = "compact_read" /\ pc = "binding"
          /\ UNCHANGED <<holder, last>>
      BY <1>24 DEF CompactBound, Goto, tasks, seen
    <2>2. last.to # holder
      <3>1. holder # 0
        BY <1>0, <2>1, HolderFacts DEF Tasks
      <3>2. pc \in Unheard
        BY <2>1 DEF Unheard
      <3> QED BY <1>0, <3>1, <3>2 DEF Placed
    <2> QED BY <1>2, <1>6, <2>1, <2>2 DEF Holds
  <1>25. CASE CompactReads
    <2>1. /\ pc = "compact_read" /\ queue # <<>> /\ queue' = Tail(queue)
          /\ sequence' = sequence
          /\ \/ GivesUp
             \/ /\ Head(queue).turn = holder /\ Given(Head(queue))
                /\ UNCHANGED <<tasks, coroutine>>
      BY <1>0, <1>25, GivingUp DEF CompactReads, TakeNext
    <2>2. holder # 0
      BY <1>0, <2>1, HolderFacts DEF Tasks
    <2>3. /\ Gapless(queue', sequence')
          /\ Head(queue).turn # 0 => Follows(queue', sequence', Head(queue).seq)
      BY <1>7, <2>1
    <2>4. CASE GivesUp
      BY <1>5, <2>1, <2>3, <2>4
    <2>5. CASE /\ Head(queue).turn = holder /\ Given(Head(queue))
               /\ UNCHANGED <<tasks, coroutine>>
      BY <1>4, <2>1, <2>2, <2>3, <2>5 DEF coroutine, Holds
    <2> QED BY <2>1, <2>4, <2>5
  <1>26. CASE Mapping
    <2>1. Mapped /\ MappedEvents
      BY <1>0, <1>26, MappingMaps
    <2>2. UNCHANGED <<pc, held, last, holder>>
      BY <1>26, MappingRest DEF tasks, coroutine, seen
    <2>3. from \in Tasks /\ msg.nat \in 0..MaxNatives
      BY <2>1, Bounded DEF Mapped, Natives
    <2>4. Gapless(queue', sequence') /\ KeepsUp
      BY <1>6, <1>9, <2>1, <2>3 DEF MappedEvents
    <2> QED BY <1>1, <2>2, <2>4
  <1>27. CASE RejectFrame
    <2>1. UNCHANGED <<pc, held, last, holder>> /\ sequence' = sequence
      BY <1>27 DEF RejectFrame, tasks, seen
    <2>2. queue' = queue \/ queue' = Append(queue, Broken)
      BY <1>27 DEF RejectFrame
    <2>3. CASE queue' = queue
      BY <1>1, <1>6, <2>1, <2>3 DEF outbox
    <2> QED BY <1>1, <1>8, <2>1, <2>2, <2>3
  <1>28. CASE EndClose
    <2>1. /\ UNCHANGED <<pc, held, last, holder>> /\ sequence' = sequence
          /\ queue' = Append(queue, Stop)
      BY <1>28 DEF EndClose, tasks, seen
    <2> QED BY <1>1, <1>8, <2>1
  <1>29. ASSUME NEW t \in Tasks, NEW k \in {"turn", "compact"}, NewTask(t, k)
         PROVE  Counted'
    <2>1. /\ UNCHANGED <<outbox, last, held>>
          /\ \/ holder' = holder /\ pc' = pc
             \/ pc' = "start"
      BY <1>29 DEF NewTask, Goto, coroutine, seen
    <2>2. CASE pc' = "start"
      BY <1>2, <1>6, <2>1, <2>2 DEF Reads, Holds
    <2> QED BY <1>1, <1>6, <2>1, <2>2
  <1>30. CASE CloseByTurn \/ ReadResponse
              \/ (\E t \in Tasks : RequestCancel(t))
              \/ (\E x \in Context : InjectItems(x)) \/ Close \/ Server
              \/ UNCHANGED vars
    <2>1. CloseByTurn \/ ReadResponse \/ (\E t \in Tasks : RequestCancel(t))
          => UNCHANGED <<outbox, pc, held, last, holder>>
      BY DEF CloseByTurn, BeginClose, ReadResponse, Consume, RequestCancel,
         coroutine, outbox, seen, tasks
    <2>2. (\E x \in Context : InjectItems(x)) \/ Close
          => UNCHANGED <<outbox, pc, held, last, holder>>
      BY DEF InjectItems, Close, BeginClose, coroutine, outbox, seen, tasks
    <2>3. Server \/ UNCHANGED vars
          => UNCHANGED <<outbox, pc, held, last, holder>>
      BY ServerFrame DEF vars, coroutine, outbox, seen, tasks
    <2> QED BY <1>1, <1>6, <1>30, <2>1, <2>2, <2>3
  <1> QED
    BY <1>12, <1>13, <1>14, <1>15, <1>16, <1>17, <1>18, <1>19, <1>20, <1>21,
       <1>22,
       <1>23, <1>24, <1>25, <1>26, <1>27, <1>28, <1>29, <1>30 DEF Next, Running,
       Deciding, Reader, Mapping, Embedder

-----------------------------------------------------------------------------
(* The theorem *)

\* All of it.
InOrder == Lined /\ Settled /\ Apart /\ Heard /\ Counted

\* Nothing is in the queue and nobody has begun.
LEMMA InOrderInit == Init => InOrder
  <1> SUFFICES ASSUME Init PROVE InOrder
    OBVIOUS
  <1>1. /\ holder = 0 /\ waiting = <<>> /\ pc = "idle" /\ queue = <<>>
        /\ reader = FALSE /\ started = FALSE /\ state = "new" /\ srv.up = FALSE
        /\ last.to = 0
    BY DEF Init
  <1>2. \A t \in Tasks : kind[t] = "none" /\ result[t] = "none"
    BY DEF Init
  <1>3. DOMAIN waiting = {} /\ DOMAIN queue = {}
    BY <1>1
  <1>4. Lined
    <2>1. \A u \in Tasks : kind[u] = "none"
      BY <1>2
    <2> QED BY <1>1, <1>3, <2>1 DEF Lined
  <1>5. Settled
    BY <1>1 DEF Settled
  <1>6. Apart
    BY <1>1, <1>2, <1>3 DEF Apart
  <1>7. Terminated(queue) = {} /\ Solo(queue)
    BY <1>3 DEF Terminated, Solo
  <1>8. Heard
    BY <1>1, <1>2, <1>7 DEF Heard
  <1>9. Counted
    BY <1>1, <1>3 DEF Counted, Gapless
  <1> QED BY <1>4, <1>5, <1>6, <1>8, <1>9 DEF InOrder

\* What is given to the sink of the task that last had something is numbered
\* next.
LEMMA GivenNext ==
    ASSUME Inv, Counted, [Next]_vars, last' # last, last'.to = last.to
    PROVE  last'.event.seq = last.event.seq + 1
  <1> DEFINE Goal == last'.event.seq = last.event.seq + 1
  <1> SUFFICES Goal
    OBVIOUS
  <1>0. /\ TypedTasks /\ TypedCoroutine /\ TypedOut /\ Placed
        /\ queue \in Seq(Event) /\ sequence \in Nat /\ Gapless(queue, sequence)
        /\ last.event.seq \in Int /\ held \in Event
    BY DEF Inv, TypedOut, TypedSeen, TypedCoroutine, Event, Counted
  <1>1. ASSUME pc # "idle", NEW e, e.turn = holder, Given(e),
               last.to # 0 /\ last.to = holder => e.seq = last.event.seq + 1
        PROVE  Goal
    <2>1. holder # 0
      BY <1>0, <1>1, HolderFacts DEF Tasks
    <2>2. last'.to = holder /\ last'.event = e
      BY <1>1 DEF Given
    <2> QED BY <1>1, <2>1, <2>2
  <1>2. ASSUME pc \in {"read", "compact_read"}, queue # <<>>,
               Head(queue).turn = holder, Given(Head(queue))
        PROVE  Goal
    <2>1. holder # 0
      BY <1>0, <1>2, HolderFacts DEF Tasks
    <2>2. last.to # 0 /\ last.to = holder => Follows(queue, sequence, last.event.seq)
      BY <1>2 DEF Counted
    <2>3. queue[1] = Head(queue) /\ 1 \in DOMAIN queue
      BY <1>0, <1>2, EmptySeq, LenProperties
    <2>4. last.to # 0 /\ last.to = holder => Head(queue).seq = last.event.seq + 1
      BY <1>2, <2>1, <2>2, <2>3 DEF Follows
    <2> QED BY <1>1, <1>2, <2>4
  <1>3. ASSUME pc \in {"auditing", "interrupting"}, held.turn = holder,
               NEW e, e.turn = holder, e.seq = held.seq, Given(e)
        PROVE  Goal
    <2>1. holder # 0
      BY <1>0, <1>3, HolderFacts DEF Tasks
    <2>2. last.to # 0 /\ last.to = holder => e.seq = last.event.seq + 1
      BY <1>3, <2>1 DEF Counted
    <2> QED BY <1>1, <1>3, <2>2
  <1> HIDE DEF Goal
  <1>4. CASE ReadEvent
    <2>1. pc = "read" /\ queue # <<>> /\ Deliver(Head(queue))
      BY <1>4 DEF ReadEvent
    <2> QED BY <1>2, <2>1, DeliverFacts
  <1>5. CASE ReadTerminal
    <2>1. /\ pc = "read" /\ queue # <<>>
          /\ \/ Head(queue).turn = holder /\ Given(Head(queue))
             \/ last' = last
      BY <1>0, <1>5, GivingUp
    <2> QED BY <1>2, <2>1
  <1>6. CASE AuditEnds
    <2>1. /\ pc = "auditing"
          /\ \/ /\ held.turn = holder
                /\ Given(held) \/ Given([held EXCEPT !.type = "failed"])
             \/ last' = last
      BY <1>0, <1>6, GivingUp
    <2>2. /\ [held EXCEPT !.type = "failed"].turn = held.turn
          /\ [held EXCEPT !.type = "failed"].seq = held.seq
      BY <1>0 DEF Event
    <2> QED BY <1>3, <2>1, <2>2
  <1>7. CASE Interrupted
    <2>1. pc = "interrupting" /\ (last' = last \/ Deliver(held))
      BY <1>7 DEF Interrupted
    <2> QED BY <1>3, <2>1, DeliverFacts
  <1>8. CASE CompactReads
    <2>1. /\ pc = "compact_read" /\ queue # <<>>
          /\ \/ Head(queue).turn = holder /\ Given(Head(queue))
             \/ last' = last
      BY <1>0, <1>8, GivingUp
    <2> QED BY <1>2, <2>1
  <1>9. EnsureStarted \/ StartFails \/ SendTurn \/ SendCompact \/ SendRefused
        \/ TurnSent \/ TurnNotSent => last' = last
    BY DEF EnsureStarted, StartFails, SendTurn, SendCompact, SendRefused,
       TurnSent,
       TurnNotSent, seen
  <1>10. Answer \/ AnswerFails \/ CancelTurn \/ InterruptFails \/ GraceExpires
         \/ RunFails \/ LastInterrupt \/ CloseByTurn \/ RunEnds => last' = last
    BY DEF Answer, AnswerFails, CancelTurn, InterruptFails, GraceExpires,
       RunFails,
       LastInterrupt, CloseByTurn, RunEnds, seen
  <1>11. CompactSent \/ CompactBound \/ CompactNotStarted \/ CompactTimesOut
         => last' = last
    BY DEF CompactSent, CompactBound, CompactNotStarted, CompactTimesOut, seen
  <1>12. Mapping \/ ReadResponse \/ RejectFrame \/ EndClose \/ Server
         => last' = last
    BY MappingRest, ServerFrame DEF ReadResponse, RejectFrame, EndClose, seen
  <1>13. ASSUME NEW t \in Tasks, NEW k \in {"turn", "compact"}, NewTask(t, k)
         PROVE  last' = last
    BY <1>13 DEF NewTask, seen
  <1>14. (\E t \in Tasks : RequestCancel(t)) \/ (\E x \in Context : InjectItems(x))
         \/ Close => last' = last
    BY DEF RequestCancel, InjectItems, Close, seen
  <1>15. UNCHANGED vars => last' = last
    BY DEF vars, seen
  <1> QED
    BY <1>4, <1>5, <1>6, <1>7, <1>8, <1>9, <1>10, <1>11, <1>12, <1>13, <1>14,
       <1>15
       DEF Next, Running, Deciding, Reader, Mapping, Embedder

\* The order of the tasks and of their events, in every reachable state.
THEOREM StaysInOrder == Spec => []InOrder
  <1>1. Inv /\ InOrder /\ [Next]_vars => InOrder'
    <2> SUFFICES ASSUME Inv, InOrder, [Next]_vars PROVE InOrder'
      OBVIOUS
    <2>1. Lined /\ Settled /\ Apart /\ Heard /\ Counted
      BY DEF InOrder
    <2>2. Lined' /\ Settled'
      BY <2>1, LinedStep, SettledStep
    <2>3. Apart' /\ Heard'
      BY <2>1, ApartStep, HeardStep
    <2>4. Counted'
      BY <2>1, CountedStep
    <2> QED BY <2>2, <2>3, <2>4 DEF InOrder
  <1> QED BY <1>1, InOrderInit, ConversationInvariant, PTL DEF Spec

\* A sink sees consecutive events: none is lost or doubled, in particular not
\* the one that arrives together with a cancellation.
THEOREM EventsAreInOrder == Spec => EventsInOrder
  <1>1. Inv /\ InOrder /\ [Next]_vars =>
           [last'.to = last.to /\ last' # last
            => last'.event.seq = last.event.seq + 1]_vars
    BY GivenNext DEF InOrder
  <1> QED BY <1>1, StaysInOrder, ConversationInvariant, PTL DEF Spec,
         EventsInOrder

=============================================================================
