------------------------ MODULE Conversation_proofs ------------------------
(***************************************************************************)
(* The proofs about Conversation: its inductive invariant, its type        *)
(* invariant, where an injected item goes, and that the conversation       *)
(* serves turns the way TurnService has it.                                *)
(*                                                                         *)
(* The invariant joins the places of the lock's holder (Placed, Cancelling,*)
(* Asked) to what the correlation and the queue refer to (Known, Named)    *)
(* and to the numbers of the events (Rising).  Each of its parts has a     *)
(* lemma that every step keeps it, case by case over the actions.  What    *)
(* the helpers of the model do (Release, Emit, Bind, Located, ...) is      *)
(* stated once, in the lemmas before.                                      *)
(***************************************************************************)
EXTENDS Conversation, SequenceTheorems, FiniteSetTheorems, TLAPS

\* What the correlation holds.
Correlations ==
    [starting : 0..MaxTasks, active : 0..MaxTasks,
     native : [Tasks -> 0..MaxNatives], local : [Natives -> 0..MaxTasks],
     opened : SUBSET Tasks, completed : SUBSET Tasks,
     compactions : SUBSET Tasks, compacting : SUBSET Tasks,
     compacted : SUBSET Tasks]

\* What the app-server sends: of a native turn, or the answer to a request.
Notes == [f : TerminalEvents \cup {"started", "item", "ask", "compacted"},
          op : Ops, t : 0..MaxTasks, nat : Natives]
Begun == [f : {"ok"}, op : {"turn", "compact"}, t : Tasks, nat : Natives]
Others == [f : {"ok"}, op : {"interrupt"}, t : Tasks, nat : {0}]
          \cup [f : {"refused"}, op : Ops, t : Tasks, nat : {0}]
          \cup [f : {"eof"}, op : {"turn"}, t : {0}, nat : {0}]
Frames == Notes \cup Begun \cup Others

\* What it is asked: only requests and answers about a native turn name one.
Requests == [op : {"turn", "compact"}, t : Tasks, nat : {0}]
            \cup [op : {"interrupt", "answer"}, t : Tasks, nat : Natives]

Servers == [up : BOOLEAN, nat : 0..MaxNatives, kind : {"none", "turn", "compact"},
            items : Nat, asking : BOOLEAN, stop : BOOLEAN, next : 1..(MaxNatives + 1)]

Places == {"idle", "start", "send", "starting", "compacting", "binding",
           "compact_read", "read", "asking", "auditing", "interrupting", "failing",
           "last_interrupt", "closing", "expiring"}
TurnPlaces == {"starting", "read", "asking", "auditing", "interrupting", "failing",
               "last_interrupt", "closing", "expiring"}
CompactPlaces == {"compacting", "binding", "compact_read"}

\* Here the holder has been given no event yet.
Unheard == {"idle", "start", "send", "starting", "compacting", "binding"}

\* Every variable has its type.
TypedTasks ==
    /\ holder \in 0..MaxTasks /\ waiting \in Seq(Tasks)
    /\ kind \in [Tasks -> {"none", "turn", "compact"}]
    /\ result \in [Tasks -> Results] /\ cancelled \subseteq Tasks
TypedControl ==
    /\ host \in {"isolated", "session"} /\ closed \in BOOLEAN
    /\ started \in BOOLEAN /\ pending \subseteq Context
TypedCoroutine ==
    /\ pc \in Places /\ interrupted \in BOOLEAN /\ held \in Event
    /\ reply \in [s : {"none", "ok", "error"}, nat : 0..MaxNatives]
TypedLink ==
    /\ state \in {"new", "ready", "closing", "closed"}
    /\ reader \in BOOLEAN /\ fatal \in BOOLEAN
TypedOut ==
    /\ rpcs \subseteq Ops \X Tasks /\ asks \subseteq Natives
    /\ queue \in Seq(Event) /\ sequence \in Nat
TypedCor == cor \in Correlations
TypedServer ==
    /\ toServer \in Seq(Requests) /\ fromServer \in Seq(Frames) /\ srv \in Servers
TypedSeen ==
    /\ injected \subseteq Context /\ carried \in [Context -> SUBSET Tasks]
    /\ last \in [to : 0..MaxTasks, event : Event]
    /\ owner \in [Natives -> 0..MaxTasks] /\ late \in BOOLEAN

\* The holder of the lock is at a place of its kind; whoever waits for it has
\* been asked for, once, and was given nothing yet.
Placed ==
    /\ (pc = "idle") = (holder = 0) /\ (holder = 0 => waiting = <<>>)
    /\ holder # 0 => kind[holder] # "none" /\ result[holder] = "none"
    /\ pc \in TurnPlaces => kind[holder] = "turn"
    /\ pc \in CompactPlaces => kind[holder] = "compact"
    /\ \A i \in DOMAIN waiting :
         /\ kind[waiting[i]] # "none" /\ result[waiting[i]] = "none"
         /\ waiting[i] # holder /\ waiting[i] # last.to
         /\ \A j \in DOMAIN waiting : waiting[i] = waiting[j] => i = j
    /\ last.to # 0 => kind[last.to] # "none"
    /\ pc \in Unheard
         => last.to # holder \/ holder = 0
    /\ \A t \in Tasks : kind[t] = "none" => result[t] = "none"

\* Only a cancelled turn is interrupted, and runs out of its grace.
Cancelling ==
    /\ interrupted => holder \in cancelled
    /\ pc \in {"interrupting", "expiring"} => holder \in cancelled

\* A request of the holder that is not answered is the one it awaits, and only
\* the awaited answer names a native turn to bind.
Asked ==
    /\ pc \in {"idle", "start", "send"} => reply = NoReply /\ held = None /\ ~interrupted
    /\ \A r \in rpcs : kind[r[2]] # "none"
    /\ pc \in {"idle", "start", "send"} => \A r \in rpcs : r[2] # holder
    /\ \A i \in DOMAIN waiting : \A r \in rpcs : r[2] # waiting[i]
    /\ pc = "starting" => \A r \in rpcs : r[2] = holder => r[1] = "turn"
    /\ pc = "starting" /\ reply.s = "ok" => reply.nat # 0

\* What is referred to was asked for; a compaction under way that is referred to
\* is known to be one, so it has no terminal event.
Refers(t) == t = cor.starting \/ t = cor.active \/ \E n \in Natives : cor.local[n] = t
Known == \A t \in Tasks : Refers(t) =>
    /\ kind[t] # "none"
    /\ kind[t] = "compact" /\ result[t] = "none" /\ t \notin cor.completed =>
          t \in cor.compactions

\* The events in the queue are of tasks that were asked for, and the end of a
\* turn is not that of a compaction under way.
Fits(e, k, r) == e.turn # 0 =>
    /\ k[e.turn] # "none"
    /\ e.type \in TerminalEvents /\ k[e.turn] = "compact" => r[e.turn] # "none"
Named ==
    /\ \A i \in DOMAIN queue : Fits(queue[i], kind, result)
    /\ pc = "asking" => held.turn = holder

\* The events of turns are queued in the order of their numbers, after the one
\* at hand, which comes after the one its sink has seen.
Ordered(q, s) ==
    /\ \A i \in DOMAIN q : q[i].turn # 0 => q[i].seq < s
    /\ \A i, j \in DOMAIN q :
         i < j /\ q[i].turn # 0 /\ q[j].turn # 0 => q[i].seq < q[j].seq
After(q, s, n) == n < s /\ \A i \in DOMAIN q : q[i].turn # 0 => n < q[i].seq
\* What came before the queue still does.
Keeps == \A n \in Int : After(queue, sequence, n) => After(queue', sequence', n)

Rising ==
    /\ Ordered(queue, sequence)
    /\ pc = "auditing" => held.type \in TerminalEvents
    /\ pc = "interrupting" => held.type \notin TerminalEvents
    /\ pc \in {"auditing", "interrupting"} /\ held.turn # 0 =>
         /\ After(queue, sequence, held.seq)
         /\ last.to = holder => last.event.seq < held.seq
    /\ last.to # 0 /\ last.to = holder => After(queue, sequence, last.event.seq)

\* An item that is still to be sent was sent to nobody.
Carried ==
    /\ pending \subseteq injected
    /\ \A x \in Context :
         /\ x \in pending \/ x \notin injected => carried[x] = {}
         /\ carried[x] = {} \/ \E t \in Tasks : carried[x] = {t}
         /\ x \in injected /\ carried[x] = {} /\ x \notin pending =>
              closed \/ pc = "closing"
\* A native turn that is open is a turn or a compaction.
Working == srv.nat # 0 => srv.kind \in {"turn", "compact"}

Inv == /\ TypedTasks /\ TypedControl /\ TypedCoroutine /\ TypedLink /\ TypedOut
       /\ TypedCor /\ TypedServer /\ TypedSeen
       /\ Working /\ Placed /\ Cancelling /\ Asked /\ Known
       /\ Named /\ Rising /\ Carried

USE DEF Unheard, Keeps

\* The bounds, conjunct by conjunct.
LEMMA Bounded ==
    /\ MaxTasks \in Nat /\ MaxNatives \in Nat /\ MaxItems \in Nat
    /\ Hosts \subseteq {"isolated", "session"}
  BY ConversationAssumption DEF ConversationAssumption

\* The events the queue ends with are of no turn.
LEMMA EventFacts ==
    /\ None \in Event /\ Stop \in Event /\ Broken \in Event
    /\ None.turn = 0 /\ Stop.turn = 0 /\ Broken.turn = 0
    /\ None.type = "stop" /\ Stop.type = "stop" /\ Broken.type = "broken"
  <1>1. 0 \in 0..MaxTasks /\ 0 \in 0..MaxNatives
    BY Bounded
  <1>2. "stop" \in EventTypes /\ "broken" \in EventTypes
    BY DEF EventTypes
  <1>3. Stop = [type |-> "stop", turn |-> 0, nat |-> 0, seq |-> 0]
    BY DEF None, Stop
  <1>4. Broken = [type |-> "broken", turn |-> 0, nat |-> 0, seq |-> 0]
    BY <1>3 DEF Broken
  <1>5. None \in Event
    BY <1>1, <1>2 DEF None, Event
  <1>6. Stop \in Event /\ Broken \in Event
    BY <1>1, <1>2, <1>3, <1>4 DEF Event
  <1> QED BY <1>3, <1>4, <1>5, <1>6 DEF None

\* What Emit puts into the queue.
LEMMA EmitFacts ==
    ASSUME NEW types \in Seq(EventTypes), NEW t \in 0..MaxTasks,
           NEW n \in 0..MaxNatives, TypedOut, Emit(types, t, n)
    PROVE  /\ queue' \in Seq(Event) /\ sequence' \in Nat
           /\ Len(types) \in Nat /\ Len(queue) \in Nat
           /\ Len(queue') = Len(queue) + Len(types)
           /\ sequence' = sequence + Len(types)
           /\ \A i \in 1..Len(queue) : queue'[i] = queue[i]
           /\ \A i \in (Len(queue) + 1)..Len(queue') :
                 /\ i - Len(queue) \in 1..Len(types)
                 /\ queue'[i].type = types[i - Len(queue)]
                 /\ queue'[i].turn = t /\ queue'[i].nat = n
                 /\ queue'[i].seq = sequence + (i - Len(queue)) - 1
  <1> DEFINE new == [i \in DOMAIN types |->
         [type |-> types[i], turn |-> t, nat |-> n, seq |-> sequence + i - 1]]
  <1>1. /\ queue \in Seq(Event) /\ sequence \in Nat
        /\ Len(types) \in Nat /\ DOMAIN types = 1..Len(types)
        /\ \A i \in 1..Len(types) : types[i] \in EventTypes
    BY LenProperties, ElementOfSeq DEF TypedOut
  <1>2. queue' = queue \o new /\ sequence' = sequence + Len(types)
    BY DEF Emit
  <1>3. \A i \in 1..Len(types) : new[i] \in Event
    BY <1>1 DEF Event
  <1>4. new \in [1..Len(types) -> Event]
    BY <1>1, <1>3
  <1>5. new \in Seq(Event) /\ Len(new) = Len(types)
    BY <1>1, <1>4
  <1>6. /\ queue' \in Seq(Event) /\ Len(queue') = Len(queue) + Len(types)
        /\ Len(queue) \in Nat
        /\ \A i \in 1..Len(queue') :
              queue'[i] = IF i <= Len(queue) THEN queue[i] ELSE new[i - Len(queue)]
    <2> HIDE DEF new
    <2>1. /\ queue \o new \in Seq(Event)
          /\ Len(queue \o new) = Len(queue) + Len(new)
          /\ \A i \in 1..(Len(queue) + Len(new)) : (queue \o new)[i] =
                IF i <= Len(queue) THEN queue[i] ELSE new[i - Len(queue)]
      BY <1>1, <1>5, ConcatProperties
    <2>2. Len(queue) \in Nat
      BY <1>1, LenProperties
    <2> QED BY <1>2, <1>5, <2>1, <2>2
  <1>7. ASSUME NEW i \in (Len(queue) + 1)..Len(queue')
        PROVE  /\ i - Len(queue) \in 1..Len(types)
               /\ queue'[i] = new[i - Len(queue)]
    <2> HIDE DEF new
    <2> QED BY <1>1, <1>6
  <1>8. \A j \in 1..Len(types) :
           /\ new[j].type = types[j] /\ new[j].turn = t /\ new[j].nat = n
           /\ new[j].seq = sequence + j - 1
    BY <1>1
  <1>9. sequence' \in Nat /\ \A i \in 1..Len(queue) : queue'[i] = queue[i]
    <2> HIDE DEF new
    <2> QED BY <1>1, <1>2, <1>6
  <1> HIDE DEF new
  <1> QED BY <1>1, <1>2, <1>6, <1>7, <1>8, <1>9

\* Taking the next event of the queue.
LEMMA TakeFacts ==
    ASSUME queue \in Seq(Event), queue # <<>>, queue' = Tail(queue)
    PROVE  /\ Head(queue) \in Event /\ Head(queue) = queue[1] /\ Len(queue) \in Nat
           /\ queue' \in Seq(Event) /\ Len(queue') = Len(queue) - 1
           /\ Len(queue) >= 1
           /\ \A i \in 1..Len(queue') : i + 1 \in 1..Len(queue) /\ queue'[i] = queue[i + 1]
  <1>1. Len(queue) \in Nat \ {0}
    BY EmptySeq
  <1>2. Head(queue) \in Event /\ Head(queue) = queue[1]
    BY <1>1, HeadTailProperties, ElementOfSeq
  <1>3. /\ queue' \in Seq(Event) /\ Len(queue') = Len(queue) - 1
        /\ \A i \in 1..Len(queue') : queue'[i] = queue[i + 1]
    BY HeadTailProperties
  <1> QED BY <1>1, <1>2, <1>3

\* The end of the stream is put at the end of the queue.
LEMMA EndQueued ==
    ASSUME queue \in Seq(Event), NEW e \in Event, queue' = Append(queue, e)
    PROVE  /\ queue' \in Seq(Event) /\ Len(queue) \in Nat
           /\ Len(queue') = Len(queue) + 1 /\ queue'[Len(queue')] = e
           /\ \A i \in 1..Len(queue) : queue'[i] = queue[i]
  <1>1. Len(queue) \in Nat
    BY LenProperties
  <1> QED BY <1>1, AppendProperties

\* The holder gives up the lock.
LEMMA ReleaseFacts ==
    ASSUME TypedTasks, Placed, NEW r \in Results, Release(r)
    PROVE  /\ holder' \in 0..MaxTasks /\ waiting' \in Seq(Tasks)
           /\ \/ waiting = <<>> /\ holder' = 0 /\ pc' = "idle" /\ waiting' = <<>>
              \/ /\ waiting # <<>> /\ holder' = Head(waiting) /\ holder' \in Tasks
                 /\ pc' = "start" /\ waiting' = Tail(waiting) /\ 1 \in DOMAIN waiting
                 /\ holder' = waiting[1]
           /\ Len(waiting) \in Nat /\ DOMAIN waiting = 1..Len(waiting)
           /\ DOMAIN waiting' = 1..Len(waiting')
           /\ \A i \in DOMAIN waiting' :
                 i + 1 \in DOMAIN waiting /\ waiting'[i] = waiting[i + 1]
           /\ result' = [result EXCEPT ![holder] = r] /\ kind' = kind
           /\ cancelled' = cancelled /\ interrupted' = FALSE /\ held' = None
           /\ reply' = NoReply
  <1>1. waiting \in Seq(Tasks) /\ Tasks \subseteq 0..MaxTasks /\ 0 \in 0..MaxTasks
    BY Bounded DEF TypedTasks, Tasks
  <1>2. Len(waiting) \in Nat /\ DOMAIN waiting = 1..Len(waiting)
    BY <1>1, LenProperties
  <1>3. /\ result' = [result EXCEPT ![holder] = r] /\ kind' = kind
        /\ cancelled' = cancelled /\ interrupted' = FALSE /\ held' = None
        /\ reply' = NoReply
    BY DEF Release
  <1>4. CASE waiting = <<>>
    <2>1. holder' = 0 /\ pc' = "idle" /\ waiting' = <<>>
      BY <1>4 DEF Release
    <2>2. <<>> \in Seq(Tasks) /\ DOMAIN waiting' = {} /\ Len(waiting') = 0
      BY <2>1
    <2> QED BY <1>1, <1>2, <1>3, <1>4, <2>1, <2>2
  <1>5. CASE waiting # <<>>
    <2>1. holder' = Head(waiting) /\ pc' = "start" /\ waiting' = Tail(waiting)
      BY <1>5 DEF Release
    <2>2. /\ Head(waiting) \in Tasks /\ Head(waiting) = waiting[1]
          /\ Tail(waiting) \in Seq(Tasks)
          /\ Len(Tail(waiting)) = Len(waiting) - 1
          /\ \A i \in 1..Len(Tail(waiting)) : Tail(waiting)[i] = waiting[i + 1]
          /\ Len(waiting) >= 1
      BY <1>1, <1>2, <1>5, HeadTailProperties, ElementOfSeq, EmptySeq
    <2>3. DOMAIN waiting' = 1..Len(waiting')
      BY <2>1, <2>2, LenProperties
    <2>4. \A i \in DOMAIN waiting' :
             i + 1 \in DOMAIN waiting /\ waiting'[i] = waiting[i + 1]
      <3>1. Len(waiting') = Len(waiting) - 1
        BY <2>1, <2>2
      <3>2. \A i \in 1..Len(waiting') : waiting'[i] = waiting[i + 1]
        BY <2>1, <2>2
      <3>3. \A i \in 1..Len(waiting') : i + 1 \in 1..Len(waiting)
        BY <1>2, <3>1
      <3> QED BY <1>2, <2>3, <3>2, <3>3
    <2>5. 1 \in DOMAIN waiting
      BY <1>2, <2>2
    <2>6. waiting' \in Seq(Tasks) /\ holder' \in 0..MaxTasks
      BY <1>1, <2>1, <2>2
    <2> QED BY <1>2, <1>3, <1>5, <2>1, <2>2, <2>3, <2>4, <2>5, <2>6
  <1> QED BY <1>4, <1>5

-----------------------------------------------------------------------------
(* The correlation *)

\* What binding a native turn changes.
LEMMA BindFacts ==
    ASSUME NEW c \in Correlations, NEW nat \in Natives, NEW t \in Tasks
    PROVE  /\ Bind(c, nat, t) \in Correlations
           /\ Bind(c, nat, t).starting = c.starting
           /\ Bind(c, nat, t).active = c.active
           /\ Bind(c, nat, t).opened = c.opened
           /\ Bind(c, nat, t).completed = c.completed
           /\ Bind(c, nat, t).compactions = c.compactions
           /\ Bind(c, nat, t).compacting = c.compacting
           /\ Bind(c, nat, t).compacted = c.compacted
           /\ \A n \in Natives :
                 Bind(c, nat, t).local[n] = IF n = nat THEN t ELSE c.local[n]
           /\ \A u \in Tasks :
                 Bind(c, nat, t).native[u] = IF u = t THEN nat ELSE c.native[u]
  <1> DEFINE local == [c.local EXCEPT ![nat] = t]
             native == [c.native EXCEPT ![t] = nat]
  <1>1. /\ c.local \in [Natives -> 0..MaxTasks] /\ c.native \in [Tasks -> 0..MaxNatives]
        /\ t \in 0..MaxTasks /\ nat \in 0..MaxNatives
    BY Bounded DEF Correlations, Tasks, Natives
  <1>2. /\ local \in [Natives -> 0..MaxTasks] /\ native \in [Tasks -> 0..MaxNatives]
        /\ \A n \in Natives : local[n] = IF n = nat THEN t ELSE c.local[n]
        /\ \A u \in Tasks : native[u] = IF u = t THEN nat ELSE c.native[u]
    BY <1>1
  <1>3. Bind(c, nat, t) = [c EXCEPT !.local = local, !.native = native]
    BY <1>1 DEF Bind, Correlations
  <1> HIDE DEF local, native
  <1>4. /\ Bind(c, nat, t) \in Correlations
        /\ Bind(c, nat, t).starting = c.starting /\ Bind(c, nat, t).active = c.active
        /\ Bind(c, nat, t).opened = c.opened
        /\ Bind(c, nat, t).completed = c.completed
        /\ Bind(c, nat, t).compactions = c.compactions
        /\ Bind(c, nat, t).compacting = c.compacting
        /\ Bind(c, nat, t).compacted = c.compacted
        /\ Bind(c, nat, t).local = local /\ Bind(c, nat, t).native = native
    BY <1>2, <1>3 DEF Correlations
  <1>5. /\ \A n \in Natives :
              Bind(c, nat, t).local[n] = IF n = nat THEN t ELSE c.local[n]
        /\ \A u \in Tasks :
              Bind(c, nat, t).native[u] = IF u = t THEN nat ELSE c.native[u]
    BY <1>2, <1>4
  <1> QED BY <1>4, <1>5 DEF local, native

\* The fields local_turn does not touch.
SameTurns(c, d) ==
    /\ d.starting = c.starting /\ d.active = c.active /\ d.opened = c.opened
    /\ d.completed = c.completed /\ d.compactions = c.compactions
    /\ d.compacting = c.compacting /\ d.compacted = c.compacted

\* local_turn: the turn it finds was known, is active or is being started, and
\* the native id stands for it from then on.
LEMMA LocatedFacts ==
    ASSUME NEW c \in Correlations, NEW nat \in Natives, Local(c, nat) # 0
    PROVE  /\ Local(c, nat) \in Tasks
           /\ Local(c, nat) \in {c.local[nat], c.active, c.starting}
           /\ Located(c, nat) \in Correlations
           /\ SameTurns(c, Located(c, nat))
           /\ Located(c, nat).local[nat] = Local(c, nat)
           /\ \A n \in Natives : n # nat => Located(c, nat).local[n] = c.local[n]
           /\ \A t \in Tasks : t # Local(c, nat) =>
                 Located(c, nat).native[t] = c.native[t]
           /\ Located(c, nat).native[Local(c, nat)] \in {c.native[Local(c, nat)], nat}
  <1>1. /\ c.local \in [Natives -> 0..MaxTasks] /\ c.native \in [Tasks -> 0..MaxNatives]
        /\ c.starting \in 0..MaxTasks /\ c.active \in 0..MaxTasks
        /\ \A u \in 0..MaxTasks : u # 0 => u \in Tasks
    BY Bounded DEF Correlations, Tasks
  <1>2. CASE c.local[nat] # 0
    <2>1. Local(c, nat) = c.local[nat] /\ Located(c, nat) = c
      BY <1>2 DEF Local, Located
    <2> QED BY <1>1, <2>1 DEF SameTurns
  <1>3. CASE c.local[nat] = 0 /\ c.starting = 0
    <2> DEFINE local == [c.local EXCEPT ![nat] = c.active]
    <2>1. Local(c, nat) = c.active
      BY <1>3 DEF Local
    <2>2. Located(c, nat) = [c EXCEPT !.local = local]
      BY <1>1, <1>3 DEF Located, Correlations
    <2>3. /\ local \in [Natives -> 0..MaxTasks] /\ local[nat] = c.active
          /\ \A n \in Natives : n # nat => local[n] = c.local[n]
      BY <1>1
    <2> HIDE DEF local
    <2>4. /\ Located(c, nat) \in Correlations /\ SameTurns(c, Located(c, nat))
          /\ Located(c, nat).local = local /\ Located(c, nat).native = c.native
      BY <2>2, <2>3 DEF Correlations, SameTurns
    <2> QED BY <1>1, <2>1, <2>3, <2>4
  <1>4. CASE c.local[nat] = 0 /\ c.starting # 0
    <2>1. Local(c, nat) = c.starting /\ c.starting \in Tasks
      BY <1>1, <1>4 DEF Local
    <2>2. Located(c, nat) = Bind(c, nat, c.starting)
      BY <1>4 DEF Located
    <2>3. /\ Located(c, nat) \in Correlations /\ SameTurns(c, Located(c, nat))
          /\ \A n \in Natives : Located(c, nat).local[n] =
                IF n = nat THEN c.starting ELSE c.local[n]
          /\ \A u \in Tasks : Located(c, nat).native[u] =
                IF u = c.starting THEN nat ELSE c.native[u]
      BY <2>1, <2>2, BindFacts DEF SameTurns
    <2> QED BY <1>1, <2>1, <2>3
  <1> QED BY <1>2, <1>3, <1>4

\* The identities, which only local_turn and send_turn change.
SameNames(c, d) == d.starting = c.starting /\ d.local = c.local /\ d.native = c.native

\* emit_compaction_started.
LEMMA CompactingFacts ==
    ASSUME NEW c \in Correlations, NEW t \in Tasks
    PROVE  /\ Compacting(c, t) \in Correlations /\ SameNames(c, Compacting(c, t))
           /\ Compacting(c, t).active \in {c.active, t}
           /\ Compacting(c, t).opened = c.opened
           /\ Compacting(c, t).completed = c.completed
           /\ c.compactions \subseteq Compacting(c, t).compactions
           /\ Compacting(c, t).compactions \subseteq c.compactions \cup {t}
           /\ Compacting(c, t).compacted = c.compacted
           /\ CompactingEvents(c, t) \in Seq(EventTypes)
           /\ Len(CompactingEvents(c, t)) \in {0, 1}
           /\ \A i \in 1..Len(CompactingEvents(c, t)) :
                 CompactingEvents(c, t)[i] = "compacting"
  <1>1. t \in 0..MaxTasks /\ "compacting" \in EventTypes
    BY Bounded DEF Tasks, EventTypes
  <1>2. CASE t \in c.compacting
    BY <1>2 DEF Compacting, CompactingEvents, SameNames
  <1>3. CASE t \notin c.compacting
    <2>1. Compacting(c, t) =
            [c EXCEPT !.compactions = c.compactions \cup {t},
                      !.compacting = c.compacting \cup {t}, !.active = t]
      BY <1>3 DEF Compacting, Correlations
    <2> DEFINE more == c.compactions \cup {t}
               under == c.compacting \cup {t}
    <2>a. more \in SUBSET Tasks /\ under \in SUBSET Tasks
      BY DEF Correlations
    <2> HIDE DEF more, under
    <2>b. Compacting(c, t) =
            [c EXCEPT !.compactions = more, !.compacting = under, !.active = t]
      BY <2>1 DEF more, under
    <2>c. /\ Compacting(c, t) \in Correlations /\ SameNames(c, Compacting(c, t))
          /\ Compacting(c, t).active = t
          /\ Compacting(c, t).opened = c.opened
          /\ Compacting(c, t).completed = c.completed
          /\ Compacting(c, t).compactions = more
          /\ Compacting(c, t).compacted = c.compacted
      BY <1>1, <2>a, <2>b DEF Correlations, SameNames
    <2>2. /\ Compacting(c, t) \in Correlations /\ SameNames(c, Compacting(c, t))
          /\ Compacting(c, t).active = t
          /\ Compacting(c, t).opened = c.opened
          /\ Compacting(c, t).completed = c.completed
          /\ Compacting(c, t).compactions = c.compactions \cup {t}
          /\ Compacting(c, t).compacted = c.compacted
      BY <2>c DEF more
    <2>3. CompactingEvents(c, t) = <<"compacting">>
      BY <1>3 DEF CompactingEvents
    <2>4. /\ <<"compacting">> \in Seq(EventTypes) /\ Len(<<"compacting">>) = 1
          /\ <<"compacting">>[1] = "compacting"
      BY <1>1
    <2> QED BY <2>2, <2>3, <2>4
  <1> QED BY <1>2, <1>3

\* emit_compaction_completed.
LEMMA CompactedFacts ==
    ASSUME NEW c \in Correlations, NEW t \in Tasks
    PROVE  /\ Compacted(c, t) \in Correlations /\ SameNames(c, Compacted(c, t))
           /\ Compacted(c, t).active \in {c.active, t}
           /\ Compacted(c, t).completed = c.completed
           /\ c.compactions \subseteq Compacted(c, t).compactions
           /\ Compacted(c, t).compactions \subseteq c.compactions \cup {t}
           /\ CompactedEvents(c, t) \in Seq(EventTypes)
           /\ \A i \in 1..Len(CompactedEvents(c, t)) :
                 CompactedEvents(c, t)[i] \in {"compacting", "compacted"}
  <1> DEFINE d == Compacting(c, t)
  <1>1. d \in Correlations
    BY CompactingFacts
  <1>2. Compacted(c, t) = [d EXCEPT !.compacted = d.compacted \cup {t}]
    <2> HIDE DEF d
    <2>1. Compacted(c, t) = [d EXCEPT !.compacted = @ \cup {t}]
      BY DEF Compacted, d
    <2> QED BY <1>1, <2>1 DEF Correlations
  <1>3. /\ Compacted(c, t) \in Correlations /\ SameNames(d, Compacted(c, t))
        /\ Compacted(c, t).active = d.active
        /\ Compacted(c, t).completed = d.completed
        /\ Compacted(c, t).compactions = d.compactions
    <2> HIDE DEF d
    <2> QED BY <1>1, <1>2 DEF Correlations, SameNames
  <1>4. /\ Compacted(c, t) \in Correlations /\ SameNames(c, Compacted(c, t))
        /\ Compacted(c, t).active \in {c.active, t}
        /\ Compacted(c, t).completed = c.completed
        /\ c.compactions \subseteq Compacted(c, t).compactions
        /\ Compacted(c, t).compactions \subseteq c.compactions \cup {t}
    <2>1. /\ SameNames(c, d) /\ d.active \in {c.active, t}
          /\ d.completed = c.completed /\ c.compactions \subseteq d.compactions
          /\ d.compactions \subseteq c.compactions \cup {t}
      BY CompactingFacts
    <2> HIDE DEF d
    <2> QED BY <1>3, <2>1 DEF SameNames
  <1> DEFINE tail == IF t \in c.compacted THEN <<>> ELSE <<"compacted">>
             head == CompactingEvents(c, t)
  <1>5. /\ head \in Seq(EventTypes) /\ Len(head) \in Nat
        /\ \A i \in 1..Len(head) : head[i] = "compacting"
    BY CompactingFacts
  <1>6. /\ tail \in Seq(EventTypes) /\ Len(tail) \in Nat
        /\ \A i \in 1..Len(tail) : tail[i] = "compacted"
    BY DEF EventTypes
  <1>7. CompactedEvents(c, t) = head \o tail
    BY DEF CompactedEvents
  <1> HIDE DEF head, tail
  <1>8. /\ head \o tail \in Seq(EventTypes)
        /\ Len(head \o tail) = Len(head) + Len(tail)
        /\ \A i \in 1..(Len(head) + Len(tail)) : (head \o tail)[i] =
              IF i <= Len(head) THEN head[i] ELSE tail[i - Len(head)]
    BY <1>5, <1>6, ConcatProperties
  <1>9. \A i \in 1..Len(head \o tail) :
           (head \o tail)[i] \in {"compacting", "compacted"}
    BY <1>5, <1>6, <1>8
  <1> QED BY <1>4, <1>7, <1>8, <1>9

\* emit_turn_started: a compaction starts as one.
LEMMA OpenedFacts ==
    ASSUME NEW c \in Correlations, NEW t \in Tasks
    PROVE  /\ Opened(c, t) \in Correlations /\ SameNames(c, Opened(c, t))
           /\ Opened(c, t).active \in {c.active, t}
           /\ Opened(c, t).completed = c.completed
           /\ c.compactions \subseteq Opened(c, t).compactions
           /\ Opened(c, t).compactions \subseteq c.compactions \cup {t}
           /\ OpenedEvents(c, t) \in Seq(EventTypes)
           /\ \A i \in 1..Len(OpenedEvents(c, t)) :
                 OpenedEvents(c, t)[i] \in {"started", "compacting"}
  <1>1. CASE t \in c.compactions
    BY <1>1, CompactingFacts DEF Opened, OpenedEvents
  <1>2. CASE t \notin c.compactions
    <2>1. Opened(c, t) = [c EXCEPT !.opened = c.opened \cup {t}]
      BY <1>2 DEF Opened, Correlations
    <2>2. OpenedEvents(c, t) = <<>> \/ OpenedEvents(c, t) = <<"started">>
      BY <1>2 DEF OpenedEvents
    <2>a. /\ <<"started">> \in Seq(EventTypes) /\ Len(<<"started">>) = 1
          /\ <<"started">>[1] = "started"
      BY DEF EventTypes
    <2>b. /\ <<>> \in Seq(EventTypes) /\ Len(<<>>) = 0
      OBVIOUS
    <2>3. /\ OpenedEvents(c, t) \in Seq(EventTypes)
          /\ \A i \in 1..Len(OpenedEvents(c, t)) :
                OpenedEvents(c, t)[i] \in {"started", "compacting"}
      <3>1. CASE OpenedEvents(c, t) = <<>>
        BY <2>b, <3>1
      <3>2. CASE OpenedEvents(c, t) = <<"started">>
        BY <2>a, <3>2
      <3> QED BY <2>2, <3>1, <3>2
    <2>4. /\ Opened(c, t) \in Correlations /\ SameNames(c, Opened(c, t))
          /\ Opened(c, t).active = c.active
          /\ Opened(c, t).completed = c.completed
          /\ Opened(c, t).compactions = c.compactions
      BY <2>1 DEF Correlations, SameNames
    <2> QED BY <2>3, <2>4
  <1> QED BY <1>1, <1>2

\* The end of a turn.
LEMMA CompletedFacts ==
    ASSUME NEW c \in Correlations, NEW t \in Tasks
    PROVE  /\ Completed(c, t) \in Correlations /\ SameNames(c, Completed(c, t))
           /\ Completed(c, t).active \in {0, c.active}
           /\ Completed(c, t).completed = c.completed \cup {t}
           /\ Completed(c, t).compactions = c.compactions \ {t}
  <1> DEFINE done == c.completed \cup {t}
             open == c.compactions \ {t}
             now == IF c.active = t THEN 0 ELSE c.active
  <1>1. Completed(c, t) =
          [c EXCEPT !.completed = done, !.compactions = open, !.active = now]
    BY DEF Completed, Correlations
  <1>2. /\ done \in SUBSET Tasks /\ open \in SUBSET Tasks
        /\ now \in 0..MaxTasks /\ now \in {0, c.active}
    BY Bounded DEF Correlations
  <1> HIDE DEF done, open, now
  <1>3. /\ Completed(c, t) \in Correlations /\ SameNames(c, Completed(c, t))
        /\ Completed(c, t).active = now /\ Completed(c, t).completed = done
        /\ Completed(c, t).compactions = open
    BY <1>1, <1>2 DEF Correlations, SameNames
  <1> QED BY <1>2, <1>3 DEF done, open

-----------------------------------------------------------------------------
(* The frames and requests *)

\* Every kind of frame is one of Frames, and the frames of native turns name
\* theirs.
LEMMA FrameFacts ==
    /\ \A f \in Frames :
         /\ f.f \in TerminalEvents \cup {"started", "item", "ask", "compacted"} =>
               f.nat \in Natives
         /\ f.f = "ok" /\ f.op \in {"turn", "compact"} => f.nat \in Natives
         /\ f.f \in {"ok", "refused"} => f.t \in Tasks /\ f.op \in Ops
         /\ f.nat \in 0..MaxNatives
    /\ \A f \in TerminalEvents \cup {"started", "item", "ask", "compacted"} :
         \A op \in Ops, n \in Natives : Frm(f, op, 0, n) \in Frames
    /\ \A op \in {"turn", "compact"}, t \in Tasks, n \in Natives :
         Frm("ok", op, t, n) \in Frames
    /\ \A t \in Tasks : Frm("ok", "interrupt", t, 0) \in Frames
    /\ \A op \in Ops, t \in Tasks : Frm("refused", op, t, 0) \in Frames
    /\ Frm("eof", "turn", 0, 0) \in Frames
  <1> USE DEF Frames, Notes, Begun, Others
  <1>1. 0 \in 0..MaxNatives /\ 0 \in 0..MaxTasks /\ Natives \subseteq 0..MaxNatives
        /\ Tasks \subseteq 0..MaxTasks
    BY Bounded DEF Natives, Tasks
  <1>2. ASSUME NEW f \in Frames
        PROVE  /\ f.f \in TerminalEvents \cup {"started", "item", "ask", "compacted"} =>
                     f.nat \in Natives
               /\ f.f = "ok" /\ f.op \in {"turn", "compact"} => f.nat \in Natives
               /\ f.f \in {"ok", "refused"} => f.t \in Tasks /\ f.op \in Ops
               /\ f.nat \in 0..MaxNatives
    <2>1. CASE f \in Notes
      BY <1>1, <2>1 DEF TerminalEvents
    <2>2. CASE f \in Begun
      BY <1>1, <2>2 DEF TerminalEvents, Ops
    <2>3. CASE f \in Others
      BY <1>1, <2>3 DEF TerminalEvents, Ops
    <2> QED BY <2>1, <2>2, <2>3
  <1>3. \A f \in TerminalEvents \cup {"started", "item", "ask", "compacted"} :
           \A op \in Ops, n \in Natives : Frm(f, op, 0, n) \in Notes
    BY <1>1 DEF Frm
  <1>4. \A op \in {"turn", "compact"}, t \in Tasks, n \in Natives :
           Frm("ok", op, t, n) \in Begun
    BY DEF Frm
  <1>5. /\ \A t \in Tasks : Frm("ok", "interrupt", t, 0) \in Others
        /\ \A op \in Ops, t \in Tasks : Frm("refused", op, t, 0) \in Others
        /\ Frm("eof", "turn", 0, 0) \in Others
    BY DEF Frm
  <1> QED BY <1>2, <1>3, <1>4, <1>5

\* The frame the reader takes.
LEMMA HeadFrame ==
    ASSUME TypedServer, fromServer # <<>>
    PROVE  /\ msg \in Frames /\ Tail(fromServer) \in Seq(Frames)
           /\ Len(fromServer) \in Nat /\ Len(fromServer) >= 1 /\ msg = fromServer[1]
           /\ Len(Tail(fromServer)) = Len(fromServer) - 1
           /\ \A i \in 1..Len(Tail(fromServer)) :
                 Tail(fromServer)[i] = fromServer[i + 1]
  <1>1. fromServer \in Seq(Frames) /\ Len(fromServer) \in Nat \ {0}
    BY EmptySeq DEF TypedServer
  <1> QED BY <1>1, HeadTailProperties, ElementOfSeq DEF msg

\* The request the app-server takes.
LEMMA HeadRequest ==
    ASSUME TypedServer, toServer # <<>>
    PROVE  /\ req \in Requests /\ Tail(toServer) \in Seq(Requests)
           /\ Len(toServer) \in Nat /\ Len(toServer) >= 1 /\ req = toServer[1]
           /\ req.t \in Tasks
           /\ req.op \in {"interrupt", "answer"} => req.nat \in Natives
           /\ Len(Tail(toServer)) = Len(toServer) - 1
           /\ \A i \in 1..Len(Tail(toServer)) : Tail(toServer)[i] = toServer[i + 1]
  <1>1. toServer \in Seq(Requests) /\ Len(toServer) \in Nat \ {0}
    BY EmptySeq DEF TypedServer
  <1>2. /\ req \in Requests /\ Tail(toServer) \in Seq(Requests) /\ req = toServer[1]
        /\ Len(Tail(toServer)) = Len(toServer) - 1
        /\ \A i \in 1..Len(Tail(toServer)) : Tail(toServer)[i] = toServer[i + 1]
    BY <1>1, HeadTailProperties, ElementOfSeq DEF req
  <1>3. \A r \in Requests :
           r.t \in Tasks /\ (r.op \in {"interrupt", "answer"} => r.nat \in Natives)
    BY DEF Requests
  <1> QED BY <1>1, <1>2, <1>3

-----------------------------------------------------------------------------
(* What the event mapper makes of a frame *)

\* The event mapper's part of a step: the frame is of a turn that is referred
\* to, which may become the active one, or be over.
Mapped ==
    /\ from \in Tasks /\ msg.nat \in Natives /\ Refers(from)
    /\ cor' \in Correlations
    /\ cor'.starting = cor.starting /\ cor'.active \in {cor.active, from, 0}
    /\ \A n \in Natives : cor'.local[n] \in {cor.local[n], from}
    /\ cor.completed \subseteq cor'.completed
    /\ cor.compactions \ cor'.compactions \subseteq cor'.completed

\* The events it makes: a compaction's end is none.
MappedEvents ==
    \/ UNCHANGED outbox
    \/ \E types \in Seq(EventTypes) :
         /\ Emit(types, from, msg.nat)
         /\ \A i \in 1..Len(types) : types[i] \in TerminalEvents =>
               kind[from] = "turn" \/ result[from] # "none"

Mapping == ReadStarted \/ ReadItem \/ ReadAsk \/ ReadCompacted \/ ReadEnded

\* What the event mapper takes from the pipe, and leaves alone.
LEMMA MappingFrame ==
    ASSUME TypedCor, TypedServer, Mapping
    PROVE  /\ msg.nat \in Natives /\ from # 0
           /\ fromServer # <<>> /\ fromServer' = Tail(fromServer)
           /\ UNCHANGED <<tasks, control, coroutine, link, rpcs, toServer, srv,
                          seen>>
           /\ asks' \in {asks, asks \cup {msg.nat}}
  <1>1. fromServer # <<>> /\ from # 0 /\ fromServer' = Tail(fromServer)
        /\ msg.f \in TerminalEvents \cup {"started", "item", "ask", "compacted"}
        /\ UNCHANGED <<tasks, control, coroutine, link, rpcs, toServer, srv,
                       seen>>
        /\ asks' \in {asks, asks \cup {msg.nat}}
    BY DEF Mapping, ReadStarted, ReadItem, ReadAsk, ReadCompacted, ReadEnded,
           Arrived, Consume, msg
  <1>2. msg \in Frames
    BY <1>1, HeadFrame
  <1> QED BY <1>1, <1>2, FrameFacts

\* Each of its handlers is Mapped, and its events are MappedEvents.
LEMMA MappingMaps ==
    ASSUME TypedCor, TypedServer, TypedTasks, Known, Mapping
    PROVE  Mapped /\ MappedEvents
  <1> DEFINE c == Located(cor, msg.nat)
  <1>1. cor \in Correlations /\ msg.nat \in Natives /\ Local(cor, msg.nat) # 0
    BY MappingFrame DEF TypedCor, from
  <1>2. /\ from \in Tasks /\ from \in {cor.local[msg.nat], cor.active, cor.starting}
        /\ c \in Correlations /\ SameTurns(cor, c)
        /\ c.local[msg.nat] = from
        /\ \A n \in Natives : n # msg.nat => c.local[n] = cor.local[n]
    BY <1>1, LocatedFacts DEF from
  <1> HIDE DEF c
  <1>3. Refers(from)
    BY <1>1, <1>2 DEF Refers
  <1>4. ASSUME cor' \in Correlations, SameNames(c, cor'),
               cor'.active \in {c.active, from, 0},
               c.completed \subseteq cor'.completed,
               c.compactions \ cor'.compactions \subseteq cor'.completed
        PROVE  Mapped
    <2>1. /\ cor'.starting = cor.starting /\ cor'.active \in {cor.active, from, 0}
          /\ cor.completed \subseteq cor'.completed
          /\ cor.compactions \ cor'.compactions \subseteq cor'.completed
      BY <1>2, <1>4 DEF SameNames, SameTurns
    <2>2. \A n \in Natives : cor'.local[n] \in {cor.local[n], from}
      BY <1>2, <1>4 DEF SameNames
    <2> QED BY <1>1, <1>2, <1>3, <1>4, <2>1, <2>2 DEF Mapped
  <1>5. ASSUME NEW types \in Seq(EventTypes), Emit(types, from, msg.nat),
               \A i \in 1..Len(types) : types[i] \notin TerminalEvents
        PROVE  MappedEvents
    BY <1>5 DEF MappedEvents
  <1>6. /\ "compacting" \notin TerminalEvents /\ "compacted" \notin TerminalEvents
        /\ "started" \notin TerminalEvents /\ "item" \notin TerminalEvents
        /\ "ask" \notin TerminalEvents
    BY DEF TerminalEvents
  <1>7. CASE ReadStarted
    <2>1. cor' = Opened(c, from) /\ Emit(OpenedEvents(c, from), from, msg.nat)
      BY <1>7 DEF ReadStarted, c
    <2>2. Mapped
      BY <1>2, <1>4, <2>1, OpenedFacts
    <2>3. /\ OpenedEvents(c, from) \in Seq(EventTypes)
          /\ \A i \in 1..Len(OpenedEvents(c, from)) :
                OpenedEvents(c, from)[i] \in {"started", "compacting"}
      BY <1>2, OpenedFacts
    <2> QED BY <1>5, <1>6, <2>1, <2>2, <2>3
  <1>8. CASE ReadItem \/ ReadAsk
    <2>1. cor' = c /\ (Emit(<<"item">>, from, msg.nat) \/ Emit(<<"ask">>, from, msg.nat))
      BY <1>8 DEF ReadItem, ReadAsk, c
    <2>2. Mapped
      BY <1>2, <1>4, <2>1 DEF SameNames
    <2>3. ASSUME NEW f \in {"item", "ask"}, Emit(<<f>>, from, msg.nat)
          PROVE  MappedEvents
      <3> DEFINE one == <<f>>
      <3>1. one \in Seq(EventTypes) /\ Len(one) = 1 /\ one[1] = f
        BY DEF EventTypes
      <3>2. Emit(one, from, msg.nat)
        BY <2>3
      <3> HIDE DEF one
      <3>3. \A i \in 1..Len(one) : one[i] \notin TerminalEvents
        BY <1>6, <3>1
      <3> QED BY <1>5, <3>1, <3>2, <3>3
    <2> QED BY <2>1, <2>2, <2>3
  <1>9. CASE ReadCompacted
    <2>1. cor' = Compacted(c, from) /\ Emit(CompactedEvents(c, from), from, msg.nat)
      BY <1>9 DEF ReadCompacted, c
    <2>2. Mapped
      BY <1>2, <1>4, <2>1, CompactedFacts
    <2>3. /\ CompactedEvents(c, from) \in Seq(EventTypes)
          /\ \A i \in 1..Len(CompactedEvents(c, from)) :
                CompactedEvents(c, from)[i] \in {"compacting", "compacted"}
      BY <1>2, CompactedFacts
    <2> QED BY <1>5, <1>6, <2>1, <2>2, <2>3
  <1>10. CASE ReadEnded
    <2>1. msg.f \in TerminalEvents /\ from \notin cor.completed
      BY <1>10 DEF ReadEnded, Arrived, msg
    <2>2. CASE from \notin c.compactions
      <3>1. cor' = Completed(c, from) /\ Emit(<<msg.f>>, from, msg.nat)
        BY <1>10, <2>2 DEF ReadEnded, c
      <3>2. Mapped
        BY <1>2, <1>4, <3>1, CompletedFacts
      <3>3. <<msg.f>> \in Seq(EventTypes)
        BY <2>1 DEF EventTypes
      <3>4. kind[from] = "turn" \/ result[from] # "none"
        <4>1. from \notin cor.compactions /\ kind[from] \in {"none", "turn", "compact"}
          BY <1>2, <2>2 DEF SameTurns, TypedTasks
        <4> QED BY <1>2, <1>3, <2>1, <4>1 DEF Known
      <3> QED BY <3>1, <3>2, <3>3, <3>4 DEF MappedEvents
    <2>3. CASE from \in c.compactions /\ msg.f = "completed"
      <3>1. cor' = Completed(Compacted(c, from), from)
            /\ Emit(CompactedEvents(c, from), from, msg.nat)
        BY <1>10, <2>3 DEF ReadEnded, c
      <3>2. Mapped
        <4> DEFINE d == Compacted(c, from)
        <4>1. /\ d \in Correlations /\ SameNames(c, d) /\ d.active \in {c.active, from}
              /\ d.completed = c.completed /\ c.compactions \subseteq d.compactions
          BY <1>2, CompactedFacts
        <4> HIDE DEF d
        <4>2. /\ cor' \in Correlations /\ SameNames(d, cor')
              /\ cor'.active \in {0, d.active}
              /\ cor'.completed = d.completed \cup {from}
              /\ cor'.compactions = d.compactions \ {from}
          BY <1>2, <3>1, <4>1, CompletedFacts DEF d
        <4>3. SameNames(c, cor')
          BY <4>1, <4>2 DEF SameNames
        <4> QED BY <1>4, <4>1, <4>2, <4>3
      <3>3. /\ CompactedEvents(c, from) \in Seq(EventTypes)
            /\ \A i \in 1..Len(CompactedEvents(c, from)) :
                  CompactedEvents(c, from)[i] \in {"compacting", "compacted"}
        BY <1>2, CompactedFacts
      <3> QED BY <1>5, <1>6, <3>1, <3>2, <3>3
    <2>4. CASE from \in c.compactions /\ msg.f # "completed"
      <3>1. cor' = Completed(c, from) /\ UNCHANGED outbox
        BY <1>10, <2>4 DEF ReadEnded, c
      <3>2. Mapped
        BY <1>2, <1>4, <3>1, CompletedFacts
      <3> QED BY <3>1, <3>2 DEF MappedEvents
    <2> QED BY <2>2, <2>3, <2>4
  <1> QED BY <1>7, <1>8, <1>9, <1>10 DEF Mapping

-----------------------------------------------------------------------------
(* The holder of the lock *)

\* The places other than idle are a holder's, of its kind.
LEMMA HolderFacts ==
    ASSUME TypedTasks, Placed, pc # "idle"
    PROVE  /\ holder \in Tasks /\ kind[holder] \in {"turn", "compact"}
           /\ result[holder] = "none"
           /\ pc \in TurnPlaces => kind[holder] = "turn"
           /\ pc \in CompactPlaces => kind[holder] = "compact"
  BY DEF TypedTasks, Placed, Tasks

\* send_turn resumes: the turn is bound and active, and starts if it has not.
LEMMA TurnSentFacts ==
    ASSUME TypedTasks, TypedCoroutine, TypedCor, Placed, Asked, TurnSent
    PROVE  /\ holder \in Tasks /\ kind[holder] = "turn"
           /\ reply.nat \in Natives
           /\ cor' \in Correlations
           /\ cor'.starting = 0 /\ cor'.active \in {cor.active, holder}
           /\ \A n \in Natives : cor'.local[n] \in {cor.local[n], holder}
           /\ cor'.completed = cor.completed
           /\ cor.compactions \subseteq cor'.compactions
           /\ \/ UNCHANGED outbox
              \/ \E types \in Seq(EventTypes) :
                   /\ Emit(types, holder, reply.nat)
                   /\ \A i \in 1..Len(types) : types[i] \notin TerminalEvents
  <1>1. pc = "starting" /\ reply.s = "ok"
    BY DEF TurnSent
  <1>2. holder \in Tasks /\ kind[holder] = "turn"
    BY <1>1, HolderFacts DEF TurnPlaces
  <1>3. reply.nat \in Natives
    BY <1>1, Bounded DEF Asked, TypedCoroutine, Natives
  <1>4. cor \in Correlations /\ 0 \in 0..MaxTasks /\ holder \in 0..MaxTasks
    BY <1>2, Bounded DEF TypedCor, Tasks
  <1>5. CASE CanBind(cor, reply.nat, holder)
    <2> DEFINE b == Bind(cor, reply.nat, holder)
               o == Opened(b, holder)
               a == IF holder \in cor.completed THEN o.active ELSE holder
    <2> HIDE DEF o, a
    <2>0. ASSUME NEW n \in Natives, NEW t \in Tasks, NEW c \in Correlations
          PROVE  /\ Bind(c, n, t) \in Correlations
                 /\ Bind(c, n, t).active = c.active
                 /\ Bind(c, n, t).completed = c.completed
                 /\ Bind(c, n, t).compactions = c.compactions
                 /\ \A m \in Natives : Bind(c, n, t).local[m] \in {c.local[m], t}
      <3>1. \A m \in Natives :
               Bind(c, n, t).local[m] = IF m = n THEN t ELSE c.local[m]
        BY BindFacts
      <3>2. /\ Bind(c, n, t) \in Correlations
            /\ Bind(c, n, t).active = c.active
            /\ Bind(c, n, t).completed = c.completed
            /\ Bind(c, n, t).compactions = c.compactions
        BY BindFacts
      <3> QED BY <3>1, <3>2
    <2>1. /\ b \in Correlations /\ b.active = cor.active
          /\ b.completed = cor.completed /\ b.compactions = cor.compactions
          /\ \A n \in Natives : b.local[n] \in {cor.local[n], holder}
      BY <1>2, <1>3, <1>4, <2>0
    <2>3. cor' = [o EXCEPT !.starting = 0, !.active = a]
          /\ Emit(OpenedEvents(b, holder), holder, reply.nat)
      BY <1>5 DEF TurnSent, b, o, a
    <2> HIDE DEF b
    <2>4. /\ o \in Correlations /\ SameNames(b, o) /\ o.active \in {b.active, holder}
          /\ o.completed = b.completed /\ b.compactions \subseteq o.compactions
          /\ OpenedEvents(b, holder) \in Seq(EventTypes)
          /\ \A i \in 1..Len(OpenedEvents(b, holder)) :
                OpenedEvents(b, holder)[i] \in {"started", "compacting"}
      BY <1>2, <2>1, OpenedFacts DEF o
    <2>5. a \in 0..MaxTasks /\ a \in {b.active, holder}
      BY <1>4, <2>4 DEF Correlations, a
    <2>6. /\ cor' \in Correlations /\ cor'.starting = 0 /\ cor'.active = a
          /\ cor'.local = o.local /\ cor'.completed = o.completed
          /\ cor'.compactions = o.compactions
      BY <1>4, <2>3, <2>4, <2>5 DEF Correlations
    <2>7. \A i \in 1..Len(OpenedEvents(b, holder)) :
             OpenedEvents(b, holder)[i] \notin TerminalEvents
      BY <2>4 DEF TerminalEvents
    <2>8. /\ cor'.active \in {cor.active, holder}
          /\ \A n \in Natives : cor'.local[n] \in {cor.local[n], holder}
          /\ cor'.completed = cor.completed
          /\ cor.compactions \subseteq cor'.compactions
      BY <2>1, <2>4, <2>5, <2>6 DEF SameNames
    <2> QED BY <1>2, <1>3, <2>3, <2>4, <2>6, <2>7, <2>8
  <1>6. CASE ~CanBind(cor, reply.nat, holder)
    <2>1. cor' = [cor EXCEPT !.starting = 0] /\ UNCHANGED outbox
      BY <1>6 DEF TurnSent
    <2>2. /\ cor' \in Correlations /\ cor'.starting = 0 /\ cor'.active = cor.active
          /\ cor'.local = cor.local /\ cor'.completed = cor.completed
          /\ cor'.compactions = cor.compactions
      BY <1>4, <2>1 DEF Correlations
    <2> QED BY <1>2, <1>3, <2>1, <2>2
  <1> QED BY <1>5, <1>6

\* How a task may end.
Ended == Results \ {"none"}

\* The steps in which the holder may give up the lock either do, or go on.
GivesUp == \E r \in Ended : Release(r)

\* What TurnEnds does.
LEMMA TurnEndsFacts ==
    ASSUME NEW e, TurnEnds(e)
    PROVE  \/ e.turn = holder /\ Given(e) /\ GivesUp
           \/ /\ pc' = "failing" /\ held' = None
              /\ UNCHANGED <<tasks, interrupted, reply, last>>
  <1>1. (CASE e.type = "completed"   -> "completed"
           [] e.type = "interrupted" -> "cancelled"
           [] OTHER                  -> "failed") \in Ended
    BY DEF Ended, Results
  <1> QED BY <1>1 DEF TurnEnds, GivesUp

\* What Deliver does.
LEMMA DeliverFacts ==
    ASSUME NEW e, Deliver(e)
    PROVE  /\ interrupted' = interrupted /\ reply' = NoReply
           /\ \/ /\ e.turn = holder /\ Given(e)
                 /\ \/ pc' = "asking" /\ held' = e
                    \/ pc' = "read" /\ held' = None
              \/ pc' = "failing" /\ held' = None /\ last' = last
  BY DEF Deliver

-----------------------------------------------------------------------------
(* The lock passes *)

\* The holder has ended, and whoever waited longest starts.
LockPasses ==
    /\ kind' = kind /\ cancelled' = cancelled
    /\ interrupted' = FALSE /\ held' = None /\ reply' = NoReply
    /\ result' \in [Tasks -> Results] /\ result'[holder] # "none"
    /\ \A t \in Tasks : t # holder => result'[t] = result[t]
    /\ waiting' \in Seq(Tasks)
    /\ DOMAIN waiting' \subseteq Int
    /\ \A i \in DOMAIN waiting' :
          i + 1 \in DOMAIN waiting /\ waiting'[i] = waiting[i + 1] /\ i + 1 # 1
    /\ \/ holder' = 0 /\ pc' = "idle" /\ waiting = <<>> /\ waiting' = <<>>
       \/ holder' \in Tasks /\ pc' = "start"
          /\ 1 \in DOMAIN waiting /\ holder' = waiting[1]

\* Giving up the lock passes it.
LEMMA Passing ==
    ASSUME TypedTasks, Placed, holder \in Tasks, GivesUp
    PROVE  LockPasses
  <1>1. PICK r \in Ended : Release(r)
    BY DEF GivesUp
  <1>2. r \in Results /\ r # "none"
    BY DEF Ended
  <1>3. result \in [Tasks -> Results]
    BY DEF TypedTasks
  <1>4. /\ waiting' \in Seq(Tasks)
        /\ \/ waiting = <<>> /\ holder' = 0 /\ pc' = "idle" /\ waiting' = <<>>
           \/ /\ holder' \in Tasks /\ pc' = "start" /\ 1 \in DOMAIN waiting
              /\ holder' = waiting[1]
        /\ DOMAIN waiting' = 1..Len(waiting')
        /\ \A i \in DOMAIN waiting' :
              i + 1 \in DOMAIN waiting /\ waiting'[i] = waiting[i + 1]
        /\ result' = [result EXCEPT ![holder] = r] /\ kind' = kind
        /\ cancelled' = cancelled /\ interrupted' = FALSE /\ held' = None
        /\ reply' = NoReply
    BY <1>1, <1>2, ReleaseFacts
  <1>5. /\ result' \in [Tasks -> Results] /\ result'[holder] # "none"
        /\ \A t \in Tasks : t # holder => result'[t] = result[t]
    BY <1>2, <1>3, <1>4
  <1>6. DOMAIN waiting' \subseteq Int /\ \A i \in DOMAIN waiting' : i + 1 # 1
    BY <1>4
  <1> QED BY <1>4, <1>5, <1>6 DEF LockPasses

\* A turn that has to close its controller keeps the lock.
TurnCloses ==
    /\ kind[holder] = "turn" /\ pc' = "closing"
    /\ UNCHANGED <<tasks, interrupted, held, reply>>

\* An exception before the request either ends the task or keeps the lock.
LEMMA FailsFacts ==
    ASSUME Fails
    PROVE  GivesUp \/ TurnCloses
  <1>1. "error" \in Ended
    BY DEF Ended, Results
  <1> QED BY <1>1 DEF Fails, GivesUp, TurnCloses, Goto

\* The steps in which the holder may give up the lock, by what it was given.
LEMMA GivingUp ==
    ASSUME TypedCoroutine
    PROVE  /\ StartFails => pc = "start" /\ (GivesUp \/ TurnCloses)
           /\ SendRefused => pc = "send" /\ (GivesUp \/ TurnCloses)
           /\ ReadTerminal =>
                 /\ pc = "read" /\ queue # <<>> /\ queue' = Tail(queue)
                 /\ Head(queue).type \in TerminalEvents
                 /\ \/ Head(queue).turn = holder /\ Given(Head(queue)) /\ GivesUp
                    \/ /\ pc' = "failing" /\ held' = None
                       /\ UNCHANGED <<tasks, interrupted, reply, last>>
                    \/ /\ pc' = "auditing" /\ held' = Head(queue)
                       /\ UNCHANGED <<tasks, interrupted, reply, last>>
           /\ AuditEnds => /\ pc = "auditing"
                           /\ \/ /\ held.turn = holder /\ GivesUp
                                 /\ Given(held) \/ Given([held EXCEPT !.type = "failed"])
                              \/ /\ pc' = "failing" /\ held' = None
                                 /\ UNCHANGED <<tasks, interrupted, reply,
                                                last>>
           /\ RunEnds => pc \in {"closing", "expiring"} /\ closed /\ GivesUp
           /\ CompactNotStarted => pc \in {"compacting", "binding"} /\ GivesUp
           /\ CompactReads =>
                 /\ pc = "compact_read" /\ queue # <<>> /\ queue' = Tail(queue)
                 /\ \/ Head(queue).turn = holder /\ Given(Head(queue))
                       /\ (GivesUp \/ UNCHANGED <<tasks, coroutine>>)
                    \/ GivesUp /\ UNCHANGED last
           /\ CompactTimesOut => pc = "compact_read" /\ GivesUp
  <1>0. "error" \in Ended /\ "completed" \in Ended /\ "cancelled" \in Ended
    BY DEF Ended, Results
  <1>1. StartFails => pc = "start" /\ (GivesUp \/ TurnCloses)
    BY FailsFacts DEF StartFails
  <1>2. SendRefused => pc = "send" /\ (GivesUp \/ TurnCloses)
    BY FailsFacts DEF SendRefused
  <1>3. ReadTerminal =>
          /\ pc = "read" /\ queue # <<>> /\ queue' = Tail(queue)
          /\ Head(queue).type \in TerminalEvents
          /\ \/ Head(queue).turn = holder /\ Given(Head(queue)) /\ GivesUp
             \/ /\ pc' = "failing" /\ held' = None
                /\ UNCHANGED <<tasks, interrupted, reply, last>>
             \/ /\ pc' = "auditing" /\ held' = Head(queue)
                /\ UNCHANGED <<tasks, interrupted, reply, last>>
    BY TurnEndsFacts DEF ReadTerminal, TakeNext
  <1>4. AuditEnds => /\ pc = "auditing"
                     /\ \/ /\ held.turn = holder /\ GivesUp
                           /\ Given(held) \/ Given([held EXCEPT !.type = "failed"])
                        \/ /\ pc' = "failing" /\ held' = None
                           /\ UNCHANGED <<tasks, interrupted, reply, last>>
    <2>1. SUFFICES ASSUME AuditEnds, NEW e, TurnEnds(e),
                          e = held \/ e = [held EXCEPT !.type = "failed"]
                   PROVE  \/ /\ held.turn = holder /\ GivesUp
                             /\ Given(held) \/ Given([held EXCEPT !.type = "failed"])
                          \/ /\ pc' = "failing" /\ held' = None
                             /\ UNCHANGED <<tasks, interrupted, reply, last>>
      BY DEF AuditEnds
    <2>2. e.turn = held.turn
      <3>1. held \in Event
        BY DEF TypedCoroutine
      <3> QED BY <2>1, <3>1 DEF Event
    <2> QED BY <2>1, <2>2, TurnEndsFacts
  <1>5. RunEnds => pc \in {"closing", "expiring"} /\ closed /\ GivesUp
    <2>1. SUFFICES ASSUME RunEnds
                   PROVE  pc \in {"closing", "expiring"} /\ closed /\ GivesUp
      OBVIOUS
    <2>2. (IF pc = "expiring" THEN "cancelled" ELSE "error") \in Ended
      BY <1>0
    <2> QED BY <2>1, <2>2 DEF RunEnds, GivesUp
  <1>6. CompactNotStarted => pc \in {"compacting", "binding"} /\ GivesUp
    BY <1>0 DEF CompactNotStarted, GivesUp
  <1>7. CompactReads =>
          /\ pc = "compact_read" /\ queue # <<>> /\ queue' = Tail(queue)
          /\ \/ Head(queue).turn = holder /\ Given(Head(queue))
                /\ (GivesUp \/ UNCHANGED <<tasks, coroutine>>)
             \/ GivesUp /\ UNCHANGED last
    BY <1>0 DEF CompactReads, GivesUp, TakeNext
  <1>8. CompactTimesOut => pc = "compact_read" /\ GivesUp
    BY <1>0 DEF CompactTimesOut, GivesUp
  <1> QED BY <1>1, <1>2, <1>3, <1>4, <1>5, <1>6, <1>7, <1>8

-----------------------------------------------------------------------------
(* What the two ends of the pipes leave alone *)

\* The app-server touches the pipes and its own state.
LEMMA ServerFrame ==
    Server => UNCHANGED <<tasks, control, coroutine, link, rpcs, asks, outbox, cor,
                          injected, carried, last, late>>
  <1>1. ServerOpens => ServerRest
    BY DEF ServerOpens
  <1>2. ServerRefuses => ServerRest
    BY DEF ServerRefuses
  <1>3. ServerInterrupts => ServerRest
    BY DEF ServerInterrupts
  <1>4. ServerAnswered => ServerRest
    BY DEF ServerAnswered
  <1>5. ServerWorks => ServerRest
    BY DEF ServerWorks
  <1>6. ServerReplaces => ServerRest
    BY DEF ServerReplaces
  <1>7. ServerEnds => ServerRest
    BY DEF ServerEnds
  <1>8. ServerExits => ServerRest
    BY DEF ServerExits
  <1>9. ServerRest => UNCHANGED <<tasks, control, coroutine, link, rpcs, asks, outbox,
                                  cor, injected, carried, last, late>>
    BY DEF ServerRest
  <1> QED BY <1>1, <1>2, <1>3, <1>4, <1>5, <1>6, <1>7, <1>8, <1>9 DEF Server

\* The event mapper touches the correlation and the queue.
LEMMA MappingRest ==
    Mapping => UNCHANGED <<tasks, control, coroutine, link, rpcs, toServer, srv, seen>>
  BY DEF Mapping, ReadStarted, ReadItem, ReadAsk, ReadCompacted, ReadEnded,
     Consume

-----------------------------------------------------------------------------
(* The order of the events *)

\* An event that is taken comes before the rest.
LEMMA TakeOrder ==
    ASSUME queue \in Seq(Event), queue # <<>>, Ordered(queue, sequence),
           queue' = Tail(queue), sequence' = sequence
    PROVE  /\ Ordered(queue', sequence') /\ Head(queue) \in Event
           /\ Head(queue).turn # 0 => After(queue', sequence', Head(queue).seq)
           /\ Keeps
           /\ \A n \in Int : After(queue, sequence, n) /\ Head(queue).turn # 0 =>
                 n < Head(queue).seq
  <1>1. /\ Head(queue) \in Event /\ Head(queue) = queue[1] /\ Len(queue) \in Nat
        /\ queue' \in Seq(Event) /\ Len(queue') = Len(queue) - 1
        /\ Len(queue) >= 1
        /\ \A i \in 1..Len(queue') : i + 1 \in 1..Len(queue) /\ queue'[i] = queue[i + 1]
    BY TakeFacts
  <1>2. DOMAIN queue = 1..Len(queue) /\ DOMAIN queue' = 1..Len(queue')
    BY <1>1, LenProperties
  <1>3. \A i \in DOMAIN queue' : i + 1 \in DOMAIN queue /\ queue'[i] = queue[i + 1]
    BY <1>1, <1>2
  <1>4. /\ 1 \in DOMAIN queue /\ \A i \in DOMAIN queue' : 1 < i + 1 /\ i \in Int
        /\ \A i, j \in DOMAIN queue' : i < j => i + 1 < j + 1
    BY <1>1, <1>2
  <1>5. Ordered(queue', sequence')
    <2>1. \A i \in DOMAIN queue' : queue'[i].turn # 0 => queue'[i].seq < sequence'
      BY <1>3 DEF Ordered
    <2>2. \A i, j \in DOMAIN queue' :
            i < j /\ queue'[i].turn # 0 /\ queue'[j].turn # 0 =>
               queue'[i].seq < queue'[j].seq
      BY <1>3, <1>4 DEF Ordered
    <2> QED BY <2>1, <2>2 DEF Ordered
  <1>6. Head(queue).turn # 0 => After(queue', sequence', Head(queue).seq)
    BY <1>1, <1>3, <1>4 DEF Ordered, After
  <1>7. Keeps
    BY <1>3 DEF After
  <1>8. \A n \in Int : After(queue, sequence, n) /\ Head(queue).turn # 0 =>
           n < Head(queue).seq
    BY <1>1, <1>4 DEF After
  <1> QED BY <1>1, <1>5, <1>6, <1>7, <1>8

\* The end of the stream disturbs no order.
LEMMA EndOrder ==
    ASSUME queue \in Seq(Event), Ordered(queue, sequence), NEW e \in Event,
           e.turn = 0, queue' = Append(queue, e), sequence' = sequence
    PROVE  /\ Ordered(queue', sequence')
           /\ Keeps
  <1>1. /\ queue' \in Seq(Event) /\ Len(queue) \in Nat
        /\ Len(queue') = Len(queue) + 1 /\ queue'[Len(queue')] = e
        /\ \A i \in 1..Len(queue) : queue'[i] = queue[i]
    BY EndQueued
  <1>2. DOMAIN queue = 1..Len(queue) /\ DOMAIN queue' = 1..Len(queue')
    BY <1>1, LenProperties
  <1>3. \A i \in DOMAIN queue' : queue'[i].turn # 0 =>
           i \in DOMAIN queue /\ queue'[i] = queue[i]
    BY <1>1, <1>2
  <1>4. Ordered(queue', sequence')
    BY <1>3 DEF Ordered
  <1> QED BY <1>3, <1>4 DEF After

\* New events come last, in order.
LEMMA EmitOrder ==
    ASSUME NEW types \in Seq(EventTypes), NEW t \in 0..MaxTasks,
           NEW n \in 0..MaxNatives, TypedOut, Emit(types, t, n),
           Ordered(queue, sequence)
    PROVE  /\ Ordered(queue', sequence')
           /\ \A m \in Int : After(queue, sequence, m) => After(queue', sequence', m)
  <1>1. /\ queue' \in Seq(Event) /\ sequence' \in Nat
        /\ Len(types) \in Nat /\ Len(queue) \in Nat
        /\ Len(queue') = Len(queue) + Len(types)
        /\ sequence' = sequence + Len(types)
        /\ \A i \in 1..Len(queue) : queue'[i] = queue[i]
        /\ \A i \in (Len(queue) + 1)..Len(queue') :
              /\ i - Len(queue) \in 1..Len(types)
              /\ queue'[i].seq = sequence + (i - Len(queue)) - 1
    BY EmitFacts
  <1>2. /\ DOMAIN queue = 1..Len(queue) /\ DOMAIN queue' = 1..Len(queue')
        /\ queue \in Seq(Event) /\ sequence \in Nat
        /\ \A i \in 1..Len(queue) : queue[i] \in Event
    BY <1>1, LenProperties, ElementOfSeq DEF TypedOut
  <1>3. \A i \in 1..Len(queue) : queue[i].seq \in Int
    BY <1>2 DEF Event
  <1>4. \A i \in DOMAIN queue' :
           \/ i \in DOMAIN queue /\ queue'[i] = queue[i]
           \/ /\ i \in Int /\ i > Len(queue) /\ i <= Len(queue')
              /\ queue'[i].seq = sequence + (i - Len(queue)) - 1
    BY <1>1, <1>2
  <1>5. \A i \in DOMAIN queue' : queue'[i].turn # 0 => queue'[i].seq < sequence'
    <2> SUFFICES ASSUME NEW i \in DOMAIN queue', queue'[i].turn # 0
                 PROVE  queue'[i].seq < sequence'
      OBVIOUS
    <2>1. CASE i \in DOMAIN queue /\ queue'[i] = queue[i]
      <3>1. queue[i].seq < sequence /\ queue[i].seq \in Int
        BY <1>2, <1>3, <2>1 DEF Ordered
      <3> QED BY <1>1, <1>2, <2>1, <3>1
    <2>2. CASE /\ i \in Int /\ i > Len(queue) /\ i <= Len(queue')
               /\ queue'[i].seq = sequence + (i - Len(queue)) - 1
      BY <1>1, <1>2, <2>2
    <2> QED BY <1>4, <2>1, <2>2
  <1>6. \A i, j \in DOMAIN queue' :
          i < j /\ queue'[i].turn # 0 /\ queue'[j].turn # 0 =>
             queue'[i].seq < queue'[j].seq
    <2> SUFFICES ASSUME NEW i \in DOMAIN queue', NEW j \in DOMAIN queue', i < j,
                        queue'[i].turn # 0, queue'[j].turn # 0
                 PROVE  queue'[i].seq < queue'[j].seq
      OBVIOUS
    <2>1. CASE j \in DOMAIN queue
      <3>1. i \in DOMAIN queue /\ queue'[i] = queue[i] /\ queue'[j] = queue[j]
        BY <1>1, <1>2, <2>1
      <3> QED BY <3>1, <2>1 DEF Ordered
    <2>2. CASE j \notin DOMAIN queue
      <3>1. j > Len(queue) /\ queue'[j].seq = sequence + (j - Len(queue)) - 1
            /\ j \in Int
        BY <1>4, <2>2
      <3>2. CASE i \in DOMAIN queue /\ queue'[i] = queue[i]
        <4>1. queue[i].seq < sequence /\ queue[i].seq \in Int
          BY <1>2, <1>3, <3>2 DEF Ordered
        <4> QED BY <1>1, <1>2, <3>1, <3>2, <4>1
      <3>3. CASE i \in Int /\ queue'[i].seq = sequence + (i - Len(queue)) - 1
        BY <1>1, <1>2, <3>1, <3>3
      <3> QED BY <1>4, <3>2, <3>3
    <2> QED BY <2>1, <2>2
  <1>7. ASSUME NEW m \in Int, After(queue, sequence, m)
        PROVE  After(queue', sequence', m)
    <2>1. m < sequence /\ m < sequence'
      BY <1>1, <1>2, <1>7 DEF After
    <2>2. ASSUME NEW i \in DOMAIN queue', queue'[i].turn # 0
          PROVE  m < queue'[i].seq
      <3>1. CASE i \in DOMAIN queue /\ queue'[i] = queue[i]
        BY <1>7, <2>2, <3>1 DEF After
      <3>2. CASE /\ i \in Int /\ i > Len(queue)
                 /\ queue'[i].seq = sequence + (i - Len(queue)) - 1
        BY <1>1, <1>2, <2>1, <3>2
      <3> QED BY <1>4, <3>1, <3>2
    <2> QED BY <2>1, <2>2 DEF After
  <1> QED BY <1>5, <1>6, <1>7 DEF Ordered
-----------------------------------------------------------------------------
(* Every step keeps every part of the invariant *)

\* The lock is held, waited for and given up by tasks.
LEMMA TypedTasksStep ==
    ASSUME Inv, [Next]_vars
    PROVE  TypedTasks'
  <1>0. TypedTasks /\ TypedCoroutine /\ Placed
    BY DEF Inv
  <1>1. ASSUME GivesUp, pc # "idle"
        PROVE  TypedTasks'
    <2>1. holder \in Tasks /\ LockPasses
      BY <1>0, <1>1, HolderFacts, Passing
    <2>2. /\ kind' = kind /\ cancelled' = cancelled
          /\ result' \in [Tasks -> Results] /\ waiting' \in Seq(Tasks)
          /\ holder' = 0 \/ holder' \in Tasks
      BY <2>1 DEF LockPasses
    <2>3. holder' \in 0..MaxTasks
      BY <2>2, Bounded DEF Tasks
    <2> QED BY <1>0, <2>2, <2>3 DEF TypedTasks
  <1>2. ASSUME StartFails
        PROVE  TypedTasks'
    <2>1. pc # "idle" /\ (GivesUp \/ UNCHANGED tasks)
      BY <1>0, <1>2, GivingUp DEF TurnCloses
    <2> QED BY <1>0, <1>1, <2>1 DEF TypedTasks, tasks
  <1>3. ASSUME SendRefused
        PROVE  TypedTasks'
    <2>1. pc # "idle" /\ (GivesUp \/ UNCHANGED tasks)
      BY <1>0, <1>3, GivingUp DEF TurnCloses
    <2> QED BY <1>0, <1>1, <2>1 DEF TypedTasks, tasks
  <1>4. ASSUME ReadTerminal
        PROVE  TypedTasks'
    <2>1. pc # "idle" /\ (GivesUp \/ UNCHANGED tasks)
      BY <1>0, <1>4, GivingUp DEF TurnCloses
    <2> QED BY <1>0, <1>1, <2>1 DEF TypedTasks, tasks
  <1>5. ASSUME AuditEnds
        PROVE  TypedTasks'
    <2>1. pc # "idle" /\ (GivesUp \/ UNCHANGED tasks)
      BY <1>0, <1>5, GivingUp DEF TurnCloses
    <2> QED BY <1>0, <1>1, <2>1 DEF TypedTasks, tasks
  <1>6. ASSUME RunEnds
        PROVE  TypedTasks'
    <2>1. pc # "idle" /\ (GivesUp \/ UNCHANGED tasks)
      BY <1>0, <1>6, GivingUp DEF TurnCloses
    <2> QED BY <1>0, <1>1, <2>1 DEF TypedTasks, tasks
  <1>7. ASSUME CompactNotStarted
        PROVE  TypedTasks'
    <2>1. pc # "idle" /\ (GivesUp \/ UNCHANGED tasks)
      BY <1>0, <1>7, GivingUp DEF TurnCloses
    <2> QED BY <1>0, <1>1, <2>1 DEF TypedTasks, tasks
  <1>8. ASSUME CompactReads
        PROVE  TypedTasks'
    <2>1. pc # "idle" /\ (GivesUp \/ UNCHANGED tasks)
      BY <1>0, <1>8, GivingUp DEF TurnCloses
    <2> QED BY <1>0, <1>1, <2>1 DEF TypedTasks, tasks
  <1>9. ASSUME CompactTimesOut
        PROVE  TypedTasks'
    <2>1. pc # "idle" /\ (GivesUp \/ UNCHANGED tasks)
      BY <1>0, <1>9, GivingUp DEF TurnCloses
    <2> QED BY <1>0, <1>1, <2>1 DEF TypedTasks, tasks
  <1>10. ASSUME NEW t \in Tasks, NEW k \in {"turn", "compact"}, NewTask(t, k)
        PROVE  TypedTasks'
    <2>1. /\ kind' = [kind EXCEPT ![t] = k] /\ result' = result
          /\ cancelled' = cancelled
          /\ \/ holder' = t /\ waiting' = waiting
             \/ holder' = holder /\ waiting' = Append(waiting, t)
      BY <1>10 DEF NewTask
    <2>2. /\ kind' \in [Tasks -> {"none", "turn", "compact"}]
          /\ holder' \in 0..MaxTasks
      BY <1>0, <2>1, Bounded DEF TypedTasks, Tasks
    <2>3. waiting' \in Seq(Tasks)
      BY <1>0, <2>1, AppendProperties DEF TypedTasks
    <2> QED BY <1>0, <2>1, <2>2, <2>3 DEF TypedTasks
  <1>11. ASSUME NEW t \in Tasks, RequestCancel(t)
        PROVE  TypedTasks'
    BY <1>0, <1>11 DEF TypedTasks, RequestCancel, tasks
  <1>12. CASE EnsureStarted \/ SendTurn \/ SendCompact \/ TurnSent
            \/ TurnNotSent \/ ReadEvent \/ Answer \/ AnswerFails
            \/ CancelTurn \/ Interrupted \/ InterruptFails \/ GraceExpires
            \/ RunFails \/ LastInterrupt \/ CloseByTurn \/ CompactSent
            \/ CompactBound \/ ReadResponse \/ Mapping \/ RejectFrame
            \/ (\E x \in Context : InjectItems(x)) \/ Close \/ EndClose
            \/ Server \/ UNCHANGED vars
    <2>1. EnsureStarted \/ SendTurn \/ SendCompact
          => UNCHANGED <<holder, waiting, kind, result, cancelled>>
      BY DEF EnsureStarted, Goto, SendTurn, Send, SendCompact, tasks
    <2>2. TurnSent \/ TurnNotSent \/ ReadEvent
          => UNCHANGED <<holder, waiting, kind, result, cancelled>>
      BY DEF TurnSent, Emit, TurnNotSent, ReadEvent, TakeNext, Deliver, tasks
    <2>3. Answer \/ AnswerFails \/ CancelTurn
          => UNCHANGED <<holder, waiting, kind, result, cancelled>>
      BY DEF Answer, Emit, AnswerFails, CancelTurn, TakeNext, Interrupt, Send,
         tasks
    <2>4. Interrupted \/ InterruptFails \/ GraceExpires
          => UNCHANGED <<holder, waiting, kind, result, cancelled>>
      BY DEF Interrupted, Deliver, InterruptFails, GraceExpires, tasks
    <2>5. RunFails \/ LastInterrupt \/ CloseByTurn
          => UNCHANGED <<holder, waiting, kind, result, cancelled>>
      BY DEF RunFails, Send, LastInterrupt, CloseByTurn, BeginClose, tasks
    <2>6. CompactSent \/ CompactBound \/ ReadResponse
          => UNCHANGED <<holder, waiting, kind, result, cancelled>>
      BY DEF CompactSent, CompactBound, Goto, ReadResponse, Consume, tasks
    <2>7. RejectFrame \/ (\E x \in Context : InjectItems(x)) \/ Close
          => UNCHANGED <<holder, waiting, kind, result, cancelled>>
      BY DEF RejectFrame, Consume, FailAll, InjectItems, Close, BeginClose,
         tasks
    <2>8. EndClose
          => UNCHANGED <<holder, waiting, kind, result, cancelled>>
      BY DEF EndClose, FailAll, tasks
    <2>9. Server \/ Mapping \/ UNCHANGED vars
          => UNCHANGED <<holder, waiting, kind, result, cancelled>>
      BY ServerFrame, MappingRest DEF vars, tasks
    <2>10. UNCHANGED <<holder, waiting, kind, result, cancelled>>
      BY <1>12, <2>1, <2>2, <2>3, <2>4, <2>5, <2>6, <2>7, <2>8, <2>9
    <2> QED BY <1>0, <2>10 DEF TypedTasks
  <1> QED
    BY <1>2, <1>3, <1>4, <1>5, <1>6, <1>7, <1>8, <1>9, <1>10, <1>11, <1>12 DEF
       Next, Running, Deciding, Reader, Mapping, Embedder, Server

\* The controller's flags and its context.
LEMMA TypedControlStep ==
    ASSUME Inv, [Next]_vars
    PROVE  TypedControl'
  <1>0. TypedControl
    BY DEF Inv
  <1>1. ASSUME EnsureStarted
        PROVE  TypedControl'
    BY <1>0, <1>1 DEF TypedControl, EnsureStarted, Goto, control
  <1>2. ASSUME SendTurn
        PROVE  TypedControl'
    BY <1>0, <1>2 DEF TypedControl, SendTurn, Send, Goto, control
  <1>3. ASSUME SendRefused
        PROVE  TypedControl'
    BY <1>0, <1>3 DEF TypedControl, SendRefused, Fails, Goto, Release, control
  <1>4. ASSUME CloseByTurn
        PROVE  TypedControl'
    BY <1>0, <1>4 DEF TypedControl, CloseByTurn, BeginClose, control
  <1>5. ASSUME NEW x \in Context, InjectItems(x)
        PROVE  TypedControl'
    BY <1>0, <1>5 DEF TypedControl, InjectItems, control
  <1>6. ASSUME Close
        PROVE  TypedControl'
    BY <1>0, <1>6 DEF TypedControl, Close, BeginClose, control
  <1>7. CASE StartFails \/ SendCompact \/ TurnSent \/ TurnNotSent
            \/ ReadEvent \/ ReadTerminal \/ AuditEnds \/ Answer
            \/ AnswerFails \/ CancelTurn \/ Interrupted \/ InterruptFails
            \/ GraceExpires \/ RunFails \/ LastInterrupt \/ RunEnds
            \/ CompactSent \/ CompactBound \/ CompactNotStarted
            \/ CompactReads \/ CompactTimesOut \/ ReadResponse \/ Mapping
            \/ RejectFrame
            \/ (\E t \in Tasks, k \in {"turn", "compact"} : NewTask(t, k))
            \/ (\E t \in Tasks : RequestCancel(t)) \/ EndClose \/ Server
            \/ UNCHANGED vars
    <2>1. StartFails \/ SendCompact \/ TurnSent
          => UNCHANGED <<host, closed, started, pending>>
      BY DEF StartFails, Fails, Goto, Release, SendCompact, Send, TurnSent,
         Emit, control
    <2>2. TurnNotSent \/ ReadEvent \/ ReadTerminal
          => UNCHANGED <<host, closed, started, pending>>
      BY DEF TurnNotSent, ReadEvent, TakeNext, Deliver, ReadTerminal, TurnEnds,
         Release, control
    <2>3. AuditEnds \/ Answer \/ AnswerFails
          => UNCHANGED <<host, closed, started, pending>>
      BY DEF AuditEnds, TurnEnds, Release, Answer, Emit, AnswerFails, control
    <2>4. CancelTurn \/ Interrupted \/ InterruptFails
          => UNCHANGED <<host, closed, started, pending>>
      BY DEF CancelTurn, TakeNext, Interrupt, Send, Interrupted, Deliver,
         InterruptFails, control
    <2>5. GraceExpires \/ RunFails \/ LastInterrupt
          => UNCHANGED <<host, closed, started, pending>>
      BY DEF GraceExpires, RunFails, Send, LastInterrupt, control
    <2>6. RunEnds \/ CompactSent \/ CompactBound
          => UNCHANGED <<host, closed, started, pending>>
      BY DEF RunEnds, Release, CompactSent, CompactBound, Goto, control
    <2>7. CompactNotStarted \/ CompactReads \/ CompactTimesOut
          => UNCHANGED <<host, closed, started, pending>>
      BY DEF CompactNotStarted, Release, CompactReads, TakeNext,
         CompactTimesOut, control
    <2>8. \/ ReadResponse \/ RejectFrame
          \/ (\E t \in Tasks, k \in {"turn", "compact"} : NewTask(t, k))
          => UNCHANGED <<host, closed, started, pending>>
      BY DEF ReadResponse, Consume, RejectFrame, FailAll, NewTask, Goto, control
    <2>9. (\E t \in Tasks : RequestCancel(t)) \/ EndClose
          => UNCHANGED <<host, closed, started, pending>>
      BY DEF RequestCancel, EndClose, FailAll, control
    <2>10. Server \/ Mapping \/ UNCHANGED vars
           => UNCHANGED <<host, closed, started, pending>>
      BY ServerFrame, MappingRest DEF vars, control
    <2>11. UNCHANGED <<host, closed, started, pending>>
      BY <1>7, <2>1, <2>2, <2>3, <2>4, <2>5, <2>6, <2>7, <2>8, <2>9, <2>10
    <2> QED BY <1>0, <2>11 DEF TypedControl
  <1> QED
    BY <1>1, <1>2, <1>3, <1>4, <1>5, <1>6, <1>7 DEF Next, Running, Deciding,
       Reader, Mapping, Embedder, Server

\* Where the holder is, and what it has in hand.
LEMMA TypedCoroutineStep ==
    ASSUME Inv, [Next]_vars
    PROVE  TypedCoroutine'
  <1>0. TypedTasks /\ TypedCoroutine /\ TypedOut /\ TypedServer /\ Placed
    BY DEF Inv
  <1>2. /\ NoReply \in [s : {"none", "ok", "error"}, nat : 0..MaxNatives]
        /\ Failed \in [s : {"none", "ok", "error"}, nat : 0..MaxNatives]
        /\ None \in Event
    BY Bounded, EventFacts DEF NoReply, Failed
  <1>3. queue # <<>> => Head(queue) \in Event
    BY <1>0, HeadTailProperties DEF TypedOut
  <1>1. ASSUME GivesUp, pc # "idle"
        PROVE  TypedCoroutine'
    <2>1. holder \in Tasks /\ LockPasses
      BY <1>0, <1>1, HolderFacts, Passing
    <2>2. /\ interrupted' = FALSE /\ held' = None /\ reply' = NoReply
          /\ pc' \in {"idle", "start"}
      BY <2>1 DEF LockPasses
    <2> QED BY <2>2, <1>2, EventFacts DEF TypedCoroutine, Places
  <1>4. ASSUME EnsureStarted
        PROVE  TypedCoroutine'
    BY <1>0, <1>4, <1>2 DEF TypedCoroutine, Places, EnsureStarted, Goto,
       coroutine
  <1>5. ASSUME StartFails
        PROVE  TypedCoroutine'
    <2>1. pc # "idle" /\ (GivesUp \/ TurnCloses)
      BY <1>0, <1>5, GivingUp
    <2> QED BY <1>0, <1>1, <2>1 DEF TypedCoroutine, Places, TurnCloses
  <1>6. ASSUME SendTurn
        PROVE  TypedCoroutine'
    BY <1>0, <1>6, <1>2 DEF TypedCoroutine, Places, SendTurn, Send, Goto,
       coroutine
  <1>7. ASSUME SendCompact
        PROVE  TypedCoroutine'
    BY <1>0, <1>7, <1>2 DEF TypedCoroutine, Places, SendCompact, Send, Goto,
       coroutine
  <1>8. ASSUME SendRefused
        PROVE  TypedCoroutine'
    <2>1. pc # "idle" /\ (GivesUp \/ TurnCloses)
      BY <1>0, <1>8, GivingUp
    <2> QED BY <1>0, <1>1, <2>1 DEF TypedCoroutine, Places, TurnCloses
  <1>9. ASSUME TurnSent
        PROVE  TypedCoroutine'
    BY <1>0, <1>9, <1>2 DEF TypedCoroutine, Places, TurnSent, Emit, coroutine
  <1>10. ASSUME TurnNotSent
        PROVE  TypedCoroutine'
    BY <1>0, <1>10, <1>2 DEF TypedCoroutine, Places, TurnNotSent, coroutine
  <1>11. ASSUME ReadEvent
        PROVE  TypedCoroutine'
    <2>1. queue # <<>> /\ Deliver(Head(queue))
      BY <1>11 DEF ReadEvent
    <2>2. /\ interrupted' = interrupted /\ reply' = NoReply
          /\ pc' \in {"asking", "read", "failing"} /\ held' \in {None, Head(queue)}
      BY <2>1, DeliverFacts
    <2> QED BY <1>0, <1>2, <1>3, <2>1, <2>2 DEF TypedCoroutine, Places
  <1>12. ASSUME ReadTerminal
        PROVE  TypedCoroutine'
    <2>1. /\ pc # "idle" /\ queue # <<>>
          /\ \/ GivesUp
             \/ /\ pc' \in {"failing", "auditing"} /\ held' \in {None, Head(queue)}
                /\ interrupted' = interrupted /\ reply' = reply
      BY <1>0, <1>12, GivingUp
    <2> QED BY <1>0, <1>1, <1>2, <1>3, <2>1 DEF TypedCoroutine, Places
  <1>13. ASSUME AuditEnds
        PROVE  TypedCoroutine'
    <2>1. /\ pc # "idle"
          /\ \/ GivesUp
             \/ /\ pc' = "failing" /\ held' = None
                /\ interrupted' = interrupted /\ reply' = reply
      BY <1>0, <1>13, GivingUp
    <2> QED BY <1>0, <1>1, <1>2, <2>1 DEF TypedCoroutine, Places
  <1>14. ASSUME Answer
        PROVE  TypedCoroutine'
    BY <1>0, <1>14, <1>2 DEF TypedCoroutine, Places, Answer, Emit, coroutine
  <1>15. ASSUME AnswerFails
        PROVE  TypedCoroutine'
    BY <1>0, <1>15, <1>2 DEF TypedCoroutine, Places, AnswerFails, coroutine
  <1>16. ASSUME CancelTurn
        PROVE  TypedCoroutine'
    <2>1. /\ interrupted' = TRUE /\ reply' = NoReply
          /\ pc' \in {"interrupting", "failing"}
          /\ \/ held' = None
             \/ queue # <<>> /\ held' = Head(queue)
      <3>1. /\ interrupted' = TRUE /\ reply' = NoReply
            /\ \/ held' = None
               \/ queue # <<>> /\ held' = Head(queue)
        BY <1>16 DEF CancelTurn
      <3>2. pc' \in {"interrupting", "failing"}
        BY <1>16 DEF CancelTurn, Interrupt
      <3> QED BY <3>1, <3>2
    <2> QED BY <1>2, <1>3, <2>1 DEF TypedCoroutine, Places
  <1>17. ASSUME Interrupted
        PROVE  TypedCoroutine'
    <2>1. \/ pc' = "read" /\ reply' = NoReply /\ UNCHANGED <<interrupted, held>>
          \/ Deliver(held)
      BY <1>17 DEF Interrupted
    <2>2. /\ interrupted' = interrupted /\ reply' = NoReply
          /\ pc' \in {"asking", "read", "failing"} /\ held' \in {None, held}
      BY <2>1, DeliverFacts
    <2> QED BY <1>0, <1>2, <2>2 DEF TypedCoroutine, Places
  <1>18. ASSUME InterruptFails
        PROVE  TypedCoroutine'
    BY <1>0, <1>18, <1>2 DEF TypedCoroutine, Places, InterruptFails, coroutine
  <1>19. ASSUME GraceExpires
        PROVE  TypedCoroutine'
    BY <1>0, <1>19, <1>2 DEF TypedCoroutine, Places, GraceExpires, coroutine
  <1>20. ASSUME RunFails
        PROVE  TypedCoroutine'
    BY <1>0, <1>20, <1>2 DEF TypedCoroutine, Places, RunFails, Send, coroutine
  <1>21. ASSUME LastInterrupt
        PROVE  TypedCoroutine'
    BY <1>0, <1>21, <1>2 DEF TypedCoroutine, Places, LastInterrupt, coroutine
  <1>22. ASSUME RunEnds
        PROVE  TypedCoroutine'
    <2>1. pc # "idle" /\ GivesUp
      BY <1>0, <1>22, GivingUp
    <2> QED BY <1>1, <2>1
  <1>23. ASSUME CompactSent
        PROVE  TypedCoroutine'
    BY <1>0, <1>23, <1>2 DEF TypedCoroutine, Places, CompactSent, coroutine
  <1>24. ASSUME CompactBound
        PROVE  TypedCoroutine'
    BY <1>0, <1>24, <1>2 DEF TypedCoroutine, Places, CompactBound, Goto,
       coroutine
  <1>25. ASSUME CompactNotStarted
        PROVE  TypedCoroutine'
    <2>1. pc # "idle" /\ GivesUp
      BY <1>0, <1>25, GivingUp
    <2> QED BY <1>1, <2>1
  <1>26. ASSUME CompactReads
        PROVE  TypedCoroutine'
    <2>1. pc # "idle" /\ (GivesUp \/ UNCHANGED coroutine)
      BY <1>0, <1>26, GivingUp
    <2> QED BY <1>0, <1>1, <2>1 DEF TypedCoroutine, coroutine
  <1>27. ASSUME CompactTimesOut
        PROVE  TypedCoroutine'
    <2>1. pc # "idle" /\ GivesUp
      BY <1>0, <1>27, GivingUp
    <2> QED BY <1>1, <2>1
  <1>28. ASSUME ReadResponse
        PROVE  TypedCoroutine'
    <2>1. msg.nat \in 0..MaxNatives
      BY <1>0, <1>28, HeadFrame, FrameFacts DEF ReadResponse, Arrived
    <2>2. /\ pc' = pc /\ interrupted' = interrupted /\ held' = held
          /\ \/ reply' = reply
             \/ reply' = [s |-> "ok", nat |-> msg.nat]
             \/ reply' = [s |-> "error", nat |-> msg.nat]
      BY <1>28 DEF ReadResponse
    <2> QED BY <1>0, <2>1, <2>2 DEF TypedCoroutine
  <1>29. ASSUME RejectFrame
        PROVE  TypedCoroutine'
    <2>1. /\ pc' = pc /\ interrupted' = interrupted /\ held' = held
          /\ reply' = reply \/ reply' = Failed
      BY <1>29 DEF RejectFrame, FailAll
    <2> QED BY <1>0, <1>2, <2>1 DEF TypedCoroutine
  <1>30. ASSUME NEW t \in Tasks, NEW k \in {"turn", "compact"}, NewTask(t, k)
        PROVE  TypedCoroutine'
    <2>1. UNCHANGED <<interrupted, held, reply>> /\ pc' \in {pc, "start"}
      BY <1>30 DEF NewTask, Goto, coroutine
    <2> QED BY <1>0, <2>1 DEF TypedCoroutine, Places
  <1>31. ASSUME EndClose
        PROVE  TypedCoroutine'
    <2>1. /\ pc' = pc /\ interrupted' = interrupted /\ held' = held
          /\ reply' = reply \/ reply' = Failed
      BY <1>31 DEF EndClose, FailAll
    <2> QED BY <1>0, <1>2, <2>1 DEF TypedCoroutine
  <1>32. CASE CloseByTurn \/ Mapping \/ (\E t \in Tasks : RequestCancel(t))
            \/ (\E x \in Context : InjectItems(x)) \/ Close \/ Server
            \/ UNCHANGED vars
    <2>1. \/ CloseByTurn \/ (\E t \in Tasks : RequestCancel(t))
          \/ (\E x \in Context : InjectItems(x))
          => UNCHANGED <<pc, interrupted, held, reply>>
      BY DEF CloseByTurn, BeginClose, RequestCancel, InjectItems, coroutine
    <2>2. Close
          => UNCHANGED <<pc, interrupted, held, reply>>
      BY DEF Close, BeginClose, coroutine
    <2>3. Server \/ Mapping \/ UNCHANGED vars
          => UNCHANGED <<pc, interrupted, held, reply>>
      BY ServerFrame, MappingRest DEF vars, coroutine
    <2>4. UNCHANGED <<pc, interrupted, held, reply>>
      BY <1>32, <2>1, <2>2, <2>3
    <2> QED BY <1>0, <2>4 DEF TypedCoroutine, Places
  <1> QED
    BY <1>4, <1>5, <1>6, <1>7, <1>8, <1>9, <1>10, <1>11, <1>12, <1>13, <1>14,
       <1>15, <1>16, <1>17, <1>18, <1>19, <1>20, <1>21, <1>22, <1>23, <1>24,
       <1>25, <1>26, <1>27, <1>28, <1>29, <1>30, <1>31, <1>32 DEF Next,
       Running, Deciding, Reader, Mapping, Embedder, Server

\* The session's state.
LEMMA TypedLinkStep ==
    ASSUME Inv, [Next]_vars
    PROVE  TypedLink'
  <1>0. TypedLink
    BY DEF Inv
  <1>1. ASSUME EnsureStarted
        PROVE  TypedLink'
    BY <1>0, <1>1 DEF TypedLink, EnsureStarted, Goto, link
  <1>2. ASSUME StartFails
        PROVE  TypedLink'
    BY <1>0, <1>2 DEF TypedLink, StartFails, Fails, Goto, Release, link
  <1>3. ASSUME CloseByTurn
        PROVE  TypedLink'
    BY <1>0, <1>3 DEF TypedLink, CloseByTurn, BeginClose, link
  <1>4. ASSUME RejectFrame
        PROVE  TypedLink'
    <2>1. state' = state /\ reader' = FALSE /\ fatal' \in {fatal, TRUE}
      BY <1>4 DEF RejectFrame
    <2> QED BY <1>0, <2>1 DEF TypedLink
  <1>5. ASSUME Close
        PROVE  TypedLink'
    BY <1>0, <1>5 DEF TypedLink, Close, BeginClose, link
  <1>6. ASSUME EndClose
        PROVE  TypedLink'
    <2>1. state' = "closed" /\ reader' = FALSE /\ fatal' = fatal
      BY <1>6 DEF EndClose
    <2> QED BY <1>0, <2>1 DEF TypedLink
  <1>7. CASE SendTurn \/ SendCompact \/ SendRefused \/ TurnSent
            \/ TurnNotSent \/ ReadEvent \/ ReadTerminal \/ AuditEnds
            \/ Answer \/ AnswerFails \/ CancelTurn \/ Interrupted
            \/ InterruptFails \/ GraceExpires \/ RunFails \/ LastInterrupt
            \/ RunEnds \/ CompactSent \/ CompactBound \/ CompactNotStarted
            \/ CompactReads \/ CompactTimesOut \/ ReadResponse \/ Mapping
            \/ (\E t \in Tasks, k \in {"turn", "compact"} : NewTask(t, k))
            \/ (\E t \in Tasks : RequestCancel(t))
            \/ (\E x \in Context : InjectItems(x)) \/ Server
            \/ UNCHANGED vars
    <2>1. SendTurn \/ SendCompact \/ SendRefused
          => UNCHANGED <<state, reader, fatal>>
      BY DEF SendTurn, Send, Goto, SendCompact, SendRefused, Fails, Release,
         link
    <2>2. TurnSent \/ TurnNotSent \/ ReadEvent
          => UNCHANGED <<state, reader, fatal>>
      BY DEF TurnSent, Emit, TurnNotSent, ReadEvent, TakeNext, Deliver, link
    <2>3. ReadTerminal \/ AuditEnds \/ Answer
          => UNCHANGED <<state, reader, fatal>>
      BY DEF ReadTerminal, TakeNext, TurnEnds, Release, AuditEnds, Answer,
         Emit, link
    <2>4. AnswerFails \/ CancelTurn \/ Interrupted
          => UNCHANGED <<state, reader, fatal>>
      BY DEF AnswerFails, CancelTurn, TakeNext, Interrupt, Send, Interrupted,
         Deliver, link
    <2>5. InterruptFails \/ GraceExpires \/ RunFails
          => UNCHANGED <<state, reader, fatal>>
      BY DEF InterruptFails, GraceExpires, RunFails, Send, link
    <2>6. LastInterrupt \/ RunEnds \/ CompactSent
          => UNCHANGED <<state, reader, fatal>>
      BY DEF LastInterrupt, RunEnds, Release, CompactSent, link
    <2>7. CompactBound \/ CompactNotStarted \/ CompactReads
          => UNCHANGED <<state, reader, fatal>>
      BY DEF CompactBound, Goto, CompactNotStarted, Release, CompactReads,
         TakeNext, link
    <2>8. \/ CompactTimesOut \/ ReadResponse
          \/ (\E t \in Tasks, k \in {"turn", "compact"} : NewTask(t, k))
          => UNCHANGED <<state, reader, fatal>>
      BY DEF CompactTimesOut, Release, ReadResponse, Consume, NewTask, Goto,
         link
    <2>9. (\E t \in Tasks : RequestCancel(t)) \/ (\E x \in Context : InjectItems(x))
          => UNCHANGED <<state, reader, fatal>>
      BY DEF RequestCancel, InjectItems, link
    <2>10. Server \/ Mapping \/ UNCHANGED vars => UNCHANGED <<state, reader, fatal>>
      BY ServerFrame, MappingRest DEF vars, link
    <2>11. UNCHANGED <<state, reader, fatal>>
      BY <1>7, <2>1, <2>2, <2>3, <2>4, <2>5, <2>6, <2>7, <2>8, <2>9, <2>10
    <2> QED BY <1>0, <2>11 DEF TypedLink
  <1> QED
    BY <1>1, <1>2, <1>3, <1>4, <1>5, <1>6, <1>7 DEF Next, Running, Deciding,
       Reader, Mapping, Embedder, Server

\* The requests, the approvals and the queue of events.
LEMMA TypedOutStep ==
    ASSUME Inv, [Next]_vars
    PROVE  TypedOut'
  <1>0. /\ TypedTasks /\ TypedCoroutine /\ TypedOut /\ TypedCor /\ TypedServer
        /\ Placed /\ Asked /\ Known
    BY DEF Inv
  <1>1. /\ queue \in Seq(Event) /\ sequence \in Nat
        /\ queue # <<>> => Tail(queue) \in Seq(Event)
    BY <1>0, HeadTailProperties DEF TypedOut
  <1>2. ASSUME rpcs' \subseteq rpcs \cup {<<"turn", holder>>, <<"compact", holder>>,
                                         <<"interrupt", holder>>},
               holder \in Tasks
        PROVE  rpcs' \subseteq Ops \X Tasks
    <2>1. rpcs \subseteq Ops \X Tasks
      BY <1>0 DEF TypedOut
    <2> QED BY <1>2, <2>1 DEF Ops
  <1>3. ASSUME SendTurn
        PROVE  TypedOut'
    <2>1. holder \in Tasks
      BY <1>0, <1>3, HolderFacts DEF SendTurn
    <2>2. /\ UNCHANGED <<asks, queue, sequence>>
          /\ rpcs' \subseteq rpcs \cup {<<"turn", holder>>, <<"compact", holder>>,
                                       <<"interrupt", holder>>}
      BY <1>3 DEF SendTurn, Send, Goto, outbox
    <2> QED BY <1>0, <1>2, <2>1, <2>2 DEF TypedOut
  <1>4. ASSUME SendCompact
        PROVE  TypedOut'
    <2>1. holder \in Tasks
      BY <1>0, <1>4, HolderFacts DEF SendCompact
    <2>2. /\ UNCHANGED <<asks, queue, sequence>>
          /\ rpcs' \subseteq rpcs \cup {<<"turn", holder>>, <<"compact", holder>>,
                                       <<"interrupt", holder>>}
      BY <1>4 DEF SendCompact, Send, Goto, outbox
    <2> QED BY <1>0, <1>2, <2>1, <2>2 DEF TypedOut
  <1>5. ASSUME TurnSent
        PROVE  TypedOut'
    <2>1. UNCHANGED <<rpcs, asks>>
      BY <1>5 DEF TurnSent
    <2>2. /\ holder \in Tasks /\ reply.nat \in Natives
          /\ \/ UNCHANGED outbox
             \/ \E types \in Seq(EventTypes) : Emit(types, holder, reply.nat)
      BY <1>0, <1>5, TurnSentFacts
    <2>3. holder \in 0..MaxTasks /\ reply.nat \in 0..MaxNatives
      BY <2>2, Bounded DEF Tasks, Natives
    <2>4. queue' \in Seq(Event) /\ sequence' \in Nat
      BY <1>0, <1>1, <2>2, <2>3, EmitFacts DEF outbox
    <2> QED BY <1>0, <2>1, <2>4 DEF TypedOut
  <1>6. ASSUME TurnNotSent
        PROVE  TypedOut'
    <2>1. rpcs' \subseteq rpcs /\ UNCHANGED <<asks, queue, sequence>>
      BY <1>6 DEF TurnNotSent, outbox
    <2> QED BY <1>0, <2>1 DEF TypedOut
  <1>7. ASSUME ReadEvent
        PROVE  TypedOut'
    <2>1. /\ UNCHANGED <<rpcs, asks, sequence>>
          /\ queue # <<>> /\ queue' = Tail(queue)
      BY <1>7 DEF ReadEvent, TakeNext
    <2> QED BY <1>0, <1>1, <2>1 DEF TypedOut
  <1>8. ASSUME ReadTerminal
        PROVE  TypedOut'
    <2>1. /\ UNCHANGED <<rpcs, asks, sequence>>
          /\ queue # <<>> /\ queue' = Tail(queue)
      BY <1>8 DEF ReadTerminal, TakeNext
    <2> QED BY <1>0, <1>1, <2>1 DEF TypedOut
  <1>9. ASSUME Answer
        PROVE  TypedOut'
    <2>1. /\ Emit(<<"resolved">>, held.turn, held.nat)
          /\ rpcs' = rpcs /\ asks' \subseteq asks
      BY <1>9 DEF Answer
    <2>2. /\ held.turn \in 0..MaxTasks /\ held.nat \in 0..MaxNatives
          /\ <<"resolved">> \in Seq(EventTypes)
      BY <1>0 DEF TypedCoroutine, Event, EventTypes
    <2>3. queue' \in Seq(Event) /\ sequence' \in Nat
      BY <1>0, <2>1, <2>2, EmitFacts
    <2> QED BY <1>0, <2>1, <2>3 DEF TypedOut
  <1>10. ASSUME CancelTurn
        PROVE  TypedOut'
    <2>1. holder \in Tasks
      BY <1>0, <1>10, HolderFacts DEF CancelTurn
    <2>2. rpcs' \subseteq rpcs \cup {<<"turn", holder>>, <<"compact", holder>>,
                                    <<"interrupt", holder>>}
      BY <1>10 DEF CancelTurn, Interrupt, Send
    <2>3. /\ asks' = asks /\ sequence' = sequence
          /\ \/ queue' = queue
             \/ queue # <<>> /\ queue' = Tail(queue)
      BY <1>10 DEF CancelTurn, TakeNext, outbox
    <2> QED BY <1>0, <1>1, <1>2, <2>1, <2>2, <2>3 DEF TypedOut
  <1>11. ASSUME RunFails
        PROVE  TypedOut'
    <2>1. holder \in Tasks
      BY <1>0, <1>11, HolderFacts DEF RunFails
    <2>2. /\ UNCHANGED <<asks, queue, sequence>>
          /\ rpcs' \subseteq rpcs \cup {<<"turn", holder>>, <<"compact", holder>>,
                                       <<"interrupt", holder>>}
      BY <1>11 DEF RunFails, Send, outbox
    <2> QED BY <1>0, <1>2, <2>1, <2>2 DEF TypedOut
  <1>12. ASSUME CompactNotStarted
        PROVE  TypedOut'
    <2>1. rpcs' \subseteq rpcs /\ UNCHANGED <<asks, queue, sequence>>
      BY <1>12 DEF CompactNotStarted, outbox
    <2> QED BY <1>0, <2>1 DEF TypedOut
  <1>13. ASSUME CompactReads
        PROVE  TypedOut'
    <2>1. /\ UNCHANGED <<rpcs, asks, sequence>>
          /\ queue # <<>> /\ queue' = Tail(queue)
      BY <1>13 DEF CompactReads, TakeNext
    <2> QED BY <1>0, <1>1, <2>1 DEF TypedOut
  <1>14. ASSUME ReadResponse
        PROVE  TypedOut'
    <2>1. rpcs' \subseteq rpcs /\ UNCHANGED <<asks, queue, sequence>>
      BY <1>14 DEF ReadResponse, outbox
    <2> QED BY <1>0, <2>1 DEF TypedOut
  <1>15. ASSUME Mapping
        PROVE  TypedOut'
    <2>1. Mapped /\ MappedEvents
      BY <1>0, <1>15, MappingMaps
    <2>2. /\ rpcs' = rpcs /\ asks' \in {asks, asks \cup {msg.nat}}
          /\ msg.nat \in Natives /\ from \in Tasks
      BY <1>0, <1>15, <2>1, MappingFrame DEF Mapped
    <2>3. from \in 0..MaxTasks /\ msg.nat \in 0..MaxNatives
      BY <2>2, Bounded DEF Tasks, Natives
    <2>4. queue' \in Seq(Event) /\ sequence' \in Nat
      BY <1>0, <1>1, <2>1, <2>3, EmitFacts DEF outbox, MappedEvents
    <2> QED BY <1>0, <2>2, <2>4 DEF TypedOut
  <1>16. ASSUME RejectFrame
        PROVE  TypedOut'
    <2>1. /\ rpcs' \subseteq rpcs /\ asks' = asks /\ sequence' = sequence
          /\ queue' = queue \/ queue' = Append(queue, Broken)
      BY <1>16 DEF RejectFrame, FailAll
    <2>2. queue' \in Seq(Event)
      BY <1>1, <2>1, EventFacts, AppendProperties
    <2> QED BY <1>0, <2>1, <2>2 DEF TypedOut
  <1>17. ASSUME EndClose
        PROVE  TypedOut'
    <2>1. /\ rpcs' \subseteq rpcs /\ asks' = asks /\ sequence' = sequence
          /\ queue' = Append(queue, Stop)
      BY <1>17 DEF EndClose, FailAll
    <2>2. queue' \in Seq(Event)
      BY <1>1, <2>1, EventFacts, AppendProperties
    <2> QED BY <1>0, <2>1, <2>2 DEF TypedOut
  <1>18. CASE EnsureStarted \/ StartFails \/ SendRefused \/ AuditEnds
            \/ AnswerFails \/ Interrupted \/ InterruptFails \/ GraceExpires
            \/ LastInterrupt \/ CloseByTurn \/ RunEnds \/ CompactSent
            \/ CompactBound \/ CompactTimesOut
            \/ (\E t \in Tasks, k \in {"turn", "compact"} : NewTask(t, k))
            \/ (\E t \in Tasks : RequestCancel(t))
            \/ (\E x \in Context : InjectItems(x)) \/ Close \/ Server
            \/ UNCHANGED vars
    <2>1. EnsureStarted \/ StartFails \/ SendRefused
          => UNCHANGED <<rpcs, asks, queue, sequence>>
      BY DEF EnsureStarted, Goto, StartFails, Fails, SendRefused, outbox
    <2>2. AuditEnds \/ AnswerFails \/ Interrupted
          => UNCHANGED <<rpcs, asks, queue, sequence>>
      BY DEF AuditEnds, TurnEnds, AnswerFails, Interrupted, Deliver, outbox
    <2>3. InterruptFails \/ GraceExpires \/ LastInterrupt
          => UNCHANGED <<rpcs, asks, queue, sequence>>
      BY DEF InterruptFails, GraceExpires, LastInterrupt, outbox
    <2>4. CloseByTurn \/ RunEnds \/ CompactSent
          => UNCHANGED <<rpcs, asks, queue, sequence>>
      BY DEF CloseByTurn, BeginClose, RunEnds, CompactSent, outbox
    <2>5. \/ CompactBound \/ CompactTimesOut
          \/ (\E t \in Tasks, k \in {"turn", "compact"} : NewTask(t, k))
          => UNCHANGED <<rpcs, asks, queue, sequence>>
      BY DEF CompactBound, Goto, CompactTimesOut, NewTask, outbox
    <2>6. \/ (\E t \in Tasks : RequestCancel(t))
          \/ (\E x \in Context : InjectItems(x))
          \/ Close
          => UNCHANGED <<rpcs, asks, queue, sequence>>
      BY DEF RequestCancel, InjectItems, Close, BeginClose, outbox
    <2>7. Server \/ UNCHANGED vars => UNCHANGED <<rpcs, asks, queue, sequence>>
      BY ServerFrame DEF vars, outbox
    <2>8. UNCHANGED <<rpcs, asks, queue, sequence>>
      BY <1>18, <2>1, <2>2, <2>3, <2>4, <2>5, <2>6, <2>7
    <2> QED BY <1>0, <2>8 DEF TypedOut
  <1> QED
    BY <1>3, <1>4, <1>5, <1>6, <1>7, <1>8, <1>9, <1>10, <1>11, <1>12, <1>13,
       <1>14, <1>15, <1>16, <1>17, <1>18 DEF Next, Running, Deciding, Reader,
       Mapping, Embedder, Server

\* The correlation.
LEMMA TypedCorStep ==
    ASSUME Inv, [Next]_vars
    PROVE  TypedCor'
  <1>0. /\ TypedTasks /\ TypedCoroutine /\ TypedCor /\ TypedServer /\ Placed
        /\ Asked /\ Known
    BY DEF Inv
  <1>1. /\ cor \in Correlations /\ 0 \in 0..MaxTasks
        /\ \A t \in Tasks : t \in 0..MaxTasks
    BY <1>0, Bounded DEF TypedCor, Tasks
  <1>2. ASSUME SendTurn
        PROVE  TypedCor'
    <2>1. holder \in Tasks /\ cor' = [cor EXCEPT !.starting = holder]
      BY <1>0, <1>2, HolderFacts DEF SendTurn
    <2> QED BY <1>1, <2>1 DEF TypedCor, Correlations
  <1>3. ASSUME SendCompact
        PROVE  TypedCor'
    <2> DEFINE more == cor.compactions \cup {holder}
    <2>1. holder \in Tasks
          /\ cor' = [cor EXCEPT !.starting = holder, !.compactions = more]
      BY <1>0, <1>1, <1>3, HolderFacts DEF SendCompact, Correlations
    <2>2. more \in SUBSET Tasks
      BY <1>1, <2>1 DEF Correlations
    <2> HIDE DEF more
    <2> QED BY <1>1, <2>1, <2>2 DEF TypedCor, Correlations
  <1>4. ASSUME TurnSent
        PROVE  TypedCor'
    BY <1>0, <1>4, TurnSentFacts DEF TypedCor
  <1>5. ASSUME TurnNotSent
        PROVE  TypedCor'
    <2>1. cor' = [cor EXCEPT !.starting = 0]
      BY <1>5 DEF TurnNotSent
    <2> QED BY <1>1, <2>1 DEF TypedCor, Correlations
  <1>6. ASSUME CompactBound
        PROVE  TypedCor'
    <2>1. cor' = [cor EXCEPT !.starting = 0]
      BY <1>6 DEF CompactBound
    <2> QED BY <1>1, <2>1 DEF TypedCor, Correlations
  <1>7. ASSUME CompactNotStarted
        PROVE  TypedCor'
    <2> DEFINE fewer == cor.compactions \ {holder}
    <2>1. cor' = [cor EXCEPT !.starting = 0, !.compactions = fewer]
      BY <1>1, <1>7 DEF CompactNotStarted, Correlations
    <2>2. fewer \in SUBSET Tasks
      BY <1>1 DEF Correlations
    <2> HIDE DEF fewer
    <2> QED BY <1>1, <2>1, <2>2 DEF TypedCor, Correlations
  <1>8. ASSUME Mapping
        PROVE  TypedCor'
    BY <1>0, <1>8, MappingMaps DEF Mapped, TypedCor
  <1>9. CASE EnsureStarted \/ StartFails \/ SendRefused \/ ReadEvent
            \/ ReadTerminal \/ AuditEnds \/ Answer \/ AnswerFails
            \/ CancelTurn \/ Interrupted \/ InterruptFails \/ GraceExpires
            \/ RunFails \/ LastInterrupt \/ CloseByTurn \/ RunEnds
            \/ CompactSent \/ CompactReads \/ CompactTimesOut \/ ReadResponse
            \/ RejectFrame
            \/ (\E t \in Tasks, k \in {"turn", "compact"} : NewTask(t, k))
            \/ (\E t \in Tasks : RequestCancel(t))
            \/ (\E x \in Context : InjectItems(x)) \/ Close \/ EndClose
            \/ Server \/ UNCHANGED vars
    <2>1. EnsureStarted \/ StartFails \/ SendRefused
          => UNCHANGED <<cor>>
      BY DEF EnsureStarted, Goto, StartFails, Fails, SendRefused
    <2>2. ReadEvent \/ ReadTerminal \/ AuditEnds
          => UNCHANGED <<cor>>
      BY DEF ReadEvent, TakeNext, Deliver, ReadTerminal, TurnEnds, AuditEnds
    <2>3. Answer \/ AnswerFails \/ CancelTurn
          => UNCHANGED <<cor>>
      BY DEF Answer, AnswerFails, CancelTurn, TakeNext, Interrupt
    <2>4. Interrupted \/ InterruptFails \/ GraceExpires
          => UNCHANGED <<cor>>
      BY DEF Interrupted, Deliver, InterruptFails, GraceExpires
    <2>5. RunFails \/ LastInterrupt \/ CloseByTurn
          => UNCHANGED <<cor>>
      BY DEF RunFails, LastInterrupt, CloseByTurn, BeginClose
    <2>6. RunEnds \/ CompactSent \/ CompactReads
          => UNCHANGED <<cor>>
      BY DEF RunEnds, CompactSent, CompactReads, TakeNext
    <2>7. CompactTimesOut \/ ReadResponse \/ RejectFrame
          => UNCHANGED <<cor>>
      BY DEF CompactTimesOut, ReadResponse, Consume, RejectFrame
    <2>8. \/ (\E t \in Tasks, k \in {"turn", "compact"} : NewTask(t, k))
          \/ (\E t \in Tasks : RequestCancel(t))
          \/ (\E x \in Context : InjectItems(x))
          => UNCHANGED <<cor>>
      BY DEF NewTask, Goto, RequestCancel, InjectItems
    <2>9. Close \/ EndClose
          => UNCHANGED <<cor>>
      BY DEF Close, BeginClose, EndClose
    <2>10. Server \/ UNCHANGED vars => UNCHANGED <<cor>>
      BY ServerFrame DEF vars
    <2>11. UNCHANGED <<cor>>
      BY <1>9, <2>1, <2>2, <2>3, <2>4, <2>5, <2>6, <2>7, <2>8, <2>9, <2>10
    <2> QED BY <1>0, <2>11 DEF TypedCor
  <1> QED
    BY <1>2, <1>3, <1>4, <1>5, <1>6, <1>7, <1>8, <1>9 DEF Next, Running,
       Deciding, Reader, Mapping, Embedder, Server

\* What was injected, carried, shown and owned.
LEMMA TypedSeenStep ==
    ASSUME Inv, [Next]_vars
    PROVE  TypedSeen'
  <1>0. /\ TypedTasks /\ TypedCoroutine /\ TypedOut /\ TypedServer /\ TypedSeen
        /\ Placed
    BY DEF Inv
  <1>1. queue # <<>> => Head(queue) \in Event
    BY <1>0, HeadTailProperties DEF TypedOut
  <1>2. ASSUME NEW e \in Event, Given(e)
        PROVE  last' \in [to : 0..MaxTasks, event : Event]
    BY <1>0, <1>2 DEF Given, TypedTasks
  <1>3. /\ held \in Event /\ last \in [to : 0..MaxTasks, event : Event]
        /\ [held EXCEPT !.type = "failed"] \in Event
    <2>1. held \in Event /\ "failed" \in EventTypes
      BY <1>0 DEF TypedCoroutine, EventTypes, TerminalEvents
    <2> QED BY <1>0, <2>1 DEF Event, TypedSeen
  <1>4. ASSUME SendTurn
        PROVE  TypedSeen'
    <2>1. /\ UNCHANGED <<injected, last, owner, late>>
          /\ carried' = [x \in Context |->
                           carried[x] \cup IF x \in pending THEN {holder} ELSE {}]
      BY <1>4 DEF SendTurn
    <2>2. holder \in Tasks
      BY <1>0, <1>4, HolderFacts DEF SendTurn
    <2>3. carried' \in [Context -> SUBSET Tasks]
      BY <1>0, <2>1, <2>2 DEF TypedSeen
    <2> QED BY <1>0, <2>1, <2>3 DEF TypedSeen
  <1>5. ASSUME ReadEvent
        PROVE  TypedSeen'
    <2>1. queue # <<>> /\ Deliver(Head(queue))
          /\ UNCHANGED <<injected, carried, owner, late>>
      BY <1>5 DEF ReadEvent
    <2>2. Given(Head(queue)) \/ last' = last
      BY <2>1, DeliverFacts
    <2>3. last' \in [to : 0..MaxTasks, event : Event]
      BY <1>1, <1>2, <1>3, <2>1, <2>2
    <2> QED BY <1>0, <2>1, <2>3 DEF TypedSeen
  <1>6. ASSUME ReadTerminal
        PROVE  TypedSeen'
    <2>1. UNCHANGED <<injected, carried, owner, late>>
      BY <1>6 DEF ReadTerminal
    <2>2. queue # <<>> /\ (Given(Head(queue)) \/ last' = last)
      BY <1>0, <1>6, GivingUp
    <2>3. last' \in [to : 0..MaxTasks, event : Event]
      BY <1>1, <1>2, <1>3, <2>2
    <2> QED BY <1>0, <2>1, <2>3 DEF TypedSeen
  <1>7. ASSUME AuditEnds
        PROVE  TypedSeen'
    <2>1. UNCHANGED <<injected, carried, owner, late>>
      BY <1>7 DEF AuditEnds
    <2>2. \/ Given(held) \/ Given([held EXCEPT !.type = "failed"])
          \/ last' = last
      BY <1>0, <1>7, GivingUp
    <2>3. last' \in [to : 0..MaxTasks, event : Event]
      BY <1>2, <1>3, <2>2
    <2> QED BY <1>0, <2>1, <2>3 DEF TypedSeen
  <1>8. ASSUME Interrupted
        PROVE  TypedSeen'
    <2>1. UNCHANGED <<injected, carried, owner, late>>
      BY <1>8 DEF Interrupted
    <2>2. Given(held) \/ last' = last
      BY <1>8, DeliverFacts DEF Interrupted
    <2>3. last' \in [to : 0..MaxTasks, event : Event]
      BY <1>2, <1>3, <2>2
    <2> QED BY <1>0, <2>1, <2>3 DEF TypedSeen
  <1>9. ASSUME CompactNotStarted
        PROVE  TypedSeen'
    <2>1. UNCHANGED <<injected, carried, last, owner>> /\ late' \in {late, TRUE}
      BY <1>9 DEF CompactNotStarted
    <2> QED BY <1>0, <2>1 DEF TypedSeen
  <1>10. ASSUME CompactReads
        PROVE  TypedSeen'
    <2>1. UNCHANGED <<injected, carried, owner, late>>
      BY <1>10 DEF CompactReads
    <2>2. queue # <<>> /\ (Given(Head(queue)) \/ last' = last)
      BY <1>0, <1>10, GivingUp
    <2>3. last' \in [to : 0..MaxTasks, event : Event]
      BY <1>1, <1>2, <1>3, <2>2
    <2> QED BY <1>0, <2>1, <2>3 DEF TypedSeen
  <1>11. ASSUME NEW x \in Context, InjectItems(x)
        PROVE  TypedSeen'
    BY <1>0, <1>11 DEF TypedSeen, InjectItems, seen
  <1>12. ASSUME ServerOpens
        PROVE  TypedSeen'
    <2>1. /\ UNCHANGED <<injected, carried, last, late>> /\ toServer # <<>>
          /\ owner' = [owner EXCEPT ![srv.next] = req.t]
      BY <1>12 DEF ServerOpens, ServerRest
    <2>2. req.t \in 0..MaxTasks
      BY <1>0, <2>1, HeadRequest, Bounded DEF Tasks
    <2>3. owner' \in [Natives -> 0..MaxTasks]
      BY <1>0, <2>1, <2>2 DEF TypedSeen
    <2> QED BY <1>0, <2>1, <2>3 DEF TypedSeen
  <1>13. ASSUME ServerReplaces
        PROVE  TypedSeen'
    <2>1. /\ UNCHANGED <<injected, carried, last, late>> /\ srv.nat # 0
          /\ owner' = [owner EXCEPT ![srv.next] = owner[srv.nat]]
      BY <1>13 DEF ServerReplaces, ServerRest
    <2>2. owner[srv.nat] \in 0..MaxTasks
      <3>1. srv.nat \in Natives
        BY <1>0, <2>1, Bounded DEF TypedServer, Servers, Natives
      <3> QED BY <1>0, <3>1 DEF TypedSeen
    <2>3. owner' \in [Natives -> 0..MaxTasks]
      BY <1>0, <2>1, <2>2 DEF TypedSeen
    <2> QED BY <1>0, <2>1, <2>3 DEF TypedSeen
  <1>14. CASE EnsureStarted \/ StartFails \/ SendCompact \/ SendRefused
            \/ TurnSent \/ TurnNotSent \/ Answer \/ AnswerFails \/ CancelTurn
            \/ InterruptFails \/ GraceExpires \/ RunFails \/ LastInterrupt
            \/ CloseByTurn \/ RunEnds \/ CompactSent \/ CompactBound
            \/ CompactTimesOut \/ ReadResponse \/ Mapping \/ RejectFrame
            \/ (\E t \in Tasks, k \in {"turn", "compact"} : NewTask(t, k))
            \/ (\E t \in Tasks : RequestCancel(t)) \/ Close \/ EndClose
            \/ ServerRefuses \/ ServerInterrupts \/ ServerAnswered
            \/ ServerWorks \/ ServerEnds \/ ServerExits \/ UNCHANGED vars
    <2>1. EnsureStarted \/ StartFails \/ SendCompact
          => UNCHANGED <<injected, carried, last, owner, late>>
      BY DEF EnsureStarted, Goto, StartFails, Fails, SendCompact, seen
    <2>2. SendRefused \/ TurnSent \/ TurnNotSent
          => UNCHANGED <<injected, carried, last, owner, late>>
      BY DEF SendRefused, Fails, Goto, TurnSent, TurnNotSent, seen
    <2>3. Answer \/ AnswerFails \/ CancelTurn
          => UNCHANGED <<injected, carried, last, owner, late>>
      BY DEF Answer, AnswerFails, CancelTurn, TakeNext, Interrupt, seen
    <2>4. InterruptFails \/ GraceExpires \/ RunFails
          => UNCHANGED <<injected, carried, last, owner, late>>
      BY DEF InterruptFails, GraceExpires, RunFails, seen
    <2>5. LastInterrupt \/ CloseByTurn \/ RunEnds
          => UNCHANGED <<injected, carried, last, owner, late>>
      BY DEF LastInterrupt, CloseByTurn, BeginClose, RunEnds, seen
    <2>6. CompactSent \/ CompactBound \/ CompactTimesOut
          => UNCHANGED <<injected, carried, last, owner, late>>
      BY DEF CompactSent, CompactBound, Goto, CompactTimesOut, seen
    <2>7. \/ ReadResponse \/ RejectFrame
          \/ (\E t \in Tasks, k \in {"turn", "compact"} : NewTask(t, k))
          => UNCHANGED <<injected, carried, last, owner, late>>
      BY DEF ReadResponse, Consume, RejectFrame, NewTask, Goto, seen
    <2>8. (\E t \in Tasks : RequestCancel(t)) \/ Close \/ EndClose
          => UNCHANGED <<injected, carried, last, owner, late>>
      BY DEF RequestCancel, Close, BeginClose, EndClose, seen
    <2>9. ServerRefuses
          => UNCHANGED <<injected, carried, last, owner, late>>
      BY DEF ServerRefuses, ServerRest, seen
    <2>10. ServerInterrupts
          => UNCHANGED <<injected, carried, last, owner, late>>
      BY DEF ServerInterrupts, ServerRest, seen
    <2>11. ServerAnswered
          => UNCHANGED <<injected, carried, last, owner, late>>
      BY DEF ServerAnswered, ServerRest, seen
    <2>12. ServerWorks
          => UNCHANGED <<injected, carried, last, owner, late>>
      BY DEF ServerWorks, ServerRest, seen
    <2>13. ServerEnds
          => UNCHANGED <<injected, carried, last, owner, late>>
      BY DEF ServerEnds, ServerRest, seen
    <2>14. ServerExits
          => UNCHANGED <<injected, carried, last, owner, late>>
      BY DEF ServerExits, ServerRest, seen
    <2>15. Mapping \/ UNCHANGED vars
           => UNCHANGED <<injected, carried, last, owner, late>>
      BY MappingRest DEF vars, seen
    <2>16. UNCHANGED <<injected, carried, last, owner, late>>
      BY <1>14, <2>1, <2>2, <2>3, <2>4, <2>5, <2>6, <2>7, <2>8, <2>9, <2>10,
         <2>11, <2>12, <2>13, <2>14, <2>15
    <2> QED BY <1>0, <2>16 DEF TypedSeen
  <1> QED
    BY <1>4, <1>5, <1>6, <1>7, <1>8, <1>9, <1>10, <1>11, <1>12, <1>13, <1>14
       DEF Next, Running, Deciding, Reader, Mapping, Embedder, Server

\* The pipes and the app-server.
LEMMA TypedServerStep ==
    ASSUME Inv, [Next]_vars
    PROVE  TypedServer'
  <1>0. /\ TypedTasks /\ TypedCoroutine /\ TypedOut /\ TypedCor /\ TypedServer
        /\ Placed /\ Working
    BY DEF Inv
  <1>1. /\ toServer \in Seq(Requests) /\ fromServer \in Seq(Frames) /\ srv \in Servers
        /\ 0 \in 0..MaxNatives
        /\ srv.nat # 0 => srv.nat \in Natives
        /\ srv.next <= MaxNatives => srv.next \in Natives /\ srv.next + 1 \in 1..(MaxNatives + 1)
    <2>1. toServer \in Seq(Requests) /\ fromServer \in Seq(Frames) /\ srv \in Servers
      BY <1>0 DEF TypedServer
    <2> QED BY <2>1, Bounded DEF Servers, Natives
  <1>2. ASSUME NEW f \in Frames, Tell(<<f>>)
        PROVE  fromServer' \in Seq(Frames)
    <2>1. <<f>> \in Seq(Frames)
      OBVIOUS
    <2> QED BY <1>1, <1>2, <2>1, ConcatProperties DEF Tell
  <1>3. ASSUME NEW q \in Requests, toServer' = Append(toServer, q)
        PROVE  toServer' \in Seq(Requests)
    BY <1>1, <1>3, AppendProperties
  <1>4. \A t \in Tasks :
           /\ [op |-> "turn", t |-> t, nat |-> 0] \in Requests
           /\ [op |-> "compact", t |-> t, nat |-> 0] \in Requests
           /\ \A n \in Natives :
                 /\ [op |-> "interrupt", t |-> t, nat |-> n] \in Requests
                 /\ [op |-> "answer", t |-> t, nat |-> n] \in Requests
    BY DEF Requests
  <1>5. <<>> \in Seq(Requests) /\ <<>> \in Seq(Frames)
    OBVIOUS
  <1>6. ASSUME EnsureStarted
        PROVE  TypedServer'
    <2>1. UNCHANGED <<toServer, fromServer>>
          /\ srv' \in {srv, [srv EXCEPT !.up = TRUE]}
      BY <1>6 DEF EnsureStarted
    <2>2. srv' \in Servers
      BY <1>1, <2>1 DEF Servers
    <2> QED BY <1>1, <2>1, <2>2 DEF TypedServer
  <1>7. ASSUME SendTurn
        PROVE  TypedServer'
    <2>1. /\ toServer' = Append(toServer, [op |-> "turn", t |-> holder, nat |-> 0])
          /\ UNCHANGED <<fromServer, srv>>
      BY <1>7 DEF SendTurn, Send
    <2>2. holder \in Tasks
      BY <1>0, <1>7, HolderFacts DEF SendTurn
    <2>3. toServer' \in Seq(Requests)
      BY <1>3, <1>4, <2>1, <2>2
    <2> QED BY <1>1, <2>1, <2>3 DEF TypedServer
  <1>8. ASSUME SendCompact
        PROVE  TypedServer'
    <2>1. /\ toServer' = Append(toServer, [op |-> "compact", t |-> holder, nat |-> 0])
          /\ UNCHANGED <<fromServer, srv>>
      BY <1>8 DEF SendCompact, Send
    <2>2. holder \in Tasks
      BY <1>0, <1>8, HolderFacts DEF SendCompact
    <2>3. toServer' \in Seq(Requests)
      BY <1>3, <1>4, <2>1, <2>2
    <2> QED BY <1>1, <2>1, <2>3 DEF TypedServer
  <1>9. ASSUME Answer
        PROVE  TypedServer'
    <2>1. /\ toServer' = Append(toServer,
                [op |-> "answer", t |-> holder, nat |-> held.nat])
          /\ UNCHANGED <<fromServer, srv>> /\ held.nat \in asks
      BY <1>9 DEF Answer
    <2>2. holder \in Tasks /\ held.nat \in Natives
      BY <1>0, <1>9, <2>1, HolderFacts DEF Answer, TypedOut
    <2>3. toServer' \in Seq(Requests)
      BY <1>3, <1>4, <2>1, <2>2
    <2> QED BY <1>1, <2>1, <2>3 DEF TypedServer
  <1>10. ASSUME CancelTurn
        PROVE  TypedServer'
    <2>1. /\ \/ toServer' = toServer
             \/ /\ CanInterrupt
                /\ toServer' = Append(toServer,
                     [op |-> "interrupt", t |-> holder, nat |-> cor.native[holder]])
          /\ UNCHANGED <<fromServer, srv>>
      BY <1>10 DEF CancelTurn, Interrupt, Send
    <2>2. holder \in Tasks
      BY <1>0, <1>10, HolderFacts DEF CancelTurn
    <2>3. CanInterrupt => cor.native[holder] \in Natives
      BY <1>0, <2>2, Bounded DEF CanInterrupt, TypedCor, Correlations, Natives
    <2>4. toServer' \in Seq(Requests)
      BY <1>1, <1>3, <1>4, <2>1, <2>2, <2>3
    <2> QED BY <1>1, <2>1, <2>4 DEF TypedServer
  <1>11. ASSUME RunFails
        PROVE  TypedServer'
    <2>1. /\ \/ toServer' = toServer
             \/ /\ CanInterrupt
                /\ toServer' = Append(toServer,
                     [op |-> "interrupt", t |-> holder, nat |-> cor.native[holder]])
          /\ UNCHANGED <<fromServer, srv>>
      BY <1>11 DEF RunFails, Send
    <2>2. holder \in Tasks
      BY <1>0, <1>11, HolderFacts DEF RunFails
    <2>3. CanInterrupt => cor.native[holder] \in Natives
      BY <1>0, <2>2, Bounded DEF CanInterrupt, TypedCor, Correlations, Natives
    <2>4. toServer' \in Seq(Requests)
      BY <1>1, <1>3, <1>4, <2>1, <2>2, <2>3
    <2> QED BY <1>1, <2>1, <2>4 DEF TypedServer
  <1>12. ASSUME ReadResponse
        PROVE  TypedServer'
    <2>1. fromServer # <<>> /\ fromServer' = Tail(fromServer)
          /\ UNCHANGED <<toServer, srv>>
      BY <1>12 DEF ReadResponse, Arrived, Consume
    <2> QED BY <1>0, <1>1, <2>1, HeadFrame DEF TypedServer
  <1>13. ASSUME Mapping
        PROVE  TypedServer'
    <2>1. fromServer # <<>> /\ fromServer' = Tail(fromServer)
          /\ UNCHANGED <<toServer, srv>>
      BY <1>0, <1>13, MappingFrame
    <2> QED BY <1>0, <1>1, <2>1, HeadFrame DEF TypedServer
  <1>14. ASSUME RejectFrame
        PROVE  TypedServer'
    <2>1. /\ fromServer # <<>>
          /\ \/ fromServer' = Tail(fromServer) /\ UNCHANGED <<toServer, srv>>
             \/ fromServer' = <<>> /\ toServer' = <<>> /\ srv' = [srv EXCEPT !.up = FALSE]
      BY <1>14 DEF RejectFrame, Consume
    <2>2. [srv EXCEPT !.up = FALSE] \in Servers
      BY <1>1 DEF Servers
    <2>3. Tail(fromServer) \in Seq(Frames)
      BY <1>0, <2>1, HeadFrame
    <2> QED BY <1>1, <1>5, <2>1, <2>2, <2>3 DEF TypedServer
  <1>15. ASSUME EndClose
        PROVE  TypedServer'
    <2>1. fromServer' = <<>> /\ toServer' = <<>> /\ srv' = [srv EXCEPT !.up = FALSE]
      BY <1>15 DEF EndClose
    <2>2. [srv EXCEPT !.up = FALSE] \in Servers
      BY <1>1 DEF Servers
    <2> QED BY <1>5, <2>1, <2>2 DEF TypedServer
  <1>16. ASSUME ServerOpens
        PROVE  TypedServer'
    <2>1. /\ toServer # <<>> /\ toServer' = Tail(toServer) /\ srv.next <= MaxNatives
          /\ req.op \in {"turn", "compact"}
          /\ srv' = [srv EXCEPT !.nat = srv.next, !.next = srv.next + 1, !.kind = req.op,
                               !.items = 0, !.asking = FALSE, !.stop = FALSE]
      BY <1>1, <1>16 DEF ServerOpens, Servers
    <2>2. req.t \in Tasks /\ Tail(toServer) \in Seq(Requests)
      BY <1>0, <2>1, HeadRequest
    <2>3. srv.next \in Natives /\ srv.next \in 0..MaxNatives
      BY <1>1, <2>1, Bounded DEF Natives
    <2>4. srv' \in Servers
      BY <1>1, <2>1, <2>3 DEF Servers
    <2>5. /\ Frm("ok", req.op, req.t, srv.next) \in Frames
          /\ Frm("started", req.op, 0, srv.next) \in Frames
      BY <2>1, <2>2, <2>3, FrameFacts DEF Ops
    <2>6. fromServer' \in Seq(Frames)
      <3> DEFINE okay == Frm("ok", req.op, req.t, srv.next)
                 begun == Frm("started", req.op, 0, srv.next)
      <3>1. Tell(<<okay, begun>>) \/ Tell(<<begun, okay>>)
        BY <1>16 DEF ServerOpens
      <3>2. okay \in Frames /\ begun \in Frames
        BY <2>5
      <3> HIDE DEF okay, begun
      <3>3. <<okay, begun>> \in Seq(Frames) /\ <<begun, okay>> \in Seq(Frames)
        BY <3>2
      <3> QED BY <1>1, <3>1, <3>3, ConcatProperties DEF Tell
    <2> QED BY <2>1, <2>2, <2>4, <2>6 DEF TypedServer
  <1>17. ASSUME ServerRefuses
        PROVE  TypedServer'
    <2>1. /\ toServer # <<>> /\ toServer' = Tail(toServer) /\ req.op # "answer"
          /\ srv' = srv /\ Tell(<<Frm("refused", req.op, req.t, 0)>>)
      BY <1>17 DEF ServerRefuses
    <2>2. req \in Requests /\ Tail(toServer) \in Seq(Requests)
      BY <1>0, <2>1, HeadRequest
    <2>3. req.t \in Tasks /\ req.op \in Ops
      BY <2>1, <2>2 DEF Requests, Ops
    <2>4. fromServer' \in Seq(Frames)
      BY <1>2, <2>1, <2>3, FrameFacts
    <2> QED BY <1>1, <2>1, <2>2, <2>4 DEF TypedServer
  <1>18. ASSUME ServerInterrupts
        PROVE  TypedServer'
    <2>1. /\ toServer # <<>> /\ toServer' = Tail(toServer) /\ req.op = "interrupt"
          /\ Tell(<<Frm("ok", req.op, req.t, 0)>>)
          /\ srv' = [srv EXCEPT !.stop = TRUE, !.asking = FALSE]
      BY <1>18 DEF ServerInterrupts
    <2>2. req.t \in Tasks /\ Tail(toServer) \in Seq(Requests)
      BY <1>0, <2>1, HeadRequest
    <2>3. fromServer' \in Seq(Frames)
      BY <1>2, <2>1, <2>2, FrameFacts
    <2>4. srv' \in Servers
      BY <1>1, <2>1 DEF Servers
    <2> QED BY <2>1, <2>2, <2>3, <2>4 DEF TypedServer
  <1>19. ASSUME ServerAnswered
        PROVE  TypedServer'
    <2>1. /\ toServer # <<>> /\ toServer' = Tail(toServer) /\ fromServer' = fromServer
          /\ srv' = [srv EXCEPT !.asking = srv.asking /\ srv.nat # req.nat]
      BY <1>1, <1>19 DEF ServerAnswered, Servers
    <2>2. Tail(toServer) \in Seq(Requests)
      BY <1>0, <2>1, HeadRequest
    <2>3. (srv.asking /\ srv.nat # req.nat) \in BOOLEAN
      OBVIOUS
    <2>4. srv' \in Servers
      BY <1>1, <2>1, <2>3 DEF Servers
    <2> QED BY <1>1, <2>1, <2>2, <2>4 DEF TypedServer
  <1>20. ASSUME ServerWorks
        PROVE  TypedServer'
    <2>1. PICK f \in {"item", "ask", "compacted"} :
            /\ srv' = [srv EXCEPT !.items = srv.items + 1, !.asking = (f = "ask")]
            /\ Tell(<<Frm(f, srv.kind, 0, srv.nat)>>)
      BY <1>1, <1>20 DEF ServerWorks, Servers
    <2>2. srv.nat # 0 /\ toServer' = toServer
      BY <1>20 DEF ServerWorks
    <2>3. (f = "ask") \in BOOLEAN /\ srv.items + 1 \in Nat
      BY <1>1 DEF Servers
    <2>4. srv' \in Servers
      BY <1>1, <2>1, <2>3 DEF Servers
    <2>5. srv.nat \in Natives /\ srv.kind \in Ops
      BY <1>0, <1>1, <2>2 DEF Working, Ops
    <2>6. Frm(f, srv.kind, 0, srv.nat) \in Frames
      BY <2>5, FrameFacts
    <2>7. fromServer' \in Seq(Frames)
      BY <1>2, <2>1, <2>6
    <2> QED BY <1>1, <2>2, <2>4, <2>7 DEF TypedServer
  <1>21. ASSUME ServerReplaces
        PROVE  TypedServer'
    <2>1. /\ toServer' = toServer /\ srv.next <= MaxNatives
          /\ srv' = [srv EXCEPT !.nat = srv.next, !.next = srv.next + 1]
          /\ Tell(<<Frm("started", "turn", 0, srv.next)>>)
      BY <1>1, <1>21 DEF ServerReplaces, Servers
    <2>3. srv.next \in Natives /\ srv.next \in 0..MaxNatives
      BY <1>1, <2>1, Bounded DEF Natives
    <2>4. srv' \in Servers
      BY <1>1, <2>1, <2>3 DEF Servers
    <2>5. Frm("started", "turn", 0, srv.next) \in Frames
      BY <2>3, FrameFacts DEF Ops
    <2> QED BY <1>1, <1>2, <2>1, <2>4, <2>5 DEF TypedServer
  <1>22. ASSUME ServerEnds
        PROVE  TypedServer'
    <2>1. PICK f \in TerminalEvents : Tell(<<Frm(f, srv.kind, 0, srv.nat)>>)
      BY <1>22 DEF ServerEnds
    <2>2. /\ srv.nat # 0 /\ toServer' = toServer
          /\ srv' = [srv EXCEPT !.nat = 0, !.asking = FALSE, !.stop = FALSE]
      BY <1>22 DEF ServerEnds
    <2>3. srv' \in Servers
      BY <1>1, <2>2 DEF Servers
    <2>4. srv.nat \in Natives /\ srv.kind \in Ops
      BY <1>0, <1>1, <2>2 DEF Working, Ops
    <2>5. Frm(f, srv.kind, 0, srv.nat) \in Frames
      BY <2>4, FrameFacts
    <2> QED BY <1>1, <1>2, <2>1, <2>2, <2>3, <2>5 DEF TypedServer
  <1>23. ASSUME ServerExits
        PROVE  TypedServer'
    <2>1. /\ toServer' = <<>> /\ srv' = [srv EXCEPT !.up = FALSE, !.nat = 0]
          /\ Tell(<<Frm("eof", "turn", 0, 0)>>)
      BY <1>23 DEF ServerExits
    <2>2. srv' \in Servers
      BY <1>1, <2>1 DEF Servers
    <2> QED BY <1>2, <1>5, <2>1, <2>2, FrameFacts DEF TypedServer
  <1>24. CASE StartFails \/ SendRefused \/ TurnSent \/ TurnNotSent
            \/ ReadEvent \/ ReadTerminal \/ AuditEnds \/ AnswerFails
            \/ Interrupted \/ InterruptFails \/ GraceExpires \/ LastInterrupt
            \/ CloseByTurn \/ RunEnds \/ CompactSent \/ CompactBound
            \/ CompactNotStarted \/ CompactReads \/ CompactTimesOut
            \/ (\E t \in Tasks, k \in {"turn", "compact"} : NewTask(t, k))
            \/ (\E t \in Tasks : RequestCancel(t))
            \/ (\E x \in Context : InjectItems(x)) \/ Close \/ UNCHANGED vars
    <2>1. StartFails \/ SendRefused \/ TurnSent
          => UNCHANGED <<toServer, fromServer, srv>>
      BY DEF StartFails, Fails, Goto, SendRefused, TurnSent, server
    <2>2. TurnNotSent \/ ReadEvent \/ ReadTerminal
          => UNCHANGED <<toServer, fromServer, srv>>
      BY DEF TurnNotSent, ReadEvent, TakeNext, Deliver, ReadTerminal, TurnEnds,
         server
    <2>3. AuditEnds \/ AnswerFails \/ Interrupted
          => UNCHANGED <<toServer, fromServer, srv>>
      BY DEF AuditEnds, TurnEnds, AnswerFails, Interrupted, Deliver, server
    <2>4. InterruptFails \/ GraceExpires \/ LastInterrupt
          => UNCHANGED <<toServer, fromServer, srv>>
      BY DEF InterruptFails, GraceExpires, LastInterrupt, server
    <2>5. CloseByTurn \/ RunEnds \/ CompactSent
          => UNCHANGED <<toServer, fromServer, srv>>
      BY DEF CloseByTurn, BeginClose, RunEnds, CompactSent, server
    <2>6. CompactBound \/ CompactNotStarted \/ CompactReads
          => UNCHANGED <<toServer, fromServer, srv>>
      BY DEF CompactBound, Goto, CompactNotStarted, CompactReads, TakeNext,
         server
    <2>7. \/ CompactTimesOut
          \/ (\E t \in Tasks, k \in {"turn", "compact"} : NewTask(t, k))
          \/ (\E t \in Tasks : RequestCancel(t))
          => UNCHANGED <<toServer, fromServer, srv>>
      BY DEF CompactTimesOut, NewTask, Goto, RequestCancel, server
    <2>8. (\E x \in Context : InjectItems(x)) \/ Close
          => UNCHANGED <<toServer, fromServer, srv>>
      BY DEF InjectItems, Close, BeginClose, server
    <2>9. UNCHANGED vars => UNCHANGED <<toServer, fromServer, srv>>
      BY DEF vars, server
    <2>10. UNCHANGED <<toServer, fromServer, srv>>
      BY <1>24, <2>1, <2>2, <2>3, <2>4, <2>5, <2>6, <2>7, <2>8, <2>9
    <2> QED BY <1>0, <2>10 DEF TypedServer
  <1> QED
    BY <1>6, <1>7, <1>8, <1>9, <1>10, <1>11, <1>12, <1>13, <1>14, <1>15, <1>16,
       <1>17, <1>18, <1>19, <1>20, <1>21, <1>22, <1>23, <1>24 DEF Next,
       Running, Deciding, Reader, Mapping, Embedder, Server

\* A native turn that is open is a turn or a compaction.
LEMMA WorkingStep ==
    ASSUME Inv, [Next]_vars
    PROVE  Working'
  <1>0. TypedServer /\ Working
    BY DEF Inv
  <1>1. srv \in Servers
    BY <1>0 DEF TypedServer
  <1>2. ASSUME EnsureStarted
        PROVE  Working'
    <2>1. srv'.nat = srv.nat /\ srv'.kind = srv.kind
      BY <1>1, <1>2 DEF EnsureStarted, Servers
    <2> QED BY <1>0, <2>1 DEF Working
  <1>3. ASSUME RejectFrame
        PROVE  Working'
    <2>1. srv'.nat = srv.nat /\ srv'.kind = srv.kind
      BY <1>1, <1>3 DEF RejectFrame, Servers, Consume
    <2> QED BY <1>0, <2>1 DEF Working
  <1>4. ASSUME EndClose
        PROVE  Working'
    <2>1. srv'.nat = srv.nat /\ srv'.kind = srv.kind
      BY <1>1, <1>4 DEF EndClose, Servers, Consume
    <2> QED BY <1>0, <2>1 DEF Working
  <1>5. ASSUME ServerOpens
        PROVE  Working'
    <2>1. srv'.kind = req.op /\ req.op \in {"turn", "compact"}
      BY <1>1, <1>5 DEF ServerOpens, Servers
    <2> QED BY <2>1 DEF Working
  <1>6. ASSUME ServerInterrupts
        PROVE  Working'
    <2>1. srv'.nat = srv.nat /\ srv'.kind = srv.kind
      BY <1>1, <1>6 DEF ServerInterrupts, Servers, Consume
    <2> QED BY <1>0, <2>1 DEF Working
  <1>7. ASSUME ServerAnswered
        PROVE  Working'
    <2>1. srv'.nat = srv.nat /\ srv'.kind = srv.kind
      BY <1>1, <1>7 DEF ServerAnswered, Servers, Consume
    <2> QED BY <1>0, <2>1 DEF Working
  <1>8. ASSUME ServerWorks
        PROVE  Working'
    <2>1. PICK f \in {"item", "ask", "compacted"} :
            srv' = [srv EXCEPT !.items = srv.items + 1, !.asking = (f = "ask")]
      BY <1>1, <1>8 DEF ServerWorks, Servers
    <2>2. srv'.nat = srv.nat /\ srv'.kind = srv.kind
      BY <1>1, <2>1 DEF Servers
    <2> QED BY <1>0, <2>2 DEF Working
  <1>9. ASSUME ServerReplaces
        PROVE  Working'
    <2>1. srv'.kind = srv.kind /\ srv.kind = "turn"
      BY <1>1, <1>9 DEF ServerReplaces, Servers
    <2> QED BY <2>1 DEF Working
  <1>10. ASSUME ServerEnds
        PROVE  Working'
    <2>1. srv'.nat = 0
      BY <1>1, <1>10 DEF ServerEnds, Servers
    <2> QED BY <2>1 DEF Working
  <1>11. ASSUME ServerExits
        PROVE  Working'
    <2>1. srv'.nat = 0
      BY <1>1, <1>11 DEF ServerExits, Servers
    <2> QED BY <2>1 DEF Working
  <1>12. CASE StartFails \/ SendTurn \/ SendCompact \/ SendRefused
            \/ TurnSent \/ TurnNotSent \/ ReadEvent \/ ReadTerminal
            \/ AuditEnds \/ Answer \/ AnswerFails \/ CancelTurn
            \/ Interrupted \/ InterruptFails \/ GraceExpires \/ RunFails
            \/ LastInterrupt \/ CloseByTurn \/ RunEnds \/ CompactSent
            \/ CompactBound \/ CompactNotStarted \/ CompactReads
            \/ CompactTimesOut \/ ReadResponse \/ Mapping
            \/ (\E t \in Tasks, k \in {"turn", "compact"} : NewTask(t, k))
            \/ (\E t \in Tasks : RequestCancel(t))
            \/ (\E x \in Context : InjectItems(x)) \/ Close \/ ServerRefuses
            \/ UNCHANGED vars
    <2>1. StartFails \/ SendTurn \/ SendCompact
          => UNCHANGED <<srv>>
      BY DEF StartFails, Fails, Goto, SendTurn, SendCompact, server
    <2>2. SendRefused \/ TurnSent \/ TurnNotSent
          => UNCHANGED <<srv>>
      BY DEF SendRefused, Fails, Goto, TurnSent, TurnNotSent, server
    <2>3. ReadEvent \/ ReadTerminal \/ AuditEnds
          => UNCHANGED <<srv>>
      BY DEF ReadEvent, TakeNext, Deliver, ReadTerminal, TurnEnds, AuditEnds,
         server
    <2>4. Answer \/ AnswerFails \/ CancelTurn
          => UNCHANGED <<srv>>
      BY DEF Answer, AnswerFails, CancelTurn, TakeNext, Interrupt, server
    <2>5. Interrupted \/ InterruptFails \/ GraceExpires
          => UNCHANGED <<srv>>
      BY DEF Interrupted, Deliver, InterruptFails, GraceExpires, server
    <2>6. RunFails \/ LastInterrupt \/ CloseByTurn
          => UNCHANGED <<srv>>
      BY DEF RunFails, LastInterrupt, CloseByTurn, BeginClose, server
    <2>7. RunEnds \/ CompactSent \/ CompactBound
          => UNCHANGED <<srv>>
      BY DEF RunEnds, CompactSent, CompactBound, Goto, server
    <2>8. CompactNotStarted \/ CompactReads \/ CompactTimesOut
          => UNCHANGED <<srv>>
      BY DEF CompactNotStarted, CompactReads, TakeNext, CompactTimesOut, server
    <2>9. \/ ReadResponse
          \/ (\E t \in Tasks, k \in {"turn", "compact"} : NewTask(t, k))
          \/ (\E t \in Tasks : RequestCancel(t))
          => UNCHANGED <<srv>>
      BY DEF ReadResponse, Consume, NewTask, Goto, RequestCancel, server
    <2>10. (\E x \in Context : InjectItems(x)) \/ Close \/ ServerRefuses
          => UNCHANGED <<srv>>
      BY DEF InjectItems, Close, BeginClose, ServerRefuses, ServerRest, server
    <2>11. Mapping \/ UNCHANGED vars => UNCHANGED <<srv>>
      BY MappingRest DEF vars, server
    <2>12. UNCHANGED <<srv>>
      BY <1>12, <2>1, <2>2, <2>3, <2>4, <2>5, <2>6, <2>7, <2>8, <2>9, <2>10,
         <2>11
    <2> QED BY <1>0, <2>12 DEF Working
  <1> QED
    BY <1>2, <1>3, <1>4, <1>5, <1>6, <1>7, <1>8, <1>9, <1>10, <1>11, <1>12 DEF
       Next, Running, Deciding, Reader, Mapping, Embedder, Server

\* Who has the lock, who waits for it, and who was shown what.
LEMMA PlacedStep ==
    ASSUME Inv, [Next]_vars
    PROVE  Placed'
  <1>0. TypedTasks /\ TypedCoroutine /\ TypedSeen /\ Placed
    BY DEF Inv
  <1>1. ASSUME GivesUp, pc # "idle", last'.to = last.to \/ last'.to = holder
        PROVE  Placed'
    <2>1. holder \in Tasks /\ LockPasses
      BY <1>0, <1>1, HolderFacts, Passing
    <2> USE <2>1 DEF LockPasses
    <2>2. /\ kind \in [Tasks -> {"none", "turn", "compact"}]
          /\ \A i \in DOMAIN waiting : waiting[i] \in Tasks
          /\ last.to \in 0..MaxTasks /\ \A t \in Tasks : t # 0
      <3>1. kind \in [Tasks -> {"none", "turn", "compact"}] /\ waiting \in Seq(Tasks)
        BY <1>0 DEF TypedTasks
      <3>2. \A i \in DOMAIN waiting : waiting[i] \in Tasks
        BY <3>1, ElementOfSeq, LenProperties
      <3>3. last.to \in 0..MaxTasks /\ \A t \in Tasks : t # 0
        BY <1>0 DEF TypedSeen, Tasks
      <3> QED BY <3>1, <3>2, <3>3
    <2>3. /\ (pc' = "idle") = (holder' = 0) /\ (holder' = 0 => waiting' = <<>>)
          /\ pc' \notin TurnPlaces /\ pc' \notin CompactPlaces
      BY <2>2 DEF TurnPlaces, CompactPlaces
    <2>4. \A i \in DOMAIN waiting : /\ result'[waiting[i]] = "none"
                                   /\ waiting[i] # last'.to
      BY <1>0, <1>1, <2>2 DEF Placed
    <2>5. holder' # 0 => kind'[holder'] # "none" /\ result'[holder'] = "none"
      BY <1>0, <2>4 DEF Placed
    <2>6. \A i \in DOMAIN waiting' :
            /\ kind'[waiting'[i]] # "none" /\ result'[waiting'[i]] = "none"
            /\ waiting'[i] # last'.to
      BY <1>0, <2>4 DEF Placed
    <2>7. \A i \in DOMAIN waiting' : waiting'[i] # holder'
      <3> SUFFICES ASSUME NEW i \in DOMAIN waiting' PROVE waiting'[i] # holder'
        OBVIOUS
      <3>1. i + 1 \in DOMAIN waiting /\ waiting'[i] = waiting[i + 1] /\ i + 1 # 1
        OBVIOUS
      <3>2. CASE holder' = 0
        BY <2>2, <3>1, <3>2
      <3>3. CASE holder' # 0
        BY <1>0, <3>1, <3>3 DEF Placed
      <3> QED BY <3>2, <3>3
    <2>8. \A i, j \in DOMAIN waiting' : waiting'[i] = waiting'[j] => i = j
      <3> SUFFICES ASSUME NEW i \in DOMAIN waiting', NEW j \in DOMAIN waiting',
                          waiting'[i] = waiting'[j]
                   PROVE  i = j
        OBVIOUS
      <3>1. i + 1 = j + 1
        BY <1>0 DEF Placed
      <3>2. i \in Int /\ j \in Int
        OBVIOUS
      <3> QED BY <3>1, <3>2
    <2>9. last'.to # 0 => kind'[last'.to] # "none"
      BY <1>0, <1>1 DEF Placed
    <2>10. holder' # 0 => last'.to # holder'
      BY <2>4
    <2>11. \A t \in Tasks : kind'[t] = "none" => result'[t] = "none"
      BY <1>0 DEF Placed
    <2> QED BY <2>3, <2>5, <2>6, <2>7, <2>8, <2>9, <2>10, <2>11 DEF Placed
  <1>2. ASSUME UNCHANGED tasks, pc # "idle", pc' # "idle",
               pc' \in TurnPlaces => kind[holder] = "turn",
               pc' \in CompactPlaces => kind[holder] = "compact",
               \/ last' = last /\ (pc' \in Unheard => pc \in Unheard)
               \/ last'.to = holder /\ pc' \notin Unheard
        PROVE  Placed'
    <2>1. holder \in Tasks /\ holder # 0
      BY <1>0, <1>2, HolderFacts DEF Tasks
    <2>2. UNCHANGED <<holder, waiting, kind, result>>
      BY <1>2 DEF tasks
    <2>3. /\ (pc' = "idle") = (holder' = 0) /\ (holder' = 0 => waiting' = <<>>)
          /\ kind'[holder'] # "none" /\ result'[holder'] = "none"
          /\ pc' \in TurnPlaces => kind'[holder'] = "turn"
          /\ pc' \in CompactPlaces => kind'[holder'] = "compact"
          /\ \A t \in Tasks : kind'[t] = "none" => result'[t] = "none"
      BY <1>0, <1>2, <2>1, <2>2 DEF Placed
    <2>4. /\ \A i \in DOMAIN waiting' :
              /\ kind'[waiting'[i]] # "none" /\ result'[waiting'[i]] = "none"
              /\ waiting'[i] # holder' /\ waiting'[i] # last'.to
              /\ \A j \in DOMAIN waiting' : waiting'[i] = waiting'[j] => i = j
      BY <1>0, <1>2, <2>2 DEF Placed
    <2>5. last'.to # 0 => kind'[last'.to] # "none"
      BY <1>0, <1>2, <2>1, <2>2 DEF Placed
    <2>6. pc' \in Unheard => last'.to # holder'
      BY <1>0, <1>2, <2>1, <2>2 DEF Placed
    <2> QED BY <2>3, <2>4, <2>5, <2>6 DEF Placed
  <1>3. ASSUME EnsureStarted
        PROVE  Placed'
    <2>1. /\ pc = "start" /\ pc' \in {"send"}
          /\ UNCHANGED tasks /\ last' = last
      BY <1>3 DEF EnsureStarted, Goto, seen
    <2> QED BY <1>2, <2>1 DEF TurnPlaces, CompactPlaces
  <1>4. ASSUME StartFails
        PROVE  Placed'
    <2>1. pc # "idle" /\ last' = last /\ (GivesUp \/ TurnCloses)
      BY <1>0, <1>4, GivingUp DEF StartFails, seen
    <2> QED BY <1>1, <1>2, <2>1 DEF TurnCloses, TurnPlaces, CompactPlaces
  <1>5. ASSUME SendTurn
        PROVE  Placed'
    <2>1. /\ pc = "send" /\ pc' \in {"starting"}
          /\ UNCHANGED tasks /\ last' = last
      BY <1>5 DEF SendTurn, Send, Goto, seen
    <2>2. kind[holder] = "turn"
      BY <1>5 DEF SendTurn
    <2> QED BY <1>2, <2>1, <2>2 DEF TurnPlaces, CompactPlaces
  <1>6. ASSUME SendCompact
        PROVE  Placed'
    <2>1. /\ pc = "send" /\ pc' \in {"compacting"}
          /\ UNCHANGED tasks /\ last' = last
      BY <1>6 DEF SendCompact, Send, Goto, seen
    <2>2. kind[holder] = "compact"
      BY <1>6 DEF SendCompact
    <2> QED BY <1>2, <2>1, <2>2 DEF TurnPlaces, CompactPlaces
  <1>7. ASSUME SendRefused
        PROVE  Placed'
    <2>1. pc # "idle" /\ last' = last /\ (GivesUp \/ TurnCloses)
      BY <1>0, <1>7, GivingUp DEF SendRefused, seen
    <2> QED BY <1>1, <1>2, <2>1 DEF TurnCloses, TurnPlaces, CompactPlaces
  <1>8. ASSUME TurnSent
        PROVE  Placed'
    <2>1. /\ pc = "starting" /\ pc' \in {"read", "closing"}
          /\ UNCHANGED tasks /\ last' = last
      BY <1>8 DEF TurnSent, Emit, seen
    <2>2. kind[holder] = "turn"
      BY <1>0, <2>1, HolderFacts DEF TurnPlaces, CompactPlaces
    <2> QED BY <1>2, <2>1, <2>2 DEF TurnPlaces, CompactPlaces
  <1>9. ASSUME TurnNotSent
        PROVE  Placed'
    <2>1. /\ pc = "starting" /\ pc' \in {"closing"}
          /\ UNCHANGED tasks /\ last' = last
      BY <1>9 DEF TurnNotSent, seen
    <2>2. kind[holder] = "turn"
      BY <1>0, <2>1, HolderFacts DEF TurnPlaces, CompactPlaces
    <2> QED BY <1>2, <2>1, <2>2 DEF TurnPlaces, CompactPlaces
  <1>10. ASSUME ReadEvent
        PROVE  Placed'
    <2>1. pc \in {"read", "interrupting"} /\ UNCHANGED tasks
      BY <1>10 DEF ReadEvent, tasks
    <2>2. kind[holder] = "turn"
      BY <1>0, <2>1, HolderFacts DEF TurnPlaces
    <2>3. /\ pc' \in {"asking", "read", "failing"}
          /\ last'.to = holder \/ last' = last
      BY <1>10, DeliverFacts DEF ReadEvent, Given
    <2> QED BY <1>2, <2>1, <2>2, <2>3 DEF TurnPlaces, CompactPlaces
  <1>11. ASSUME ReadTerminal
        PROVE  Placed'
    <2>1. pc = "read"
      BY <1>11 DEF ReadTerminal
    <2>2. kind[holder] = "turn"
      BY <1>0, <2>1, HolderFacts DEF TurnPlaces
    <2>3. \/ GivesUp /\ last'.to = holder
          \/ /\ pc' \in {"failing", "auditing"} /\ UNCHANGED tasks /\ last' = last
      BY <1>0, <1>11, GivingUp DEF Given
    <2> QED BY <1>1, <1>2, <2>1, <2>2, <2>3 DEF TurnPlaces, CompactPlaces
  <1>12. ASSUME AuditEnds
        PROVE  Placed'
    <2>1. pc = "auditing"
      BY <1>12 DEF AuditEnds
    <2>2. kind[holder] = "turn"
      BY <1>0, <2>1, HolderFacts DEF TurnPlaces
    <2>3. \/ GivesUp /\ last'.to = holder
          \/ /\ pc' = "failing" /\ UNCHANGED tasks /\ last' = last
      BY <1>0, <1>12, GivingUp DEF Given
    <2> QED BY <1>1, <1>2, <2>1, <2>2, <2>3 DEF TurnPlaces, CompactPlaces
  <1>13. ASSUME Answer
        PROVE  Placed'
    <2>1. /\ pc = "asking" /\ pc' \in {"read"}
          /\ UNCHANGED tasks /\ last' = last
      BY <1>13 DEF Answer, Emit, seen
    <2>2. kind[holder] = "turn"
      BY <1>0, <2>1, HolderFacts DEF TurnPlaces, CompactPlaces
    <2> QED BY <1>2, <2>1, <2>2 DEF TurnPlaces, CompactPlaces
  <1>14. ASSUME AnswerFails
        PROVE  Placed'
    <2>1. /\ pc = "asking" /\ pc' \in {"failing"}
          /\ UNCHANGED tasks /\ last' = last
      BY <1>14 DEF AnswerFails, seen
    <2>2. kind[holder] = "turn"
      BY <1>0, <2>1, HolderFacts DEF TurnPlaces, CompactPlaces
    <2> QED BY <1>2, <2>1, <2>2 DEF TurnPlaces, CompactPlaces
  <1>15. ASSUME CancelTurn
        PROVE  Placed'
    <2>1. /\ pc \in {"read", "auditing"} /\ pc' \in {"interrupting", "failing"}
          /\ UNCHANGED tasks /\ last' = last
      BY <1>15 DEF CancelTurn, TakeNext, Interrupt, Send, seen
    <2>2. kind[holder] = "turn"
      BY <1>0, <2>1, HolderFacts DEF TurnPlaces, CompactPlaces
    <2> QED BY <1>2, <2>1, <2>2 DEF TurnPlaces, CompactPlaces
  <1>16. ASSUME Interrupted
        PROVE  Placed'
    <2>1. pc \in {"read", "interrupting"} /\ UNCHANGED tasks
      BY <1>16 DEF Interrupted, tasks
    <2>2. kind[holder] = "turn"
      BY <1>0, <2>1, HolderFacts DEF TurnPlaces
    <2>3. /\ pc' \in {"asking", "read", "failing"}
          /\ last'.to = holder \/ last' = last
      BY <1>16, DeliverFacts DEF Interrupted, Given
    <2> QED BY <1>2, <2>1, <2>2, <2>3 DEF TurnPlaces, CompactPlaces
  <1>17. ASSUME InterruptFails
        PROVE  Placed'
    <2>1. /\ pc = "interrupting" /\ pc' \in {"failing"}
          /\ UNCHANGED tasks /\ last' = last
      BY <1>17 DEF InterruptFails, seen
    <2>2. kind[holder] = "turn"
      BY <1>0, <2>1, HolderFacts DEF TurnPlaces, CompactPlaces
    <2> QED BY <1>2, <2>1, <2>2 DEF TurnPlaces, CompactPlaces
  <1>18. ASSUME GraceExpires
        PROVE  Placed'
    <2>1. /\ pc \in {"interrupting", "read", "auditing"} /\ pc' \in {"expiring"}
          /\ UNCHANGED tasks /\ last' = last
      BY <1>18 DEF GraceExpires, seen
    <2>2. kind[holder] = "turn"
      BY <1>0, <2>1, HolderFacts DEF TurnPlaces, CompactPlaces
    <2> QED BY <1>2, <2>1, <2>2 DEF TurnPlaces, CompactPlaces
  <1>19. ASSUME RunFails
        PROVE  Placed'
    <2>1. /\ pc = "failing" /\ pc' \in {"last_interrupt", "closing"}
          /\ UNCHANGED tasks /\ last' = last
      BY <1>19 DEF RunFails, Send, seen
    <2>2. kind[holder] = "turn"
      BY <1>0, <2>1, HolderFacts DEF TurnPlaces, CompactPlaces
    <2> QED BY <1>2, <2>1, <2>2 DEF TurnPlaces, CompactPlaces
  <1>20. ASSUME LastInterrupt
        PROVE  Placed'
    <2>1. /\ pc = "last_interrupt" /\ pc' \in {"closing"}
          /\ UNCHANGED tasks /\ last' = last
      BY <1>20 DEF LastInterrupt, seen
    <2>2. kind[holder] = "turn"
      BY <1>0, <2>1, HolderFacts DEF TurnPlaces, CompactPlaces
    <2> QED BY <1>2, <2>1, <2>2 DEF TurnPlaces, CompactPlaces
  <1>21. ASSUME RunEnds
        PROVE  Placed'
    <2>1. pc # "idle" /\ last' = last /\ GivesUp
      BY <1>0, <1>21, GivingUp DEF RunEnds, seen
    <2> QED BY <1>1, <2>1
  <1>22. ASSUME CompactSent
        PROVE  Placed'
    <2>1. /\ pc = "compacting" /\ pc' \in {"binding"}
          /\ UNCHANGED tasks /\ last' = last
      BY <1>22 DEF CompactSent, seen
    <2>2. kind[holder] = "compact"
      BY <1>0, <2>1, HolderFacts DEF TurnPlaces, CompactPlaces
    <2> QED BY <1>2, <2>1, <2>2 DEF TurnPlaces, CompactPlaces
  <1>23. ASSUME CompactBound
        PROVE  Placed'
    <2>1. /\ pc = "binding" /\ pc' \in {"compact_read"}
          /\ UNCHANGED tasks /\ last' = last
      BY <1>23 DEF CompactBound, Goto, seen
    <2>2. kind[holder] = "compact"
      BY <1>0, <2>1, HolderFacts DEF TurnPlaces, CompactPlaces
    <2> QED BY <1>2, <2>1, <2>2 DEF TurnPlaces, CompactPlaces
  <1>24. ASSUME CompactNotStarted
        PROVE  Placed'
    <2>1. pc # "idle" /\ last' = last /\ GivesUp
      BY <1>0, <1>24, GivingUp DEF CompactNotStarted, seen
    <2> QED BY <1>1, <2>1
  <1>25. ASSUME CompactReads
        PROVE  Placed'
    <2>1. pc = "compact_read"
      BY <1>25 DEF CompactReads
    <2>2. kind[holder] = "compact"
      BY <1>0, <2>1, HolderFacts DEF CompactPlaces, TurnPlaces
    <2>3. \/ GivesUp /\ (last'.to = holder \/ last' = last)
          \/ pc' = pc /\ UNCHANGED tasks /\ last'.to = holder
      BY <1>0, <1>25, GivingUp DEF Given, coroutine
    <2> QED BY <1>1, <1>2, <2>1, <2>2, <2>3 DEF TurnPlaces, CompactPlaces
  <1>26. ASSUME CompactTimesOut
        PROVE  Placed'
    <2>1. pc # "idle" /\ last' = last /\ GivesUp
      BY <1>0, <1>26, GivingUp DEF CompactTimesOut, seen
    <2> QED BY <1>1, <2>1
  <1>27. ASSUME NEW t \in Tasks, NEW k \in {"turn", "compact"}, NewTask(t, k)
        PROVE  Placed'
    <2>1. /\ kind[t] = "none" /\ kind' = [kind EXCEPT ![t] = k]
          /\ result' = result /\ last' = last
      BY <1>27 DEF NewTask, seen
    <2>2. /\ \A u \in Tasks : u # t => kind'[u] = kind[u]
          /\ kind'[t] = k /\ t \in Int /\ t # 0
          /\ \A i \in DOMAIN waiting : waiting[i] \in Tasks /\ waiting[i] # t
          /\ holder # 0 => holder \in Tasks /\ holder # t
          /\ last.to # 0 => last.to \in Tasks /\ last.to # t
          /\ result[t] = "none"
      <3>1. /\ \A u \in Tasks : u # t => kind'[u] = kind[u]
            /\ kind'[t] = k /\ t \in Int /\ t # 0
        BY <1>0, <2>1 DEF TypedTasks, Tasks
      <3>2. \A i \in DOMAIN waiting : waiting[i] \in Tasks
        BY <1>0, ElementOfSeq, LenProperties DEF TypedTasks
      <3>3. /\ holder # 0 => holder \in Tasks
            /\ last.to # 0 => last.to \in Tasks
        BY <1>0, Bounded DEF TypedTasks, TypedSeen, Tasks
      <3> QED BY <1>0, <2>1, <3>1, <3>2, <3>3 DEF Placed
    <2>3. CASE holder = 0
      <3>1. holder' = t /\ pc' = "start" /\ waiting' = waiting
        BY <1>27, <2>3 DEF NewTask, Goto
      <3>2. waiting = <<>>
        BY <1>0, <2>3 DEF Placed
      <3>3. DOMAIN waiting = {}
        BY <3>2
      <3> QED BY <1>0, <2>1, <2>2, <3>1, <3>3 DEF Placed, TurnPlaces,
             CompactPlaces
    <2>4. CASE holder # 0
      <3>1. holder' = holder /\ pc' = pc /\ waiting' = Append(waiting, t)
        BY <1>27, <2>4 DEF NewTask, coroutine
      <3>2. /\ DOMAIN waiting = 1..Len(waiting) /\ Len(waiting) \in Nat
            /\ DOMAIN waiting' = 1..(Len(waiting) + 1)
            /\ waiting'[Len(waiting) + 1] = t
            /\ \A i \in 1..Len(waiting) : waiting'[i] = waiting[i]
        BY <1>0, <3>1, AppendProperties, LenProperties DEF TypedTasks
      <3>3. \A i \in DOMAIN waiting' :
               \/ i \in DOMAIN waiting /\ waiting'[i] = waiting[i]
               \/ i = Len(waiting) + 1 /\ waiting'[i] = t
        BY <3>2
      <3>4. \A i \in DOMAIN waiting' :
              /\ kind'[waiting'[i]] # "none" /\ result'[waiting'[i]] = "none"
              /\ waiting'[i] # holder' /\ waiting'[i] # last'.to
        BY <1>0, <2>1, <2>2, <2>4, <3>1, <3>3 DEF Placed
      <3>5. \A i, j \in DOMAIN waiting' : waiting'[i] = waiting'[j] => i = j
        BY <1>0, <2>2, <3>3 DEF Placed
      <3>6. /\ (pc' = "idle") = (holder' = 0) /\ holder' # 0
            /\ kind'[holder'] # "none" /\ result'[holder'] = "none"
            /\ pc' \in TurnPlaces => kind'[holder'] = "turn"
            /\ pc' \in CompactPlaces => kind'[holder'] = "compact"
            /\ last'.to # 0 => kind'[last'.to] # "none"
        BY <1>0, <2>1, <2>2, <2>4, <3>1 DEF Placed
      <3>7. /\ \A u \in Tasks : kind'[u] = "none" => result'[u] = "none"
            /\ pc' \in Unheard => last'.to # holder'
        BY <1>0, <2>1, <2>2, <2>4, <3>1 DEF Placed
      <3> QED BY <3>4, <3>5, <3>6, <3>7 DEF Placed
    <2> QED BY <2>3, <2>4
  <1>28. CASE CloseByTurn \/ ReadResponse \/ Mapping \/ RejectFrame
            \/ (\E t \in Tasks : RequestCancel(t))
            \/ (\E x \in Context : InjectItems(x)) \/ Close \/ EndClose
            \/ Server \/ UNCHANGED vars
    <2>1. CloseByTurn \/ ReadResponse \/ RejectFrame
          => UNCHANGED <<pc, holder, waiting, kind, result, last>>
      BY DEF CloseByTurn, BeginClose, ReadResponse, Consume, RejectFrame,
         coroutine, seen, tasks
    <2>2. \/ (\E t \in Tasks : RequestCancel(t))
          \/ (\E x \in Context : InjectItems(x))
          \/ Close
          => UNCHANGED <<pc, holder, waiting, kind, result, last>>
      BY DEF RequestCancel, InjectItems, Close, BeginClose, coroutine, seen,
         tasks
    <2>3. EndClose
          => UNCHANGED <<pc, holder, waiting, kind, result, last>>
      BY DEF EndClose, coroutine, seen, tasks
    <2>4. Server \/ Mapping \/ UNCHANGED vars
          => UNCHANGED <<pc, holder, waiting, kind, result, last>>
      BY ServerFrame, MappingRest DEF vars, coroutine, seen, tasks
    <2>5. UNCHANGED <<pc, holder, waiting, kind, result, last>>
      BY <1>28, <2>1, <2>2, <2>3, <2>4
    <2> QED BY <1>0, <2>5 DEF Placed
  <1> QED
    BY <1>3, <1>4, <1>5, <1>6, <1>7, <1>8, <1>9, <1>10, <1>11, <1>12, <1>13,
       <1>14, <1>15, <1>16, <1>17, <1>18, <1>19, <1>20, <1>21, <1>22, <1>23,
       <1>24, <1>25, <1>26, <1>27, <1>28 DEF Next, Running, Deciding, Reader,
       Mapping, Embedder, Server

\* Interrupts and the grace budget are for cancelled turns.
LEMMA CancellingStep ==
    ASSUME Inv, [Next]_vars
    PROVE  Cancelling'
  <1>0. TypedTasks /\ TypedCoroutine /\ Placed /\ Asked /\ Cancelling
    BY DEF Inv
  <1>1. ASSUME GivesUp, pc # "idle"
        PROVE  Cancelling'
    <2>1. LockPasses
      BY <1>0, <1>1, HolderFacts, Passing
    <2>2. interrupted' = FALSE /\ pc' \in {"idle", "start"}
      BY <2>1 DEF LockPasses
    <2> QED BY <2>2 DEF Cancelling
  <1>2. ASSUME EnsureStarted
        PROVE  Cancelling'
    BY <1>0, <1>2 DEF Cancelling, EnsureStarted, Goto, coroutine, tasks
  <1>3. ASSUME StartFails
        PROVE  Cancelling'
    <2>1. pc # "idle" /\ (GivesUp \/ TurnCloses)
      BY <1>0, <1>3, GivingUp
    <2>2. CASE TurnCloses
      BY <1>0, <2>2 DEF Cancelling, TurnCloses, tasks
    <2> QED BY <1>1, <2>1, <2>2
  <1>4. ASSUME SendTurn
        PROVE  Cancelling'
    BY <1>0, <1>4 DEF Cancelling, SendTurn, Send, Goto, coroutine, tasks
  <1>5. ASSUME SendCompact
        PROVE  Cancelling'
    BY <1>0, <1>5 DEF Cancelling, SendCompact, Send, Goto, coroutine, tasks
  <1>6. ASSUME SendRefused
        PROVE  Cancelling'
    <2>1. pc # "idle" /\ (GivesUp \/ TurnCloses)
      BY <1>0, <1>6, GivingUp
    <2>2. CASE TurnCloses
      BY <1>0, <2>2 DEF Cancelling, TurnCloses, tasks
    <2> QED BY <1>1, <2>1, <2>2
  <1>7. ASSUME TurnSent
        PROVE  Cancelling'
    BY <1>0, <1>7 DEF Cancelling, TurnSent, Emit, coroutine, tasks
  <1>8. ASSUME TurnNotSent
        PROVE  Cancelling'
    BY <1>0, <1>8 DEF Cancelling, TurnNotSent, coroutine, tasks
  <1>9. ASSUME ReadEvent
        PROVE  Cancelling'
    <2>1. /\ pc' \in {"asking", "read", "failing"} /\ interrupted' = interrupted
          /\ UNCHANGED tasks
      BY <1>9, DeliverFacts DEF ReadEvent, Interrupted, tasks
    <2> QED BY <1>0, <2>1 DEF Cancelling, tasks
  <1>10. ASSUME ReadTerminal
        PROVE  Cancelling'
    <2>1. pc # "idle"
      BY <1>10 DEF ReadTerminal, AuditEnds
    <2>2. \/ GivesUp
          \/ /\ UNCHANGED <<tasks, interrupted>>
             /\ pc' \in {"failing", "auditing"}
      BY <1>0, <1>10, GivingUp
    <2>3. CASE UNCHANGED <<tasks, interrupted>> /\ pc' \in {"failing", "auditing"}
      BY <1>0, <2>3 DEF Cancelling, tasks
    <2> QED BY <1>1, <2>1, <2>2, <2>3
  <1>11. ASSUME AuditEnds
        PROVE  Cancelling'
    <2>1. pc # "idle"
      BY <1>11 DEF ReadTerminal, AuditEnds
    <2>2. \/ GivesUp
          \/ /\ UNCHANGED <<tasks, interrupted>>
             /\ pc' \in {"failing", "auditing"}
      BY <1>0, <1>11, GivingUp
    <2>3. CASE UNCHANGED <<tasks, interrupted>> /\ pc' \in {"failing", "auditing"}
      BY <1>0, <2>3 DEF Cancelling, tasks
    <2> QED BY <1>1, <2>1, <2>2, <2>3
  <1>12. ASSUME Answer
        PROVE  Cancelling'
    BY <1>0, <1>12 DEF Cancelling, Answer, Emit, coroutine, tasks
  <1>13. ASSUME AnswerFails
        PROVE  Cancelling'
    BY <1>0, <1>13 DEF Cancelling, AnswerFails, coroutine, tasks
  <1>14. ASSUME CancelTurn
        PROVE  Cancelling'
    BY <1>0, <1>14 DEF Cancelling, CancelTurn, TakeNext, Interrupt, Send,
       coroutine, tasks
  <1>15. ASSUME Interrupted
        PROVE  Cancelling'
    <2>1. /\ pc' \in {"asking", "read", "failing"} /\ interrupted' = interrupted
          /\ UNCHANGED tasks
      BY <1>15, DeliverFacts DEF ReadEvent, Interrupted, tasks
    <2> QED BY <1>0, <2>1 DEF Cancelling, tasks
  <1>16. ASSUME InterruptFails
        PROVE  Cancelling'
    BY <1>0, <1>16 DEF Cancelling, InterruptFails, coroutine, tasks
  <1>17. ASSUME GraceExpires
        PROVE  Cancelling'
    BY <1>0, <1>17 DEF Cancelling, GraceExpires, coroutine, tasks
  <1>18. ASSUME RunFails
        PROVE  Cancelling'
    BY <1>0, <1>18 DEF Cancelling, RunFails, Send, coroutine, tasks
  <1>19. ASSUME LastInterrupt
        PROVE  Cancelling'
    BY <1>0, <1>19 DEF Cancelling, LastInterrupt, coroutine, tasks
  <1>20. ASSUME RunEnds
        PROVE  Cancelling'
    <2>1. pc # "idle" /\ GivesUp
      BY <1>0, <1>20, GivingUp
    <2> QED BY <1>1, <2>1
  <1>21. ASSUME CompactSent
        PROVE  Cancelling'
    BY <1>0, <1>21 DEF Cancelling, CompactSent, coroutine, tasks
  <1>22. ASSUME CompactBound
        PROVE  Cancelling'
    BY <1>0, <1>22 DEF Cancelling, CompactBound, Goto, coroutine, tasks
  <1>23. ASSUME CompactNotStarted
        PROVE  Cancelling'
    <2>1. pc # "idle" /\ GivesUp
      BY <1>0, <1>23, GivingUp
    <2> QED BY <1>1, <2>1
  <1>24. ASSUME CompactReads
        PROVE  Cancelling'
    <2>1. pc # "idle" /\ (GivesUp \/ UNCHANGED <<tasks, coroutine>>)
      BY <1>0, <1>24, GivingUp
    <2>2. CASE UNCHANGED <<tasks, coroutine>>
      BY <1>0, <2>2 DEF Cancelling, tasks, coroutine
    <2> QED BY <1>1, <2>1, <2>2
  <1>25. ASSUME CompactTimesOut
        PROVE  Cancelling'
    <2>1. pc # "idle" /\ GivesUp
      BY <1>0, <1>25, GivingUp
    <2> QED BY <1>1, <2>1
  <1>26. ASSUME NEW t \in Tasks, NEW k \in {"turn", "compact"}, NewTask(t, k)
        PROVE  Cancelling'
    <2>1. /\ cancelled' = cancelled /\ interrupted' = interrupted
          /\ \/ pc' = pc /\ holder' = holder
             \/ holder = 0 /\ pc' = "start"
      BY <1>26 DEF NewTask, Goto, coroutine
    <2>2. holder = 0 => ~interrupted
      BY <1>0 DEF Placed, Asked
    <2> QED BY <1>0, <2>1, <2>2 DEF Cancelling
  <1>27. ASSUME NEW t \in Tasks, RequestCancel(t)
        PROVE  Cancelling'
    BY <1>0, <1>27 DEF Cancelling, RequestCancel, coroutine, tasks
  <1>28. CASE CloseByTurn \/ ReadResponse \/ Mapping \/ RejectFrame
            \/ (\E x \in Context : InjectItems(x)) \/ Close \/ EndClose
            \/ Server \/ UNCHANGED vars
    <2>1. CloseByTurn \/ ReadResponse \/ RejectFrame
          => UNCHANGED <<holder, cancelled, pc, interrupted>>
      BY DEF CloseByTurn, BeginClose, ReadResponse, Consume, RejectFrame,
         coroutine, tasks
    <2>2. (\E x \in Context : InjectItems(x)) \/ Close \/ EndClose
          => UNCHANGED <<holder, cancelled, pc, interrupted>>
      BY DEF InjectItems, Close, BeginClose, EndClose, coroutine, tasks
    <2>3. Server \/ Mapping \/ UNCHANGED vars
          => UNCHANGED <<holder, cancelled, pc, interrupted>>
      BY ServerFrame, MappingRest DEF vars, coroutine, tasks
    <2>4. UNCHANGED <<holder, cancelled, pc, interrupted>>
      BY <1>28, <2>1, <2>2, <2>3
    <2> QED BY <1>0, <2>4 DEF Cancelling
  <1> QED
    BY <1>2, <1>3, <1>4, <1>5, <1>6, <1>7, <1>8, <1>9, <1>10, <1>11, <1>12,
       <1>13, <1>14, <1>15, <1>16, <1>17, <1>18, <1>19, <1>20, <1>21, <1>22,
       <1>23, <1>24, <1>25, <1>26, <1>27, <1>28 DEF Next, Running, Deciding,
       Reader, Mapping, Embedder, Server

\* What the holder awaits, and what it was answered.
LEMMA AskedStep ==
    ASSUME Inv, [Next]_vars
    PROVE  Asked'
  <1>0. TypedTasks /\ TypedCoroutine /\ TypedOut /\ TypedServer /\ Placed /\ Asked
    BY DEF Inv
  <1>1. /\ \A r \in rpcs : r[2] \in Tasks /\ r[2] # 0
        /\ \A i \in DOMAIN waiting : waiting[i] \in Tasks
        /\ kind \in [Tasks -> {"none", "turn", "compact"}]
    <2>1. \A r \in rpcs : r[2] \in Tasks /\ r[2] # 0
      BY <1>0 DEF TypedOut, Tasks
    <2>2. \A i \in DOMAIN waiting : waiting[i] \in Tasks
      BY <1>0, ElementOfSeq, LenProperties DEF TypedTasks
    <2> QED BY <1>0, <2>1, <2>2 DEF TypedTasks
  <1>2. ASSUME GivesUp, pc # "idle", rpcs' \subseteq rpcs
        PROVE  Asked'
    <2>1. LockPasses
      BY <1>0, <1>2, HolderFacts, Passing
    <2>2. /\ interrupted' = FALSE /\ held' = None /\ reply' = NoReply
          /\ kind' = kind /\ pc' # "starting"
      BY <2>1 DEF LockPasses
    <2>3. \A r \in rpcs' : kind'[r[2]] # "none"
      BY <1>0, <1>2, <2>2 DEF Asked
    <2>4. \A r \in rpcs' : r[2] # holder'
      BY <1>0, <1>1, <1>2, <2>1 DEF Asked, LockPasses
    <2>5. \A i \in DOMAIN waiting' : \A r \in rpcs' : r[2] # waiting'[i]
      BY <1>0, <1>2, <2>1 DEF Asked, LockPasses
    <2> QED BY <2>2, <2>3, <2>4, <2>5 DEF Asked
  <1>3. ASSUME UNCHANGED tasks, pc # "idle", pc' \notin {"idle", "start", "send"} \cup {"starting"},
               \A r \in rpcs' : r \in rpcs \/ r[2] = holder
        PROVE  Asked'
    <2>1. UNCHANGED <<holder, waiting, kind>> /\ kind[holder] # "none"
      BY <1>0, <1>3, HolderFacts DEF tasks
    <2>2. \A i \in DOMAIN waiting : waiting[i] # holder
      BY <1>0 DEF Placed
    <2>3. /\ \A r \in rpcs' : kind'[r[2]] # "none"
          /\ \A i \in DOMAIN waiting' : \A r \in rpcs' : r[2] # waiting'[i]
      BY <1>0, <1>3, <2>1, <2>2 DEF Asked
    <2> QED BY <1>3, <2>3 DEF Asked
  <1>4. ASSUME UNCHANGED <<holder, waiting, kind, pc, interrupted, held>>,
               rpcs' \subseteq rpcs, pc \in {"idle", "start", "send"} => reply' = reply,
               pc = "starting" /\ reply'.s = "ok" => reply' = reply \/ reply'.nat # 0
        PROVE  Asked'
    BY <1>0, <1>4 DEF Asked
  <1>5. ASSUME EnsureStarted
        PROVE  Asked'
    <2>1. /\ pc = "start" /\ pc' = "send"
          /\ UNCHANGED <<holder, waiting, kind, interrupted, held, reply, rpcs>>
      BY <1>5 DEF EnsureStarted, Goto, tasks
    <2> QED BY <1>0, <2>1 DEF Asked
  <1>6. ASSUME StartFails
        PROVE  Asked'
    <2>1. pc # "idle" /\ (GivesUp \/ TurnCloses) /\ rpcs' = rpcs
      BY <1>0, <1>6, GivingUp DEF StartFails
    <2>2. CASE TurnCloses
      BY <1>3, <2>1, <2>2 DEF TurnCloses
    <2> QED BY <1>2, <2>1, <2>2
  <1>7. ASSUME SendTurn
        PROVE  Asked'
    <2>1. /\ pc = "send" /\ pc' = "starting" /\ kind[holder] = "turn"
          /\ UNCHANGED <<holder, waiting, kind, reply>>
          /\ rpcs' = rpcs \cup {<<"turn", holder>>}
      BY <1>7 DEF SendTurn, Send, Goto, tasks
    <2>2. \A r \in rpcs' : r \in rpcs \/ (r[1] = "turn" /\ r[2] = holder)
      BY <2>1
    <2>3. \A i \in DOMAIN waiting : waiting[i] # holder
      BY <1>0 DEF Placed
    <2>4. reply'.s = "none"
      BY <1>0, <2>1 DEF Asked, NoReply
    <2>5. /\ \A r \in rpcs' : kind'[r[2]] # "none"
          /\ \A i \in DOMAIN waiting' : \A r \in rpcs' : r[2] # waiting'[i]
          /\ \A r \in rpcs' : r[2] = holder' => r[1] = "turn"
      BY <1>0, <2>1, <2>2, <2>3 DEF Asked
    <2> QED BY <2>1, <2>4, <2>5 DEF Asked
  <1>8. ASSUME SendCompact
        PROVE  Asked'
    <2>1. /\ pc # "idle" /\ UNCHANGED tasks
          /\ pc' \in {"compacting", "interrupting", "failing", "last_interrupt", "closing"}
          /\ rpcs' \in {rpcs, rpcs \cup {<<"compact", holder>>}}
      BY <1>8 DEF SendCompact, Send, Goto, coroutine, tasks
    <2>2. \A r \in rpcs' : r \in rpcs \/ r[2] = holder
      BY <2>1
    <2> QED BY <1>3, <2>1, <2>2
  <1>9. ASSUME SendRefused
        PROVE  Asked'
    <2>1. pc # "idle" /\ (GivesUp \/ TurnCloses) /\ rpcs' = rpcs
      BY <1>0, <1>9, GivingUp DEF SendRefused
    <2>2. CASE TurnCloses
      BY <1>3, <2>1, <2>2 DEF TurnCloses
    <2> QED BY <1>2, <2>1, <2>2
  <1>10. ASSUME TurnSent
        PROVE  Asked'
    <2>1. /\ pc # "idle" /\ UNCHANGED tasks /\ rpcs' \subseteq rpcs
          /\ pc' \in {"read", "closing"}
      BY <1>10 DEF TurnSent
    <2> QED BY <1>3, <2>1
  <1>11. ASSUME TurnNotSent
        PROVE  Asked'
    <2>1. /\ pc # "idle" /\ UNCHANGED tasks /\ rpcs' \subseteq rpcs
          /\ pc' \in {"closing"}
      BY <1>11 DEF TurnNotSent
    <2> QED BY <1>3, <2>1
  <1>12. ASSUME ReadEvent
        PROVE  Asked'
    <2>1. /\ pc # "idle" /\ UNCHANGED tasks /\ rpcs' = rpcs
          /\ pc' \in {"asking", "read", "failing"}
      BY <1>12, DeliverFacts DEF ReadEvent
    <2> QED BY <1>3, <2>1
  <1>13. ASSUME ReadTerminal
        PROVE  Asked'
    <2>1. pc # "idle" /\ rpcs' = rpcs
      BY <1>13 DEF ReadTerminal
    <2>2. GivesUp \/ (UNCHANGED tasks /\ pc' \in {"failing", "auditing"})
      BY <1>0, <1>13, GivingUp
    <2> QED BY <1>2, <1>3, <2>1, <2>2
  <1>14. ASSUME AuditEnds
        PROVE  Asked'
    <2>1. pc # "idle" /\ rpcs' = rpcs
      BY <1>14 DEF AuditEnds
    <2>2. GivesUp \/ (UNCHANGED tasks /\ pc' \in {"failing", "auditing"})
      BY <1>0, <1>14, GivingUp
    <2> QED BY <1>2, <1>3, <2>1, <2>2
  <1>15. ASSUME Answer
        PROVE  Asked'
    <2>1. /\ pc # "idle" /\ UNCHANGED tasks /\ rpcs' \subseteq rpcs
          /\ pc' \in {"read"}
      BY <1>15 DEF Answer
    <2> QED BY <1>3, <2>1
  <1>16. ASSUME AnswerFails
        PROVE  Asked'
    <2>1. /\ pc # "idle" /\ UNCHANGED tasks /\ rpcs' \subseteq rpcs
          /\ pc' \in {"failing"}
      BY <1>16 DEF AnswerFails
    <2> QED BY <1>3, <2>1
  <1>17. ASSUME CancelTurn
        PROVE  Asked'
    <2>1. /\ pc # "idle" /\ UNCHANGED tasks
          /\ pc' \in {"compacting", "interrupting", "failing", "last_interrupt", "closing"}
          /\ rpcs' \in {rpcs, rpcs \cup {<<"interrupt", holder>>}}
      BY <1>17 DEF CancelTurn, TakeNext, Interrupt, Send, coroutine, tasks
    <2>2. \A r \in rpcs' : r \in rpcs \/ r[2] = holder
      BY <2>1
    <2> QED BY <1>3, <2>1, <2>2
  <1>18. ASSUME Interrupted
        PROVE  Asked'
    <2>1. /\ pc # "idle" /\ UNCHANGED tasks /\ rpcs' = rpcs
          /\ pc' \in {"asking", "read", "failing"}
      BY <1>18, DeliverFacts DEF Interrupted
    <2> QED BY <1>3, <2>1
  <1>19. ASSUME InterruptFails
        PROVE  Asked'
    <2>1. /\ pc # "idle" /\ UNCHANGED tasks /\ rpcs' \subseteq rpcs
          /\ pc' \in {"failing"}
      BY <1>19 DEF InterruptFails
    <2> QED BY <1>3, <2>1
  <1>20. ASSUME GraceExpires
        PROVE  Asked'
    <2>1. /\ pc # "idle" /\ UNCHANGED tasks /\ rpcs' \subseteq rpcs
          /\ pc' \in {"expiring"}
      BY <1>20 DEF GraceExpires
    <2> QED BY <1>3, <2>1
  <1>21. ASSUME RunFails
        PROVE  Asked'
    <2>1. /\ pc # "idle" /\ UNCHANGED tasks
          /\ pc' \in {"compacting", "interrupting", "failing", "last_interrupt", "closing"}
          /\ rpcs' \in {rpcs, rpcs \cup {<<"interrupt", holder>>}}
      BY <1>21 DEF RunFails, Send, coroutine, tasks
    <2>2. \A r \in rpcs' : r \in rpcs \/ r[2] = holder
      BY <2>1
    <2> QED BY <1>3, <2>1, <2>2
  <1>22. ASSUME LastInterrupt
        PROVE  Asked'
    <2>1. /\ pc # "idle" /\ UNCHANGED tasks /\ rpcs' \subseteq rpcs
          /\ pc' \in {"closing"}
      BY <1>22 DEF LastInterrupt
    <2> QED BY <1>3, <2>1
  <1>23. ASSUME RunEnds
        PROVE  Asked'
    <2>1. pc # "idle" /\ GivesUp /\ rpcs' \subseteq rpcs
      BY <1>0, <1>23, GivingUp DEF RunEnds
    <2> QED BY <1>2, <2>1
  <1>24. ASSUME CompactSent
        PROVE  Asked'
    <2>1. /\ pc # "idle" /\ UNCHANGED tasks /\ rpcs' \subseteq rpcs
          /\ pc' \in {"binding"}
      BY <1>24 DEF CompactSent
    <2> QED BY <1>3, <2>1
  <1>25. ASSUME CompactBound
        PROVE  Asked'
    <2>1. /\ pc # "idle" /\ UNCHANGED tasks /\ rpcs' \subseteq rpcs
          /\ pc' \in {"compact_read"}
      BY <1>25 DEF CompactBound, Goto
    <2> QED BY <1>3, <2>1
  <1>26. ASSUME CompactNotStarted
        PROVE  Asked'
    <2>1. pc # "idle" /\ GivesUp /\ rpcs' \subseteq rpcs
      BY <1>0, <1>26, GivingUp DEF CompactNotStarted
    <2> QED BY <1>2, <2>1
  <1>27. ASSUME CompactReads
        PROVE  Asked'
    <2>1. /\ pc # "idle" /\ rpcs' = rpcs
          /\ GivesUp \/ UNCHANGED <<tasks, coroutine>>
      BY <1>0, <1>27, GivingUp DEF CompactReads
    <2>2. CASE UNCHANGED <<tasks, coroutine>>
      BY <1>4, <2>1, <2>2 DEF tasks, coroutine
    <2> QED BY <1>2, <2>1, <2>2
  <1>28. ASSUME CompactTimesOut
        PROVE  Asked'
    <2>1. pc # "idle" /\ GivesUp /\ rpcs' \subseteq rpcs
      BY <1>0, <1>28, GivingUp DEF CompactTimesOut
    <2> QED BY <1>2, <2>1
  <1>29. ASSUME ReadResponse
        PROVE  Asked'
    <2>1. /\ UNCHANGED <<holder, waiting, kind, pc, interrupted, held>>
          /\ <<msg.op, msg.t>> \in rpcs /\ rpcs' \subseteq rpcs
          /\ fromServer # <<>> /\ msg.f \in {"ok", "refused"}
          /\ \/ reply' = reply
             \/ /\ pc \in Awaits /\ msg.t = holder
                /\ reply' = [s |-> IF msg.f = "ok" THEN "ok" ELSE "error", nat |-> msg.nat]
      BY <1>29 DEF ReadResponse, Arrived, tasks, msg
    <2>2. pc \in {"idle", "start", "send"} => reply' = reply
      BY <2>1 DEF Awaits
    <2>3. ASSUME pc = "starting", reply'.s = "ok", reply' # reply
          PROVE  reply'.nat # 0
      <3>1. msg.t = holder /\ msg.f = "ok" /\ reply'.nat = msg.nat
        BY <2>1, <2>3
      <3>2. \A r \in rpcs : r[2] = holder => r[1] = "turn"
        BY <1>0, <2>3 DEF Asked
      <3>3. <<msg.op, msg.t>>[1] = msg.op /\ <<msg.op, msg.t>>[2] = msg.t
        OBVIOUS
      <3>4. msg.op = "turn"
        BY <2>1, <3>1, <3>2, <3>3
      <3>5. msg.nat \in Natives
        BY <1>0, <2>1, <3>1, <3>4, HeadFrame, FrameFacts
      <3> QED BY <3>1, <3>5, Bounded DEF Natives
    <2> QED BY <1>4, <2>1, <2>2, <2>3
  <1>30. ASSUME RejectFrame
        PROVE  Asked'
    <2>1. /\ UNCHANGED <<holder, waiting, kind, pc, interrupted, held>>
          /\ rpcs' \subseteq rpcs
          /\ reply' = reply \/ (pc \in Awaits /\ reply' = Failed)
      BY <1>30 DEF RejectFrame, FailAll, tasks
    <2>2. Failed.s = "error"
      BY DEF Failed
    <2> QED BY <1>4, <2>1, <2>2 DEF Awaits
  <1>31. ASSUME NEW t \in Tasks, NEW k \in {"turn", "compact"}, NewTask(t, k)
        PROVE  Asked'
    <2>1. /\ kind[t] = "none" /\ kind' = [kind EXCEPT ![t] = k] /\ rpcs' = rpcs
          /\ UNCHANGED <<interrupted, held, reply>>
      BY <1>31 DEF NewTask, Goto, coroutine
    <2>2. \A r \in rpcs : r[2] # t /\ kind'[r[2]] # "none"
      BY <1>0, <1>1, <2>1 DEF Asked
    <2>3. CASE holder = 0
      <3>1. holder' = t /\ pc' = "start" /\ waiting' = waiting
        BY <1>31, <2>3 DEF NewTask, Goto
      <3>2. pc = "idle"
        BY <1>0, <2>3 DEF Placed
      <3> QED BY <1>0, <2>1, <2>2, <3>1, <3>2 DEF Asked
    <2>4. CASE holder # 0
      <3>1. holder' = holder /\ pc' = pc /\ waiting' = Append(waiting, t)
        BY <1>31, <2>4 DEF NewTask, coroutine
      <3>2. \A i \in DOMAIN waiting' :
               (i \in DOMAIN waiting /\ waiting'[i] = waiting[i]) \/ waiting'[i] = t
        BY <1>0, <3>1, AppendProperties, LenProperties DEF TypedTasks
      <3>3. \A i \in DOMAIN waiting' : \A r \in rpcs' : r[2] # waiting'[i]
        BY <1>0, <2>1, <2>2, <3>2 DEF Asked
      <3> QED BY <1>0, <2>1, <2>2, <3>1, <3>3 DEF Asked
    <2> QED BY <2>3, <2>4
  <1>32. ASSUME EndClose
        PROVE  Asked'
    <2>1. /\ UNCHANGED <<holder, waiting, kind, pc, interrupted, held>>
          /\ rpcs' \subseteq rpcs
          /\ reply' = reply \/ (pc \in Awaits /\ reply' = Failed)
      BY <1>32 DEF EndClose, FailAll, tasks
    <2>2. Failed.s = "error"
      BY DEF Failed
    <2> QED BY <1>4, <2>1, <2>2 DEF Awaits
  <1>33. CASE CloseByTurn \/ Mapping \/ (\E t \in Tasks : RequestCancel(t))
            \/ (\E x \in Context : InjectItems(x)) \/ Close \/ Server
            \/ UNCHANGED vars
    <2>1. \/ CloseByTurn \/ (\E t \in Tasks : RequestCancel(t))
          \/ (\E x \in Context : InjectItems(x))
          => UNCHANGED <<pc, holder, waiting, kind, reply, held, interrupted, rpcs>>
      BY DEF CloseByTurn, BeginClose, RequestCancel, InjectItems, coroutine,
         tasks
    <2>2. Close
          => UNCHANGED <<pc, holder, waiting, kind, reply, held, interrupted, rpcs>>
      BY DEF Close, BeginClose, coroutine, tasks
    <2>3. Server \/ Mapping \/ UNCHANGED vars
          => UNCHANGED <<pc, holder, waiting, kind, reply, held, interrupted, rpcs>>
      BY ServerFrame, MappingRest DEF vars, coroutine, tasks
    <2>4. UNCHANGED <<pc, holder, waiting, kind, reply, held, interrupted,
                      rpcs>>
      BY <1>33, <2>1, <2>2, <2>3
    <2> QED BY <1>0, <2>4 DEF Asked
  <1> QED
    BY <1>5, <1>6, <1>7, <1>8, <1>9, <1>10, <1>11, <1>12, <1>13, <1>14, <1>15,
       <1>16, <1>17, <1>18, <1>19, <1>20, <1>21, <1>22, <1>23, <1>24, <1>25,
       <1>26, <1>27, <1>28, <1>29, <1>30, <1>31, <1>32, <1>33 DEF Next,
       Running, Deciding, Reader, Mapping, Embedder, Server

\* Only a task that was asked for is referred to.
LEMMA KnownStep ==
    ASSUME Inv, [Next]_vars
    PROVE  Known'
  <1>0. /\ TypedTasks /\ TypedCoroutine /\ TypedCor /\ TypedServer /\ Placed
        /\ Asked /\ Known
    BY DEF Inv
  <1>1. ASSUME kind' = kind, \A t \in Tasks : result'[t] = "none" => result[t] = "none",
               cor.completed \subseteq cor'.completed,
               \A t \in cor.compactions : t \in Tasks /\ result'[t] = "none" =>
                  t \in cor'.compactions \/ t \in cor'.completed,
               \A t \in Tasks : Refers(t)' => Refers(t) \/ kind[t] = "turn"
                  \/ (kind[t] # "none" /\ t \in cor'.compactions)
        PROVE  Known'
    BY <1>0, <1>1 DEF Known
  <1>2. ASSUME cor' = cor
        PROVE  \A t \in Tasks : Refers(t)' = Refers(t)
    BY <1>2 DEF Refers
  <1>3. ASSUME GivesUp, pc # "idle"
        PROVE  /\ kind' = kind /\ result'[holder] # "none"
               /\ \A t \in Tasks : result'[t] = "none" => result[t] = "none"
    <2>1. LockPasses
      BY <1>0, <1>3, HolderFacts, Passing
    <2>2. /\ kind' = kind /\ result'[holder] # "none"
          /\ \A t \in Tasks : t # holder => result'[t] = result[t]
      BY <2>1 DEF LockPasses
    <2> QED BY <2>2
  <1>4. ASSUME cor' = cor, kind' = kind, \A t \in Tasks : result'[t] = "none" => result[t] = "none"
        PROVE  Known'
    BY <1>1, <1>2, <1>4
  <1>5. ASSUME cor' = [cor EXCEPT !.starting = 0], UNCHANGED <<kind, result>>
        PROVE  Known'
    <2>1. /\ cor'.starting = 0 /\ cor'.active = cor.active /\ cor'.local = cor.local
          /\ cor'.completed = cor.completed /\ cor'.compactions = cor.compactions
      BY <1>0, <1>5 DEF TypedCor, Correlations
    <2>2. \A t \in Tasks : Refers(t)' => Refers(t)
      BY <2>1 DEF Refers, Tasks
    <2> QED BY <1>1, <1>5, <2>1, <2>2
  <1>6. ASSUME StartFails
        PROVE  Known'
    <2>1. pc # "idle" /\ (GivesUp \/ TurnCloses) /\ cor' = cor
      BY <1>0, <1>6, GivingUp DEF StartFails
    <2>2. CASE TurnCloses
      BY <1>4, <2>1, <2>2 DEF TurnCloses, tasks
    <2> QED BY <1>3, <1>4, <2>1, <2>2
  <1>7. ASSUME SendTurn
        PROVE  Known'
    <2>1. /\ cor' = [cor EXCEPT !.starting = holder] /\ UNCHANGED <<kind, result>>
          /\ kind[holder] = "turn"
      BY <1>7 DEF SendTurn, tasks
    <2>2. /\ cor'.starting = holder /\ cor'.active = cor.active /\ cor'.local = cor.local
          /\ cor'.completed = cor.completed /\ cor'.compactions = cor.compactions
      BY <1>0, <2>1 DEF TypedCor, Correlations
    <2>3. \A t \in Tasks : Refers(t)' => Refers(t) \/ t = holder
      BY <2>2 DEF Refers
    <2> QED BY <1>1, <2>1, <2>2, <2>3
  <1>8. ASSUME SendCompact
        PROVE  Known'
    <2> DEFINE more == cor.compactions \cup {holder}
    <2>1. /\ cor' = [cor EXCEPT !.starting = holder, !.compactions = more]
          /\ UNCHANGED <<kind, result>> /\ kind[holder] = "compact"
      BY <1>0, <1>8 DEF SendCompact, tasks, TypedCor, Correlations
    <2>2. cor.compactions \subseteq more /\ holder \in more
      OBVIOUS
    <2> HIDE DEF more
    <2>3. /\ cor'.starting = holder /\ cor'.active = cor.active /\ cor'.local = cor.local
          /\ cor'.completed = cor.completed /\ cor'.compactions = more
      BY <1>0, <2>1 DEF TypedCor, Correlations
    <2>4. \A t \in Tasks : Refers(t)' => Refers(t) \/ t = holder
      BY <2>3 DEF Refers
    <2> QED BY <1>1, <2>1, <2>2, <2>3, <2>4
  <1>9. ASSUME SendRefused
        PROVE  Known'
    <2>1. pc # "idle" /\ (GivesUp \/ TurnCloses) /\ cor' = cor
      BY <1>0, <1>9, GivingUp DEF SendRefused
    <2>2. CASE TurnCloses
      BY <1>4, <2>1, <2>2 DEF TurnCloses, tasks
    <2> QED BY <1>3, <1>4, <2>1, <2>2
  <1>10. ASSUME TurnSent
        PROVE  Known'
    <2>1. UNCHANGED <<kind, result>>
      BY <1>10 DEF TurnSent, tasks
    <2>2. /\ kind[holder] = "turn" /\ cor'.starting = 0
          /\ cor'.active \in {cor.active, holder}
          /\ \A n \in Natives : cor'.local[n] \in {cor.local[n], holder}
          /\ cor'.completed = cor.completed /\ cor.compactions \subseteq cor'.compactions
      BY <1>0, <1>10, TurnSentFacts
    <2>3. \A t \in Tasks : Refers(t)' => Refers(t) \/ t = holder
      BY <2>2 DEF Refers, Tasks
    <2> QED BY <1>1, <2>1, <2>2, <2>3
  <1>11. ASSUME TurnNotSent
        PROVE  Known'
    <2>1. cor' = [cor EXCEPT !.starting = 0] /\ UNCHANGED <<kind, result>>
      BY <1>11 DEF TurnNotSent, tasks
    <2> QED BY <1>5, <2>1
  <1>12. ASSUME ReadTerminal
        PROVE  Known'
    <2>1. pc # "idle" /\ cor' = cor
      BY <1>12 DEF ReadTerminal
    <2>2. GivesUp \/ UNCHANGED tasks
      BY <1>0, <1>12, GivingUp
    <2>3. CASE UNCHANGED tasks
      BY <1>4, <2>1, <2>3 DEF tasks
    <2> QED BY <1>3, <1>4, <2>1, <2>2, <2>3
  <1>13. ASSUME AuditEnds
        PROVE  Known'
    <2>1. pc # "idle" /\ cor' = cor
      BY <1>13 DEF AuditEnds
    <2>2. GivesUp \/ UNCHANGED tasks
      BY <1>0, <1>13, GivingUp
    <2>3. CASE UNCHANGED tasks
      BY <1>4, <2>1, <2>3 DEF tasks
    <2> QED BY <1>3, <1>4, <2>1, <2>2, <2>3
  <1>14. ASSUME RunEnds
        PROVE  Known'
    <2>1. pc # "idle" /\ (GivesUp \/ TurnCloses) /\ cor' = cor
      BY <1>0, <1>14, GivingUp DEF RunEnds
    <2>2. CASE TurnCloses
      BY <1>4, <2>1, <2>2 DEF TurnCloses, tasks
    <2> QED BY <1>3, <1>4, <2>1, <2>2
  <1>15. ASSUME CompactBound
        PROVE  Known'
    <2>1. cor' = [cor EXCEPT !.starting = 0] /\ UNCHANGED <<kind, result>>
      BY <1>15 DEF CompactBound, tasks
    <2> QED BY <1>5, <2>1
  <1>16. ASSUME CompactNotStarted
        PROVE  Known'
    <2> DEFINE fewer == cor.compactions \ {holder}
    <2>1. /\ pc # "idle" /\ GivesUp
          /\ cor' = [cor EXCEPT !.starting = 0, !.compactions = fewer]
      BY <1>0, <1>16, GivingUp DEF CompactNotStarted, TypedCor, Correlations
    <2>2. \A t \in cor.compactions : t # holder => t \in fewer
      OBVIOUS
    <2> HIDE DEF fewer
    <2>3. /\ cor'.starting = 0 /\ cor'.active = cor.active /\ cor'.local = cor.local
          /\ cor'.completed = cor.completed /\ cor'.compactions = fewer
      BY <1>0, <2>1 DEF TypedCor, Correlations
    <2>4. \A t \in Tasks : Refers(t)' => Refers(t)
      BY <2>3 DEF Refers, Tasks
    <2> QED BY <1>1, <1>3, <2>1, <2>2, <2>3, <2>4
  <1>17. ASSUME CompactReads
        PROVE  Known'
    <2>1. pc # "idle" /\ cor' = cor
      BY <1>17 DEF CompactReads
    <2>2. GivesUp \/ UNCHANGED tasks
      BY <1>0, <1>17, GivingUp
    <2>3. CASE UNCHANGED tasks
      BY <1>4, <2>1, <2>3 DEF tasks
    <2> QED BY <1>3, <1>4, <2>1, <2>2, <2>3
  <1>18. ASSUME CompactTimesOut
        PROVE  Known'
    <2>1. pc # "idle" /\ (GivesUp \/ TurnCloses) /\ cor' = cor
      BY <1>0, <1>18, GivingUp DEF CompactTimesOut
    <2>2. CASE TurnCloses
      BY <1>4, <2>1, <2>2 DEF TurnCloses, tasks
    <2> QED BY <1>3, <1>4, <2>1, <2>2
  <1>19. ASSUME Mapping
        PROVE  Known'
    <2>1. Mapped /\ UNCHANGED <<kind, result>>
      BY <1>0, <1>19, MappingMaps, MappingFrame DEF tasks
    <2>2. /\ Refers(from) /\ from \in Tasks
          /\ cor'.starting = cor.starting /\ cor'.active \in {cor.active, from, 0}
          /\ \A n \in Natives : cor'.local[n] \in {cor.local[n], from}
          /\ cor.completed \subseteq cor'.completed
          /\ cor.compactions \ cor'.compactions \subseteq cor'.completed
      BY <2>1 DEF Mapped
    <2>3. ASSUME NEW t \in Tasks, Refers(t)'
          PROVE  Refers(t)
      <3>1. t # 0
        BY DEF Tasks
      <3> QED BY <2>2, <2>3, <3>1 DEF Refers
    <2>4. \A t \in cor.compactions : t \in cor'.compactions \/ t \in cor'.completed
      BY <2>2
    <2> QED BY <1>1, <2>1, <2>2, <2>3, <2>4
  <1>20. ASSUME NEW t \in Tasks, NEW k \in {"turn", "compact"}, NewTask(t, k)
        PROVE  Known'
    <2>1. /\ kind[t] = "none" /\ kind' = [kind EXCEPT ![t] = k]
          /\ result' = result /\ cor' = cor
      BY <1>20 DEF NewTask
    <2>2. ~Refers(t) /\ \A u \in Tasks : u # t => kind'[u] = kind[u]
      BY <1>0, <2>1 DEF Known, TypedTasks
    <2> QED BY <1>0, <1>2, <2>1, <2>2 DEF Known
  <1>21. CASE EnsureStarted \/ ReadEvent \/ Answer \/ AnswerFails
            \/ CancelTurn \/ Interrupted \/ InterruptFails \/ GraceExpires
            \/ RunFails \/ LastInterrupt \/ CloseByTurn \/ CompactSent
            \/ ReadResponse \/ RejectFrame
            \/ (\E t \in Tasks : RequestCancel(t))
            \/ (\E x \in Context : InjectItems(x)) \/ Close \/ EndClose
            \/ Server \/ UNCHANGED vars
    <2>1. EnsureStarted \/ ReadEvent \/ Answer
          => UNCHANGED <<cor, kind, result>>
      BY DEF EnsureStarted, Goto, ReadEvent, TakeNext, Deliver, Answer, tasks
    <2>2. AnswerFails \/ CancelTurn \/ Interrupted
          => UNCHANGED <<cor, kind, result>>
      BY DEF AnswerFails, CancelTurn, TakeNext, Interrupt, Interrupted,
         Deliver, tasks
    <2>3. InterruptFails \/ GraceExpires \/ RunFails
          => UNCHANGED <<cor, kind, result>>
      BY DEF InterruptFails, GraceExpires, RunFails, tasks
    <2>4. LastInterrupt \/ CloseByTurn \/ CompactSent
          => UNCHANGED <<cor, kind, result>>
      BY DEF LastInterrupt, CloseByTurn, BeginClose, CompactSent, tasks
    <2>5. ReadResponse \/ RejectFrame \/ (\E t \in Tasks : RequestCancel(t))
          => UNCHANGED <<cor, kind, result>>
      BY DEF ReadResponse, Consume, RejectFrame, RequestCancel, tasks
    <2>6. (\E x \in Context : InjectItems(x)) \/ Close \/ EndClose
          => UNCHANGED <<cor, kind, result>>
      BY DEF InjectItems, Close, BeginClose, EndClose, tasks
    <2>7. Server \/ UNCHANGED vars => UNCHANGED <<cor, kind, result>>
      BY ServerFrame DEF vars, tasks
    <2>8. UNCHANGED <<cor, kind, result>>
      BY <1>21, <2>1, <2>2, <2>3, <2>4, <2>5, <2>6, <2>7
    <2> QED BY <1>0, <2>8 DEF Known, Refers
  <1> QED
    BY <1>6, <1>7, <1>8, <1>9, <1>10, <1>11, <1>12, <1>13, <1>14, <1>15, <1>16,
       <1>17, <1>18, <1>19, <1>20, <1>21 DEF Next, Running, Deciding, Reader,
       Mapping, Embedder, Server

\* The events in the queue are of tasks that were asked for.
LEMMA NamedStep ==
    ASSUME Inv, [Next]_vars
    PROVE  Named'
  <1>0. /\ TypedTasks /\ TypedCoroutine /\ TypedOut /\ TypedCor /\ TypedServer
        /\ Placed /\ Asked /\ Known /\ Named
    BY DEF Inv
  <1>1. /\ queue \in Seq(Event) /\ \A i \in DOMAIN queue : queue[i] \in Event
        /\ \A e \in Event : e.turn # 0 => e.turn \in Tasks
        /\ DOMAIN queue = 1..Len(queue)
    <2>1. queue \in Seq(Event) /\ \A i \in DOMAIN queue : queue[i] \in Event
          /\ DOMAIN queue = 1..Len(queue)
      BY <1>0, ElementOfSeq, LenProperties DEF TypedOut
    <2>2. \A e \in Event : e.turn # 0 => e.turn \in Tasks
      BY Bounded DEF Event, Tasks
    <2> QED BY <2>1, <2>2
  <1>2. ASSUME kind' = kind, \A t \in Tasks : result'[t] = "none" => result[t] = "none",
               NEW e \in Event, Fits(e, kind, result)
        PROVE  Fits(e, kind', result')
    BY <1>1, <1>2 DEF Fits
  <1>3. ASSUME kind' = kind, \A t \in Tasks : result'[t] = "none" => result[t] = "none",
               pc' = "asking" => held'.turn = holder',
               \A i \in DOMAIN queue' : queue'[i] \in Event,
               \A i \in DOMAIN queue' :
                  \/ \E j \in DOMAIN queue : queue'[i] = queue[j]
                  \/ Fits(queue'[i], kind, result)
        PROVE  Named'
    <2>1. \A i \in DOMAIN queue' : Fits(queue'[i], kind, result)
      BY <1>0, <1>3 DEF Named
    <2>2. \A i \in DOMAIN queue' : Fits(queue'[i], kind', result')
      BY <1>2, <1>3, <2>1
    <2> QED BY <1>3, <2>2 DEF Named
  <1>4. ASSUME kind' = kind, \A t \in Tasks : result'[t] = "none" => result[t] = "none",
               pc' = "asking" => held'.turn = holder', queue' = queue
        PROVE  Named'
    BY <1>1, <1>3, <1>4
  <1>5. ASSUME kind' = kind, \A t \in Tasks : result'[t] = "none" => result[t] = "none",
               pc' = "asking" => held'.turn = holder',
               queue # <<>>, queue' = Tail(queue)
        PROVE  Named'
    <2>1. /\ queue' \in Seq(Event) /\ DOMAIN queue' = 1..Len(queue')
          /\ \A i \in 1..Len(queue') : i + 1 \in 1..Len(queue) /\ queue'[i] = queue[i + 1]
      BY <1>1, <1>5, TakeFacts, LenProperties
    <2>2. \A i \in DOMAIN queue' : queue'[i] \in Event
      BY <1>1, <2>1
    <2> QED BY <1>1, <1>3, <1>5, <2>1, <2>2
  <1>6. ASSUME UNCHANGED <<kind, result>>, pc' = "asking" => held'.turn = holder',
               NEW types \in Seq(EventTypes), NEW t \in Tasks,
               NEW n \in 0..MaxNatives, Emit(types, t, n), kind[t] # "none",
               \A i \in 1..Len(types) : types[i] \in TerminalEvents =>
                  kind[t] = "turn" \/ result[t] # "none"
        PROVE  Named'
    <2>1. t \in 0..MaxTasks
      BY Bounded DEF Tasks
    <2>2. /\ queue' \in Seq(Event) /\ DOMAIN queue' = 1..Len(queue')
          /\ Len(queue') \in Nat /\ Len(queue) \in Nat
          /\ \A i \in 1..Len(queue) : queue'[i] = queue[i]
          /\ \A i \in (Len(queue) + 1)..Len(queue') :
                /\ i - Len(queue) \in 1..Len(types)
                /\ queue'[i].type = types[i - Len(queue)]
                /\ queue'[i].turn = t
      BY <1>0, <1>6, <2>1, EmitFacts, LenProperties
    <2>3. \A i \in DOMAIN queue' : queue'[i] \in Event
      BY <2>2, ElementOfSeq
    <2>4. \A i \in (Len(queue) + 1)..Len(queue') : Fits(queue'[i], kind, result)
      BY <1>6, <2>2 DEF Fits
    <2>5. \A i \in DOMAIN queue' :
             i \in DOMAIN queue \/ i \in (Len(queue) + 1)..Len(queue')
      BY <1>1, <2>2
    <2>6. \A i \in DOMAIN queue' :
             \/ \E j \in DOMAIN queue : queue'[i] = queue[j]
             \/ Fits(queue'[i], kind, result)
      BY <1>1, <2>2, <2>4, <2>5
    <2> QED BY <1>3, <1>6, <2>3, <2>6
  <1>7. ASSUME GivesUp, pc # "idle"
        PROVE  /\ kind' = kind /\ pc' # "asking"
               /\ \A t \in Tasks : result'[t] = "none" => result[t] = "none"
    <2>1. LockPasses
      BY <1>0, <1>7, HolderFacts, Passing
    <2>2. /\ kind' = kind /\ result'[holder] # "none" /\ pc' # "asking"
          /\ \A t \in Tasks : t # holder => result'[t] = result[t]
      BY <2>1 DEF LockPasses
    <2> QED BY <2>2
  <1>8. ASSUME queue' = Append(queue, Stop) \/ queue' = Append(queue, Broken),
               UNCHANGED <<kind, result, pc, held, holder>>
        PROVE  Named'
    <2>1. PICK e \in Event : queue' = Append(queue, e) /\ e.turn = 0
      BY <1>8, EventFacts
    <2>2. /\ queue' \in Seq(Event) /\ DOMAIN queue' = 1..Len(queue')
          /\ Len(queue) \in Nat /\ Len(queue') = Len(queue) + 1
          /\ queue'[Len(queue')] = e
          /\ \A i \in 1..Len(queue) : queue'[i] = queue[i]
      BY <1>1, <2>1, EndQueued, LenProperties
    <2>3. \A i \in DOMAIN queue' : queue'[i] \in Event
      BY <2>2, ElementOfSeq
    <2>4. Fits(e, kind, result)
      BY <2>1 DEF Fits
    <2>5. \A i \in DOMAIN queue' : i \in DOMAIN queue \/ queue'[i] = e
      BY <1>1, <2>2
    <2>6. \A i \in DOMAIN queue' :
             \/ \E j \in DOMAIN queue : queue'[i] = queue[j]
             \/ Fits(queue'[i], kind, result)
      BY <1>1, <2>2, <2>4, <2>5
    <2>7. pc' = "asking" => held'.turn = holder'
      BY <1>0, <1>8 DEF Named
    <2> QED BY <1>3, <1>8, <2>3, <2>6, <2>7
  <1>9. ASSUME EnsureStarted
        PROVE  Named'
    <2>1. UNCHANGED <<kind, result>> /\ pc' # "asking" /\ queue' = queue
      BY <1>9 DEF EnsureStarted, Goto, tasks, outbox
    <2> QED BY <1>4, <2>1
  <1>10. ASSUME StartFails
        PROVE  Named'
    <2>1. pc # "idle" /\ (GivesUp \/ TurnCloses) /\ queue' = queue
      BY <1>0, <1>10, GivingUp DEF StartFails, outbox
    <2>2. CASE TurnCloses
      BY <1>4, <2>1, <2>2 DEF TurnCloses, tasks
    <2> QED BY <1>4, <1>7, <2>1, <2>2
  <1>11. ASSUME SendTurn
        PROVE  Named'
    <2>1. UNCHANGED <<kind, result>> /\ pc' # "asking" /\ queue' = queue
      BY <1>11 DEF SendTurn, Goto, tasks, outbox
    <2> QED BY <1>4, <2>1
  <1>12. ASSUME SendCompact
        PROVE  Named'
    <2>1. UNCHANGED <<kind, result>> /\ pc' # "asking" /\ queue' = queue
      BY <1>12 DEF SendCompact, Goto, tasks, outbox
    <2> QED BY <1>4, <2>1
  <1>13. ASSUME SendRefused
        PROVE  Named'
    <2>1. pc # "idle" /\ (GivesUp \/ TurnCloses) /\ queue' = queue
      BY <1>0, <1>13, GivingUp DEF SendRefused, outbox
    <2>2. CASE TurnCloses
      BY <1>4, <2>1, <2>2 DEF TurnCloses, tasks
    <2> QED BY <1>4, <1>7, <2>1, <2>2
  <1>14. ASSUME TurnSent
        PROVE  Named'
    <2>1. /\ UNCHANGED <<kind, result>> /\ pc' # "asking"
          /\ reply.nat \in 0..MaxNatives
      BY <1>0, <1>14 DEF TurnSent, tasks, TypedCoroutine
    <2>2. /\ holder \in Tasks /\ kind[holder] = "turn"
          /\ \/ UNCHANGED outbox
             \/ \E types \in Seq(EventTypes) :
                  /\ Emit(types, holder, reply.nat)
                  /\ \A i \in 1..Len(types) : types[i] \notin TerminalEvents
      BY <1>0, <1>14, TurnSentFacts
    <2>3. CASE UNCHANGED outbox
      BY <1>4, <2>1, <2>3 DEF outbox
    <2> QED BY <1>6, <2>1, <2>2, <2>3
  <1>15. ASSUME TurnNotSent
        PROVE  Named'
    <2>1. UNCHANGED <<kind, result>> /\ pc' # "asking" /\ queue' = queue
      BY <1>15 DEF TurnNotSent, tasks, outbox
    <2> QED BY <1>4, <2>1
  <1>16. ASSUME ReadEvent
        PROVE  Named'
    <2>1. /\ queue # <<>> /\ queue' = Tail(queue)
          /\ UNCHANGED <<kind, result, holder>>
          /\ Deliver(Head(queue))
      BY <1>16 DEF ReadEvent, TakeNext, tasks
    <2>2. pc' = "asking" => held'.turn = holder'
      BY <2>1, DeliverFacts
    <2> QED BY <1>5, <2>1, <2>2
  <1>17. ASSUME ReadTerminal
        PROVE  Named'
    <2>1. /\ pc # "idle" /\ queue # <<>> /\ queue' = Tail(queue)
          /\ GivesUp \/ (UNCHANGED tasks /\ pc' # "asking")
      BY <1>0, <1>17, GivingUp
    <2>2. CASE UNCHANGED tasks /\ pc' # "asking"
      BY <1>5, <2>1, <2>2 DEF tasks
    <2> QED BY <1>5, <1>7, <2>1, <2>2
  <1>18. ASSUME AuditEnds
        PROVE  Named'
    <2>1. /\ pc # "idle" /\ queue' = queue
          /\ GivesUp \/ (UNCHANGED tasks /\ pc' # "asking")
      BY <1>0, <1>18, GivingUp DEF AuditEnds, outbox
    <2>2. CASE UNCHANGED tasks /\ pc' # "asking"
      BY <1>4, <2>1, <2>2 DEF tasks
    <2> QED BY <1>4, <1>7, <2>1, <2>2
  <1>19. ASSUME Answer
        PROVE  Named'
    <2> DEFINE one == <<"resolved">>
    <2>1. /\ pc = "asking" /\ UNCHANGED <<kind, result>> /\ pc' # "asking"
          /\ Emit(one, held.turn, held.nat)
      BY <1>19 DEF Answer, tasks
    <2>2. /\ held.turn = holder /\ held.nat \in 0..MaxNatives
          /\ holder \in Tasks /\ kind[holder] # "none"
      BY <1>0, <2>1, HolderFacts DEF Named, TypedCoroutine, Event
    <2>3. one \in Seq(EventTypes) /\ Len(one) = 1 /\ one[1] = "resolved"
      BY DEF EventTypes
    <2> HIDE DEF one
    <2>4. \A i \in 1..Len(one) : one[i] \notin TerminalEvents
      BY <2>3 DEF TerminalEvents
    <2> QED BY <1>6, <2>1, <2>2, <2>3, <2>4
  <1>20. ASSUME AnswerFails
        PROVE  Named'
    <2>1. UNCHANGED <<kind, result>> /\ pc' # "asking" /\ queue' = queue
      BY <1>20 DEF AnswerFails, tasks, outbox
    <2> QED BY <1>4, <2>1
  <1>21. ASSUME CancelTurn
        PROVE  Named'
    <2>1. /\ UNCHANGED <<kind, result>> /\ pc' # "asking"
          /\ queue' = queue \/ (queue # <<>> /\ queue' = Tail(queue))
      <3>1. /\ UNCHANGED <<kind, result>>
            /\ queue' = queue \/ (queue # <<>> /\ queue' = Tail(queue))
        BY <1>21 DEF CancelTurn, TakeNext, outbox, tasks
      <3>2. pc' # "asking"
        BY <1>21 DEF CancelTurn, Interrupt
      <3> QED BY <3>1, <3>2
    <2> QED BY <1>4, <1>5, <2>1
  <1>22. ASSUME Interrupted
        PROVE  Named'
    <2>1. /\ queue' = queue /\ UNCHANGED <<kind, result, holder>>
          /\ pc' = "read" \/ Deliver(held)
      BY <1>22 DEF Interrupted, outbox, tasks
    <2>2. pc' = "asking" => held'.turn = holder'
      BY <2>1, DeliverFacts
    <2> QED BY <1>4, <2>1, <2>2
  <1>23. ASSUME InterruptFails
        PROVE  Named'
    <2>1. UNCHANGED <<kind, result>> /\ pc' # "asking" /\ queue' = queue
      BY <1>23 DEF InterruptFails, tasks, outbox
    <2> QED BY <1>4, <2>1
  <1>24. ASSUME GraceExpires
        PROVE  Named'
    <2>1. UNCHANGED <<kind, result>> /\ pc' # "asking" /\ queue' = queue
      BY <1>24 DEF GraceExpires, tasks, outbox
    <2> QED BY <1>4, <2>1
  <1>25. ASSUME RunFails
        PROVE  Named'
    <2>1. UNCHANGED <<kind, result>> /\ pc' # "asking" /\ queue' = queue
      BY <1>25 DEF RunFails, tasks, outbox
    <2> QED BY <1>4, <2>1
  <1>26. ASSUME LastInterrupt
        PROVE  Named'
    <2>1. UNCHANGED <<kind, result>> /\ pc' # "asking" /\ queue' = queue
      BY <1>26 DEF LastInterrupt, tasks, outbox
    <2> QED BY <1>4, <2>1
  <1>27. ASSUME RunEnds
        PROVE  Named'
    <2>1. pc # "idle" /\ (GivesUp \/ TurnCloses) /\ queue' = queue
      BY <1>0, <1>27, GivingUp DEF RunEnds, outbox
    <2>2. CASE TurnCloses
      BY <1>4, <2>1, <2>2 DEF TurnCloses, tasks
    <2> QED BY <1>4, <1>7, <2>1, <2>2
  <1>28. ASSUME CompactSent
        PROVE  Named'
    <2>1. UNCHANGED <<kind, result>> /\ pc' # "asking" /\ queue' = queue
      BY <1>28 DEF CompactSent, tasks, outbox
    <2> QED BY <1>4, <2>1
  <1>29. ASSUME CompactBound
        PROVE  Named'
    <2>1. UNCHANGED <<kind, result>> /\ pc' # "asking" /\ queue' = queue
      BY <1>29 DEF CompactBound, Goto, tasks, outbox
    <2> QED BY <1>4, <2>1
  <1>30. ASSUME CompactNotStarted
        PROVE  Named'
    <2>1. pc # "idle" /\ (GivesUp \/ TurnCloses) /\ queue' = queue
      BY <1>0, <1>30, GivingUp DEF CompactNotStarted, outbox
    <2>2. CASE TurnCloses
      BY <1>4, <2>1, <2>2 DEF TurnCloses, tasks
    <2> QED BY <1>4, <1>7, <2>1, <2>2
  <1>31. ASSUME CompactReads
        PROVE  Named'
    <2>1. /\ pc = "compact_read" /\ queue # <<>> /\ queue' = Tail(queue)
          /\ GivesUp \/ UNCHANGED <<tasks, coroutine>>
      BY <1>0, <1>31, GivingUp
    <2>2. CASE UNCHANGED <<tasks, coroutine>>
      BY <1>5, <2>1, <2>2 DEF tasks, coroutine
    <2> QED BY <1>5, <1>7, <2>1, <2>2
  <1>32. ASSUME CompactTimesOut
        PROVE  Named'
    <2>1. pc # "idle" /\ (GivesUp \/ TurnCloses) /\ queue' = queue
      BY <1>0, <1>32, GivingUp DEF CompactTimesOut, outbox
    <2>2. CASE TurnCloses
      BY <1>4, <2>1, <2>2 DEF TurnCloses, tasks
    <2> QED BY <1>4, <1>7, <2>1, <2>2
  <1>33. ASSUME Mapping
        PROVE  Named'
    <2>1. Mapped /\ MappedEvents
      BY <1>0, <1>33, MappingMaps
    <2>2. UNCHANGED <<kind, result, pc, held, holder>>
      BY <1>33, MappingRest DEF tasks, coroutine
    <2>3. /\ from \in Tasks /\ msg.nat \in 0..MaxNatives /\ kind[from] # "none"
          /\ pc' = "asking" => held'.turn = holder'
      BY <1>0, <2>1, <2>2, Bounded DEF Mapped, Known, Named, Natives
    <2>4. CASE UNCHANGED outbox
      BY <1>4, <2>2, <2>3, <2>4 DEF outbox
    <2> QED BY <1>6, <2>1, <2>2, <2>3, <2>4 DEF MappedEvents
  <1>34. ASSUME RejectFrame
        PROVE  Named'
    <2>1. UNCHANGED <<kind, result, pc, held, holder>>
      BY <1>34 DEF RejectFrame, tasks
    <2>2. queue' = queue \/ queue' = Append(queue, Broken)
      BY <1>34 DEF RejectFrame
    <2>3. pc = "asking" => held.turn = holder
      BY <1>0 DEF Named
    <2> QED BY <1>4, <1>8, <2>1, <2>2, <2>3
  <1>35. ASSUME NEW t \in Tasks, NEW k \in {"turn", "compact"}, NewTask(t, k)
        PROVE  Named'
    <2>1. /\ kind[t] = "none" /\ kind' = [kind EXCEPT ![t] = k]
          /\ result' = result /\ queue' = queue /\ held' = held
          /\ \/ pc' = "start"
             \/ pc' = pc /\ holder' = holder
      BY <1>35 DEF NewTask, Goto, coroutine, outbox
    <2>2. \A u \in Tasks : kind[u] # "none" => kind'[u] = kind[u]
      BY <1>0, <2>1 DEF TypedTasks
    <2>3. \A i \in DOMAIN queue : Fits(queue[i], kind, result)
      BY <1>0 DEF Named
    <2>4. \A i \in DOMAIN queue : Fits(queue[i], kind', result)
      BY <1>1, <2>2, <2>3 DEF Fits
    <2>5. pc' = "asking" => held'.turn = holder'
      BY <1>0, <2>1 DEF Named
    <2> QED BY <2>1, <2>4, <2>5 DEF Named
  <1>36. ASSUME EndClose
        PROVE  Named'
    <2>1. UNCHANGED <<kind, result, pc, held, holder>>
      BY <1>36 DEF EndClose, tasks
    <2>2. queue' = Append(queue, Stop)
      BY <1>36 DEF EndClose
    <2> QED BY <1>8, <2>1, <2>2
  <1>37. CASE CloseByTurn \/ ReadResponse
            \/ (\E t \in Tasks : RequestCancel(t))
            \/ (\E x \in Context : InjectItems(x)) \/ Close \/ Server
            \/ UNCHANGED vars
    <2>1. CloseByTurn \/ ReadResponse \/ (\E t \in Tasks : RequestCancel(t))
          => UNCHANGED <<kind, result, queue, pc, held, holder>>
      BY DEF CloseByTurn, BeginClose, ReadResponse, Consume, RequestCancel,
         coroutine, outbox, tasks
    <2>2. (\E x \in Context : InjectItems(x)) \/ Close
          => UNCHANGED <<kind, result, queue, pc, held, holder>>
      BY DEF InjectItems, Close, BeginClose, coroutine, outbox, tasks
    <2>3. Server \/ UNCHANGED vars
          => UNCHANGED <<kind, result, queue, pc, held, holder>>
      BY ServerFrame DEF vars, coroutine, outbox, tasks
    <2>4. UNCHANGED <<kind, result, queue, pc, held, holder>>
      BY <1>37, <2>1, <2>2, <2>3
    <2> QED BY <1>0, <2>4 DEF Named
  <1> QED
    BY <1>9, <1>10, <1>11, <1>12, <1>13, <1>14, <1>15, <1>16, <1>17, <1>18,
       <1>19, <1>20, <1>21, <1>22, <1>23, <1>24, <1>25, <1>26, <1>27, <1>28,
       <1>29, <1>30, <1>31, <1>32, <1>33, <1>34, <1>35, <1>36, <1>37 DEF Next,
       Running, Deciding, Reader, Mapping, Embedder, Server

\* The events stay in the order of their numbers.
LEMMA RisingStep ==
    ASSUME Inv, [Next]_vars
    PROVE  Rising'
  <1>0. /\ TypedTasks /\ TypedCoroutine /\ TypedOut /\ TypedCor /\ TypedServer
        /\ TypedSeen /\ Placed /\ Asked /\ Known /\ Named /\ Rising
    BY DEF Inv
  <1>1. /\ queue \in Seq(Event) /\ sequence \in Nat /\ held \in Event
        /\ held.seq \in Int /\ last.event.seq \in Int /\ Ordered(queue, sequence)
    BY <1>0 DEF TypedOut, TypedCoroutine, TypedSeen, Event, Rising
  <1>2. ASSUME Ordered(queue', sequence'), Keeps,
               UNCHANGED <<pc, held, last, holder>>
        PROVE  Rising'
    <2>1. \/ pc \in {"auditing", "interrupting"} /\ held.turn # 0
          \/ ~(pc \in {"auditing", "interrupting"} /\ held.turn # 0)
      OBVIOUS
    <2>2. pc \in {"auditing", "interrupting"} /\ held.turn # 0 =>
             /\ After(queue', sequence', held.seq)
             /\ last.to = holder => last.event.seq < held.seq
      BY <1>0, <1>1, <1>2 DEF Rising
    <2>3. last.to # 0 /\ last.to = holder => After(queue', sequence', last.event.seq)
      BY <1>0, <1>1, <1>2 DEF Rising
    <2>4. /\ pc = "auditing" => held.type \in TerminalEvents
          /\ pc = "interrupting" => held.type \notin TerminalEvents
      BY <1>0 DEF Rising
    <2> QED BY <1>2, <2>2, <2>3, <2>4 DEF Rising
  <1>3. ASSUME Ordered(queue', sequence'), Keeps,
               pc' \notin {"auditing", "interrupting"},
               last' = last, holder' = holder \/ last.to # holder'
        PROVE  Rising'
    <2>1. last.to # 0 /\ last.to = holder => After(queue', sequence', last.event.seq)
      BY <1>0, <1>1, <1>3 DEF Rising
    <2> QED BY <1>3, <2>1 DEF Rising
  <1>4. ASSUME Ordered(queue', sequence'), pc' \notin {"auditing", "interrupting"},
               NEW e, Given(e), After(queue', sequence', e.seq)
        PROVE  Rising'
    <2>1. last'.event = e
      BY <1>4 DEF Given
    <2> QED BY <1>4, <2>1 DEF Rising
  <1>5. ASSUME Ordered(queue', sequence'), GivesUp, pc # "idle",
               last' = last \/ last'.to = holder
        PROVE  Rising'
    <2>1. LockPasses
      BY <1>0, <1>5, HolderFacts, Passing
    <2>2. pc' \notin {"auditing", "interrupting"}
      BY <2>1 DEF LockPasses
    <2>3. \A i \in DOMAIN waiting : waiting[i] # last.to /\ waiting[i] # holder
      BY <1>0 DEF Placed
    <2>4. ~(last'.to # 0 /\ last'.to = holder')
      BY <1>5, <2>1, <2>3 DEF LockPasses
    <2> QED BY <1>5, <2>2, <2>4 DEF Rising
  <1>6. ASSUME UNCHANGED outbox
        PROVE  /\ Ordered(queue', sequence')
               /\ Keeps
               /\ queue' = queue
               /\ sequence' = sequence
    BY <1>1, <1>6 DEF outbox
  <1>7. ASSUME queue # <<>>, queue' = Tail(queue), sequence' = sequence
        PROVE  /\ Ordered(queue', sequence') /\ Keeps /\ Head(queue) \in Event
               /\ Head(queue).seq \in Int
               /\ Head(queue).turn # 0 => After(queue', sequence', Head(queue).seq)
               /\ \A n \in Int : After(queue, sequence, n) /\ Head(queue).turn # 0 =>
                     n < Head(queue).seq
    <2>1. /\ Ordered(queue', sequence') /\ Keeps /\ Head(queue) \in Event
          /\ Head(queue).turn # 0 => After(queue', sequence', Head(queue).seq)
          /\ \A n \in Int : After(queue, sequence, n) /\ Head(queue).turn # 0 =>
                n < Head(queue).seq
      BY <1>1, <1>7, TakeOrder
    <2> QED BY <2>1 DEF Event
  <1>8. ASSUME queue' = Append(queue, Stop) \/ queue' = Append(queue, Broken),
               sequence' = sequence
        PROVE  Ordered(queue', sequence') /\ Keeps
    <2>1. PICK e \in Event : queue' = Append(queue, e) /\ e.turn = 0
      BY <1>8, EventFacts
    <2> QED BY <1>1, <1>8, <2>1, EndOrder
  <1>9. ASSUME NEW types \in Seq(EventTypes), NEW t \in Tasks,
               NEW nat \in 0..MaxNatives, Emit(types, t, nat)
        PROVE  Ordered(queue', sequence') /\ Keeps
    <2>1. t \in 0..MaxTasks
      BY Bounded DEF Tasks
    <2> QED BY <1>0, <1>1, <1>9, <2>1, EmitOrder
  <1>10. ASSUME queue # <<>>, queue' = Tail(queue), sequence' = sequence,
                held' = Head(queue), last' = last, holder' = holder, holder # 0,
                \/ pc' = "auditing" /\ Head(queue).type \in TerminalEvents
                \/ pc' = "interrupting" /\ Head(queue).type \notin TerminalEvents
                \/ pc' = "failing"
         PROVE  Rising'
    <2>1. /\ Ordered(queue', sequence') /\ Keeps
          /\ Head(queue).turn # 0 => After(queue', sequence', Head(queue).seq)
          /\ \A n \in Int : After(queue, sequence, n) /\ Head(queue).turn # 0 =>
                n < Head(queue).seq
      BY <1>7, <1>10
    <2>2. last.to # 0 /\ last.to = holder => After(queue, sequence, last.event.seq)
      BY <1>0 DEF Rising
    <2>3. CASE pc' = "failing"
      BY <1>3, <1>10, <2>1, <2>3
    <2>4. CASE pc' # "failing"
      <3>1. last.to = holder => last.to # 0
        BY <1>10
      <3>2. Head(queue).turn # 0 /\ last.to = holder => last.event.seq < Head(queue).seq
        BY <1>1, <2>1, <2>2, <3>1
      <3>3. last.to # 0 /\ last.to = holder => After(queue', sequence', last.event.seq)
        BY <1>1, <2>1, <2>2
      <3> QED BY <1>10, <2>1, <2>4, <3>2, <3>3 DEF Rising
    <2> QED BY <2>3, <2>4
  <1>11. ASSUME EnsureStarted
        PROVE  Rising'
    <2>1. /\ UNCHANGED <<holder, last, outbox>>
          /\ pc' \notin {"auditing", "interrupting"}
      BY <1>11 DEF EnsureStarted, Goto, tasks, seen
    <2> QED BY <1>3, <1>6, <2>1
  <1>12. ASSUME StartFails
        PROVE  Rising'
    <2>1. pc # "idle" /\ (GivesUp \/ TurnCloses) /\ last' = last /\ UNCHANGED outbox
      BY <1>0, <1>12, GivingUp DEF StartFails, seen
    <2>2. CASE TurnCloses
      BY <1>3, <1>6, <2>1, <2>2 DEF TurnCloses, tasks
    <2> QED BY <1>5, <1>6, <2>1, <2>2
  <1>13. ASSUME SendTurn
        PROVE  Rising'
    <2>1. /\ UNCHANGED <<holder, last, outbox>>
          /\ pc' \notin {"auditing", "interrupting"}
      BY <1>13 DEF SendTurn, Goto, tasks, seen
    <2> QED BY <1>3, <1>6, <2>1
  <1>14. ASSUME SendCompact
        PROVE  Rising'
    <2>1. /\ UNCHANGED <<holder, last, outbox>>
          /\ pc' \notin {"auditing", "interrupting"}
      BY <1>14 DEF SendCompact, Goto, tasks, seen
    <2> QED BY <1>3, <1>6, <2>1
  <1>15. ASSUME SendRefused
        PROVE  Rising'
    <2>1. pc # "idle" /\ (GivesUp \/ TurnCloses) /\ last' = last /\ UNCHANGED outbox
      BY <1>0, <1>15, GivingUp DEF SendRefused, seen
    <2>2. CASE TurnCloses
      BY <1>3, <1>6, <2>1, <2>2 DEF TurnCloses, tasks
    <2> QED BY <1>5, <1>6, <2>1, <2>2
  <1>16. ASSUME TurnSent
        PROVE  Rising'
    <2>1. /\ UNCHANGED <<holder, last>> /\ pc' \notin {"auditing", "interrupting"}
          /\ reply.nat \in 0..MaxNatives
      BY <1>0, <1>16 DEF TurnSent, tasks, seen, TypedCoroutine
    <2>2. /\ holder \in Tasks
          /\ \/ UNCHANGED outbox
             \/ \E types \in Seq(EventTypes) : Emit(types, holder, reply.nat)
      BY <1>0, <1>16, TurnSentFacts
    <2>3. /\ Ordered(queue', sequence')
          /\ Keeps
      BY <1>6, <1>9, <2>1, <2>2
    <2> QED BY <1>3, <2>1, <2>3
  <1>17. ASSUME TurnNotSent
        PROVE  Rising'
    <2>1. /\ UNCHANGED <<holder, last, outbox>>
          /\ pc' \notin {"auditing", "interrupting"}
      BY <1>17 DEF TurnNotSent, tasks, seen
    <2> QED BY <1>3, <1>6, <2>1
  <1>18. ASSUME ReadEvent
        PROVE  Rising'
    <2>1. /\ pc = "read" /\ queue # <<>> /\ queue' = Tail(queue) /\ sequence' = sequence
          /\ holder' = holder /\ Deliver(Head(queue))
      BY <1>18 DEF ReadEvent, TakeNext, tasks
    <2>2. holder # 0
      BY <1>0, <2>1, HolderFacts DEF Tasks
    <2>3. /\ Ordered(queue', sequence')
          /\ Keeps
          /\ Head(queue).turn # 0 => After(queue', sequence', Head(queue).seq)
      BY <1>7, <2>1
    <2>4. \/ /\ Head(queue).turn = holder /\ Given(Head(queue))
             /\ pc' \in {"asking", "read"}
          \/ pc' = "failing" /\ last' = last
      BY <2>1, DeliverFacts
    <2> QED BY <1>3, <1>4, <2>1, <2>2, <2>3, <2>4
  <1>19. ASSUME ReadTerminal
        PROVE  Rising'
    <2>1. /\ pc = "read" /\ queue # <<>> /\ queue' = Tail(queue) /\ sequence' = sequence
          /\ Head(queue).type \in TerminalEvents
          /\ \/ GivesUp /\ Given(Head(queue))
             \/ /\ pc' \in {"failing", "auditing"} /\ UNCHANGED <<tasks, last>>
                /\ pc' = "auditing" => held' = Head(queue)
      BY <1>0, <1>19, GivingUp DEF ReadTerminal, TakeNext
    <2>2. /\ Ordered(queue', sequence')
          /\ Keeps
      BY <1>7, <2>1
    <2>3. CASE GivesUp /\ Given(Head(queue))
      BY <1>5, <2>1, <2>2, <2>3 DEF Given
    <2>4. CASE pc' = "failing" /\ UNCHANGED <<tasks, last>>
      BY <1>3, <2>2, <2>4 DEF tasks
    <2>5. CASE pc' = "auditing" /\ UNCHANGED <<tasks, last>> /\ held' = Head(queue)
      <3>1. holder # 0
        BY <1>0, <2>1, HolderFacts DEF Tasks
      <3> QED BY <1>10, <2>1, <2>5, <3>1 DEF tasks
    <2> QED BY <2>1, <2>3, <2>4, <2>5
  <1>20. ASSUME AuditEnds
        PROVE  Rising'
    <2>1. /\ pc # "idle" /\ UNCHANGED outbox
          /\ \/ GivesUp /\ last'.to = holder
             \/ pc' = "failing" /\ UNCHANGED <<tasks, last>>
      BY <1>0, <1>20, GivingUp DEF AuditEnds, Given
    <2>2. CASE pc' = "failing" /\ UNCHANGED <<tasks, last>>
      BY <1>3, <1>6, <2>1, <2>2 DEF tasks
    <2> QED BY <1>5, <1>6, <2>1, <2>2
  <1>21. ASSUME Answer
        PROVE  Rising'
    <2> DEFINE one == <<"resolved">>
    <2>1. /\ pc = "asking" /\ UNCHANGED <<holder, last>> /\ pc' = "read"
          /\ Emit(one, held.turn, held.nat)
      BY <1>21 DEF Answer, tasks, seen
    <2>2. held.turn \in Tasks /\ held.nat \in 0..MaxNatives
      BY <1>0, <2>1, HolderFacts DEF Named, TypedCoroutine, Event
    <2>3. one \in Seq(EventTypes)
      BY DEF EventTypes
    <2> HIDE DEF one
    <2>4. /\ Ordered(queue', sequence')
          /\ Keeps
      BY <1>9, <2>1, <2>2, <2>3
    <2> QED BY <1>3, <2>1, <2>4
  <1>22. ASSUME AnswerFails
        PROVE  Rising'
    <2>1. /\ UNCHANGED <<holder, last, outbox>>
          /\ pc' \notin {"auditing", "interrupting"}
      BY <1>22 DEF AnswerFails, tasks, seen
    <2> QED BY <1>3, <1>6, <2>1
  <1>23. ASSUME CancelTurn
        PROVE  Rising'
    <2>1. /\ pc \in {"read", "auditing"} /\ UNCHANGED <<holder, last>>
          /\ \/ /\ queue # <<>> /\ Head(queue).type \notin TerminalEvents
                /\ held' = Head(queue) /\ queue' = Tail(queue) /\ sequence' = sequence
             \/ held' = None /\ UNCHANGED outbox
      BY <1>23 DEF CancelTurn, TakeNext, tasks, seen
    <2>2. pc' \in {"interrupting", "failing"}
      BY <1>23 DEF CancelTurn, Interrupt
    <2>3. holder # 0
      BY <1>0, <2>1, HolderFacts DEF Tasks
    <2>4. CASE /\ queue # <<>> /\ Head(queue).type \notin TerminalEvents
               /\ held' = Head(queue) /\ queue' = Tail(queue) /\ sequence' = sequence
      BY <1>10, <2>1, <2>2, <2>3, <2>4
    <2>5. CASE held' = None /\ UNCHANGED outbox
      <3>1. /\ held'.turn = 0 /\ held'.type \notin TerminalEvents
        BY <2>5, EventFacts DEF TerminalEvents
      <3>2. last.to # 0 /\ last.to = holder => After(queue, sequence, last.event.seq)
        BY <1>0 DEF Rising
      <3> QED BY <1>1, <1>6, <2>1, <2>2, <2>5, <3>1, <3>2 DEF Rising
    <2> QED BY <2>1, <2>4, <2>5
  <1>24. ASSUME Interrupted
        PROVE  Rising'
    <2>1. /\ pc = "interrupting" /\ UNCHANGED outbox /\ holder' = holder
          /\ (pc' = "read" /\ last' = last) \/ Deliver(held)
      BY <1>24 DEF Interrupted, tasks
    <2>2. holder # 0
      BY <1>0, <2>1, HolderFacts DEF Tasks
    <2>3. held.turn # 0 => After(queue', sequence', held.seq)
      BY <1>0, <1>1, <1>6, <2>1 DEF Rising
    <2>4. \/ /\ held.turn = holder /\ Given(held)
             /\ pc' \in {"asking", "read"}
          \/ pc' \in {"failing", "read"} /\ last' = last
      BY <2>1, DeliverFacts
    <2> QED BY <1>3, <1>4, <1>6, <2>1, <2>2, <2>3, <2>4
  <1>25. ASSUME InterruptFails
        PROVE  Rising'
    <2>1. /\ UNCHANGED <<holder, last, outbox>>
          /\ pc' \notin {"auditing", "interrupting"}
      BY <1>25 DEF InterruptFails, tasks, seen
    <2> QED BY <1>3, <1>6, <2>1
  <1>26. ASSUME GraceExpires
        PROVE  Rising'
    <2>1. /\ UNCHANGED <<holder, last, outbox>>
          /\ pc' \notin {"auditing", "interrupting"}
      BY <1>26 DEF GraceExpires, tasks, seen
    <2> QED BY <1>3, <1>6, <2>1
  <1>27. ASSUME RunFails
        PROVE  Rising'
    <2>1. /\ UNCHANGED <<holder, last, outbox>>
          /\ pc' \notin {"auditing", "interrupting"}
      BY <1>27 DEF RunFails, tasks, seen
    <2> QED BY <1>3, <1>6, <2>1
  <1>28. ASSUME LastInterrupt
        PROVE  Rising'
    <2>1. /\ UNCHANGED <<holder, last, outbox>>
          /\ pc' \notin {"auditing", "interrupting"}
      BY <1>28 DEF LastInterrupt, tasks, seen
    <2> QED BY <1>3, <1>6, <2>1
  <1>29. ASSUME RunEnds
        PROVE  Rising'
    <2>1. pc # "idle" /\ (GivesUp \/ TurnCloses) /\ last' = last /\ UNCHANGED outbox
      BY <1>0, <1>29, GivingUp DEF RunEnds, seen
    <2>2. CASE TurnCloses
      BY <1>3, <1>6, <2>1, <2>2 DEF TurnCloses, tasks
    <2> QED BY <1>5, <1>6, <2>1, <2>2
  <1>30. ASSUME CompactSent
        PROVE  Rising'
    <2>1. /\ UNCHANGED <<holder, last, outbox>>
          /\ pc' \notin {"auditing", "interrupting"}
      BY <1>30 DEF CompactSent, tasks, seen
    <2> QED BY <1>3, <1>6, <2>1
  <1>31. ASSUME CompactBound
        PROVE  Rising'
    <2>1. /\ UNCHANGED <<holder, last, outbox>>
          /\ pc' \notin {"auditing", "interrupting"}
      BY <1>31 DEF CompactBound, Goto, tasks, seen
    <2> QED BY <1>3, <1>6, <2>1
  <1>32. ASSUME CompactNotStarted
        PROVE  Rising'
    <2>1. pc # "idle" /\ (GivesUp \/ TurnCloses) /\ last' = last /\ UNCHANGED outbox
      BY <1>0, <1>32, GivingUp DEF CompactNotStarted, seen
    <2>2. CASE TurnCloses
      BY <1>3, <1>6, <2>1, <2>2 DEF TurnCloses, tasks
    <2> QED BY <1>5, <1>6, <2>1, <2>2
  <1>33. ASSUME CompactReads
        PROVE  Rising'
    <2>1. /\ pc = "compact_read" /\ queue # <<>> /\ queue' = Tail(queue)
          /\ sequence' = sequence
          /\ \/ Head(queue).turn = holder /\ Given(Head(queue))
                /\ (GivesUp \/ UNCHANGED <<tasks, coroutine>>)
             \/ GivesUp /\ UNCHANGED last
      BY <1>0, <1>33, GivingUp DEF CompactReads, TakeNext
    <2>2. holder # 0
      BY <1>0, <2>1, HolderFacts DEF Tasks
    <2>3. /\ Ordered(queue', sequence')
          /\ Head(queue).turn # 0 => After(queue', sequence', Head(queue).seq)
      BY <1>7, <2>1
    <2>4. CASE GivesUp
      BY <1>5, <2>1, <2>3, <2>4 DEF Given
    <2>5. CASE /\ UNCHANGED <<tasks, coroutine>>
               /\ Head(queue).turn = holder /\ Given(Head(queue))
      BY <1>4, <2>1, <2>2, <2>3, <2>5 DEF coroutine
    <2> QED BY <2>1, <2>4, <2>5
  <1>34. ASSUME CompactTimesOut
        PROVE  Rising'
    <2>1. pc # "idle" /\ (GivesUp \/ TurnCloses) /\ last' = last /\ UNCHANGED outbox
      BY <1>0, <1>34, GivingUp DEF CompactTimesOut, seen
    <2>2. CASE TurnCloses
      BY <1>3, <1>6, <2>1, <2>2 DEF TurnCloses, tasks
    <2> QED BY <1>5, <1>6, <2>1, <2>2
  <1>35. ASSUME Mapping
        PROVE  Rising'
    <2>1. Mapped /\ MappedEvents
      BY <1>0, <1>35, MappingMaps
    <2>2. UNCHANGED <<pc, held, last, holder>>
      BY <1>35, MappingRest DEF tasks, coroutine, seen
    <2>3. from \in Tasks /\ msg.nat \in 0..MaxNatives
      BY <2>1, Bounded DEF Mapped, Natives
    <2>4. /\ Ordered(queue', sequence')
          /\ Keeps
      BY <1>6, <1>9, <2>1, <2>3 DEF MappedEvents
    <2> QED BY <1>2, <2>2, <2>4
  <1>36. ASSUME RejectFrame
        PROVE  Rising'
    <2>1. UNCHANGED <<pc, held, last, holder>> /\ sequence' = sequence
      BY <1>36 DEF RejectFrame, tasks, seen
    <2>2. queue' = queue \/ queue' = Append(queue, Broken)
      BY <1>36 DEF RejectFrame
    <2>3. CASE queue' = queue
      BY <1>2, <1>6, <2>1, <2>3 DEF outbox
    <2> QED BY <1>2, <1>8, <2>1, <2>2, <2>3
  <1>37. ASSUME NEW t \in Tasks, NEW k \in {"turn", "compact"}, NewTask(t, k)
        PROVE  Rising'
    <2>1. /\ kind[t] = "none" /\ UNCHANGED <<outbox, last, held>>
          /\ \/ holder' = t /\ pc' = "start"
             \/ pc' = pc /\ holder' = holder
      BY <1>37 DEF NewTask, Goto, coroutine, seen
    <2>2. last.to # t
      <3>1. last.to # 0 => kind[last.to] # "none"
        BY <1>0 DEF Placed
      <3>2. t # 0
        BY DEF Tasks
      <3> QED BY <2>1, <3>1, <3>2
    <2> QED BY <1>2, <1>3, <1>6, <2>1, <2>2
  <1>38. ASSUME EndClose
        PROVE  Rising'
    <2>1. UNCHANGED <<pc, held, last, holder>> /\ sequence' = sequence
      BY <1>38 DEF EndClose, tasks, seen
    <2>2. queue' = Append(queue, Stop)
      BY <1>38 DEF EndClose
    <2> QED BY <1>2, <1>8, <2>1, <2>2
  <1>39. CASE CloseByTurn \/ ReadResponse
            \/ (\E t \in Tasks : RequestCancel(t))
            \/ (\E x \in Context : InjectItems(x)) \/ Close \/ Server
            \/ UNCHANGED vars
    <2>1. CloseByTurn \/ ReadResponse \/ (\E t \in Tasks : RequestCancel(t))
          => UNCHANGED <<queue, sequence, pc, held, last, holder>>
      BY DEF CloseByTurn, BeginClose, ReadResponse, Consume, RequestCancel,
         coroutine, outbox, seen, tasks
    <2>2. (\E x \in Context : InjectItems(x)) \/ Close
          => UNCHANGED <<queue, sequence, pc, held, last, holder>>
      BY DEF InjectItems, Close, BeginClose, coroutine, outbox, seen, tasks
    <2>3. Server \/ UNCHANGED vars
          => UNCHANGED <<queue, sequence, pc, held, last, holder>>
      BY ServerFrame DEF vars, coroutine, outbox, seen, tasks
    <2>4. UNCHANGED <<queue, sequence, pc, held, last, holder>>
      BY <1>39, <2>1, <2>2, <2>3
    <2> QED BY <1>0, <2>4 DEF Rising, Ordered, After
  <1> QED
    BY <1>11, <1>12, <1>13, <1>14, <1>15, <1>16, <1>17, <1>18, <1>19, <1>20,
       <1>21, <1>22, <1>23, <1>24, <1>25, <1>26, <1>27, <1>28, <1>29, <1>30,
       <1>31, <1>32, <1>33, <1>34, <1>35, <1>36, <1>37, <1>38, <1>39 DEF Next,
       Running, Deciding, Reader, Mapping, Embedder, Server

\* An injected item waits for one turn to carry it.
LEMMA CarriedStep ==
    ASSUME Inv, [Next]_vars
    PROVE  Carried'
  <1>0. TypedTasks /\ TypedCoroutine /\ TypedSeen /\ Placed /\ Carried
    BY DEF Inv
  <1>1. ASSUME UNCHANGED <<injected, carried, pending>>, closed => closed',
               pc = "closing" => pc' = "closing" \/ closed'
        PROVE  Carried'
    BY <1>0, <1>1 DEF Carried
  <1>2. ASSUME EnsureStarted
        PROVE  Carried'
    <2>1. UNCHANGED <<injected, carried, pending, closed>> /\ pc # "closing"
      BY <1>2 DEF EnsureStarted, seen, control
    <2> QED BY <1>1, <2>1
  <1>3. ASSUME StartFails
        PROVE  Carried'
    <2>1. /\ UNCHANGED <<injected, carried, pending, closed>>
          /\ pc # "closing" \/ closed
      BY <1>3 DEF StartFails, seen, control
    <2> QED BY <1>1, <2>1
  <1>4. ASSUME SendTurn
        PROVE  Carried'
    <2>1. /\ pc = "send" /\ pending' = {} /\ UNCHANGED <<injected, closed>>
          /\ carried' = [x \in Context |->
                           carried[x] \cup IF x \in pending THEN {holder} ELSE {}]
      BY <1>4 DEF SendTurn
    <2>2. holder \in Tasks
      BY <1>0, <2>1, HolderFacts
    <2>3. \A x \in Context :
             \/ x \in pending /\ carried'[x] = {holder}
             \/ x \notin pending /\ carried'[x] = carried[x]
      BY <1>0, <2>1 DEF Carried
    <2>4. ASSUME NEW x \in Context
          PROVE  /\ x \notin injected => carried'[x] = {}
                 /\ carried'[x] = {} \/ \E t \in Tasks : carried'[x] = {t}
                 /\ x \in injected /\ carried'[x] = {} => closed
      BY <1>0, <2>1, <2>2, <2>3 DEF Carried
    <2> QED BY <2>1, <2>4 DEF Carried
  <1>5. ASSUME SendCompact
        PROVE  Carried'
    <2>1. UNCHANGED <<injected, carried, pending, closed>> /\ pc # "closing"
      BY <1>5 DEF SendCompact, seen, control
    <2> QED BY <1>1, <2>1
  <1>6. ASSUME SendRefused
        PROVE  Carried'
    <2>1. /\ pc = "send" /\ UNCHANGED <<injected, carried, closed>>
          /\ pending' \in {pending, {}} /\ Fails
          /\ kind[holder] = "compact" => pending' = pending
      BY <1>6 DEF SendRefused, seen
    <2>2. pending' = pending \/ pc' = "closing"
      <3>1. kind[holder] \in {"turn", "compact"}
        BY <1>0, <2>1, HolderFacts
      <3> QED BY <2>1, <3>1 DEF Fails, Goto
    <2> QED BY <1>0, <2>1, <2>2 DEF Carried
  <1>7. ASSUME TurnSent
        PROVE  Carried'
    <2>1. UNCHANGED <<injected, carried, pending, closed>> /\ pc # "closing"
      BY <1>7 DEF TurnSent, seen, control
    <2> QED BY <1>1, <2>1
  <1>8. ASSUME TurnNotSent
        PROVE  Carried'
    <2>1. UNCHANGED <<injected, carried, pending, closed>> /\ pc # "closing"
      BY <1>8 DEF TurnNotSent, seen, control
    <2> QED BY <1>1, <2>1
  <1>9. ASSUME ReadEvent
        PROVE  Carried'
    <2>1. UNCHANGED <<injected, carried, pending, closed>> /\ pc # "closing"
      BY <1>9 DEF ReadEvent, seen, control
    <2> QED BY <1>1, <2>1
  <1>10. ASSUME ReadTerminal
        PROVE  Carried'
    <2>1. /\ UNCHANGED <<injected, carried, pending, closed>>
          /\ pc # "closing" \/ closed
      BY <1>10 DEF ReadTerminal, seen, control
    <2> QED BY <1>1, <2>1
  <1>11. ASSUME AuditEnds
        PROVE  Carried'
    <2>1. /\ UNCHANGED <<injected, carried, pending, closed>>
          /\ pc # "closing" \/ closed
      BY <1>11 DEF AuditEnds, seen, control
    <2> QED BY <1>1, <2>1
  <1>12. ASSUME Answer
        PROVE  Carried'
    <2>1. UNCHANGED <<injected, carried, pending, closed>> /\ pc # "closing"
      BY <1>12 DEF Answer, seen, control
    <2> QED BY <1>1, <2>1
  <1>13. ASSUME AnswerFails
        PROVE  Carried'
    <2>1. UNCHANGED <<injected, carried, pending, closed>> /\ pc # "closing"
      BY <1>13 DEF AnswerFails, seen, control
    <2> QED BY <1>1, <2>1
  <1>14. ASSUME CancelTurn
        PROVE  Carried'
    <2>1. UNCHANGED <<injected, carried, pending, closed>> /\ pc # "closing"
      BY <1>14 DEF CancelTurn, seen, control
    <2> QED BY <1>1, <2>1
  <1>15. ASSUME Interrupted
        PROVE  Carried'
    <2>1. UNCHANGED <<injected, carried, pending, closed>> /\ pc # "closing"
      BY <1>15 DEF Interrupted, seen, control
    <2> QED BY <1>1, <2>1
  <1>16. ASSUME InterruptFails
        PROVE  Carried'
    <2>1. UNCHANGED <<injected, carried, pending, closed>> /\ pc # "closing"
      BY <1>16 DEF InterruptFails, seen, control
    <2> QED BY <1>1, <2>1
  <1>17. ASSUME GraceExpires
        PROVE  Carried'
    <2>1. UNCHANGED <<injected, carried, pending, closed>> /\ pc # "closing"
      BY <1>17 DEF GraceExpires, seen, control
    <2> QED BY <1>1, <2>1
  <1>18. ASSUME RunFails
        PROVE  Carried'
    <2>1. UNCHANGED <<injected, carried, pending, closed>> /\ pc # "closing"
      BY <1>18 DEF RunFails, seen, control
    <2> QED BY <1>1, <2>1
  <1>19. ASSUME LastInterrupt
        PROVE  Carried'
    <2>1. UNCHANGED <<injected, carried, pending, closed>> /\ pc # "closing"
      BY <1>19 DEF LastInterrupt, seen, control
    <2> QED BY <1>1, <2>1
  <1>20. ASSUME CloseByTurn
        PROVE  Carried'
    <2>1. UNCHANGED <<injected, carried, pending>> /\ closed' = TRUE
      BY <1>20 DEF CloseByTurn, BeginClose, seen
    <2> QED BY <1>1, <2>1
  <1>21. ASSUME RunEnds
        PROVE  Carried'
    <2>1. /\ UNCHANGED <<injected, carried, pending, closed>>
          /\ pc # "closing" \/ closed
      BY <1>21 DEF RunEnds, seen, control
    <2> QED BY <1>1, <2>1
  <1>22. ASSUME CompactSent
        PROVE  Carried'
    <2>1. UNCHANGED <<injected, carried, pending, closed>> /\ pc # "closing"
      BY <1>22 DEF CompactSent, seen, control
    <2> QED BY <1>1, <2>1
  <1>23. ASSUME CompactBound
        PROVE  Carried'
    <2>1. UNCHANGED <<injected, carried, pending, closed>> /\ pc # "closing"
      BY <1>23 DEF CompactBound, seen, control
    <2> QED BY <1>1, <2>1
  <1>24. ASSUME CompactNotStarted
        PROVE  Carried'
    <2>1. /\ UNCHANGED <<injected, carried, pending, closed>>
          /\ pc # "closing" \/ closed
      BY <1>24 DEF CompactNotStarted, seen, control
    <2> QED BY <1>1, <2>1
  <1>25. ASSUME CompactReads
        PROVE  Carried'
    <2>1. /\ UNCHANGED <<injected, carried, pending, closed>>
          /\ pc # "closing" \/ closed
      BY <1>25 DEF CompactReads, seen, control
    <2> QED BY <1>1, <2>1
  <1>26. ASSUME CompactTimesOut
        PROVE  Carried'
    <2>1. /\ UNCHANGED <<injected, carried, pending, closed>>
          /\ pc # "closing" \/ closed
      BY <1>26 DEF CompactTimesOut, seen, control
    <2> QED BY <1>1, <2>1
  <1>27. ASSUME NEW t \in Tasks, NEW k \in {"turn", "compact"}, NewTask(t, k)
        PROVE  Carried'
    <2>1. /\ UNCHANGED <<injected, carried, pending, closed>>
          /\ pc' = pc \/ holder = 0
      BY <1>27 DEF NewTask, coroutine, seen, control
    <2>2. holder = 0 => pc # "closing"
      BY <1>0 DEF Placed
    <2> QED BY <1>1, <2>1, <2>2
  <1>28. ASSUME NEW x \in Context, InjectItems(x)
        PROVE  Carried'
    <2>1. /\ x \notin injected /\ pending' = pending \cup {x}
          /\ injected' = injected \cup {x} /\ UNCHANGED <<carried, closed, pc>>
      BY <1>28 DEF InjectItems, coroutine
    <2> QED BY <1>0, <2>1 DEF Carried
  <1>29. ASSUME Close
        PROVE  Carried'
    <2>1. UNCHANGED <<injected, carried, pending>> /\ closed' = TRUE
      BY <1>29 DEF Close, BeginClose, seen
    <2> QED BY <1>1, <2>1
  <1>30. CASE ReadResponse \/ Mapping \/ RejectFrame
            \/ (\E t \in Tasks : RequestCancel(t)) \/ EndClose \/ Server
            \/ UNCHANGED vars
    <2>1. ReadResponse \/ RejectFrame \/ (\E t \in Tasks : RequestCancel(t))
          => UNCHANGED <<injected, pending, carried, closed, pc>>
      BY DEF ReadResponse, Consume, RejectFrame, RequestCancel, control,
         coroutine, seen
    <2>2. EndClose
          => UNCHANGED <<injected, pending, carried, closed, pc>>
      BY DEF EndClose, control, coroutine, seen
    <2>3. Server \/ Mapping \/ UNCHANGED vars
          => UNCHANGED <<injected, pending, carried, closed, pc>>
      BY ServerFrame, MappingRest DEF vars, control, coroutine, seen
    <2>4. UNCHANGED <<injected, pending, carried, closed, pc>>
      BY <1>30, <2>1, <2>2, <2>3
    <2> QED BY <1>0, <2>4 DEF Carried
  <1> QED
    BY <1>2, <1>3, <1>4, <1>5, <1>6, <1>7, <1>8, <1>9, <1>10, <1>11, <1>12,
       <1>13, <1>14, <1>15, <1>16, <1>17, <1>18, <1>19, <1>20, <1>21, <1>22,
       <1>23, <1>24, <1>25, <1>26, <1>27, <1>28, <1>29, <1>30 DEF Next,
       Running, Deciding, Reader, Mapping, Embedder, Server

-----------------------------------------------------------------------------
(* The invariant *)

\* The invariant holds at first.
LEMMA InvInit == Init => Inv
  <1> SUFFICES ASSUME Init PROVE Inv
    OBVIOUS
  <1>1. /\ 0 \in 0..MaxTasks /\ 0 \in 0..MaxNatives /\ 1 \in 1..(MaxNatives + 1)
        /\ Hosts \subseteq {"isolated", "session"}
    BY Bounded
  <1>2. /\ TypedTasks
        /\ waiting = <<>> /\ DOMAIN waiting = {} /\ holder = 0
    BY <1>1 DEF Init, TypedTasks, Results
  <1>3. TypedControl /\ TypedLink
    BY <1>1 DEF Init, TypedControl, TypedLink
  <1>4. TypedCoroutine
    BY <1>1, EventFacts DEF Init, TypedCoroutine, Places, NoReply
  <1>5. /\ queue = <<>> /\ DOMAIN queue = {} /\ sequence = 0 /\ rpcs = {} /\ asks = {}
        /\ <<>> \in Seq(Event)
    BY DEF Init
  <1>6. TypedOut
    BY <1>5 DEF TypedOut
  <1>7. TypedCor /\ cor = NoTurns
    BY <1>1 DEF Init, TypedCor, NoTurns, Correlations
  <1>8. srv \in Servers /\ srv.nat = 0
    BY <1>1 DEF Init, Servers
  <1>9. TypedServer /\ Working
    <2>1. toServer = <<>> /\ fromServer = <<>>
      BY DEF Init
    <2>2. <<>> \in Seq(Requests) /\ <<>> \in Seq(Frames)
      OBVIOUS
    <2> QED BY <1>8, <2>1, <2>2 DEF TypedServer, Working
  <1>10. TypedSeen /\ last.to = 0
    BY <1>1, EventFacts DEF Init, TypedSeen
  <1>11. Placed /\ Cancelling /\ Asked
    BY <1>2, <1>5, <1>10 DEF Init, Placed, Cancelling, Asked, TurnPlaces,
       CompactPlaces
  <1>12. Known
    BY <1>7 DEF Known, Refers, NoTurns, Tasks
  <1>13. Named /\ Rising
    BY <1>5, <1>10 DEF Init, Named, Rising, Ordered
  <1>14. Carried
    BY DEF Init, Carried
  <1> QED BY <1>2, <1>3, <1>4, <1>6, <1>7, <1>9, <1>10, <1>11, <1>12, <1>13,
         <1>14
          DEF Inv

\* The invariant holds in every reachable state.
THEOREM ConversationInvariant == Spec => []Inv
  <1>1. Inv /\ [Next]_vars => Inv'
    <2> SUFFICES ASSUME Inv, [Next]_vars PROVE Inv'
      OBVIOUS
    <2>1. TypedTasks' /\ TypedControl' /\ TypedCoroutine' /\ TypedLink'
      BY TypedTasksStep, TypedControlStep, TypedCoroutineStep, TypedLinkStep
    <2>2. TypedOut' /\ TypedCor' /\ TypedServer' /\ TypedSeen'
      BY TypedOutStep, TypedCorStep, TypedServerStep, TypedSeenStep
    <2>3. Working' /\ Placed' /\ Cancelling' /\ Asked'
      BY WorkingStep, PlacedStep, CancellingStep, AskedStep
    <2>4. Known' /\ Named' /\ Rising' /\ Carried'
      BY KnownStep, NamedStep, RisingStep, CarriedStep
    <2> QED BY <2>1, <2>2, <2>3, <2>4 DEF Inv
  <1> QED BY <1>1, InvInit, PTL DEF Spec

\* Every variable has its type.
THEOREM TypeCorrect == Spec => []TypeOK
  <1>1. Inv => TypeOK
    <2> SUFFICES ASSUME Inv PROVE TypeOK
      OBVIOUS
    <2>1. /\ TypedTasks /\ TypedControl /\ TypedCoroutine /\ TypedLink /\ TypedOut
          /\ TypedCor /\ TypedServer /\ TypedSeen /\ (pc = "idle") = (holder = 0)
      BY DEF Inv, Placed
    <2>2. {closed, started, interrupted, reader, fatal, late} \subseteq BOOLEAN
      BY <2>1 DEF TypedControl, TypedCoroutine, TypedLink, TypedSeen
    <2>3. /\ cor.starting \in 0..MaxTasks /\ cor.active \in 0..MaxTasks
          /\ cor.native \in [Tasks -> 0..MaxNatives]
          /\ cor.local \in [Natives -> 0..MaxTasks]
      BY <2>1 DEF TypedCor, Correlations
    <2>4. Requests \subseteq Request
      <3>1. 0 \in 0..MaxNatives /\ Natives \subseteq 0..MaxNatives
        BY Bounded DEF Natives
      <3> QED BY <3>1 DEF Requests, Request, Ops
    <2>5. Frames \subseteq Frame
      <3>1. /\ 0 \in 0..MaxNatives /\ Natives \subseteq 0..MaxNatives
            /\ 0 \in 0..MaxTasks /\ Tasks \subseteq 0..MaxTasks
        BY Bounded DEF Natives, Tasks
      <3>2. Notes \subseteq Frame
        BY <3>1 DEF Notes, Frame
      <3>3. Begun \subseteq Frame /\ Others \subseteq Frame
        BY <3>1 DEF Begun, Others, Frame, Ops
      <3> QED BY <3>2, <3>3 DEF Frames
    <2>6. toServer \in Seq(Request) /\ fromServer \in Seq(Frame)
      <3>1. toServer \in Seq(Requests) /\ fromServer \in Seq(Frames)
        BY <2>1 DEF TypedServer
      <3>2. \A S, T : S \subseteq T => \A s \in Seq(S) : s \in Seq(T)
        OBVIOUS
      <3> QED BY <2>4, <2>5, <3>1, <3>2
    <2> QED BY <2>1, <2>2, <2>3, <2>6
            DEF TypeOK, TypedTasks, TypedControl, TypedCoroutine, TypedLink,
                  TypedOut
  <1> QED BY <1>1, ConversationInvariant, PTL

\* An injected item goes into at most one turn, and is not lost while the
\* controller is open: it waits, or a turn carries it.
THEOREM InjectedOnce == Spec => []ContextOnce
  <1>1. Inv => ContextOnce
    <2> SUFFICES ASSUME Inv, NEW x \in Context
                 PROVE  /\ Cardinality(carried[x]) <= 1
                        /\ x \in injected /\ carried[x] = {} /\ x \notin pending =>
                              closed \/ pc = "closing"
      BY DEF ContextOnce
    <2>1. /\ carried[x] = {} \/ \E t \in Tasks : carried[x] = {t}
          /\ x \in injected /\ carried[x] = {} /\ x \notin pending =>
                closed \/ pc = "closing"
      BY DEF Inv, Carried
    <2>2. CASE carried[x] = {}
      <3>1. Cardinality({}) = 0
        BY FS_EmptySet
      <3> QED BY <2>1, <2>2, <3>1
    <2>3. ASSUME NEW t \in Tasks, carried[x] = {t}
          PROVE  Cardinality(carried[x]) <= 1
      <3>1. Cardinality({t}) = 1
        BY FS_Singleton
      <3> QED BY <2>3, <3>1
    <2> QED BY <2>1, <2>2, <2>3
  <1> QED BY <1>1, ConversationInvariant, PTL

-----------------------------------------------------------------------------
(* What the conversation promises *)

\* The tasks asked for and not ended: the holder, and those behind it.
Line == IF holder = 0 THEN <<>> ELSE <<holder>> \o waiting

\* A task in front of a sequence of tasks.
LEMMA Fronted ==
    ASSUME NEW t \in Tasks, NEW s \in Seq(Tasks)
    PROVE  /\ <<t>> \o s \in Seq(Tasks) /\ <<t>> \o s # <<>>
           /\ Head(<<t>> \o s) = t /\ Tail(<<t>> \o s) = s
  <1> DEFINE one == <<t>>
             whole == one \o s
  <1>1. one \in Seq(Tasks) /\ Len(one) = 1 /\ one[1] = t
    OBVIOUS
  <1> HIDE DEF one
  <1>2. Len(s) \in Nat
    BY LenProperties
  <1>3. /\ whole \in Seq(Tasks) /\ Len(whole) = 1 + Len(s)
        /\ \A i \in 1..(1 + Len(s)) :
              whole[i] = IF i <= 1 THEN one[i] ELSE s[i - 1]
    <2>1. /\ one \o s \in Seq(Tasks) /\ Len(one \o s) = Len(one) + Len(s)
          /\ \A i \in 1..(Len(one) + Len(s)) :
                (one \o s)[i] = IF i <= Len(one) THEN one[i] ELSE s[i - Len(one)]
      BY <1>1, ConcatProperties
    <2> QED BY <1>1, <2>1
  <1> HIDE DEF whole
  <1>4. whole # <<>> /\ Head(whole) = whole[1]
    BY <1>2, <1>3
  <1>5. whole[1] = t
    BY <1>1, <1>2, <1>3
  <1>6. /\ Tail(whole) \in Seq(Tasks) /\ Len(Tail(whole)) = Len(s)
        /\ \A i \in 1..Len(Tail(whole)) : Tail(whole)[i] = whole[i + 1]
    BY <1>2, <1>3, <1>4, HeadTailProperties
  <1>7. \A i \in 1..Len(s) : i + 1 \in 1..(1 + Len(s)) /\ ~(i + 1 <= 1) /\ (i + 1) - 1 = i
    BY <1>2
  <1>8. \A i \in 1..Len(s) : Tail(whole)[i] = s[i]
    BY <1>3, <1>6, <1>7
  <1>9. Tail(whole) = s
    BY <1>6, <1>8, SeqEqual
  <1> QED BY <1>3, <1>4, <1>5, <1>9 DEF whole, one

\* A sequence is its head in front of its tail.
LEMMA Refronted ==
    ASSUME NEW s \in Seq(Tasks), s # <<>>
    PROVE  <<Head(s)>> \o Tail(s) = s
  <1> DEFINE one == <<Head(s)>>
             rest == Tail(s)
  <1>1. /\ Head(s) \in Tasks /\ Head(s) = s[1] /\ rest \in Seq(Tasks)
        /\ Len(s) \in Nat \ {0} /\ Len(rest) = Len(s) - 1
        /\ \A i \in 1..Len(rest) : rest[i] = s[i + 1]
    BY HeadTailProperties, EmptySeq
  <1>2. one \in Seq(Tasks) /\ Len(one) = 1 /\ one[1] = s[1]
    BY <1>1
  <1> HIDE DEF one, rest
  <1>3. /\ one \o rest \in Seq(Tasks) /\ Len(one \o rest) = 1 + Len(rest)
        /\ \A i \in 1..(1 + Len(rest)) :
              (one \o rest)[i] = IF i <= 1 THEN one[i] ELSE rest[i - 1]
    <2>1. /\ one \o rest \in Seq(Tasks) /\ Len(one \o rest) = Len(one) + Len(rest)
          /\ \A i \in 1..(Len(one) + Len(rest)) : (one \o rest)[i] =
                IF i <= Len(one) THEN one[i] ELSE rest[i - Len(one)]
      BY <1>1, <1>2, ConcatProperties
    <2> QED BY <1>2, <2>1
  <1>4. ASSUME NEW i \in 1..Len(s)
        PROVE  (one \o rest)[i] = s[i]
    <2>1. CASE i = 1
      BY <1>1, <1>2, <1>3, <2>1
    <2>2. CASE i # 1
      <3>1. /\ i - 1 \in 1..Len(rest) /\ (i - 1) + 1 = i /\ ~(i <= 1)
            /\ i \in 1..(1 + Len(rest))
        BY <1>1, <2>2
      <3> QED BY <1>1, <1>3, <3>1
    <2> QED BY <2>1, <2>2
  <1>5. Len(one \o rest) = Len(s)
    BY <1>1, <1>3
  <1>6. one \o rest = s
    BY <1>3, <1>4, <1>5, SeqEqual
  <1> QED BY <1>6 DEF one, rest

\* Who is first in the line has the lock, and the line moves when it ends.
LEMMA LineFacts ==
    ASSUME TypedTasks, holder \in Tasks
    PROVE  /\ Line # <<>> /\ Head(Line) = holder /\ Tail(Line) = waiting
           /\ \A r : Release(r) => Line' = waiting
  <1>1. holder # 0 /\ waiting \in Seq(Tasks)
    BY DEF TypedTasks, Tasks
  <1>2. Line # <<>> /\ Head(Line) = holder /\ Tail(Line) = waiting
    BY <1>1, Fronted DEF Line
  <1>3. ASSUME NEW r, Release(r)
        PROVE  Line' = waiting
    <2>1. CASE waiting = <<>>
      BY <1>3, <2>1 DEF Release, Line
    <2>2. CASE waiting # <<>>
      <3>1. holder' = Head(waiting) /\ waiting' = Tail(waiting)
        BY <1>3, <2>2 DEF Release
      <3>2. Head(waiting) \in Tasks
        BY <1>1, <2>2, HeadTailProperties
      <3>3. holder' # 0
        BY <3>1, <3>2 DEF Tasks
      <3> QED BY <1>1, <2>2, <3>1, <3>3, Refronted DEF Line
    <2> QED BY <2>1, <2>2
  <1> QED BY <1>2, <1>3

\* A new task is the last in the line.
LEMMA LineGrows ==
    ASSUME TypedTasks, Placed, NEW t \in Tasks, NEW k, NewTask(t, k)
    PROVE  Line' = Append(Line, t)
  <1>1. t # 0 /\ waiting \in Seq(Tasks)
    BY DEF Tasks, TypedTasks
  <1>2. CASE holder = 0
    <2>1. holder' = t /\ waiting' = <<>>
      BY <1>2 DEF NewTask, Placed
    <2>2. <<t>> \o <<>> = <<t>> /\ Append(<<>>, t) = <<t>>
      <3>1. <<t>> \in Seq(Tasks)
        OBVIOUS
      <3> QED BY <3>1, ConcatEmptySeq
    <2> QED BY <1>1, <1>2, <2>1, <2>2 DEF Line
  <1>3. CASE holder # 0
    <2>1. holder' = holder /\ waiting' = Append(waiting, t)
      BY <1>3 DEF NewTask
    <2>2. holder \in Tasks
      BY <1>3 DEF TypedTasks, Tasks
    <2>3. <<holder>> \in Seq(Tasks) /\ <<t>> \in Seq(Tasks)
      BY <2>2
    <2>4. \A s \in Seq(Tasks) : Append(s, t) = s \o <<t>>
      BY AppendIsConcat
    <2>5. <<holder>> \o waiting \in Seq(Tasks)
      BY <1>1, <2>2, Fronted
    <2>6. (<<holder>> \o waiting) \o <<t>> = <<holder>> \o (waiting \o <<t>>)
      BY <1>1, <2>3, ConcatAssociative
    <2>7. Append(<<holder>> \o waiting, t) = <<holder>> \o Append(waiting, t)
      BY <1>1, <2>4, <2>5, <2>6
    <2> QED BY <1>3, <2>1, <2>7 DEF Line
  <1> QED BY <1>2, <1>3

\* The conversation as TurnService sees it.
Shown == <<holder, waiting, kind, result, last, cancelled, closed>>

\* A step that changes none of it is a stutter of the service.
LEMMA Quiet == UNCHANGED Shown => UNCHANGED Service!serviceVars
  BY DEF Shown, Service!serviceVars

\* A terminal event, or the completed compaction, that the holder ends with.
LEMMA EndServes ==
    ASSUME TypedTasks, holder \in Tasks, NEW e, Given(e), last' # last,
           NEW r, Release(r), closed' = closed,
           \/ kind[holder] = "turn" /\ e.type \in TerminalEvents
           \/ kind[holder] = "compact" /\ e.type = "compacted",
           r = CASE e.type = "completed"   -> "completed"
                 [] e.type = "interrupted" -> "cancelled"
                 [] e.type = "compacted"   -> "completed"
                 [] OTHER                  -> "failed"
    PROVE  Service!End
  <1>1. Line # <<>> /\ Head(Line) = holder /\ Tail(Line) = waiting /\ Line' = waiting
    BY LineFacts
  <1>2. last'.to = holder /\ last'.event = e
    BY DEF Given
  <1>3. Service!Shows
    BY <1>1, <1>2 DEF Service!Shows, Line
  <1>4. last'.event.type \in Service!Last
    <2>1. CASE kind[holder] = "turn" /\ e.type \in TerminalEvents
      BY <1>1, <1>2, <2>1 DEF Service!Last, Service!Terminal, TerminalEvents,
         Line
    <2>2. CASE kind[holder] = "compact" /\ e.type = "compacted"
      BY <1>1, <1>2, <2>2 DEF Service!Last, Line
    <2> QED BY <2>1, <2>2
  <1>5. Service!Outcome(last'.event.type) = r
    <2>1. e.type \in {"completed", "interrupted", "failed", "compacted"}
      BY DEF TerminalEvents
    <2> QED BY <1>2, <2>1 DEF Service!Outcome
  <1>6. /\ result' = [result EXCEPT ![holder] = r]
        /\ kind' = kind /\ cancelled' = cancelled
    BY DEF Release
  <1>7. Service!Ends(r)
    BY <1>1, <1>6 DEF Service!Ends, Line
  <1> QED BY <1>3, <1>4, <1>5, <1>7 DEF Service!End

\* The completed compaction, whether or not the hook denies it then.
LEMMA CompactionServes ==
    ASSUME TypedTasks, holder \in Tasks, NEW e, Given(e), last' # last,
           NEW r \in {"completed", "error"}, Release(r), closed' = closed,
           kind[holder] = "compact", e.type = "compacted"
    PROVE  Service!End
  <1>1. CASE r = "completed"
    BY <1>1, EndServes
  <1>2. CASE r = "error"
    <2>1. Line # <<>> /\ Head(Line) = holder /\ Tail(Line) = waiting /\ Line' = waiting
      BY LineFacts
    <2>2. last'.to = holder /\ last'.event = e
      BY DEF Given
    <2>3. Service!Shows /\ last'.event.type \in Service!Last
      BY <2>1, <2>2 DEF Service!Shows, Service!Last, Line
    <2>4. /\ result' = [result EXCEPT ![holder] = r]
          /\ kind' = kind /\ cancelled' = cancelled
      BY DEF Release
    <2>5. Service!Ends("error")
      BY <1>2, <2>1, <2>4 DEF Service!Ends, Line
    <2> QED BY <2>1, <2>3, <2>5 DEF Service!End, Line
  <1> QED BY <1>1, <1>2

\* The holder ends without a last event of its own.
LEMMA BreakServes ==
    ASSUME TypedTasks, holder \in Tasks, NEW r \in {"error", "cancelled"}, Release(r),
           last' = last, closed' = closed,
           r = "cancelled" => holder \in cancelled,
           kind[holder] = "turn" => closed
    PROVE  Service!Break(r)
  <1>1. Line # <<>> /\ Head(Line) = holder /\ Tail(Line) = waiting /\ Line' = waiting
    BY LineFacts
  <1>2. /\ result' = [result EXCEPT ![holder] = r]
        /\ kind' = kind /\ cancelled' = cancelled
    BY DEF Release
  <1>3. Service!Ends(r)
    BY <1>1, <1>2 DEF Service!Ends, Line
  <1> QED BY <1>1, <1>3 DEF Service!Break, Line

\* An event that is not the last.
LEMMA EventServes ==
    ASSUME TypedTasks, holder \in Tasks, NEW e, Given(e), last' # last,
           e.type \notin TerminalEvents,
           kind[holder] = "compact" => e.type # "compacted",
           UNCHANGED <<holder, waiting, kind, result, cancelled, closed>>
    PROVE  Service!Event
  <1>1. Line # <<>> /\ Head(Line) = holder /\ Line' = Line
    BY LineFacts DEF Line
  <1>2. last'.to = holder /\ last'.event = e
    BY DEF Given
  <1>3. Service!Shows
    BY <1>1, <1>2 DEF Service!Shows, Line
  <1>4. last'.event.type \notin Service!Terminal
    BY <1>2 DEF Service!Terminal, TerminalEvents
  <1> QED BY <1>1, <1>2, <1>3, <1>4 DEF Service!Event, Line

\* What is given to a sink is new to it.
LEMMA GivenIsNew ==
    ASSUME NEW e, Given(e), e.seq \in Int,
           last.to = holder => last.event.seq < e.seq
    PROVE  last' # last
  <1> SUFFICES ASSUME last' = last PROVE FALSE
    OBVIOUS
  <1>1. last.to = holder /\ last.event = e
    BY DEF Given
  <1> QED BY <1>1

\* Every step is one the service may take, or changes nothing it shows.
LEMMA Serves ==
    ASSUME Inv, [Next]_vars
    PROVE  [Service!Next]_(Service!serviceVars)
  <1>0. /\ /\ TypedTasks /\ TypedCoroutine /\ TypedOut /\ TypedSeen /\ Placed
        /\ Cancelling
        /\ Named /\ Rising
    BY DEF Inv
  <1>1. /\ sequence \in Nat /\ held.seq \in Int /\ last.event.seq \in Int
        /\ queue \in Seq(Event)
    BY <1>0 DEF TypedOut, TypedCoroutine, TypedSeen, Event
  <1>2. /\ Service!End => Service!Next
        /\ Service!Event => Service!Next
        /\ Service!Shut => Service!Next
        /\ \A r \in {"error", "cancelled"} : Service!Break(r) => Service!Next
        /\ \A t \in Tasks : Service!Drop(t) => Service!Next
        /\ \A t \in Tasks, k \in {"turn", "compact"} : Service!Ask(t, k) => Service!Next
    BY DEF Service!Next
  <1>3. queue # <<>> =>
          /\ Head(queue) \in Event /\ Head(queue).seq \in Int
          /\ Head(queue) = queue[1] /\ 1 \in DOMAIN queue
    <2>1. queue # <<>> => Head(queue) \in Event /\ Head(queue) = queue[1]
      BY <1>1, HeadTailProperties
    <2>2. queue # <<>> => 1 \in DOMAIN queue
      BY <1>1, EmptySeq, LenProperties
    <2> QED BY <2>1, <2>2 DEF Event
  <1>4. ASSUME queue # <<>>, Given(Head(queue)), Head(queue).turn = holder, holder # 0
        PROVE  last' # last
    <2>1. last.to = holder => last.event.seq < Head(queue).seq
      BY <1>0, <1>3, <1>4 DEF Rising, After
    <2> QED BY <1>3, <1>4, <2>1, GivenIsNew
  <1>5. pc # "idle" => holder \in Tasks /\ holder # 0
    BY <1>0, HolderFacts DEF Tasks
  <1>6. ASSUME NEW t \in Tasks, NEW k \in {"turn", "compact"}, NewTask(t, k)
        PROVE  Service!Next
    <2>1. Line' = Append(Line, t)
      BY <1>0, <1>6, LineGrows
    <2>2. /\ ~closed /\ kind[t] = "none" /\ kind' = [kind EXCEPT ![t] = k]
          /\ UNCHANGED <<result, last, cancelled, closed>>
      BY <1>6 DEF NewTask, seen, control
    <2>3. Service!Ask(t, k)
      BY <2>1, <2>2 DEF Service!Ask, Line
    <2> QED BY <1>2, <2>3
  <1>7. ASSUME NEW t \in Tasks, RequestCancel(t)
        PROVE  Service!Next
    <2>1. Service!Drop(t)
      BY <1>7 DEF RequestCancel, Service!Drop, seen, control
    <2> QED BY <1>2, <2>1
  <1>8. ASSUME Close \/ CloseByTurn
        PROVE  Service!Next
    <2>1. closed' = TRUE /\ UNCHANGED <<holder, waiting, kind, result, last, cancelled>>
      BY <1>8 DEF Close, CloseByTurn, BeginClose, tasks, seen
    <2>2. Service!Shut
      BY <2>1 DEF Service!Shut
    <2> QED BY <1>2, <2>2
  <1>9. ASSUME StartFails \/ SendRefused
        PROVE  [Service!Next]_(Service!serviceVars)
    <2>1. pc # "idle" /\ last' = last /\ closed' = closed /\ Fails
      BY <1>9 DEF StartFails, SendRefused, seen, control
    <2>2. CASE kind[holder] = "turn"
      <3>1. UNCHANGED tasks
        BY <2>1, <2>2 DEF Fails
      <3> QED BY <2>1, <3>1, Quiet DEF Shown, tasks
    <2>3. CASE kind[holder] # "turn"
      <3>1. Release("error")
        BY <2>1, <2>3 DEF Fails
      <3>2. Service!Break("error")
        BY <1>0, <1>5, <2>1, <2>3, <3>1, BreakServes
      <3> QED BY <1>2, <3>2
    <2> QED BY <2>2, <2>3
  <1>10. ASSUME ReadEvent
         PROVE  [Service!Next]_(Service!serviceVars)
    <2>1. /\ pc = "read" /\ queue # <<>> /\ Head(queue).type \notin TerminalEvents
          /\ Deliver(Head(queue))
          /\ UNCHANGED <<holder, waiting, kind, result, cancelled, closed>>
      BY <1>10 DEF ReadEvent, tasks, control
    <2>2. kind[holder] = "turn"
      BY <1>0, <2>1, HolderFacts DEF TurnPlaces
    <2>3. CASE last' = last
      BY <2>1, <2>3, Quiet DEF Shown
    <2>4. CASE Head(queue).turn = holder /\ Given(Head(queue))
      <3>1. Service!Event
        BY <1>0, <1>4, <1>5, <2>1, <2>2, <2>4, EventServes
      <3> QED BY <1>2, <3>1
    <2> QED BY <2>1, <2>3, <2>4, DeliverFacts
  <1>11. ASSUME Interrupted
         PROVE  [Service!Next]_(Service!serviceVars)
    <2>1. /\ pc = "interrupting" /\ (last' = last \/ Deliver(held))
          /\ UNCHANGED <<holder, waiting, kind, result, cancelled, closed>>
      BY <1>11 DEF Interrupted, tasks, control
    <2>2. kind[holder] = "turn"
      BY <1>0, <2>1, HolderFacts DEF TurnPlaces
    <2>3. CASE last' = last
      BY <2>1, <2>3, Quiet DEF Shown
    <2>4. CASE held.turn = holder /\ Given(held)
      <3>1. held.type \notin TerminalEvents /\ holder \in Tasks /\ holder # 0
        BY <1>0, <1>5, <2>1 DEF Rising
      <3>2. last.to = holder => last.event.seq < held.seq
        BY <1>0, <2>1, <2>4, <3>1 DEF Rising
      <3>3. last' # last
        BY <1>1, <2>4, <3>2, GivenIsNew
      <3>4. Service!Event
        BY <1>0, <2>1, <2>2, <2>4, <3>1, <3>3, EventServes
      <3> QED BY <1>2, <3>4
    <2> QED BY <2>1, <2>3, <2>4, DeliverFacts
  <1>12. ASSUME ReadTerminal
         PROVE  [Service!Next]_(Service!serviceVars)
    <2>1. /\ pc = "read" /\ queue # <<>> /\ Head(queue).type \in TerminalEvents
          /\ closed' = closed
          /\ TurnEnds(Head(queue)) \/ UNCHANGED <<tasks, last>>
      BY <1>12 DEF ReadTerminal, control
    <2>2. kind[holder] = "turn"
      BY <1>0, <2>1, HolderFacts DEF TurnPlaces
    <2>3. CASE UNCHANGED <<tasks, last>>
      BY <2>1, <2>3, Quiet DEF Shown, tasks
    <2> DEFINE r == CASE Head(queue).type = "completed"   -> "completed"
                      [] Head(queue).type = "interrupted" -> "cancelled"
                      [] Head(queue).type = "compacted"   -> "completed"
                      [] OTHER                            -> "failed"
    <2>4. CASE Head(queue).turn = holder /\ Given(Head(queue)) /\ Release(r)
      <3>1. last' # last /\ holder \in Tasks
        BY <1>4, <1>5, <2>1, <2>4
      <3> HIDE DEF r
      <3>2. Service!End
        BY <1>0, <2>1, <2>2, <2>4, <3>1, EndServes DEF r
      <3> QED BY <1>2, <3>2
    <2>5. TurnEnds(Head(queue)) =>
             \/ Head(queue).turn = holder /\ Given(Head(queue)) /\ Release(r)
             \/ UNCHANGED <<tasks, last>>
      <3>1. r = CASE Head(queue).type = "completed"   -> "completed"
                  [] Head(queue).type = "interrupted" -> "cancelled"
                  [] OTHER                            -> "failed"
        BY <2>1 DEF TerminalEvents
      <3> HIDE DEF r
      <3> QED BY <3>1 DEF TurnEnds
    <2> QED BY <2>1, <2>3, <2>4, <2>5
  <1>13. ASSUME AuditEnds
         PROVE  [Service!Next]_(Service!serviceVars)
    <2>1. pc = "auditing" /\ closed' = closed
      BY <1>13 DEF AuditEnds, control
    <2>2. PICK e \in {held, [held EXCEPT !.type = "failed"]} : TurnEnds(e)
      BY <1>13 DEF AuditEnds
    <2>3. kind[holder] = "turn" /\ holder \in Tasks /\ holder # 0
      BY <1>0, <1>5, <2>1, HolderFacts DEF TurnPlaces
    <2>4. e.type \in TerminalEvents /\ e.seq = held.seq /\ e.turn = held.turn
      <3>1. held.type \in TerminalEvents /\ held \in Event
        BY <1>0, <2>1 DEF Rising, TypedCoroutine
      <3> QED BY <2>2, <3>1 DEF Event, TerminalEvents
    <2>5. CASE UNCHANGED <<tasks, last>>
      BY <2>1, <2>5, Quiet DEF Shown, tasks
    <2> DEFINE r == CASE e.type = "completed"   -> "completed"
                      [] e.type = "interrupted" -> "cancelled"
                      [] e.type = "compacted"   -> "completed"
                      [] OTHER                  -> "failed"
    <2>6. CASE e.turn = holder /\ Given(e) /\ Release(r)
      <3>1. last.to = holder => last.event.seq < held.seq
        BY <1>0, <2>1, <2>3, <2>4, <2>6 DEF Rising
      <3>2. last' # last
        BY <1>1, <2>4, <2>6, <3>1, GivenIsNew
      <3> HIDE DEF r
      <3>3. Service!End
        BY <1>0, <2>1, <2>3, <2>4, <2>6, <3>2, EndServes DEF r
      <3> QED BY <1>2, <3>3
    <2>7. \/ e.turn = holder /\ Given(e) /\ Release(r)
          \/ UNCHANGED <<tasks, last>>
      <3>1. r = CASE e.type = "completed"   -> "completed"
                  [] e.type = "interrupted" -> "cancelled"
                  [] OTHER                  -> "failed"
        BY <2>4 DEF TerminalEvents
      <3> HIDE DEF r
      <3> QED BY <2>2, <3>1 DEF TurnEnds
    <2> QED BY <2>5, <2>6, <2>7
  <1>14. ASSUME RunEnds
         PROVE  Service!Next
    <2> DEFINE r == IF pc = "expiring" THEN "cancelled" ELSE "error"
    <2>1. /\ pc \in {"closing", "expiring"} /\ closed /\ Release(r)
          /\ last' = last /\ closed' = closed
      BY <1>14 DEF RunEnds, seen, control
    <2>2. r \in {"error", "cancelled"} /\ (r = "cancelled" => holder \in cancelled)
      BY <1>0 DEF Cancelling
    <2> HIDE DEF r
    <2>3. Service!Break(r)
      BY <1>0, <1>5, <2>1, <2>2, BreakServes
    <2> QED BY <1>2, <2>2, <2>3
  <1>15. ASSUME CompactNotStarted \/ CompactTimesOut
         PROVE  Service!Next
    <2>1. /\ pc \in {"compacting", "binding", "compact_read"} /\ Release("error")
          /\ last' = last /\ closed' = closed
      BY <1>15 DEF CompactNotStarted, CompactTimesOut, seen, control
    <2>2. kind[holder] = "compact" /\ holder \in Tasks
      BY <1>0, <2>1, HolderFacts DEF CompactPlaces
    <2>3. Service!Break("error")
      BY <1>0, <2>1, <2>2, BreakServes
    <2> QED BY <1>2, <2>3
  <1>16. ASSUME CompactReads
         PROVE  Service!Next
    <2>1. /\ pc = "compact_read" /\ queue # <<>> /\ closed' = closed
          /\ \/ Head(queue).turn = holder /\ Given(Head(queue))
                /\ IF Head(queue).type = "compacted"
                   THEN Release("completed") \/ Release("error")
                   ELSE UNCHANGED <<tasks, coroutine>>
             \/ Release("error") /\ UNCHANGED last
      BY <1>16 DEF CompactReads, control
    <2>2. kind[holder] = "compact" /\ holder \in Tasks /\ holder # 0
          /\ result[holder] = "none"
      BY <1>0, <1>5, <2>1, HolderFacts DEF CompactPlaces
    <2>3. CASE Release("error") /\ UNCHANGED last
      <3>1. Service!Break("error")
        BY <1>0, <2>1, <2>2, <2>3, BreakServes
      <3> QED BY <1>2, <3>1
    <2>4. CASE Head(queue).turn = holder /\ Given(Head(queue))
      <3>1. last' # last
        BY <1>4, <2>1, <2>2, <2>4
      <3>2. Head(queue).type \notin TerminalEvents
        <4>1. Fits(Head(queue), kind, result)
          BY <1>0, <1>3, <2>1 DEF Named
        <4> QED BY <2>2, <2>4, <4>1 DEF Fits
      <3>3. ASSUME NEW r \in {"completed", "error"}, Release(r),
                   Head(queue).type = "compacted"
            PROVE  Service!Next
        <4>1. Service!End
          BY <1>0, <2>1, <2>2, <2>4, <3>1, <3>3, CompactionServes
        <4> QED BY <1>2, <4>1
      <3>4. CASE Head(queue).type # "compacted" /\ UNCHANGED tasks
        <4>1. UNCHANGED <<holder, waiting, kind, result, cancelled, closed>>
          BY <2>1, <3>4 DEF tasks
        <4>2. Service!Event
          BY <1>0, <2>2, <2>4, <3>1, <3>2, <3>4, <4>1, EventServes
        <4> QED BY <1>2, <4>2
      <3>5. CASE Release("error") /\ UNCHANGED last
        BY <2>3, <3>5
      <3> QED BY <2>1, <3>3, <3>4, <3>5
    <2> QED BY <2>1, <2>3, <2>4
  <1>17. CASE EnsureStarted \/ SendTurn \/ SendCompact \/ TurnSent
               \/ TurnNotSent \/ Answer \/ AnswerFails \/ CancelTurn
               \/ InterruptFails \/ GraceExpires \/ RunFails
               \/ LastInterrupt \/ CompactSent \/ CompactBound
               \/ ReadResponse \/ RejectFrame \/ EndClose \/ Mapping
               \/ (\E x \in Context : InjectItems(x)) \/ Server
               \/ UNCHANGED vars
    <2>1. EnsureStarted \/ SendTurn \/ SendCompact => UNCHANGED Shown
      BY DEF EnsureStarted, Goto, SendTurn, SendCompact, tasks, control, seen,
         Shown
    <2>2. TurnSent \/ TurnNotSent \/ Answer => UNCHANGED Shown
      BY DEF TurnSent, TurnNotSent, Answer, tasks, control, seen, Shown
    <2>3. AnswerFails \/ CancelTurn \/ InterruptFails => UNCHANGED Shown
      BY DEF AnswerFails, CancelTurn, InterruptFails, tasks, control, seen,
         Shown
    <2>4. GraceExpires \/ RunFails \/ LastInterrupt => UNCHANGED Shown
      BY DEF GraceExpires, RunFails, LastInterrupt, tasks, control, seen, Shown
    <2>5. CompactSent \/ CompactBound \/ ReadResponse => UNCHANGED Shown
      BY DEF CompactSent, CompactBound, Goto, ReadResponse, tasks, control,
         seen, Shown
    <2>6. RejectFrame \/ EndClose => UNCHANGED Shown
      BY DEF RejectFrame, EndClose, tasks, control, seen, Shown
    <2>7. (\E x \in Context : InjectItems(x)) => UNCHANGED Shown
      BY DEF InjectItems, tasks, control, seen, Shown
    <2>8. Mapping \/ Server \/ UNCHANGED vars => UNCHANGED Shown
      BY MappingRest, ServerFrame DEF vars, tasks, control, seen, Shown
    <2> QED BY <1>17, <2>1, <2>2, <2>3, <2>4, <2>5, <2>6, <2>7, <2>8, Quiet
  <1> QED
    BY <1>6, <1>7, <1>8, <1>9, <1>10, <1>11, <1>12, <1>13, <1>14, <1>15, <1>16,
       <1>17
       DEF Next, Running, Deciding, Reader, Mapping, Embedder

\* The controller, its turns, the session and the app-server together serve
\* turns the way TurnService has it.
THEOREM TurnsAreServed == Spec => ServesTurns
  <1>1. Init => Service!Init
    BY DEF Init, Service!Init
  <1>2. Inv /\ [Next]_vars => [Service!Next]_(Service!serviceVars)
    BY Serves
  <1> QED BY <1>1, <1>2, ConversationInvariant, PTL DEF Spec, ServesTurns,
         Service!Spec
=============================================================================
