------------------------ MODULE ConversationWire_proofs ------------------------
(***************************************************************************)
(* Proofs about the two pipes of a Conversation: a sink sees the events of *)
(* its own native turns (OwnEventsOnly), a turn reported cancelled is not  *)
(* worked on (CancelledIsOver), and the app-server is asked to begin only  *)
(* when it is at no native turn (OneNativeTurn).                           *)
(*                                                                         *)
(* The invariant follows a task through the pipes.  Native turns are       *)
(* opened in the order of the tasks (Orderly), and so are the frames about *)
(* them (Streams).  A task that is asked for, worked on or spoken of is    *)
(* live; it is never one whose request is still to be sent (Mentions,      *)
(* Sending).  What the host knows names native turns that were opened      *)
(* (Names), and of a turn that is bound to one opened for it, only its own *)
(* (Turns, Reads).  As long as no compaction was given up on, one task is  *)
(* live, and the session knows which (Prompt, Refusals).                   *)
(*                                                                         *)
(* Most steps do the same thing to a part of the state, so the steps are   *)
(* sorted first by what they do to the pipes (Piping), the correlation     *)
(* (CorSteps), the queue (QueueSteps), what is held (ReadingSteps) and     *)
(* given (GivenSteps), and a conjunct is proved over those kinds of steps. *)
(***************************************************************************)
EXTENDS ConversationOrder_proofs

\* A request or a response that is about beginning a native turn.
Begins(m) == m.op \in {"turn", "compact"}
\* The native turns that were opened so far.
Issued == 1..(srv.next - 1)

\* Whom the app-server is asked to begin for, whom its frames are about, and
\* whom it works for.
AskedFor(t) == \E i \in DOMAIN toServer : Begins(toServer[i]) /\ toServer[i].t = t
Framed(t) == \E i \in DOMAIN fromServer :
    fromServer[i].nat # 0 /\ owner[fromServer[i].nat] = t
Served(t) == srv.nat # 0 /\ owner[srv.nat] = t
Live(t) == AskedFor(t) \/ Framed(t) \/ Served(t)
\* Whose request is in the pipe, or led to a native turn.
OnWire(t) == AskedFor(t) \/ \E n \in Issued : owner[n] = t

\* Native turns are opened in the order of the tasks, which is the order of the
\* requests; the app-server works on the last one it opened.
Orderly ==
    /\ \A n \in Issued : owner[n] \in Tasks
    /\ \A n, m \in Issued : n <= m => owner[n] <= owner[m]
    /\ srv.nat # 0 => srv.nat = srv.next - 1 /\ srv.kind = kind[owner[srv.nat]]
    /\ \A i \in DOMAIN toServer : Begins(toServer[i]) =>
          /\ kind[toServer[i].t] = toServer[i].op
          /\ \A n \in Issued : owner[n] < toServer[i].t
          /\ \A j \in DOMAIN toServer :
                i < j /\ Begins(toServer[j]) => toServer[i].t < toServer[j].t

\* A frame names an opened native turn: a response one of its task, items and
\* approvals one of a turn, a terminal event one that is no longer worked on.
Sound(m) ==
    /\ m.nat # 0 => m.nat \in Issued
    /\ m.f = "ok" /\ Begins(m) => m.nat # 0 /\ owner[m.nat] = m.t
    /\ m.f = "refused" /\ Begins(m) => ~OnWire(m.t)
    /\ m.f \in {"item", "ask"} => kind[owner[m.nat]] = "turn"
    /\ m.f \in TerminalEvents /\ srv.nat # 0 => owner[srv.nat] # owner[m.nat]
\* Frames come in the order of the native turns, and none after a terminal event
\* is of the same task.
Before(a, b) == a.nat # 0 /\ b.nat # 0 =>
    a.nat <= b.nat /\ (a.f \in TerminalEvents => owner[b.nat] # owner[a.nat])
Streams ==
    /\ \A i \in DOMAIN fromServer : Sound(fromServer[i])
    /\ \A i, j \in DOMAIN fromServer : i < j => Before(fromServer[i], fromServer[j])

\* Who was served before the present holder, or is the holder with its request
\* sent, is never overtaken.
Past(t) ==
    /\ kind[t] # "none"
    /\ \A i \in DOMAIN waiting : t < waiting[i]
    /\ holder # 0 => t <= holder /\ (pc \in {"start", "send"} => t < holder)

\* What is known of a task is of the past: only once its request is sent does
\* anything name it.
Answered(t) == \E i \in DOMAIN fromServer :
    fromServer[i].f \in {"ok", "refused"} /\ Begins(fromServer[i]) /\ fromServer[i].t = t
Mentioned(t) ==
    \/ OnWire(t) \/ Answered(t)
    \/ Refers(t) \/ cor.native[t] # 0 \/ t \in cor.compacting \cup cor.completed
Mentions == \A t \in Tasks : Mentioned(t) => Past(t)
\* From the request to its binding the task is the one that is starting, and
\* only a session that was started has anything in its pipes.
Requesting == {"starting", "compacting", "binding"}
Sending ==
    /\ pc \in Requesting => cor.starting = holder
    /\ cor.starting # 0 => pc \in Requesting
    /\ state = "ready" /\ ~fatal => reader
    /\ state = "ready" => started
    /\ ~started => toServer = <<>> /\ fromServer = <<>> /\ srv.nat = 0

\* Here the holder reads events, and here it has one at hand.
Holding == {"asking", "auditing", "interrupting"}
Reading == Holding \cup {"read"}

\* What the host knows names native turns that were opened.
Names ==
    /\ \A n \in Natives : cor.local[n] # 0 => n \in Issued
    /\ \A t \in Tasks : cor.native[t] # 0 => cor.native[t] \in Issued
    /\ \A i \in DOMAIN queue : queue[i].turn # 0 => queue[i].nat \in Issued
    /\ pc \in Holding /\ held.turn # 0 => held.nat \in Issued
    /\ last.to # 0 => last.event.nat \in Issued

\* A turn is clean once it is bound to a native turn of its own, and not to one
\* of a compaction that was given up on.
Clean(u) == cor.native[u] # 0 /\ owner[cor.native[u]] = u
\* What is bound or queued for it is its own, or there is nothing of the kind.
Mine(u) ==
    /\ \A n \in Natives : cor.local[n] = u => owner[n] = u
    /\ \A i \in DOMAIN queue : queue[i].turn = u => owner[queue[i].nat] = u
Unseen(u) ==
    /\ \A n \in Natives : cor.local[n] # u
    /\ \A i \in DOMAIN queue : queue[i].turn # u
    /\ cor.active # u /\ u \notin cor.completed
\* It alone is live.
Alone(u) == \A t \in Tasks : Live(t) => t = u
\* A clean turn is given its own events, is live alone while it is active, and is
\* not live when its end was read; it has a result only then, or by a close.
Fine(u) ==
    /\ Clean(u) => Mine(u)
    /\ cor.native[u] = 0 => Unseen(u)
    /\ cor.active = u /\ Clean(u) => Alone(u)
    /\ u \in cor.completed /\ Clean(u) => ~Live(u)
    /\ result[u] # "none" => state = "closed" \/ (u \in cor.completed /\ Clean(u))
Turns == \A u \in Tasks : kind[u] = "turn" => Fine(u)
\* So is what the holder reads, learns of its request, and gave to the sink.
Reads ==
    /\ pc \in Reading => Clean(holder)
    /\ pc \in Holding /\ held.turn = holder => owner[held.nat] = holder
    /\ pc = "starting" /\ reply.s = "ok" =>
          reply.nat \in Issued /\ owner[reply.nat] = holder /\ Alone(holder)
    /\ last.to # 0 =>
         /\ last.event.turn = last.to
         /\ owner[last.event.nat] = last.to \/ (late /\ kind[last.to] = "compact")

\* As long as no compaction was given up on, one task is live at a time, the
\* session knows it, and takes no event for another's.
Prompt == ~late =>
    /\ \A t, u \in Tasks : Live(t) /\ Live(u) => t = u
    /\ reader => \A t \in Tasks : Live(t) =>
         IF cor.active # 0 THEN t = cor.active
         ELSE t = cor.starting \/ (t = holder /\ kind[t] = "turn" /\ pc = "closing")
    /\ cor.starting # 0 /\ cor.active # 0 => cor.starting = cor.active
    /\ \A n \in Natives : cor.local[n] # 0 => cor.local[n] = owner[n]
    /\ \A i \in DOMAIN queue : queue[i].turn # 0 => owner[queue[i].nat] = queue[i].turn
    /\ \A t \in Tasks : kind[t] = "compact" /\ Live(t) =>
         /\ cor.native[t] # 0 \/ t \in cor.compacting => cor.active = t
         /\ t = cor.starting => t \in cor.compactions
\* A compaction that failed before it began was refused, or nobody reads.
Refusals ==
    /\ pc = "compacting" /\ reply.s = "error" => ~reader \/ ~OnWire(holder)
    /\ pc = "compacting" => \A r \in rpcs : r[2] = holder => r[1] = "compact"
\* Only turns are cancelled.
Compacts == \A t \in Tasks : result[t] = "cancelled" => kind[t] = "turn"

Wired == Orderly /\ Streams /\ Mentions /\ Sending /\ Names /\ Turns /\ Reads
         /\ Prompt /\ Refusals /\ Compacts

-----------------------------------------------------------------------------
(* Who is past *)

\* Who is past stays past.
LEMMA PastKept ==
    ASSUME Inv, Lined, [Next]_vars, NEW t \in Tasks, Past(t)
    PROVE  Past(t)'
  <1>0. TypedTasks /\ Placed
    BY DEF Inv
  <1>1. /\ waiting \in Seq(Tasks) /\ holder \in 0..MaxTasks /\ t \in Int
        /\ \A i \in DOMAIN waiting : waiting[i] \in Tasks /\ waiting[i] \in Int /\ i \in Int
    BY <1>0, InLine
  <1>2. CASE LockStays
    BY <1>2 DEF LockStays, Past
  <1>3. CASE pc # "idle" /\ LockPasses /\ MoveUp
    <2>1. kind'[t] # "none"
      BY <1>3 DEF LockPasses, Past
    <2>2. \A i \in DOMAIN waiting' : t < waiting'[i]
      BY <1>3 DEF LockPasses, Past
    <2>3. holder' # 0 => t < holder'
      BY <1>1, <1>3 DEF LockPasses, Past
    <2> QED BY <1>1, <1>3, <2>1, <2>2, <2>3 DEF LockPasses, Past, Tasks
  <1>4. ASSUME NEW u \in Tasks, NEW k \in {"turn", "compact"}, NewTask(u, k)
        PROVE  Past(t)'
    <2>1. /\ kind[u] = "none" /\ \A v \in 1..(u - 1) : kind[v] # "none"
          /\ \A v \in Tasks : v # u => kind'[v] = kind[v]
      BY <1>0, <1>4, NewTaskFacts
    <2>2. t < u /\ kind'[t] # "none"
      BY <2>1, Bounded DEF Lined, Past, Tasks
    <2>4. CASE holder = 0
      <3>1. holder' = u /\ waiting' = <<>>
        BY <1>0, <1>4, <2>4, NewTaskFacts
      <3> QED BY <2>2, <3>1 DEF Past, Tasks
    <2>5. CASE holder # 0
      <3>1. /\ holder' = holder /\ pc' = pc
            /\ Len(waiting) \in Nat /\ DOMAIN waiting = 1..Len(waiting)
            /\ DOMAIN waiting' = 1..(Len(waiting) + 1)
            /\ waiting'[Len(waiting) + 1] = u
            /\ \A i \in DOMAIN waiting : waiting'[i] = waiting[i]
        BY <1>0, <1>4, <2>5, NewTaskFacts
      <3> QED BY <2>2, <2>5, <3>1 DEF Past
    <2> QED BY <2>4, <2>5
  <1> QED BY <1>2, <1>3, <1>4, LockSteps

-----------------------------------------------------------------------------
(* What a step does to the pipes *)

\* The app-server goes on with the native turn it is at.
SameServer ==
    owner' = owner /\ srv'.nat = srv.nat /\ srv'.next = srv.next /\ srv'.kind = srv.kind
\* A request is sent that begins nothing.
Notifies ==
    /\ SameServer /\ fromServer' = fromServer /\ started
    /\ \E r \in Requests : ~Begins(r) /\ toServer' = Append(toServer, r)
\* The holder's request is sent.
Sends ==
    /\ pc = "send" /\ pc' \in {"starting", "compacting"}
    /\ holder \in Tasks /\ kind[holder] \in {"turn", "compact"} /\ UNCHANGED tasks
    /\ Ready /\ cor.active = 0 /\ cor.starting = 0 /\ cor'.starting = holder
    /\ started /\ reader
SendsRequest ==
    /\ Sends /\ SameServer /\ fromServer' = fromServer
    /\ toServer' = Append(toServer, [op |-> kind[holder], t |-> holder, nat |-> 0])
\* The reader takes a frame.
TakesFrame ==
    /\ SameServer /\ toServer' = toServer
    /\ fromServer # <<>> /\ fromServer' = Tail(fromServer)
\* The process is gone.
Clears == SameServer /\ toServer' = <<>> /\ fromServer' = <<>>
\* The app-server takes a request and opens nothing.
Replies ==
    /\ SameServer /\ toServer # <<>> /\ toServer' = Tail(toServer)
    /\ \/ fromServer' = fromServer
       \/ req.op # "answer" /\ Tell(<<Frm("refused", req.op, req.t, 0)>>)
       \/ Tell(<<Frm("ok", "interrupt", req.t, 0)>>)
Opening ==
    /\ toServer # <<>> /\ toServer' = Tail(toServer) /\ Begins(req)
    /\ srv.nat = 0 /\ srv.next \in Natives
    /\ srv'.nat = srv.next /\ srv'.next = srv.next + 1 /\ srv'.kind = req.op
    /\ owner' = [owner EXCEPT ![srv.next] = req.t]
    /\ LET ok == Frm("ok", req.op, req.t, srv.next)
           begun == Frm("started", req.op, 0, srv.next)
       IN  Tell(<<ok, begun>>) \/ Tell(<<begun, ok>>)
Reports ==
    /\ SameServer /\ toServer' = toServer /\ srv.nat # 0
    /\ \E f \in {"item", "ask", "compacted"} :
         /\ srv.kind = "compact" => f = "compacted"
         /\ Tell(<<Frm(f, srv.kind, 0, srv.nat)>>)
Replacing ==
    /\ toServer' = toServer /\ srv.nat # 0 /\ srv.next \in Natives
    /\ srv'.nat = srv.next /\ srv'.next = srv.next + 1 /\ srv'.kind = srv.kind
    /\ owner' = [owner EXCEPT ![srv.next] = owner[srv.nat]]
    /\ Tell(<<Frm("started", "turn", 0, srv.next)>>)
Ending ==
    /\ toServer' = toServer /\ owner' = owner /\ srv.nat # 0
    /\ srv'.nat = 0 /\ srv'.next = srv.next
    /\ \E f \in TerminalEvents : Tell(<<Frm(f, srv.kind, 0, srv.nat)>>)
Exiting ==
    /\ srv.up /\ toServer' = <<>> /\ owner' = owner
    /\ srv'.nat = 0 /\ srv'.next = srv.next
    /\ Tell(<<Frm("eof", "turn", 0, 0)>>)
Serving == Replies \/ Opening \/ Reports \/ Replacing \/ Ending \/ Exiting
Piping ==
    \/ SameServer /\ UNCHANGED <<toServer, fromServer>>
    \/ Notifies \/ SendsRequest \/ TakesFrame \/ Clears \/ Serving

\* What the app-server does.
LEMMA ServerServes ==
    ASSUME TypedServer, Server
    PROVE  Serving
  <1>0. /\ srv \in Servers /\ srv.nat \in 0..MaxNatives
        /\ srv.next <= MaxNatives => srv.next \in Natives
    <2>1. srv \in Servers
      BY DEF TypedServer
    <2> QED BY <2>1, Bounded DEF Servers, Natives
  <1>1. CASE ServerOpens
    <2>1. /\ toServer # <<>> /\ req.op \in {"turn", "compact"} /\ srv.nat = 0
          /\ srv.next \in Natives /\ toServer' = Tail(toServer)
          /\ owner' = [owner EXCEPT ![srv.next] = req.t]
          /\ LET ok == Frm("ok", req.op, req.t, srv.next)
                 begun == Frm("started", req.op, 0, srv.next)
             IN  Tell(<<ok, begun>>) \/ Tell(<<begun, ok>>)
      BY <1>0, <1>1 DEF ServerOpens
    <2>2. srv'.nat = srv.next /\ srv'.next = srv.next + 1 /\ srv'.kind = req.op
      BY <1>0, <1>1 DEF ServerOpens, Servers
    <2>3. Opening
      BY <2>1, <2>2 DEF Opening, Begins
    <2> QED BY <2>3 DEF Serving
  <1>2. CASE ServerRefuses
    BY <1>2 DEF ServerRefuses, Serving, Replies, SameServer
  <1>3. CASE ServerInterrupts
    <2>1. srv'.nat = srv.nat /\ srv'.next = srv.next /\ srv'.kind = srv.kind
      BY <1>0, <1>3 DEF ServerInterrupts, Servers
    <2> QED BY <1>3, <2>1 DEF ServerInterrupts, Serving, Replies, SameServer
  <1>4. CASE ServerAnswered
    <2>1. srv' = [srv EXCEPT !.asking = srv.asking /\ srv.nat # req.nat]
      BY <1>0, <1>4 DEF ServerAnswered, Servers
    <2>2. srv'.nat = srv.nat /\ srv'.next = srv.next /\ srv'.kind = srv.kind
      BY <1>0, <2>1 DEF Servers
    <2> QED BY <1>4, <2>2 DEF ServerAnswered, Serving, Replies, SameServer
  <1>5. CASE ServerWorks
    <2>1. PICK f \in {"item", "ask", "compacted"} :
            /\ srv' = [srv EXCEPT !.items = srv.items + 1, !.asking = (f = "ask")]
            /\ srv.kind = "compact" => f = "compacted"
            /\ Tell(<<Frm(f, srv.kind, 0, srv.nat)>>)
      <3> HIDE DEF Tell, Frm
      <3> QED BY <1>0, <1>5 DEF ServerWorks, Servers
    <2>2. srv'.nat = srv.nat /\ srv'.next = srv.next /\ srv'.kind = srv.kind
      BY <1>0, <2>1 DEF Servers
    <2>3. srv.nat # 0 /\ toServer' = toServer /\ owner' = owner
      BY <1>5 DEF ServerWorks
    <2>4. f \in {"item", "ask", "compacted"} /\ (srv.kind = "compact" => f = "compacted")
      BY <2>1
    <2>5. Tell(<<Frm(f, srv.kind, 0, srv.nat)>>)
      BY <2>1
    <2>6. SameServer
      BY <2>2, <2>3 DEF SameServer
    <2> QED BY <2>3, <2>4, <2>5, <2>6 DEF Serving, Reports
  <1>6. CASE ServerReplaces
    <2>1. srv'.nat = srv.next /\ srv'.next = srv.next + 1 /\ srv'.kind = srv.kind
      BY <1>0, <1>6 DEF ServerReplaces, Servers
    <2> QED BY <1>0, <1>6, <2>1 DEF ServerReplaces, Serving, Replacing
  <1>7. CASE ServerEnds
    <2>1. srv'.nat = 0 /\ srv'.next = srv.next
      BY <1>0, <1>7 DEF ServerEnds, Servers
    <2> QED BY <1>7, <2>1 DEF ServerEnds, Serving, Ending
  <1>8. CASE ServerExits
    <2>1. srv'.nat = 0 /\ srv'.next = srv.next
      BY <1>0, <1>8 DEF ServerExits, Servers
    <2> QED BY <1>8, <2>1 DEF ServerExits, Serving, Exiting
  <1> QED BY <1>1, <1>2, <1>3, <1>4, <1>5, <1>6, <1>7, <1>8 DEF Server

\* Every step does one of these things to the pipes.
LEMMA Pipes ==
    ASSUME Inv, Sending, [Next]_vars
    PROVE  Piping
  <1>0. /\ TypedTasks /\ TypedCoroutine /\ TypedOut /\ TypedCor /\ TypedServer /\ Placed
        /\ srv \in Servers /\ cor \in Correlations
    BY DEF Inv, TypedServer, TypedCor
  <1>1. ASSUME UNCHANGED <<server, owner>>
        PROVE  Piping
    BY <1>1 DEF server, SameServer, Piping
  <1>2. ASSUME NEW r \in Requests, ~Begins(r), toServer' = Append(toServer, r),
               UNCHANGED <<fromServer, srv, owner>>, started
        PROVE  Piping
    BY <1>2 DEF Notifies, SameServer, Piping
  <1>3. ASSUME NEW op \in {"interrupt", "answer"}, NEW t \in Tasks, NEW n \in Natives
        PROVE  /\ [op |-> op, t |-> t, nat |-> n] \in Requests
               /\ ~Begins([op |-> op, t |-> t, nat |-> n])
    BY DEF Requests, Begins
  <1>4. CASE EnsureStarted
    <2>1. UNCHANGED <<toServer, fromServer, owner>>
          /\ srv' \in {srv, [srv EXCEPT !.up = TRUE]}
      BY <1>4 DEF EnsureStarted, seen
    <2>2. SameServer
      BY <1>0, <2>1 DEF Servers, SameServer
    <2> QED BY <2>1, <2>2 DEF Piping
  <1>5. CASE SendTurn
    <2>1. /\ toServer' = Append(toServer, [op |-> "turn", t |-> holder, nat |-> 0])
          /\ UNCHANGED <<fromServer, srv, tasks, owner>> /\ kind[holder] = "turn"
          /\ pc = "send" /\ pc' = "starting" /\ Ready /\ cor.active = 0 /\ cor.starting = 0
          /\ cor' = [cor EXCEPT !.starting = holder]
      BY <1>5 DEF SendTurn, Send, Goto, seen
    <2>2. holder \in Tasks /\ cor'.starting = holder /\ started /\ reader
      BY <1>0, <2>1, HolderFacts DEF Correlations, Sending, Ready
    <2>3. SameServer
      BY <2>1 DEF SameServer
    <2> QED BY <2>1, <2>2, <2>3 DEF Piping, SendsRequest, Sends
  <1>6. CASE SendCompact
    <2> DEFINE more == cor.compactions \cup {holder}
    <2>1. /\ toServer' = Append(toServer, [op |-> "compact", t |-> holder, nat |-> 0])
          /\ UNCHANGED <<fromServer, srv, tasks, owner>> /\ kind[holder] = "compact"
          /\ pc = "send" /\ pc' = "compacting" /\ Ready /\ cor.active = 0
          /\ cor.starting = 0
          /\ cor' = [cor EXCEPT !.starting = holder, !.compactions = more]
      BY <1>0, <1>6 DEF SendCompact, Send, Goto, seen, Correlations
    <2> HIDE DEF more
    <2>2. holder \in Tasks /\ cor'.starting = holder /\ started /\ reader
      BY <1>0, <2>1, HolderFacts DEF Correlations, Sending, Ready
    <2>3. SameServer
      BY <2>1 DEF SameServer
    <2> QED BY <2>1, <2>2, <2>3 DEF Piping, SendsRequest, Sends
  <1>7. CASE Answer
    <2>1. /\ toServer' = Append(toServer,
                [op |-> "answer", t |-> holder, nat |-> held.nat])
          /\ UNCHANGED <<fromServer, srv, owner>> /\ held.nat \in asks /\ pc = "asking"
          /\ started
      BY <1>7 DEF Answer, seen, Ready, Sending
    <2>2. holder \in Tasks /\ held.nat \in Natives
      BY <1>0, <2>1, HolderFacts DEF TypedOut
    <2> QED BY <1>2, <1>3, <2>1, <2>2
  <1>8. CASE CancelTurn \/ RunFails
    <2>1. /\ \/ toServer' = toServer
             \/ /\ CanInterrupt
                /\ toServer' = Append(toServer,
                     [op |-> "interrupt", t |-> holder, nat |-> cor.native[holder]])
          /\ UNCHANGED <<fromServer, srv, owner>> /\ pc \in {"read", "auditing", "failing"}
      BY <1>8 DEF CancelTurn, RunFails, Interrupt, Send, seen
    <2>2. holder \in Tasks
      BY <1>0, <2>1, HolderFacts
    <2>3. CanInterrupt => cor.native[holder] \in Natives /\ started
      BY <1>0, <2>2, Bounded DEF CanInterrupt, Correlations, Natives, Ready,
         Sending
    <2>4. CASE toServer' = toServer
      BY <1>1, <2>1, <2>4 DEF server
    <2> QED BY <1>2, <1>3, <2>1, <2>2, <2>3, <2>4
  <1>9. CASE Mapping \/ ReadResponse
    <2>1. /\ fromServer # <<>> /\ fromServer' = Tail(fromServer) /\ toServer' = toServer
          /\ srv' = srv /\ owner' = owner
      BY <1>0, <1>9, MappingFrame DEF ReadResponse, Consume, Arrived, seen
    <2> QED BY <2>1 DEF Piping, TakesFrame, SameServer
  <1>10. CASE RejectFrame
    <2>1. /\ fromServer # <<>> /\ owner' = owner
          /\ \/ fromServer' = Tail(fromServer) /\ UNCHANGED <<toServer, srv>>
             \/ /\ srv' = [srv EXCEPT !.up = FALSE]
                /\ fromServer' = <<>> /\ toServer' = <<>>
      BY <1>10 DEF RejectFrame, Consume, seen
    <2>2. SameServer
      BY <1>0, <2>1 DEF Servers, SameServer
    <2> QED BY <2>1, <2>2 DEF Piping, TakesFrame, Clears
  <1>11. CASE EndClose
    <2>1. /\ owner' = owner /\ srv' = [srv EXCEPT !.up = FALSE]
          /\ fromServer' = <<>> /\ toServer' = <<>>
      BY <1>11 DEF EndClose, seen
    <2>2. SameServer
      BY <1>0, <2>1 DEF Servers, SameServer
    <2> QED BY <2>1, <2>2 DEF Piping, Clears
  <1>12. CASE Server
    BY <1>0, <1>12, ServerServes DEF Piping
  <1>13. CASE StartFails \/ SendRefused \/ TurnSent \/ TurnNotSent \/ ReadEvent
              \/ ReadTerminal \/ AuditEnds \/ AnswerFails
    BY <1>1, <1>13 DEF StartFails, SendRefused, TurnSent, TurnNotSent,
       ReadEvent,
       ReadTerminal, AuditEnds, AnswerFails, seen
  <1>14. CASE Interrupted \/ InterruptFails \/ GraceExpires \/ LastInterrupt
              \/ CloseByTurn \/ RunEnds \/ Close
    BY <1>1, <1>14 DEF Interrupted, InterruptFails, GraceExpires, LastInterrupt,
       CloseByTurn, RunEnds, Close, seen
  <1>15. CASE CompactSent \/ CompactBound \/ CompactNotStarted \/ CompactReads
              \/ CompactTimesOut
    BY <1>1, <1>15 DEF CompactSent, CompactBound, CompactNotStarted,
       CompactReads,
       CompactTimesOut, seen
  <1>16. ASSUME NEW t \in Tasks, NEW k \in {"turn", "compact"}, NewTask(t, k)
         PROVE  Piping
    BY <1>1, <1>16 DEF NewTask, seen
  <1>17. CASE (\E t \in Tasks : RequestCancel(t)) \/ (\E x \in Context : InjectItems(x))
              \/ UNCHANGED vars
    BY <1>1, <1>17 DEF RequestCancel, InjectItems, vars, seen
  <1> QED
    BY <1>4, <1>5, <1>6, <1>7, <1>8, <1>9, <1>10, <1>11, <1>12, <1>13, <1>14,
       <1>15,
       <1>16, <1>17 DEF Next, Running, Deciding, Reader, Mapping, Embedder

-----------------------------------------------------------------------------
(* What the pipes hold after it *)

\* A request is added to the others.
LEMMA SentFacts ==
    ASSUME TypedServer, NEW r \in Requests, toServer' = Append(toServer, r)
    PROVE  /\ Len(toServer) \in Nat
           /\ \A i \in DOMAIN toServer : i \in DOMAIN toServer' /\ toServer'[i] = toServer[i]
           /\ Len(toServer) + 1 \in DOMAIN toServer' /\ toServer'[Len(toServer) + 1] = r
           /\ \A i \in DOMAIN toServer' :
                /\ i \in Int
                /\ \/ i \in DOMAIN toServer /\ i <= Len(toServer) /\ toServer'[i] = toServer[i]
                   \/ i = Len(toServer) + 1 /\ toServer'[i] = r
  <1>1. toServer \in Seq(Requests) /\ Len(toServer) \in Nat
    BY LenProperties DEF TypedServer
  <1>2. /\ toServer' \in Seq(Requests) /\ Len(toServer') = Len(toServer) + 1
        /\ toServer'[Len(toServer) + 1] = r
        /\ \A i \in 1..Len(toServer) : toServer'[i] = toServer[i]
    BY <1>1, AppendProperties
  <1>3. DOMAIN toServer = 1..Len(toServer) /\ DOMAIN toServer' = 1..Len(toServer')
    BY <1>1, <1>2, LenProperties
  <1> QED BY <1>1, <1>2, <1>3

\* The first request is taken.
LEMMA TakenRequest ==
    ASSUME TypedServer, toServer # <<>>, toServer' = Tail(toServer)
    PROVE  /\ 1 \in DOMAIN toServer /\ req = toServer[1] /\ req \in Requests
           /\ req.t \in Tasks
           /\ \A i \in DOMAIN toServer' :
                /\ i \in Int /\ i + 1 \in DOMAIN toServer /\ 1 < i + 1
                /\ toServer'[i] = toServer[i + 1]
  <1>1. toServer \in Seq(Requests)
    BY DEF TypedServer
  <1>2. /\ req \in Requests /\ Tail(toServer) \in Seq(Requests)
        /\ Len(toServer) \in Nat /\ Len(toServer) >= 1 /\ req = toServer[1]
        /\ req.t \in Tasks
        /\ Len(Tail(toServer)) = Len(toServer) - 1
        /\ \A i \in 1..Len(Tail(toServer)) : Tail(toServer)[i] = toServer[i + 1]
    BY HeadRequest
  <1>3. /\ DOMAIN toServer = 1..Len(toServer)
        /\ DOMAIN Tail(toServer) = 1..Len(Tail(toServer))
    BY <1>1, <1>2, LenProperties
  <1> QED BY <1>2, <1>3

\* The first frame is taken.
LEMMA TakenFrame ==
    ASSUME TypedServer, fromServer # <<>>, fromServer' = Tail(fromServer)
    PROVE  /\ 1 \in DOMAIN fromServer /\ msg = fromServer[1] /\ msg \in Frames
           /\ \A i \in DOMAIN fromServer' :
                /\ i \in Int /\ i + 1 \in DOMAIN fromServer /\ 1 < i + 1
                /\ fromServer'[i] = fromServer[i + 1]
           /\ \A i \in DOMAIN fromServer : i # 1 =>
                i - 1 \in DOMAIN fromServer' /\ fromServer'[i - 1] = fromServer[i]
  <1>1. fromServer \in Seq(Frames)
    BY DEF TypedServer
  <1>2. /\ msg \in Frames /\ Tail(fromServer) \in Seq(Frames)
        /\ Len(fromServer) \in Nat /\ Len(fromServer) >= 1 /\ msg = fromServer[1]
        /\ Len(Tail(fromServer)) = Len(fromServer) - 1
        /\ \A i \in 1..Len(Tail(fromServer)) : Tail(fromServer)[i] = fromServer[i + 1]
    BY HeadFrame
  <1>3. /\ DOMAIN fromServer = 1..Len(fromServer)
        /\ DOMAIN Tail(fromServer) = 1..Len(Tail(fromServer))
    BY <1>1, <1>2, LenProperties
  <1> QED BY <1>2, <1>3

\* Frames are added after the others.
LEMMA ToldFacts ==
    ASSUME TypedServer, NEW new \in Seq(Frames), Tell(new)
    PROVE  /\ \A i \in DOMAIN fromServer :
                i \in DOMAIN fromServer' /\ fromServer'[i] = fromServer[i]
           /\ \A i \in DOMAIN fromServer' :
                /\ i \in Int /\ Len(fromServer) \in Int /\ Len(new) \in Nat
                /\ \/ /\ i \in DOMAIN fromServer /\ i <= Len(fromServer)
                      /\ fromServer'[i] = fromServer[i]
                   \/ /\ i > Len(fromServer) /\ i - Len(fromServer) \in 1..Len(new)
                      /\ fromServer'[i] = new[i - Len(fromServer)]
  <1>1. /\ fromServer \in Seq(Frames) /\ Len(fromServer) \in Nat /\ Len(new) \in Nat
        /\ fromServer' = fromServer \o new
    BY LenProperties DEF TypedServer, Tell
  <1>2. /\ fromServer' \in Seq(Frames)
        /\ Len(fromServer') = Len(fromServer) + Len(new)
        /\ \A i \in 1..(Len(fromServer) + Len(new)) :
              fromServer'[i] = IF i <= Len(fromServer) THEN fromServer[i]
                               ELSE new[i - Len(fromServer)]
    BY <1>1, ConcatProperties
  <1>3. /\ DOMAIN fromServer = 1..Len(fromServer)
        /\ DOMAIN fromServer' = 1..Len(fromServer')
    BY <1>1, <1>2, LenProperties
  <1> QED BY <1>1, <1>2, <1>3

\* One frame.
LEMMA ToldOne ==
    ASSUME TypedServer, NEW f \in Frames, Tell(<<f>>)
    PROVE  \A i \in DOMAIN fromServer' :
             /\ i \in Int
             /\ \/ i \in DOMAIN fromServer /\ fromServer'[i] = fromServer[i]
                \/ /\ fromServer'[i] = f
                   /\ \A j \in DOMAIN fromServer' : j > i => FALSE
  <1> DEFINE new == <<f>>
  <1>1. new \in Seq(Frames) /\ Len(new) = 1 /\ new[1] = f
    OBVIOUS
  <1>2. Tell(new)
    OBVIOUS
  <1> HIDE DEF new
  <1>3. /\ \A i \in DOMAIN fromServer' :
             /\ i \in Int /\ Len(fromServer) \in Int
             /\ \/ /\ i \in DOMAIN fromServer /\ i <= Len(fromServer)
                   /\ fromServer'[i] = fromServer[i]
                \/ /\ i > Len(fromServer) /\ i - Len(fromServer) \in 1..1
                   /\ fromServer'[i] = new[i - Len(fromServer)]
    BY <1>1, <1>2, ToldFacts
  <1>4. \A i \in DOMAIN fromServer' :
             /\ i \in Int
             /\ \/ i \in DOMAIN fromServer /\ fromServer'[i] = fromServer[i]
                   /\ i <= Len(fromServer)
                \/ fromServer'[i] = f /\ i = Len(fromServer) + 1
    <2> TAKE i \in DOMAIN fromServer'
    <2>1. CASE i - Len(fromServer) \in 1..1
      <3>1. i = Len(fromServer) + 1 /\ i - Len(fromServer) = 1
        BY <1>3, <2>1
      <3> QED BY <1>1, <1>3, <3>1
    <2> QED BY <1>3, <2>1
  <1> QED BY <1>3, <1>4

\* Two frames.
LEMMA ToldTwo ==
    ASSUME TypedServer, NEW f \in Frames, NEW g \in Frames, Tell(<<f, g>>)
    PROVE  \A i \in DOMAIN fromServer' :
             /\ i \in Int
             /\ \/ i \in DOMAIN fromServer /\ fromServer'[i] = fromServer[i]
                \/ /\ fromServer'[i] = f
                   /\ \A j \in DOMAIN fromServer' : j > i => fromServer'[j] = g
                \/ /\ fromServer'[i] = g
                   /\ \A j \in DOMAIN fromServer' : j > i => FALSE
  <1> DEFINE new == <<f, g>>
  <1>1. new \in Seq(Frames) /\ Len(new) = 2 /\ new[1] = f /\ new[2] = g
    OBVIOUS
  <1>2. Tell(new)
    OBVIOUS
  <1> HIDE DEF new
  <1>3. /\ \A i \in DOMAIN fromServer' :
             /\ i \in Int /\ Len(fromServer) \in Int
             /\ \/ /\ i \in DOMAIN fromServer /\ i <= Len(fromServer)
                   /\ fromServer'[i] = fromServer[i]
                \/ /\ i > Len(fromServer) /\ i - Len(fromServer) \in 1..2
                   /\ fromServer'[i] = new[i - Len(fromServer)]
    BY <1>1, <1>2, ToldFacts
  <1>4. \A i \in DOMAIN fromServer' :
             /\ i \in Int
             /\ \/ i \in DOMAIN fromServer /\ fromServer'[i] = fromServer[i]
                   /\ i <= Len(fromServer)
                \/ fromServer'[i] = f /\ i = Len(fromServer) + 1
                \/ fromServer'[i] = g /\ i = Len(fromServer) + 2
    <2> TAKE i \in DOMAIN fromServer'
    <2>1. CASE i - Len(fromServer) \in 1..2
      <3>1. \/ i = Len(fromServer) + 1 /\ i - Len(fromServer) = 1
            \/ i = Len(fromServer) + 2 /\ i - Len(fromServer) = 2
        BY <1>3, <2>1
      <3>2. fromServer'[i] = new[i - Len(fromServer)]
        BY <1>3, <2>1
      <3> QED BY <1>1, <1>3, <3>1, <3>2
    <2> QED BY <1>3, <2>1
  <1> QED BY <1>3, <1>4

\* A native turn keeps its owner; at most one is opened.
LEMMA OwnersStay ==
    ASSUME TypedServer, TypedSeen, Piping
    PROVE  /\ Issued \subseteq Natives /\ Issued \subseteq Int /\ srv.next \in Int
           /\ \A n \in Issued : n < srv.next
           /\ srv.nat # 0 => srv.nat \in Natives
           /\ \A n \in Issued : n \in Issued' /\ owner'[n] = owner[n]
           /\ ~Opening /\ ~Replacing => Issued' = Issued /\ owner' = owner
           /\ Opening \/ Replacing =>
                /\ srv.next \in Issued' /\ \A n \in Issued' : n \in Issued \/ n = srv.next
           /\ Opening => owner'[srv.next] = req.t
           /\ Replacing => owner'[srv.next] = owner[srv.nat]
  <1>1. srv.next \in 1..(MaxNatives + 1) /\ srv.nat \in 0..MaxNatives /\ MaxNatives \in Nat
    BY Bounded, ConversationAssumption DEF TypedServer, Servers
  <1>2. /\ Issued \subseteq Natives /\ Issued \subseteq Int /\ srv.next \in Int
        /\ \A n \in Issued : n < srv.next
        /\ srv.nat # 0 => srv.nat \in Natives
    BY <1>1 DEF Issued, Natives
  <1>3. owner \in [Natives -> 0..MaxTasks]
    BY DEF TypedSeen
  <1>4. CASE Opening
    <2>1. /\ srv'.next = srv.next + 1 /\ srv.next \in Natives
          /\ owner' = [owner EXCEPT ![srv.next] = req.t]
      BY <1>4 DEF Opening
    <2>2. /\ Issued' = 1..srv.next
          /\ \A n \in Issued : n # srv.next
      BY <1>1, <1>2, <2>1 DEF Issued
    <2>3. ~Replacing \/ owner'[srv.next] = owner[srv.nat]
      BY <1>2, <1>3, <2>1 DEF Replacing
    <2> QED BY <1>1, <1>2, <1>3, <1>4, <2>1, <2>2, <2>3 DEF Issued
  <1>5. CASE Replacing
    <2>1. /\ srv'.next = srv.next + 1 /\ srv.next \in Natives
          /\ owner' = [owner EXCEPT ![srv.next] = owner[srv.nat]]
          /\ srv.nat # 0
      BY <1>5 DEF Replacing
    <2>2. /\ Issued' = 1..srv.next
          /\ \A n \in Issued : n # srv.next
      BY <1>1, <1>2, <2>1 DEF Issued
    <2>3. ~Opening
      BY <2>1 DEF Opening
    <2> QED BY <1>1, <1>2, <1>3, <1>5, <2>1, <2>2, <2>3 DEF Issued
  <1>6. CASE ~Opening /\ ~Replacing
    <2>1. srv'.next = srv.next /\ owner' = owner
      BY <1>6 DEF Piping, SameServer, Notifies, SendsRequest, TakesFrame,
         Clears, Serving,
         Replies, Reports, Ending, Exiting
    <2> QED BY <1>2, <1>6, <2>1 DEF Issued
  <1> QED BY <1>4, <1>5, <1>6

\* A task keeps its kind.
LEMMA KindStays ==
    ASSUME Inv, [Next]_vars
    PROVE  \A t \in Tasks : kind[t] # "none" => kind'[t] = kind[t]
  <1>0. TypedTasks /\ Placed
    BY DEF Inv
  <1>1. ASSUME NEW u \in Tasks, NEW k \in {"turn", "compact"}, NewTask(u, k)
        PROVE  \A t \in Tasks : kind[t] # "none" => kind'[t] = kind[t]
    BY <1>0, <1>1 DEF NewTask, TypedTasks
  <1>2. CASE LockStays
    BY <1>2 DEF LockStays
  <1>3. CASE pc # "idle" /\ LockPasses
    BY <1>3 DEF LockPasses
  <1> QED BY <1>1, <1>2, <1>3, LockSteps

\* The requests and the native turns stay in order.
LEMMA OrderlyStep ==
    ASSUME Inv, Orderly, Mentions, Sending, [Next]_vars
    PROVE  Orderly'
  <1>0. /\ TypedTasks /\ TypedServer /\ TypedSeen /\ Piping /\ Placed
        /\ kind \in [Tasks -> {"none", "turn", "compact"}]
    BY Pipes DEF Inv, TypedTasks
  <1>1. /\ Issued \subseteq Natives /\ Issued \subseteq Int /\ srv.next \in Int
        /\ \A n \in Issued : n < srv.next
        /\ \A n \in Issued : n \in Issued' /\ owner'[n] = owner[n]
        /\ ~Opening /\ ~Replacing => Issued' = Issued /\ owner' = owner
        /\ Opening \/ Replacing =>
             /\ srv.next \in Issued' /\ \A n \in Issued' : n \in Issued \/ n = srv.next
        /\ Opening => owner'[srv.next] = req.t
        /\ Replacing => owner'[srv.next] = owner[srv.nat]
    BY <1>0, OwnersStay
  <1>2. \A t \in Tasks : kind[t] # "none" => kind'[t] = kind[t]
    BY KindStays
  <1>3. /\ \A n \in Issued : owner[n] \in Tasks /\ kind[owner[n]] # "none"
                             /\ owner[n] \in Int
        /\ \A t \in Tasks : t \in Int
    <2>1. ASSUME NEW n \in Issued
          PROVE  owner[n] \in Tasks /\ kind[owner[n]] # "none"
      <3>1. owner[n] \in Tasks
        BY DEF Orderly
      <3>2. Mentioned(owner[n])
        BY DEF Mentioned, OnWire
      <3> QED BY <3>1, <3>2 DEF Mentions, Past
    <2> QED BY <2>1 DEF Tasks
  <1>4. srv.nat # 0 => srv.nat = srv.next - 1 /\ srv.nat \in Issued
    <2>1. srv.nat # 0 => srv.nat \in Natives
      BY <1>0, OwnersStay
    <2> QED BY <1>1, <2>1 DEF Orderly, Issued, Natives
  <1>5. \A i \in DOMAIN toServer : Begins(toServer[i]) =>
           toServer[i].t \in Tasks /\ kind[toServer[i].t] # "none"
    <2>1. \A i \in DOMAIN toServer : toServer[i] \in Requests
      BY <1>0, ElementOfSeq, LenProperties DEF TypedServer
    <2>2. \A r \in Requests : r.t \in Tasks
      BY DEF Requests
    <2> QED BY <2>1, <2>2 DEF Orderly, Begins
  \* The native turns as they were, and some of the requests.
  <1>6. ASSUME Issued' = Issued, owner' = owner,
               srv'.nat \in {0, srv.nat}, srv'.next = srv.next,
               srv'.nat # 0 => srv'.kind = srv.kind,
               NEW d \in {0, 1},
               \A i \in DOMAIN toServer' : i \in Int /\ (Begins(toServer'[i]) =>
                  i + d \in DOMAIN toServer /\ toServer'[i] = toServer[i + d])
        PROVE  Orderly'
    <2>1. /\ \A n \in Issued' : owner'[n] \in Tasks
          /\ \A n, m \in Issued' : n <= m => owner'[n] <= owner'[m]
      BY <1>6 DEF Orderly
    <2>2. srv'.nat # 0 => srv'.nat = srv'.next - 1 /\ srv'.kind = kind'[owner'[srv'.nat]]
      BY <1>2, <1>3, <1>4, <1>6 DEF Orderly
    <2>3. ASSUME NEW i \in DOMAIN toServer', Begins(toServer'[i])
          PROVE  /\ kind'[toServer'[i].t] = toServer'[i].op
                 /\ \A n \in Issued' : owner'[n] < toServer'[i].t
                 /\ \A j \in DOMAIN toServer' :
                       i < j /\ Begins(toServer'[j]) => toServer'[i].t < toServer'[j].t
      <3>1. i + d \in DOMAIN toServer /\ toServer'[i] = toServer[i + d] /\ i \in Int
        BY <1>6, <2>3
      <3>2. /\ toServer[i + d].t \in Tasks /\ kind[toServer[i + d].t] # "none"
            /\ kind[toServer[i + d].t] = toServer[i + d].op
            /\ \A n \in Issued : owner[n] < toServer[i + d].t
        BY <1>5, <2>3, <3>1 DEF Orderly
      <3>3. ASSUME NEW j \in DOMAIN toServer', i < j, Begins(toServer'[j])
            PROVE  toServer'[i].t < toServer'[j].t
        <4>1. j + d \in DOMAIN toServer /\ toServer'[j] = toServer[j + d] /\ j \in Int
          BY <1>6, <3>3
        <4>2. i + d < j + d
          BY <3>1, <3>3, <4>1
        <4> QED BY <2>3, <3>1, <3>3, <4>1, <4>2 DEF Orderly
      <3> QED BY <1>2, <1>6, <3>1, <3>2, <3>3
    <2> QED BY <2>1, <2>2, <2>3 DEF Orderly, Begins
  <1>7. ASSUME toServer' = toServer
        PROVE  \A i \in DOMAIN toServer' : i \in Int /\ (Begins(toServer'[i]) =>
                  i + 0 \in DOMAIN toServer /\ toServer'[i] = toServer[i + 0])
    <2>1. DOMAIN toServer \subseteq Int
      BY <1>0, LenProperties DEF TypedServer
    <2> QED BY <1>7, <2>1
  <1>8. ASSUME toServer' = <<>>
        PROVE  \A i \in DOMAIN toServer' : i \in Int /\ (Begins(toServer'[i]) =>
                  i + 0 \in DOMAIN toServer /\ toServer'[i] = toServer[i + 0])
    BY <1>8
  <1>9. CASE SameServer /\ (toServer' = toServer \/ toServer' = <<>>)
    <2>1. ~Opening /\ ~Replacing => Issued' = Issued
      BY <1>1
    <2>2. Issued' = Issued
      BY <1>9 DEF SameServer, Issued
    <2> QED BY <1>6, <1>7, <1>8, <1>9, <2>2 DEF SameServer
  <1>10. CASE Notifies
    <2>1. PICK r \in Requests : ~Begins(r) /\ toServer' = Append(toServer, r)
      BY <1>10 DEF Notifies
    <2>2. Issued' = Issued /\ SameServer
      BY <1>10 DEF Notifies, SameServer, Issued
    <2>3. \A i \in DOMAIN toServer' : i \in Int /\ (Begins(toServer'[i]) =>
             i + 0 \in DOMAIN toServer /\ toServer'[i] = toServer[i + 0])
      BY <1>0, <2>1, SentFacts
    <2> QED BY <1>6, <2>2, <2>3 DEF SameServer
  <1>11. CASE Replies
    <2>1. Issued' = Issued /\ SameServer /\ toServer # <<>> /\ toServer' = Tail(toServer)
      BY <1>11 DEF Replies, SameServer, Issued
    <2>2. \A i \in DOMAIN toServer' : i \in Int /\ (Begins(toServer'[i]) =>
             i + 1 \in DOMAIN toServer /\ toServer'[i] = toServer[i + 1])
      BY <1>0, <2>1, TakenRequest
    <2> QED BY <1>6, <2>1, <2>2 DEF SameServer
  <1>12. CASE Ending \/ Exiting
    <2>1. /\ owner' = owner /\ srv'.nat = 0 /\ srv'.next = srv.next
          /\ toServer' = toServer \/ toServer' = <<>>
      BY <1>12 DEF Ending, Exiting
    <2>2. Issued' = Issued
      BY <2>1 DEF Issued
    <2> QED BY <1>6, <1>7, <1>8, <2>1, <2>2
  <1>13. CASE SendsRequest
    <2> DEFINE r == [op |-> kind[holder], t |-> holder, nat |-> 0]
    <2>1. /\ holder \in Tasks /\ kind[holder] \in {"turn", "compact"} /\ pc = "send"
          /\ SameServer /\ toServer' = Append(toServer, r) /\ kind' = kind
      BY <1>13 DEF SendsRequest, Sends, tasks
    <2>2. r \in Requests /\ r.t = holder /\ r.op = kind[holder] /\ Begins(r)
      BY <2>1 DEF Requests, Begins
    <2> HIDE DEF r
    <2>3. /\ Len(toServer) \in Nat
          /\ \A i \in DOMAIN toServer' :
                /\ i \in Int
                /\ \/ i \in DOMAIN toServer /\ i <= Len(toServer) /\ toServer'[i] = toServer[i]
                   \/ i = Len(toServer) + 1 /\ toServer'[i] = r
      BY <1>0, <2>1, <2>2, SentFacts
    <2>4. \A t \in Tasks : OnWire(t) => t < holder
      <3>1. holder # 0
        BY <2>1 DEF Tasks
      <3>2. \A t \in Tasks : OnWire(t) => Past(t)
        BY DEF Mentions, Mentioned
      <3> QED BY <2>1, <3>1, <3>2 DEF Past
    <2>5. Issued' = Issued /\ owner' = owner
      BY <2>1 DEF SameServer, Issued
    <2>6. \A n \in Issued : owner[n] < holder
      BY <1>3, <2>4 DEF OnWire
    <2>7. \A i \in DOMAIN toServer : Begins(toServer[i]) => toServer[i].t < holder
      BY <1>5, <2>4 DEF OnWire, AskedFor
    <2>8. /\ \A n \in Issued' : owner'[n] \in Tasks
          /\ \A n, m \in Issued' : n <= m => owner'[n] <= owner'[m]
          /\ srv'.nat # 0 =>
                srv'.nat = srv'.next - 1 /\ srv'.kind = kind'[owner'[srv'.nat]]
      BY <2>1, <2>5 DEF Orderly, SameServer
    <2>9. ASSUME NEW i \in DOMAIN toServer', Begins(toServer'[i])
          PROVE  /\ kind'[toServer'[i].t] = toServer'[i].op
                 /\ \A n \in Issued' : owner'[n] < toServer'[i].t
                 /\ \A j \in DOMAIN toServer' :
                       i < j /\ Begins(toServer'[j]) => toServer'[i].t < toServer'[j].t
      <3>1. CASE i = Len(toServer) + 1 /\ toServer'[i] = r
        <4>1. \A j \in DOMAIN toServer' : ~(i < j)
          BY <2>3, <3>1
        <4> QED BY <2>1, <2>2, <2>5, <2>6, <3>1, <4>1
      <3>2. CASE i \in DOMAIN toServer /\ i <= Len(toServer) /\ toServer'[i] = toServer[i]
        <4>1. ASSUME NEW j \in DOMAIN toServer', i < j, Begins(toServer'[j])
              PROVE  toServer'[i].t < toServer'[j].t
          <5>1. CASE j \in DOMAIN toServer /\ toServer'[j] = toServer[j]
            BY <2>9, <3>2, <4>1, <5>1 DEF Orderly
          <5>2. CASE toServer'[j] = r
            BY <2>2, <2>7, <2>9, <3>2, <5>2
          <5> QED BY <2>3, <5>1, <5>2
        <4>2. /\ kind[toServer[i].t] = toServer[i].op
              /\ \A n \in Issued : owner[n] < toServer[i].t
          BY <2>9, <3>2 DEF Orderly
        <4> QED BY <2>1, <2>5, <3>2, <4>1, <4>2
      <3> QED BY <2>3, <3>1, <3>2
    <2> QED BY <2>8, <2>9 DEF Orderly, Begins
  <1>14. ASSUME NEW o \in Tasks, owner'[srv.next] = o, Opening \/ Replacing,
                \A n \in Issued : owner[n] <= o, srv'.kind = kind[o], kind[o] # "none",
                srv'.nat = srv.next, srv'.next = srv.next + 1,
                NEW d \in {0, 1},
                \A i \in DOMAIN toServer' : i \in Int /\ (Begins(toServer'[i]) =>
                   /\ i + d \in DOMAIN toServer /\ toServer'[i] = toServer[i + d]
                   /\ o < toServer'[i].t)
         PROVE  Orderly'
    <2>1. \A n \in Issued' : owner'[n] \in Tasks
      BY <1>1, <1>3, <1>14
    <2>2. \A n, m \in Issued' : n <= m => owner'[n] <= owner'[m]
      <3> SUFFICES ASSUME NEW n \in Issued', NEW m \in Issued', n <= m
                   PROVE  owner'[n] <= owner'[m]
        OBVIOUS
      <3>1. CASE m = srv.next
        <4>1. owner'[m] = o /\ o \in Int
          BY <1>3, <1>14, <3>1
        <4>2. CASE n = srv.next
          BY <3>1, <4>1, <4>2
        <4>3. CASE n \in Issued
          <5>1. owner'[n] = owner[n]
            BY <1>1, <4>3
          <5>2. owner[n] <= o
            BY <1>14, <4>3
          <5> QED BY <4>1, <5>1, <5>2
        <4>4. n \in Issued \/ n = srv.next
          BY <1>1, <1>14
        <4> QED BY <4>2, <4>3, <4>4
      <3>2. CASE m \in Issued
        <4>1. m \in Int /\ srv.next \in Int /\ m < srv.next
          BY <1>1, <3>2
        <4>2. n # srv.next
          BY <4>1
        <4>3. n \in Issued \/ n = srv.next
          BY <1>1, <1>14
        <4>4. n \in Issued
          BY <4>2, <4>3
        <4> QED BY <1>1, <3>2, <4>4 DEF Orderly
      <3> QED BY <1>1, <1>14, <3>1, <3>2
    <2>3. srv'.nat = srv'.next - 1 /\ srv'.kind = kind'[owner'[srv'.nat]]
      BY <1>1, <1>2, <1>14
    <2>4. ASSUME NEW i \in DOMAIN toServer', Begins(toServer'[i])
          PROVE  /\ kind'[toServer'[i].t] = toServer'[i].op
                 /\ \A n \in Issued' : owner'[n] < toServer'[i].t
                 /\ \A j \in DOMAIN toServer' :
                       i < j /\ Begins(toServer'[j]) => toServer'[i].t < toServer'[j].t
      <3>1. /\ i + d \in DOMAIN toServer /\ toServer'[i] = toServer[i + d] /\ i \in Int
            /\ o < toServer'[i].t
        BY <1>14, <2>4
      <3>2. /\ toServer[i + d].t \in Tasks /\ kind[toServer[i + d].t] # "none"
            /\ kind[toServer[i + d].t] = toServer[i + d].op
            /\ \A n \in Issued : owner[n] < toServer[i + d].t
        BY <1>5, <2>4, <3>1 DEF Orderly
      <3>3. ASSUME NEW j \in DOMAIN toServer', i < j, Begins(toServer'[j])
            PROVE  toServer'[i].t < toServer'[j].t
        <4>1. j + d \in DOMAIN toServer /\ toServer'[j] = toServer[j + d] /\ j \in Int
          BY <1>14, <3>3
        <4>2. i + d < j + d
          BY <3>1, <3>3, <4>1
        <4> QED BY <2>4, <3>1, <3>3, <4>1, <4>2 DEF Orderly
      <3>4. \A n \in Issued' : owner'[n] < toServer'[i].t
        BY <1>1, <1>14, <3>1, <3>2
      <3> QED BY <1>2, <3>1, <3>2, <3>3, <3>4
    <2> QED BY <2>1, <2>2, <2>3, <2>4 DEF Orderly, Begins
  <1>15. CASE Opening
    <2>1. /\ toServer # <<>> /\ toServer' = Tail(toServer) /\ Begins(req)
          /\ srv'.nat = srv.next /\ srv'.next = srv.next + 1 /\ srv'.kind = req.op
      BY <1>15 DEF Opening
    <2>2. /\ 1 \in DOMAIN toServer /\ req = toServer[1] /\ req.t \in Tasks
          /\ \A i \in DOMAIN toServer' :
                /\ i \in Int /\ i + 1 \in DOMAIN toServer /\ 1 < i + 1
                /\ toServer'[i] = toServer[i + 1]
      BY <1>0, <2>1, TakenRequest
    <2>3. /\ kind[req.t] = req.op /\ \A n \in Issued : owner[n] < req.t
          /\ \A j \in DOMAIN toServer :
                1 < j /\ Begins(toServer[j]) => req.t < toServer[j].t
      BY <2>1, <2>2 DEF Orderly
    <2>4. kind[req.t] # "none"
      BY <2>1, <2>3 DEF Begins
    <2>5. \A n \in Issued : owner[n] <= req.t
      BY <1>3, <2>2, <2>3
    <2>6. \A i \in DOMAIN toServer' : i \in Int /\ (Begins(toServer'[i]) =>
             /\ i + 1 \in DOMAIN toServer /\ toServer'[i] = toServer[i + 1]
             /\ req.t < toServer'[i].t)
      BY <2>2, <2>3
    <2>7. req.t \in Tasks /\ owner'[srv.next] = req.t /\ srv'.kind = kind[req.t]
      BY <1>1, <1>15, <2>1, <2>2, <2>3
    <2> QED BY <1>14, <1>15, <2>1, <2>4, <2>5, <2>6, <2>7
  <1>16. CASE Replacing
    <2>1. /\ toServer' = toServer /\ srv.nat # 0
          /\ srv'.nat = srv.next /\ srv'.next = srv.next + 1 /\ srv'.kind = srv.kind
      BY <1>16 DEF Replacing
    <2>2. /\ owner[srv.nat] \in Tasks /\ kind[owner[srv.nat]] # "none"
          /\ srv.kind = kind[owner[srv.nat]]
      BY <1>3, <1>4, <2>1 DEF Orderly
    <2>3. \A n \in Issued : owner[n] <= owner[srv.nat]
      <3>1. \A n \in Issued : n <= srv.nat
        BY <1>1, <1>4, <2>1
      <3> QED BY <1>4, <2>1, <3>1 DEF Orderly
    <2>4. \A i \in DOMAIN toServer' : i \in Int /\ (Begins(toServer'[i]) =>
             /\ i + 0 \in DOMAIN toServer /\ toServer'[i] = toServer[i + 0]
             /\ owner[srv.nat] < toServer'[i].t)
      BY <1>4, <1>7, <2>1 DEF Orderly
    <2> QED BY <1>1, <1>14, <1>16, <2>1, <2>2, <2>3, <2>4
  <1> QED
    BY <1>0, <1>9, <1>10, <1>11, <1>12, <1>13, <1>15, <1>16 DEF Piping, Serving,
       Reports, TakesFrame, Clears

\* What is live is on the wire, and a task.
LEMMA LiveOnWire ==
    ASSUME Inv, Orderly, Streams
    PROVE  /\ \A t : Live(t) => OnWire(t)
           /\ \A t : OnWire(t) => t \in Tasks
           /\ srv.nat # 0 => srv.nat \in Issued
  <1>0. /\ TypedServer /\ TypedSeen
        /\ toServer \in Seq(Requests) /\ DOMAIN toServer = 1..Len(toServer)
    BY LenProperties DEF Inv, TypedServer
  <1>1. srv.nat # 0 => srv.nat \in Issued
    <2>1. srv.next \in Int /\ srv.nat \in 0..MaxNatives /\ MaxNatives \in Nat
      BY <1>0, Bounded, ConversationAssumption DEF TypedServer, Servers
    <2> QED BY <2>1 DEF Orderly, Issued
  <1>2. \A t : Live(t) => OnWire(t)
    BY <1>1 DEF Live, OnWire, Framed, Served, Streams, Sound
  <1>3. \A i \in DOMAIN toServer : toServer[i].t \in Tasks
    <2>1. \A i \in DOMAIN toServer : toServer[i] \in Requests
      BY <1>0, ElementOfSeq
    <2> QED BY <2>1 DEF Requests
  <1> QED BY <1>1, <1>2, <1>3 DEF OnWire, AskedFor, Orderly

\* Nobody but the holder, whose request is sent, comes to be on the wire.
LEMMA ReachStep ==
    ASSUME Inv, Orderly, Streams, Sending, [Next]_vars
    PROVE  \A t \in Tasks :
             /\ OnWire(t)' => OnWire(t) \/ (Sends /\ t = holder)
             /\ Live(t)' => Live(t) \/ (Sends /\ t = holder)
             /\ Answered(t)' => Answered(t) \/ AskedFor(t)
  <1>0. /\ TypedServer /\ TypedSeen /\ Piping
    BY Pipes DEF Inv
  <1>1. /\ \A n \in Issued : n \in Issued' /\ owner'[n] = owner[n]
        /\ ~Opening /\ ~Replacing => Issued' = Issued /\ owner' = owner
        /\ Opening \/ Replacing => \A n \in Issued' : n \in Issued \/ n = srv.next
        /\ Opening => owner'[srv.next] = req.t
        /\ Replacing => owner'[srv.next] = owner[srv.nat]
    BY <1>0, OwnersStay
  <1>2. /\ srv.nat # 0 => srv.nat \in Issued
        /\ \A i \in DOMAIN fromServer : fromServer[i].nat # 0 => fromServer[i].nat \in Issued
        /\ srv.nat # 0 => owner'[srv.nat] = owner[srv.nat]
        /\ \A i \in DOMAIN fromServer : fromServer[i].nat # 0 =>
              owner'[fromServer[i].nat] = owner[fromServer[i].nat]
    BY <1>1, LiveOnWire DEF Streams, Sound
  <1>3. srv.nat # 0 => srv.nat \in Natives
    BY <1>0, OwnersStay
  <1> DEFINE Takes == \A i \in DOMAIN toServer' : \E j \in DOMAIN toServer :
                         toServer'[i] = toServer[j]
             Hears == \A i \in DOMAIN fromServer' : \E j \in DOMAIN fromServer :
                         fromServer'[i] = fromServer[j]
  <1>4. /\ toServer' = toServer \/ toServer' = <<>> => Takes
        /\ fromServer' = fromServer \/ fromServer' = <<>> => Hears
        /\ TakesFrame => Takes /\ Hears
        /\ Replies \/ Opening => Takes
    <2>1. toServer' = toServer \/ toServer' = <<>> => Takes
      OBVIOUS
    <2>2. fromServer' = fromServer \/ fromServer' = <<>> => Hears
      OBVIOUS
    <2>3. TakesFrame => Hears /\ toServer' = toServer
      BY <1>0, TakenFrame DEF TakesFrame
    <2>4. Replies \/ Opening => Takes
      BY <1>0, TakenRequest DEF Replies, Opening
    <2> QED BY <2>1, <2>2, <2>3, <2>4
  <1>5. ASSUME NEW t \in Tasks, Takes
        PROVE  AskedFor(t)' => AskedFor(t)
    BY <1>5 DEF AskedFor, Begins
  <1>6. ASSUME NEW t \in Tasks, Hears
        PROVE  /\ Framed(t)' => Framed(t)
               /\ Answered(t)' => Answered(t)
    BY <1>2, <1>6 DEF Framed, Answered, Begins
  <1>7. ASSUME NEW f \in Frames, Tell(<<f>>), NEW t \in Tasks
        PROVE  /\ Framed(t)' => Framed(t) \/ (f.nat # 0 /\ owner'[f.nat] = t)
               /\ Answered(t)' =>
                    Answered(t) \/ (f.f \in {"ok", "refused"} /\ Begins(f) /\ f.t = t)
    <2>1. \A i \in DOMAIN fromServer' :
             \/ i \in DOMAIN fromServer /\ fromServer'[i] = fromServer[i]
             \/ fromServer'[i] = f
      BY <1>0, <1>7, ToldOne
    <2> QED BY <1>2, <2>1 DEF Framed, Answered, Begins
  <1>8. ASSUME NEW f \in Frames, NEW g \in Frames, Tell(<<f, g>>), NEW t \in Tasks
        PROVE  /\ Framed(t)' => \/ Framed(t) \/ (f.nat # 0 /\ owner'[f.nat] = t)
                                \/ (g.nat # 0 /\ owner'[g.nat] = t)
               /\ Answered(t)' =>
                    \/ Answered(t) \/ (f.f \in {"ok", "refused"} /\ Begins(f) /\ f.t = t)
                    \/ (g.f \in {"ok", "refused"} /\ Begins(g) /\ g.t = t)
    <2>1. \A i \in DOMAIN fromServer' :
             \/ i \in DOMAIN fromServer /\ fromServer'[i] = fromServer[i]
             \/ fromServer'[i] = f
             \/ fromServer'[i] = g
      BY <1>0, <1>8, ToldTwo
    <2> QED BY <1>2, <2>1 DEF Framed, Answered, Begins
  <1> HIDE DEF Takes, Hears
  <1> DEFINE Goal(t) == /\ OnWire(t)' => OnWire(t) \/ (Sends /\ t = holder)
                        /\ Live(t)' => Live(t) \/ (Sends /\ t = holder)
                        /\ Answered(t)' => Answered(t) \/ AskedFor(t)
  <1> SUFFICES ASSUME NEW t \in Tasks PROVE Goal(t)
    OBVIOUS
  <1>9. ASSUME Takes, Hears, Issued' = Issued, owner' = owner, srv'.nat \in {0, srv.nat}
        PROVE  Goal(t)
    <2>1. OnWire(t)' => OnWire(t)
      BY <1>5, <1>9 DEF OnWire
    <2>2. Served(t)' => Served(t)
      BY <1>9 DEF Served
    <2> QED BY <1>5, <1>6, <1>9, <2>1, <2>2 DEF Live
  <1>10. ASSUME Takes, NEW f \in Frames, Tell(<<f>>), srv'.nat \in {0, srv.nat},
                Issued' = Issued, owner' = owner, f.nat # 0 => f.nat = srv.nat,
                f.f \in {"ok", "refused"} /\ Begins(f) => AskedFor(f.t)
         PROVE  Goal(t)
    <2>1. OnWire(t)' => OnWire(t)
      BY <1>5, <1>10 DEF OnWire
    <2>2. Served(t)' => Served(t)
      BY <1>10 DEF Served
    <2>3. Framed(t)' => Framed(t) \/ Served(t)
      BY <1>7, <1>10 DEF Served
    <2>4. Answered(t)' => Answered(t) \/ AskedFor(t)
      BY <1>7, <1>10
    <2> QED BY <1>5, <1>10, <2>1, <2>2, <2>3, <2>4 DEF Live
  <1> HIDE DEF Goal
  <1>11. CASE (SameServer /\ UNCHANGED <<toServer, fromServer>>) \/ TakesFrame \/ Clears
    <2>1. Issued' = Issued /\ owner' = owner /\ srv'.nat = srv.nat
      BY <1>11 DEF SameServer, TakesFrame, Clears, Issued
    <2>2. Takes /\ Hears
      BY <1>4, <1>11 DEF Clears
    <2> QED BY <1>9, <2>1, <2>2
  <1>12. CASE Notifies \/ SendsRequest
    <2>1. Issued' = Issued /\ owner' = owner /\ srv'.nat = srv.nat /\ fromServer' = fromServer
      BY <1>12 DEF SameServer, Notifies, SendsRequest, Issued
    <2>2. PICK r \in Requests : /\ toServer' = Append(toServer, r)
                                /\ Begins(r) => Sends /\ r.t = holder
      <3>1. SendsRequest => [op |-> kind[holder], t |-> holder, nat |-> 0] \in Requests
        BY DEF SendsRequest, Sends, Requests
      <3> QED BY <1>12, <3>1 DEF Notifies, SendsRequest
    <2>3. AskedFor(t)' => AskedFor(t) \/ (Sends /\ t = holder)
      <3>1. \A i \in DOMAIN toServer' :
               \/ i \in DOMAIN toServer /\ toServer'[i] = toServer[i]
               \/ toServer'[i] = r
        BY <1>0, <2>2, SentFacts
      <3> QED BY <2>2, <3>1 DEF AskedFor, Begins
    <2>4. (\E n \in Issued' : owner'[n] = t) => \E n \in Issued : owner[n] = t
      BY <2>1
    <2>5. Framed(t)' => Framed(t)
      BY <2>1 DEF Framed
    <2>6. Served(t)' => Served(t)
      BY <2>1 DEF Served
    <2>7. Answered(t)' => Answered(t)
      BY <2>1 DEF Answered
    <2> QED BY <2>3, <2>4, <2>5, <2>6, <2>7 DEF Goal, Live, OnWire
  <1>13. CASE Replies
    <2>1. Issued' = Issued /\ owner' = owner /\ srv'.nat = srv.nat /\ Takes
      BY <1>4, <1>13 DEF SameServer, Replies, Issued
    <2>2. 1 \in DOMAIN toServer /\ req = toServer[1] /\ req.t \in Tasks /\ req \in Requests
      BY <1>0, <1>13, TakenRequest DEF Replies
    <2>3. CASE fromServer' = fromServer
      BY <1>4, <1>9, <2>1, <2>3
    <2>4. CASE req.op # "answer" /\ Tell(<<Frm("refused", req.op, req.t, 0)>>)
      <3> DEFINE f == Frm("refused", req.op, req.t, 0)
      <3>1. f \in Frames
        <4>1. req.op \in Ops
          <5>2. \A r \in Requests : r.op \in Ops \cup {"answer"}
            BY DEF Requests, Ops
          <5> QED BY <2>2, <2>4, <5>2
        <4> QED BY <2>2, <4>1, FrameFacts
      <3>2. f.nat = 0 /\ (Begins(f) => AskedFor(f.t))
        BY <2>2 DEF Frm, AskedFor, Begins
      <3>3. Tell(<<f>>)
        BY <2>4
      <3> HIDE DEF f
      <3> QED BY <1>10, <2>1, <3>1, <3>2, <3>3
    <2>5. CASE Tell(<<Frm("ok", "interrupt", req.t, 0)>>)
      <3> DEFINE f == Frm("ok", "interrupt", req.t, 0)
      <3>1. f \in Frames
        BY <2>2, FrameFacts
      <3>2. f.nat = 0 /\ ~Begins(f)
        BY DEF Frm, Begins
      <3>3. Tell(<<f>>)
        BY <2>5
      <3> HIDE DEF f
      <3> QED BY <1>10, <2>1, <3>1, <3>2, <3>3
    <2> QED BY <1>13, <2>3, <2>4, <2>5 DEF Replies
  <1>14. CASE Opening
    <2> DEFINE ok == Frm("ok", req.op, req.t, srv.next)
               begun == Frm("started", req.op, 0, srv.next)
    <2>1. /\ 1 \in DOMAIN toServer /\ req = toServer[1] /\ req.t \in Tasks
          /\ Begins(req) /\ srv.next \in Natives /\ Takes
          /\ srv'.nat = srv.next
      BY <1>0, <1>4, <1>14, TakenRequest DEF Opening
    <2>2. AskedFor(req.t)
      BY <2>1 DEF AskedFor
    <2>3. ok \in Frames /\ begun \in Frames
      BY <2>1, FrameFacts DEF Begins, Ops
    <2>4. /\ ok.nat = srv.next /\ begun.nat = srv.next /\ ok.t = req.t
          /\ begun.f = "started"
      BY DEF Frm
    <2>5. Tell(<<ok, begun>>) \/ Tell(<<begun, ok>>)
      BY <1>14 DEF Opening
    <2>6. owner'[srv.next] = req.t
      BY <1>1, <1>14
    <2> HIDE DEF ok, begun
    <2>7. /\ Framed(t)' => Framed(t) \/ t = req.t
          /\ Answered(t)' => Answered(t) \/ t = req.t
      BY <1>8, <2>3, <2>4, <2>5, <2>6
    <2>8. OnWire(t)' => OnWire(t)
      BY <1>1, <1>5, <1>14, <2>1, <2>2, <2>6 DEF OnWire
    <2>9. Served(t)' => t = req.t
      BY <2>1, <2>6 DEF Served
    <2> QED BY <1>5, <2>1, <2>2, <2>7, <2>8, <2>9 DEF Goal, Live
  <1>15. CASE Reports
    <2>1. PICK f \in {"item", "ask", "compacted"} : Tell(<<Frm(f, srv.kind, 0, srv.nat)>>)
      BY <1>15 DEF Reports
    <2>2. /\ Issued' = Issued /\ owner' = owner /\ srv'.nat = srv.nat /\ Takes
          /\ srv.nat # 0
      BY <1>4, <1>15 DEF SameServer, Reports, Issued
    <2> DEFINE x == Frm(f, srv.kind, 0, srv.nat)
    <2>3. x \in Frames
      BY <1>3, <2>2, FrameFacts DEF Inv, Working, Ops
    <2>4. x.nat = srv.nat /\ x.f \notin {"ok", "refused"}
      BY <2>1 DEF Frm
    <2>5. Tell(<<x>>)
      BY <2>1
    <2> HIDE DEF x
    <2> QED BY <1>10, <2>2, <2>3, <2>4, <2>5
  <1>16. CASE Ending
    <2>1. PICK f \in TerminalEvents : Tell(<<Frm(f, srv.kind, 0, srv.nat)>>)
      BY <1>16 DEF Ending
    <2>2. /\ Issued' = Issued /\ owner' = owner /\ srv'.nat = 0 /\ Takes
          /\ srv.nat # 0
      BY <1>4, <1>16 DEF Ending, Issued
    <2> DEFINE x == Frm(f, srv.kind, 0, srv.nat)
    <2>3. x \in Frames
      BY <1>3, <2>2, FrameFacts DEF Inv, Working, Ops
    <2>4. x.nat = srv.nat /\ x.f \notin {"ok", "refused"}
      BY <2>1 DEF Frm, TerminalEvents
    <2>5. Tell(<<x>>)
      BY <2>1
    <2> HIDE DEF x
    <2> QED BY <1>10, <2>2, <2>3, <2>4, <2>5
  <1>17. CASE Exiting
    <2> DEFINE x == Frm("eof", "turn", 0, 0)
    <2>1. Tell(<<x>>)
      BY <1>17 DEF Exiting
    <2>2. /\ Issued' = Issued /\ owner' = owner /\ srv'.nat = 0 /\ Takes
      BY <1>4, <1>17 DEF Exiting, Issued
    <2>3. x \in Frames
      BY FrameFacts
    <2>4. x.nat = 0 /\ x.f \notin {"ok", "refused"}
      BY DEF Frm
    <2> HIDE DEF x
    <2> QED BY <1>10, <2>1, <2>2, <2>3, <2>4
  <1>18. CASE Replacing
    <2> DEFINE x == Frm("started", "turn", 0, srv.next)
    <2>1. /\ Tell(<<x>>) /\ Takes /\ srv.nat # 0 /\ srv'.nat = srv.next
          /\ srv.next \in Natives
      BY <1>4, <1>18 DEF Replacing
    <2>2. x \in Frames
      BY <2>1, FrameFacts DEF Ops
    <2>3. x.nat = srv.next /\ x.f \notin {"ok", "refused"}
      BY DEF Frm
    <2> HIDE DEF x
    <2>4. owner'[srv.next] = owner[srv.nat]
      BY <1>1, <1>18
    <2>5. Served(t)' => Served(t)
      BY <2>1, <2>4 DEF Served
    <2>6. Framed(t)' => Framed(t) \/ Served(t)
      BY <1>7, <2>1, <2>2, <2>3, <2>4 DEF Served
    <2>7. Answered(t)' => Answered(t)
      BY <1>7, <2>1, <2>2, <2>3
    <2>8. OnWire(t)' => OnWire(t)
      BY <1>1, <1>2, <1>5, <1>18, <2>1, <2>4 DEF OnWire
    <2> QED BY <1>5, <2>1, <2>5, <2>6, <2>7, <2>8 DEF Goal, Live
  <1> QED
    BY <1>0, <1>11, <1>12, <1>13, <1>14, <1>15, <1>16, <1>17, <1>18 DEF Piping,
       Serving

\* The frames stay sound and in order.
LEMMA StreamsStep ==
    ASSUME Inv, Orderly, Streams, Mentions, Sending, [Next]_vars
    PROVE  Streams'
  <1>0. /\ TypedServer /\ TypedSeen /\ Piping /\ Working
        /\ kind \in [Tasks -> {"none", "turn", "compact"}]
    BY Pipes DEF Inv, TypedTasks
  <1>1. /\ Issued \subseteq Natives /\ Issued \subseteq Int /\ srv.next \in Int
        /\ \A n \in Issued : n < srv.next
        /\ \A n \in Issued : n \in Issued' /\ owner'[n] = owner[n]
        /\ ~Opening /\ ~Replacing => Issued' = Issued /\ owner' = owner
        /\ Opening \/ Replacing =>
             /\ srv.next \in Issued' /\ \A n \in Issued' : n \in Issued \/ n = srv.next
        /\ Opening => owner'[srv.next] = req.t
        /\ Replacing => owner'[srv.next] = owner[srv.nat]
    BY <1>0, OwnersStay
  <1>2. \A t \in Tasks : kind[t] # "none" => kind'[t] = kind[t]
    BY KindStays
  <1>3. /\ \A t : Live(t) => OnWire(t)
        /\ \A t : OnWire(t) => t \in Tasks /\ kind[t] # "none"
        /\ srv.nat # 0 => srv.nat \in Issued
    BY LiveOnWire DEF Mentions, Mentioned, Past
  <1>4. \A t \in Tasks : OnWire(t)' => OnWire(t) \/ (Sends /\ t = holder)
    BY ReachStep
  <1>5. \A n \in Issued : owner[n] \in Tasks /\ owner[n] \in Int /\ kind[owner[n]] # "none"
    <2>1. \A n \in Issued : owner[n] \in Tasks /\ OnWire(owner[n])
      BY DEF Orderly, OnWire
    <2> QED BY <1>3, <2>1 DEF Tasks
  <1>6. srv.nat # 0 =>
          /\ srv.nat = srv.next - 1 /\ srv.kind = kind[owner[srv.nat]]
          /\ srv.kind \in {"turn", "compact"} /\ srv.nat \in Natives
          /\ \A n \in Issued : n <= srv.nat
    <2>1. srv.nat # 0 => srv.nat = srv.next - 1 /\ srv.kind = kind[owner[srv.nat]]
      BY DEF Orderly
    <2> QED BY <1>0, <1>1, <1>3, <2>1 DEF Working
  <1>7. \A i \in DOMAIN fromServer : fromServer[i] \in Frames
    <2>1. fromServer \in Seq(Frames) /\ DOMAIN fromServer = 1..Len(fromServer)
      BY <1>0, LenProperties DEF TypedServer
    <2> QED BY <2>1, ElementOfSeq
  <1>8. Opening =>
          /\ req.t \in Tasks /\ Begins(req) /\ kind[req.t] = req.op
          /\ \A n \in Issued : owner[n] < req.t
    <2>1. Opening => /\ 1 \in DOMAIN toServer /\ req = toServer[1] /\ req.t \in Tasks
                     /\ Begins(req)
      BY <1>0, TakenRequest DEF Opening
    <2> QED BY <2>1 DEF Orderly
  \* Who owns what is opened is not done with.
  <1>9. \A i \in DOMAIN fromServer :
          /\ fromServer[i].nat # 0 => fromServer[i].nat \in Issued
          /\ fromServer[i].f \in TerminalEvents =>
               /\ fromServer[i].nat \in Issued
               /\ srv.nat # 0 => owner[srv.nat] # owner[fromServer[i].nat]
               /\ Opening => req.t # owner[fromServer[i].nat]
    <2> SUFFICES ASSUME NEW i \in DOMAIN fromServer
                 PROVE  /\ fromServer[i].nat # 0 => fromServer[i].nat \in Issued
                        /\ fromServer[i].f \in TerminalEvents =>
                             /\ fromServer[i].nat \in Issued
                             /\ srv.nat # 0 => owner[srv.nat] # owner[fromServer[i].nat]
                             /\ Opening => req.t # owner[fromServer[i].nat]
      OBVIOUS
    <2>1. /\ fromServer[i].nat # 0 => fromServer[i].nat \in Issued
          /\ fromServer[i].f \in TerminalEvents /\ srv.nat # 0 =>
                owner[srv.nat] # owner[fromServer[i].nat]
      BY DEF Streams, Sound
    <2>2. fromServer[i].f \in TerminalEvents => fromServer[i].nat \in Natives
      BY <1>7, FrameFacts
    <2>3. 0 \notin Natives
      BY DEF Natives
    <2>4. fromServer[i].f \in TerminalEvents => fromServer[i].nat \in Issued
      BY <2>1, <2>2, <2>3
    <2>5. fromServer[i].f \in TerminalEvents /\ Opening => req.t # owner[fromServer[i].nat]
      BY <1>5, <1>8, <2>4
    <2> QED BY <2>1, <2>4, <2>5
  <1> DEFINE Wire(t) == \/ \E i \in DOMAIN toServer' :
                             toServer'[i].op \in {"turn", "compact"} /\ toServer'[i].t = t
                        \/ \E n \in Issued' : owner'[n] = t
             Kept(m) ==
               /\ m.nat # 0 => m.nat \in Issued'
               /\ m.f = "ok" /\ Begins(m) => m.nat # 0 /\ owner'[m.nat] = m.t
               /\ m.f = "refused" /\ Begins(m) => ~Wire(m.t)
               /\ m.f \in {"item", "ask"} => kind'[owner'[m.nat]] = "turn"
               /\ m.f \in TerminalEvents /\ srv'.nat # 0 => owner'[srv'.nat] # owner'[m.nat]
             Comes(a, b) == a.nat # 0 /\ b.nat # 0 =>
               a.nat <= b.nat /\ (a.f \in TerminalEvents => owner'[b.nat] # owner'[a.nat])
  <1>10. ASSUME \A i \in DOMAIN fromServer' : Kept(fromServer'[i]),
                \A i, j \in DOMAIN fromServer' : i < j => Comes(fromServer'[i], fromServer'[j])
         PROVE  Streams'
    BY <1>10 DEF Streams, Sound, Before, OnWire, AskedFor, Begins
  <1>11. \A t \in Tasks : Wire(t) => OnWire(t) \/ (Sends /\ t = holder)
    BY <1>4 DEF OnWire, AskedFor, Begins
  <1> HIDE DEF Wire
  <1>12. ASSUME NEW i \in DOMAIN fromServer
         PROVE  Kept(fromServer[i])
    <2> DEFINE m == fromServer[i]
    <2>1. /\ m.nat # 0 => m.nat \in Issued
          /\ m.f = "ok" /\ Begins(m) => m.nat # 0 /\ owner[m.nat] = m.t
          /\ m.f = "refused" /\ Begins(m) => ~OnWire(m.t)
          /\ m.f \in {"item", "ask"} => kind[owner[m.nat]] = "turn"
      BY DEF Streams, Sound
    <2>2. m \in Frames
      BY <1>7
    <2>3. m.f = "refused" /\ Begins(m) => ~Wire(m.t)
      <3> SUFFICES ASSUME m.f = "refused", Begins(m) PROVE ~Wire(m.t)
        OBVIOUS
      <3>1. m.t \in Tasks /\ Answered(m.t)
        BY <2>2, FrameFacts DEF Answered
      <3>2. Past(m.t)
        BY <3>1 DEF Mentions, Mentioned
      <3>3. Sends => m.t # holder
        BY <3>2 DEF Past, Sends, Tasks
      <3> QED BY <1>11, <2>1, <3>1, <3>3
    <2>4. m.f \in {"item", "ask"} => m.nat \in Issued
      <3>1. m.f \in {"item", "ask"} => m.nat \in Natives /\ 0 \notin Natives
        BY <2>2, FrameFacts DEF Natives
      <3> QED BY <2>1, <3>1
    <2>5. m.f \in {"item", "ask"} => kind'[owner'[m.nat]] = "turn"
      <3>1. m.f \in {"item", "ask"} => owner'[m.nat] = owner[m.nat] /\ owner[m.nat] \in Tasks
        BY <1>1, <1>5, <2>4
      <3> QED BY <1>2, <2>1, <3>1
    <2>6. m.f \in TerminalEvents /\ srv'.nat # 0 => owner'[srv'.nat] # owner'[m.nat]
      <3> SUFFICES ASSUME m.f \in TerminalEvents, srv'.nat # 0
                   PROVE  owner'[srv'.nat] # owner'[m.nat]
        OBVIOUS
      <3>1. /\ m.nat \in Issued /\ owner'[m.nat] = owner[m.nat]
            /\ srv.nat # 0 => owner[srv.nat] # owner[m.nat]
            /\ Opening => req.t # owner[m.nat]
        BY <1>1, <1>9
      <3>2. CASE Opening
        BY <1>1, <3>1, <3>2 DEF Opening
      <3>3. CASE Replacing
        BY <1>1, <3>1, <3>3 DEF Replacing
      <3>4. CASE srv'.nat = srv.nat
        BY <1>1, <1>3, <3>1, <3>4
      <3> QED BY <1>0, <3>2, <3>3, <3>4 DEF Piping, SameServer, Notifies,
             SendsRequest,
                 TakesFrame, Clears, Serving, Replies, Reports, Ending, Exiting
    <2>7. m.f = "ok" /\ Begins(m) => m.nat # 0 /\ owner'[m.nat] = m.t
      BY <1>1, <2>1
    <2> QED BY <1>1, <2>1, <2>3, <2>5, <2>6, <2>7
  <1>13. ASSUME NEW i \in DOMAIN fromServer, NEW j \in DOMAIN fromServer, i < j
         PROVE  Comes(fromServer[i], fromServer[j])
    <2>1. Before(fromServer[i], fromServer[j])
      BY <1>13 DEF Streams
    <2> QED BY <1>1, <1>9, <2>1 DEF Before
  <1>14. ASSUME NEW i \in DOMAIN fromServer, NEW f,
                f.nat \in {0, srv.nat} \/ (f.nat = srv.next /\ (Opening \/ Replacing))
         PROVE  Comes(fromServer[i], f)
    <2> SUFFICES ASSUME fromServer[i].nat # 0, f.nat # 0
                 PROVE  /\ fromServer[i].nat <= f.nat
                        /\ fromServer[i].f \in TerminalEvents =>
                              owner'[f.nat] # owner'[fromServer[i].nat]
      OBVIOUS
    <2>1. /\ fromServer[i].nat \in Issued
          /\ owner'[fromServer[i].nat] = owner[fromServer[i].nat]
          /\ fromServer[i].nat < srv.next /\ fromServer[i].nat \in Int
      BY <1>1, <1>9
    <2>2. CASE f.nat = srv.nat /\ srv.nat # 0
      <3>1. fromServer[i].nat <= f.nat
        BY <1>6, <2>1, <2>2
      <3>2. owner'[srv.nat] = owner[srv.nat]
        BY <1>1, <1>3, <2>2
      <3> QED BY <1>9, <2>1, <2>2, <3>1, <3>2
    <2>3. CASE f.nat = srv.next /\ Opening
      <3>1. fromServer[i].nat <= f.nat
        BY <1>1, <2>1, <2>3
      <3> QED BY <1>1, <1>9, <2>1, <2>3, <3>1
    <2>4. CASE f.nat = srv.next /\ Replacing
      <3>1. fromServer[i].nat <= f.nat
        BY <1>1, <2>1, <2>4
      <3>2. owner'[f.nat] = owner[srv.nat] /\ srv.nat # 0
        BY <1>1, <2>4 DEF Replacing
      <3> QED BY <1>9, <2>1, <3>1, <3>2
    <2> QED BY <1>14, <2>2, <2>3, <2>4
  <1> HIDE DEF Kept, Comes
  <1>15. CASE fromServer' = fromServer \/ fromServer' = <<>>
    BY <1>10, <1>12, <1>13, <1>15
  <1>16. CASE TakesFrame
    <2>1. \A i \in DOMAIN fromServer' :
            /\ i \in Int /\ i + 1 \in DOMAIN fromServer
            /\ fromServer'[i] = fromServer[i + 1]
      BY <1>0, <1>16, TakenFrame DEF TakesFrame
    <2>2. ASSUME NEW i \in DOMAIN fromServer', NEW j \in DOMAIN fromServer', i < j
          PROVE  Comes(fromServer'[i], fromServer'[j])
      <3>1. i + 1 < j + 1
        BY <2>1, <2>2
      <3> QED BY <1>13, <2>1, <3>1
    <2>3. \A i \in DOMAIN fromServer' : Kept(fromServer'[i])
      BY <1>12, <2>1
    <2> QED BY <1>10, <2>2, <2>3
  <1>17. ASSUME NEW f \in Frames, Tell(<<f>>), Kept(f),
                f.nat \in {0, srv.nat} \/ (f.nat = srv.next /\ Replacing)
         PROVE  Streams'
    <2>1. \A i \in DOMAIN fromServer' :
             /\ i \in Int
             /\ \/ i \in DOMAIN fromServer /\ fromServer'[i] = fromServer[i]
                \/ /\ fromServer'[i] = f
                   /\ \A j \in DOMAIN fromServer' : j > i => FALSE
      BY <1>0, <1>17, ToldOne
    <2>2. ASSUME NEW i \in DOMAIN fromServer', NEW j \in DOMAIN fromServer', i < j
          PROVE  Comes(fromServer'[i], fromServer'[j])
      <3>1. j > i /\ i \in Int /\ j \in Int
        BY <2>1, <2>2
      <3>2. i \in DOMAIN fromServer /\ fromServer'[i] = fromServer[i]
        BY <2>1, <3>1
      <3> QED BY <1>13, <1>14, <1>17, <2>1, <2>2, <3>2
    <2>3. \A i \in DOMAIN fromServer' : Kept(fromServer'[i])
      BY <1>12, <1>17, <2>1
    <2> QED BY <1>10, <2>2, <2>3
  <1>18. ASSUME NEW f \in Frames, NEW g \in Frames, Tell(<<f, g>>), Kept(f), Kept(g),
                f.nat = srv.next, g.nat = srv.next, Opening, Comes(f, g)
         PROVE  Streams'
    <2>1. \A i \in DOMAIN fromServer' :
             /\ i \in Int
             /\ \/ i \in DOMAIN fromServer /\ fromServer'[i] = fromServer[i]
                \/ /\ fromServer'[i] = f
                   /\ \A j \in DOMAIN fromServer' : j > i => fromServer'[j] = g
                \/ /\ fromServer'[i] = g
                   /\ \A j \in DOMAIN fromServer' : j > i => FALSE
      BY <1>0, <1>18, ToldTwo
    <2>2. ASSUME NEW i \in DOMAIN fromServer', NEW j \in DOMAIN fromServer', i < j
          PROVE  Comes(fromServer'[i], fromServer'[j])
      <3>1. j > i /\ i \in Int /\ j \in Int
        BY <2>1, <2>2
      <3>2. \/ i \in DOMAIN fromServer /\ fromServer'[i] = fromServer[i]
            \/ fromServer'[i] = f /\ fromServer'[j] = g
        BY <2>1, <3>1
      <3> QED BY <1>13, <1>14, <1>18, <2>1, <2>2, <3>2
    <2>3. \A i \in DOMAIN fromServer' : Kept(fromServer'[i])
      BY <1>12, <1>18, <2>1
    <2> QED BY <1>10, <2>2, <2>3
  <1>19. CASE Replies
    <2>1. /\ Issued' = Issued /\ owner' = owner /\ req.t \in Tasks /\ req \in Requests
          /\ 1 \in DOMAIN toServer /\ req = toServer[1]
      BY <1>0, <1>19, TakenRequest DEF SameServer, Replies, Issued
    <2>2. CASE req.op # "answer" /\ Tell(<<Frm("refused", req.op, req.t, 0)>>)
      <3> DEFINE f == Frm("refused", req.op, req.t, 0)
      <3>1. f \in Frames
        <4>1. \A r \in Requests : r.op \in Ops \cup {"answer"}
          BY DEF Requests, Ops
        <4> QED BY <2>1, <2>2, <4>1, FrameFacts
      <3>2. Begins(f) => ~Wire(req.t)
        <4> SUFFICES ASSUME Begins(req) PROVE ~Wire(req.t)
          BY DEF Begins, Frm
        <4>1. /\ \A n \in Issued : owner[n] < req.t
              /\ \A j \in DOMAIN toServer :
                    1 < j /\ Begins(toServer[j]) => req.t < toServer[j].t
          BY <2>1 DEF Orderly
        <4>2. \A i \in DOMAIN toServer' :
                /\ i \in Int /\ i + 1 \in DOMAIN toServer /\ 1 < i + 1
                /\ toServer'[i] = toServer[i + 1]
          BY <1>0, <1>19, TakenRequest DEF Replies
        <4>3. \A i \in DOMAIN toServer' : Begins(toServer'[i]) => req.t < toServer'[i].t
          BY <4>1, <4>2
        <4>4. \A n \in Issued' : owner'[n] # req.t
          BY <1>5, <2>1, <4>1 DEF Tasks
        <4>5. req.t \in Int
          BY <2>1 DEF Tasks
        <4> QED BY <4>3, <4>4, <4>5 DEF Wire, Begins
      <3>3. Kept(f) /\ f.nat = 0
        BY <3>2 DEF Kept, Frm, TerminalEvents
      <3>4. Tell(<<f>>)
        BY <2>2
      <3> HIDE DEF f
      <3> QED BY <1>17, <3>1, <3>3, <3>4
    <2>3. CASE Tell(<<Frm("ok", "interrupt", req.t, 0)>>)
      <3> DEFINE f == Frm("ok", "interrupt", req.t, 0)
      <3>1. f \in Frames
        BY <2>1, FrameFacts
      <3>2. Kept(f) /\ f.nat = 0
        BY DEF Kept, Frm, Begins, TerminalEvents
      <3>3. Tell(<<f>>)
        BY <2>3
      <3> HIDE DEF f
      <3> QED BY <1>17, <3>1, <3>2, <3>3
    <2> QED BY <1>15, <1>19, <2>2, <2>3 DEF Replies
  <1>20. CASE Opening
    <2> DEFINE ok == Frm("ok", req.op, req.t, srv.next)
               begun == Frm("started", req.op, 0, srv.next)
    <2>1. ok \in Frames /\ begun \in Frames
      BY <1>8, <1>20, FrameFacts DEF Begins, Ops, Opening
    <2>2. /\ ok.nat = srv.next /\ begun.nat = srv.next
          /\ Kept(ok) /\ Kept(begun) /\ Comes(ok, begun) /\ Comes(begun, ok)
      <3>1. srv.next \in Issued' /\ owner'[srv.next] = req.t /\ srv.next # 0
        BY <1>1, <1>20 DEF Opening, Natives
      <3>2. /\ ok.nat = srv.next /\ begun.nat = srv.next /\ ok.t = req.t
            /\ ok.f = "ok" /\ begun.f = "started"
        BY DEF Frm
      <3> HIDE DEF ok, begun
      <3> QED BY <1>1, <3>1, <3>2 DEF Kept, Comes, TerminalEvents
    <2>3. Tell(<<ok, begun>>) \/ Tell(<<begun, ok>>)
      BY <1>20 DEF Opening
    <2> HIDE DEF ok, begun
    <2> QED BY <1>18, <1>20, <2>1, <2>2, <2>3
  <1>21. CASE Reports
    <2>1. PICK f \in {"item", "ask", "compacted"} :
             (srv.kind = "compact" => f = "compacted") /\ Tell(<<Frm(f, srv.kind, 0, srv.nat)>>)
      BY <1>21 DEF Reports
    <2>2. Issued' = Issued /\ owner' = owner /\ srv.nat # 0
      BY <1>21 DEF SameServer, Reports, Issued
    <2> DEFINE x == Frm(f, srv.kind, 0, srv.nat)
    <2>3. x \in Frames
      BY <1>6, <2>2, FrameFacts DEF Ops
    <2>4. x.nat = srv.nat /\ x.f = f
      BY DEF Frm
    <2>5. Tell(<<x>>)
      BY <2>1
    <2> HIDE DEF x
    <2>6. f \in {"item", "ask"} => kind'[owner'[srv.nat]] = "turn"
      <3>1. f \in {"item", "ask"} => kind[owner[srv.nat]] = "turn"
        BY <1>6, <2>1, <2>2
      <3>2. owner[srv.nat] \in Tasks
        BY <1>3, <1>5, <2>2
      <3> QED BY <1>2, <2>2, <3>1, <3>2
    <2>7. Kept(x)
      BY <1>3, <2>1, <2>2, <2>4, <2>6 DEF Kept, TerminalEvents
    <2> QED BY <1>17, <2>3, <2>4, <2>5, <2>7
  <1>22. CASE Ending
    <2>1. PICK f \in TerminalEvents : Tell(<<Frm(f, srv.kind, 0, srv.nat)>>)
      BY <1>22 DEF Ending
    <2>2. Issued' = Issued /\ owner' = owner /\ srv'.nat = 0 /\ srv.nat # 0
      BY <1>22 DEF Ending, Issued
    <2> DEFINE x == Frm(f, srv.kind, 0, srv.nat)
    <2>3. x \in Frames
      BY <1>6, <2>2, FrameFacts DEF Ops
    <2>4. x.nat = srv.nat /\ x.f = f
      BY DEF Frm
    <2>5. Tell(<<x>>)
      BY <2>1
    <2> HIDE DEF x
    <2>6. Kept(x)
      BY <1>3, <2>2, <2>4 DEF Kept, TerminalEvents
    <2> QED BY <1>17, <2>3, <2>4, <2>5, <2>6
  <1>23. CASE Exiting
    <2> DEFINE x == Frm("eof", "turn", 0, 0)
    <2>1. Tell(<<x>>)
      BY <1>23 DEF Exiting
    <2>2. x \in Frames
      BY FrameFacts
    <2>3. Kept(x) /\ x.nat = 0
      BY DEF Kept, Frm, TerminalEvents
    <2> HIDE DEF x
    <2> QED BY <1>17, <2>1, <2>2, <2>3
  <1>24. CASE Replacing
    <2> DEFINE x == Frm("started", "turn", 0, srv.next)
    <2>1. Tell(<<x>>) /\ srv.next \in Natives
      BY <1>24 DEF Replacing
    <2>2. x \in Frames
      BY <2>1, FrameFacts DEF Ops
    <2>3. x.nat = srv.next /\ x.f = "started"
      BY DEF Frm
    <2> HIDE DEF x
    <2>4. Kept(x)
      BY <1>1, <1>24, <2>3 DEF Kept, TerminalEvents
    <2> QED BY <1>17, <1>24, <2>1, <2>2, <2>3, <2>4
  <1> QED
    BY <1>0, <1>15, <1>16, <1>19, <1>20, <1>21, <1>22, <1>23, <1>24 DEF Piping,
       Serving,
       Notifies, SendsRequest, Clears

-----------------------------------------------------------------------------
(* What a step does to the correlation *)

\* Who is marked as compacting is active from then on.
LEMMA CompactingMore ==
    ASSUME NEW c \in Correlations, NEW t \in Tasks
    PROVE  /\ Compacting(c, t).compacting = c.compacting \cup {t}
           /\ \/ Compacting(c, t).active = t
              \/ t \in c.compacting /\ Compacting(c, t).active = c.active
           /\ Compacted(c, t).compacting = c.compacting \cup {t}
           /\ \/ Compacted(c, t).active = t
              \/ t \in c.compacting /\ Compacted(c, t).active = c.active
           /\ Opened(c, t).compacting \subseteq c.compacting \cup {t}
           /\ t \in c.compactions =>
                \/ Opened(c, t).active = t
                \/ t \in c.compacting /\ Opened(c, t).active = c.active
           /\ t \notin c.compactions => Opened(c, t).compacting = c.compacting
           /\ Completed(c, t).compacting = c.compacting
           /\ Completed(c, t).active # t
  <1> DEFINE d == Compacting(c, t)
  <1>1. d \in Correlations
    BY CompactingFacts
  <1>2. /\ d.compacting = c.compacting \cup {t}
        /\ d.active = t \/ (t \in c.compacting /\ d.active = c.active)
    <2>1. CASE t \in c.compacting
      BY <2>1 DEF Compacting
    <2>2. CASE t \notin c.compacting
      <3>1. d = [c EXCEPT !.compactions = c.compactions \cup {t},
                          !.compacting = c.compacting \cup {t}, !.active = t]
        BY <2>2 DEF Compacting, Correlations
      <3> HIDE DEF d
      <3> QED BY <3>1 DEF Correlations
    <2> QED BY <2>1, <2>2
  <1>3. Compacted(c, t).compacting = d.compacting /\ Compacted(c, t).active = d.active
    <2> HIDE DEF d
    <2>1. Compacted(c, t) = [d EXCEPT !.compacted = @ \cup {t}]
      BY DEF Compacted, d
    <2> QED BY <1>1, <2>1 DEF Correlations
  <1>4. /\ t \in c.compactions => Opened(c, t) = d
        /\ t \notin c.compactions => Opened(c, t).compacting = c.compacting
    <2>1. t \in c.compactions => Opened(c, t) = d
      BY DEF Opened
    <2>2. t \notin c.compactions => Opened(c, t) = [c EXCEPT !.opened = c.opened \cup {t}]
      BY DEF Opened, Correlations
    <2> QED BY <2>1, <2>2 DEF Correlations
  <1>5. Completed(c, t).compacting = c.compacting /\ Completed(c, t).active # t
    <2> DEFINE done == c.completed \cup {t}
               open == c.compactions \ {t}
               now == IF c.active = t THEN 0 ELSE c.active
    <2>1. Completed(c, t) =
            [c EXCEPT !.completed = done, !.compactions = open, !.active = now]
      BY DEF Completed, Correlations
    <2>2. now # t
      BY DEF Tasks
    <2> HIDE DEF done, open, now
    <2>3. Completed(c, t).compacting = c.compacting /\ Completed(c, t).active = now
      BY <2>1 DEF Correlations
    <2> QED BY <2>2, <2>3
  <1> HIDE DEF d
  <1>6. /\ Compacted(c, t).compacting = c.compacting \cup {t}
        /\ \/ Compacted(c, t).active = t
           \/ t \in c.compacting /\ Compacted(c, t).active = c.active
    BY <1>2, <1>3
  <1>7. /\ Opened(c, t).compacting \subseteq c.compacting \cup {t}
        /\ t \in c.compactions =>
             \/ Opened(c, t).active = t
             \/ t \in c.compacting /\ Opened(c, t).active = c.active
    BY <1>2, <1>4
  <1> QED BY <1>2, <1>4, <1>5, <1>6, <1>7 DEF d

\* Only the task that is starting is bound to a native id.
LEMMA LocatedMore ==
    ASSUME NEW c \in Correlations, NEW nat \in Natives, Local(c, nat) # 0
    PROVE  /\ c.local[nat] # 0 => Local(c, nat) = c.local[nat]
           /\ c.local[nat] = 0 /\ c.starting = 0 => Local(c, nat) = c.active
           /\ c.local[nat] = 0 /\ c.starting # 0 =>
                /\ Local(c, nat) = c.starting
                /\ c.native[c.starting] \in {0, nat}
                /\ Located(c, nat).native[c.starting] = nat
           /\ c.local[nat] # 0 \/ c.starting = 0 => Located(c, nat).native = c.native
  <1>1. CASE c.local[nat] # 0
    BY <1>1 DEF Local, Located
  <1>2. CASE c.local[nat] = 0 /\ c.starting = 0
    <2>1. Local(c, nat) = c.active /\ Located(c, nat) = [c EXCEPT !.local[nat] = c.active]
      BY <1>2 DEF Local, Located
    <2> QED BY <1>2, <2>1 DEF Correlations
  <1>3. CASE c.local[nat] = 0 /\ c.starting # 0
    <2>1. /\ Local(c, nat) = c.starting /\ c.native[c.starting] \in {0, nat}
          /\ Located(c, nat) = Bind(c, nat, c.starting)
      BY <1>3 DEF Local, Located, CanBind
    <2>2. c.starting \in Tasks
      BY <1>3, Bounded DEF Correlations, Tasks
    <2> QED BY <1>3, <2>1, <2>2, BindFacts
  <1> QED BY <1>1, <1>2, <1>3

\* What the event mapper does to the names, and what a frame of a compaction
\* does to the active turn.
Found ==
    /\ reader /\ from \in Tasks /\ msg.nat \in Natives /\ Refers(from)
    /\ cor.local[msg.nat] # 0 => from = cor.local[msg.nat]
    /\ cor.local[msg.nat] = 0 /\ cor.starting = 0 => from = cor.active
    /\ cor.local[msg.nat] = 0 /\ cor.starting # 0 =>
         /\ from = cor.starting /\ cor.native[from] \in {0, msg.nat}
         /\ cor'.native[from] = msg.nat
    /\ cor.local[msg.nat] # 0 \/ cor.starting = 0 => cor'.native[from] = cor.native[from]
    /\ cor' \in Correlations /\ cor'.starting = cor.starting
    /\ cor'.local[msg.nat] = from
    /\ \A n \in Natives : n # msg.nat => cor'.local[n] = cor.local[n]
    /\ \A t \in Tasks : t # from => cor'.native[t] = cor.native[t]
    /\ cor'.compacting \subseteq cor.compacting \cup {from}
    /\ cor'.completed \subseteq cor.completed \cup {from}
    /\ cor.compactions \ {from} \subseteq cor'.compactions
FoundGoing ==
    /\ msg.f \in {"started", "item", "ask", "compacted"}
    /\ cor'.completed = cor.completed /\ cor.compactions \subseteq cor'.compactions
    /\ cor'.active \in {cor.active, from}
    /\ msg.f = "compacted" \/ (msg.f = "started" /\ from \in cor.compactions) =>
         cor'.active = from \/ (from \in cor.compacting /\ cor'.active = cor.active)
    /\ msg.f = "started" /\ from \notin cor.compactions =>
         cor'.compacting = cor.compacting
FoundEnded ==
    /\ msg.f \in TerminalEvents /\ from \notin cor.completed
    /\ cor'.active \in {0, cor.active} /\ cor'.active # from

\* That is what it does.
LEMMA MappingFinds ==
    ASSUME TypedCor, TypedServer, TypedTasks, Known, Mapping
    PROVE  Found /\ (FoundGoing \/ FoundEnded)
  <1> DEFINE c == Located(cor, msg.nat)
  <1>1. cor \in Correlations /\ msg.nat \in Natives /\ Local(cor, msg.nat) # 0
    BY MappingFrame DEF TypedCor, from
  <1>2. /\ from \in Tasks /\ c \in Correlations /\ SameTurns(cor, c)
        /\ c.local[msg.nat] = from
        /\ \A n \in Natives : n # msg.nat => c.local[n] = cor.local[n]
        /\ \A t \in Tasks : t # from => c.native[t] = cor.native[t]
    BY <1>1, LocatedFacts DEF from
  <1>3. /\ cor.local[msg.nat] # 0 => from = cor.local[msg.nat]
        /\ cor.local[msg.nat] = 0 /\ cor.starting = 0 => from = cor.active
        /\ cor.local[msg.nat] = 0 /\ cor.starting # 0 =>
             /\ from = cor.starting /\ cor.native[from] \in {0, msg.nat}
             /\ c.native[from] = msg.nat
        /\ cor.local[msg.nat] # 0 \/ cor.starting = 0 => c.native = cor.native
    BY <1>1, LocatedMore DEF from
  <1>4. reader
    BY DEF Mapping, ReadStarted, ReadItem, ReadAsk, ReadCompacted, ReadEnded,
       Arrived
  <1>5. Refers(from)
    BY MappingMaps DEF Mapped
  <1> HIDE DEF c
  <1>6. ASSUME cor' \in Correlations, SameNames(c, cor'),
               cor'.compacting \subseteq c.compacting \cup {from},
               cor'.completed \subseteq c.completed \cup {from},
               c.compactions \ {from} \subseteq cor'.compactions
        PROVE  Found
    BY <1>1, <1>2, <1>3, <1>4, <1>5, <1>6 DEF Found, SameNames, SameTurns
  <1>7. CASE ReadStarted
    <2>1. cor' = Opened(c, from) /\ msg.f = "started"
      BY <1>7 DEF ReadStarted, c, Arrived, msg
    <2>2. Found
      BY <1>2, <1>6, <2>1, OpenedFacts, CompactingMore
    <2>3. /\ cor'.active \in {c.active, from} /\ cor'.completed = c.completed
          /\ c.compactions \subseteq cor'.compactions
          /\ from \in c.compactions =>
                cor'.active = from \/ (from \in c.compacting /\ cor'.active = c.active)
          /\ from \notin c.compactions => cor'.compacting = c.compacting
      BY <1>2, <2>1, OpenedFacts, CompactingMore
    <2>4. FoundGoing
      BY <1>2, <2>1, <2>3 DEF FoundGoing, SameTurns
    <2> QED BY <2>2, <2>4
  <1>8. CASE ReadItem \/ ReadAsk
    <2>1. cor' = c /\ msg.f \in {"item", "ask"}
      BY <1>8 DEF ReadItem, ReadAsk, c, Arrived, msg
    <2>2. Found
      BY <1>2, <1>6, <2>1 DEF SameNames
    <2>3. FoundGoing
      BY <1>2, <2>1 DEF FoundGoing, SameTurns
    <2> QED BY <2>2, <2>3
  <1>9. CASE ReadCompacted
    <2>1. cor' = Compacted(c, from) /\ msg.f = "compacted"
      BY <1>9 DEF ReadCompacted, c, Arrived, msg
    <2>2. Found
      BY <1>2, <1>6, <2>1, CompactedFacts, CompactingMore
    <2>3. /\ cor'.active \in {c.active, from} /\ cor'.completed = c.completed
          /\ c.compactions \subseteq cor'.compactions
          /\ cor'.active = from \/ (from \in c.compacting /\ cor'.active = c.active)
      BY <1>2, <2>1, CompactedFacts, CompactingMore
    <2>4. FoundGoing
      BY <1>2, <2>1, <2>3 DEF FoundGoing, SameTurns
    <2> QED BY <2>2, <2>4
  <1>10. CASE ReadEnded
    <2>1. msg.f \in TerminalEvents /\ from \notin cor.completed
      BY <1>10 DEF ReadEnded, Arrived, msg
    <2>2. ASSUME NEW d \in Correlations, SameNames(c, d), cor' = Completed(d, from),
                 d.active \in {c.active, from}, d.completed = c.completed,
                 c.compactions \subseteq d.compactions,
                 d.compacting \subseteq c.compacting \cup {from}
          PROVE  Found /\ FoundEnded
      <3>1. /\ cor' \in Correlations /\ SameNames(d, cor')
            /\ cor'.active \in {0, d.active} /\ cor'.active # from
            /\ cor'.completed = d.completed \cup {from}
            /\ cor'.compactions = d.compactions \ {from}
            /\ cor'.compacting = d.compacting
        BY <1>2, <2>2, CompletedFacts, CompactingMore
      <3>2. SameNames(c, cor')
        BY <2>2, <3>1 DEF SameNames
      <3>3. cor'.active \in {0, cor.active}
        BY <1>2, <2>2, <3>1 DEF SameTurns
      <3> QED BY <1>6, <2>1, <2>2, <3>1, <3>2, <3>3 DEF FoundEnded
    <2>3. cor' \in {Completed(c, from), Completed(Compacted(c, from), from)}
      BY <1>10 DEF ReadEnded, c
    <2>4. CASE cor' = Completed(c, from)
      BY <1>2, <2>2, <2>4 DEF SameNames
    <2>5. CASE cor' = Completed(Compacted(c, from), from)
      <3> DEFINE d == Compacted(c, from)
      <3>1. /\ d \in Correlations /\ SameNames(c, d) /\ d.active \in {c.active, from}
            /\ d.completed = c.completed /\ c.compactions \subseteq d.compactions
            /\ d.compacting = c.compacting \cup {from}
        BY <1>2, CompactedFacts, CompactingMore
      <3>2. cor' = Completed(d, from)
        BY <2>5
      <3> HIDE DEF d
      <3> QED BY <2>2, <3>1, <3>2
    <2> QED BY <2>3, <2>4, <2>5
  <1> QED BY <1>7, <1>8, <1>9, <1>10 DEF Mapping

\* The steps by what they do to it: besides the event mapper, a request is sent,
\* its turn is bound, it is given up or over, or all stays as it is.
SameCor == /\ cor'.native = cor.native /\ cor'.local = cor.local
           /\ cor'.active = cor.active /\ cor'.completed = cor.completed
           /\ cor'.compacting = cor.compacting
Starts ==
    /\ Sends /\ SameCor /\ UNCHANGED reply
    /\ cor.compactions \subseteq cor'.compactions
    /\ kind[holder] = "compact" => holder \in cor'.compactions
    /\ pc' = IF kind[holder] = "turn" THEN "starting" ELSE "compacting"
Binds ==
    /\ pc = "starting" /\ reply.s = "ok" /\ pc' = "read" /\ UNCHANGED tasks
    /\ holder \in Tasks /\ kind[holder] = "turn" /\ reply.nat \in Natives
    /\ cor.local[reply.nat] \in {0, holder} /\ cor.native[holder] \in {0, reply.nat}
    /\ cor'.starting = 0 /\ cor'.completed = cor.completed
    /\ cor'.native[holder] = reply.nat /\ cor'.local[reply.nat] = holder
    /\ \A t \in Tasks : t # holder => cor'.native[t] = cor.native[t]
    /\ \A n \in Natives : n # reply.nat => cor'.local[n] = cor.local[n]
    /\ \/ cor'.active = holder
       \/ holder \in cor.completed /\ cor'.active \in {cor.active, holder}
    /\ cor'.compacting \subseteq cor.compacting \cup {holder}
    /\ cor.compactions \subseteq cor'.compactions
Drops ==
    /\ SameCor /\ cor'.starting = 0 /\ pc \in Requesting /\ pc' \notin Requesting
    /\ cor.compactions \ {holder} \subseteq cor'.compactions
    /\ \/ pc = "starting" /\ pc' = "closing" /\ UNCHANGED tasks
       \/ pc = "binding" /\ cor.native[holder] # 0
       \/ pc = "compacting" /\ reply.s = "error"
       \/ late'
Rests == cor' = cor /\ (pc' \in Requesting) = (pc \in Requesting)

\* send_turn resumes: the turn is bound, or given up.
LEMMA TurnSentBinds ==
    ASSUME TypedTasks, TypedCoroutine, TypedCor, Placed, Asked, TurnSent
    PROVE  Binds \/ (Drops /\ pc' = "closing" /\ UNCHANGED outbox)
  <1>1. pc = "starting" /\ reply.s = "ok" /\ UNCHANGED tasks
    BY DEF TurnSent
  <1>2. holder \in Tasks /\ kind[holder] = "turn"
    BY <1>1, HolderFacts DEF TurnPlaces
  <1>3. reply.nat \in Natives
    BY <1>1, Bounded DEF Asked, TypedCoroutine, Natives
  <1>4. cor \in Correlations /\ 0 \in 0..MaxTasks /\ holder \in 0..MaxTasks
    BY <1>2, Bounded DEF TypedCor, Tasks
  <1>5. CASE CanBind(cor, reply.nat, holder)
    <2> DEFINE b == Bind(cor, reply.nat, holder)
               o == Opened(b, holder)
               a == IF holder \in cor.completed THEN o.active ELSE holder
    <2>1. /\ b \in Correlations /\ b.active = cor.active
          /\ b.completed = cor.completed /\ b.compactions = cor.compactions
          /\ b.compacting = cor.compacting
          /\ b.local[reply.nat] = holder /\ b.native[holder] = reply.nat
          /\ \A n \in Natives : n # reply.nat => b.local[n] = cor.local[n]
          /\ \A t \in Tasks : t # holder => b.native[t] = cor.native[t]
      BY <1>2, <1>3, <1>4, BindFacts
    <2>2. cor' = [o EXCEPT !.starting = 0, !.active = a] /\ pc' = "read"
      BY <1>5 DEF TurnSent
    <2> HIDE DEF b
    <2>3. /\ o \in Correlations /\ SameNames(b, o) /\ o.active \in {b.active, holder}
          /\ o.completed = b.completed /\ b.compactions \subseteq o.compactions
          /\ o.compacting \subseteq b.compacting \cup {holder}
      <3>1. b.compacting \subseteq b.compacting \cup {holder}
        OBVIOUS
      <3> QED BY <1>2, <2>1, OpenedFacts, CompactingMore
    <2> HIDE DEF o
    <2>4. a \in 0..MaxTasks /\ (a = holder \/ (holder \in cor.completed /\ a \in {b.active, holder}))
      BY <1>4, <2>3 DEF Correlations
    <2> HIDE DEF a
    <2>5. /\ cor'.starting = 0 /\ cor'.active = a
          /\ cor'.local = o.local /\ cor'.native = o.native /\ cor'.completed = o.completed
          /\ cor'.compactions = o.compactions /\ cor'.compacting = o.compacting
      BY <1>4, <2>2, <2>3, <2>4 DEF Correlations
    <2>6. cor.local[reply.nat] \in {0, holder} /\ cor.native[holder] \in {0, reply.nat}
      BY <1>5 DEF CanBind
    <2>7. Binds
      BY <1>1, <1>2, <1>3, <2>1, <2>2, <2>3, <2>4, <2>5, <2>6 DEF Binds,
         SameNames
    <2> QED BY <2>7
  <1>6. CASE ~CanBind(cor, reply.nat, holder)
    <2>1. cor' = [cor EXCEPT !.starting = 0] /\ pc' = "closing" /\ UNCHANGED outbox
      BY <1>6 DEF TurnSent
    <2>2. /\ cor'.starting = 0 /\ SameCor /\ cor'.compactions = cor.compactions
      BY <1>4, <2>1 DEF Correlations, SameCor
    <2> QED BY <1>1, <2>1, <2>2 DEF Drops, Requesting
  <1> QED BY <1>5, <1>6

\* Every step is one of these.
LEMMA CorSteps ==
    ASSUME Inv, Sending, [Next]_vars
    PROVE  Mapping \/ Starts \/ Binds \/ Drops \/ Rests
  <1>0. /\ TypedTasks /\ TypedCoroutine /\ TypedCor /\ TypedServer /\ Placed
        /\ Asked /\ cor \in Correlations
    BY DEF Inv, TypedCor
  <1>1. CASE SendTurn
    <2>1. /\ cor' = [cor EXCEPT !.starting = holder] /\ kind[holder] = "turn"
          /\ pc = "send" /\ pc' = "starting" /\ Ready /\ cor.active = 0 /\ cor.starting = 0
          /\ UNCHANGED <<tasks, reply>>
      BY <1>1 DEF SendTurn, Goto
    <2>2. /\ cor'.starting = holder /\ SameCor /\ cor'.compactions = cor.compactions
      BY <1>0, <2>1 DEF Correlations, SameCor
    <2>3. holder \in Tasks /\ started /\ reader
      BY <1>0, <2>1, HolderFacts DEF Sending, Ready
    <2> QED BY <2>1, <2>2, <2>3 DEF Starts, Sends
  <1>2. CASE SendCompact
    <2> DEFINE more == cor.compactions \cup {holder}
    <2>1. /\ cor' = [cor EXCEPT !.starting = holder, !.compactions = more]
          /\ kind[holder] = "compact"
          /\ pc = "send" /\ pc' = "compacting" /\ Ready /\ cor.active = 0
          /\ cor.starting = 0 /\ UNCHANGED <<tasks, reply>>
      BY <1>0, <1>2 DEF SendCompact, Goto, Correlations
    <2> HIDE DEF more
    <2>2. /\ cor'.starting = holder /\ SameCor /\ cor'.compactions = more
      BY <1>0, <2>1 DEF Correlations, SameCor
    <2>3. holder \in Tasks /\ started /\ reader
      BY <1>0, <2>1, HolderFacts DEF Sending, Ready
    <2> QED BY <2>1, <2>2, <2>3 DEF Starts, Sends, more
  <1>3. CASE TurnSent
    BY <1>0, <1>3, TurnSentBinds
  <1>4. CASE TurnNotSent
    <2>1. /\ cor' = [cor EXCEPT !.starting = 0] /\ pc = "starting" /\ pc' = "closing"
          /\ UNCHANGED tasks
      BY <1>4 DEF TurnNotSent
    <2>2. cor'.starting = 0 /\ SameCor /\ cor'.compactions = cor.compactions
      BY <1>0, <2>1 DEF Correlations, SameCor
    <2> QED BY <2>1, <2>2 DEF Drops, Requesting
  <1>5. CASE CompactBound
    <2>1. /\ cor' = [cor EXCEPT !.starting = 0] /\ pc = "binding" /\ pc' = "compact_read"
          /\ cor.native[holder] # 0
      BY <1>5 DEF CompactBound, Goto
    <2>2. cor'.starting = 0 /\ SameCor /\ cor'.compactions = cor.compactions
      BY <1>0, <2>1 DEF Correlations, SameCor
    <2> QED BY <2>1, <2>2 DEF Drops, Requesting
  <1>6. CASE CompactNotStarted
    <2> DEFINE fewer == cor.compactions \ {holder}
    <2>1. /\ cor' = [cor EXCEPT !.starting = 0, !.compactions = fewer]
          /\ pc \in {"compacting", "binding"}
          /\ late' \/ (pc = "compacting" /\ reply.s = "error")
      BY <1>0, <1>6 DEF CompactNotStarted, Correlations
    <2>2. pc' \in {"idle", "start"}
      BY <1>6 DEF CompactNotStarted, Release
    <2> HIDE DEF fewer
    <2>3. cor'.starting = 0 /\ SameCor /\ cor'.compactions = fewer
      BY <1>0, <2>1 DEF Correlations, SameCor
    <2> QED BY <2>1, <2>2, <2>3 DEF Drops, Requesting, fewer
  <1>7. ASSUME GivesUp
        PROVE  pc' \in {"idle", "start"}
    BY <1>7 DEF GivesUp, Release
  <1>8. CASE StartFails \/ SendRefused
    <2>1. cor' = cor
      BY <1>8 DEF StartFails, SendRefused
    <2>2. pc \in {"start", "send"} /\ pc' \in {"idle", "start", "closing"}
      BY <1>0, <1>7, <1>8, GivingUp DEF TurnCloses
    <2> QED BY <2>1, <2>2 DEF Rests, Requesting
  <1>9. CASE EnsureStarted \/ CompactSent
    BY <1>9 DEF EnsureStarted, CompactSent, Goto, Rests, Requesting
  <1>10. CASE ReadTerminal \/ AuditEnds
    <2>1. cor' = cor
      BY <1>10 DEF ReadTerminal, AuditEnds
    <2>2. pc \in {"read", "auditing"} /\ pc' \in {"idle", "start", "failing", "auditing"}
      BY <1>0, <1>7, <1>10, GivingUp
    <2> QED BY <2>1, <2>2 DEF Rests, Requesting
  <1>11. CASE RunEnds \/ CompactTimesOut
    <2>1. cor' = cor
      BY <1>11 DEF RunEnds, CompactTimesOut
    <2>2. pc \in {"closing", "expiring", "compact_read"} /\ pc' \in {"idle", "start"}
      BY <1>0, <1>7, <1>11, GivingUp
    <2> QED BY <2>1, <2>2 DEF Rests, Requesting
  <1>12. CASE CompactReads
    <2>1. cor' = cor
      BY <1>12 DEF CompactReads
    <2>2. pc = "compact_read" /\ pc' \in {"idle", "start", "compact_read"}
      BY <1>0, <1>7, <1>12, GivingUp DEF coroutine
    <2> QED BY <2>1, <2>2 DEF Rests, Requesting
  <1>13. CASE ReadEvent \/ Interrupted
    <2>1. cor' = cor
      BY <1>13 DEF ReadEvent, Interrupted
    <2>2. pc \in {"read", "interrupting"} /\ pc' \in {"asking", "read", "failing"}
      BY <1>13, DeliverFacts DEF ReadEvent, Interrupted
    <2> QED BY <2>1, <2>2 DEF Rests, Requesting
  <1>14. CASE Answer \/ AnswerFails \/ InterruptFails \/ GraceExpires \/ LastInterrupt
    BY <1>14 DEF Answer, AnswerFails, InterruptFails, GraceExpires,
       LastInterrupt,
       Rests, Requesting
  <1>15. CASE CancelTurn \/ RunFails
    BY <1>15 DEF CancelTurn, Interrupt, RunFails, Rests, Requesting
  <1>16. CASE CloseByTurn \/ ReadResponse \/ RejectFrame \/ Close \/ EndClose
    BY <1>16 DEF CloseByTurn, ReadResponse, RejectFrame, Close, EndClose,
       coroutine, Rests
  <1>17. CASE Server \/ UNCHANGED vars
    BY <1>17, ServerFrame DEF vars, coroutine, Rests
  <1>18. CASE (\E t \in Tasks : RequestCancel(t)) \/ (\E x \in Context : InjectItems(x))
    BY <1>18 DEF RequestCancel, InjectItems, coroutine, Rests
  <1>19. ASSUME NEW t \in Tasks, NEW k \in {"turn", "compact"}, NewTask(t, k)
         PROVE  Rests
    <2>1. cor' = cor
      BY <1>19 DEF NewTask
    <2>2. pc' = pc \/ (pc = "idle" /\ pc' = "start")
      BY <1>0, <1>19 DEF NewTask, coroutine, Goto, Placed
    <2> QED BY <2>1, <2>2 DEF Rests, Requesting
  <1> QED
    BY <1>1, <1>2, <1>3, <1>4, <1>5, <1>6, <1>8, <1>9, <1>10, <1>11, <1>12,
       <1>13,
       <1>14, <1>15, <1>16, <1>17, <1>18, <1>19
       DEF Next, Running, Deciding, Reader, Mapping, Embedder

-----------------------------------------------------------------------------
(* Who is mentioned, and who is starting *)

\* What is known of a task is of the past.
LEMMA MentionsStep ==
    ASSUME Inv, Lined, Orderly, Streams, Mentions, Sending, [Next]_vars
    PROVE  Mentions'
  <1>0. TypedTasks /\ TypedCor /\ TypedServer /\ Known
    BY DEF Inv
  <1>1. ASSUME NEW t \in Tasks, Sends, t = holder
        PROVE  Past(t)'
    <2>1. /\ UNCHANGED <<holder, waiting, kind>> /\ pc' \notin {"start", "send"}
          /\ kind[holder] # "none" /\ holder # 0
      BY <1>1 DEF Sends, tasks, Tasks
    <2>2. t <= holder
      BY <1>1 DEF Tasks
    <2> QED BY <1>1, <2>1, <2>2 DEF Past, Lined
  <1>2. ASSUME NEW t \in Tasks, Mentioned(t)
        PROVE  Past(t)'
    BY <1>2, PastKept DEF Mentions
  <1>3. ASSUME NEW t \in Tasks
        PROVE  OnWire(t)' \/ Answered(t)' => Mentioned(t) \/ (Sends /\ t = holder)
    BY ReachStep DEF Mentioned, OnWire
  <1>4. ASSUME NEW t \in Tasks
        PROVE  \/ Refers(t)'
               \/ cor'.native[t] # 0
               \/ t \in cor'.compacting \cup cor'.completed
               => Mentioned(t) \/ (Sends /\ t = holder)
    <2>0. t # 0
      BY DEF Tasks
    <2>1. CASE Mapping
      <3>1. Mapped /\ Found
        BY <1>0, <2>1, MappingMaps, MappingFinds
      <3>2. Mentioned(from)
        BY <3>1 DEF Found, Mentioned
      <3>3. /\ Refers(t)' => Refers(t) \/ t = from
            /\ t # from => cor'.native[t] = cor.native[t]
            /\ t \in cor'.compacting => t \in cor.compacting \/ t = from
            /\ t \in cor'.completed => t \in cor.completed \/ t = from
        BY <2>0, <3>1 DEF Mapped, Found, Refers
      <3> QED BY <3>2, <3>3 DEF Mentioned
    <2>2. CASE Starts
      BY <2>0, <2>2 DEF Starts, Sends, SameCor, Refers, Mentioned
    <2>3. CASE Binds
      <3>1. Mentioned(holder)
        BY <2>3 DEF Binds, Sending, Requesting, Mentioned, Refers
      <3>2. /\ Refers(t)' => Refers(t) \/ t = holder
            /\ t # holder => cor'.native[t] = cor.native[t]
            /\ t \in cor'.compacting => t \in cor.compacting \/ t = holder
            /\ t \in cor'.completed => t \in cor.completed
        BY <2>0, <2>3 DEF Binds, Refers
      <3> QED BY <3>1, <3>2 DEF Mentioned
    <2>4. CASE Drops
      BY <2>0, <2>4 DEF Drops, SameCor, Refers, Mentioned
    <2>5. CASE Rests
      BY <2>5 DEF Rests, Refers, Mentioned
    <2> QED BY <2>1, <2>2, <2>3, <2>4, <2>5, CorSteps
  <1>5. ASSUME NEW t \in Tasks, Mentioned(t)'
        PROVE  Past(t)'
    <2>1. \/ OnWire(t)' \/ Answered(t)'
          \/ Refers(t)'
          \/ cor'.native[t] # 0
          \/ t \in cor'.compacting \cup cor'.completed
      BY <1>5 DEF Mentioned
    <2> QED BY <1>1, <1>2, <1>3, <1>4, <2>1
  <1> QED BY <1>5 DEF Mentions

\* While the holder requests, it is the one that starts.
LEMMA SendingStep ==
    ASSUME Inv, Settled, Sending, [Next]_vars
    PROVE  Sending'
  <1>0. /\ TypedTasks /\ TypedCoroutine /\ TypedCor /\ TypedServer /\ TypedLink /\ Placed
        /\ Piping
    BY Pipes DEF Inv
  <1>1. pc \in Requesting /\ pc' \in Requesting => holder' = holder
    <2>1. CASE LockStays
      BY <2>1 DEF LockStays
    <2>2. CASE LockPasses
      BY <2>2 DEF LockPasses, Requesting
    <2>3. ASSUME NEW t \in Tasks, NEW k \in {"turn", "compact"}, NewTask(t, k)
          PROVE  pc \in Requesting => holder' = holder
      BY <1>0, <2>3 DEF NewTask, Placed, Requesting
    <2> QED BY <2>1, <2>2, <2>3, LockSteps
  <1>2. /\ pc' \in Requesting => cor'.starting = holder'
        /\ cor'.starting # 0 => pc' \in Requesting
    <2>1. CASE Mapping
      <3>1. cor'.starting = cor.starting /\ pc' = pc /\ holder' = holder
        BY <1>0, <2>1, MappingFinds, MappingRest DEF Found, Inv, tasks,
           coroutine
      <3> QED BY <3>1 DEF Sending
    <2>2. CASE Starts
      BY <2>2 DEF Starts, Sends, tasks, Requesting
    <2>3. CASE Binds
      BY <2>3 DEF Binds, Requesting
    <2>4. CASE Drops
      BY <2>4 DEF Drops
    <2>5. CASE Rests
      BY <1>1, <2>5 DEF Rests, Sending
    <2> QED BY <2>1, <2>2, <2>3, <2>4, <2>5, CorSteps
  <1> DEFINE Goal == /\ state' = "ready" /\ ~fatal' => reader'
                     /\ state' = "ready" => started'
                     /\ started => started'
  <1>3. Goal
    <2>1. ASSUME UNCHANGED <<link, started>>
          PROVE  Goal
      BY <2>1 DEF Sending, link
    <2>2. CASE EnsureStarted
      BY <2>2 DEF EnsureStarted, Sending
    <2>3. CASE StartFails
      BY <2>3 DEF StartFails, Sending, control
    <2>4. CASE CloseByTurn \/ Close \/ EndClose
      BY <1>0, <2>4 DEF CloseByTurn, Close, EndClose, BeginClose, control
    <2>5. CASE RejectFrame
      BY <2>5 DEF RejectFrame, Sending, control
    <2> HIDE DEF Goal
    <2>6. CASE SendTurn \/ SendCompact \/ SendRefused \/ TurnSent \/ TurnNotSent
      BY <2>1, <2>6 DEF SendTurn, SendCompact, SendRefused, TurnSent,
         TurnNotSent, control
    <2>7. CASE ReadEvent \/ ReadTerminal \/ AuditEnds \/ Answer \/ AnswerFails
      BY <2>1, <2>7 DEF ReadEvent, ReadTerminal, AuditEnds, Answer,
         AnswerFails, control
    <2>8. CASE CancelTurn \/ Interrupted \/ InterruptFails \/ GraceExpires \/ RunFails
      BY <2>1, <2>8 DEF CancelTurn, Interrupted, InterruptFails, GraceExpires,
         RunFails,
         control
    <2>9. CASE LastInterrupt \/ RunEnds \/ CompactSent \/ CompactBound
      BY <2>1, <2>9 DEF LastInterrupt, RunEnds, CompactSent, CompactBound,
         control
    <2>10. CASE CompactNotStarted \/ CompactReads \/ CompactTimesOut
      BY <2>1, <2>10 DEF CompactNotStarted, CompactReads, CompactTimesOut,
         control
    <2>11. CASE Mapping \/ ReadResponse \/ Server \/ UNCHANGED vars
      BY <2>1, <2>11, MappingRest, ServerFrame DEF ReadResponse, control, vars
    <2>12. CASE (\E t \in Tasks : RequestCancel(t)) \/ (\E x \in Context : InjectItems(x))
      BY <2>1, <2>12 DEF RequestCancel, InjectItems, control
    <2>13. ASSUME NEW t \in Tasks, NEW k \in {"turn", "compact"}, NewTask(t, k)
           PROVE  Goal
      BY <2>1, <2>13 DEF NewTask, control
    <2> QED
      BY <2>2, <2>3, <2>4, <2>5, <2>6, <2>7, <2>8, <2>9, <2>10, <2>11, <2>12,
         <2>13
         DEF Next, Running, Deciding, Reader, Mapping, Embedder
  <1>4. ~started => toServer' = <<>> /\ fromServer' = <<>> /\ srv'.nat = 0
    <2> SUFFICES ASSUME ~started
                 PROVE  toServer' = <<>> /\ fromServer' = <<>> /\ srv'.nat = 0
      OBVIOUS
    <2>1. toServer = <<>> /\ fromServer = <<>> /\ srv.nat = 0 /\ ~srv.up
      BY DEF Sending, Settled
    <2> QED BY <1>0, <2>1 DEF Piping, SameServer, Notifies, SendsRequest,
           Sends, TakesFrame,
               Clears, Serving, Replies, Opening, Reports, Replacing, Ending, Exiting
  <1> QED BY <1>2, <1>3, <1>4 DEF Sending

-----------------------------------------------------------------------------
(* What a step puts into the queue, holds, and gives to a sink *)

\* What is new in the queue is of t's native turn n, or of no turn.
Queues(t, n) == \A i \in DOMAIN queue' :
    \/ \E j \in DOMAIN queue : queue'[i] = queue[j]
    \/ queue'[i].turn \in {0, t} /\ (queue'[i].turn # 0 => queue'[i].nat = n)

\* Events of turns come from the reader, from a turn that is bound, or from an
\* answered approval.
LEMMA QueueSteps ==
    ASSUME Inv, [Next]_vars
    PROVE  \/ Queues(0, 0)
           \/ Mapping /\ Queues(from, msg.nat)
           \/ Binds /\ Queues(holder, reply.nat)
           \/ pc = "asking" /\ Queues(held.turn, held.nat)
  <1>0. /\ TypedTasks /\ TypedCoroutine /\ TypedOut /\ TypedCor /\ TypedServer
        /\ Placed /\ Asked /\ Known /\ queue \in Seq(Event) /\ Len(queue) \in Nat
        /\ DOMAIN queue = 1..Len(queue)
    BY LenProperties DEF Inv, TypedOut
  <1>1. ASSUME queue' = queue
        PROVE  Queues(0, 0)
    BY <1>1 DEF Queues
  <1>2. ASSUME queue # <<>>, queue' = Tail(queue)
        PROVE  Queues(0, 0)
    <2>1. /\ queue' \in Seq(Event) /\ DOMAIN queue' = 1..Len(queue')
          /\ \A i \in 1..Len(queue') : i + 1 \in 1..Len(queue) /\ queue'[i] = queue[i + 1]
      BY <1>0, <1>2, TakeFacts, LenProperties
    <2> QED BY <1>0, <2>1 DEF Queues
  <1>3. ASSUME NEW types \in Seq(EventTypes), NEW t \in 0..MaxTasks,
               NEW n \in 0..MaxNatives, Emit(types, t, n)
        PROVE  Queues(t, n)
    <2>1. /\ queue' \in Seq(Event) /\ DOMAIN queue' = 1..Len(queue')
          /\ Len(queue') \in Nat
          /\ \A i \in 1..Len(queue) : queue'[i] = queue[i]
          /\ \A i \in (Len(queue) + 1)..Len(queue') : queue'[i].turn = t /\ queue'[i].nat = n
      BY <1>0, <1>3, EmitFacts, LenProperties
    <2>2. \A i \in DOMAIN queue' :
             i \in DOMAIN queue \/ i \in (Len(queue) + 1)..Len(queue')
      BY <1>0, <2>1
    <2> QED BY <1>0, <2>1, <2>2 DEF Queues
  <1>4. ASSUME queue' = Append(queue, Stop) \/ queue' = Append(queue, Broken)
        PROVE  Queues(0, 0)
    <2>1. PICK e \in {Stop, Broken} : queue' = Append(queue, e)
      BY <1>4
    <2>2. e \in Event /\ e.turn = 0
      BY <2>1, EventFacts
    <2>3. /\ queue' \in Seq(Event) /\ DOMAIN queue' = 1..Len(queue')
          /\ Len(queue') = Len(queue) + 1 /\ queue'[Len(queue')] = e
          /\ \A i \in 1..Len(queue) : queue'[i] = queue[i]
      BY <1>0, <2>1, <2>2, EndQueued, LenProperties
    <2>4. \A i \in DOMAIN queue' : i \in DOMAIN queue \/ i = Len(queue')
      BY <1>0, <2>3
    <2> QED BY <1>0, <2>2, <2>3, <2>4 DEF Queues
  <1>5. CASE Mapping
    <2>1. MappedEvents /\ from \in Tasks /\ msg.nat \in Natives
      BY <1>0, <1>5, MappingMaps DEF Mapped
    <2>2. from \in 0..MaxTasks /\ msg.nat \in 0..MaxNatives
      BY <2>1, Bounded DEF Tasks, Natives
    <2>3. CASE UNCHANGED outbox
      BY <1>1, <2>3 DEF outbox
    <2> QED BY <1>3, <1>5, <2>1, <2>2, <2>3 DEF MappedEvents
  <1>6. CASE TurnSent
    <2>1. /\ holder \in Tasks /\ reply.nat \in Natives
          /\ \/ UNCHANGED outbox
             \/ \E types \in Seq(EventTypes) : Emit(types, holder, reply.nat)
      BY <1>0, <1>6, TurnSentFacts
    <2>2. holder \in 0..MaxTasks /\ reply.nat \in 0..MaxNatives
      BY <2>1, Bounded DEF Tasks, Natives
    <2>3. CASE UNCHANGED outbox
      BY <1>1, <2>3 DEF outbox
    <2>4. CASE Binds
      BY <1>3, <2>1, <2>2, <2>3, <2>4
    <2> QED BY <1>0, <1>6, <2>3, <2>4, TurnSentBinds
  <1>7. CASE Answer
    <2>1. /\ <<"resolved">> \in Seq(EventTypes) /\ Emit(<<"resolved">>, held.turn, held.nat)
          /\ pc = "asking"
      BY <1>7 DEF Answer, EventTypes
    <2>2. held.turn \in 0..MaxTasks /\ held.nat \in 0..MaxNatives
      BY <1>0 DEF TypedCoroutine, Event
    <2> QED BY <1>3, <2>1, <2>2
  <1>8. CASE ReadEvent \/ ReadTerminal \/ CompactReads
    <2>1. queue # <<>> /\ queue' = Tail(queue)
      BY <1>8 DEF ReadEvent, ReadTerminal, CompactReads, TakeNext
    <2> QED BY <1>2, <2>1
  <1>9. CASE CancelTurn
    <2>1. \/ queue # <<>> /\ queue' = Tail(queue)
          \/ UNCHANGED outbox
      BY <1>9 DEF CancelTurn, TakeNext
    <2> QED BY <1>1, <1>2, <2>1 DEF outbox
  <1>10. CASE RejectFrame
    <2>1. queue' = queue \/ queue' = Append(queue, Broken)
      BY <1>10 DEF RejectFrame
    <2> QED BY <1>1, <1>4, <2>1
  <1>11. CASE EndClose
    BY <1>4, <1>11 DEF EndClose
  <1>12. CASE EnsureStarted \/ StartFails \/ SendTurn \/ SendCompact \/ SendRefused
              \/ TurnNotSent \/ AuditEnds \/ AnswerFails
    BY <1>1, <1>12 DEF EnsureStarted, StartFails, SendTurn, SendCompact,
       SendRefused,
       TurnNotSent, AuditEnds, AnswerFails, outbox
  <1>13. CASE Interrupted \/ InterruptFails \/ GraceExpires \/ RunFails \/ LastInterrupt
              \/ CloseByTurn \/ RunEnds \/ Close
    BY <1>1, <1>13 DEF Interrupted, InterruptFails, GraceExpires, RunFails,
       LastInterrupt,
       CloseByTurn, RunEnds, Close, outbox
  <1>14. CASE CompactSent \/ CompactBound \/ CompactNotStarted \/ CompactTimesOut
              \/ ReadResponse \/ Server \/ UNCHANGED vars
    BY <1>1, <1>14, ServerFrame DEF CompactSent, CompactBound,
       CompactNotStarted,
       CompactTimesOut, ReadResponse, vars, outbox
  <1>15. CASE (\E t \in Tasks : RequestCancel(t)) \/ (\E x \in Context : InjectItems(x))
    BY <1>1, <1>15 DEF RequestCancel, InjectItems, outbox
  <1>16. ASSUME NEW t \in Tasks, NEW k \in {"turn", "compact"}, NewTask(t, k)
         PROVE  Queues(0, 0)
    BY <1>1, <1>16 DEF NewTask, outbox
  <1> QED
    BY <1>5, <1>6, <1>7, <1>8, <1>9, <1>10, <1>11, <1>12, <1>13, <1>14, <1>15,
       <1>16
       DEF Next, Running, Deciding, Reader, Mapping, Embedder

\* It comes to read when its turn is bound, and takes what it holds from the
\* queue.
LEMMA ReadingSteps ==
    ASSUME Inv, [Next]_vars, pc' \in Reading
    PROVE  \/ Binds
           \/ /\ pc \in Reading /\ holder' = holder
              /\ \/ pc' = "read" \/ held'.turn = 0
                 \/ pc \in Holding /\ held' = held
                 \/ pc = "read" /\ queue # <<>> /\ held' = queue[1]
  <1> DEFINE Goal == \/ Binds
                     \/ /\ pc \in Reading /\ holder' = holder
                        /\ \/ pc' = "read" \/ held'.turn = 0
                           \/ pc \in Holding /\ held' = held
                           \/ pc = "read" /\ queue # <<>> /\ held' = queue[1]
  <1> SUFFICES Goal
    OBVIOUS
  <1>0. /\ TypedTasks /\ TypedCoroutine /\ TypedCor /\ TypedServer /\ Placed /\ Asked
        /\ queue \in Seq(Event)
    BY DEF Inv, TypedOut
  <1>1. None.turn = 0
    BY EventFacts
  <1>2. ASSUME UNCHANGED <<coroutine, holder>>
        PROVE  Goal
    BY <1>2 DEF coroutine, Reading
  <1>3. queue # <<>> => Head(queue) = queue[1]
    OBVIOUS
  <1>4. ASSUME GivesUp
        PROVE  FALSE
    <2>1. pc' \in {"idle", "start"}
      BY <1>4 DEF GivesUp, Release
    <2> QED BY <2>1 DEF Reading, Holding
  <1>5. CASE TurnSent
    <2>1. Binds \/ pc' = "closing"
      BY <1>0, <1>5, TurnSentBinds
    <2> QED BY <2>1 DEF Reading, Holding
  <1>6. CASE ReadEvent
    <2>1. /\ pc = "read" /\ queue # <<>> /\ Deliver(Head(queue)) /\ holder' = holder
      BY <1>6 DEF ReadEvent, tasks
    <2> QED BY <1>3, <2>1, DeliverFacts DEF Reading, Holding
  <1>7. CASE ReadTerminal
    <2>1. /\ pc = "read" /\ queue # <<>>
          /\ \/ pc' = "failing"
             \/ held' = Head(queue) /\ holder' = holder
      BY <1>0, <1>4, <1>7, GivingUp DEF tasks
    <2> QED BY <1>3, <2>1 DEF Reading, Holding
  <1>8. CASE AuditEnds
    <2>1. pc' = "failing"
      BY <1>0, <1>4, <1>8, GivingUp
    <2> QED BY <2>1 DEF Reading, Holding
  <1>9. CASE Interrupted
    <2>1. /\ pc = "interrupting" /\ holder' = holder
          /\ pc' = "read" \/ Deliver(held)
      BY <1>9 DEF Interrupted, tasks
    <2> QED BY <2>1, DeliverFacts DEF Reading, Holding
  <1>10. CASE CancelTurn
    <2>1. /\ pc \in {"read", "auditing"} /\ holder' = holder
          /\ \/ pc = "read" /\ queue # <<>> /\ held' = Head(queue)
             \/ held' = None
      BY <1>10 DEF CancelTurn, tasks
    <2> QED BY <1>1, <1>3, <2>1 DEF Reading, Holding
  <1>11. CASE StartFails \/ SendRefused
    <2>1. pc' = "closing"
      BY <1>0, <1>4, <1>11, GivingUp DEF TurnCloses
    <2> QED BY <2>1 DEF Reading, Holding
  <1>12. CASE RunEnds \/ CompactNotStarted \/ CompactTimesOut
    BY <1>0, <1>4, <1>12, GivingUp
  <1>13. CASE CompactReads
    <2>1. UNCHANGED coroutine /\ pc = "compact_read"
      BY <1>0, <1>4, <1>13, GivingUp
    <2> QED BY <2>1 DEF Reading, Holding, coroutine
  <1>14. CASE Answer
    BY <1>14 DEF Answer, tasks, Reading, Holding
  <1>15. CASE EnsureStarted \/ SendTurn \/ SendCompact \/ TurnNotSent
    BY <1>15 DEF EnsureStarted, SendTurn, SendCompact, TurnNotSent, Goto,
       Reading, Holding
  <1>16. CASE AnswerFails \/ InterruptFails \/ GraceExpires \/ RunFails \/ LastInterrupt
    BY <1>16 DEF AnswerFails, InterruptFails, GraceExpires, RunFails,
       LastInterrupt,
       Reading, Holding
  <1>17. CASE CompactSent \/ CompactBound
    BY <1>17 DEF CompactSent, CompactBound, Goto, Reading, Holding
  <1>18. CASE CloseByTurn \/ Close \/ Mapping \/ Server \/ UNCHANGED vars
    BY <1>2, <1>18, MappingRest, ServerFrame DEF CloseByTurn, Close, tasks, vars
  <1>19. CASE ReadResponse \/ RejectFrame \/ EndClose
    BY <1>19 DEF ReadResponse, RejectFrame, EndClose, tasks, Reading
  <1>20. CASE (\E t \in Tasks : RequestCancel(t)) \/ (\E x \in Context : InjectItems(x))
    BY <1>2, <1>20 DEF RequestCancel, InjectItems, tasks
  <1>21. ASSUME NEW t \in Tasks, NEW k \in {"turn", "compact"}, NewTask(t, k)
         PROVE  Goal
    <2>1. UNCHANGED <<coroutine, holder>> \/ pc' = "start"
      BY <1>21 DEF NewTask, Goto
    <2> QED BY <1>2, <2>1 DEF Reading, Holding
  <1> HIDE DEF Goal
  <1> QED
    BY <1>5, <1>6, <1>7, <1>8, <1>9, <1>10, <1>11, <1>12, <1>13, <1>14, <1>15,
       <1>16,
       <1>17, <1>18, <1>19, <1>20, <1>21
       DEF Next, Running, Deciding, Reader, Mapping, Embedder

\* A sink is given the first event of the queue, or the one at hand.
LEMMA GivenSteps ==
    ASSUME Inv, [Next]_vars, last' # last
    PROVE  /\ holder \in Tasks /\ last'.to = holder /\ last'.event.turn = holder
           /\ \/ /\ pc \in {"read", "compact_read"} /\ queue # <<>>
                 /\ queue[1].turn = holder /\ last'.event.nat = queue[1].nat
              \/ /\ pc \in {"auditing", "interrupting"}
                 /\ held.turn = holder /\ last'.event.nat = held.nat
  <1> DEFINE Goal ==
        /\ holder \in Tasks /\ last'.to = holder /\ last'.event.turn = holder
        /\ \/ /\ pc \in {"read", "compact_read"} /\ queue # <<>>
              /\ queue[1].turn = holder /\ last'.event.nat = queue[1].nat
           \/ /\ pc \in {"auditing", "interrupting"}
              /\ held.turn = holder /\ last'.event.nat = held.nat
  <1> SUFFICES Goal
    OBVIOUS
  <1>0. TypedTasks /\ TypedCoroutine /\ Placed /\ held \in Event /\ queue \in Seq(Event)
    BY DEF Inv, TypedOut, TypedCoroutine
  <1>1. ASSUME pc \in {"read", "compact_read"}, queue # <<>>,
               Head(queue).turn = holder, Given(Head(queue))
        PROVE  Goal
    <2>1. holder \in Tasks /\ Head(queue) = queue[1]
      BY <1>0, <1>1, HolderFacts
    <2> QED BY <1>1, <2>1 DEF Given
  <1>2. ASSUME pc \in {"auditing", "interrupting"}, held.turn = holder,
               NEW e, e.turn = holder, e.nat = held.nat, Given(e)
        PROVE  Goal
    <2>1. holder \in Tasks
      BY <1>0, <1>2, HolderFacts
    <2> QED BY <1>2, <2>1 DEF Given
  <1> HIDE DEF Goal
  <1>4. CASE ReadEvent
    <2>1. pc = "read" /\ queue # <<>> /\ Deliver(Head(queue))
      BY <1>4 DEF ReadEvent
    <2> QED BY <1>1, <2>1, DeliverFacts
  <1>5. CASE ReadTerminal
    <2>1. /\ pc = "read" /\ queue # <<>>
          /\ \/ Head(queue).turn = holder /\ Given(Head(queue))
             \/ last' = last
      BY <1>0, <1>5, GivingUp
    <2> QED BY <1>1, <2>1
  <1>6. CASE AuditEnds
    <2>1. /\ pc = "auditing"
          /\ \/ /\ held.turn = holder
                /\ Given(held) \/ Given([held EXCEPT !.type = "failed"])
             \/ last' = last
      BY <1>0, <1>6, GivingUp
    <2>2. /\ [held EXCEPT !.type = "failed"].turn = held.turn
          /\ [held EXCEPT !.type = "failed"].nat = held.nat
      BY <1>0 DEF Event
    <2> QED BY <1>2, <2>1, <2>2
  <1>7. CASE Interrupted
    <2>1. pc = "interrupting" /\ (last' = last \/ Deliver(held))
      BY <1>7 DEF Interrupted
    <2> QED BY <1>2, <2>1, DeliverFacts
  <1>8. CASE CompactReads
    <2>1. /\ pc = "compact_read" /\ queue # <<>>
          /\ \/ Head(queue).turn = holder /\ Given(Head(queue))
             \/ last' = last
      BY <1>0, <1>8, GivingUp
    <2> QED BY <1>1, <2>1
  <1>9. EnsureStarted \/ StartFails \/ SendTurn \/ SendCompact \/ SendRefused
        \/ TurnSent \/ TurnNotSent => last' = last
    BY DEF EnsureStarted, StartFails, SendTurn, SendCompact, SendRefused,
       TurnSent,
       TurnNotSent, seen
  <1>10. Answer \/ AnswerFails \/ CancelTurn \/ InterruptFails \/ GraceExpires
         \/ RunFails \/ LastInterrupt \/ CloseByTurn \/ RunEnds => last' = last
    BY DEF Answer, AnswerFails, CancelTurn, InterruptFails, GraceExpires,
       RunFails,
       LastInterrupt, CloseByTurn, RunEnds, seen
  <1>11. CompactSent \/ CompactBound \/ CompactNotStarted \/ CompactTimesOut
         => last' = last
    BY DEF CompactSent, CompactBound, CompactNotStarted, CompactTimesOut, seen
  <1>12. Mapping \/ ReadResponse \/ RejectFrame \/ EndClose \/ Server => last' = last
    BY MappingRest, ServerFrame DEF ReadResponse, RejectFrame, EndClose, seen
  <1>13. ASSUME NEW t \in Tasks, NEW k \in {"turn", "compact"}, NewTask(t, k)
         PROVE  last' = last
    BY <1>13 DEF NewTask, seen
  <1>14. (\E t \in Tasks : RequestCancel(t)) \/ (\E x \in Context : InjectItems(x))
         \/ Close => last' = last
    BY DEF RequestCancel, InjectItems, Close, seen
  <1>15. UNCHANGED vars => last' = last
    BY DEF vars, seen
  <1> QED
    BY <1>4, <1>5, <1>6, <1>7, <1>8, <1>9, <1>10, <1>11, <1>12, <1>13, <1>14,
       <1>15
       DEF Next, Running, Deciding, Reader, Mapping, Embedder

-----------------------------------------------------------------------------
(* The head of the stream *)

\* The reader's frame is about the oldest task that is live.
LEMMA HeadOrder ==
    ASSUME Inv, Orderly, Streams, fromServer # <<>>, msg.nat # 0
    PROVE  /\ msg.nat \in Issued /\ owner[msg.nat] \in Tasks
           /\ Live(owner[msg.nat])
           /\ \A t \in Tasks : Live(t) => owner[msg.nat] <= t
  <1>0. /\ TypedServer /\ TypedSeen /\ srv \in Servers /\ fromServer \in Seq(Frames)
        /\ Len(fromServer) \in Nat /\ DOMAIN fromServer = 1..Len(fromServer)
    BY LenProperties DEF Inv, TypedServer
  <1>1. 1 \in DOMAIN fromServer /\ msg = fromServer[1]
    BY <1>0, HeadFrame
  <1>2. msg.nat \in Issued /\ owner[msg.nat] \in Tasks
    BY <1>1 DEF Streams, Sound, Orderly
  <1>3. Live(owner[msg.nat])
    BY <1>1, <1>2 DEF Live, Framed
  <1>4. ASSUME NEW t \in Tasks, AskedFor(t)
        PROVE  owner[msg.nat] < t
    BY <1>2, <1>4 DEF AskedFor, Orderly
  <1>5. ASSUME NEW t \in Tasks, Framed(t)
        PROVE  owner[msg.nat] <= t
    <2>1. PICK i \in DOMAIN fromServer : fromServer[i].nat # 0 /\ owner[fromServer[i].nat] = t
      BY <1>5 DEF Framed
    <2>2. CASE i = 1
      BY <1>1, <2>1, <2>2 DEF Tasks
    <2>3. CASE i # 1
      <3>1. 1 < i
        BY <1>0, <2>3
      <3>2. Before(fromServer[1], fromServer[i]) /\ fromServer[i].nat \in Issued
        BY <1>1, <2>1, <3>1 DEF Streams, Sound
      <3>3. msg.nat <= fromServer[i].nat
        BY <1>1, <2>1, <3>2 DEF Before
      <3> QED BY <1>2, <2>1, <3>2, <3>3 DEF Orderly
    <2> QED BY <2>2, <2>3
  <1>6. ASSUME NEW t \in Tasks, Served(t)
        PROVE  owner[msg.nat] <= t
    <2>1. srv.nat \in Issued /\ srv.nat # 0 /\ owner[srv.nat] = t
      BY <1>6, LiveOnWire DEF Served
    <2>2. srv.nat = srv.next - 1 /\ srv.next \in Int
      BY <1>0, <2>1, Bounded DEF Orderly, Servers
    <2>3. msg.nat <= srv.nat
      BY <1>2, <2>2 DEF Issued
    <2> QED BY <1>2, <2>1, <2>3 DEF Orderly
  <1>7. \A t \in Tasks : owner[msg.nat] < t => owner[msg.nat] <= t
    BY <1>2, Bounded DEF Tasks
  <1> QED BY <1>2, <1>3, <1>4, <1>5, <1>6, <1>7 DEF Live

\* A frame that is mapped is taken.
LEMMA MappingTakes ==
    ASSUME Inv, Mapping
    PROVE  TakesFrame /\ msg.nat \in Natives /\ msg.nat # 0
  <1>1. /\ msg.nat \in Natives /\ fromServer # <<>> /\ fromServer' = Tail(fromServer)
        /\ UNCHANGED <<toServer, srv, seen>>
    BY MappingFrame DEF Inv
  <1>2. msg.nat # 0
    BY <1>1 DEF Natives
  <1> QED BY <1>1, <1>2 DEF TakesFrame, SameServer, seen

\* Nothing is live any more of whom a terminal frame is about.
LEMMA HeadEnds ==
    ASSUME Inv, Orderly, Streams, Mapping, msg.f \in TerminalEvents,
           NEW t \in Tasks, t = owner[msg.nat]
    PROVE  ~Live(t)'
  <1>0. /\ TypedServer /\ TakesFrame /\ msg.nat # 0
    BY MappingTakes DEF Inv
  <1>1. /\ 1 \in DOMAIN fromServer /\ msg = fromServer[1]
        /\ \A i \in DOMAIN fromServer' :
             /\ i \in Int /\ i + 1 \in DOMAIN fromServer /\ 1 < i + 1
             /\ fromServer'[i] = fromServer[i + 1]
    BY <1>0, TakenFrame DEF TakesFrame
  <1>2. toServer' = toServer /\ owner' = owner /\ srv'.nat = srv.nat
    BY <1>0 DEF TakesFrame, SameServer
  <1>3. msg.nat \in Issued
    BY <1>0, HeadOrder DEF TakesFrame
  <1>4. ASSUME NEW i \in DOMAIN toServer, Begins(toServer[i]), toServer[i].t = t
        PROVE  FALSE
    <2>1. t < t
      BY <1>3, <1>4 DEF Orderly
    <2> QED BY <2>1, Bounded DEF Tasks
  <1>5. ASSUME NEW i \in DOMAIN fromServer', fromServer'[i].nat # 0,
               owner[fromServer'[i].nat] = t
        PROVE  FALSE
    <2>1. Before(fromServer[1], fromServer[i + 1])
      BY <1>1 DEF Streams
    <2> QED BY <1>0, <1>1, <1>5, <2>1 DEF Before
  <1>6. srv.nat # 0 => owner[srv.nat] # t
    BY <1>1 DEF Streams, Sound
  <1> QED BY <1>2, <1>4, <1>5, <1>6 DEF Live, AskedFor, Framed, Served

\* A turn that is the oldest live task is the holder's, and alone.
LEMMA OnlyHolder ==
    ASSUME Inv, Lined, Settled, Orderly, Streams, Mentions, Turns, reader,
           NEW u \in Tasks, Live(u), kind[u] = "turn",
           \A t \in Tasks : Live(t) => u <= t
    PROVE  u = holder /\ Alone(holder)
  <1>1. \A t \in Tasks : Live(t) => Past(t)
    BY LiveOnWire DEF Mentions, Mentioned
  <1>2. Past(u) /\ u \in Int /\ holder \in Int
    BY <1>1, Bounded DEF Tasks, Inv, TypedTasks
  <1>3. result[u] = "none"
    BY DEF Turns, Fine, Settled
  <1>4. \A i \in DOMAIN waiting : waiting[i] # u
    <2>1. \A i \in DOMAIN waiting : u < waiting[i]
      BY <1>2 DEF Past
    <2> QED BY <1>2, <2>1
  <1>5. u = holder
    BY <1>2, <1>3, <1>4 DEF Lined, Past
  <1>6. ASSUME NEW t \in Tasks, Live(t)
        PROVE  t = u
    <2>1. u <= t /\ t <= holder
      BY <1>1, <1>5, <1>6 DEF Past, Tasks
    <2> QED BY <1>2, <1>5, <2>1, Bounded DEF Tasks
  <1> QED BY <1>5, <1>6 DEF Alone

-----------------------------------------------------------------------------
(* What stays as it is *)

\* A task keeps its native turn, and what is clean stays so.
LEMMA CleanStays ==
    ASSUME Inv, Orderly, Sending, Names, [Next]_vars, NEW u \in Tasks
    PROVE  /\ cor.native[u] # 0 => cor'.native[u] = cor.native[u]
           /\ cor.native[u] # 0 => (Clean(u)' <=> Clean(u))
  <1>0. TypedTasks /\ TypedCor /\ TypedServer /\ TypedSeen /\ Known /\ Piping
    BY Pipes DEF Inv
  <1>1. cor.native[u] # 0 => cor'.native[u] = cor.native[u]
    <2>1. CASE Mapping
      <3>1. Found
        BY <1>0, <2>1, MappingFinds
      <3> QED BY <3>1 DEF Found
    <2>2. CASE Starts
      BY <2>2 DEF Starts, SameCor
    <2>3. CASE Binds
      BY <2>3 DEF Binds
    <2>4. CASE Drops
      BY <2>4 DEF Drops, SameCor
    <2>5. CASE Rests
      BY <2>5 DEF Rests
    <2> QED BY <2>1, <2>2, <2>3, <2>4, <2>5, CorSteps
  <1>2. cor.native[u] # 0 => owner'[cor.native[u]] = owner[cor.native[u]]
    BY <1>0, OwnersStay DEF Names
  <1> QED BY <1>1, <1>2 DEF Clean

\* A compaction that was given up on stays so.
LEMMA LateGrows ==
    ASSUME [Next]_vars, late
    PROVE  late'
  <1>1. CASE CompactNotStarted
    BY <1>1 DEF CompactNotStarted
  <1>2. CASE EnsureStarted \/ StartFails \/ SendTurn \/ SendCompact \/ SendRefused
             \/ TurnSent \/ TurnNotSent
    BY <1>2 DEF EnsureStarted, StartFails, SendTurn, SendCompact, SendRefused,
       TurnSent,
       TurnNotSent, seen
  <1>3. CASE ReadEvent \/ ReadTerminal \/ AuditEnds \/ Interrupted \/ CompactReads
    BY <1>3 DEF ReadEvent, ReadTerminal, AuditEnds, Interrupted, CompactReads
  <1>4. CASE Answer \/ AnswerFails \/ CancelTurn \/ InterruptFails \/ GraceExpires
             \/ RunFails \/ LastInterrupt \/ CloseByTurn \/ RunEnds
    BY <1>4 DEF Answer, AnswerFails, CancelTurn, InterruptFails, GraceExpires,
       RunFails,
       LastInterrupt, CloseByTurn, RunEnds, seen
  <1>5. CASE CompactSent \/ CompactBound \/ CompactTimesOut
    BY <1>5 DEF CompactSent, CompactBound, CompactTimesOut, seen
  <1>6. CASE Mapping \/ ReadResponse \/ RejectFrame \/ EndClose \/ Server
    BY <1>6, MappingRest, ServerFrame DEF ReadResponse, RejectFrame, EndClose,
       seen
  <1>7. ASSUME NEW t \in Tasks, NEW k \in {"turn", "compact"}, NewTask(t, k)
        PROVE  late'
    BY <1>7 DEF NewTask, seen
  <1>8. CASE (\E t \in Tasks : RequestCancel(t)) \/ (\E x \in Context : InjectItems(x)) \/ Close
    BY <1>8 DEF RequestCancel, InjectItems, Close, seen
  <1>9. CASE UNCHANGED vars
    BY <1>9 DEF vars, seen
  <1> QED
    BY <1>1, <1>2, <1>3, <1>4, <1>5, <1>6, <1>7, <1>8, <1>9
       DEF Next, Running, Deciding, Reader, Mapping, Embedder

\* The reader begins with the session, and a closing turn waits for it to end.
LEMMA ReaderSteps ==
    ASSUME Inv, Settled, [Next]_vars, reader'
    PROVE  /\ reader \/ (~started /\ pc = "start")
           /\ pc = "closing" => pc' = "closing" /\ holder' = holder
  <1> DEFINE Goal == /\ reader \/ (~started /\ pc = "start")
                     /\ pc = "closing" => pc' = "closing" /\ holder' = holder
  <1> SUFFICES Goal
    OBVIOUS
  <1>0. TypedTasks /\ TypedCoroutine /\ Placed
    BY DEF Inv
  <1>1. CASE EnsureStarted
    BY <1>1 DEF EnsureStarted
  <1>2. ASSUME reader' = reader, pc # "closing" \/ UNCHANGED <<coroutine, holder>>
        PROVE  Goal
    BY <1>2 DEF coroutine
  <1> HIDE DEF Goal
  <1>3. CASE StartFails \/ SendTurn \/ SendCompact \/ SendRefused \/ TurnSent \/ TurnNotSent
    BY <1>2, <1>3 DEF StartFails, SendTurn, SendCompact, SendRefused, TurnSent,
       TurnNotSent, link
  <1>4. CASE ReadEvent \/ ReadTerminal \/ AuditEnds \/ Interrupted \/ CompactReads
    BY <1>2, <1>4 DEF ReadEvent, ReadTerminal, AuditEnds, Interrupted,
       CompactReads, link
  <1>5. CASE Answer \/ AnswerFails \/ CancelTurn \/ InterruptFails \/ GraceExpires
             \/ RunFails \/ LastInterrupt
    BY <1>2, <1>5 DEF Answer, AnswerFails, CancelTurn, InterruptFails,
       GraceExpires,
       RunFails, LastInterrupt, link
  <1>6. CASE CloseByTurn \/ Close
    BY <1>2, <1>6 DEF CloseByTurn, Close, BeginClose, tasks
  <1>7. CASE RunEnds
    BY <1>7 DEF RunEnds, Settled, link
  <1>8. CASE CompactSent \/ CompactBound \/ CompactNotStarted \/ CompactTimesOut
    BY <1>2, <1>8 DEF CompactSent, CompactBound, CompactNotStarted,
       CompactTimesOut, link
  <1>9. CASE Mapping \/ Server \/ UNCHANGED vars
    BY <1>2, <1>9, MappingRest, ServerFrame DEF tasks, link, vars
  <1>10. CASE ReadResponse
    BY <1>10 DEF ReadResponse, tasks, link, Goal
  <1>11. CASE RejectFrame \/ EndClose
    BY <1>11 DEF RejectFrame, EndClose
  <1>12. CASE (\E t \in Tasks : RequestCancel(t)) \/ (\E x \in Context : InjectItems(x))
    BY <1>2, <1>12 DEF RequestCancel, InjectItems, tasks, link
  <1>13. ASSUME NEW t \in Tasks, NEW k \in {"turn", "compact"}, NewTask(t, k)
         PROVE  Goal
    <2>1. reader' = reader
      BY <1>13 DEF NewTask, link
    <2>2. pc # "closing" \/ UNCHANGED <<coroutine, holder>>
      BY <1>0, <1>13 DEF NewTask, Placed
    <2> QED BY <1>2, <2>1, <2>2
  <1> QED
    BY <1>1, <1>3, <1>4, <1>5, <1>6, <1>7, <1>8, <1>9, <1>10, <1>11, <1>12,
       <1>13
       DEF Next, Running, Deciding, Reader, Mapping, Embedder

\* A turn that ends was reading, unless the session was closed.
LEMMA TurnEndings ==
    ASSUME Inv, [Next]_vars, NEW u \in Tasks, kind[u] = "turn", result[u] = "none",
           result'[u] # "none"
    PROVE  u = holder /\ (pc \in Reading \/ state = "closed")
  <1> DEFINE Goal == u = holder /\ (pc \in Reading \/ state = "closed")
  <1> SUFFICES Goal
    OBVIOUS
  <1>0. /\ TypedTasks /\ TypedCoroutine /\ Placed /\ result \in [Tasks -> Results]
        /\ holder \in 0..MaxTasks
    BY DEF Inv, TypedTasks
  <1>1. ASSUME result' = result
        PROVE  Goal
    BY <1>1
  <1>2. ASSUME pc # "idle", GivesUp
        PROVE  u = holder
    <2>1. PICK r \in Ended : Release(r)
      BY <1>2 DEF GivesUp
    <2>2. holder \in Tasks /\ result' = [result EXCEPT ![holder] = r]
      BY <1>0, <1>2, <2>1, HolderFacts DEF Release
    <2> QED BY <1>0, <2>2
  <1>3. CASE StartFails \/ SendRefused
    <2>1. pc # "idle" /\ Fails
      BY <1>3 DEF StartFails, SendRefused
    <2>2. u = holder \/ result' = result
      BY <1>0, <1>2, <1>3, <2>1, GivingUp DEF TurnCloses, tasks
    <2>3. kind[holder] = "turn" => result' = result
      BY <2>1 DEF Fails, tasks
    <2> QED BY <2>2, <2>3
  <1>4. CASE ReadTerminal \/ AuditEnds
    <2>1. pc \in {"read", "auditing"} /\ (GivesUp \/ result' = result)
      BY <1>0, <1>4, GivingUp DEF tasks
    <2> QED BY <1>2, <2>1 DEF Reading, Holding
  <1>5. CASE RunEnds
    <2>1. pc # "idle" /\ GivesUp
      BY <1>0, <1>5, GivingUp
    <2> QED BY <1>2, <1>5, <2>1 DEF RunEnds
  <1>6. CASE CompactNotStarted \/ CompactTimesOut \/ CompactReads
    <2>1. pc \in CompactPlaces /\ pc # "idle" /\ (GivesUp \/ result' = result)
      BY <1>0, <1>6, GivingUp DEF CompactPlaces, tasks
    <2>2. kind[holder] = "compact"
      BY <1>0, <2>1 DEF Placed
    <2> QED BY <1>2, <2>1, <2>2
  <1> HIDE DEF Goal
  <1>7. CASE EnsureStarted \/ SendTurn \/ SendCompact \/ TurnSent \/ TurnNotSent
             \/ ReadEvent \/ Interrupted
    BY <1>1, <1>7 DEF EnsureStarted, SendTurn, SendCompact, TurnSent,
       TurnNotSent,
       ReadEvent, Interrupted, tasks
  <1>8. CASE Answer \/ AnswerFails \/ CancelTurn \/ InterruptFails \/ GraceExpires
             \/ RunFails \/ LastInterrupt \/ CloseByTurn \/ Close
    BY <1>1, <1>8 DEF Answer, AnswerFails, CancelTurn, InterruptFails,
       GraceExpires,
       RunFails, LastInterrupt, CloseByTurn, Close, tasks
  <1>9. CASE CompactSent \/ CompactBound \/ ReadResponse \/ RejectFrame \/ EndClose
    BY <1>1, <1>9 DEF CompactSent, CompactBound, ReadResponse, RejectFrame,
       EndClose,
       tasks
  <1>10. CASE Mapping \/ Server \/ UNCHANGED vars
    BY <1>1, <1>10, MappingRest, ServerFrame DEF tasks, vars
  <1>11. CASE (\E t \in Tasks : RequestCancel(t)) \/ (\E x \in Context : InjectItems(x))
    BY <1>1, <1>11 DEF RequestCancel, InjectItems, tasks
  <1>12. ASSUME NEW t \in Tasks, NEW k \in {"turn", "compact"}, NewTask(t, k)
         PROVE  Goal
    BY <1>1, <1>12 DEF NewTask
  <1> QED
    BY <1>3, <1>4, <1>5, <1>6, <1>7, <1>8, <1>9, <1>10, <1>11, <1>12
       DEF Next, Running, Deciding, Reader, Mapping, Embedder

\* Who has asked to begin and not yet gone on learns of the answer from the
\* reader, or that there is none.
Learns ==
    /\ reader /\ fromServer # <<>> /\ TakesFrame
    /\ msg.f \in {"ok", "refused"} /\ <<msg.op, holder>> \in rpcs /\ msg.t = holder
    /\ reply' = [s |-> IF msg.f = "ok" THEN "ok" ELSE "error", nat |-> msg.nat]
\* That is how the answer comes, or the request was just sent.
LEMMA ReplySteps ==
    ASSUME Inv, [Next]_vars, pc' \in {"starting", "compacting"}
    PROVE  \/ pc = "send" /\ reply' = reply /\ rpcs' = rpcs \cup {<<kind[holder], holder>>}
           \/ /\ pc' = pc /\ holder' = holder /\ rpcs' \subseteq rpcs
              /\ \/ reply' = reply
                 \/ reply' = Failed /\ reader' = FALSE
                 \/ Learns
  <1> DEFINE Goal ==
        \/ pc = "send" /\ reply' = reply /\ rpcs' = rpcs \cup {<<kind[holder], holder>>}
        \/ /\ pc' = pc /\ holder' = holder /\ rpcs' \subseteq rpcs
           /\ \/ reply' = reply
              \/ reply' = Failed /\ reader' = FALSE
              \/ Learns
  <1> SUFFICES Goal
    OBVIOUS
  <1>0. TypedTasks /\ TypedCoroutine /\ Placed
    BY DEF Inv
  <1>1. ASSUME UNCHANGED <<pc, holder, reply>>, rpcs' \subseteq rpcs
        PROVE  Goal
    BY <1>1
  <1>2. ASSUME GivesUp
        PROVE  FALSE
    BY <1>2 DEF GivesUp, Release
  <1>3. CASE SendTurn \/ SendCompact
    BY <1>3 DEF SendTurn, SendCompact, Send, Goto
  <1>4. CASE ReadResponse
    <2>1. /\ reader /\ fromServer # <<>> /\ msg.f \in {"ok", "refused"}
          /\ <<msg.op, msg.t>> \in rpcs /\ rpcs' = rpcs \ {<<msg.op, msg.t>>}
          /\ TakesFrame /\ pc' = pc /\ holder' = holder
      BY <1>4 DEF ReadResponse, Arrived, Consume, TakesFrame, SameServer, seen,
         msg, tasks
    <2>2. CASE pc \in Awaits /\ msg.t = holder
      <3>1. reply' = [s |-> IF msg.f = "ok" THEN "ok" ELSE "error", nat |-> msg.nat]
        BY <1>4, <2>2 DEF ReadResponse
      <3>2. Learns
        BY <2>1, <2>2, <3>1 DEF Learns
      <3> QED BY <2>1, <3>2
    <2>3. CASE ~(pc \in Awaits /\ msg.t = holder)
      <3>1. reply' = reply
        BY <1>4, <2>3 DEF ReadResponse
      <3> QED BY <2>1, <3>1
    <2> QED BY <2>2, <2>3
  <1>5. CASE RejectFrame
    <2>1. /\ reader' = FALSE /\ pc' = pc /\ holder' = holder /\ rpcs' \subseteq rpcs
          /\ reply' \in {reply, Failed}
      BY <1>5 DEF RejectFrame, FailAll, tasks
    <2> QED BY <2>1
  <1>6. CASE EndClose
    <2>1. /\ reader' = FALSE /\ pc' = pc /\ holder' = holder /\ rpcs' \subseteq rpcs
          /\ reply' \in {reply, Failed}
      BY <1>6 DEF EndClose, FailAll, tasks
    <2> QED BY <2>1
  <1>7. CASE StartFails \/ SendRefused
    <2>1. pc' = "closing"
      BY <1>0, <1>2, <1>7, GivingUp DEF TurnCloses
    <2> QED BY <2>1
  <1>8. CASE ReadTerminal \/ AuditEnds
    <2>1. pc' \in {"failing", "auditing"}
      BY <1>0, <1>2, <1>8, GivingUp
    <2> QED BY <2>1
  <1>9. CASE RunEnds \/ CompactNotStarted \/ CompactTimesOut
    BY <1>0, <1>2, <1>9, GivingUp
  <1>10. CASE CompactReads
    <2>1. UNCHANGED coroutine /\ pc = "compact_read"
      BY <1>0, <1>2, <1>10, GivingUp
    <2> QED BY <2>1 DEF coroutine
  <1>11. CASE ReadEvent \/ Interrupted
    <2>1. pc' \in {"asking", "read", "failing"}
      BY <1>11, DeliverFacts DEF ReadEvent, Interrupted
    <2> QED BY <2>1
  <1>12. CASE EnsureStarted \/ TurnSent \/ TurnNotSent
    BY <1>12 DEF EnsureStarted, TurnSent, TurnNotSent, Goto
  <1>13. CASE Answer \/ AnswerFails \/ InterruptFails \/ GraceExpires \/ LastInterrupt
    BY <1>13 DEF Answer, AnswerFails, InterruptFails, GraceExpires,
       LastInterrupt
  <1>14. CASE CancelTurn \/ RunFails
    BY <1>14 DEF CancelTurn, Interrupt, RunFails
  <1>15. CASE CompactSent \/ CompactBound
    BY <1>15 DEF CompactSent, CompactBound, Goto
  <1>16. CASE CloseByTurn \/ Close \/ Mapping \/ Server \/ UNCHANGED vars
    BY <1>1, <1>16, MappingRest, ServerFrame DEF CloseByTurn, Close, tasks,
       coroutine, vars
  <1>17. CASE (\E t \in Tasks : RequestCancel(t)) \/ (\E x \in Context : InjectItems(x))
    BY <1>1, <1>17 DEF RequestCancel, InjectItems, tasks, coroutine
  <1>18. ASSUME NEW t \in Tasks, NEW k \in {"turn", "compact"}, NewTask(t, k)
         PROVE  Goal
    <2>1. pc' = "start" \/ (UNCHANGED <<coroutine, holder>> /\ rpcs' = rpcs)
      BY <1>18 DEF NewTask, Goto
    <2> QED BY <2>1 DEF coroutine
  <1> HIDE DEF Goal
  <1> QED
    BY <1>3, <1>4, <1>5, <1>6, <1>7, <1>8, <1>9, <1>10, <1>11, <1>12, <1>13,
       <1>14,
       <1>15, <1>16, <1>17, <1>18
       DEF Next, Running, Deciding, Reader, Mapping, Embedder

-----------------------------------------------------------------------------
(* The invariant, part by part *)

\* What the host knows stays of native turns that were opened.
LEMMA NamesStep ==
    ASSUME Inv, Orderly, Streams, Sending, Names, Reads, [Next]_vars
    PROVE  Names'
  <1>0. /\ TypedTasks /\ TypedCoroutine /\ TypedCor /\ TypedServer /\ TypedSeen
        /\ Known /\ Named /\ Piping /\ queue \in Seq(Event)
    BY Pipes DEF Inv, TypedOut
  <1>1. \A n \in Issued : n \in Issued'
    BY <1>0, OwnersStay
  <1>2. Mapping => msg.nat \in Issued /\ Found
    BY <1>0, MappingTakes, HeadOrder, MappingFinds DEF TakesFrame
  <1>3. Binds => reply.nat \in Issued
    BY DEF Binds, Reads
  <1>4. queue # <<>> => 1 \in DOMAIN queue
    BY <1>0, EmptySeq, LenProperties
  <1>5. /\ \A n \in Natives : cor'.local[n] # 0 => n \in Issued
        /\ \A t \in Tasks : cor'.native[t] # 0 => cor'.native[t] \in Issued
    <2>1. CASE Mapping
      BY <1>2, <2>1 DEF Found, Names
    <2>2. CASE Starts
      BY <2>2 DEF Starts, SameCor, Names
    <2>3. CASE Binds
      BY <1>3, <2>3 DEF Binds, Names
    <2>4. CASE Drops
      BY <2>4 DEF Drops, SameCor, Names
    <2>5. CASE Rests
      BY <2>5 DEF Rests, Names
    <2> QED BY <2>1, <2>2, <2>3, <2>4, <2>5, CorSteps
  <1>6. \A i \in DOMAIN queue' : queue'[i].turn # 0 => queue'[i].nat \in Issued
    <2>1. CASE Queues(0, 0)
      BY <2>1 DEF Queues, Names
    <2>2. CASE Mapping /\ Queues(from, msg.nat)
      BY <1>2, <2>2 DEF Queues, Names
    <2>3. CASE Binds /\ Queues(holder, reply.nat)
      BY <1>3, <2>3 DEF Queues, Names
    <2>4. CASE pc = "asking" /\ Queues(held.turn, held.nat)
      BY <2>4 DEF Queues, Names, Holding
    <2> QED BY <2>1, <2>2, <2>3, <2>4, QueueSteps
  <1>7. pc' \in Holding /\ held'.turn # 0 => held'.nat \in Issued
    <2> SUFFICES ASSUME pc' \in Holding, held'.turn # 0
                 PROVE  held'.nat \in Issued
      OBVIOUS
    <2>1. pc' \in Reading /\ pc' # "read"
      BY DEF Reading, Holding
    <2>2. \/ pc \in Holding /\ held' = held
          \/ pc = "read" /\ queue # <<>> /\ held' = queue[1]
      BY <2>1, ReadingSteps DEF Binds
    <2> QED BY <1>4, <2>2 DEF Names
  <1>8. last'.to # 0 => last'.event.nat \in Issued
    <2>1. CASE last' = last
      BY <2>1 DEF Names
    <2>2. CASE last' # last
      <3>1. holder # 0
        BY <2>2, GivenSteps DEF Tasks
      <3> QED BY <1>4, <2>2, <3>1, GivenSteps DEF Names, Holding
    <2> QED BY <2>1, <2>2
  <1> QED BY <1>1, <1>5, <1>6, <1>7, <1>8 DEF Names

\* A task that is not yet asked for is as good as a fine turn.
LEMMA NotYetKnown ==
    ASSUME Inv, Mentions, Turns, NEW u \in Tasks, kind[u] # "compact"
    PROVE  Fine(u)
  <1>0. TypedTasks /\ Named /\ Placed /\ u # 0
    BY DEF Inv, Tasks
  <1>1. CASE kind[u] = "turn"
    BY <1>1 DEF Turns
  <1>2. CASE kind[u] = "none"
    <2>1. ~Mentioned(u)
      BY <1>2 DEF Mentions, Past
    <2>2. \A i \in DOMAIN queue : queue[i].turn # u
      BY <1>0, <1>2 DEF Named, Fits
    <2>3. Unseen(u) /\ cor.native[u] = 0
      BY <2>1, <2>2 DEF Mentioned, Refers, Unseen
    <2>4. result[u] = "none"
      BY <1>0, <1>2 DEF Placed
    <2> QED BY <2>3, <2>4 DEF Fine, Clean, Unseen
  <1> QED BY <1>0, <1>1, <1>2 DEF TypedTasks

\* A frame that is found to be of a turn bound to a native turn of its own is.
LEMMA FoundTurn ==
    ASSUME Inv, Lined, Settled, Orderly, Streams, Mentions, Sending, Names, Turns,
           Mapping, [Next]_vars,
           NEW u \in Tasks, from = u, kind[u] # "compact", Clean(u)'
    PROVE  /\ owner[msg.nat] = u /\ kind[u] = "turn" /\ reader
           /\ cor.native[u] # 0 => Clean(u)
  <1>0. /\ TypedTasks /\ TypedCor /\ TypedServer /\ TypedSeen /\ Known /\ Fine(u)
        /\ TakesFrame /\ msg.nat # 0 /\ u # 0
    BY NotYetKnown, MappingTakes DEF Inv, Tasks
  <1>1. Found
    BY <1>0, MappingFinds
  <1>2. /\ owner[msg.nat] \in Tasks /\ Live(owner[msg.nat]) /\ msg.nat \in Issued
        /\ owner' = owner
    BY <1>0, HeadOrder DEF TakesFrame, SameServer
  <1>3. cor.native[u] # 0 => Clean(u)
    BY CleanStays
  <1>4. kind[u] = "turn" /\ reader
    BY <1>0, <1>1 DEF Found, Known, TypedTasks
  <1>5. CASE cor.local[msg.nat] # 0
    <2>1. cor'.native[u] = cor.native[u] /\ cor.local[msg.nat] = u /\ msg.nat \in Natives
      BY <1>1, <1>5 DEF Found
    <2>2. Clean(u)
      BY <1>3, <2>1 DEF Clean
    <2> QED BY <1>0, <1>3, <1>4, <2>1, <2>2 DEF Fine, Mine
  <1>6. CASE cor.local[msg.nat] = 0 /\ cor.starting = 0
    <2>1. cor'.native[u] = cor.native[u] /\ cor.active = u
      BY <1>1, <1>6 DEF Found
    <2>2. Clean(u)
      BY <1>3, <2>1 DEF Clean
    <2> QED BY <1>0, <1>2, <1>3, <1>4, <2>1, <2>2 DEF Fine, Alone
  <1>7. CASE cor.local[msg.nat] = 0 /\ cor.starting # 0
    <2>1. cor'.native[u] = msg.nat
      BY <1>1, <1>7 DEF Found
    <2> QED BY <1>2, <1>3, <1>4, <2>1 DEF Clean
  <1> QED BY <1>5, <1>6, <1>7

\* What is bound or queued for a turn names native turns of its own.
LEMMA MineStep ==
    ASSUME Inv, Lined, Settled, Orderly, Streams, Mentions, Sending, Names, Turns, Reads,
           [Next]_vars, NEW u \in Tasks, kind[u] # "compact", Clean(u)'
    PROVE  Mine(u)'
  <1>0. /\ TypedTasks /\ TypedCor /\ TypedServer /\ TypedSeen /\ Known /\ Fine(u) /\ Named
        /\ Piping /\ u # 0
    BY NotYetKnown, Pipes DEF Inv, Tasks
  <1>1. \A n \in Issued : owner'[n] = owner[n]
    BY <1>0, OwnersStay
  <1>2. cor.native[u] # 0 => Mine(u)
    BY <1>0, CleanStays DEF Fine
  <1>3. /\ \A n \in Natives : cor.local[n] = u => owner[n] = u /\ n \in Issued
        /\ \A i \in DOMAIN queue : queue[i].turn = u =>
              owner[queue[i].nat] = u /\ queue[i].nat \in Issued
    BY <1>0, <1>2 DEF Fine, Mine, Unseen, Names
  <1>4. Mapping => Found /\ msg.nat \in Issued
    BY <1>0, MappingTakes, HeadOrder, MappingFinds DEF TakesFrame
  <1>5. Mapping /\ from = u => owner[msg.nat] = u
    BY FoundTurn
  <1>6. Binds => reply.nat \in Issued /\ owner[reply.nat] = holder
    BY DEF Binds, Reads
  <1>7. ASSUME NEW n \in Natives, cor'.local[n] = u
        PROVE  owner[n] = u /\ n \in Issued
    <2>1. CASE Mapping
      BY <1>3, <1>4, <1>5, <1>7, <2>1 DEF Found
    <2>2. CASE Starts
      BY <1>3, <1>7, <2>2 DEF Starts, SameCor
    <2>3. CASE Binds
      BY <1>3, <1>6, <1>7, <2>3 DEF Binds
    <2>4. CASE Drops
      BY <1>3, <1>7, <2>4 DEF Drops, SameCor
    <2>5. CASE Rests
      BY <1>3, <1>7, <2>5 DEF Rests
    <2> QED BY <2>1, <2>2, <2>3, <2>4, <2>5, CorSteps
  <1>8. ASSUME NEW i \in DOMAIN queue', queue'[i].turn = u
        PROVE  owner[queue'[i].nat] = u /\ queue'[i].nat \in Issued
    <2>1. CASE Queues(0, 0)
      BY <1>0, <1>3, <1>8, <2>1 DEF Queues
    <2>2. CASE Mapping /\ Queues(from, msg.nat)
      BY <1>0, <1>3, <1>4, <1>5, <1>8, <2>2 DEF Queues
    <2>3. CASE Binds /\ Queues(holder, reply.nat)
      BY <1>0, <1>3, <1>6, <1>8, <2>3 DEF Queues
    <2>4. CASE pc = "asking" /\ Queues(held.turn, held.nat)
      <3>1. held.turn = holder /\ pc \in Holding
        BY <1>0, <2>4 DEF Named, Holding
      <3>2. u = holder => owner[held.nat] = u /\ held.nat \in Issued
        BY <1>0, <3>1 DEF Reads, Names
      <3> QED BY <1>0, <1>3, <1>8, <2>4, <3>1, <3>2 DEF Queues
    <2> QED BY <2>1, <2>2, <2>3, <2>4, QueueSteps
  <1> QED BY <1>1, <1>7, <1>8 DEF Mine

\* Nothing refers to a turn that is not bound, but that it is starting.
LEMMA UnseenStep ==
    ASSUME Inv, Lined, Settled, Orderly, Streams, Mentions, Sending, Names, Turns, Reads,
           [Next]_vars, NEW u \in Tasks, kind[u] # "compact", cor'.native[u] = 0
    PROVE  Unseen(u)'
  <1>0. /\ TypedTasks /\ TypedCor /\ TypedServer /\ TypedSeen /\ Known /\ Fine(u) /\ Named
        /\ u # 0 /\ 0 \notin Natives
    BY NotYetKnown DEF Inv, Tasks, Natives
  <1>1. cor.native[u] = 0 /\ Unseen(u)
    BY <1>0, CleanStays DEF Fine
  <1>2. Mapping => Found /\ from # u /\ (FoundGoing \/ FoundEnded)
    <2> SUFFICES ASSUME Mapping
                 PROVE  Found /\ from # u /\ (FoundGoing \/ FoundEnded)
      OBVIOUS
    <2>1. Found /\ (FoundGoing \/ FoundEnded)
      BY <1>0, MappingFinds
    <2>2. from # u
      BY <1>0, <1>1, <2>1 DEF Found, Unseen
    <2> QED BY <2>1, <2>2
  <1>3. Binds => holder # u
    BY <1>0 DEF Binds
  <1>4. /\ \A n \in Natives : cor'.local[n] # u
        /\ cor'.active # u /\ u \notin cor'.completed
    <2>1. CASE Mapping
      BY <1>0, <1>1, <1>2, <2>1 DEF Found, FoundGoing, FoundEnded, Unseen
    <2>2. CASE Starts
      BY <1>1, <2>2 DEF Starts, SameCor, Unseen
    <2>3. CASE Binds
      BY <1>1, <1>3, <2>3 DEF Binds, Unseen
    <2>4. CASE Drops
      BY <1>1, <2>4 DEF Drops, SameCor, Unseen
    <2>5. CASE Rests
      BY <1>1, <2>5 DEF Rests, Unseen
    <2> QED BY <2>1, <2>2, <2>3, <2>4, <2>5, CorSteps
  <1>5. \A i \in DOMAIN queue' : queue'[i].turn # u
    <2>1. CASE Queues(0, 0)
      BY <1>0, <1>1, <2>1 DEF Queues, Unseen
    <2>2. CASE Mapping /\ Queues(from, msg.nat)
      BY <1>0, <1>1, <1>2, <2>2 DEF Queues, Unseen
    <2>3. CASE Binds /\ Queues(holder, reply.nat)
      BY <1>0, <1>1, <1>3, <2>3 DEF Queues, Unseen
    <2>4. CASE pc = "asking" /\ Queues(held.turn, held.nat)
      <3>1. held.turn = holder /\ Clean(holder)
        BY <1>0, <2>4 DEF Named, Holding, Reading, Reads
      <3> QED BY <1>0, <1>1, <2>4, <3>1 DEF Queues, Unseen, Clean
    <2> QED BY <2>1, <2>2, <2>3, <2>4, QueueSteps
  <1> QED BY <1>4, <1>5 DEF Unseen

\* A request is sent when no turn is active, and then none is.
LEMMA SendsIdle ==
    ASSUME Inv, Sending, [Next]_vars, Sends
    PROVE  Starts
  <1>0. /\ TypedTasks /\ TypedCor /\ TypedServer /\ Known
        /\ cor.starting = 0 /\ cor'.starting # 0
    BY DEF Inv, Sends, Tasks
  <1>1. ~Mapping
    BY <1>0, MappingFinds DEF Found
  <1> QED BY <1>0, <1>1, CorSteps DEF Binds, Drops, Rests

\* An active turn is live alone.
LEMMA AloneStep ==
    ASSUME Inv, Lined, Settled, Orderly, Streams, Mentions, Sending, Names, Turns, Reads,
           [Next]_vars, NEW u \in Tasks, kind[u] # "compact", cor'.active = u, Clean(u)'
    PROVE  Alone(u)'
  <1>0. /\ TypedTasks /\ TypedCor /\ TypedServer /\ TypedSeen /\ Known /\ Fine(u) /\ u # 0
    BY NotYetKnown DEF Inv, Tasks
  <1>1. ~Sends
    BY <1>0, SendsIdle DEF Sends, Starts, SameCor
  <1>2. \A t \in Tasks : Live(t)' => Live(t)
    BY <1>1, ReachStep
  <1>3. cor.active = u => Alone(u)
    BY <1>0, CleanStays DEF Fine, Unseen
  <1>4. Alone(u)
    <2>1. CASE Mapping
      <3>1. Found /\ (FoundGoing \/ FoundEnded) /\ TakesFrame /\ msg.nat # 0
        BY <1>0, <2>1, MappingFinds, MappingTakes
      <3>2. CASE from = u
        <4>1. owner[msg.nat] = u /\ kind[u] = "turn" /\ reader
          BY <2>1, <3>2, FoundTurn
        <4>2. Live(u) /\ \A t \in Tasks : Live(t) => u <= t
          BY <3>1, <4>1, HeadOrder DEF TakesFrame
        <4> QED BY <4>1, <4>2, OnlyHolder
      <3>3. CASE from # u
        BY <1>0, <1>3, <3>1, <3>3 DEF FoundGoing, FoundEnded
      <3> QED BY <3>2, <3>3
    <2>2. CASE Starts
      BY <1>3, <2>2 DEF Starts, SameCor
    <2>3. CASE Binds
      BY <1>3, <2>3 DEF Binds, Reads
    <2>4. CASE Drops
      BY <1>3, <2>4 DEF Drops, SameCor
    <2>5. CASE Rests
      BY <1>3, <2>5 DEF Rests
    <2> QED BY <2>1, <2>2, <2>3, <2>4, <2>5, CorSteps
  <1> QED BY <1>2, <1>4 DEF Alone

\* A turn whose end was read is no longer live.
LEMMA CompletedStep ==
    ASSUME Inv, Lined, Settled, Orderly, Streams, Mentions, Sending, Names, Turns, Reads,
           [Next]_vars, NEW u \in Tasks, kind[u] # "compact", u \in cor'.completed, Clean(u)'
    PROVE  ~Live(u)'
  <1>0. /\ TypedTasks /\ TypedCor /\ TypedServer /\ TypedSeen /\ Known /\ Fine(u) /\ u # 0
    BY NotYetKnown DEF Inv, Tasks
  <1>1. CASE u \in cor.completed
    <2>1. ~Live(u)
      BY <1>0, <1>1, CleanStays DEF Fine, Unseen
    <2>2. ~(Sends /\ u = holder)
      <3>1. Past(u)
        BY <1>1 DEF Mentions, Mentioned
      <3> QED BY <1>0, <3>1 DEF Past, Sends, Tasks
    <2> QED BY <2>1, <2>2, ReachStep
  <1>2. CASE u \notin cor.completed
    <2>1. Mapping
      BY <1>2, CorSteps DEF Starts, Binds, Drops, Rests, SameCor
    <2>2. Found /\ (FoundGoing \/ FoundEnded)
      BY <1>0, <2>1, MappingFinds
    <2>3. from = u /\ msg.f \in TerminalEvents
      BY <1>2, <2>2 DEF Found, FoundGoing, FoundEnded
    <2>4. owner[msg.nat] = u
      BY <2>1, <2>3, FoundTurn
    <2> QED BY <2>1, <2>3, <2>4, HeadEnds
  <1> QED BY <1>1, <1>2

\* What is known of turns stays true.
LEMMA TurnsStep ==
    ASSUME Inv, Lined, Settled, Heard', Settled', Orderly, Streams, Mentions, Sending, Names, Turns,
           Reads, [Next]_vars
    PROVE  Turns'
  <1> SUFFICES ASSUME NEW u \in Tasks, kind'[u] = "turn"
               PROVE  Fine(u)'
    BY DEF Turns
  <1>0. kind[u] # "compact" /\ TypedTasks
    BY KindStays DEF Inv
  <1>1. Clean(u)' => Mine(u)'
    BY <1>0, MineStep
  <1>2. cor'.native[u] = 0 => Unseen(u)'
    BY <1>0, UnseenStep
  <1>3. cor'.active = u /\ Clean(u)' => Alone(u)'
    BY <1>0, AloneStep
  <1>4. u \in cor'.completed /\ Clean(u)' => ~Live(u)'
    BY <1>0, CompletedStep
  <1>5. ASSUME result'[u] # "none"
        PROVE  state' = "closed" \/ (u \in cor'.completed /\ Clean(u)')
    <2>1. state' = "closed" \/ u \in cor'.completed
      BY <1>5 DEF Heard
    <2>2. state = "closed" \/ Clean(u)
      <3>1. CASE result[u] # "none"
        BY <1>0, <3>1, NotYetKnown DEF Fine
      <3>2. CASE result[u] = "none"
        <4>1. kind[u] = "turn"
          <5>1. kind' = kind \/ result' = result
            BY <1>0, LockSteps, NewTaskFacts DEF LockStays, LockPasses, Inv
          <5> QED BY <1>0, <1>5, <3>2, <5>1 DEF TypedTasks
        <4>2. u = holder /\ (pc \in Reading \/ state = "closed")
          BY <1>5, <3>2, <4>1, TurnEndings
        <4> QED BY <4>2 DEF Reads
      <3> QED BY <3>1, <3>2
    <2>3. Clean(u) => Clean(u)'
      BY CleanStays DEF Clean
    <2>4. state = "closed" => state' = "closed"
      BY SettledStep
    <2> QED BY <2>1, <2>2, <2>3, <2>4
  <1> QED BY <1>1, <1>2, <1>3, <1>4, <1>5 DEF Fine

\* What the holder reads stays of its own native turns.
LEMMA ReadsStep ==
    ASSUME Inv, Lined, Settled, Orderly, Streams, Mentions, Sending, Names, Turns, Reads,
           Prompt, [Next]_vars
    PROVE  Reads'
  <1>0. /\ TypedTasks /\ TypedCoroutine /\ TypedOut /\ TypedCor /\ TypedServer /\ TypedSeen
        /\ Placed /\ Asked /\ Named /\ Piping /\ queue \in Seq(Event)
    BY Pipes DEF Inv, TypedOut
  <1>1. \A n \in Issued : n \in Issued' /\ owner'[n] = owner[n]
    BY <1>0, OwnersStay
  <1>2. pc \in TurnPlaces => holder \in Tasks /\ holder # 0 /\ kind[holder] = "turn"
    <2>1. pc \in TurnPlaces => pc # "idle"
      BY DEF TurnPlaces
    <2> QED BY <1>0, <2>1, HolderFacts DEF Tasks
  <1>3. pc \in Reading => /\ pc \in TurnPlaces /\ Clean(holder) /\ Mine(holder)
                          /\ cor.native[holder] \in Issued
    <2>1. pc \in Reading => pc \in TurnPlaces /\ Clean(holder)
      BY DEF Reads, Reading, Holding, TurnPlaces
    <2> QED BY <1>2, <2>1 DEF Turns, Fine, Names, Clean
  <1>4. queue # <<>> => 1 \in DOMAIN queue
    BY <1>0, EmptySeq, LenProperties
  <1>5. Binds => /\ holder \in Tasks /\ reply.nat \in Issued /\ owner[reply.nat] = holder
                 /\ holder' = holder
    BY DEF Binds, Reads, tasks
  <1>6. ASSUME pc' \in Reading
        PROVE  cor'.native[holder'] # 0 /\ owner'[cor'.native[holder']] = holder'
    <2>1. CASE Binds
      <3>1. reply.nat # 0 /\ cor'.native[holder] = reply.nat
        BY <2>1 DEF Binds, Natives
      <3> QED BY <1>1, <1>5, <2>1, <3>1
    <2>2. CASE pc \in Reading /\ holder' = holder
      <3>1. holder \in Tasks /\ Clean(holder)
        BY <1>2, <1>3, <2>2
      <3>2. cor'.native[holder] = cor.native[holder]
        BY <3>1, CleanStays DEF Clean
      <3> QED BY <1>1, <1>3, <2>2, <3>1, <3>2 DEF Clean
    <2> QED BY <1>6, <2>1, <2>2, ReadingSteps
  <1>7. ASSUME pc' \in Holding, held'.turn = holder'
        PROVE  owner'[held'.nat] = holder'
    <2>1. pc' \in Reading /\ pc' # "read"
      BY <1>7 DEF Reading, Holding
    <2>2. pc \in Reading /\ holder' = holder
      BY <2>1, ReadingSteps DEF Binds
    <2>3. /\ held'.turn # 0
          /\ \/ pc \in Holding /\ held' = held
             \/ pc = "read" /\ queue # <<>> /\ held' = queue[1]
      BY <1>2, <1>3, <1>7, <2>1, <2>2, ReadingSteps DEF Binds
    <2>4. owner[held'.nat] = holder /\ held'.nat \in Issued
      BY <1>3, <1>4, <1>7, <2>2, <2>3 DEF Reads, Names, Mine
    <2> QED BY <1>1, <2>2, <2>4
  <1>8. ASSUME pc' = "starting", reply'.s = "ok"
        PROVE  /\ reply'.nat \in Issued' /\ owner'[reply'.nat] = holder'
               /\ \A t \in Tasks : Live(t)' => t = holder'
    <2>1. pc # "send"
      <3>1. pc = "send" => reply = NoReply
        BY <1>0 DEF Asked
      <3>2. NoReply.s = "none"
        BY DEF NoReply
      <3>3. pc = "send" => reply' = reply
        BY <1>8, ReplySteps
      <3> QED BY <1>8, <3>1, <3>2, <3>3
    <2>2. /\ pc = "starting" /\ holder' = holder
          /\ reply' = reply \/ reply' = Failed \/ Learns
      BY <1>8, <2>1, ReplySteps
    <2>3. /\ reply'.nat \in Issued /\ owner[reply'.nat] = holder /\ Alone(holder)
      <3>1. CASE reply' = reply
        BY <1>8, <2>2, <3>1 DEF Reads
      <3>2. CASE reply' = Failed
        BY <1>8, <3>2 DEF Failed
      <3>3. CASE Learns
        <4>1. /\ msg.f = "ok" /\ reply'.nat = msg.nat /\ fromServer # <<>> /\ reader
              /\ <<msg.op, holder>> \in rpcs /\ msg.t = holder
          BY <1>8, <3>3 DEF Learns
        <4>2. msg.op = "turn"
          BY <1>0, <2>2, <4>1 DEF Asked
        <4>3. 1 \in DOMAIN fromServer /\ msg = fromServer[1]
          BY <1>0, <4>1, HeadFrame, LenProperties DEF TypedServer
        <4>4. msg.nat # 0 /\ owner[msg.nat] = holder /\ msg.nat \in Issued
          BY <4>1, <4>2, <4>3 DEF Streams, Sound, Begins
        <4>5. holder \in Tasks /\ kind[holder] = "turn"
          BY <1>2, <2>2 DEF TurnPlaces
        <4>6. Live(holder) /\ \A t \in Tasks : Live(t) => holder <= t
          BY <4>1, <4>4, HeadOrder
        <4> QED BY <4>1, <4>4, <4>5, <4>6, OnlyHolder
      <3> QED BY <2>2, <3>1, <3>2, <3>3
    <2>4. \A t \in Tasks : Live(t)' => t = holder
      BY <2>3, ReachStep DEF Alone
    <2> QED BY <1>1, <2>2, <2>3, <2>4
  <1>9. ASSUME last'.to # 0
        PROVE  /\ last'.event.turn = last'.to
               /\ \/ owner'[last'.event.nat] = last'.to
                  \/ late' /\ kind'[last'.to] = "compact"
    <2>1. CASE last' = last
      <3>1. last.to \in Tasks /\ kind[last.to] # "none" /\ last.event.nat \in Issued
        BY <1>0, <1>9, <2>1 DEF TypedSeen, Placed, Names, Tasks
      <3>2. kind'[last.to] = kind[last.to]
        BY <3>1, KindStays
      <3> QED BY <1>1, <1>9, <2>1, <3>1, <3>2, LateGrows DEF Reads
    <2>2. CASE last' # last
      <3>1. holder \in Tasks /\ holder # 0 /\ last'.to = holder /\ last'.event.turn = holder
        BY <2>2, GivenSteps DEF Tasks
      <3>2. CASE /\ pc = "read" /\ queue # <<>> /\ queue[1].turn = holder
                 /\ last'.event.nat = queue[1].nat
        BY <1>1, <1>3, <1>4, <3>1, <3>2 DEF Reading, Mine, Names
      <3>3. CASE /\ pc = "compact_read" /\ queue # <<>> /\ queue[1].turn = holder
                 /\ last'.event.nat = queue[1].nat
        <4>1. kind[holder] = "compact"
          BY <1>0, <3>3 DEF Placed, CompactPlaces
        <4>2. kind'[holder] = "compact"
          BY <3>1, <4>1, KindStays
        <4>3. CASE late
          BY <3>1, <4>2, <4>3, LateGrows
        <4>4. CASE ~late
          BY <1>1, <1>4, <3>1, <3>3, <4>4 DEF Prompt, Names
        <4> QED BY <4>3, <4>4
      <3>4. CASE /\ pc \in {"auditing", "interrupting"} /\ held.turn = holder
                 /\ last'.event.nat = held.nat
        BY <1>1, <3>1, <3>4 DEF Holding, Reads, Names
      <3> QED BY <2>2, <3>1, <3>2, <3>3, <3>4, GivenSteps
    <2> QED BY <2>1, <2>2
  <1>10. ASSUME pc' = "starting", reply'.s = "ok"
         PROVE  Alone(holder)'
    BY <1>8, <1>10 DEF Alone
  <1> QED BY <1>6, <1>7, <1>8, <1>9, <1>10 DEF Reads, Clean

\* A compaction that was refused is not on its way to the app-server.
LEMMA RefusalsStep ==
    ASSUME Inv, Settled, Orderly, Streams, Mentions, Sending, Refusals, [Next]_vars
    PROVE  Refusals'
  <1>0. /\ TypedTasks /\ TypedCoroutine /\ TypedOut /\ TypedServer
        /\ Placed /\ Asked /\ rpcs \subseteq Ops \X Tasks
    BY DEF Inv, TypedOut
  <1>1. CASE pc' # "compacting"
    BY <1>1 DEF Refusals
  <1>2. CASE pc' = "compacting" /\ pc = "send"
    <2>1. reply' = reply /\ rpcs' = rpcs \cup {<<kind[holder], holder>>}
      BY <1>2, ReplySteps
    <2>2. reply = NoReply /\ \A r \in rpcs : r[2] # holder
      BY <1>0, <1>2 DEF Asked
    <2>3. kind[holder] = "compact" /\ holder' = holder
      <3>1. CASE Starts
        BY <1>2, <3>1 DEF Starts, Sends, tasks
      <3>2. ~Mapping /\ ~Binds /\ ~Drops /\ ~Rests
        BY <1>2, MappingFrame DEF Inv, Binds, Drops, Rests, Requesting,
           coroutine
      <3> QED BY <3>1, <3>2, CorSteps
    <2> QED BY <2>1, <2>2, <2>3 DEF Refusals, NoReply
  <1>3. CASE pc' = "compacting" /\ pc # "send"
    <2>1. /\ pc = "compacting" /\ holder' = holder /\ rpcs' \subseteq rpcs
          /\ reply' = reply \/ reader' = FALSE \/ Learns
      BY <1>3, ReplySteps
    <2>2. holder \in Tasks
      BY <1>0, <2>1, HolderFacts
    <2>3. OnWire(holder)' => OnWire(holder)
      BY <1>3, <2>1, <2>2, ReachStep DEF Sends
    <2>4. reader' => reader
      BY <2>1, ReaderSteps
    <2>5. ASSUME reply'.s = "error", reader'
          PROVE  ~OnWire(holder)
      <3>1. CASE reply' = reply
        BY <2>1, <2>4, <2>5, <3>1 DEF Refusals
      <3>2. CASE Learns
        <4>1. /\ msg.f = "refused" /\ fromServer # <<>>
              /\ <<msg.op, holder>> \in rpcs /\ msg.t = holder
          BY <2>5, <3>2 DEF Learns
        <4>2. msg.op = "compact"
          BY <2>1, <4>1 DEF Refusals
        <4>3. 1 \in DOMAIN fromServer /\ msg = fromServer[1]
          BY <1>0, <4>1, HeadFrame, LenProperties DEF TypedServer
        <4> QED BY <4>1, <4>2, <4>3 DEF Streams, Sound, Begins
      <3> QED BY <2>1, <2>5, <3>1, <3>2
    <2> QED BY <2>1, <2>3, <2>5 DEF Refusals
  <1> QED BY <1>1, <1>2, <1>3

\* As long as no compaction was given up on, the session knows who is live.
LEMMA PromptFrame ==
    ASSUME Inv, Orderly, Streams, Sending, Prompt, Mapping, ~late
    PROVE  /\ owner[msg.nat] = from /\ msg.nat \in Issued
           /\ \A t \in Tasks : Live(t) => t = from
           /\ cor.active = 0 \/ cor.active = from
           /\ cor.starting = 0 \/ cor.starting = from
  <1>0. /\ TypedTasks /\ TypedCor /\ TypedServer /\ Known /\ TakesFrame /\ msg.nat # 0
    BY MappingTakes DEF Inv
  <1>1. Found
    BY <1>0, MappingFinds
  <1> DEFINE o == owner[msg.nat]
  <1>2. o \in Tasks /\ Live(o) /\ msg.nat \in Issued /\ reader
    BY <1>0, <1>1, HeadOrder DEF TakesFrame, Found
  <1>3. \A t \in Tasks : Live(t) => t = o
    BY <1>2 DEF Prompt
  <1>4. IF cor.active # 0 THEN o = cor.active
        ELSE o = cor.starting \/ (o = holder /\ kind[o] = "turn" /\ pc = "closing")
    BY <1>2 DEF Prompt
  <1>5. /\ cor.starting # 0 /\ cor.active # 0 => cor.starting = cor.active
        /\ cor.starting # 0 => pc # "closing"
        /\ cor.local[msg.nat] # 0 => cor.local[msg.nat] = o
    BY <1>1 DEF Prompt, Sending, Requesting, Found
  <1>6. from # 0
    BY <1>1 DEF Found, Tasks
  <1> HIDE DEF o
  <1>7. o = from
    BY <1>1, <1>4, <1>5, <1>6 DEF Found
  <1> QED BY <1>2, <1>3, <1>4, <1>5, <1>7 DEF o

\* Nobody is live when a request is sent.
LEMMA NobodyLive ==
    ASSUME Inv, Sending, Prompt, ~late, Sends, NEW t \in Tasks
    PROVE  ~Live(t)
  <1>1. t # 0 /\ pc = "send" /\ reader /\ cor.active = 0 /\ cor.starting = 0
    BY DEF Sends, Tasks
  <1> QED BY <1>1 DEF Prompt

\* Who is live is the active task, or the one whose request is sent.
LEMMA KnownLive ==
    ASSUME Inv, Lined, Settled, Orderly, Streams, Mentions, Sending, Names, Turns, Reads,
           Prompt, Refusals, [Next]_vars, ~late', reader', NEW t \in Tasks, Live(t)'
    PROVE  IF cor'.active # 0 THEN t = cor'.active
           ELSE t = cor'.starting \/ (t = holder' /\ kind'[t] = "turn" /\ pc' = "closing")
  <1>0. /\ TypedTasks /\ TypedCoroutine /\ TypedCor /\ TypedServer /\ Known /\ Placed
        /\ ~late /\ t # 0
    BY LateGrows DEF Inv, Tasks
  <1>1. CASE Sends
    <2>1. t = holder
      BY <1>0, <1>1, NobodyLive, ReachStep
    <2> QED BY <1>1, <2>1, SendsIdle DEF Starts, Sends, SameCor
  <1>2. CASE ~Sends
    <2>1. Live(t)
      BY <1>2, ReachStep
    <2>2. ~(~started /\ pc = "start")
      BY <2>1 DEF Sending, Live, AskedFor, Framed, Served
    <2>3. reader /\ (pc = "closing" => pc' = "closing" /\ holder' = holder)
      BY <2>2, ReaderSteps
    <2>4. IF cor.active # 0 THEN t = cor.active
          ELSE t = cor.starting \/ (t = holder /\ kind[t] = "turn" /\ pc = "closing")
      BY <1>0, <2>1, <2>3 DEF Prompt
    <2>5. kind[t] # "none" /\ kind'[t] = kind[t]
      <3>1. kind[t] # "none"
        BY <2>1, LiveOnWire DEF Mentions, Mentioned, Past
      <3> QED BY <3>1, KindStays
    <2>6. CASE Mapping
      <3>1. Found /\ (FoundGoing \/ FoundEnded)
        BY <1>0, <2>6, MappingFinds
      <3>2. t = from /\ owner[msg.nat] = from
        BY <1>0, <2>1, <2>6, PromptFrame
      <3>3. ~FoundEnded
        BY <2>6, <3>2, HeadEnds DEF FoundEnded
      <3>4. cor'.active \in {cor.active, t} /\ cor'.starting = cor.starting
        BY <3>1, <3>2, <3>3 DEF Found, FoundGoing
      <3> QED BY <1>0, <2>3, <2>4, <2>5, <3>4
    <2>7. CASE Binds
      <3>1. holder \in Tasks /\ kind[holder] = "turn" /\ t = holder
        BY <2>1, <2>7 DEF Binds, Reads, Alone
      <3>2. holder \notin cor.completed
        <4>1. Fine(holder) /\ owner[reply.nat] = holder
          BY <2>7, <3>1 DEF Turns, Binds, Reads
        <4>2. holder \in cor.completed => Clean(holder)
          BY <2>7, <4>1 DEF Binds, Fine, Unseen, Clean
        <4> QED BY <2>1, <3>1, <4>1, <4>2 DEF Fine
      <3> QED BY <1>0, <2>7, <3>1, <3>2 DEF Binds
    <2>8. CASE Drops
      <3>1. CASE cor.active # 0
        BY <2>4, <2>8, <3>1 DEF Drops, SameCor
      <3>2. CASE cor.active = 0
        <4>1. t = holder
          BY <1>0, <2>4, <2>8, <3>2 DEF Drops, Sending, Requesting
        <4>2. ~(pc = "binding" /\ cor.native[holder] # 0)
          <5>1. pc = "binding" => kind[holder] = "compact"
            BY <1>0 DEF Placed, CompactPlaces
          <5> QED BY <1>0, <2>1, <3>2, <4>1, <5>1 DEF Prompt
        <4>3. ~(pc = "compacting" /\ reply.s = "error")
          BY <2>1, <2>3, <4>1, LiveOnWire DEF Refusals
        <4>4. pc = "starting" /\ pc' = "closing" /\ holder' = holder
          BY <2>8, <4>2, <4>3 DEF Drops, tasks
        <4>5. kind[holder] = "turn"
          BY <1>0, <4>4 DEF Placed, TurnPlaces
        <4> QED BY <2>5, <2>8, <3>2, <4>1, <4>4, <4>5 DEF Drops, SameCor
      <3> QED BY <3>1, <3>2
    <2>9. CASE Rests
      BY <2>3, <2>4, <2>5, <2>9 DEF Rests
    <2>10. CASE Starts
      BY <1>2, <2>10 DEF Starts
    <2> QED BY <2>6, <2>7, <2>8, <2>9, <2>10, CorSteps
  <1> QED BY <1>1, <1>2

\* What is bound or queued is of the task that the native turn was opened for.
LEMMA KnownOwners ==
    ASSUME Inv, Orderly, Streams, Sending, Names, Reads, Prompt, [Next]_vars, ~late'
    PROVE  /\ \A n \in Natives : cor'.local[n] # 0 => cor'.local[n] = owner'[n]
           /\ \A i \in DOMAIN queue' : queue'[i].turn # 0 =>
                owner'[queue'[i].nat] = queue'[i].turn
  <1>0. /\ TypedTasks /\ TypedCor /\ TypedServer /\ TypedSeen /\ Known /\ Named /\ Piping
        /\ ~late
    BY LateGrows, Pipes DEF Inv
  <1>1. \A n \in Issued : owner'[n] = owner[n]
    BY <1>0, OwnersStay
  <1>2. Mapping => Found /\ owner[msg.nat] = from /\ msg.nat \in Issued
    BY <1>0, PromptFrame, MappingFinds
  <1>3. Binds => owner[reply.nat] = holder /\ reply.nat \in Issued
    BY DEF Binds, Reads
  <1>4. /\ \A n \in Natives : cor.local[n] # 0 => cor.local[n] = owner'[n]
        /\ \A i \in DOMAIN queue : queue[i].turn # 0 => owner'[queue[i].nat] = queue[i].turn
    BY <1>0, <1>1 DEF Prompt, Names
  <1>5. \A n \in Natives : cor'.local[n] # 0 => cor'.local[n] = owner'[n]
    <2>1. CASE Mapping
      BY <1>1, <1>2, <1>4, <2>1 DEF Found
    <2>2. CASE Starts
      BY <1>4, <2>2 DEF Starts, SameCor
    <2>3. CASE Binds
      BY <1>1, <1>3, <1>4, <2>3 DEF Binds
    <2>4. CASE Drops
      BY <1>4, <2>4 DEF Drops, SameCor
    <2>5. CASE Rests
      BY <1>4, <2>5 DEF Rests
    <2> QED BY <2>1, <2>2, <2>3, <2>4, <2>5, CorSteps
  <1>6. \A i \in DOMAIN queue' : queue'[i].turn # 0 => owner'[queue'[i].nat] = queue'[i].turn
    <2>1. CASE Queues(0, 0)
      BY <1>4, <2>1 DEF Queues
    <2>2. CASE Mapping /\ Queues(from, msg.nat)
      BY <1>1, <1>2, <1>4, <2>2 DEF Queues
    <2>3. CASE Binds /\ Queues(holder, reply.nat)
      BY <1>1, <1>3, <1>4, <2>3 DEF Queues
    <2>4. CASE pc = "asking" /\ Queues(held.turn, held.nat)
      <3>1. held.turn = holder /\ (held.turn # 0 => owner'[held.nat] = held.turn)
        BY <1>0, <1>1, <2>4 DEF Named, Holding, Reads, Names
      <3> QED BY <1>4, <2>4, <3>1 DEF Queues
    <2> QED BY <2>1, <2>2, <2>3, <2>4, QueueSteps
  <1> QED BY <1>5, <1>6

\* A compaction that is bound or announced is the active task.
LEMMA KnownCompaction ==
    ASSUME Inv, Lined, Orderly, Streams, Mentions, Sending, Reads, Prompt,
           [Next]_vars, ~late', NEW t \in Tasks, kind'[t] = "compact", Live(t)'
    PROVE  /\ cor'.native[t] # 0 \/ t \in cor'.compacting => cor'.active = t
           /\ t = cor'.starting => t \in cor'.compactions
  <1>0. /\ TypedTasks /\ TypedCor /\ TypedServer /\ Known /\ ~late /\ t # 0
    BY LateGrows DEF Inv, Tasks
  <1>1. CASE Sends
    <2>1. Starts /\ t = holder
      BY <1>0, <1>1, NobodyLive, ReachStep, SendsIdle
    <2>2. ~Mentioned(t)
      <3>1. ~Past(t)
        BY <1>0, <1>1, <2>1 DEF Past, Sends, Tasks
      <3> QED BY <3>1 DEF Mentions
    <2>3. kind[holder] = "compact"
      BY <1>1, <2>1 DEF Sends, tasks
    <2> QED BY <2>1, <2>2, <2>3 DEF Starts, SameCor, Mentioned
  <1>2. CASE ~Sends
    <2>1. Live(t)
      BY <1>2, ReachStep
    <2>2. kind[t] = "compact"
      <3>1. kind[t] # "none"
        BY <2>1, LiveOnWire DEF Mentions, Mentioned, Past
      <3> QED BY <3>1, KindStays
    <2>3. /\ cor.native[t] # 0 \/ t \in cor.compacting => cor.active = t
          /\ t = cor.starting => t \in cor.compactions
      BY <1>0, <2>1, <2>2 DEF Prompt
    <2>4. CASE Mapping
      <3>1. Found /\ (FoundGoing \/ FoundEnded)
        BY <1>0, <2>4, MappingFinds
      <3>2. t = from /\ owner[msg.nat] = from
        BY <1>0, <2>1, <2>4, PromptFrame
      <3>3. ~FoundEnded
        BY <2>4, <3>2, HeadEnds DEF FoundEnded
      <3>4. /\ cor'.active \in {cor.active, t} /\ cor'.starting = cor.starting
            /\ cor.compactions \subseteq cor'.compactions
        BY <3>1, <3>2, <3>3 DEF Found, FoundGoing
      <3>5. CASE msg.f = "compacted" \/ (msg.f = "started" /\ t \in cor.compactions)
        BY <2>3, <3>1, <3>2, <3>3, <3>4, <3>5 DEF FoundGoing
      <3>6. CASE msg.f = "started" /\ t \notin cor.compactions
        <4>1. cor'.compacting = cor.compacting
          BY <3>1, <3>2, <3>3, <3>6 DEF FoundGoing
        <4>2. cor'.native[t] = cor.native[t]
          BY <1>0, <2>3, <3>1, <3>2, <3>6 DEF Found
        <4> QED BY <2>3, <3>4, <4>1, <4>2
      <3>7. CASE msg.f \in {"item", "ask"}
        <4>1. 1 \in DOMAIN fromServer /\ msg = fromServer[1]
          BY <1>0, <2>4, HeadFrame, MappingFrame, LenProperties DEF TypedServer
        <4>2. kind[owner[msg.nat]] = "turn"
          BY <3>7, <4>1 DEF Streams, Sound
        <4> QED BY <2>2, <3>2, <4>2
      <3> QED BY <3>1, <3>3, <3>5, <3>6, <3>7 DEF FoundGoing
    <2>5. CASE Starts
      BY <1>2, <2>5 DEF Starts
    <2>6. CASE Binds
      <3>1. t = holder
        BY <2>1, <2>6 DEF Binds, Reads, Alone
      <3> QED BY <2>2, <2>6, <3>1 DEF Binds
    <2>7. CASE Drops
      BY <1>0, <2>3, <2>7 DEF Drops, SameCor
    <2>8. CASE Rests
      BY <2>3, <2>8 DEF Rests
    <2> QED BY <2>4, <2>5, <2>6, <2>7, <2>8, CorSteps
  <1> QED BY <1>1, <1>2

\* One task is live at a time, and known.
LEMMA PromptStep ==
    ASSUME Inv, Lined, Settled, Orderly, Streams, Mentions, Sending, Names, Turns, Reads,
           Prompt, Refusals, [Next]_vars
    PROVE  Prompt'
  <1> SUFFICES ASSUME ~late' PROVE Prompt'
    BY DEF Prompt
  <1>0. TypedTasks /\ TypedCor /\ TypedServer /\ Known /\ ~late
    BY LateGrows DEF Inv
  <1>1. \A t, u \in Tasks : Live(t)' /\ Live(u)' => t = u
    <2>1. CASE Sends
      BY <1>0, <2>1, NobodyLive, ReachStep
    <2>2. CASE ~Sends
      BY <1>0, <2>2, ReachStep DEF Prompt
    <2> QED BY <2>1, <2>2
  <1>2. ASSUME cor'.starting # 0, cor'.active # 0
        PROVE  cor'.starting = cor'.active
    <2>1. CASE Mapping
      <3>1. Found /\ cor'.active \in {0, cor.active, from}
        BY <1>0, <2>1, MappingFinds DEF FoundGoing, FoundEnded
      <3> QED BY <1>0, <1>2, <2>1, <3>1, PromptFrame DEF Found
    <2>2. CASE Starts
      BY <1>2, <2>2 DEF Starts, Sends, SameCor
    <2>3. CASE Binds
      BY <1>2, <2>3 DEF Binds
    <2>4. CASE Drops
      BY <1>2, <2>4 DEF Drops
    <2>5. CASE Rests
      BY <1>0, <1>2, <2>5 DEF Rests, Prompt
    <2> QED BY <2>1, <2>2, <2>3, <2>4, <2>5, CorSteps
  <1>3. ASSUME NEW t \in Tasks, reader', Live(t)'
        PROVE  IF cor'.active # 0 THEN t = cor'.active
               ELSE t = cor'.starting \/ (t = holder' /\ kind'[t] = "turn" /\ pc' = "closing")
    BY <1>3, KnownLive
  <1>4. /\ \A n \in Natives : cor'.local[n] # 0 => cor'.local[n] = owner'[n]
        /\ \A i \in DOMAIN queue' : queue'[i].turn # 0 =>
             owner'[queue'[i].nat] = queue'[i].turn
    BY KnownOwners
  <1>5. ASSUME NEW t \in Tasks, kind'[t] = "compact", Live(t)'
        PROVE  /\ cor'.native[t] # 0 \/ t \in cor'.compacting => cor'.active = t
               /\ t = cor'.starting => t \in cor'.compactions
    BY <1>5, KnownCompaction
  <1> QED BY <1>1, <1>2, <1>3, <1>4, <1>5 DEF Prompt

\* A compaction completes or fails.
LEMMA CompactsStep ==
    ASSUME Inv, Compacts, [Next]_vars
    PROVE  Compacts'
  <1> SUFFICES ASSUME NEW u \in Tasks, result'[u] = "cancelled"
               PROVE  kind'[u] = "turn"
    BY DEF Compacts
  <1>0. /\ TypedTasks /\ TypedCoroutine /\ Placed /\ result \in [Tasks -> Results]
    BY DEF Inv, TypedTasks
  <1>1. ASSUME result[u] = "cancelled" \/ (u = holder /\ kind[u] = "turn")
        PROVE  kind'[u] = "turn"
    BY <1>1, KindStays DEF Compacts
  <1>2. ASSUME result' = result
        PROVE  kind'[u] = "turn"
    BY <1>1, <1>2
  <1>3. ASSUME NEW r \in {"error", "completed"}, Release(r)
        PROVE  kind'[u] = "turn"
    <2>1. result'[u] = result[u] \/ result'[u] = r
      BY <1>0, <1>3 DEF Release
    <2> QED BY <1>1, <1>3, <2>1
  <1>4. ASSUME pc \in TurnPlaces, GivesUp
        PROVE  kind'[u] = "turn"
    <2>1. PICK r \in Ended : Release(r)
      BY <1>4 DEF GivesUp
    <2>2. kind[holder] = "turn"
      BY <1>0, <1>4 DEF Placed
    <2>3. u = holder \/ result'[u] = result[u]
      BY <1>0, <2>1 DEF Release
    <2> QED BY <1>1, <2>2, <2>3
  <1>5. CASE StartFails \/ SendRefused
    <2>1. Fails
      BY <1>5 DEF StartFails, SendRefused
    <2>2. result' = result \/ Release("error")
      BY <2>1 DEF Fails, tasks
    <2> QED BY <1>2, <1>3, <2>2
  <1>6. CASE ReadTerminal \/ AuditEnds \/ RunEnds
    <2>1. pc \in TurnPlaces /\ (GivesUp \/ result' = result)
      BY <1>0, <1>6, GivingUp DEF TurnPlaces, tasks
    <2> QED BY <1>2, <1>4, <2>1
  <1>7. CASE CompactNotStarted \/ CompactTimesOut \/ CompactReads
    <2>1. Release("error") \/ Release("completed") \/ result' = result
      BY <1>7 DEF CompactNotStarted, CompactTimesOut, CompactReads, tasks
    <2> QED BY <1>2, <1>3, <2>1
  <1>8. CASE EnsureStarted \/ SendTurn \/ SendCompact \/ TurnSent \/ TurnNotSent
             \/ ReadEvent \/ Interrupted
    BY <1>2, <1>8 DEF EnsureStarted, SendTurn, SendCompact, TurnSent,
       TurnNotSent,
       ReadEvent, Interrupted, tasks
  <1>9. CASE Answer \/ AnswerFails \/ CancelTurn \/ InterruptFails \/ GraceExpires
             \/ RunFails \/ LastInterrupt \/ CloseByTurn \/ Close
    BY <1>2, <1>9 DEF Answer, AnswerFails, CancelTurn, InterruptFails,
       GraceExpires,
       RunFails, LastInterrupt, CloseByTurn, Close, tasks
  <1>10. CASE CompactSent \/ CompactBound \/ ReadResponse \/ RejectFrame \/ EndClose
    BY <1>2, <1>10 DEF CompactSent, CompactBound, ReadResponse, RejectFrame,
       EndClose,
       tasks
  <1>11. CASE Mapping \/ Server \/ UNCHANGED vars
    BY <1>2, <1>11, MappingRest, ServerFrame DEF tasks, vars
  <1>12. CASE (\E t \in Tasks : RequestCancel(t)) \/ (\E x \in Context : InjectItems(x))
    BY <1>2, <1>12 DEF RequestCancel, InjectItems, tasks
  <1>13. ASSUME NEW t \in Tasks, NEW k \in {"turn", "compact"}, NewTask(t, k)
         PROVE  kind'[u] = "turn"
    BY <1>2, <1>13 DEF NewTask
  <1> QED
    BY <1>5, <1>6, <1>7, <1>8, <1>9, <1>10, <1>11, <1>12, <1>13
       DEF Next, Running, Deciding, Reader, Mapping, Embedder

\* Nothing is in the pipes and nothing is known.
LEMMA WiredInit == Init => Wired
  <1> SUFFICES ASSUME Init PROVE Wired
    OBVIOUS
  <1>1. /\ holder = 0 /\ pc = "idle" /\ queue = <<>> /\ toServer = <<>> /\ fromServer = <<>>
        /\ srv.nat = 0 /\ srv.next = 1 /\ reader = FALSE /\ started = FALSE
        /\ state = "new" /\ last.to = 0 /\ cor = NoTurns
        /\ \A t \in Tasks : kind[t] = "none" /\ result[t] = "none"
    BY DEF Init
  <1>2. /\ cor.starting = 0 /\ cor.active = 0 /\ cor.compacting = {} /\ cor.completed = {}
        /\ \A t \in Tasks : cor.native[t] = 0
        /\ \A n \in Natives : cor.local[n] = 0
    BY <1>1 DEF NoTurns
  <1>3. /\ DOMAIN toServer = {} /\ DOMAIN fromServer = {} /\ DOMAIN queue = {} /\ Issued = {}
    BY <1>1 DEF Issued
  <1>4. Orderly /\ Streams
    BY <1>1, <1>3 DEF Orderly, Streams
  <1>5. \A t \in Tasks : ~Live(t) /\ ~OnWire(t) /\ ~Mentioned(t)
    BY <1>1, <1>2, <1>3 DEF Live, AskedFor, Framed, Served, OnWire, Mentioned,
       Answered,
       Refers, Tasks
  <1>6. Mentions /\ Sending
    BY <1>1, <1>2, <1>5 DEF Mentions, Sending, Requesting
  <1>7. Names
    BY <1>1, <1>2, <1>3 DEF Names, Holding
  <1>8. Turns /\ Compacts
    BY <1>1 DEF Turns, Compacts
  <1>9. Reads /\ Refusals
    BY <1>1 DEF Reads, Refusals, Reading, Holding
  <1>10. Prompt
    BY <1>1, <1>2, <1>3, <1>5 DEF Prompt
  <1> QED BY <1>4, <1>6, <1>7, <1>8, <1>9, <1>10 DEF Wired

\* The invariant of the two pipes and of what is known of what goes through
\* them holds in every reachable state.
THEOREM StaysWired == Spec => []Wired
  <1>1. Inv /\ InOrder /\ InOrder' /\ Wired /\ [Next]_vars => Wired'
    <2> SUFFICES ASSUME Inv, InOrder, InOrder', Wired, [Next]_vars PROVE Wired'
      OBVIOUS
    <2>1. Lined /\ Settled /\ Heard' /\ Settled'
      BY DEF InOrder
    <2>2. /\ Orderly /\ Streams /\ Mentions /\ Sending /\ Names /\ Turns /\ Reads
          /\ Prompt /\ Refusals /\ Compacts
      BY DEF Wired
    <2>3. Orderly' /\ Streams' /\ Mentions' /\ Sending'
      BY <2>1, <2>2, OrderlyStep, StreamsStep, MentionsStep, SendingStep
    <2>4. Names' /\ Turns' /\ Reads'
      BY <2>1, <2>2, NamesStep, TurnsStep, ReadsStep
    <2>5. Prompt' /\ Refusals' /\ Compacts'
      BY <2>1, <2>2, PromptStep, RefusalsStep, CompactsStep
    <2> QED BY <2>3, <2>4, <2>5 DEF Wired
  <1> QED BY <1>1, WiredInit, ConversationInvariant, StaysInOrder, PTL DEF Spec

\* A sink only sees events of its own task, of the native turns that were opened
\* for it; a compaction that follows one given up on is the one exception.
THEOREM OwnEvents == Spec => []OwnEventsOnly
  <1>1. Wired => OwnEventsOnly
    BY DEF Wired, Reads, OwnEventsOnly
  <1> QED BY <1>1, StaysWired, PTL

\* A turn that was reported cancelled is not worked on any more.
THEOREM CancelledOver == Spec => []CancelledIsOver
  <1>1. Inv /\ InOrder /\ Wired => CancelledIsOver
    <2> SUFFICES ASSUME Inv, InOrder, Wired, NEW t \in Tasks, result[t] = "cancelled",
                        srv.up, srv.nat # 0, owner[srv.nat] = t
                 PROVE  FALSE
      BY DEF CancelledIsOver
    <2>1. Fine(t)
      BY DEF Wired, Compacts, Turns
    <2>2. state # "closed"
      BY DEF InOrder, Settled
    <2>3. Live(t)
      BY DEF Live, Served
    <2> QED BY <2>1, <2>2, <2>3 DEF Fine
  <1> QED BY <1>1, StaysWired, StaysInOrder, ConversationInvariant, PTL

\* The app-server is asked to begin only when it is at no native turn, unless a
\* compaction was given up on.
THEOREM OneTurnAtATime == Spec => []OneNativeTurn
  <1>1. Inv /\ Wired => OneNativeTurn
    <2> SUFFICES ASSUME Inv, Wired, toServer # <<>>, req.op \in {"turn", "compact"}, ~late,
                        srv.nat # 0
                 PROVE  FALSE
      BY DEF OneNativeTurn
    <2>0. TypedServer /\ Orderly /\ Streams /\ Prompt
      BY DEF Inv, Wired
    <2>1. 1 \in DOMAIN toServer /\ req = toServer[1] /\ req.t \in Tasks
      BY <2>0, HeadRequest, LenProperties DEF TypedServer
    <2>2. Begins(toServer[1]) /\ srv.nat \in Issued
      BY <2>0, <2>1, LiveOnWire DEF Begins
    <2>3. owner[srv.nat] < req.t /\ owner[srv.nat] \in Tasks
      BY <2>0, <2>1, <2>2 DEF Orderly
    <2>4. Live(req.t) /\ Live(owner[srv.nat])
      BY <2>1, <2>2 DEF Live, AskedFor, Served
    <2>5. req.t = owner[srv.nat]
      BY <2>0, <2>1, <2>3, <2>4 DEF Prompt
    <2> QED BY <2>1, <2>3, <2>5, Bounded DEF Tasks
  <1> QED BY <1>1, StaysWired, ConversationInvariant, PTL

=============================================================================
