-------------------------- MODULE ControlPlane_proofs --------------------------
(***************************************************************************)
(* What the control plane guarantees of a remote run for every set of      *)
(* approval requests, every budget and every bound: its types, that a      *)
(* terminal session is final, that a container left running is reported,   *)
(* and that it implements RemoteRun.  None of these is inductive alone: an *)
(* append that was checked earlier may still show a request, a revocation  *)
(* may come before the activation it should follow, and the result that    *)
(* completes the session was written by another actor.  Inv says where the *)
(* background run, the route, the agent and its appends may be together.   *)
(***************************************************************************)
EXTENDS ControlPlane, TLAPS

\* Where the background run is before the agent's command has started.
Before == {"new", "activate", "mark", "stage", "exec"}

\* The session has a status as soon as the run was accepted, is terminal once
\* the cancel route has gone on from it, and has nothing pending then; the
\* command starts in a session that was marked running, and once.
Life ==
    /\ worker = "new" <=> session.status = "none"
    /\ route # "idle" => terminal
    /\ terminal => session.pending = {}
    /\ worker \in {"stage", "exec", "wait", "complete"} \/ agent # "off"
          => session.status \notin {"none", "queued"}
    /\ agent # "off" => worker \notin Before

\* An agent that has ended left a result, and a result that is read stays.
Bundled == agent = "exited" \/ worker = "complete" => result # "none"

\* Before the command has started nothing was asked, answered or admitted.
Quiet ==
    worker \in Before =>
        /\ posts = {} /\ session.pending = {} /\ calls = 0
        /\ \A r \in Requests :
              session.decisions[r] = "none" /\ got[r] = "none"

\* No capability is revoked before its session is over, and none that was is
\* active again for an agent; an active one counts every request let through.
Metered ==
    /\ worker \in {"new", "activate", "mark"} /\ revoked => terminal
    /\ (worker \in {"stage", "exec", "wait", "complete"} \/ agent # "off")
          /\ capability.active => ~revoked
    /\ agent # "off" /\ capability.active => calls <= capability.used

\* A request the agent has not asked for yet.
Fresh(r) ==
    /\ session.decisions[r] = "none" /\ r \notin session.pending
    /\ \A p \in posts : p.kind = "requested" => p.req # r

\* A request is posted once, undecided and not yet shown while the append is
\* on its way, and undecided as long as it is shown; what the agent has not
\* asked for is fresh, and what it polls for has no answer.
Posted ==
    /\ \A p \in posts : p.kind # "other" => p.req \in Requests
    /\ \A p \in posts : p.kind = "requested" =>
          session.decisions[p.req] = "none" /\ p.req \notin session.pending
    /\ \A p, q \in posts :
          p.kind = "requested" /\ q.kind = "requested" /\ p.req = q.req => p = q
    /\ \A r \in session.pending : session.decisions[r] = "none"
Asking ==
    /\ agent \in {"poll", "read", "pending", "answer"} => request \in Requests
    /\ agent \in {"poll", "read", "pending"} => got[request] = "none"
    /\ agent = "answer" => got[request] # "none"
    /\ agent \in {"run", "poll", "read", "pending", "answer"} =>
          \A r \in Requests :
              got[r] = "none" /\ (agent = "run" \/ r # request) => Fresh(r)

\* A container exists for an activated run only, and outlives the run only if
\* its destruction failed.
Contained ==
    /\ worker \in {"mark", "stage", "exec", "wait", "complete"} => activated
    /\ ~activated => container = "none"
    /\ worker = "report" => container = "none" \/ faults >= 1
    /\ worker = "done" =>
          container = "none" \/ session.error = "cleanup_failed" \/ faults >= 2

Inv == /\ TypeOK /\ Life /\ Bundled /\ Quiet /\ Metered /\ Posted /\ Asking
       /\ Contained

-----------------------------------------------------------------------------
(* What the transactions of the RunSession object do to its record *)

Session ==
    [status : Statuses, cancelRequested : BOOLEAN,
     error : {"none", "error", "cleanup_failed"},
     pending : SUBSET Requests, lines : 0..MaxLines,
     decisions : [Requests -> Decisions \cup {"none"}]]

\* A transaction that ends the session, or finds it ended.
Closing ==
    /\ session' \in Session
    /\ session'.status \in TerminalStatus /\ session'.pending = {}
    /\ terminal => session'.status = session.status
    /\ session'.lines = session.lines
    /\ session'.decisions = session.decisions

\* /fail records the error and closes the session.
LEMMA FailCloses ==
    ASSUME session \in Session, NEW code \in {"error", "cleanup_failed"},
           FailSession(code)
    PROVE  Closing /\ session'.error = code
  <1> DEFINE s == IF terminal THEN session.status ELSE "failed"
  <1>1. s \in TerminalStatus /\ s \in Statuses /\ (terminal => s = session.status)
    BY DEF terminal, Statuses, TerminalStatus
  <1>2. session' = [session EXCEPT !.status = s, !.pending = {}, !.error = code]
    BY DEF FailSession
  <1> HIDE DEF s
  <1> QED BY <1>1, <1>2 DEF Closing, Session

\* /cancel closes it.
LEMMA CancelCloses ==
    ASSUME session \in Session, CancelSession
    PROVE  Closing /\ session'.error = session.error
  <1> DEFINE s == IF terminal THEN session.status ELSE "cancelled"
  <1>1. s \in TerminalStatus /\ s \in Statuses /\ (terminal => s = session.status)
    BY DEF terminal, Statuses, TerminalStatus
  <1>2. session' = [session EXCEPT !.status = s, !.cancelRequested = TRUE,
                                   !.pending = {}]
    BY DEF CancelSession
  <1> HIDE DEF s
  <1> QED BY <1>1, <1>2 DEF Closing, Session

\* /complete closes it with the agent's result, once.
LEMMA CompleteCloses ==
    ASSUME session \in Session, terminal => session.pending = {},
           NEW status \in TerminalStatus, CompleteSession(status)
    PROVE  Closing /\ session'.error = session.error
  <1>1. CASE terminal
    BY <1>1 DEF CompleteSession, Closing, terminal
  <1>2. CASE ~terminal
    <2>1. session' = [session EXCEPT !.status = status, !.pending = {}]
      BY <1>2 DEF CompleteSession
    <2>2. status \in Statuses
      BY DEF Statuses
    <2> QED BY <1>2, <2>1, <2>2 DEF Closing, Session
  <1> QED BY <1>1, <1>2

\* A transaction that marks the session running, or is refused.
Marking ==
    /\ session' \in Session
    /\ session' # session \/ worker' = "stage"
          => ~terminal /\ session'.status = "running"
    /\ session'.lines = session.lines /\ session'.error = session.error
    /\ session'.pending = session.pending
    /\ session'.decisions = session.decisions

\* /running.
LEMMA MarkKeeps ==
    ASSUME session \in Session, Mark
    PROVE  Marking
  <1>1. Running(session) \in Session
    BY DEF Running, Session, Statuses
  <1>2. \/ session' = session /\ worker' # "stage"
        \/ ~terminal /\ session' = Running(session)
    BY DEF Mark, Fault, Lost
  <1> QED BY <1>1, <1>2 DEF Marking, Running, Session

\* A transaction that appends an event, or refuses it.
Appending(p) ==
    /\ p \in Post /\ (p.kind # "other" => p.req \in Requests)
    /\ \/ session' = session
       \/ /\ session' \in Session /\ ~terminal
          /\ session'.status = session.status
          /\ session'.error = session.error
          /\ session'.decisions = session.decisions
          /\ session'.pending = ApplyApproval(session.pending, p)

\* A transaction that records a decision.
Deciding(r, d) ==
    /\ session' \in Session /\ ~terminal
    /\ session'.status = session.status /\ session'.lines = session.lines
    /\ session'.error = session.error
    /\ r \in session.pending /\ session'.pending = session.pending \ {r}
    /\ session'.decisions = [session.decisions EXCEPT ![r] = d]

\* /append-events of a session that has ended, or has MAX_LIVE_EVENT_LINES
\* lines, changes nothing; otherwise one line and what the event says of a
\* pending approval is new.
LEMMA AppendKeeps ==
    ASSUME session \in Session, NEW p \in Post, AppendEvent(p),
           p.kind # "other" => p.req \in Requests
    PROVE  Appending(p)
  <1> USE DEF Appending
  <1>1. CASE ~Accepts
    BY <1>1 DEF AppendEvent
  <1>2. CASE Accepts
    <2> DEFINE s == ApplyApproval(session.pending, p)
    <2>1. session.pending \in SUBSET Requests /\ session.lines \in 0..MaxLines
      BY DEF Session
    <2>2. s \subseteq Requests
      BY <2>1 DEF ApplyApproval
    <2>3. session.lines + 1 \in 0..MaxLines
      BY <1>2, <2>1, ControlAssumption DEF Accepts, ControlAssumption
    <2>4. session' = [session EXCEPT !.lines = @ + 1, !.pending = s]
      BY <1>2 DEF AppendEvent
    <2> HIDE DEF s
    <2>5. session' \in Session /\ session'.pending = s
      BY <2>2, <2>3, <2>4 DEF Session
    <2> QED BY <1>2, <2>4, <2>5 DEF Accepts, Session, s
  <1> QED BY <1>1, <1>2

\* An operator's decision.
LEMMA DecisionKeeps ==
    ASSUME session \in Session, NEW r \in Requests, NEW d \in Decisions,
           SubmitDecision(r, d)
    PROVE  Deciding(r, d)
  BY DEF SubmitDecision, Deciding, Session
-----------------------------------------------------------------------------
(* Types *)

Capability == [active : BOOLEAN, used : 0..Budget]

\* The conjuncts of TypeOK that are not about the session's record.
Rest ==
    /\ capability \in Capability
    /\ expired \in BOOLEAN /\ activated \in BOOLEAN /\ cleanup \in BOOLEAN
    /\ worker \in Before \cup {"wait", "complete", "catch", "revoke",
                               "destroy", "report", "done", "hung", "dead"}
    /\ route \in {"idle", "revoke", "destroy"}
    /\ container \in {"none", "up"}
    /\ agent \in {"off", "run", "poll", "read", "pending", "answer", "exited"}
    /\ request \in Requests \cup {NoRequest}
    /\ posts \subseteq Post /\ awaited \in 0..sent /\ sent \in Nat
    /\ errors \in Nat /\ faults \in 0..MaxFaults
    /\ result \in {"none", "completed", "failed", "cancelled"}
    /\ got \in [Requests -> Answers]
    /\ calls \in Nat /\ revoked \in BOOLEAN

\* The type invariant is the session's type and the rest.
LEMMA TypeParts == TypeOK <=> session \in Session /\ Rest
  BY DEF TypeOK, Session, Rest, Before, Capability

\* The bounds as natural numbers.
LEMMA Bounds ==
    /\ Budget \in Nat /\ Budget >= 1 /\ MaxLines \in Nat /\ SinkErrors \in Nat
    /\ MaxPosts \in Nat /\ MaxFaults \in Nat
  BY ControlAssumption DEF ControlAssumption

\* Every step leaves the session's record a record of its type.
LEMMA SessionStep ==
    ASSUME Inv, [Next]_vars
    PROVE  session' \in Session
  <1> USE DEF objects
  <1>1. session \in Session /\ Rest
    BY TypeParts DEF Inv
  <1>2. terminal => session.pending = {}
    BY DEF Inv, Life
  <1>3. worker = "complete" => result \in TerminalStatus
    BY <1>1 DEF Inv, Bundled, Rest, TerminalStatus
  <1>4. CASE StartRun
    BY <1>1, <1>4 DEF StartRun, Session, Statuses
  <1>5. CASE Mark
    BY <1>1, <1>5, MarkKeeps DEF Marking
  <1>6. CASE Complete
    BY <1>1, <1>2, <1>3, <1>6, CompleteCloses DEF Complete, Closing
  <1>7. CASE Catch \/ ReportCleanup
    BY <1>1, <1>7, FailCloses DEF Catch, ReportCleanup, Closing
  <1>8. CASE Cancel
    BY <1>1, <1>8, CancelCloses DEF Cancel, Closing
  <1>9. ASSUME NEW r \in Requests, NEW d \in Decisions, SubmitDecision(r, d)
        PROVE  session' \in Session
    BY <1>1, <1>9, DecisionKeeps DEF Deciding
  <1>10. ASSUME NEW p \in posts, AppendPost(p)
         PROVE  session' \in Session
    <2>1. p \in Post /\ (p.kind # "other" => p.req \in Requests)
      BY <1>1 DEF Rest, Inv, Posted
    <2> QED BY <1>1, <1>10, <2>1, AppendKeeps DEF AppendPost, Appending
  <1>11. CASE UNCHANGED session
    BY <1>1, <1>11
  <1>12. Activate \/ Stage \/ Exec \/ ReadResult \/ ExecFails \/ Revoke
          \/ Destroy \/ WorkerDies \/ CancelRevoke \/ CancelDestroy \/ Expire
          => UNCHANGED session
    BY DEF Activate, Stage, Exec, ReadResult, ExecFails, Revoke, Destroy,
           WorkerDies, CancelRevoke, CancelDestroy, Expire
  <1>13. CallModel \/ EmitEvent \/ (\E r \in Requests : AskApproval(r))
          \/ (\E p \in posts : CheckPost(p)) \/ PostTimeout \/ CheckPoll
          \/ ReadPoll \/ PollAgain \/ PollTimeout \/ Resolve \/ AgentExits
          => UNCHANGED session
    BY DEF CallModel, EmitEvent, AskApproval, CheckPost, PostTimeout, CheckPoll,
           ReadPoll, PollAgain, PollTimeout, Resolve, AgentExits
  <1> QED
    BY <1>4, <1>5, <1>6, <1>7, <1>8, <1>9, <1>10, <1>11, <1>12, <1>13
       DEF Next, Background, vars

\* The capability and the counters keep their types where they change.
LEMMA CountersTyped ==
    /\ [active |-> TRUE, used |-> 0] \in Capability
    /\ [active |-> FALSE, used |-> 0] \in Capability
    /\ Rest /\ faults < MaxFaults => faults + 1 \in 0..MaxFaults
  <1>1. 0 \in 0..Budget
    BY Bounds
  <1>2. ASSUME Rest, faults < MaxFaults PROVE faults + 1 \in 0..MaxFaults
    BY <1>2, Bounds DEF Rest
  <1> QED BY <1>1, <1>2 DEF Capability

\* emit() puts at most one append on its way, which the agent waits for.
LEMMA EmitsTyped ==
    ASSUME Rest, NEW kind \in {"requested", "resolved", "other"},
           NEW r \in Requests \cup {NoRequest}, NEW next, Emits(kind, r, next),
           errors \in Nat
    PROVE  /\ posts' \subseteq Post /\ awaited' \in 0..sent' /\ sent' \in Nat
           /\ agent' = next
  <1> DEFINE p == [n |-> sent', kind |-> kind, req |-> r, stage |-> "check"]
  <1>1. posts \subseteq Post /\ awaited \in 0..sent /\ sent \in Nat
    BY DEF Rest
  <1>2. CASE errors < SinkErrors
    <2>1. sent' = sent + 1 /\ awaited' = sent' /\ posts' = posts \cup {p}
          /\ agent' = next
      BY <1>2 DEF Emits
    <2>2. sent' \in Nat \ {0}
      BY <1>1, <2>1
    <2>3. p \in Post
      BY <2>2 DEF Post
    <2> QED BY <1>1, <2>1, <2>2, <2>3
  <1>3. CASE ~(errors < SinkErrors)
    BY <1>1, <1>3 DEF Emits
  <1> QED BY <1>2, <1>3

\* The answer to an append ends the wait for it, and may count as an error.
LEMMA HearsTyped ==
    ASSUME Rest, NEW p, NEW refused \in BOOLEAN, Hears(p, refused)
    PROVE  awaited' \in {0, awaited} /\ awaited' \in 0..sent /\ errors' \in Nat
  <1>1. awaited \in 0..sent /\ sent \in Nat /\ errors \in Nat
    BY DEF Rest
  <1> QED BY <1>1 DEF Hears

\* Every step keeps the other variables typed.
LEMMA RestStep ==
    ASSUME Inv, [Next]_vars
    PROVE  Rest'
  <1> USE Bounds DEF objects, background, sandbox, Before
  <1>0. session \in Session /\ Rest
    BY TypeParts DEF Inv
  <1>1. CASE StartRun
    BY <1>1, <1>0 DEF StartRun, Rest
  <1>2. CASE Activate
    <2>1. capability' \in Capability
      BY <1>0, <1>2, CountersTyped DEF Activate, ActivateCapability, Rest
    <2>2. faults' \in 0..MaxFaults
      BY <1>0, <1>2, CountersTyped DEF Activate, Fault, Lost, Rest
    <2>3. activated' \in BOOLEAN /\ worker' \in {"mark", "catch", "hung"}
      BY <1>0, <1>2 DEF Activate, Fault, Lost, Rest
    <2>4. UNCHANGED <<session, expired, cleanup, route, sandbox, posts, sent, got,
                      calls, revoked>>
      BY <1>2 DEF Activate
    <2> QED BY <1>0, <2>1, <2>2, <2>3, <2>4 DEF Rest
  <1>3. CASE Mark
    BY <1>3, <1>0 DEF Mark, Fault, Lost, Running, terminal, TerminalStatus, Rest
  <1>4. CASE Stage
    BY <1>4, <1>0 DEF Stage, Fault, Lost, Rest
  <1>5. CASE Exec
    BY <1>5, <1>0 DEF Exec, Rest
  <1>6. CASE ReadResult
    BY <1>6, <1>0 DEF ReadResult, Fault, Lost, Rest
  <1>7. CASE ExecFails
    BY <1>7, <1>0 DEF ExecFails, Rest
  <1>8. CASE Complete
    BY <1>8, <1>0 DEF Complete, Fault, Lost, CompleteSession, terminal,
       TerminalStatus, Rest
  <1>9. CASE Catch
    BY <1>0, <1>9, Bounds DEF Catch, Fault, Lost, Rest
  <1>10. CASE Revoke
    <2>1. capability' \in Capability
      BY <1>0, <1>10, CountersTyped DEF Revoke, RevokeCapability, Rest
    <2>2. faults' \in 0..MaxFaults
      BY <1>0, <1>10, CountersTyped DEF Revoke, Fault, Lost, Rest
    <2>3. cleanup' \in BOOLEAN /\ worker' \in {"destroy", "done"}
      BY <1>0, <1>10 DEF Revoke, Fault, Lost, Rest
    <2>4. revoked' \in BOOLEAN
      BY <1>0, <1>10 DEF Revoke, RevokeCapability, Rest
    <2>5. UNCHANGED <<session, expired, activated, route, sandbox, posts, sent,
                      got, calls>>
      BY <1>10 DEF Revoke
    <2> QED BY <1>0, <2>1, <2>2, <2>3, <2>4, <2>5 DEF Rest
  <1>11. CASE Destroy
    <2>1. container' \in {"none", "up"} /\ agent' \in {"off", agent}
          /\ awaited' \in {0, awaited} /\ UNCHANGED <<request, errors, result>>
      BY <1>0, <1>11 DEF Destroy, DestroyContainer, Rest
    <2>2. faults' \in 0..MaxFaults
      BY <1>0, <1>11, CountersTyped DEF Destroy, Fault, Lost, Rest
    <2>3. awaited' \in 0..sent
      BY <1>0, <2>1 DEF Rest
    <2>4. cleanup' \in BOOLEAN /\ worker' \in {"report", "done"}
      BY <1>0, <1>11 DEF Destroy, Fault, Lost, Rest
    <2>5. UNCHANGED <<objects, activated, route, posts, sent, got, calls, revoked>>
      BY <1>11 DEF Destroy
    <2> QED BY <1>0, <2>1, <2>2, <2>3, <2>4, <2>5 DEF Rest
  <1>12. CASE ReportCleanup
    BY <1>12, <1>0 DEF ReportCleanup, Fault, Lost, FailSession, terminal,
       TerminalStatus, Rest
  <1>13. CASE WorkerDies
    BY <1>13, <1>0 DEF WorkerDies, Rest
  <1>14. CASE Cancel
    BY <1>14, <1>0 DEF Cancel, CancelSession, terminal, TerminalStatus, Rest
  <1>15. CASE CancelRevoke
    <2>1. capability' \in Capability
      BY <1>0, <1>15, CountersTyped DEF CancelRevoke, RevokeCapability, Rest
    <2>2. faults' \in 0..MaxFaults
      BY <1>0, <1>15, CountersTyped DEF CancelRevoke, RouteFault, Rest
    <2>3. revoked' \in BOOLEAN /\ route' \in {"destroy", "idle"}
      BY <1>0, <1>15 DEF CancelRevoke, RevokeCapability, RouteFault, Rest
    <2>4. UNCHANGED <<session, expired, background, sandbox, posts, sent, got, calls>>
      BY <1>15 DEF CancelRevoke
    <2> QED BY <1>0, <2>1, <2>2, <2>3, <2>4 DEF Rest
  <1>16. CASE CancelDestroy
    BY <1>16, <1>0 DEF CancelDestroy, RouteFault, DestroyContainer, sandbox,
       Rest
  <1>17. ASSUME NEW r \in Requests, NEW d \in Decisions, SubmitDecision(r, d)
         PROVE  Rest'
    BY <1>17, <1>0 DEF SubmitDecision, terminal, TerminalStatus, Rest
  <1>18. CASE Expire
    BY <1>18, <1>0 DEF Expire, Rest
  <1>19. CASE CallModel
    <2>1. capability' \in Capability
      BY <1>0, <1>19 DEF CallModel, CapabilityOk, ConsumeCapability,
         Capability, Rest
    <2>2. agent' \in {agent, "exited"} /\ result' \in {result, "failed"}
          /\ calls' \in Nat
      BY <1>0, <1>19 DEF CallModel, Rest
    <2>3. UNCHANGED <<session, expired, background, route, container, request,
                      awaited, errors, posts, sent, faults, got, revoked>>
      BY <1>19 DEF CallModel
    <2> QED BY <1>0, <2>1, <2>2, <2>3 DEF Rest
  <1>20. CASE EmitEvent
    <2>1. Emits("other", NoRequest, "run") /\ errors \in Nat
      BY <1>0, <1>20 DEF EmitEvent, Rest
    <2>2. posts' \subseteq Post /\ awaited' \in 0..sent' /\ sent' \in Nat
          /\ agent' = "run"
      BY <1>0, <2>1, EmitsTyped
    <2> QED BY <1>0, <1>20, <2>2 DEF EmitEvent, Rest
  <1>21. ASSUME NEW r \in Requests, AskApproval(r) PROVE Rest'
    BY <1>0, <1>21, EmitsTyped DEF AskApproval, Rest
  <1>22. ASSUME NEW p \in posts, CheckPost(p) PROVE Rest'
    <2>1. p \in Post /\ [p EXCEPT !.stage = "append"] \in Post
      BY <1>0 DEF Rest, Post
    <2>2. posts' \subseteq Post
      BY <1>0, <1>22, <2>1 DEF CheckPost, Rest
    <2>3. awaited' \in 0..sent /\ errors' \in Nat
      BY <1>0, <1>22, HearsTyped DEF CheckPost, Rest
    <2> QED BY <1>0, <1>22, <2>2, <2>3 DEF CheckPost, Rest
  <1>23. ASSUME NEW p \in posts, AppendPost(p) PROVE Rest'
    <2>1. posts' \subseteq Post
      BY <1>0, <1>23 DEF AppendPost, Rest
    <2>2. Hears(p, ~Accepts) /\ (~Accepts) \in BOOLEAN
      BY <1>23 DEF AppendPost, Accepts
    <2>3. awaited' \in 0..sent /\ errors' \in Nat
      BY <1>0, <2>2, HearsTyped
    <2> QED BY <1>0, <1>23, <2>1, <2>3 DEF AppendPost, Rest
  <1>24. CASE PostTimeout
    BY <1>24, <1>0 DEF PostTimeout, Rest
  <1>25. CASE CheckPoll
    BY <1>25, <1>0 DEF CheckPoll, CapabilityOk, Rest
  <1>26. CASE ReadPoll
    <2>1. request \in Requests => session.decisions[request] \in Decisions \cup {"none"}
      BY <1>0 DEF Session
    <2>2. got' \in [Requests -> Answers]
      BY <1>0, <1>26, <2>1 DEF ReadPoll, Rest, Answers, Inv, Asking
    <2> QED BY <1>0, <1>26, <2>2 DEF ReadPoll, Rest
  <1>27. CASE PollAgain \/ PollTimeout
    <2>1. got' \in [Requests -> Answers]
      BY <1>0, <1>27 DEF PollAgain, PollTimeout, Rest, Answers
    <2> QED BY <1>0, <1>27, <2>1 DEF PollAgain, PollTimeout, Rest
  <1>28. CASE Resolve
    <2>1. PICK next \in {"exited", "run"} : Emits("resolved", request, next)
      BY <1>28 DEF Resolve
    <2>2. posts' \subseteq Post /\ awaited' \in 0..sent' /\ sent' \in Nat
          /\ agent' = next
      BY <1>0, <2>1, EmitsTyped DEF Rest
    <2> QED BY <1>0, <1>28, <2>2 DEF Resolve, Rest
  <1>29. CASE AgentExits
    BY <1>29, <1>0 DEF AgentExits, Rest
  <1>30. CASE UNCHANGED vars
    BY <1>0, <1>30 DEF vars, Rest
  <1> QED
    BY <1>1, <1>2, <1>3, <1>4, <1>5, <1>6, <1>7, <1>8, <1>9, <1>10, <1>11,
       <1>12, <1>13, <1>14, <1>15,
       <1>16, <1>17, <1>18, <1>19, <1>20, <1>21, <1>22, <1>23, <1>24, <1>25, <1>26,
       <1>27, <1>28, <1>29, <1>30
       DEF Next, Background
-----------------------------------------------------------------------------
(* What the steps do to the record of the session *)

\* Completion, failure and cancellation end the session or leave it.
LEMMA EndsCloses ==
    ASSUME Inv, Complete \/ Catch \/ ReportCleanup \/ Cancel
    PROVE  Closing \/ session' = session
  <1>1. session \in Session /\ Rest
    BY TypeParts DEF Inv
  <1>2. terminal => session.pending = {}
    BY DEF Inv, Life
  <1>3. worker = "complete" => result \in TerminalStatus
    BY <1>1 DEF Inv, Bundled, Rest, TerminalStatus
  <1>4. CASE Complete
    BY <1>1, <1>2, <1>3, <1>4, CompleteCloses DEF Complete
  <1>5. CASE Catch \/ ReportCleanup
    BY <1>1, <1>5, FailCloses DEF Catch, ReportCleanup
  <1>6. CASE Cancel
    BY <1>1, <1>6, CancelCloses DEF Cancel
  <1> QED BY <1>4, <1>5, <1>6

\* An append on its way is well formed.
LEMMA PostKeeps ==
    ASSUME Inv, NEW p \in posts, AppendPost(p)
    PROVE  Appending(p)
  <1>1. session \in Session /\ p \in Post
    BY TypeParts DEF Inv, Rest
  <1>2. p.kind # "other" => p.req \in Requests
    BY DEF Inv, Posted
  <1>3. AppendEvent(p)
    BY DEF AppendPost
  <1> QED BY <1>1, <1>2, <1>3, AppendKeeps

-----------------------------------------------------------------------------
(* The conjuncts of the invariant, one after the other *)

\* Life: where the run is decides what its session may say.
LEMMA LifeStep ==
    ASSUME Inv, [Next]_vars
    PROVE  Life'
  <1> USE DEF objects, background, sandbox, Life, terminal, TerminalStatus,
              Before, Rest
  <1>0. Rest /\ session \in Session /\ Life
    BY TypeParts DEF Inv
  <1>1. CASE StartRun
    BY <1>0, <1>1 DEF StartRun
  <1>2. CASE Activate
    BY <1>0, <1>2 DEF Activate, ActivateCapability, Fault, Lost
  <1>3. CASE Mark
    <2>1. Marking
      BY <1>0, <1>3, MarkKeeps
    <2> QED BY <1>0, <1>3, <2>1 DEF Mark, Fault, Lost, Running, Marking
  <1>4. CASE Stage \/ Exec \/ ReadResult \/ ExecFails
    BY <1>0, <1>4 DEF Stage, Exec, ReadResult, ExecFails, Fault, Lost
  <1>5. CASE Complete
    <2>1. Closing \/ session' = session
      BY <1>5, EndsCloses
    <2> QED BY <1>0, <1>5, <2>1 DEF Complete, Fault, Lost, Closing
  <1>6. CASE Catch
    <2>1. Closing \/ session' = session
      BY <1>6, EndsCloses
    <2> QED BY <1>0, <1>6, <2>1 DEF Catch, Fault, Lost, Closing
  <1>7. CASE Revoke \/ Destroy
    BY <1>0, <1>7 DEF Revoke, Destroy, Fault, RevokeCapability, DestroyContainer
  <1>8. CASE ReportCleanup
    <2>1. Closing \/ session' = session
      BY <1>8, EndsCloses
    <2> QED BY <1>0, <1>8, <2>1 DEF ReportCleanup, Fault, Lost, Closing
  <1>9. CASE WorkerDies
    BY <1>0, <1>9 DEF WorkerDies
  <1>10. CASE Cancel
    <2>1. Closing
      BY <1>0, <1>10, CancelCloses DEF Cancel
    <2> QED BY <1>0, <1>10, <2>1 DEF Cancel, Closing
  <1>11. CASE CancelRevoke \/ CancelDestroy
    BY <1>0, <1>11 DEF CancelRevoke, CancelDestroy, RouteFault,
       RevokeCapability, DestroyContainer
  <1>12. ASSUME NEW r \in Requests, NEW d \in Decisions, SubmitDecision(r, d)
        PROVE  Life'
    <2>1. Deciding(r, d)
      BY <1>0, <1>12, DecisionKeeps
    <2> QED BY <1>0, <1>12, <2>1 DEF SubmitDecision, Deciding
  <1>13. CASE Expire \/ UNCHANGED vars
    BY <1>0, <1>13 DEF Expire, vars
  <1>14. CASE CallModel \/ EmitEvent \/ (\E r \in Requests : AskApproval(r))
             \/ (\E p \in posts : CheckPost(p))
    BY <1>0, <1>14 DEF CallModel, EmitEvent, AskApproval, CheckPost,
       CapabilityOk, ConsumeCapability, Emits, Hears
  <1>15. ASSUME NEW p \in posts, AppendPost(p)
        PROVE  Life'
    <2>1. Appending(p)
      BY <1>15, PostKeeps
    <2> QED BY <1>0, <1>15, <2>1 DEF AppendPost, Hears, Appending
  <1>16. CASE PostTimeout \/ CheckPoll \/ ReadPoll \/ PollAgain
             \/ PollTimeout \/ Resolve \/ AgentExits
    BY <1>0, <1>16 DEF PostTimeout, CheckPoll, ReadPoll, PollAgain,
       PollTimeout, Resolve, AgentExits, CapabilityOk, Emits
  <1> QED
    BY <1>1, <1>2, <1>3, <1>4, <1>5, <1>6, <1>7, <1>8, <1>9, <1>10, <1>11,
       <1>12, <1>13, <1>14, <1>15, <1>16
       DEF Next, Background

\* Bundled: the agent leaves a result when it exits.
LEMMA BundledStep ==
    ASSUME Inv, [Next]_vars
    PROVE  Bundled'
  <1> USE DEF objects, background, sandbox, Bundled, Emits, DestroyContainer,
              Rest
  <1>0. Rest /\ session \in Session /\ Bundled
    BY TypeParts DEF Inv
  <1>1. CASE StartRun \/ Activate \/ Mark \/ Stage \/ Exec \/ ReadResult
             \/ ExecFails
    BY <1>0, <1>1 DEF StartRun, Activate, Mark, Stage, Exec, ReadResult,
       ExecFails, ActivateCapability, Fault, Lost, Running, terminal, TerminalStatus
  <1>2. CASE Complete \/ Catch \/ Revoke \/ Destroy \/ ReportCleanup
             \/ WorkerDies
    BY <1>0, <1>2 DEF Complete, Catch, Revoke, Destroy, ReportCleanup,
       WorkerDies, Fault, Lost, terminal, TerminalStatus, RevokeCapability
  <1>3. CASE Cancel \/ CancelRevoke \/ CancelDestroy
    BY <1>0, <1>3 DEF Cancel, CancelRevoke, CancelDestroy, terminal,
       TerminalStatus, RouteFault, RevokeCapability
  <1>4. ASSUME NEW r \in Requests, NEW d \in Decisions, SubmitDecision(r, d)
        PROVE  Bundled'
    <2>1. Deciding(r, d)
      BY <1>0, <1>4, DecisionKeeps
    <2> QED BY <1>0, <1>4, <2>1 DEF SubmitDecision, terminal, TerminalStatus,
               Deciding
  <1>5. CASE Expire \/ UNCHANGED vars
    BY <1>0, <1>5 DEF Expire, vars
  <1>6. CASE CallModel \/ EmitEvent \/ (\E r \in Requests : AskApproval(r))
             \/ (\E p \in posts : CheckPost(p))
    BY <1>0, <1>6 DEF CallModel, EmitEvent, AskApproval, CheckPost,
       CapabilityOk, ConsumeCapability, Hears
  <1>7. ASSUME NEW p \in posts, AppendPost(p)
        PROVE  Bundled'
    <2>1. Appending(p)
      BY <1>7, PostKeeps
    <2> QED BY <1>0, <1>7, <2>1 DEF AppendPost, Hears, terminal,
               TerminalStatus, Appending
  <1>8. CASE PostTimeout \/ CheckPoll \/ ReadPoll \/ PollAgain
             \/ PollTimeout \/ Resolve \/ AgentExits
    BY <1>0, <1>8 DEF PostTimeout, CheckPoll, ReadPoll, PollAgain,
       PollTimeout, Resolve, AgentExits, CapabilityOk, terminal, TerminalStatus
  <1> QED
    BY <1>1, <1>2, <1>3, <1>4, <1>5, <1>6, <1>7, <1>8
       DEF Next, Background

\* Quiet: before the command starts the operator and the agent have nothing to do.
LEMMA QuietStep ==
    ASSUME Inv, [Next]_vars
    PROVE  Quiet'
  <1> USE DEF objects, background, sandbox, Quiet, Life, Before, Emits,
              DestroyContainer, Rest
  <1>0. Rest /\ session \in Session /\ Quiet /\ Life
    BY TypeParts DEF Inv
  <1>1. CASE StartRun
    BY <1>0, <1>1 DEF StartRun
  <1>2. CASE Activate
    BY <1>0, <1>2 DEF Activate, ActivateCapability, Fault, Lost
  <1>3. CASE Mark
    <2>1. Marking
      BY <1>0, <1>3, MarkKeeps
    <2> QED BY <1>0, <1>3, <2>1 DEF Mark, Fault, Lost, Running, terminal,
               TerminalStatus, Marking
  <1>4. CASE Stage \/ Exec \/ ReadResult \/ ExecFails
    BY <1>0, <1>4 DEF Stage, Exec, ReadResult, ExecFails, Fault, Lost
  <1>5. CASE Complete
    <2>1. Closing \/ session' = session
      BY <1>5, EndsCloses
    <2> QED BY <1>0, <1>5, <2>1 DEF Complete, Fault, Lost, terminal, TerminalStatus,
               Closing
  <1>6. CASE Catch
    <2>1. Closing \/ session' = session
      BY <1>6, EndsCloses
    <2> QED BY <1>0, <1>6, <2>1 DEF Catch, Fault, Lost, terminal, TerminalStatus,
               Closing
  <1>7. CASE Revoke \/ Destroy
    BY <1>0, <1>7 DEF Revoke, Destroy, Fault, Lost, RevokeCapability
  <1>8. CASE ReportCleanup
    <2>1. Closing \/ session' = session
      BY <1>8, EndsCloses
    <2> QED BY <1>0, <1>8, <2>1 DEF ReportCleanup, Fault, Lost, terminal,
               TerminalStatus, Closing
  <1>9. CASE WorkerDies
    BY <1>0, <1>9 DEF WorkerDies
  <1>10. CASE Cancel
    <2>1. Closing \/ session' = session
      BY <1>10, EndsCloses
    <2> QED BY <1>0, <1>10, <2>1 DEF Cancel, terminal, TerminalStatus, Closing
  <1>11. CASE CancelRevoke \/ CancelDestroy
    BY <1>0, <1>11 DEF CancelRevoke, CancelDestroy, RouteFault, RevokeCapability
  <1>12. ASSUME NEW r \in Requests, NEW d \in Decisions, SubmitDecision(r, d)
        PROVE  Quiet'
    <2>1. Deciding(r, d)
      BY <1>0, <1>12, DecisionKeeps
    <2> QED BY <1>0, <1>12, <2>1 DEF SubmitDecision, terminal, TerminalStatus,
               Deciding
  <1>13. CASE Expire \/ UNCHANGED vars
    BY <1>0, <1>13 DEF Expire, vars
  <1>14. CASE CallModel \/ EmitEvent \/ (\E r \in Requests : AskApproval(r))
             \/ (\E p \in posts : CheckPost(p))
    BY <1>0, <1>14 DEF CallModel, EmitEvent, AskApproval, CheckPost,
       CapabilityOk, ConsumeCapability, Hears
  <1>15. ASSUME NEW p \in posts, AppendPost(p)
        PROVE  Quiet'
    <2>1. Appending(p)
      BY <1>15, PostKeeps
    <2> QED BY <1>0, <1>15, <2>1 DEF AppendPost, Hears, terminal,
               TerminalStatus, Appending
  <1>16. CASE PostTimeout \/ CheckPoll \/ ReadPoll \/ PollAgain
             \/ PollTimeout \/ Resolve \/ AgentExits
    BY <1>0, <1>16 DEF PostTimeout, CheckPoll, ReadPoll, PollAgain,
       PollTimeout, Resolve, AgentExits, CapabilityOk, terminal, TerminalStatus
  <1> QED
    BY <1>1, <1>2, <1>3, <1>4, <1>5, <1>6, <1>7, <1>8, <1>9, <1>10, <1>11,
       <1>12, <1>13, <1>14, <1>15, <1>16
       DEF Next, Background

\* Metered: revoking, activating and consuming keep the count.
LEMMA MeteredStep ==
    ASSUME Inv, [Next]_vars
    PROVE  Metered'
  <1> USE DEF objects, background, sandbox, Metered, Quiet, Life, Before,
              terminal, TerminalStatus, Rest
  <1>0. Rest /\ session \in Session /\ Metered /\ Life /\ Quiet
    BY TypeParts DEF Inv
  <1>1. CASE StartRun
    BY <1>0, <1>1 DEF StartRun
  <1>2. CASE Activate
    BY <1>0, <1>2 DEF Activate, ActivateCapability, Fault, Lost
  <1>3. CASE Mark
    <2>1. Marking
      BY <1>0, <1>3, MarkKeeps
    <2> QED BY <1>0, <1>3, <2>1 DEF Mark, Fault, Lost, Running, Marking
  <1>4. CASE Stage
    BY <1>0, <1>4 DEF Stage, Fault, Lost
  <1>5. CASE Exec
    BY <1>0, <1>5 DEF Exec, Capability
  <1>6. CASE ReadResult
    BY <1>0, <1>6 DEF ReadResult, Fault, Lost
  <1>7. CASE ExecFails
    BY <1>0, <1>7 DEF ExecFails
  <1>8. CASE Complete
    <2>1. Closing \/ session' = session
      BY <1>8, EndsCloses
    <2> QED BY <1>0, <1>8, <2>1 DEF Complete, Fault, Lost, Closing
  <1>9. CASE Catch
    <2>1. Closing \/ session' = session
      BY <1>9, EndsCloses
    <2> QED BY <1>0, <1>9, <2>1 DEF Catch, Fault, Lost, Closing
  <1>10. CASE Revoke
    BY <1>0, <1>10 DEF Revoke, Fault, Lost, RevokeCapability
  <1>11. CASE Destroy
    BY <1>0, <1>11 DEF Destroy, Fault, Lost, DestroyContainer
  <1>12. CASE ReportCleanup
    <2>1. Closing \/ session' = session
      BY <1>12, EndsCloses
    <2> QED BY <1>0, <1>12, <2>1 DEF ReportCleanup, Fault, Lost, Closing
  <1>13. CASE WorkerDies
    BY <1>0, <1>13 DEF WorkerDies
  <1>14. CASE Cancel
    <2>1. Closing \/ session' = session
      BY <1>14, EndsCloses
    <2> QED BY <1>0, <1>14, <2>1 DEF Cancel, Closing
  <1>15. CASE CancelRevoke
    BY <1>0, <1>15 DEF CancelRevoke, RouteFault, RevokeCapability
  <1>16. CASE CancelDestroy
    BY <1>0, <1>16 DEF CancelDestroy, RouteFault, DestroyContainer
  <1>17. ASSUME NEW r \in Requests, NEW d \in Decisions, SubmitDecision(r, d)
        PROVE  Metered'
    <2>1. Deciding(r, d)
      BY <1>0, <1>17, DecisionKeeps
    <2> QED BY <1>0, <1>17, <2>1 DEF SubmitDecision, Deciding
  <1>18. CASE Expire
    BY <1>0, <1>18 DEF Expire
  <1>19. CASE CallModel
    BY <1>0, <1>19 DEF CallModel, CapabilityOk, ConsumeCapability, Capability
  <1>20. CASE EmitEvent
    BY <1>0, <1>20 DEF EmitEvent, Emits
  <1>21. ASSUME NEW r \in Requests, AskApproval(r)
        PROVE  Metered'
    BY <1>0, <1>21 DEF AskApproval, Emits
  <1>22. ASSUME NEW p \in posts, CheckPost(p)
        PROVE  Metered'
    BY <1>0, <1>22 DEF CheckPost, CapabilityOk, Hears
  <1>23. ASSUME NEW p \in posts, AppendPost(p)
        PROVE  Metered'
    <2>1. Appending(p)
      BY <1>23, PostKeeps
    <2> QED BY <1>0, <1>23, <2>1 DEF AppendPost, Hears, Appending
  <1>24. CASE PostTimeout \/ CheckPoll \/ ReadPoll \/ PollAgain
             \/ PollTimeout \/ Resolve \/ AgentExits
    BY <1>0, <1>24 DEF PostTimeout, CheckPoll, ReadPoll, PollAgain,
       PollTimeout, Resolve, AgentExits, CapabilityOk, Emits
  <1>25. CASE UNCHANGED vars
    BY <1>0, <1>25 DEF vars
  <1> QED
    BY <1>1, <1>2, <1>3, <1>4, <1>5, <1>6, <1>7, <1>8, <1>9, <1>10, <1>11,
       <1>12, <1>13, <1>14, <1>15, <1>16, <1>17, <1>18, <1>19, <1>20, <1>21,
       <1>22, <1>23, <1>24, <1>25
       DEF Next, Background

\* Contained: every container is destroyed, or a failure was counted.
LEMMA ContainedStep ==
    ASSUME Inv, [Next]_vars
    PROVE  Contained'
  <1> USE DEF objects, background, sandbox, Contained, Rest
  <1>0. Rest /\ session \in Session /\ Contained
    BY TypeParts DEF Inv
  <1>1. CASE StartRun
    BY <1>0, <1>1 DEF StartRun
  <1>2. CASE Activate
    BY <1>0, <1>2 DEF Activate, ActivateCapability, Fault, Lost
  <1>3. CASE Mark
    <2>1. Marking
      BY <1>0, <1>3, MarkKeeps
    <2> QED BY <1>0, <1>3, <2>1 DEF Mark, Fault, Lost, Running, terminal,
               TerminalStatus, Marking
  <1>4. CASE Stage
    BY <1>0, <1>4 DEF Stage, Fault, Lost
  <1>5. CASE Exec
    BY <1>0, <1>5 DEF Exec
  <1>6. CASE ReadResult
    BY <1>0, <1>6 DEF ReadResult, Fault, Lost
  <1>7. CASE ExecFails
    BY <1>0, <1>7 DEF ExecFails
  <1>8. CASE Complete
    <2>1. Closing \/ session' = session
      BY <1>8, EndsCloses
    <2> QED BY <1>0, <1>8, <2>1 DEF Complete, Fault, Lost, terminal, TerminalStatus,
               Closing
  <1>9. CASE Catch
    BY <1>0, <1>9, Bounds DEF Catch, Fault, Lost, terminal, TerminalStatus
  <1>10. CASE Revoke
    BY <1>0, <1>10 DEF Revoke, Fault, Lost, RevokeCapability
  <1>11. CASE Destroy
    BY <1>0, <1>11 DEF Destroy, Fault, Lost, DestroyContainer
  <1>12. CASE ReportCleanup
    <2>1. FailSession("cleanup_failed") => session'.error = "cleanup_failed"
      BY <1>0, FailCloses
    <2> QED BY <1>0, <1>12, <2>1, Bounds DEF ReportCleanup, Fault, Lost
  <1>13. CASE WorkerDies
    BY <1>0, <1>13 DEF WorkerDies
  <1>14. CASE Cancel
    <2>1. session'.error = session.error
      BY <1>0, <1>14, CancelCloses DEF Cancel
    <2> QED BY <1>0, <1>14, <2>1 DEF Cancel
  <1>15. CASE CancelRevoke
    BY <1>0, <1>15 DEF CancelRevoke, RouteFault, RevokeCapability
  <1>16. CASE CancelDestroy
    BY <1>0, <1>16 DEF CancelDestroy, RouteFault, DestroyContainer
  <1>17. ASSUME NEW r \in Requests, NEW d \in Decisions, SubmitDecision(r, d)
        PROVE  Contained'
    <2>1. Deciding(r, d)
      BY <1>0, <1>17, DecisionKeeps
    <2> QED BY <1>0, <1>17, <2>1 DEF SubmitDecision, terminal, TerminalStatus,
               Deciding
  <1>18. CASE Expire
    BY <1>0, <1>18 DEF Expire
  <1>19. CASE CallModel \/ EmitEvent \/ (\E r \in Requests : AskApproval(r))
             \/ (\E p \in posts : CheckPost(p))
    BY <1>0, <1>19 DEF CallModel, EmitEvent, AskApproval, CheckPost,
       CapabilityOk, ConsumeCapability, Emits, Hears
  <1>20. ASSUME NEW p \in posts, AppendPost(p)
        PROVE  Contained'
    <2>1. Appending(p)
      BY <1>20, PostKeeps
    <2> QED BY <1>0, <1>20, <2>1 DEF AppendPost, Hears, terminal,
               TerminalStatus, Appending
  <1>21. CASE PostTimeout \/ CheckPoll \/ ReadPoll \/ PollAgain
             \/ PollTimeout \/ Resolve \/ AgentExits
    BY <1>0, <1>21 DEF PostTimeout, CheckPoll, ReadPoll, PollAgain,
       PollTimeout, Resolve, AgentExits, CapabilityOk, terminal,
       TerminalStatus, Emits
  <1>22. CASE UNCHANGED vars
    BY <1>0, <1>22 DEF vars
  <1> QED
    BY <1>1, <1>2, <1>3, <1>4, <1>5, <1>6, <1>7, <1>8, <1>9, <1>10, <1>11,
       <1>12, <1>13, <1>14, <1>15, <1>16, <1>17, <1>18, <1>19, <1>20, <1>21,
       <1>22
       DEF Next, Background

-----------------------------------------------------------------------------
(* Approvals *)

\* A step that shows, posts and decides nothing.
Narrowing ==
    /\ posts' \subseteq posts
    /\ session'.decisions = session.decisions
    /\ session'.pending \subseteq session.pending

\* Such a step keeps the approvals posted and fresh.
LEMMA NarrowingKeeps ==
    ASSUME Posted, Narrowing
    PROVE  Posted' /\ (\A r \in Requests : Fresh(r) => Fresh(r)')
  BY DEF Posted, Narrowing, Fresh

\* Every step of the Worker and of the cancel route is one, and so is every
\* step of the agent that emits no event.
LEMMA NarrowSteps ==
    ASSUME Inv,
           \/ Background \/ WorkerDies \/ Cancel \/ CancelRevoke \/ CancelDestroy
           \/ Expire \/ CallModel \/ PostTimeout \/ CheckPoll \/ ReadPoll
           \/ PollAgain \/ PollTimeout \/ AgentExits \/ UNCHANGED vars
    PROVE  Narrowing
  <1> USE DEF Narrowing, objects
  <1>0. session \in Session
    BY TypeParts DEF Inv
  <1>1. CASE UNCHANGED session /\ UNCHANGED posts
    BY <1>1
  <1>2. Activate \/ Stage \/ Exec \/ ReadResult \/ ExecFails \/ Revoke
          \/ Destroy \/ WorkerDies \/ CancelRevoke \/ CancelDestroy \/ Expire
          => UNCHANGED session /\ UNCHANGED posts
    BY DEF Activate, Stage, Exec, ReadResult, ExecFails, Revoke, Destroy,
           WorkerDies, CancelRevoke, CancelDestroy, Expire
  <1>3. CallModel \/ PostTimeout \/ CheckPoll \/ ReadPoll \/ PollAgain
          \/ PollTimeout \/ AgentExits \/ UNCHANGED vars
          => UNCHANGED session /\ UNCHANGED posts
    BY DEF CallModel, PostTimeout, CheckPoll, ReadPoll, PollAgain,
           PollTimeout, AgentExits, vars
  <1>4. CASE StartRun
    BY <1>0, <1>4 DEF StartRun, Session
  <1>5. CASE Mark
    BY <1>0, <1>5, MarkKeeps DEF Mark, Marking
  <1>6. CASE Complete \/ Catch \/ ReportCleanup \/ Cancel
    <2>1. Closing \/ session' = session
      BY <1>6, EndsCloses
    <2>2. UNCHANGED posts
      BY <1>6 DEF Complete, Catch, ReportCleanup, Cancel
    <2> QED BY <2>1, <2>2 DEF Closing
  <1> QED BY <1>1, <1>2, <1>3, <1>4, <1>5, <1>6 DEF Background

\* A capability check moves an append on without changing what it says.
LEMMA CheckKeeps ==
    ASSUME Inv, NEW p \in posts, CheckPost(p)
    PROVE  /\ UNCHANGED <<session, agent, request, got>>
           /\ \/ posts' \subseteq posts
              \/ \E p2 : /\ p2.kind = p.kind /\ p2.req = p.req
                         /\ posts' = (posts \ {p}) \cup {p2}
  <1>1. p \in Post
    BY TypeParts DEF Inv, Rest
  <1> DEFINE p2 == [p EXCEPT !.stage = "append"]
  <1>2. p2.kind = p.kind /\ p2.req = p.req
    BY <1>1 DEF Post
  <1>3. posts' \subseteq posts \/ posts' = (posts \ {p}) \cup {p2}
    BY DEF CheckPost
  <1>4. UNCHANGED <<session, agent, request, got>>
    BY DEF CheckPost, objects
  <1> HIDE DEF p2
  <1> QED BY <1>2, <1>3, <1>4

\* What emit() adds: at most one append, of the given kind and request.
LEMMA EmitAdds ==
    ASSUME NEW kind, NEW r, NEW next, Emits(kind, r, next)
    PROVE  \/ posts' = posts
           \/ \E p : p.kind = kind /\ p.req = r /\ posts' = posts \cup {p}
  <1> DEFINE p == [n |-> sent', kind |-> kind, req |-> r, stage |-> "check"]
  <1>1. posts' = posts \/ posts' = posts \cup {p}
    BY DEF Emits
  <1>2. p.kind = kind /\ p.req = r
    OBVIOUS
  <1> QED BY <1>1, <1>2

\* Posted is kept.
LEMMA PostedStep ==
    ASSUME Inv, [Next]_vars
    PROVE  Posted'
  <1>0. session \in Session /\ Posted /\ Asking
    BY TypeParts DEF Inv
  <1>1. CASE Narrowing
    BY <1>0, <1>1, NarrowingKeeps
  <1>2. ASSUME NEW p \in posts, CheckPost(p)
        PROVE  Posted'
    BY <1>0, <1>2, CheckKeeps DEF Posted
  <1>3. ASSUME NEW p \in posts, AppendPost(p)
        PROVE  Posted'
    <2>1. Appending(p) /\ posts' = posts \ {p}
      BY <1>3, PostKeeps DEF AppendPost
    <2>2. \A r \in session'.pending : r \in session.pending
                                      \/ (p.kind = "requested" /\ r = p.req)
      BY <2>1 DEF Appending, ApplyApproval
    <2>3. session'.decisions = session.decisions
      BY <2>1 DEF Appending
    <2> QED BY <1>0, <1>3, <2>1, <2>2, <2>3 DEF Posted
  <1>4. ASSUME NEW r \in Requests, NEW d \in Decisions, SubmitDecision(r, d)
        PROVE  Posted'
    <2>1. Deciding(r, d)
      BY <1>0, <1>4, DecisionKeeps
    <2>2. \A q \in Requests \ {r} : session'.decisions[q] = session.decisions[q]
      BY <1>0, <2>1 DEF Deciding, Session
    <2>3. session.pending \subseteq Requests
      BY <1>0 DEF Session
    <2>4. posts' = posts
      BY <1>4 DEF SubmitDecision
    <2> QED BY <1>0, <2>1, <2>2, <2>3, <2>4 DEF Posted, Deciding
  <1>5. CASE EmitEvent \/ Resolve
    <2>1. UNCHANGED session
      BY <1>5 DEF EmitEvent, Resolve, objects
    <2>2. \/ posts' = posts
          \/ \E p : p.kind = "other" /\ posts' = posts \cup {p}
          \/ \E p : /\ p.kind = "resolved" /\ p.req \in Requests
                    /\ posts' = posts \cup {p}
      BY <1>0, <1>5, EmitAdds DEF EmitEvent, Resolve, Asking
    <2> QED BY <1>0, <2>1, <2>2 DEF Posted
  <1>6. ASSUME NEW r \in Requests, AskApproval(r)
        PROVE  Posted'
    <2>1. UNCHANGED session
      BY <1>6 DEF AskApproval, objects
    <2>2. Fresh(r)
      BY <1>0, <1>6 DEF AskApproval, Asking
    <2>3. \/ posts' = posts
          \/ \E p : p.kind = "requested" /\ p.req = r /\ posts' = posts \cup {p}
      BY <1>6, EmitAdds DEF AskApproval
    <2> QED BY <1>0, <2>1, <2>2, <2>3 DEF Posted, Fresh
  <1> QED BY <1>1, <1>2, <1>3, <1>4, <1>5, <1>6, NarrowSteps DEF Next

\* Asking is kept.
LEMMA AskingStep ==
    ASSUME Inv, [Next]_vars
    PROVE  Asking'
  <1>0. session \in Session /\ Rest /\ Posted /\ Asking /\ Life /\ Quiet
    BY TypeParts DEF Inv
  <1>1. Narrowing => \A r \in Requests : Fresh(r) => Fresh(r)'
    BY <1>0, NarrowingKeeps
  <1>2. CASE Narrowing /\ UNCHANGED <<agent, request, got>>
    BY <1>0, <1>1, <1>2 DEF Asking
  <1>3. CASE Narrowing /\ UNCHANGED <<request, got>> /\ agent' \in {"off", "exited"}
    BY <1>3 DEF Asking
  <1>4. Background \/ WorkerDies \/ Cancel \/ CancelRevoke \/ CancelDestroy
          \/ Expire \/ PostTimeout \/ UNCHANGED vars
          => Exec \/ (UNCHANGED <<request, got>> /\ agent' \in {agent, "off"})
    <2>1. StartRun \/ Activate \/ Mark \/ Stage \/ ReadResult \/ ExecFails
            \/ Complete \/ Catch \/ Revoke \/ ReportCleanup \/ WorkerDies
            => UNCHANGED <<request, got, agent>>
      BY DEF StartRun, Activate, Mark, Stage, ReadResult, ExecFails, Complete,
             Catch, Revoke, ReportCleanup, WorkerDies, sandbox
    <2>2. Cancel \/ CancelRevoke \/ Expire \/ PostTimeout \/ UNCHANGED vars
            => UNCHANGED <<request, got, agent>>
      BY DEF Cancel, CancelRevoke, Expire, PostTimeout, vars, sandbox
    <2>3. Destroy \/ CancelDestroy
            => UNCHANGED <<request, got>> /\ agent' \in {agent, "off"}
      BY DEF Destroy, CancelDestroy, DestroyContainer, sandbox
    <2> QED BY <2>1, <2>2, <2>3 DEF Background
  <1>5. CASE Exec
    <2>1. \A r \in Requests : Fresh(r)
      BY <1>0, <1>5 DEF Exec, Quiet, Before, Fresh
    <2>2. Narrowing
      BY <1>5, NarrowSteps DEF Background
    <2>3. UNCHANGED <<request, got>> /\ agent' \in {agent, "run"}
      BY <1>5 DEF Exec
    <2>4. agent = "off"
      BY <1>0, <1>5 DEF Exec, Life, Before, Rest
    <2> QED BY <1>1, <2>1, <2>2, <2>3, <2>4 DEF Asking
  <1>6. CASE CallModel \/ CheckPoll \/ AgentExits
    <2>1. Narrowing
      BY <1>6, NarrowSteps
    <2>2. UNCHANGED <<request, got>>
      BY <1>6 DEF CallModel, CheckPoll, AgentExits
    <2>3. \/ agent' \in {agent, "exited"}
          \/ agent = "poll" /\ agent' = "read"
      BY <1>6 DEF CallModel, CheckPoll, AgentExits
    <2> QED BY <1>0, <1>1, <2>1, <2>2, <2>3 DEF Asking
  <1>7. CASE ReadPoll \/ PollAgain \/ PollTimeout
    <2>1. Narrowing /\ request \in Requests /\ agent \in {"read", "pending"}
      BY <1>0, <1>7, NarrowSteps DEF Asking, ReadPoll, PollAgain, PollTimeout
    <2>2. request' = request
      BY <1>7 DEF ReadPoll, PollAgain, PollTimeout
    <2>3. \/ agent' \in {"poll", "pending", "exited"} /\ got' = got
          \/ \E d \in Answers \ {"none"} :
                agent' = "answer" /\ got' = [got EXCEPT ![request] = d]
      <3>1. session.decisions[request] \in Answers
        BY <1>0, <2>1 DEF Session, Answers
      <3> QED BY <1>7, <3>1 DEF ReadPoll, PollAgain, PollTimeout, Answers
    <2>4. got \in [Requests -> Answers]
      BY <1>0 DEF Rest
    <2> QED BY <1>0, <1>1, <2>1, <2>2, <2>3, <2>4 DEF Asking
  <1>8. CASE Resolve
    <2>1. UNCHANGED <<session, got>> /\ agent = "answer"
      BY <1>8 DEF Resolve, objects
    <2>2. agent' \in {"exited", "run"}
      BY <1>8 DEF Resolve, Emits
    <2>3. \A r \in Requests : Fresh(r) => Fresh(r)'
      <3>1. posts' = posts \/ (\E p : p.kind = "resolved" /\ posts' = posts \cup {p})
        BY <1>8, EmitAdds DEF Resolve
      <3> QED BY <2>1, <3>1 DEF Fresh
    <2>4. got[request] # "none"
      BY <1>0, <2>1 DEF Asking
    <2> QED BY <1>0, <2>1, <2>2, <2>3, <2>4 DEF Asking
  <1>9. CASE EmitEvent
    <2>1. UNCHANGED <<session, got, request>> /\ agent = "run" /\ agent' = "run"
      BY <1>9 DEF EmitEvent, Emits, objects
    <2>2. \A r \in Requests : Fresh(r) => Fresh(r)'
      <3>1. posts' = posts \/ (\E p : p.kind = "other" /\ posts' = posts \cup {p})
        BY <1>9, EmitAdds DEF EmitEvent
      <3> QED BY <2>1, <3>1 DEF Fresh
    <2> QED BY <1>0, <2>1, <2>2 DEF Asking
  <1>10. ASSUME NEW r \in Requests, AskApproval(r)
         PROVE  Asking'
    <2>1. /\ UNCHANGED <<session, got>> /\ request' = r /\ got[r] = "none"
          /\ agent = "run" /\ agent' = "poll"
      BY <1>10 DEF AskApproval, Emits, objects
    <2>2. \A q \in Requests \ {r} : Fresh(q) => Fresh(q)'
      <3>1. posts' = posts
            \/ (\E p : p.req = r /\ posts' = posts \cup {p})
        BY <1>10, EmitAdds DEF AskApproval
      <3> QED BY <2>1, <3>1 DEF Fresh
    <2> QED BY <1>0, <2>1, <2>2 DEF Asking
  <1>11. ASSUME NEW p \in posts, CheckPost(p)
         PROVE  Asking'
    <2>1. UNCHANGED <<session, agent, request, got>>
      BY <1>11, CheckKeeps
    <2>2. \A r \in Requests : Fresh(r) => Fresh(r)'
      BY <1>11, <2>1, CheckKeeps DEF Fresh
    <2> QED BY <1>0, <2>1, <2>2 DEF Asking
  <1>12. ASSUME NEW p \in posts, AppendPost(p)
         PROVE  Asking'
    <2>1. Appending(p) /\ posts' = posts \ {p} /\ UNCHANGED <<agent, request, got>>
      BY <1>12, PostKeeps DEF AppendPost
    <2>2. \A r \in session'.pending : r \in session.pending
                                      \/ (p.kind = "requested" /\ r = p.req)
      BY <2>1 DEF Appending, ApplyApproval
    <2>3. session'.decisions = session.decisions
      BY <2>1 DEF Appending
    <2>4. \A r \in Requests : Fresh(r) => Fresh(r)'
      BY <2>1, <2>2, <2>3 DEF Fresh
    <2> QED BY <1>0, <2>1, <2>4 DEF Asking
  <1>13. ASSUME NEW r \in Requests, NEW d \in Decisions, SubmitDecision(r, d)
         PROVE  Asking'
    <2>1. Deciding(r, d)
      BY <1>0, <1>13, DecisionKeeps
    <2>2. \A q \in Requests \ {r} : session'.decisions[q] = session.decisions[q]
      BY <1>0, <2>1 DEF Deciding, Session
    <2>3. UNCHANGED <<posts, agent, request, got>>
      BY <1>13 DEF SubmitDecision, sandbox
    <2>4. \A q \in Requests : Fresh(q) => Fresh(q)'
      BY <2>1, <2>2, <2>3 DEF Fresh, Deciding
    <2> QED BY <1>0, <2>3, <2>4 DEF Asking
  <1>14. Background \/ WorkerDies \/ Cancel \/ CancelRevoke \/ CancelDestroy
          \/ Expire \/ PostTimeout \/ UNCHANGED vars => Narrowing
    BY NarrowSteps
  <1>15. Background \/ WorkerDies \/ Cancel \/ CancelRevoke \/ CancelDestroy
          \/ Expire \/ PostTimeout \/ UNCHANGED vars => Asking'
    BY <1>2, <1>3, <1>4, <1>5, <1>14
  <1> QED
    BY <1>6, <1>7, <1>8, <1>9, <1>10, <1>11, <1>12, <1>13, <1>15 DEF Next
-----------------------------------------------------------------------------
(* The invariant and the safety properties *)

\* A run nobody has asked for satisfies the invariant.
LEMMA InvInit == Init => Inv
  <1> SUFFICES ASSUME Init PROVE Inv
    OBVIOUS
  <1> USE DEF Init
  <1>1. session \in Session
    <2>1. 0 \in 0..MaxLines
      BY Bounds
    <2>2. [r \in Requests |-> "none"] \in [Requests -> Decisions \cup {"none"}]
      OBVIOUS
    <2> QED BY <2>1, <2>2 DEF Session, Statuses
  <1>2. capability \in Capability
    BY Bounds DEF Capability
  <1>3. got \in [Requests -> Answers]
    BY DEF Answers
  <1>4. awaited \in 0..sent /\ faults \in 0..MaxFaults
    BY Bounds
  <1>5. Rest
    BY <1>2, <1>3, <1>4 DEF Rest, Before
  <1>6. TypeOK
    BY <1>1, <1>5, TypeParts
  <1>7. Life /\ Bundled /\ Quiet /\ Metered /\ Contained
    BY DEF Life, Bundled, Quiet, Metered, Contained, Before, terminal,
           TerminalStatus
  <1>8. Posted /\ Asking
    BY DEF Posted, Asking
  <1> QED BY <1>6, <1>7, <1>8 DEF Inv

\* Every step keeps it.
LEMMA InvStep == Inv /\ [Next]_vars => Inv'
  <1> SUFFICES ASSUME Inv, [Next]_vars PROVE Inv'
    OBVIOUS
  <1>1. TypeOK'
    <2>1. session' \in Session /\ Rest'
      BY SessionStep, RestStep
    <2> QED BY <2>1 DEF TypeOK, Session, Rest, Before, Capability
  <1> QED
    BY <1>1, LifeStep, BundledStep, QuietStep, MeteredStep, ContainedStep,
       PostedStep, AskingStep DEF Inv

\* The inductive invariant, whatever the order in which the Worker, the cancel
\* route, the operator and the agent come.
THEOREM Invariance == Spec => []Inv
  BY InvInit, InvStep, PTL DEF Spec

\* Every variable keeps its type.
THEOREM ControlTyped == Spec => []TypeOK
  <1>1. Inv => TypeOK
    BY DEF Inv
  <1> QED BY <1>1, Invariance, PTL

\* A container that outlives the background run is reported in the session's
\* error, unless two calls of the cleanup failed.
THEOREM LeaksAreReported == Spec => []LeakIsReported
  <1>1. Inv => LeakIsReported
    <2> SUFFICES ASSUME Inv, worker = "done", faults <= 1
                 PROVE  container = "none" \/ session.error = "cleanup_failed"
      BY DEF LeakIsReported
    <2>1. faults \in Nat
      BY TypeParts, Bounds DEF Inv, Rest
    <2> QED BY <2>1 DEF Inv, Contained
  <1> QED BY <1>1, Invariance, PTL

\* The steps that change the record of the session: it is accepted first.
LEMMA SessionSteps ==
    ASSUME Inv, [Next]_vars
    PROVE  \/ UNCHANGED session
           \/ StartRun
           \/ /\ session.status # "none"
              /\ UNCHANGED <<agent, request, got, calls, revoked>>
              /\ \/ Marking
                 \/ Closing
                 \/ \E p \in posts : Appending(p)
                 \/ \E r \in Requests, d \in Decisions : Deciding(r, d)
  <1>0. session \in Session /\ Life /\ Quiet
    BY TypeParts DEF Inv
  <1>1. Activate \/ Stage \/ Exec \/ ReadResult \/ ExecFails \/ Revoke
          \/ Destroy \/ WorkerDies \/ CancelRevoke \/ CancelDestroy \/ Expire
          => UNCHANGED session
    BY DEF Activate, Stage, Exec, ReadResult, ExecFails, Revoke, Destroy,
           WorkerDies, CancelRevoke, CancelDestroy, Expire, objects
  <1>2. CallModel \/ EmitEvent \/ (\E r \in Requests : AskApproval(r))
          \/ (\E p \in posts : CheckPost(p)) \/ PostTimeout \/ CheckPoll
          \/ ReadPoll \/ PollAgain \/ PollTimeout \/ Resolve \/ AgentExits
          => UNCHANGED session
    BY DEF CallModel, EmitEvent, AskApproval, CheckPost, PostTimeout, CheckPoll,
           ReadPoll, PollAgain, PollTimeout, Resolve, AgentExits, objects
  <1>3. UNCHANGED vars => UNCHANGED session
    BY DEF vars, objects
  <1>4. CASE Mark
    <2>1. Marking
      BY <1>0, <1>4, MarkKeeps
    <2>2. worker # "new" /\ UNCHANGED <<agent, request, got, calls, revoked>>
      BY <1>4 DEF Mark, sandbox
    <2> QED BY <1>0, <2>1, <2>2 DEF Life
  <1>5. CASE Complete \/ Catch \/ ReportCleanup \/ Cancel
    <2>1. Closing \/ UNCHANGED session
      BY <1>5, EndsCloses
    <2>2. /\ session.status # "none"
          /\ UNCHANGED <<agent, request, got, calls, revoked>>
      BY <1>0, <1>5 DEF Complete, Catch, ReportCleanup, Cancel, Life, sandbox
    <2> QED BY <2>1, <2>2
  <1>6. ASSUME NEW p \in posts, AppendPost(p)
        PROVE  /\ session.status # "none"
               /\ UNCHANGED <<agent, request, got, calls, revoked>>
               /\ Appending(p)
    <2>1. Appending(p)
      BY <1>6, PostKeeps
    <2>2. worker # "new"
      BY <1>0 DEF Quiet, Before
    <2> QED BY <1>0, <1>6, <2>1, <2>2 DEF AppendPost, Life
  <1>7. ASSUME NEW r \in Requests, NEW d \in Decisions, SubmitDecision(r, d)
        PROVE  /\ session.status # "none"
               /\ UNCHANGED <<agent, request, got, calls, revoked>>
               /\ Deciding(r, d)
    <2>1. Deciding(r, d)
      BY <1>0, <1>7, DecisionKeeps
    <2>2. worker # "new"
      BY <1>0, <2>1 DEF Quiet, Before, Deciding
    <2>3. UNCHANGED <<agent, request, got, calls, revoked>>
      BY <1>7 DEF SubmitDecision, sandbox
    <2> QED BY <1>0, <2>1, <2>2, <2>3 DEF Life
  <1> QED BY <1>1, <1>2, <1>3, <1>4, <1>5, <1>6, <1>7 DEF Next, Background

\* A terminal session is final: no late completion, failure, cancellation,
\* decision or append changes its status, its lines or its decisions, or makes
\* anything pending in it.
THEOREM EndIsFinal == Spec => TerminalIsFinal
  <1>1. ASSUME Inv, [Next]_vars, terminal
        PROVE  /\ session'.status = session.status
               /\ session'.lines = session.lines
               /\ session'.decisions = session.decisions
               /\ session'.pending = {}
    <2>1. session.pending = {} /\ session.status # "none"
      BY <1>1 DEF Inv, Life, terminal, TerminalStatus
    <2>2. CASE UNCHANGED session
      BY <2>1, <2>2
    <2>3. ~StartRun
      BY <1>1, <2>1 DEF StartRun, Inv, Life
    <2>4. CASE Marking
      BY <1>1, <2>1, <2>4 DEF Marking
    <2>5. CASE Closing
      BY <1>1, <2>5 DEF Closing
    <2>6. ASSUME NEW p \in posts, Appending(p) PROVE UNCHANGED session
      BY <1>1, <2>6 DEF Appending
    <2>7. ~(\E r \in Requests, d \in Decisions : Deciding(r, d))
      BY <1>1 DEF Deciding
    <2> QED BY <1>1, <2>2, <2>3, <2>4, <2>5, <2>6, <2>7, SessionSteps
  <1>2. Inv /\ [Next]_vars =>
          [terminal => /\ session'.status = session.status
                       /\ session'.lines = session.lines
                       /\ session'.decisions = session.decisions
                       /\ session'.pending = {}]_vars
    BY <1>1
  <1> QED BY <1>2, Invariance, PTL DEF Spec, TerminalIsFinal
-----------------------------------------------------------------------------
(* The control plane implements RemoteRun *)

\* It starts where the promise starts.
LEMMA PromiseInit == Init => Promise!Init
  BY DEF Init, Promise!Init, Absent

\* A transaction that changes the record of the session accepts, begins or
\* ends the run, or shows, withdraws or decides an approval.
LEMMA PromiseSession ==
    ASSUME Inv, [Next]_vars, ~UNCHANGED session
    PROVE  [Promise!Next]_(Promise!runVars)
  <1> USE DEF Promise!Next, Promise!runVars
  <1>0. session \in Session /\ Life /\ Posted
    BY TypeParts DEF Inv
  <1>1. ~terminal => session.status \in {"none", "queued", "running"}
    BY <1>0 DEF Session, Statuses, terminal
  <1>2. CASE StartRun
    <2>1. Promise!Accept
      BY <1>0, <1>2 DEF StartRun, Promise!Accept, Life, Session, sandbox,
         Absent
    <2> QED BY <2>1
  <1>3. CASE session.status # "none" /\ UNCHANGED <<Absent, got, calls, revoked>>
    <2>1. CASE Marking
      <3>1. Promise!Begin \/ UNCHANGED Promise!runVars
        BY <1>1, <1>3, <2>1 DEF Marking, Promise!Begin, Session
      <3> QED BY <3>1
    <2>2. CASE Closing
      <3>1. CASE terminal
        BY <1>0, <1>3, <2>2, <3>1 DEF Closing, Life
      <3>2. CASE ~terminal
        <4>1. Promise!End
          BY <1>1, <1>3, <2>2, <3>2
             DEF Closing, Promise!End, Promise!Live, Promise!Over,
                   TerminalStatus
        <4> QED BY <4>1
      <3> QED BY <3>1, <3>2
    <2>3. ASSUME NEW p \in posts, Appending(p)
          PROVE  [Promise!Next]_(Promise!runVars)
      <3>1. /\ p \in Post /\ ~terminal /\ (p.kind # "other" => p.req \in Requests)
            /\ session'.status = session.status
            /\ session'.decisions = session.decisions
            /\ session'.pending = ApplyApproval(session.pending, p)
        BY <2>3 DEF Appending
      <3>2. session.status \in Promise!Live
        BY <1>1, <1>3, <3>1 DEF Promise!Live
      <3>3. CASE p.kind = "requested"
        <4>1. session.decisions[p.req] = "none"
          BY <1>0, <3>3 DEF Posted
        <4>2. Promise!Show(p.req)
          BY <1>3, <3>1, <3>2, <3>3, <4>1 DEF Promise!Show, ApplyApproval
        <4> QED BY <3>1, <3>3, <4>2
      <3>4. CASE p.kind = "resolved"
        <4>1. Promise!Withdraw(p.req)
          BY <1>3, <3>1, <3>2, <3>4 DEF Promise!Withdraw, ApplyApproval
        <4> QED BY <3>1, <3>4, <4>1
      <3>5. CASE p.kind = "other"
        BY <1>3, <3>1, <3>5 DEF ApplyApproval
      <3> QED BY <3>1, <3>3, <3>4, <3>5 DEF Post
    <2>4. ASSUME NEW r \in Requests, NEW d \in Decisions, Deciding(r, d)
          PROVE  [Promise!Next]_(Promise!runVars)
      <3>1. session.decisions[r] = "none" /\ session.status \in Promise!Live
        BY <1>0, <1>1, <1>3, <2>4 DEF Deciding, Posted, Promise!Live
      <3>2. Promise!Decide(r, d)
        BY <1>3, <2>4, <3>1 DEF Promise!Decide, Deciding
      <3> QED BY <3>2
    <2> QED BY <1>3, <2>1, <2>2, <2>3, <2>4, SessionSteps, <1>2
  <1> QED BY <1>2, <1>3, SessionSteps DEF Absent

\* A model request the proxy lets through is one the promise admits: the
\* capability is active, counts it, and was not revoked.
LEMMA PromiseCalls ==
    ASSUME Inv, CallModel
    PROVE  Promise!Admit \/ UNCHANGED Promise!runVars
  <1>0. session \in Session /\ Rest /\ Life /\ Metered
    BY TypeParts DEF Inv
  <1>1. UNCHANGED <<session, got, revoked, Absent>> /\ agent = "run"
    BY DEF CallModel, Absent
  <1>2. CASE CapabilityOk
    <2>1. capability.active /\ capability.used < Budget /\ calls' = calls + 1
      BY <1>2 DEF CapabilityOk, CallModel
    <2>2. ~revoked /\ calls <= capability.used
      BY <1>0, <1>1, <2>1 DEF Metered
    <2>3. calls < Budget
      BY <1>0, <2>1, <2>2, Bounds DEF Rest, Capability
    <2>4. session.status \notin {"none", "queued"}
      BY <1>0, <1>1 DEF Life
    <2> QED BY <1>1, <2>1, <2>2, <2>3, <2>4 DEF Promise!Admit
  <1>3. CASE ~CapabilityOk
    BY <1>1, <1>3 DEF CallModel, Promise!runVars
  <1> QED BY <1>2, <1>3

\* The agent looks for a decision, and acts once on each request: on the one
\* the session holds, or on the deadline if its last look found none.
LEMMA PromiseAnswers ==
    ASSUME Inv, ReadPoll \/ PollAgain \/ PollTimeout
    PROVE  [Promise!Next]_(Promise!runVars)
  <1>0. Asking /\ agent \in {"read", "pending"}
    BY DEF Inv, ReadPoll, PollAgain, PollTimeout
  <1>1. request \in Requests /\ got[request] = "none" /\ request' = request
    BY <1>0 DEF Asking, ReadPoll, PollAgain, PollTimeout
  <1>2. UNCHANGED <<session, calls, revoked>>
    BY DEF ReadPoll, PollAgain, PollTimeout, objects
  <1>3. CASE ReadPoll
    <2>1. Absent = {}
      BY <1>3 DEF ReadPoll, Absent
    <2>2. CASE session.decisions[request] # "none"
      <3>1. Promise!Act(request)
        BY <1>1, <1>2, <1>3, <2>1, <2>2 DEF ReadPoll, Promise!Act, Absent
      <3> QED BY <1>1, <3>1 DEF Promise!Next
    <2>3. CASE session.decisions[request] = "none"
      <3>1. got' = got /\ agent' \in {"exited", "pending"}
        BY <1>3, <2>3 DEF ReadPoll
      <3>2. Promise!Look(request) \/ UNCHANGED Promise!runVars
        BY <1>1, <1>2, <2>1, <2>3, <3>1
           DEF Promise!Look, Promise!runVars, Absent
      <3> QED BY <1>1, <3>2 DEF Promise!Next
    <2> QED BY <2>2, <2>3
  <1>4. CASE PollAgain
    <2>1. Promise!LookAgain(request)
      BY <1>1, <1>2, <1>4 DEF PollAgain, Promise!LookAgain, Absent
    <2> QED BY <1>1, <2>1 DEF Promise!Next
  <1>5. CASE PollTimeout
    <2>1. Promise!GiveUp(request)
      BY <1>1, <1>2, <1>5 DEF PollTimeout, Promise!GiveUp, Absent
    <2> QED BY <1>1, <2>1 DEF Promise!Next
  <1> QED BY <1>3, <1>4, <1>5

\* An agent that ends, of itself or with its container, looks no more.
LEMMA PromiseEnds ==
    ASSUME Inv, UNCHANGED <<session, request, got, calls, revoked>>,
           agent' \in {agent, "off", "exited"}
    PROVE  [Promise!Next]_(Promise!runVars)
  <1>1. CASE Absent' = Absent
    BY <1>1 DEF Promise!runVars
  <1>2. CASE Absent' # Absent
    <2>1. agent = "pending" /\ agent' # "pending"
      BY <1>2 DEF Absent
    <2>2. request \in Requests
      BY <2>1 DEF Inv, Asking
    <2>3. Promise!LookAgain(request)
      BY <2>1 DEF Promise!LookAgain, Absent
    <2> QED BY <2>2, <2>3 DEF Promise!Next
  <1> QED BY <1>1, <1>2

\* A revocation, of the Worker's or of the cancel route's, is of a run that
\* was accepted.
LEMMA PromiseCuts ==
    ASSUME Inv, Revoke \/ CancelRevoke
    PROVE  Promise!Cut \/ UNCHANGED Promise!runVars
  <1>1. session.status # "none"
    BY DEF Inv, Life, Revoke, CancelRevoke, terminal, TerminalStatus
  <1>2. UNCHANGED <<session, got, calls, Absent>>
    BY DEF Revoke, CancelRevoke, sandbox, Absent
  <1>3. revoked' = TRUE \/ UNCHANGED revoked
    BY DEF Revoke, CancelRevoke, RevokeCapability
  <1> QED BY <1>1, <1>2, <1>3 DEF Promise!Cut, Promise!runVars

\* Every step of the control plane is a step of RemoteRun or leaves it.
LEMMA PromiseStep ==
    ASSUME Inv, [Next]_vars
    PROVE  [Promise!Next]_(Promise!runVars)
  <1>1. CASE ~UNCHANGED session
    BY <1>1, PromiseSession
  <1>2. CASE UNCHANGED <<session, Absent, got, calls, revoked>>
    BY <1>2 DEF Promise!runVars
  <1>3. CASE CallModel
    BY <1>3, PromiseCalls DEF Promise!Next
  <1>4. CASE ReadPoll \/ PollAgain \/ PollTimeout
    BY <1>4, PromiseAnswers
  <1>5. CASE Revoke \/ CancelRevoke
    BY <1>5, PromiseCuts DEF Promise!Next
  <1>6. StartRun \/ Activate \/ Mark \/ Stage \/ ReadResult \/ ExecFails
          \/ Complete \/ Catch \/ ReportCleanup
          => UNCHANGED <<Absent, got, calls, revoked>>
    BY DEF StartRun, Activate, Mark, Stage, ReadResult, ExecFails, Complete,
           Catch, ReportCleanup, sandbox, Absent
  <1>7. WorkerDies \/ Cancel \/ Expire => UNCHANGED <<Absent, got, calls, revoked>>
    BY DEF WorkerDies, Cancel, Expire, sandbox, Absent
  <1>8. Destroy \/ CancelDestroy \/ AgentExits
          => /\ UNCHANGED <<session, request, got, calls, revoked>>
             /\ agent' \in {agent, "off", "exited"}
    BY DEF Destroy, CancelDestroy, AgentExits, DestroyContainer, sandbox,
           objects
  <1>9. CASE Destroy \/ CancelDestroy \/ AgentExits
    BY <1>8, <1>9, PromiseEnds
  <1>10. Exec => UNCHANGED <<Absent, got, calls, revoked>>
    <2>1. Exec => agent = "off" \/ agent' = agent
      BY DEF Exec, Inv, Life, Before
    <2> QED BY <2>1 DEF Exec, Absent
  <1>11. EmitEvent \/ (\E r \in Requests : AskApproval(r))
          \/ (\E p \in posts : CheckPost(p) \/ AppendPost(p)) \/ PostTimeout
          => UNCHANGED <<Absent, got, calls, revoked>>
    BY DEF EmitEvent, AskApproval, CheckPost, AppendPost, PostTimeout, Emits,
           Absent
  <1>12. CheckPoll \/ Resolve => UNCHANGED <<Absent, got, calls, revoked>>
    BY DEF CheckPoll, Resolve, Emits, Absent
  <1>13. ASSUME NEW r \in Requests, NEW d \in Decisions, SubmitDecision(r, d)
         PROVE  UNCHANGED <<Absent, got, calls, revoked>>
    BY <1>13 DEF SubmitDecision, sandbox, Absent
  <1>14. UNCHANGED vars => UNCHANGED <<Absent, got, calls, revoked>>
    BY DEF vars, sandbox, Absent
  <1> QED
    BY <1>1, <1>2, <1>3, <1>4, <1>5, <1>6, <1>7, <1>9, <1>10, <1>11, <1>12,
       <1>13, <1>14 DEF Next, Background

\* The control plane implements RemoteRun: one life, one verdict per approval,
\* the agent acting once, on it or because its last look found none, no more
\* model requests than the budget, none before the run began and none after a
\* revocation.
THEOREM Implementation == Spec => KeepsPromise
  <1>1. Init => Promise!Init
    BY PromiseInit
  <1>2. Inv /\ [Next]_vars => [Promise!Next]_(Promise!runVars)
    BY PromiseStep
  <1> QED BY <1>1, <1>2, Invariance, PTL DEF Spec, KeepsPromise, Promise!Spec
=============================================================================
