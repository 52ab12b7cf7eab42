----------------------------- MODULE ControlPlane -----------------------------
(***************************************************************************)
(* One remote run of the Cloudflare control plane.  The Worker's requests, *)
(* the background run it keeps alive with waitUntil(), the cancel route,   *)
(* the operator and the agent inside the Sandbox meet in two Durable       *)
(* Objects, RunSession and RunCapability.  A transaction of one object is  *)
(* one step; a handler that calls both is two, and anything may fall       *)
(* between them.                                                           *)
(***************************************************************************)
EXTENDS Integers, FiniteSets

CONSTANTS
    Requests,    \* approval requests the agent may raise
    Budget,      \* maxRequests of the capability (maxSteps + 2)
    MaxLines,    \* MAX_LIVE_EVENT_LINES
    SinkErrors,  \* errors after which the event sink disables itself
    MaxPosts,    \* bound: appends of events other than approvals
    MaxFaults,   \* bound: calls of the Worker that throw
    Dies         \* whether the platform may end the background run

ASSUME ControlAssumption ==
    /\ Budget \in Nat \ {0} /\ MaxLines \in Nat /\ SinkErrors \in Nat
    /\ MaxPosts \in Nat /\ MaxFaults \in Nat /\ Dies \in BOOLEAN

VARIABLES
    session,     \* the record of the RunSession object
    capability,  \* the record of the RunCapability object
    expired,     \* expiresAt, and the tokens' exp, have passed
    worker,      \* where executeRunInSandbox is
    activated,   \* its capabilityActivated
    cleanup,     \* its cleanupFailed
    route,       \* where the cancel route is
    container,   \* whether the Sandbox container is up
    agent,       \* where the agent in it is
    request,     \* the approval request it is asking for, if any
    posts,       \* event appends on their way through the Worker
    awaited,     \* the append the sink is waiting for, or 0
    errors,      \* the sink's error count
    result,      \* what the agent's response bundle says
    sent, faults,              \* the bounded counters
    got,         \* history: the answer the agent acted on, per request
    calls,       \* history: model requests admitted to the provider
    revoked      \* history: a revocation has taken effect

objects == <<session, capability, expired>>
background == <<worker, activated, cleanup>>
sandbox == <<container, agent, request, awaited, errors, result>>
vars == <<objects, background, route, sandbox, posts, sent, faults, got,
          calls, revoked>>

TerminalStatus == {"completed", "failed", "cancelled"}
Statuses == {"none", "queued", "running"} \cup TerminalStatus
Decisions == {"allow_once", "allow_session", "deny", "cancel"}
Answers == Decisions \cup {"none", "timeout"}
terminal == session.status \in TerminalStatus
NoRequest == "no_request"
Post == [n : Nat \ {0}, kind : {"requested", "resolved", "other"},
         req : Requests \cup {NoRequest}, stage : {"check", "append"}]

Init ==
    /\ session = [status |-> "none", cancelRequested |-> FALSE,
                  error |-> "none", pending |-> {}, lines |-> 0,
                  decisions |-> [r \in Requests |-> "none"]]
    /\ capability = [active |-> FALSE, used |-> 0] /\ expired = FALSE
    /\ worker = "new" /\ activated = FALSE /\ cleanup = FALSE
    /\ route = "idle"
    /\ container = "none" /\ agent = "off" /\ request = NoRequest
    /\ posts = {} /\ awaited = 0 /\ errors = 0 /\ result = "none"
    /\ sent = 0 /\ faults = 0
    /\ got = [r \in Requests |-> "none"] /\ calls = 0 /\ revoked = FALSE

-----------------------------------------------------------------------------
(* The Durable Objects' transactions *)

\* POST /fail: a terminal status stays, the error is recorded all the same.
FailSession(code) ==
    session' = [session EXCEPT !.status = IF terminal THEN @ ELSE "failed",
                               !.pending = {}, !.error = code]

\* POST /complete with the status of the agent's result.
CompleteSession(status) ==
    session' = IF terminal THEN session
               ELSE [session EXCEPT !.status = status, !.pending = {}]

CancelSession ==
    session' = [session EXCEPT !.status = IF terminal THEN @ ELSE "cancelled",
                               !.cancelRequested = TRUE, !.pending = {}]

\* POST /append-events and applyApprovalEvents.
ApplyApproval(pending, p) ==
    CASE p.kind = "requested" -> pending \cup {p.req}
      [] p.kind = "resolved"  -> pending \ {p.req}
      [] OTHER                -> pending
Accepts == ~terminal /\ session.lines < MaxLines
AppendEvent(p) ==
    session' = IF ~Accepts THEN session
               ELSE [session EXCEPT !.lines = @ + 1,
                                    !.pending = ApplyApproval(@, p)]

\* POST /check and /consume delete a record they find expired; the tokens,
\* which expire together with it, are refused before either is reached.
CapabilityOk ==
    capability.active /\ ~expired /\ capability.used < Budget
ActivateCapability == capability' = [active |-> TRUE, used |-> 0]
ConsumeCapability == capability' = [capability EXCEPT !.used = @ + 1]
RevokeCapability ==
    capability' = [active |-> FALSE, used |-> 0] /\ revoked' = TRUE

-----------------------------------------------------------------------------
(* The run route and the background run *)

\* POST /v1/runs: the session is created, the background run queued.
StartRun ==
    /\ worker = "new"
    /\ session' = [session EXCEPT !.status = "queued"]
    /\ worker' = "activate"
    /\ UNCHANGED <<capability, expired, activated, cleanup, route, sandbox,
                   posts, sent, faults, got, calls, revoked>>

\* A call that throws, whether or not it has taken effect.
Fault(next) == faults < MaxFaults /\ faults' = faults + 1 /\ worker' = next

\* A call without a timeout may throw, or never return.
Lost(next) ==
    \/ Fault(next)
    \/ worker' = "hung" /\ UNCHANGED faults

\* Mutant: a capability that cannot be activated ends the background run.
ActivateOutsideTry ==
    /\ worker = "activate"
    /\ \/ /\ ~expired
          /\ ActivateCapability /\ activated' = TRUE /\ worker' = "mark"
       \/ /\ expired
          /\ worker' = "done" /\ UNCHANGED <<capability, activated>>
    /\ UNCHANGED <<session, expired, cleanup, route, sandbox, posts, sent,
                   faults, got, calls, revoked>>
Activate ==
    /\ worker = "activate"
    /\ \/ /\ ~expired
          /\ ActivateCapability /\ activated' = TRUE /\ worker' = "mark" /\ UNCHANGED faults
       \/ /\ expired
          /\ worker' = "catch" /\ UNCHANGED <<capability, activated, faults>>
       \/ /\ Lost("catch") /\ UNCHANGED activated
          /\ \/ ~expired /\ ActivateCapability
             \/ UNCHANGED capability
    /\ UNCHANGED <<session, expired, cleanup, route, sandbox, posts, sent, got,
                   calls, revoked>>

\* POST /running for a session that has not ended.
Running(s) == [s EXCEPT !.status = "running"]

Mark ==
    /\ worker = "mark"
    /\ \/ /\ ~terminal /\ session' = Running(session)
          /\ worker' = "stage" /\ UNCHANGED faults
       \/ /\ terminal
          /\ worker' = "catch" /\ UNCHANGED <<session, faults>>
       \/ /\ Lost("catch")
          /\ \/ ~terminal /\ session' = Running(session)
             \/ UNCHANGED session
    /\ UNCHANGED <<capability, expired, activated, cleanup, route, sandbox,
                   posts, sent, got, calls, revoked>>

\* Staging starts the container, also one the cancel route has destroyed.
Stage ==
    /\ worker = "stage"
    /\ container' = "up"
    /\ \/ worker' = "exec" /\ UNCHANGED faults
       \/ Lost("catch")
    /\ UNCHANGED <<objects, activated, cleanup, route, agent, request, awaited,
                   errors, result, posts, sent, got, calls, revoked>>

\* In a container that was destroyed after staging the command finds nothing.
Exec ==
    /\ worker = "exec"
    /\ \/ /\ container = "up"
          /\ agent' = "run" /\ worker' = "wait" /\ UNCHANGED container
       \/ /\ container = "none"
          /\ container' \in {"none", "up"} /\ worker' = "catch"
          /\ UNCHANGED agent
    /\ UNCHANGED <<objects, activated, cleanup, route, request, awaited, errors,
                   result, posts, sent, faults, got, calls, revoked>>

\* The command has ended; its bundle is read and validated, or cannot be.
ReadResult ==
    /\ worker = "wait" /\ agent = "exited" /\ awaited = 0
    /\ \/ worker' = "complete" /\ UNCHANGED faults
       \/ Lost("catch")
    /\ UNCHANGED <<objects, activated, cleanup, route, sandbox, posts, sent,
                   got, calls, revoked>>

\* exec() times out, or its container is gone.
ExecFails ==
    /\ worker = "wait"
    /\ worker' = "catch"
    /\ UNCHANGED <<objects, activated, cleanup, route, sandbox, posts, sent,
                   faults, got, calls, revoked>>

Complete ==
    /\ worker = "complete"
    /\ \/ /\ CompleteSession(result)
          /\ worker' = IF terminal THEN "catch" ELSE "revoke"
          /\ UNCHANGED faults
       \/ /\ Lost("catch")
          /\ CompleteSession(result) \/ UNCHANGED session
    /\ UNCHANGED <<capability, expired, activated, cleanup, route, sandbox,
                   posts, sent, got, calls, revoked>>

\* A failure to record the failure is swallowed.
Catch ==
    /\ worker = "catch"
    /\ \/ FailSession("error") /\ worker' = "revoke" /\ UNCHANGED faults
       \/ /\ Lost("revoke")
          /\ FailSession("error") \/ UNCHANGED session
    /\ UNCHANGED <<capability, expired, activated, cleanup, route, sandbox,
                   posts, sent, got, calls, revoked>>

\* A bounded revocation may time out before or after it takes effect.
Revoke ==
    /\ worker = "revoke"
    /\ \/ /\ ~activated
          /\ worker' = "done" /\ UNCHANGED <<capability, revoked, cleanup, faults>>
       \/ /\ activated /\ RevokeCapability
          /\ worker' = "destroy" /\ UNCHANGED <<cleanup, faults>>
       \/ /\ activated /\ Fault("destroy") /\ cleanup' = TRUE
          /\ RevokeCapability \/ UNCHANGED <<capability, revoked>>
    /\ UNCHANGED <<session, expired, activated, route, sandbox, posts, sent,
                   got, calls>>

\* The container ends, and whatever runs in it.
DestroyContainer ==
    /\ container' = "none" /\ agent' = "off" /\ awaited' = 0
    /\ UNCHANGED <<request, errors, result>>

\* Mutant: the container is left to a run that ended well.
DestroyOnlyFailed ==
    /\ worker = "destroy"
    /\ IF session.status = "completed" THEN UNCHANGED sandbox
       ELSE DestroyContainer
    /\ worker' = "done"
    /\ UNCHANGED <<objects, activated, cleanup, route, posts, sent, faults, got,
                   calls, revoked>>
Destroy ==
    /\ worker = "destroy"
    /\ \/ /\ DestroyContainer
          /\ worker' = IF cleanup THEN "report" ELSE "done"
          /\ UNCHANGED <<cleanup, faults>>
       \/ /\ Fault("report") /\ cleanup' = TRUE
          /\ DestroyContainer \/ UNCHANGED sandbox
    /\ UNCHANGED <<objects, activated, route, posts, sent, got, calls, revoked>>

ReportCleanup ==
    /\ worker = "report"
    /\ \/ FailSession("cleanup_failed") /\ worker' = "done" /\ UNCHANGED faults
       \/ /\ Lost("done")
          /\ FailSession("cleanup_failed") \/ UNCHANGED session
    /\ UNCHANGED <<capability, expired, activated, cleanup, route, sandbox,
                   posts, sent, got, calls, revoked>>

\* The platform ends what waitUntil() keeps alive, at any point.
WorkerDies ==
    /\ Dies /\ worker \notin {"new", "done", "hung", "dead"}
    /\ worker' = "dead"
    /\ UNCHANGED <<objects, activated, cleanup, route, sandbox, posts, sent,
                   faults, got, calls, revoked>>

-----------------------------------------------------------------------------
(* The operator: cancel route and decisions *)

Cancel ==
    /\ route = "idle" /\ session.status # "none"
    /\ CancelSession
    /\ route' = IF terminal THEN "idle" ELSE "revoke"
    /\ UNCHANGED <<capability, expired, background, sandbox, posts, sent,
                   faults, got, calls, revoked>>

RouteFault == faults < MaxFaults /\ faults' = faults + 1 /\ route' = "idle"

CancelRevoke ==
    /\ route = "revoke"
    /\ \/ RevokeCapability /\ route' = "destroy" /\ UNCHANGED faults
       \/ /\ RouteFault
          /\ RevokeCapability \/ UNCHANGED <<capability, revoked>>
    /\ UNCHANGED <<session, expired, background, sandbox, posts, sent, got, calls>>

CancelDestroy ==
    /\ route = "destroy"
    /\ \/ DestroyContainer /\ route' = "idle" /\ UNCHANGED faults
       \/ /\ RouteFault
          /\ DestroyContainer \/ UNCHANGED sandbox
    /\ UNCHANGED <<objects, background, posts, sent, got, calls, revoked>>

SubmitDecision(r, d) ==
    /\ ~terminal /\ r \in session.pending
    /\ session' = [session EXCEPT !.pending = @ \ {r}, !.decisions[r] = d]
    /\ UNCHANGED <<capability, expired, background, route, sandbox, posts, sent,
                   faults, got, calls, revoked>>

Expire ==
    /\ ~expired
    /\ expired' = TRUE
    /\ UNCHANGED <<session, capability, background, route, sandbox, posts, sent,
                   faults, got, calls, revoked>>

-----------------------------------------------------------------------------
(* The agent in the Sandbox *)

\* handleModelProxy: one unit is consumed before the provider is called.
CallModel ==
    /\ agent = "run" /\ awaited = 0
    /\ IF CapabilityOk
       THEN /\ ConsumeCapability
            /\ calls' = calls + 1
            /\ UNCHANGED <<agent, result>>
       ELSE /\ agent' = "exited" /\ result' = "failed"
            /\ UNCHANGED <<capability, calls>>
    /\ UNCHANGED <<session, expired, background, route, container, request,
                   awaited, errors, posts, sent, faults, got, revoked>>

\* The sink's emit: the next append, which it waits for, unless it disabled
\* itself; next is where the agent goes from there.
Emits(kind, r, next) ==
    IF errors < SinkErrors
    THEN /\ sent' = sent + 1 /\ awaited' = sent'
         /\ posts' = posts \cup
               {[n |-> sent', kind |-> kind, req |-> r, stage |-> "check"]}
         /\ agent' = next
    ELSE agent' = next /\ UNCHANGED <<posts, sent, awaited>>

EmitEvent ==
    /\ agent = "run" /\ awaited = 0 /\ errors < SinkErrors /\ sent < MaxPosts
    /\ Emits("other", NoRequest, "run")
    /\ UNCHANGED <<objects, background, route, container, request, errors,
                   result, faults, got, calls, revoked>>

AskApproval(r) ==
    /\ agent = "run" /\ awaited = 0 /\ got[r] = "none"
    /\ Emits("requested", r, "poll")
    /\ request' = r
    /\ UNCHANGED <<objects, background, route, container, errors, result,
                   faults, got, calls, revoked>>

\* The sink hears the answer to the append it is waiting for.
Hears(p, refused) ==
    /\ awaited' = IF awaited = p.n THEN 0 ELSE awaited
    /\ errors' = IF awaited = p.n /\ refused THEN errors + 1 ELSE errors

\* handleInternalRunEvents checks the capability, then appends to the session.
CheckPost(p) ==
    /\ p.stage = "check"
    /\ IF CapabilityOk
       THEN /\ posts' = (posts \ {p}) \cup {[p EXCEPT !.stage = "append"]}
            /\ UNCHANGED <<awaited, errors>>
       ELSE posts' = posts \ {p} /\ Hears(p, TRUE)
    /\ UNCHANGED <<objects, background, route, container, agent, request,
                   result, sent, faults, got, calls, revoked>>

\* Mutant: the append trusts the capability check made before it.
AppendChecked(p) ==
    /\ p.stage = "append"
    /\ session' = [session EXCEPT !.lines = @ + 1,
                                  !.pending = ApplyApproval(@, p)]
    /\ posts' = posts \ {p} /\ Hears(p, FALSE)
    /\ UNCHANGED <<capability, expired, background, route, container, agent,
                   request, result, sent, faults, got, calls, revoked>>
AppendPost(p) ==
    /\ p.stage = "append"
    /\ AppendEvent(p)
    /\ posts' = posts \ {p} /\ Hears(p, ~Accepts)
    /\ UNCHANGED <<capability, expired, background, route, container, agent,
                   request, result, sent, faults, got, calls, revoked>>

\* The sink's client gives up; the append may still be carried out.
PostTimeout ==
    /\ awaited # 0
    /\ awaited' = 0 /\ errors' = errors + 1
    /\ UNCHANGED <<objects, background, route, container, agent, request,
                   result, posts, sent, faults, got, calls, revoked>>

\* handleInternalRunApproval checks the capability, then reads the session.
CheckPoll ==
    /\ agent = "poll" /\ awaited = 0
    /\ IF CapabilityOk THEN agent' = "read" /\ UNCHANGED result
       ELSE agent' = "exited" /\ result' = "failed"
    /\ UNCHANGED <<objects, background, route, container, request, awaited,
                   errors, posts, sent, faults, got, calls, revoked>>

\* A decision ends the wait.  That there is none yet is an answer too, on its
\* way back to the agent; of a terminal session only a request that is still
\* pending gets it, and none is.
ReadPoll ==
    /\ agent = "read"
    /\ LET d == session.decisions[request]
       IN  IF d # "none"
           THEN /\ agent' = "answer" /\ got' = [got EXCEPT ![request] = d]
                /\ UNCHANGED result
           ELSE /\ IF terminal /\ request \notin session.pending
                   THEN agent' = "exited" /\ result' = "failed"
                   ELSE agent' = "pending" /\ UNCHANGED result
                /\ UNCHANGED got
    /\ UNCHANGED <<objects, background, route, container, request, awaited,
                   errors, posts, sent, faults, calls, revoked>>

\* Mutant: the deadline is looked at before the answer to the poll.
PollTimeoutFirst ==
    /\ agent = "read"
    /\ agent' = "answer" /\ got' = [got EXCEPT ![request] = "timeout"]
    /\ UNCHANGED <<objects, background, route, container, request, awaited,
                   errors, result, posts, sent, faults, calls, revoked>>

PollAgain ==
    /\ agent = "pending"
    /\ agent' = "poll"
    /\ UNCHANGED <<objects, background, route, container, request, awaited,
                   errors, result, posts, sent, faults, got, calls, revoked>>

\* The deadline is looked at when the answer to a poll says that the request
\* is pending; the session may have accepted a decision since.
PollTimeout ==
    /\ agent = "pending"
    /\ agent' = "answer" /\ got' = [got EXCEPT ![request] = "timeout"]
    /\ UNCHANGED <<objects, background, route, container, request, awaited,
                   errors, result, posts, sent, faults, calls, revoked>>

\* approval.resolved; a cancellation, the timeout's too, ends the run.
Resolve ==
    /\ agent = "answer"
    /\ LET ends == got[request] \in {"cancel", "timeout"}
       IN  /\ Emits("resolved", request, IF ends THEN "exited" ELSE "run")
           /\ result' = IF ends THEN "cancelled" ELSE result
    /\ request' = NoRequest
    /\ UNCHANGED <<objects, background, route, container, errors, faults, got,
                   calls, revoked>>

\* The run ends, or an error of the model or of the approval bridge ends it.
AgentExits ==
    /\ awaited = 0
    /\ \/ agent = "run" /\ result' = "completed"
       \/ agent \in {"run", "poll", "read", "pending"} /\ result' = "failed"
    /\ agent' = "exited"
    /\ UNCHANGED <<objects, background, route, container, request, awaited,
                   errors, posts, sent, faults, got, calls, revoked>>

-----------------------------------------------------------------------------
Background ==
    \/ StartRun \/ Activate \/ Mark \/ Stage \/ Exec \/ ReadResult \/ ExecFails
    \/ Complete \/ Catch \/ Revoke \/ Destroy \/ ReportCleanup
Next ==
    \/ Background \/ WorkerDies
    \/ Cancel \/ CancelRevoke \/ CancelDestroy
    \/ \E r \in Requests, d \in Decisions : SubmitDecision(r, d)
    \/ Expire
    \/ CallModel \/ EmitEvent \/ \E r \in Requests : AskApproval(r)
    \/ \E p \in posts : CheckPost(p) \/ AppendPost(p)
    \/ PostTimeout \/ CheckPoll \/ ReadPoll \/ PollAgain \/ PollTimeout
    \/ Resolve \/ AgentExits

Spec == Init /\ [][Next]_vars

\* A failure that is recorded ends the session: excludes that recording it
\* throws too, which the Worker swallows.
Recorded == worker = "catch" /\ worker' = "revoke" => terminal'

\* A step of the background run that is not ended from outside comes to
\* something: exec() ends by sandboxTimeoutMs, a call of the cleanup by
\* destroyTimeoutMs, and any other returns, throws or hangs, which is a step
\* of this module too.
FairSpec ==
    /\ Init /\ [][Next /\ Recorded]_vars
    /\ WF_vars(Background /\ Recorded)

-----------------------------------------------------------------------------
(* Properties *)

\* Every variable has its type.
TypeOK ==
    /\ session \in [status : Statuses, cancelRequested : BOOLEAN,
                    error : {"none", "error", "cleanup_failed"},
                    pending : SUBSET Requests, lines : 0..MaxLines,
                    decisions : [Requests -> Decisions \cup {"none"}]]
    /\ capability \in [active : BOOLEAN, used : 0..Budget]
    /\ expired \in BOOLEAN /\ activated \in BOOLEAN /\ cleanup \in BOOLEAN
    /\ worker \in {"new", "activate", "mark", "stage", "exec", "wait",
          "complete", "catch", "revoke", "destroy", "report", "done", "hung", "dead"}
    /\ route \in {"idle", "revoke", "destroy"}
    /\ container \in {"none", "up"}
    /\ agent \in {"off", "run", "poll", "read", "pending", "answer", "exited"}
    /\ request \in Requests \cup {NoRequest}
    /\ posts \subseteq Post /\ awaited \in 0..sent /\ sent \in Nat
    /\ errors \in Nat /\ faults \in 0..MaxFaults
    /\ result \in {"none", "completed", "failed", "cancelled"}
    /\ got \in [Requests -> Answers]
    /\ calls \in Nat /\ revoked \in BOOLEAN

\* A terminal session is final, however late a completion, a failure, a
\* cancellation, a decision or an append that was checked before it arrives:
\* the status, the live events and the decisions stay, nothing is pending.
TerminalIsFinal ==
    [][terminal => /\ session'.status = session.status
                   /\ session'.lines = session.lines
                   /\ session'.decisions = session.decisions
                   /\ session'.pending = {}]_vars

\* After the background run no container is left running, though the cancel
\* route destroys it under its feet, unless the session says the cleanup
\* failed; it takes a second failing call to hide it.
LeakIsReported ==
    worker = "done" /\ faults <= 1 =>
        container = "none" \/ session.error = "cleanup_failed"

\* Every accepted run ends in a terminal status, whichever MaxFaults of its
\* Worker's calls throw, however its command ends and whatever the cancel
\* route does meanwhile, unless a call hangs that the Worker gives no timeout
\* (activation, marking, staging, reading the result, completing, failing), if
\* a failure can be recorded and the background run is not ended from outside.
Settles == session.status = "queued" ~> terminal \/ worker = "hung"

\* The request whose absence of a decision the agent has been told of.
Absent == IF agent = "pending" THEN {request} ELSE {}

\* The control plane keeps what RemoteRun promises of a run: one life, one
\* verdict per approval, the agent acting once, on it or because its last look
\* found none, no more model requests than the budget and none before the run
\* began or after a revocation.
Promise == INSTANCE RemoteRun WITH
    Asked <- Requests, Verdicts <- Decisions, Limit <- Budget,
    status <- session.status, open <- session.pending,
    decided <- session.decisions, acted <- got,
    absent <- Absent, admitted <- calls, cut <- revoked
KeepsPromise == Promise!Spec

\* What test/control-plane.test.ts ("does not claim completion when destroy
\* rejects") says of a run whose cleanup failed.
NoCompletionWithoutCleanup ==
    worker = "done" /\ cleanup => session.status # "completed"
=============================================================================
