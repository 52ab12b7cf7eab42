---------------------------- MODULE ClaudeSession ----------------------------
(***************************************************************************)
(* The Claude runtime session: the controller's turn, the session object   *)
(* and its reader task, and the Node sidecar that drives the Agent SDK.    *)
(* Frames travel one way and the other through pipes, so an interrupt or   *)
(* an approval may cross the end of the turn it is about.                  *)
(*                                                                         *)
(* Tool uses are numbered through the life of a session; texts, previews,  *)
(* decisions, telemetry and the handshake are left out.                    *)
(***************************************************************************)
EXTENDS Integers, Sequences

CONSTANTS
    MaxAsked,   \* bound: turns
    MaxUses     \* bound: tool uses

VARIABLES
    host,       \* the controller's turn: where it is
    turns,      \* turns sent
    heeded,     \* the turn was interrupted
    session,    \* "ready", "failed" (_fatal) or "closed"
    active,     \* _active_turn; 0 for none
    open,       \* _pending_approvals
    awaited,    \* the use whose approval_accepted is awaited; 0 for none
    acting,     \* _started_actions
    events,     \* the event queue
    toSide,     \* frames on the sidecar's stdin
    toHost,     \* frames on its stdout
    side,       \* the sidecar's activeTurn; 0 for none
    use,        \* [use -> the SDK's tool use]
    asks,       \* the sidecar's pendingApprovals
    running,    \* the sidecar is alive
    crossed,    \* history: a frame reached the sidecar after its turn's end
    died,       \* history: the sidecar or the SDK failed of its own accord
    flooded     \* history: the sidecar's output passed the host's bounds

claudeVars == <<host, turns, heeded, session, active, open, awaited, acting,
                events, toSide, toHost, side, use, asks, running, crossed, died,
                flooded>>

Turns == 1..MaxAsked
Uses == 1..MaxUses
Frame(type, turn, id) == [type |-> type, turn |-> turn, id |-> id]
Unused == [state |-> "none", turn |-> 0]
States == {"none", "started", "asked", "answered", "ended"}

ClaudeSessionTypeOK ==
    /\ host \in {"idle", "sending", "reading", "answering", "over"}
    /\ turns \in 0..MaxAsked /\ heeded \in BOOLEAN
    /\ session \in {"ready", "failed", "closed"}
    /\ active \in 0..MaxAsked /\ side \in 0..MaxAsked
    /\ open \cup acting \cup asks \subseteq Uses /\ awaited \in 0..MaxUses
    /\ use \in [Uses -> [state : States, turn : 0..MaxAsked]]
    /\ running \in BOOLEAN
    /\ crossed \in BOOLEAN /\ died \in BOOLEAN /\ flooded \in BOOLEAN

ClaudeSessionInit ==
    /\ host = "idle" /\ turns = 0 /\ heeded = FALSE
    /\ session = "ready" /\ active = 0
    /\ open = {} /\ awaited = 0 /\ acting = {} /\ events = <<>>
    /\ toSide = <<>> /\ toHost = <<>> /\ side = 0
    /\ use = [u \in Uses |-> Unused] /\ asks = {} /\ running = TRUE
    /\ crossed = FALSE /\ died = FALSE /\ flooded = FALSE

sidecar == <<side, use, asks, running, crossed, died, flooded>>
Writes(frame) == toSide' = Append(toSide, frame)
Queue(event) == events' = Append(events, event)

-----------------------------------------------------------------------------
(* The controller's turn                                                   *)

SendTurn ==
    /\ host = "idle" /\ session = "ready" /\ running
    /\ active = 0 /\ turns < MaxAsked
    /\ turns' = turns + 1 /\ active' = turns + 1
    /\ host' = "sending" /\ heeded' = FALSE
    /\ Writes(Frame("turn", turns + 1, 0))
    /\ UNCHANGED <<session, open, awaited, acting, events, toHost, sidecar>>

\* One interrupt per turn, refused when its end is already in the queue.
Interrupt ==
    /\ host = "reading" /\ session = "ready" /\ running
    /\ ~heeded /\ active = turns
    /\ heeded' = TRUE /\ Writes(Frame("interrupt", turns, 0))
    /\ UNCHANGED <<host, turns, session, active, open, awaited, acting,
                   events, toHost, sidecar>>

\* The next event: an approval is answered, the terminal event ends the turn.
TakeEvent ==
    /\ host = "reading" /\ events # <<>>
    /\ events' = Tail(events)
    /\ LET event == Head(events) IN
       \/ /\ event.type = "turn_completed" /\ host' = "idle"
          /\ UNCHANGED <<awaited, toSide>>
       \/ /\ event.type = "approval_requested"
          /\ session = "ready" /\ running /\ event.id \in open
          /\ host' = "answering" /\ awaited' = event.id
          /\ Writes(Frame("approval", event.turn, event.id))
       \/ /\ event.type \notin {"turn_completed", "approval_requested"}
          /\ UNCHANGED <<host, awaited, toSide>>
    /\ UNCHANGED <<turns, heeded, session, active, open, acting, toHost,
                   sidecar>>

\* Whatever raises closes the conversation: the session failed, the sidecar is
\* gone, the approval or the turn to interrupt is; so does a timeout.
Close ==
    /\ host # "over"
    /\ host' = "over" /\ session' = "closed" /\ running' = FALSE
    /\ UNCHANGED <<turns, heeded, active, open, awaited, acting, events,
                   toSide, toHost, side, use, asks, crossed, died, flooded>>

-----------------------------------------------------------------------------
(* The reader task                                                         *)

Receives(type) ==
    /\ session = "ready" /\ toHost # <<>> /\ Head(toHost).type = type
    /\ toHost' = Tail(toHost)

ReadAccepted ==
    /\ Receives("turn_accepted") /\ host = "sending"
    /\ host' = "reading"
    /\ UNCHANGED <<turns, heeded, session, active, open, awaited, acting,
                   events, toSide, sidecar>>

\* An acknowledgement is the awaited one's, and its request still pending.
Acknowledged(u) == awaited = u /\ u \in open

ReadApproved ==
    /\ Receives("approval_accepted") /\ Acknowledged(Head(toHost).id)
    /\ open' = open \ {Head(toHost).id} /\ awaited' = 0 /\ host' = "reading"
    /\ Queue(Frame("approval_resolved", active, Head(toHost).id))
    /\ UNCHANGED <<turns, heeded, session, active, acting, toSide, sidecar>>

\* A frame of the active turn: a tool begins, asks, ends.
ReadTool ==
    /\ \E type \in {"tool_started", "approval_requested", "tool_completed"} :
           Receives(type)
    /\ LET frame == Head(toHost) IN
       /\ frame.turn = active
       /\ \/ /\ frame.type = "tool_started" /\ frame.id \notin acting
             /\ acting' = acting \cup {frame.id} /\ UNCHANGED open
          \/ /\ frame.type = "approval_requested" /\ frame.id \in acting
             /\ open' = open \cup {frame.id} /\ UNCHANGED acting
          \/ /\ frame.type = "tool_completed" /\ frame.id \in acting
             /\ acting' = acting \ {frame.id} /\ UNCHANGED open
       /\ Queue(frame)
    /\ UNCHANGED <<host, turns, heeded, session, active, awaited, toSide,
                   sidecar>>

\* The end of the turn: no action is open, and no approval stays pending.
ReadEnded ==
    /\ Receives("turn_completed") /\ Head(toHost).turn = active /\ acting = {}
    /\ active' = 0 /\ open' = {}
    /\ Queue(Head(toHost))
    /\ UNCHANGED <<host, turns, heeded, session, awaited, acting, toSide,
                   sidecar>>

\* Any other frame, or the end of the stream, fails the session.
Unexpected ==
    IF toHost = <<>> THEN ~running
    ELSE LET frame == Head(toHost) IN
         CASE frame.type = "turn_accepted" -> host # "sending"
           [] frame.type = "approval_accepted" -> ~Acknowledged(frame.id)
           [] frame.type = "fatal" -> TRUE
           [] OTHER -> \/ frame.turn # active
                       \/ frame.type = "tool_started" /\ frame.id \in acting
                       \/ /\ frame.type \in {"approval_requested", "tool_completed"}
                          /\ frame.id \notin acting
                       \/ frame.type = "turn_completed" /\ acting # {}

Fail ==
    /\ session = "ready" /\ Unexpected
    /\ session' = "failed" /\ running' = FALSE
    /\ UNCHANGED <<host, turns, heeded, active, open, awaited, acting, events,
                   toSide, toHost, side, use, asks, crossed, died, flooded>>

\* So does a frame past the number or the size the host takes in a session's
\* life; the frames left out here (texts, previews, telemetry) count as well,
\* so that any one may be it.
Flood ==
    /\ session = "ready"
    /\ session' = "failed" /\ running' = FALSE /\ flooded' = TRUE
    /\ UNCHANGED <<host, turns, heeded, active, open, awaited, acting, events,
                   toSide, toHost, side, use, asks, crossed, died>>

-----------------------------------------------------------------------------
(* The sidecar's reader                                                    *)

controller == <<host, turns, heeded, session, active, open, awaited, acting, events>>
Says(frames) == toHost' = toHost \o frames
Hears(type) == /\ running /\ toSide # <<>> /\ Head(toSide).type = type
               /\ toSide' = Tail(toSide)

HearTurn ==
    /\ Hears("turn") /\ side = 0
    /\ side' = Head(toSide).turn
    /\ Says(<<Frame("turn_accepted", side', 0)>>)
    /\ UNCHANGED <<controller, use, asks, running, crossed, died, flooded>>

\* The request is looked up, whether or not its turn is over.
HearAnswer ==
    /\ Hears("approval")
    /\ LET frame == Head(toSide) IN
       /\ frame.id \in asks
       /\ asks' = asks \ {frame.id}
       /\ Says(<<Frame("approval_accepted", frame.turn, frame.id)>>)
       /\ crossed' = (crossed \/ frame.turn # side)
       /\ use' = IF use[frame.id].state = "asked"
                 THEN [use EXCEPT ![frame.id].state = "answered"]
                 ELSE use
    /\ UNCHANGED <<controller, side, running, died, flooded>>

\* agentQuery.interrupt(): what the SDK makes of it is up to the SDK.
HearInterrupt ==
    /\ Hears("interrupt") /\ Head(toSide).turn = side
    /\ UNCHANGED <<controller, toHost, side, use, asks, running, crossed,
                   died, flooded>>

\* "invalid interrupt", "stale or invalid approval": the sidecar gives up.
HearsBadly ==
    /\ running /\ toSide # <<>>
    /\ LET frame == Head(toSide) IN
       /\ CASE frame.type = "turn" -> side # 0
            [] frame.type = "interrupt" -> frame.turn # side
            [] OTHER -> frame.id \notin asks
       /\ crossed' = (crossed \/ frame.turn # side)
    /\ toSide' = Tail(toSide) /\ Says(<<Frame("fatal", side, 0)>>) /\ running' = FALSE
    /\ UNCHANGED <<controller, side, use, asks, died, flooded>>

-----------------------------------------------------------------------------
(* The SDK (external), through the sidecar's callbacks and message loop    *)

InUse(u) == use[u].state \in {"started", "asked", "answered"}
Becomes(u, state) == use' = [use EXCEPT ![u].state = state]

\* ensureAction: the first the sidecar hears of a tool use.
UseTool(u) ==
    /\ running /\ side # 0 /\ use[u].state = "none"
    /\ \A v \in Uses : v < u => use[v].state # "none"
    /\ use' = [use EXCEPT ![u] = [state |-> "started", turn |-> side]]
    /\ Says(<<Frame("tool_started", side, u)>>)
    /\ UNCHANGED <<controller, toSide, side, asks, running, crossed, died,
                   flooded>>

\* canUseTool of a tool that is not read-only.
AskHost(u) ==
    /\ running /\ use[u] = [state |-> "started", turn |-> side]
    /\ Becomes(u, "asked") /\ asks' = asks \cup {u}
    /\ Says(<<Frame("approval_requested", side, u)>>)
    /\ UNCHANGED <<controller, toSide, side, running, crossed, died, flooded>>

\* toolResult: it ran, failed, was denied, or was aborted while its approval is
\* waited for; the sidecar only looks the action up, and the request of an
\* aborted one stays in pendingApprovals.
ToolResult(u) ==
    /\ running /\ InUse(u)
    /\ Becomes(u, "ended")
    /\ Says(<<Frame("tool_completed", use[u].turn, u)>>)
    /\ UNCHANGED <<controller, toSide, side, asks, running, crossed, died,
                   flooded>>

\* Mutant: what the turn leaves open is not closed.
ResultOnly ==
    /\ running /\ side # 0
    /\ Says(<<Frame("turn_completed", side, 0)>>)
    /\ use' = [u \in Uses |-> IF InUse(u) THEN [use[u] EXCEPT !.state = "ended"] ELSE use[u]]
    /\ side' = 0
    /\ UNCHANGED <<controller, toSide, asks, running, crossed, died, flooded>>

\* The actions left open, in the order they were begun.
LeftOpen(order) ==
    /\ {order[i] : i \in DOMAIN order} = {u \in Uses : InUse(u)}
    /\ \A i, j \in DOMAIN order : i < j => order[i] < order[j]

\* The result message: a successful turn has no tool open, an interrupted or
\* failed one has its open tools closed first.  An approval that is waited for
\* is aborted, its request stays in pendingApprovals.
Result ==
    /\ running /\ side # 0
    /\ \E n \in 0..MaxUses : \E order \in [1..n -> Uses] :
           /\ LeftOpen(order)
           /\ Says([i \in 1..n |-> Frame("tool_completed", side, order[i])]
                   \o <<Frame("turn_completed", side, 0)>>)
    /\ use' = [u \in Uses |-> IF InUse(u) THEN [use[u] EXCEPT !.state = "ended"] ELSE use[u]]
    /\ side' = 0
    /\ UNCHANGED <<controller, toSide, asks, running, crossed, died, flooded>>

\* The SDK or the sidecar fails of its own accord, with a last frame or not.
SideDies ==
    /\ running
    /\ running' = FALSE /\ died' = TRUE
    /\ \/ Says(<<Frame("fatal", side, 0)>>)
       \/ UNCHANGED toHost
    /\ UNCHANGED <<controller, toSide, side, use, asks, crossed, flooded>>

ClaudeSessionNext ==
    \/ SendTurn \/ Interrupt \/ TakeEvent \/ Close
    \/ ReadAccepted \/ ReadApproved \/ ReadTool \/ ReadEnded
    \/ Fail \/ Flood
    \/ HearTurn \/ HearAnswer \/ HearInterrupt \/ HearsBadly
    \/ \E u \in Uses : UseTool(u) \/ AskHost(u) \/ ToolResult(u)
    \/ Result \/ SideDies

-----------------------------------------------------------------------------
(* Properties                                                              *)

(* The two sides stay in step: a session fails only if an interrupt or an  *)
(* approval crossed the end of its turn, the sidecar died or said more     *)
(* than the host takes, never over frames in another order; with the pipes *)
(* empty both know the same turn, the same open tools and, of the turn's   *)
(* requests, the same ones unanswered, those of tools that were aborted    *)
(* meanwhile too; and a controller that waits for an acknowledgement waits *)
(* for one that is coming (ClaudeAgentSession and its sidecar).            *)
InStep ==
    /\ session = "failed" => crossed \/ died \/ flooded
    /\ session = "ready" /\ running /\ toSide = <<>> /\ toHost = <<>> =>
           /\ active = side
           /\ acting = {u \in Uses : InUse(u)}
           /\ open = {u \in asks : use[u].turn = side}
           /\ host \notin {"sending", "answering"}
=============================================================================
