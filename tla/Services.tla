------------------------------ MODULE Services ------------------------------
(***************************************************************************)
(* Eight parts of the system that share no state: the subagents of a       *)
(* dispatching run, the tool calls of a model turn, local processes, the   *)
(* stdio MCP client, the subscription credential, the WebSocket front, the *)
(* files of a session under several emitters, the Claude session.          *)
(* A behaviour is one of one of them, chosen at the start; what they would *)
(* do beside each other is the product of what each does alone.            *)
(***************************************************************************)
EXTENDS Integers, FiniteSets

CONSTANTS Agents, Plans, MaxCalls, MaxToolCalls, Runs, Slots, MaxOutput,
          Callers, MaxIds, MaxServers, MaxNoise, Tasks, MaxTokens, MaxRefused,
          Conversations, Connections, MaxControllers, Peers, MaxWriters,
          MaxEvents, MaxAsked, MaxUses

\* The bounds are numbers; nobody and nothing is none of the actors; there is a
\* first writer; a call asks for agents there may be.
ASSUME ServicesAssumption ==
    /\ MaxCalls \in Nat /\ MaxToolCalls \in Nat /\ MaxOutput \in Nat
    /\ IsFiniteSet(Runs) /\ Slots \in Nat
    /\ MaxIds \in Nat /\ MaxServers \in Nat /\ MaxNoise \in Nat
    /\ MaxTokens \in Nat \ {0} /\ MaxRefused \in Nat
    /\ MaxControllers \in Nat /\ MaxWriters \in Nat \ {0} /\ MaxEvents \in Nat
    /\ MaxAsked \in Nat /\ MaxUses \in Nat
    /\ "-" \notin Callers /\ "-" \notin Agents /\ 0 \notin Connections
    /\ "free" \notin Peers
    /\ \A p \in Plans : DOMAIN p.deps \subseteq Agents

VARIABLES
    part,       \* which of the eight this behaviour is one of
    run, call, plan, task, report, pending, due, txn, completed, applied, stop,
    answer, dirs,
    kind, index, high, denied, phase, work, messages, cancelled, outcome,
    slots, step, leader, kin, daemon, pipe, written, reader, captured, stopio,
    result,
    holder, caller, nextId, waitsFor, server, servers, initialized, up, asked,
    ready, stdout, buffer, noise, given,
    stored, valid, refused, expired, minted, locks, stage, force, held, stale,
    exchanged, lost,
    sessions, made, started, closed, conn, wants, has, guard, overdue,
    log, disk, owner, life, sequence, known, emitting, at, alive, strays,
    struck, orphaned,
    host, turns, heeded, session, active, open, awaited, acting, events,
    toSide, toHost, side, use, asks, running, crossed, died, flooded

SA == INSTANCE Subagents
TT == INSTANCE ToolTurn
LP == INSTANCE LocalProcess
MC == INSTANCE McpStdio
CR == INSTANCE Credentials
SO == INSTANCE Sockets
EL == INSTANCE EventLog
CS == INSTANCE ClaudeSession

Parts == {"subagents", "toolturn", "process", "mcp", "credentials", "sockets",
          "eventlog", "claude"}

SubagentsVars == <<run, call, plan, task, report, pending, due, txn, completed,
                   applied, stop, answer, dirs>>
ToolTurnVars == <<kind, index, high, denied, phase, work, messages, cancelled, outcome>>
ProcessVars == <<slots, step, leader, kin, daemon, pipe, written, reader,
                 captured, stopio, result>>
McpVars == <<holder, caller, nextId, waitsFor, server, servers, initialized,
             up, asked, ready, stdout, buffer, noise, given>>
CredentialsVars == <<stored, valid, refused, expired, minted, locks, stage,
                     force, held, stale, exchanged, lost>>
SocketsVars == <<sessions, made, started, closed, conn, wants, has, guard, overdue>>
EventLogVars == <<log, disk, owner, life, sequence, known, emitting, at,
                  alive, strays, struck, orphaned>>
ClaudeVars == <<host, turns, heeded, session, active, open, awaited, acting,
                events, toSide, toHost, side, use, asks, running, crossed, died,
                flooded>>

allVars == <<part, SubagentsVars, ToolTurnVars, ProcessVars, McpVars,
             CredentialsVars, SocketsVars, EventLogVars, ClaudeVars>>

\* The parts that are not at work stay as they were.
TypeOK ==
    /\ part \in Parts
    /\ CASE part = "subagents" -> SA!SubagentsTypeOK
         [] part = "toolturn" -> TT!ToolTurnTypeOK
         [] part = "process" -> LP!LocalProcessTypeOK
         [] part = "mcp" -> MC!McpStdioTypeOK
         [] part = "credentials" -> CR!CredentialsTypeOK
         [] part = "sockets" -> SO!SocketsTypeOK
         [] part = "eventlog" -> EL!EventLogTypeOK
         [] part = "claude" -> CS!ClaudeSessionTypeOK

\* Only the part at work starts in each of its initial states.
Init ==
    /\ part \in Parts
    /\ SA!SubagentsInit /\ LP!LocalProcessInit /\ MC!McpStdioInit
    /\ CR!CredentialsInit /\ SO!SocketsInit
    /\ EL!EventLogInit /\ CS!ClaudeSessionInit
    /\ TT!ToolTurnInit
    /\ part # "toolturn" => \A i \in TT!TurnCalls : kind[i] = "read"

Subagents ==
    /\ part = "subagents" /\ SA!SubagentsNext
    /\ UNCHANGED <<part, ToolTurnVars, ProcessVars, McpVars, CredentialsVars,
                   SocketsVars, EventLogVars, ClaudeVars>>

ToolTurn ==
    /\ part = "toolturn" /\ TT!ToolTurnNext
    /\ UNCHANGED <<part, SubagentsVars, ProcessVars, McpVars, CredentialsVars,
                   SocketsVars, EventLogVars, ClaudeVars>>

Process ==
    /\ part = "process" /\ LP!LocalProcessNext
    /\ UNCHANGED <<part, SubagentsVars, ToolTurnVars, McpVars, CredentialsVars,
                   SocketsVars, EventLogVars, ClaudeVars>>

Mcp ==
    /\ part = "mcp" /\ MC!McpStdioNext
    /\ UNCHANGED <<part, SubagentsVars, ToolTurnVars, ProcessVars, CredentialsVars,
                   SocketsVars, EventLogVars, ClaudeVars>>

Credentials ==
    /\ part = "credentials" /\ CR!CredentialsNext
    /\ UNCHANGED <<part, SubagentsVars, ToolTurnVars, ProcessVars, McpVars,
                   SocketsVars, EventLogVars, ClaudeVars>>

Sockets ==
    /\ part = "sockets" /\ SO!SocketsNext
    /\ UNCHANGED <<part, SubagentsVars, ToolTurnVars, ProcessVars, McpVars,
                   CredentialsVars, EventLogVars, ClaudeVars>>

EventLog ==
    /\ part = "eventlog" /\ EL!EventLogNext
    /\ UNCHANGED <<part, SubagentsVars, ToolTurnVars, ProcessVars, McpVars,
                   CredentialsVars, SocketsVars, ClaudeVars>>

Claude ==
    /\ part = "claude" /\ CS!ClaudeSessionNext
    /\ UNCHANGED <<part, SubagentsVars, ToolTurnVars, ProcessVars, McpVars,
                   CredentialsVars, SocketsVars, EventLogVars>>

Next ==
    \/ Subagents \/ ToolTurn \/ Process \/ Mcp
    \/ Credentials \/ Sockets \/ EventLog \/ Claude

Spec == Init /\ [][Next]_allVars

-----------------------------------------------------------------------------
(* The properties of the parts, each stated with its part                  *)

(* An agent runs on what it depends on (run_dispatch_subagents).           *)
WaveOrder == part = "subagents" => SA!WaveOrder

(* The report of a dispatching call is whole (run_dispatch_subagents).     *)
ReportIsWhole == part = "subagents" => SA!ReportIsWhole

(* Answers in the order of the calls; no tool outlives its turn            *)
(* (TurnEngine.run, execute_read_only_batch).                              *)
TurnInOrder == part = "toolturn" => TT!TurnInOrder

(* Callback slots come back exactly once (run_local_process).              *)
SlotsConserved == part = "process" => LP!SlotsConserved

(* What a process's caller is told of it is true (run_local_process).      *)
ResultIsTrue == part = "process" => LP!ResultIsTrue

(* An answer is the answer to the request (StdioMcpClient).                *)
AnswerIsOwn == part = "mcp" => MC!AnswerIsOwn

(* One refresh at a time, on the newest token (CodexCredentialManager).    *)
TokenChain == part = "credentials" => CR!TokenChain

(* A connection has its conversation to itself (ConversationWebSocketApp). *)
OwnController == part = "sockets" => SO!OwnController

(* The log in order, the manifest in step, unless a write strays           *)
(* (RunPersistence.emit, SessionStore).                                    *)
OnlyStraysBreak == part = "eventlog" => EL!OnlyStraysBreak

(* Session and sidecar in step (ClaudeAgentSession, its sidecar).          *)
InStep == part = "claude" => CS!InStep
=============================================================================
