------------------------------- MODULE McpStdio -------------------------------
(***************************************************************************)
(* The stdio MCP client: threads of one session share a client, its lock   *)
(* and its server process.  A request is one line down the server's stdin; *)
(* the answer is looked for among the lines of its stdout, by id.  A       *)
(* request that runs out of time takes the server down; a server that died *)
(* stays where it is.                                                      *)
(*                                                                         *)
(* The client waits with select on the pipe but reads through a text       *)
(* buffer: lines read ahead into the buffer do not make select ready.      *)
(***************************************************************************)
EXTENDS Integers, Sequences

CONSTANTS
    Callers,        \* threads that call the client
    MaxIds,         \* bound: request ids
    MaxServers,     \* bound: server processes
    MaxNoise        \* bound: lines that answer nothing, per server

VARIABLES
    holder,     \* who holds the client's lock
    caller,     \* [caller -> where it is]
    nextId,     \* _next_id
    waitsFor,   \* the id whose answer the holder looks for
    server,     \* the client's _process: its number; 0 for none
    servers,    \* servers started so far
    initialized,\* _initialized
    up,         \* servers alive
    asked,      \* requests the server has not answered yet
    ready,      \* server has had "initialize" and the notification after it
    stdout,     \* lines in the pipe
    buffer,     \* lines read ahead by the client
    noise,      \* lines the server may still write unasked
    given       \* [caller -> what its call returned]

mcpVars == <<holder, caller, nextId, waitsFor, server, servers, initialized,
             up, asked, ready, stdout, buffer, noise, given>>

Nobody == "-"
Noise == [server |-> 0, id |-> 0]
Lines == [server : 0..MaxServers, id : 0..MaxIds]
NoAnswer == [how |-> "none", line |-> Noise, id |-> 0, server |-> 0]

McpStdioTypeOK ==
    /\ holder \in Callers \cup {Nobody}
    /\ caller \in [Callers -> {"idle", "locked", "hello", "greeted", "call", "back"}]
    /\ nextId \in 1..MaxIds + 1 /\ waitsFor \in 0..MaxIds
    /\ server \in 0..MaxServers /\ servers \in 0..MaxServers
    /\ initialized \in BOOLEAN /\ ready \in BOOLEAN
    /\ up \subseteq 1..MaxServers
    /\ asked \subseteq 1..MaxIds
    /\ \A i \in DOMAIN stdout : stdout[i] \in Lines
    /\ \A i \in DOMAIN buffer : buffer[i] \in Lines
    /\ noise \in 0..MaxNoise
    /\ given \in [Callers -> [how : {"none", "result", "error"}, line : Lines,
                               id : 0..MaxIds, server : 0..MaxServers]]

McpStdioInit ==
    /\ holder = Nobody /\ caller = [c \in Callers |-> "idle"]
    /\ nextId = 1 /\ waitsFor = 0
    /\ server = 0 /\ servers = 0 /\ initialized = FALSE
    /\ up = {} /\ asked = {} /\ ready = FALSE
    /\ stdout = <<>> /\ buffer = <<>> /\ noise = MaxNoise
    /\ given = [c \in Callers |-> NoAnswer]

At(c, where) == holder = c /\ caller[c] = where
Goes(c, to) == caller' = [caller EXCEPT ![c] = to]

\* The call returns, by a result or an exception, and the lock is free.
Returns(c, how, line) ==
    /\ holder' = Nobody /\ Goes(c, "back")
    /\ given' = [given EXCEPT ![c] =
           [how |-> how, line |-> line, id |-> waitsFor, server |-> server]]
    /\ waitsFor' = 0

-----------------------------------------------------------------------------
(* A call                                                                  *)

Lock(c) ==
    /\ holder = Nobody /\ caller[c] = "idle"
    /\ holder' = c /\ Goes(c, "locked")
    /\ UNCHANGED <<nextId, waitsFor, server, servers, initialized, up, asked,
                   ready, stdout, buffer, noise, given>>

\* A server is started when the client has none.
Start(c) ==
    /\ At(c, "locked") /\ server = 0 /\ servers < MaxServers
    /\ server' = servers + 1 /\ servers' = servers + 1
    /\ up' = up \cup {servers + 1}
    /\ asked' = {} /\ ready' = FALSE
    /\ stdout' = <<>> /\ buffer' = <<>> /\ noise' = MaxNoise
    /\ UNCHANGED <<holder, caller, nextId, waitsFor, initialized, given>>

StartFails(c) ==
    /\ At(c, "locked") /\ server = 0
    /\ Returns(c, "error", Noise)
    /\ UNCHANGED <<nextId, server, servers, initialized, up, asked, ready,
                   stdout, buffer, noise>>

\* A request is written: "initialize" first, then the one of the call.
Ask(c, to) ==
    /\ server \in up /\ nextId <= MaxIds
    /\ Goes(c, to) /\ waitsFor' = nextId /\ nextId' = nextId + 1
    /\ asked' = asked \cup {nextId}
    /\ UNCHANGED <<holder, server, servers, initialized, up, ready, stdout,
                   buffer, noise, given>>

Initialize(c) == At(c, "locked") /\ server # 0 /\ ~initialized /\ Ask(c, "hello")

Request(c) ==
    /\ \/ At(c, "locked") /\ server # 0
       \/ At(c, "greeted")
    /\ initialized
    /\ Ask(c, "call")

\* The answer to "initialize" came: the notification, then the call goes on.
Greet(c) ==
    /\ At(c, "greeted") /\ ~initialized /\ server \in up
    /\ initialized' = TRUE /\ ready' = TRUE
    /\ UNCHANGED <<holder, caller, nextId, waitsFor, server, servers, up,
                   asked, stdout, buffer, noise, given>>

\* Nobody reads the pipe any more: BrokenPipeError; the dead server stays.
WriteFails(c) ==
    /\ At(c, "locked") \/ At(c, "greeted")
    /\ server # 0 /\ server \notin up
    /\ Returns(c, "error", Noise)
    /\ UNCHANGED <<nextId, server, servers, initialized, up, asked, ready,
                   stdout, buffer, noise>>

Waiting(c) == At(c, "hello") \/ At(c, "call")

\* select is ready: there is something in the pipe, or it is closed.
Selected == stdout # <<>> \/ server \notin up

\* Mutant: the next line is taken for the answer.
MatchesAny(line) == TRUE

Matches(line) == line.id = waitsFor

\* One line is taken; the buffer takes what is in the pipe when it is empty.
\* Lines that do not match are skipped.  The answer goes to the call, or to
\* _initialize; a JSON-RPC error ends either.
ReadLine(c) ==
    /\ Waiting(c) /\ Selected /\ buffer \o stdout # <<>>
    /\ LET all == buffer \o stdout IN
       /\ IF buffer = <<>> THEN buffer' = Tail(all) /\ stdout' = <<>>
                           ELSE buffer' = Tail(buffer) /\ UNCHANGED stdout
       /\ \/ /\ ~Matches(Head(all))
             /\ UNCHANGED <<holder, caller, waitsFor, given>>
          \/ /\ Matches(Head(all)) /\ caller[c] = "hello"
             /\ Goes(c, "greeted") /\ waitsFor' = 0
             /\ UNCHANGED <<holder, given>>
          \/ /\ Matches(Head(all)) /\ caller[c] = "call"
             /\ Returns(c, "result", Head(all))
          \/ Matches(Head(all)) /\ Returns(c, "error", Head(all))
    /\ UNCHANGED <<nextId, server, servers, initialized, up, asked, ready, noise>>

\* End of file: an exception; the client keeps the dead server.
EndOfFile(c) ==
    /\ Waiting(c) /\ server \notin up /\ buffer \o stdout = <<>>
    /\ Returns(c, "error", Noise)
    /\ UNCHANGED <<nextId, server, servers, initialized, up, asked, ready,
                   stdout, buffer, noise>>

\* close(): the server is terminated, then killed.
Close ==
    /\ server' = 0 /\ initialized' = FALSE /\ up' = up \ {server}
    /\ UNCHANGED <<nextId, servers, asked, ready, stdout, buffer, noise>>

TimesOut(c) == Waiting(c) /\ Close /\ Returns(c, "error", Noise)

\* The run is over, and with it its calls.
CloseClient == holder = Nobody /\ server # 0 /\ Close
               /\ UNCHANGED <<holder, caller, waitsFor, given>>

\* The caller's next call.
Again(c) ==
    /\ caller[c] = "back" /\ Goes(c, "idle")
    /\ given' = [given EXCEPT ![c] = NoAnswer]
    /\ UNCHANGED <<holder, nextId, waitsFor, server, servers, initialized, up,
                   asked, ready, stdout, buffer, noise>>

-----------------------------------------------------------------------------
(* The server (external)                                                   *)

Reply(id) ==
    /\ server \in up /\ id \in asked
    /\ asked' = asked \ {id}
    /\ stdout' = Append(stdout, [server |-> server, id |-> id])
    /\ UNCHANGED <<holder, caller, nextId, waitsFor, server, servers,
                   initialized, up, ready, buffer, noise, given>>

Chatter ==
    /\ server \in up /\ noise > 0
    /\ noise' = noise - 1 /\ stdout' = Append(stdout, Noise)
    /\ UNCHANGED <<holder, caller, nextId, waitsFor, server, servers,
                   initialized, up, asked, ready, buffer, given>>

Dies ==
    /\ server \in up
    /\ up' = up \ {server}
    /\ UNCHANGED <<holder, caller, nextId, waitsFor, server, servers,
                   initialized, asked, ready, stdout, buffer, noise, given>>

McpStdioNext ==
    \/ \E c \in Callers :
           \/ Lock(c) \/ Start(c) \/ StartFails(c) \/ Initialize(c) \/ Greet(c)
           \/ Request(c) \/ WriteFails(c) \/ ReadLine(c)
           \/ EndOfFile(c) \/ TimesOut(c) \/ Again(c)
    \/ CloseClient
    \/ \E id \in 1..MaxIds : Reply(id)
    \/ Chatter \/ Dies

-----------------------------------------------------------------------------
(* Properties                                                              *)

(* A call returns the answer to its own request, given by the server it    *)
(* asked, not a notification and not what a call that timed out left       *)
(* over; no server is asked for a tool before the handshake with that very *)
(* server, whatever timeouts, deaths and restarts came before; and no      *)
(* server but the client's own is alive (StdioMcpClient._request).         *)
AnswerIsOwn ==
    /\ \A c \in Callers : given[c].how = "result" =>
           given[c].line = [server |-> given[c].server, id |-> given[c].id]
    /\ \A c \in Callers : At(c, "call") => ready
    /\ up \subseteq {server} \ {0}
=============================================================================
