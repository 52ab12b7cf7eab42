------------------------------- MODULE Sockets -------------------------------
(***************************************************************************)
(* The WebSocket front of the conversation runtime: connections come with  *)
(* a conversation id, share that conversation's controller one after the   *)
(* other, and leave it behind; a connection that comes evicts the          *)
(* conversations nobody was connected to for too long.                     *)
(*                                                                         *)
(* A controller closes itself when a turn raises, and when it is evicted.  *)
(***************************************************************************)
EXTENDS Integers, FiniteSets

CONSTANTS
    Conversations,  \* ids clients ask for
    Connections,    \* connections there will be
    MaxControllers  \* bound: controllers made

Controllers == 1..MaxControllers

VARIABLES
    sessions,   \* [conversation -> its _ManagedSession]
    made,       \* controllers made
    started,    \* controllers whose session was started (_started)
    closed,     \* controllers closed
    conn,       \* [connection -> where it is]
    wants,      \* [connection -> its conversation]
    has,        \* [connection -> the controller it was given]
    guard,      \* who holds _sessions_lock across an await
    overdue     \* conversations past the idle timeout, as the clock has it

socketVars == <<sessions, made, started, closed, conn, wants, has, guard, overdue>>

Free == 0
Unknown == "-"
NoSession == [controller |-> 0, connected |-> FALSE]
Places == {"new", "evicting", "opening", "attached", "turn", "leaving", "gone"}

SocketsTypeOK ==
    /\ sessions \in [Conversations ->
           [controller : Controllers \cup {0}, connected : BOOLEAN]]
    /\ made \in 0..MaxControllers
    /\ started \cup closed \subseteq Controllers
    /\ conn \in [Connections -> Places]
    /\ wants \in [Connections -> Conversations \cup {Unknown}]
    /\ has \in [Connections -> Controllers \cup {0}]
    /\ guard \in Connections \cup {Free}
    /\ overdue \subseteq Conversations

SocketsInit ==
    /\ sessions = [v \in Conversations |-> NoSession]
    /\ made = 0 /\ started = {} /\ closed = {}
    /\ conn = [k \in Connections |-> "new"]
    /\ wants = [k \in Connections |-> Unknown]
    /\ has = [k \in Connections |-> 0]
    /\ guard = Free /\ overdue = {}

Goes(k, to) == conn' = [conn EXCEPT ![k] = to]
Known(v) == sessions[v].controller # 0

-----------------------------------------------------------------------------
(* _acquire_session, under the lock                                        *)

Connect(k, v) ==
    /\ conn[k] = "new" /\ guard = Free
    /\ wants' = [wants EXCEPT ![k] = v]
    /\ guard' = k /\ Goes(k, "evicting")
    /\ UNCHANGED <<sessions, made, started, closed, has, overdue>>

Idle == {v \in overdue : Known(v) /\ ~sessions[v].connected}

\* An idle conversation leaves the table, then its controller is closed; an
\* error on closing ends the connection.
Evict(k, v) ==
    /\ conn[k] = "evicting" /\ v \in Idle
    /\ sessions' = [sessions EXCEPT ![v] = NoSession]
    /\ overdue' = overdue \ {v}
    /\ closed' = closed \cup {sessions[v].controller}
    /\ \/ UNCHANGED <<conn, guard>>
       \/ Goes(k, "gone") /\ guard' = Free
    /\ UNCHANGED <<made, started, wants, has>>

\* Mutant: a conversation is given to whoever asks.
TakenNever(v) == FALSE

Taken(v) == Known(v) /\ sessions[v].connected

Acquire(k) ==
    /\ conn[k] = "evicting" /\ Idle = {}
    /\ guard' = Free
    /\ LET v == wants[k] IN
       \/ \* another connection has it
          /\ Taken(v)
          /\ Goes(k, "gone")
          /\ UNCHANGED <<sessions, made, has, overdue>>
       \/ /\ Known(v) /\ ~Taken(v)
          /\ sessions' = [sessions EXCEPT ![v].connected = TRUE]
          /\ overdue' = overdue \ {v}
          /\ has' = [has EXCEPT ![k] = sessions[v].controller]
          /\ Goes(k, "opening") /\ UNCHANGED made
       \/ /\ ~Known(v) /\ made < MaxControllers
          /\ made' = made + 1
          /\ sessions' = [sessions EXCEPT ![v] =
                              [controller |-> made + 1, connected |-> TRUE]]
          /\ has' = [has EXCEPT ![k] = made + 1]
          /\ Goes(k, "opening") /\ UNCHANGED overdue
       \/ \* the factory has no more sessions to give
          /\ ~Known(v) /\ Goes(k, "gone")
          /\ UNCHANGED <<sessions, made, has, overdue>>
    /\ UNCHANGED <<started, closed, wants>>

-----------------------------------------------------------------------------
(* The connection                                                          *)

\* Accepted and told its context, then the receive loop.
Attach(k) ==
    /\ conn[k] = "opening"
    /\ Goes(k, "attached")
    /\ UNCHANGED <<sessions, made, started, closed, wants, has, guard, overdue>>

\* The client is gone already: an exception ahead of the loop's `finally`,
\* which leaves the conversation connected for ever.
OpenFails(k) ==
    /\ conn[k] = "opening"
    /\ Goes(k, "gone")
    /\ UNCHANGED <<sessions, made, started, closed, wants, has, guard, overdue>>

\* A turn; on a closed controller it raises.
Turn(k) ==
    /\ conn[k] = "attached"
    /\ IF has[k] \in closed
       THEN Goes(k, "leaving") /\ UNCHANGED started
       ELSE Goes(k, "turn") /\ started' = started \cup {has[k]}
    /\ UNCHANGED <<sessions, made, closed, wants, has, guard, overdue>>

TurnEnds(k) ==
    /\ conn[k] = "turn"
    /\ Goes(k, "attached")
    /\ UNCHANGED <<sessions, made, started, closed, wants, has, guard, overdue>>

\* The turn raises, from the runtime or because the client is gone and an
\* event cannot be sent: the controller closes.
TurnFails(k) ==
    /\ conn[k] = "turn"
    /\ closed' = closed \cup {has[k]}
    /\ Goes(k, "leaving")
    /\ UNCHANGED <<sessions, made, started, wants, has, guard, overdue>>

Disconnect(k) ==
    /\ conn[k] = "attached"
    /\ Goes(k, "leaving")
    /\ UNCHANGED <<sessions, made, started, closed, wants, has, guard, overdue>>

\* _release_session, by conversation id.
Release(k) ==
    /\ conn[k] = "leaving" /\ guard = Free
    /\ IF Known(wants[k])
       THEN sessions' = [sessions EXCEPT ![wants[k]].connected = FALSE]
       ELSE UNCHANGED sessions
    /\ Goes(k, "gone")
    /\ UNCHANGED <<made, started, closed, wants, has, guard, overdue>>

\* Time passes.
Expire(v) ==
    /\ Known(v) /\ ~sessions[v].connected /\ v \notin overdue
    /\ overdue' = overdue \cup {v}
    /\ UNCHANGED <<sessions, made, started, closed, conn, wants, has, guard>>

SocketsNext ==
    \/ \E k \in Connections :
           \/ \E v \in Conversations : Connect(k, v) \/ Evict(k, v)
           \/ Acquire(k) \/ Attach(k) \/ OpenFails(k) \/ Turn(k) \/ TurnEnds(k)
           \/ TurnFails(k) \/ Disconnect(k) \/ Release(k)
    \/ \E v \in Conversations : Expire(v)

-----------------------------------------------------------------------------
(* Properties                                                              *)

Served(k) == conn[k] \in {"opening", "attached", "turn", "leaving"}

(* A connection has its conversation to itself for as long as it is        *)
(* served: the table still holds the controller it was given, nobody else  *)
(* was given it, and only a turn of its own, never an eviction, closes it  *)
(* under a turn (ConversationWebSocketApp, _acquire_session and            *)
(* _release_session).                                                      *)
OwnController == \A k \in Connections : Served(k) =>
    /\ sessions[wants[k]] = [controller |-> has[k], connected |-> TRUE]
    /\ \A j \in Connections \ {k} : Served(j) => has[j] # has[k]
    /\ conn[k] = "turn" => has[k] \notin closed
=============================================================================
