----------------------------- MODULE Credentials -----------------------------
(***************************************************************************)
(* The Codex subscription credential: one file, the processes that use it, *)
(* in each a CodexCredentialManager whose lock lets one task refresh at a  *)
(* time, and the service, which gives a new refresh token for an old one   *)
(* and takes each only once.                                               *)
(*                                                                         *)
(* A credential (access and refresh token) is a number.  Tasks are the     *)
(* model requests of a process (OpenAICodexResponsesModel.complete).       *)
(***************************************************************************)
EXTENDS Integers, FiniteSets

CONSTANTS
    Tasks,          \* requests beside each other: pairs, the process first
    MaxTokens,      \* bound: credentials the service gives out
    MaxRefused      \* bound: access tokens it refuses before their time

Proc(t) == t[1]
Processes == {Proc(t) : t \in Tasks}
Tokens == 1..MaxTokens
NoToken == 0

VARIABLES
    stored,     \* the file
    valid,      \* refresh tokens the service still takes
    refused,    \* access tokens the service refuses
    expired,    \* the last access token past its time (less the skew)
    minted,     \* credentials given out so far
    locks,      \* [process -> whether _refresh_lock is held]
    stage,      \* [task -> where it is]
    force,      \* [task -> force_refresh]: its request was refused once
    held,       \* [task -> the credential it holds]
    stale,      \* [task -> stale_access_token]
    exchanged,  \* history: [process -> credentials it replaced in the file]
    lost        \* history: an answer of the service was lost

credVars == <<stored, valid, refused, expired, minted, locks, stage, force,
              held, stale, exchanged, lost>>

Stages == {"idle", "load", "wait", "post", "reply", "send"}

CredentialsTypeOK ==
    /\ stored \in Tokens /\ minted \in Tokens
    /\ valid \cup refused \subseteq Tokens /\ expired \in Tokens \cup {NoToken}
    /\ locks \in [Processes -> BOOLEAN]
    /\ stage \in [Tasks -> Stages] /\ force \in [Tasks -> BOOLEAN]
    /\ held \in [Tasks -> Tokens \cup {NoToken}]
    /\ stale \in [Tasks -> Tokens \cup {NoToken}]
    /\ exchanged \in [Processes -> SUBSET Tokens]
    /\ lost \in BOOLEAN

CredentialsInit ==
    /\ stored = 1 /\ minted = 1 /\ valid = {1} /\ refused = {} /\ expired = 0
    /\ locks = [p \in Processes |-> FALSE]
    /\ stage = [t \in Tasks |-> "idle"] /\ force = [t \in Tasks |-> FALSE]
    /\ held = [t \in Tasks |-> NoToken] /\ stale = [t \in Tasks |-> NoToken]
    /\ exchanged = [p \in Processes |-> {}] /\ lost = FALSE

Moves(t, to) == stage' = [stage EXCEPT ![t] = to]
Takes(t, token) == held' = [held EXCEPT ![t] = token]
\* The request ends, with an answer or an exception.
Ends(t) ==
    /\ Moves(t, "idle") /\ Takes(t, NoToken)
    /\ force' = [force EXCEPT ![t] = FALSE]
    /\ stale' = [stale EXCEPT ![t] = NoToken]

Fresh == stored > expired
service == <<valid, refused, expired, minted>>

-----------------------------------------------------------------------------
(* credentials(): the file, the lock, the file again, the service          *)

Ask(t) ==
    /\ stage[t] = "idle"
    /\ Moves(t, "load")
    /\ UNCHANGED <<stored, service, locks, force, held, stale, exchanged, lost>>

Load(t) ==
    /\ stage[t] = "load"
    /\ IF ~force[t] /\ Fresh
       THEN Moves(t, "send") /\ Takes(t, stored) /\ UNCHANGED stale
       ELSE Moves(t, "wait") /\ stale' = [stale EXCEPT ![t] = stored] /\ UNCHANGED held
    /\ UNCHANGED <<stored, service, locks, force, exchanged, lost>>

\* Under the lock: another task may have refreshed meanwhile.
AlreadyDone(t) == IF force[t] THEN stored # stale[t] ELSE Fresh

\* Mutant: the credential read before the lock is the one that is refreshed.
LockOnly(t) ==
    /\ stage[t] = "wait" /\ ~locks[Proc(t)]
    /\ Takes(t, stale[t])
    /\ stale' = [stale EXCEPT ![t] = NoToken]
    /\ Moves(t, "post") /\ locks' = [locks EXCEPT ![Proc(t)] = TRUE]
    /\ UNCHANGED <<stored, service, force, exchanged, lost>>

LockAndReload(t) ==
    /\ stage[t] = "wait" /\ ~locks[Proc(t)]
    /\ Takes(t, stored)
    /\ stale' = [stale EXCEPT ![t] = NoToken]
    /\ IF AlreadyDone(t)
       THEN Moves(t, "send") /\ UNCHANGED locks
       ELSE Moves(t, "post") /\ locks' = [locks EXCEPT ![Proc(t)] = TRUE]
    /\ UNCHANGED <<stored, service, force, exchanged, lost>>

Unlock(t) == locks' = [locks EXCEPT ![Proc(t)] = FALSE]

\* The service takes the refresh token and gives a new credential ...
Rotate(t) ==
    /\ stage[t] = "post" /\ held[t] \in valid /\ minted < MaxTokens
    /\ minted' = minted + 1
    /\ valid' = (valid \ {held[t]}) \cup {minted + 1}
    /\ stale' = [stale EXCEPT ![t] = held[t]]
    /\ Takes(t, minted + 1) /\ Moves(t, "reply")
    /\ UNCHANGED <<stored, refused, expired, locks, force, exchanged, lost>>

\* ... which replaces the file.
Save(t) ==
    /\ stage[t] = "reply"
    /\ stored' = held[t]
    /\ exchanged' = [exchanged EXCEPT ![Proc(t)] = @ \cup {stale[t]}]
    /\ stale' = [stale EXCEPT ![t] = NoToken]
    /\ Unlock(t) /\ Moves(t, "send")
    /\ UNCHANGED <<service, force, held, lost>>

\* The answer is lost: a timeout, a cancellation, a file that cannot be written.
LoseReply(t) ==
    /\ stage[t] = "reply"
    /\ lost' = TRUE /\ Unlock(t) /\ Ends(t)
    /\ UNCHANGED <<stored, service, exchanged>>

\* The request does not get there, or the service refuses the token.
RefreshFails(t) ==
    /\ stage[t] = "post"
    /\ Unlock(t) /\ Ends(t)
    /\ UNCHANGED <<stored, service, exchanged, lost>>

-----------------------------------------------------------------------------
(* complete(): the request, and once more after a 401                      *)

Accepted(t) ==
    /\ stage[t] = "send" /\ held[t] \notin refused
    /\ Ends(t)
    /\ UNCHANGED <<stored, service, locks, exchanged, lost>>

Rejected(t) ==
    /\ stage[t] = "send" /\ held[t] \in refused
    /\ IF force[t] THEN Ends(t)
       ELSE /\ Moves(t, "load") /\ Takes(t, NoToken)
            /\ force' = [force EXCEPT ![t] = TRUE] /\ UNCHANGED stale
    /\ UNCHANGED <<stored, service, locks, exchanged, lost>>

-----------------------------------------------------------------------------
(* Time, the service and the user (external)                               *)

Expire ==
    /\ expired < minted
    /\ expired' = expired + 1
    /\ UNCHANGED <<stored, valid, refused, minted, locks, stage, force, held, stale, exchanged, lost>>

Revoked(k) ==
    /\ k \in 1..minted \ refused /\ Cardinality(refused) < MaxRefused
    /\ refused' = refused \cup {k}
    /\ UNCHANGED <<stored, valid, expired, minted, locks, stage, force, held, stale, exchanged, lost>>

LogIn ==
    /\ minted < MaxTokens
    /\ minted' = minted + 1 /\ stored' = minted + 1 /\ valid' = valid \cup {minted + 1}
    /\ lost' = FALSE
    /\ UNCHANGED <<refused, expired, locks, stage, force, held, stale, exchanged>>

CredentialsNext ==
    \/ \E t \in Tasks :
           \/ Ask(t) \/ Load(t) \/ LockAndReload(t) \/ Rotate(t) \/ Save(t)
           \/ LoseReply(t) \/ RefreshFails(t) \/ Accepted(t) \/ Rejected(t)
    \/ \E k \in Tokens : Revoked(k)
    \/ Expire \/ LogIn

-----------------------------------------------------------------------------
(* Properties                                                              *)

(* One refresh at a time, on the newest token: a process never presents a  *)
(* refresh token it has itself replaced in the file, and the file holds a  *)
(* token the service takes, unless the answer to a refresh is on its way   *)
(* or was lost (CodexCredentialManager).                                   *)
TokenChain ==
    /\ \A t \in Tasks : stage[t] = "post" => held[t] \notin exchanged[Proc(t)]
    /\ \/ stored \in valid
       \/ lost
       \/ \E t \in Tasks : stage[t] = "reply" /\ stale[t] = stored
=============================================================================
