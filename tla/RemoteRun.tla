------------------------------ MODULE RemoteRun ------------------------------
(***************************************************************************)
(* What the control plane promises of one remote run, whatever its Worker, *)
(* its cancel route, its operator and the agent in the Sandbox do in which *)
(* order, and whichever of their messages come late: the run's life, the   *)
(* approvals asked and decided, and the model requests let through.        *)
(***************************************************************************)
EXTENDS Integers

CONSTANTS
    Asked,      \* approval requests
    Verdicts,   \* what an operator may decide
    Limit       \* model requests a run may make

VARIABLES
    status,     \* the public status
    open,       \* approvals shown to the operator
    decided,    \* [request -> the verdict recorded, or "none"]
    absent,     \* requests the agent has looked up and found undecided
    acted,      \* [request -> what the agent acted on, or "none"]
    admitted,   \* model requests let through
    cut         \* the capability was revoked

runVars == <<status, open, decided, absent, acted, admitted, cut>>

Over == {"completed", "failed", "cancelled"}
Live == {"queued", "running"}

Init ==
    /\ status = "none" /\ open = {} /\ absent = {} /\ admitted = 0 /\ cut = FALSE
    /\ decided = [r \in Asked |-> "none"]
    /\ acted = [r \in Asked |-> "none"]

\* The run is accepted, runs, and ends once.
Accept ==
    /\ status = "none"
    /\ status' = "queued"
    /\ UNCHANGED <<open, decided, absent, acted, admitted, cut>>

Begin ==
    /\ status = "queued"
    /\ status' = "running"
    /\ UNCHANGED <<open, decided, absent, acted, admitted, cut>>

End ==
    /\ status \in Live
    /\ status' \in Over /\ open' = {}
    /\ UNCHANGED <<decided, absent, acted, admitted, cut>>

\* A request is shown and withdrawn while the run lives, and decided once.
Show(r) ==
    /\ status \in Live /\ decided[r] = "none"
    /\ open' = open \cup {r}
    /\ UNCHANGED <<status, decided, absent, acted, admitted, cut>>

Withdraw(r) ==
    /\ status \in Live
    /\ open' = open \ {r}
    /\ UNCHANGED <<status, decided, absent, acted, admitted, cut>>

Decide(r, d) ==
    /\ status \in Live /\ r \in open /\ decided[r] = "none"
    /\ decided' = [decided EXCEPT ![r] = d] /\ open' = open \ {r}
    /\ UNCHANGED <<status, absent, acted, admitted, cut>>

\* The agent looks for the verdict and may find none; it may look again, and
\* acts once: on the verdict, or because its last look found none, though one
\* may have been recorded since.
Look(r) ==
    /\ acted[r] = "none" /\ decided[r] = "none"
    /\ absent' = absent \cup {r}
    /\ UNCHANGED <<status, open, decided, acted, admitted, cut>>

LookAgain(r) ==
    /\ absent' = absent \ {r}
    /\ UNCHANGED <<status, open, decided, acted, admitted, cut>>

Act(r) ==
    /\ acted[r] = "none" /\ decided[r] # "none" /\ r \notin absent
    /\ acted' = [acted EXCEPT ![r] = decided[r]]
    /\ UNCHANGED <<status, open, decided, absent, admitted, cut>>

GiveUp(r) ==
    /\ acted[r] = "none" /\ r \in absent
    /\ acted' = [acted EXCEPT ![r] = "timeout"] /\ absent' = absent \ {r}
    /\ UNCHANGED <<status, open, decided, admitted, cut>>

\* A model request of a run that has begun, within its limit.
Admit ==
    /\ status \notin {"none", "queued"} /\ ~cut /\ admitted < Limit
    /\ admitted' = admitted + 1
    /\ UNCHANGED <<status, open, decided, absent, acted, cut>>

Cut ==
    /\ status # "none"
    /\ cut' = TRUE
    /\ UNCHANGED <<status, open, decided, absent, acted, admitted>>

Next ==
    \/ Accept \/ Begin \/ End \/ Admit \/ Cut
    \/ \E r \in Asked : Show(r) \/ Withdraw(r)
    \/ \E r \in Asked : Look(r) \/ LookAgain(r) \/ Act(r) \/ GiveUp(r)
    \/ \E r \in Asked, d \in Verdicts : Decide(r, d)

Spec == Init /\ [][Next]_runVars
=============================================================================
