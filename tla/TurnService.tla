----------------------------- MODULE TurnService -----------------------------
(***************************************************************************)
(* What a conversation promises the embedder who asks it for turns and     *)
(* compactions: they are served one at a time and in the order they were   *)
(* asked for; each shows its events to its own sink; each ends once.  A    *)
(* turn that ends with a terminal event ends the way that event says, and  *)
(* it is the last; one that ends without it has shut the conversation.  A  *)
(* compaction's last event is its completion, which may still be denied.   *)
(***************************************************************************)
EXTENDS Sequences

CONSTANT Jobs       \* turns and compactions

VARIABLES
    line,       \* the jobs asked for and not ended, the one served first
    job,        \* [job -> "none", "turn" or "compact"]
    ended,      \* [job -> "none", or how it ended]
    shown,      \* the last event shown, and to whose sink
    dropped,    \* jobs their user has cancelled
    shut        \* no more jobs

serviceVars == <<line, job, ended, shown, dropped, shut>>

\* How a job ends that shows this event last.
Outcome(type) ==
    CASE type = "completed"   -> "completed"
      [] type = "interrupted" -> "cancelled"
      [] type = "failed"      -> "failed"
      [] type = "compacted"   -> "completed"
Terminal == {"completed", "interrupted", "failed"}

Init ==
    /\ line = <<>> /\ dropped = {} /\ shut = FALSE
    /\ job = [j \in Jobs |-> "none"] /\ ended = [j \in Jobs |-> "none"]
    /\ shown.to = 0

Ask(j, k) ==
    /\ ~shut /\ job[j] = "none"
    /\ job' = [job EXCEPT ![j] = k]
    /\ line' = Append(line, j)
    /\ UNCHANGED <<ended, shown, dropped, shut>>

Drop(j) ==
    /\ job[j] = "turn" /\ ended[j] = "none"
    /\ dropped' = dropped \cup {j}
    /\ UNCHANGED <<line, job, ended, shown, shut>>

\* An event for the sink of the job that is served.
Shows == line # <<>> /\ shown' # shown /\ shown'.to = Head(line)
Last == IF job[Head(line)] = "turn" THEN Terminal ELSE {"compacted"}

Event ==
    /\ Shows /\ shown'.event.type \notin Terminal
    /\ job[Head(line)] = "compact" => shown'.event.type # "compacted"
    /\ UNCHANGED <<line, job, ended, dropped, shut>>

Ends(how) ==
    /\ line' = Tail(line)
    /\ ended' = [ended EXCEPT ![Head(line)] = how]
    /\ UNCHANGED <<job, dropped>>

\* The last event: it says how the job ended, except that of a compaction.
End ==
    /\ Shows /\ shown'.event.type \in Last
    /\ \/ Ends(Outcome(shown'.event.type))
       \/ job[Head(line)] = "compact" /\ Ends("error")
    /\ UNCHANGED shut

\* An error, or a cancellation nobody confirmed; only a compaction leaves the
\* conversation open.
Break(how) ==
    /\ line # <<>>
    /\ how = "cancelled" => Head(line) \in dropped
    /\ job[Head(line)] = "turn" => shut
    /\ Ends(how)
    /\ UNCHANGED <<shown, shut>>

Shut ==
    /\ shut' = TRUE
    /\ UNCHANGED <<line, job, ended, shown, dropped>>

Next ==
    \/ \E j \in Jobs, k \in {"turn", "compact"} : Ask(j, k)
    \/ \E j \in Jobs : Drop(j)
    \/ Event \/ End \/ Shut
    \/ \E how \in {"error", "cancelled"} : Break(how)

Spec == Init /\ [][Next]_serviceVars
=============================================================================
