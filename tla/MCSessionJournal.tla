-------------------------- MODULE MCSessionJournal --------------------------
(***************************************************************************)
(* SessionJournal for TLC.  States that agree on what their futures and    *)
(* the properties read are one state.  Line numbers are read through their *)
(* differences; of an event, whether it allows or starts a call or is a    *)
(* subagent's; what a resume found, while it is validated; the calls and   *)
(* the cancellation of a run, until it finishes; a grant, while a call of  *)
(* its effect may come.  No action tells one subagent from another.        *)
(***************************************************************************)
EXTENDS SessionJournal, TLC

Class(type) ==
    CASE type \in AllowEvents -> "allows"
      [] type \in StartEvents -> "starts"
      [] type \in AgentEvents -> "agent"
      [] OTHER -> "other"
Coming == IF issued = MaxCalls THEN {Effect(queue[i]) : i \in DOMAIN queue}
          ELSE Effects

Finishing == {pc, IF pc \in {"emit", "append"} THEN ret ELSE pc}
                 \cap {"finish", "exit"} # {}

RelativeView ==
    <<[manifest EXCEPT !.lastSeq = @ - log.lines, !.granted = @ \cap Coming],
      log.last \in StartEvents, log.last \in AgentEvents,
      {<<Class(e.type), e.id>> : e \in log.marks}, tail, pc, ret,
      <<Class(ev.type), IF ev \in MarkEvents THEN ev.id ELSE 0>>,
      IF Finishing THEN <<>> ELSE queue, ~Finishing /\ cancel,
      IF pc = "exit" \/ ret = "exit" THEN "any" ELSE outcome,
      msgs, IF Up THEN seq - log.lines ELSE 0,
      pc = "validating" /\ ahead, agents, history, bounds>>

Symmetry == Permutations(Agents)
=============================================================================
