------------------------ MODULE SessionJournal_proofs ------------------------
(***************************************************************************)
(* Proofs about SessionJournal, for every bound and every set of tools.    *)
(* The type invariant is not inductive alone: the call being processed     *)
(* exists only where control says so (Control), and a resumed sequence     *)
(* number is a natural number only because the manifest is never more than *)
(* one line behind the log (Numbering).                                    *)
(***************************************************************************)
EXTENDS SessionJournal, TLAPS

USE SessionAssumption

\* Where emit() may return to.
Returns == PCs \ {"emit", "append", "down", "validating"}

\* Where control is, or where it goes once the event being emitted is durable.
at == IF pc \in {"emit", "append"} THEN ret ELSE pc

\* The places at which a call is being processed.
CallPCs == {"ask", "waiting", "approved", "denied", "cancelled", "started",
    "tool", "dispatch", "wave", "gather", "effect", "in_effect", "observe",
    "deny_save"}


Control ==
    /\ pc \in PCs /\ ret \in Returns
    /\ pc \in {"emit", "append"} => ret # "new"
    /\ at \in CallPCs => queue # <<>>

\* Subagents are there in a process that runs the loop, and one emission at a
\* time is between its save and its append.
Busy == \E a \in Agents : Writing(a)
Emitting == pc = "append" \/ Busy
Locked ==
    /\ pc = "append" => ~Busy
    /\ \A a, b \in Agents : Writing(a) /\ Writing(b) => a = b
    /\ ~Up => \A a \in Agents : agents[a] = Resting

Numbering ==
    /\ Emitting => manifest.lastSeq = log.lines
    /\ pc # "down" /\ ~Emitting => manifest.lastSeq = log.lines - 1
    /\ pc = "down" => manifest.lastSeq \in {log.lines - 1, log.lines}
    /\ Up \/ pc = "new" => seq = log.lines

\* The conjuncts of TypeOK that only a few actions touch.
Flags ==
    /\ tail \in {"ok", "open", "torn"}
    /\ outcome \in Terminal
    /\ cancel \in BOOLEAN /\ ahead \in BOOLEAN
Counts ==
    /\ issued \in 0..MaxCalls /\ crashes \in Nat /\ turns \in Nat
    /\ ran \subseteq 1..MaxCalls /\ live \subseteq 1..MaxCalls

\* The subagents, the call each of them at work has, and the calls a death
\* interrupted.
AgentState == [call : Call \cup {NoCall}, at : AgentPlaces]
Crews ==
    /\ agents \in [Agents -> AgentState]
    /\ \A a \in Agents : agents[a].at # "idle" => agents[a].call \in Call
    /\ cut \subseteq Call

TypeInv == TypeOK /\ Control /\ Crews /\ Locked /\ Numbering

-----------------------------------------------------------------------------
(* What the helpers return *)

\* The current call, wherever there is one, and what is left after it.
LEMMA CurTyped ==
    ASSUME TypeOK, queue # <<>>
    PROVE  /\ cur \in Call /\ cur.id \in 1..MaxCalls /\ cur.what \in Whats
           /\ Tail(queue) \in Seq(Call)
  <1>1. queue \in Seq(Call)
    BY DEF TypeOK
  <1>2. Head(queue) \in Call /\ Tail(queue) \in Seq(Call)
    BY <1>1
  <1> QED BY <1>2 DEF cur, Call

\* Conversation items are items, and a conversation stays one.
LEMMA ItemsTyped ==
    /\ User \in Item
    /\ \A c \in Call, s \in {"ran"} \cup Unperformed : Obs(c, s) \in Item
    /\ \A c \in Call : Calling(c) \in Item
    /\ \A m \in Seq(Item), i \in Item : Append(m, i) \in Seq(Item)
  <1>1. \A c \in Call : c.id \in 0..MaxCalls
    BY DEF Call, SessionAssumption
  <1>2. 0 \in 0..MaxCalls
    BY DEF SessionAssumption
  <1>3. \A m \in Seq(Item), i \in Item : Append(m, i) \in Seq(Item)
    OBVIOUS
  <1> QED BY <1>1, <1>2, <1>3 DEF User, Obs, Calling, Item, Unperformed

\* The phases that are written, and the statuses a run ends with, are phases.
LEMMA PhasesTyped ==
    {"running", "waiting_approval", "verifying", "failed"} \cup Terminal \subseteq Phases
  BY DEF Phases, Terminal

\* A checkpoint keeps a manifest a manifest and does not renumber it.
LEMMA CheckpointTyped ==
    ASSUME manifest \in Manifest, NEW phase \in Phases, NEW m \in Seq(Item),
           Checkpoint(phase, m)
    PROVE  manifest' \in Manifest
  <1> DEFINE t == phase \in Terminal
  <1>1. t \in BOOLEAN
    OBVIOUS
  <1>2. manifest' = [manifest EXCEPT !.phase = phase, !.messages = m, !.terminal = t]
    BY DEF Checkpoint
  <1> HIDE DEF t
  <1> QED BY <1>1, <1>2 DEF Manifest

\* Appending an event to the log.
LEMMA AppendTyped ==
    ASSUME log \in Log, NEW e \in Event
    PROVE  AppendTo(log, e) \in Log
  <1>1. e.type \in EventTypes
    BY DEF Event
  <1> QED BY <1>1 DEF AppendTo, Log, MarkEvents

\* The calls of one model turn, and the conversation items they become.
LEMMA CallsTyped ==
    ASSUME NEW n \in Nat, NEW w \in [1..n -> Tools], issued \in Nat,
           issued + n <= MaxCalls
    PROVE  /\ [i \in 1..n |-> [id |-> issued + i, what |-> w[i]]] \in Seq(Call)
           /\ [i \in 1..n |-> Calling([j \in 1..n |->
                 [id |-> issued + j, what |-> w[j]]][i])] \in Seq(Item)
  <1> DEFINE calls == [i \in 1..n |-> [id |-> issued + i, what |-> w[i]]]
  <1>1. \A i \in 1..n : calls[i] \in Call
    BY DEF Call, Whats, SessionAssumption
  <1>2. \A i \in 1..n : Calling(calls[i]) \in Item
    BY <1>1, ItemsTyped
  <1> QED BY <1>1, <1>2

-----------------------------------------------------------------------------
(* Types *)

\* A new session (SessionManifest.new, no log line) has its types, its control
\* facts and its numbering.
LEMMA TypeInit == Init => TypeInv
  <1> SUFFICES ASSUME Init PROVE TypeInv
    OBVIOUS
  <1> USE DEF Init
  <1>1. manifest \in Manifest
    BY DEF Manifest, Phases
  <1>2. log \in Log
    BY DEF Log
  <1>3. ev \in Event
    BY DEF NoEvent, Event, EventTypes, SessionAssumption
  <1>4. queue \in Seq(Call) /\ msgs \in Seq(Item)
    OBVIOUS
  <1>5. pc \in PCs /\ ret \in PCs /\ outcome \in Terminal
    BY DEF PCs, Downs, Terminal
  <1>6. Flags
    BY DEF Flags, Terminal
  <1>7. Counts
    BY DEF Counts, SessionAssumption
  <1>8. Crews
    BY DEF Crews, Resting, AgentState, AgentPlaces
  <1>9. TypeOK
    BY <1>1, <1>2, <1>3, <1>4, <1>5, <1>6, <1>7, <1>8
    DEF TypeOK, Flags, Counts, Crews, AgentState
  <1>10. \A a \in Agents : agents[a] = Resting /\ ~Writing(a)
    BY DEF Writing, Resting
  <1>11. Locked /\ Numbering
    BY <1>10 DEF Locked, Numbering, Emitting, Busy, Up, Downs
  <1> QED
    BY <1>8, <1>9, <1>11 DEF TypeInv, Control, at, CallPCs, Returns, PCs, Downs, Up

\* Control goes where it may, and nothing empties the queue under a call.
LEMMA ControlNext == TypeOK /\ Control /\ [Next]_vars => Control'
  <1> SUFFICES ASSUME TypeOK, Control, [Next]_vars PROVE Control'
    OBVIOUS
  <1>0. queue \in Seq(Call)
    BY DEF TypeOK
  <1> USE <1>0
  <1> USE DEF Control, at, CallPCs, Returns, Up, Downs, PCs,
               Goto, Emit, Finish, Forget
  <1>1. CASE EmitSave \/ EmitAppend \/ Launch \/ Prepare \/ UserCancel \/
             StopAtLoop \/ OutOfSteps
    BY <1>1 DEF EmitSave, EmitAppend, Launch, Prepare, UserCancel, StopAtLoop,
            OutOfSteps
  <1>2. CASE RequestModel \/ NoTurn \/ ModelFailed \/ ModelCalls \/
             ModelAnswers \/ NextCall \/ RejectCall
    BY <1>2 DEF RequestModel, NoTurn, ModelFailed, ModelCalls, ModelAnswers,
            NextCall, RejectCall
  <1>3. CASE HookDenies \/ ReuseGrant \/ RequestApproval \/
             (\E d \in Decisions : Decide(d)) \/ ApprovalCancelled \/
             Denied \/ DenySave
    BY <1>3 DEF HookDenies, ReuseGrant, RequestApproval, Decide, Decisions,
            ApprovalCancelled, Denied, DenySave
  <1>4. CASE Approved \/ MarkStarted \/ EnterTool \/ BeginEffect \/
             EndEffect \/ Observe
    BY <1>4 DEF Approved, MarkStarted, EnterTool, BeginEffect, EndEffect,
            Observe
  <1>5. CASE Verified \/ VerifyFailed \/ FinalAnswer \/ EngineError \/
             FinishRun \/ Exit
    BY <1>5 DEF Verified, VerifyFailed, FinalAnswer, EngineError, FinishRun,
            Exit
  <1>6. CASE Claim \/ Refuse \/ Resume \/ Continue \/ Reconcile
    BY <1>6 DEF Claim, Refuse, Resume, Continue, Reconcile
  <1>7. CASE UNCHANGED vars
    BY <1>7 DEF vars, process, history, bounds, durable
  <1>8. CASE Dispatch
    BY <1>8 DEF Dispatch, NextWave, StartWave, WaveTimeout, WaveDone, AgentSave,
            AgentAppend, AgentEnds, AgentRaises, Gathered
  <1>9. CASE Crash
    <2>1. pc' = "down" /\ ret' = "new"
      BY <1>9 DEF Crash
    <2> QED BY <2>1
  <1> QED BY <1>1, <1>2, <1>3, <1>4, <1>5, <1>6, <1>7, <1>8, <1>9 DEF Next

\* Only a death adds to what was cut, and only a resume forgets it.
LEMMA CutStays ==
    ASSUME [Next]_vars, ~Crash
    PROVE  cut' = cut \/ (cut' = {} /\ (Resume \/ Continue))
  <1> USE DEF history
  <1>1. CASE EmitSave \/ EmitAppend \/ Launch \/ Prepare \/ UserCancel \/
             StopAtLoop \/ OutOfSteps \/ RequestModel \/ NoTurn \/
             ModelFailed \/ ModelCalls \/ ModelAnswers \/ NextCall \/
             RejectCall
    BY <1>1 DEF EmitSave, EmitAppend, Launch, Prepare, UserCancel, StopAtLoop,
            OutOfSteps, RequestModel, NoTurn, ModelFailed, ModelCalls,
            ModelAnswers, NextCall, RejectCall
  <1>2. CASE HookDenies \/ ReuseGrant \/ RequestApproval \/
             ApprovalCancelled \/
             Denied \/ DenySave \/ Approved \/ MarkStarted \/ EnterTool \/
             BeginEffect \/ EndEffect \/ Observe
    BY <1>2 DEF HookDenies, ReuseGrant, RequestApproval,
            ApprovalCancelled, Denied, DenySave, Approved, MarkStarted,
            EnterTool, BeginEffect, EndEffect, Observe
  <1>3. CASE Verified \/ VerifyFailed \/ FinalAnswer \/ EngineError \/
             FinishRun \/ Exit \/ Claim \/ Refuse \/ Resume \/ Continue \/
             Reconcile
    BY <1>3 DEF Verified, VerifyFailed, FinalAnswer, EngineError, FinishRun,
            Exit, Claim, Refuse, Resume, Continue, Reconcile
  <1>4. CASE Dispatch
    BY <1>4 DEF Dispatch, NextWave, StartWave, WaveTimeout, WaveDone, AgentSave,
            AgentAppend, AgentEnds, AgentRaises
  <1>5. CASE UNCHANGED vars
    BY <1>5 DEF vars
  <1>6. ASSUME NEW d \in Decisions, Decide(d) PROVE cut' = cut
    BY <1>6 DEF Decide
  <1> QED BY <1>1, <1>2, <1>3, <1>4, <1>5, <1>6 DEF Next

\* Most steps leave the subagents where they are.
LEMMA AgentsStay ==
    ASSUME [Next]_vars
    PROVE  \/ agents' = agents
           \/ StartWave \/ WaveTimeout
           \/ \E a \in Agents : AgentSave(a) \/ AgentAppend(a) \/
                               AgentEnds(a) \/ AgentRaises(a)
           \/ Exit \/ Crash \/ Refuse
  <1>1. CASE EmitSave \/ EmitAppend \/ Launch \/ Prepare \/ UserCancel \/
             StopAtLoop \/ OutOfSteps \/ RequestModel \/ NoTurn \/
             ModelFailed \/ ModelCalls \/ ModelAnswers \/ NextCall \/
             RejectCall
    BY <1>1 DEF EmitSave, EmitAppend, Launch, Prepare, UserCancel, StopAtLoop,
            OutOfSteps, RequestModel, NoTurn, ModelFailed, ModelCalls,
            ModelAnswers, NextCall, RejectCall
  <1>2. CASE HookDenies \/ ReuseGrant \/ RequestApproval \/
             ApprovalCancelled \/
             Denied \/ DenySave \/ Approved \/ MarkStarted \/ EnterTool \/
             BeginEffect \/ EndEffect \/ Observe
    BY <1>2 DEF HookDenies, ReuseGrant, RequestApproval,
            ApprovalCancelled, Denied, DenySave, Approved, MarkStarted,
            EnterTool, BeginEffect, EndEffect, Observe
  <1>3. CASE Verified \/ VerifyFailed \/ FinalAnswer \/ EngineError \/
             FinishRun \/ Claim \/ Resume \/ Continue \/ Reconcile \/
             NextWave \/ WaveDone
    BY <1>3 DEF Verified, VerifyFailed, FinalAnswer, EngineError, FinishRun,
            Claim, Resume, Continue, Reconcile, NextWave, WaveDone
  <1>4. CASE UNCHANGED vars
    BY <1>4 DEF vars, process
  <1>5. ASSUME NEW d \in Decisions, Decide(d) PROVE agents' = agents
    BY <1>5 DEF Decide
  <1> QED BY <1>1, <1>2, <1>3, <1>4, <1>5 DEF Next, Dispatch

\* Who has work, and who writes, after a step of one subagent or of a wave.
LEMMA AgentSteps ==
    ASSUME TypeOK
    PROVE  /\ \A a \in Agents : AgentSave(a) =>
                 /\ Writing(a)' /\ ~Emitting /\ pc' = pc
                 /\ \A b \in Agents : b # a => Writing(b)' = Writing(b)
           /\ \A a \in Agents : AgentAppend(a) =>
                 /\ Writing(a) /\ ~Writing(a)' /\ pc' = pc
                 /\ \A b \in Agents : b # a => Writing(b)' = Writing(b)
           /\ \A a \in Agents : AgentEnds(a) \/ AgentRaises(a) =>
                 \A b \in Agents : Writing(b)' = Writing(b)
           /\ StartWave \/ WaveTimeout =>
                 \A b \in Agents : Writing(b)' = Writing(b)
           /\ Exit \/ Crash \/ Refuse => \A b \in Agents : ~Writing(b)'
           /\ agents' = agents => \A b \in Agents : Writing(b)' = Writing(b)
  <1>0. agents \in [Agents -> AgentState]
    BY DEF TypeOK, AgentState
  <1> USE <1>0 DEF Writing, Resting, AgentState
  <1>1. ASSUME NEW a \in Agents, AgentSave(a)
        PROVE  /\ Writing(a)' /\ ~Emitting /\ pc' = pc
               /\ \A b \in Agents : b # a => Writing(b)' = Writing(b)
    BY <1>1 DEF AgentSave, LockFree, Emitting, Busy
  <1>2. ASSUME NEW a \in Agents, AgentAppend(a)
        PROVE  /\ Writing(a) /\ ~Writing(a)' /\ pc' = pc
               /\ \A b \in Agents : b # a => Writing(b)' = Writing(b)
    BY <1>2 DEF AgentAppend
  <1>3. ASSUME NEW a \in Agents, AgentEnds(a) \/ AgentRaises(a)
        PROVE  \A b \in Agents : Writing(b)' = Writing(b)
    BY <1>3 DEF AgentEnds, AgentRaises
  <1>4. ASSUME StartWave PROVE \A b \in Agents : Writing(b)' = Writing(b)
    BY <1>4 DEF StartWave
  <1>5. ASSUME WaveTimeout PROVE \A b \in Agents : Writing(b)' = Writing(b)
    BY <1>5 DEF WaveTimeout
  <1>6. ASSUME Exit \/ Crash \/ Refuse PROVE \A b \in Agents : ~Writing(b)'
    BY <1>6 DEF Exit, Crash, Refuse, Forget
  <1> QED BY <1>1, <1>2, <1>3, <1>4, <1>5, <1>6

\* Where control goes by a step of the loop, and of one that ends.
LEMMA PlacesNext ==
    ASSUME TypeOK, Control, [Next]_vars
    PROVE  /\ pc' = "append" => pc = "append" \/ (EmitSave /\ LockFree)
           /\ ~Up' => ~Up \/ Exit \/ Crash
           /\ \A a \in Agents : AgentSave(a) \/ AgentAppend(a) \/ AgentEnds(a)
                                 => pc' = pc
  <1> DEFINE Places ==
        /\ pc' = "append" => pc = "append" \/ (EmitSave /\ LockFree)
        /\ ~Up' => ~Up \/ Exit \/ Crash
  <1>0. \A a \in Agents : AgentSave(a) \/ AgentAppend(a) \/ AgentEnds(a)
                          => pc' = pc
    BY DEF AgentSave, AgentAppend, AgentEnds
  <1> SUFFICES Places
    BY <1>0
  <1> USE DEF Goto, Emit, Finish, Forget, Up, Downs
  <1>1. CASE EmitSave \/ EmitAppend \/ Launch \/ Prepare \/ UserCancel \/
             StopAtLoop \/ OutOfSteps \/ RequestModel \/ NoTurn \/
             ModelFailed \/ ModelCalls \/ ModelAnswers \/ NextCall \/
             RejectCall
    BY <1>1 DEF EmitSave, EmitAppend, Launch, Prepare, UserCancel, StopAtLoop,
            OutOfSteps, RequestModel, NoTurn, ModelFailed, ModelCalls,
            ModelAnswers, NextCall, RejectCall, Control, Returns, PCs, durable
  <1>2. CASE HookDenies \/ ReuseGrant \/ RequestApproval \/
             (\E d \in Decisions : Decide(d)) \/ ApprovalCancelled \/
             Denied \/ DenySave \/ Approved \/ MarkStarted \/ EnterTool \/
             BeginEffect \/ EndEffect \/ Observe
    BY <1>2 DEF HookDenies, ReuseGrant, RequestApproval, Decide, Decisions,
            ApprovalCancelled, Denied, DenySave, Approved, MarkStarted,
            EnterTool, BeginEffect, EndEffect, Observe
  <1>3. CASE Verified \/ VerifyFailed \/ FinalAnswer \/ EngineError \/
             FinishRun \/ Claim \/ Resume \/ Continue \/ Reconcile \/
             NextWave \/ WaveDone \/ StartWave \/ WaveTimeout \/ Exit \/
             Crash \/ Refuse
    BY <1>3 DEF Verified, VerifyFailed, FinalAnswer, EngineError, FinishRun,
            Claim, Resume, Continue, Reconcile, NextWave, WaveDone, StartWave,
            WaveTimeout, Exit, Crash, Refuse
  <1>4. ASSUME NEW a \in Agents,
               AgentSave(a) \/ AgentAppend(a) \/ AgentEnds(a) \/ AgentRaises(a)
        PROVE  pc' = pc \/ (pc = "gather" /\ pc' = "emit")
    BY <1>4 DEF AgentSave, AgentAppend, AgentEnds, AgentRaises, Gathered
  <1>5. CASE UNCHANGED vars
    BY <1>5 DEF vars, process, durable
  <1> QED BY <1>1, <1>2, <1>3, <1>4, <1>5 DEF Next, Dispatch

\* One emission at a time, and no subagent in a process that is not up.
LEMMA LockedNext ==
    TypeOK /\ Control /\ Locked /\ [Next]_vars => Locked'
  <1> SUFFICES ASSUME TypeOK, Control, Locked, [Next]_vars PROVE Locked'
    OBVIOUS
  <1>1. Busy' => Busy \/ (~Emitting /\ pc' = pc)
    BY AgentsStay, AgentSteps DEF Busy
  <1>2. pc' = "append" => ~Busy'
    BY <1>1, PlacesNext DEF Locked, Emitting, LockFree, Busy
  <1>3. \A a, b \in Agents : Writing(a)' /\ Writing(b)' => a = b
    BY AgentsStay, AgentSteps DEF Locked, Emitting, Busy
  <1>4. ~Up' => \A a \in Agents : agents'[a] = Resting
    <2> SUFFICES ASSUME ~Up' PROVE \A a \in Agents : agents'[a] = Resting
      OBVIOUS
    <2>1. CASE Exit \/ Crash \/ Refuse
      BY <2>1 DEF Exit, Crash, Refuse, Forget
    <2>2. CASE ~Up
      <3>1. \A a \in Agents : agents[a] = Resting
        BY <2>2 DEF Locked
      <3>2. ~StartWave /\ ~WaveTimeout
        BY <2>2 DEF StartWave, WaveTimeout, Up, Downs
      <3>3. \A a \in Agents : ~AgentSave(a) /\ ~AgentAppend(a) /\
                               ~AgentEnds(a) /\ ~AgentRaises(a)
        BY <3>1 DEF AgentSave, AgentAppend, AgentEnds, AgentRaises, Writing,
           Resting
      <3> QED BY <3>1, <3>2, <3>3, <2>1, AgentsStay
    <2> QED BY <2>1, <2>2, PlacesNext
  <1> QED BY <1>2, <1>3, <1>4 DEF Locked

\* Whatever is written in between, the manifest names the last line or the next.
LEMMA NumberingNext ==
    TypeOK /\ Control /\ Locked /\ Numbering /\ [Next]_vars => Numbering'
  <1> SUFFICES ASSUME TypeOK, Control, Locked, Numbering, [Next]_vars
               PROVE  Numbering'
    OBVIOUS
  <1>0. manifest \in Manifest /\ log \in Log /\ seq \in Nat
    BY DEF TypeOK
  <1>a. agents' = agents => Busy' = Busy
    BY AgentSteps DEF Busy
  <1>b. pc \in Downs => ~Busy
    BY DEF Locked, Busy, Writing, Resting, Up
  <1> DEFINE Quiet ==
        /\ UNCHANGED <<log, seq, agents>> /\ manifest'.lastSeq = manifest.lastSeq
        /\ pc \notin {"append", "down", "validating"}
        /\ pc' \notin {"append", "new", "down", "validating"}
  <1>q. Quiet => Numbering'
    BY <1>a DEF Numbering, Emitting, Up, Downs
  <1> USE <1>0, <1>b
  <1> USE DEF Numbering, Emitting, Control, Up, Downs, Goto, Emit, Finish,
               Forget, Checkpoint, Returns, PCs, durable, AppendTo, Manifest, Log
  <1>1. CASE EmitSave
    BY <1>1 DEF EmitSave, LockFree, Busy
  <1>2. CASE EmitAppend
    BY <1>2, <1>a DEF EmitAppend, Locked
  <1>3. CASE Exit \/ Crash \/ Refuse
    <2>1. pc' = "down" /\ manifest' = manifest /\ ~Busy'
      BY <1>3, AgentSteps DEF Exit, Crash, Refuse, Busy
    <2>2. CASE log' = log
      BY <2>1, <2>2
    <2>3. CASE Crash /\ \E e \in InFlight : log' = AppendTo(log, e)
      <3>1. Emitting /\ log'.lines = log.lines + 1
        BY <2>3 DEF InFlight, Busy
      <3> QED BY <2>1, <3>1
    <2> QED BY <1>3, <2>2, <2>3 DEF Exit, Crash, Refuse
  <1>4. CASE Claim
    BY <1>4, <1>a DEF Claim
  <1>5. CASE Resume
    BY <1>5, <1>a DEF Resume
  <1>6. CASE Continue
    BY <1>6, <1>a DEF Continue
  <1>7. ASSUME Reconcile
         PROVE  Numbering'
    <2>1. Quiet
      BY <1>7 DEF Reconcile
    <2> QED BY <2>1, <1>q
  <1>8. ASSUME Launch \/ Prepare \/ StopAtLoop \/ OutOfSteps \/
             RequestModel \/ NoTurn
         PROVE  Numbering'
    <2>1. Quiet
      BY <1>8 DEF Launch, Prepare, StopAtLoop, OutOfSteps,
            RequestModel, NoTurn
    <2> QED BY <2>1, <1>q
  <1>9. ASSUME ModelFailed \/ ModelCalls \/ ModelAnswers \/ NextCall \/
             RejectCall \/ HookDenies \/ ReuseGrant
         PROVE  Numbering'
    <2>1. Quiet
      BY <1>9 DEF ModelFailed, ModelCalls, ModelAnswers, NextCall, RejectCall,
            HookDenies, ReuseGrant
    <2> QED BY <2>1, <1>q
  <1>10. ASSUME RequestApproval \/ (\E d \in Decisions : Decide(d)) \/
             ApprovalCancelled \/ Denied \/ DenySave \/ Approved \/
             MarkStarted
         PROVE  Numbering'
    <2>1. Quiet
      BY <1>10 DEF RequestApproval, Decide, Decisions, ApprovalCancelled,
            Denied, DenySave, Approved, MarkStarted
    <2> QED BY <2>1, <1>q
  <1>11. ASSUME EnterTool \/ BeginEffect \/ EndEffect \/ Observe \/ Verified \/
             VerifyFailed \/ NextWave \/ WaveDone
         PROVE  Numbering'
    <2>1. Quiet
      BY <1>11 DEF EnterTool, BeginEffect, EndEffect, Observe,
            Verified, VerifyFailed, NextWave, WaveDone
    <2> QED BY <2>1, <1>q
  <1>12. ASSUME FinalAnswer \/ EngineError \/ FinishRun
         PROVE  Numbering'
    <2>1. Quiet
      BY <1>12 DEF FinalAnswer, EngineError, FinishRun
    <2> QED BY <2>1, <1>q
  <1>13. CASE UserCancel \/ UNCHANGED vars
    BY <1>13, <1>a DEF UserCancel, vars, process, history, bounds, durable
  <1>14. CASE StartWave \/ WaveTimeout
    <2>1. Busy' = Busy
      BY <1>14, AgentSteps DEF Busy
    <2> QED BY <1>14, <2>1 DEF StartWave, WaveTimeout
  <1>15. ASSUME NEW a \in Agents, AgentEnds(a) \/ AgentRaises(a)
         PROVE  Numbering'
    <2>1. Busy' = Busy
      BY <1>15, AgentSteps DEF Busy
    <2> QED BY <1>15, <2>1 DEF AgentEnds, AgentRaises, Gathered
  <1>16. ASSUME NEW a \in Agents, AgentSave(a) PROVE Numbering'
    <2>1. Busy' /\ ~Emitting /\ pc' = pc /\ pc \notin Downs
      <3>1. agents[a] # Resting
        BY <1>16 DEF AgentSave, Resting
      <3> QED BY <1>16, <3>1, AgentSteps DEF Busy, Locked
    <2> QED BY <1>16, <2>1 DEF AgentSave
  <1>17. ASSUME NEW a \in Agents, AgentAppend(a) PROVE Numbering'
    <2>1. /\ Busy /\ ~Busy' /\ pc' = pc /\ pc # "append"
      BY <1>17, AgentSteps DEF Busy, Locked
    <2> QED BY <1>17, <2>1 DEF AgentAppend
  <1> QED BY <1>1, <1>2, <1>3, <1>4, <1>5, <1>6, <1>7, <1>8, <1>9, <1>10,
         <1>11, <1>12, <1>13, <1>14, <1>15, <1>16, <1>17 DEF Next, Dispatch

\* The line a subagent writes is an event, and no mark.
LEMMA AgentEventTyped ==
    ASSUME TypeOK, NEW a \in Agents
    PROVE  /\ AgentEvent(a) \in Event
           /\ AgentEvent(a).type \in AgentEvents
           /\ AppendTo(log, AgentEvent(a)).marks = log.marks
  <1>1. agents[a].call.id \in 0..MaxCalls
    BY DEF TypeOK, Call, NoCall, SessionAssumption
  <1>2. AgentEvent(a) \notin MarkEvents
    BY DEF AgentEvent, MarkEvents, AllowEvents, StartEvents
  <1> QED BY <1>1, <1>2 DEF AgentEvent, Event, EventTypes, AgentEvents, AppendTo

\* Subagents are sent to work for the current call, and a death interrupts
\* nothing but calls.
LEMMA CrewsNext == TypeOK /\ Control /\ Crews /\ [Next]_vars => Crews'
  <1> SUFFICES ASSUME TypeOK, Control, Crews, [Next]_vars PROVE Crews'
    OBVIOUS
  <1>0. at \in CallPCs \/ queue # <<>> => cur \in Call
    BY CurTyped DEF Control
  <1> DEFINE Staffed == /\ agents' \in [Agents -> AgentState]
                        /\ \A a \in Agents : agents'[a].at # "idle"
                                                => agents'[a].call \in Call
  <1>1. Staffed
    <2> USE DEF Crews, AgentState, AgentPlaces, Resting
    <2>1. CASE agents' = agents
      BY <2>1
    <2>2. CASE StartWave
      <3>1. cur \in Call
        BY <2>2, <1>0 DEF StartWave, at, CallPCs
      <3> QED BY <2>2, <3>1 DEF StartWave
    <2>3. CASE WaveTimeout
      BY <2>3 DEF WaveTimeout
    <2>4. ASSUME NEW a \in Agents, AgentSave(a) PROVE Staffed
      BY <2>4 DEF AgentSave
    <2>5. ASSUME NEW a \in Agents, AgentAppend(a) PROVE Staffed
      BY <2>5 DEF AgentAppend, Writing
    <2>6. ASSUME NEW a \in Agents, AgentEnds(a) \/ AgentRaises(a)
          PROVE  Staffed
      BY <2>6 DEF AgentEnds, AgentRaises
    <2>7. CASE Exit \/ Crash \/ Refuse
      BY <2>7 DEF Exit, Crash, Refuse, Forget
    <2> QED BY <2>1, <2>2, <2>3, <2>4, <2>5, <2>6, <2>7, AgentsStay
  <1>2. cut' \subseteq Call
    <2>1. CASE Crash
      <3>1. Underway \subseteq Call
        BY <1>0 DEF Underway, Crews, at, CallPCs
      <3> QED BY <2>1, <3>1 DEF Crash, Crews
    <2>2. CASE ~Crash
      BY <2>2, CutStays DEF Crews
    <2> QED BY <2>1, <2>2
  <1> QED BY <1>1, <1>2 DEF Crews

\* The event being emitted is one.
LEMMA EventNext == TypeOK /\ Control /\ [Next]_vars => (ev' \in Event)
  <1> SUFFICES ASSUME TypeOK, Control, [Next]_vars PROVE (ev' \in Event)
    OBVIOUS
  <1>0. at \in CallPCs \/ queue # <<>> => cur \in Call /\ cur.id \in 1..MaxCalls
    BY CurTyped DEF Control
  <1>a. ev \in Event /\ MaxCalls \in Nat /\ manifest \in Manifest
    BY DEF TypeOK, SessionAssumption
  <1> USE <1>0, <1>a
  <1> USE DEF Emit, Goto, Finish, Forget, Event, EventTypes, AgentEvents, AllowEvents,
               StartEvents, NoEvent, at, CallPCs
  <1>1. ASSUME NEW d \in Decisions, Decide(d) PROVE (ev' \in Event)
    BY <1>1 DEF Decide, Decisions
  <1>2. CASE EndEffect
    BY <1>2 DEF EndEffect
  <1>3. CASE Reconcile
    BY <1>3 DEF Reconcile, NoCall, Manifest, Call
  <1>4. CASE EmitSave \/ EmitAppend \/ Launch \/ Prepare \/ UserCancel \/
             StopAtLoop \/ OutOfSteps
    BY <1>4 DEF EmitSave, EmitAppend, Launch, Prepare, UserCancel, StopAtLoop,
            OutOfSteps
  <1>5. CASE RequestModel \/ NoTurn \/ ModelFailed \/ ModelCalls \/
             ModelAnswers \/ NextCall \/ RejectCall
    BY <1>5 DEF RequestModel, NoTurn, ModelFailed, ModelCalls, ModelAnswers,
            NextCall, RejectCall
  <1>6. CASE HookDenies \/ ReuseGrant \/ RequestApproval \/
             ApprovalCancelled \/ Denied \/ DenySave \/ Approved
    BY <1>6 DEF HookDenies, ReuseGrant, RequestApproval, ApprovalCancelled,
            Denied, DenySave, Approved
  <1>7. CASE MarkStarted \/ EnterTool \/ BeginEffect \/ Observe \/ Verified \/ VerifyFailed
    BY <1>7 DEF MarkStarted, EnterTool, BeginEffect, Observe,
            Verified, VerifyFailed
  <1>8. CASE FinalAnswer \/ EngineError \/ FinishRun \/ Exit \/ Crash \/
             Claim \/ Refuse
    BY <1>8 DEF FinalAnswer, EngineError, FinishRun, Exit, Crash, Claim,
            Refuse
  <1>9. CASE Resume \/ Continue
    BY <1>9 DEF Resume, Continue
  <1>10. CASE UNCHANGED vars
    BY <1>10 DEF vars, process, history, bounds, durable
  <1>11. CASE Dispatch
    BY <1>11 DEF Dispatch, NextWave, StartWave, WaveTimeout, WaveDone, AgentSave,
            AgentAppend, AgentEnds, AgentRaises, Gathered,
            AgentEvents
  <1> QED BY <1>1, <1>2, <1>3, <1>4, <1>5, <1>6, <1>7, <1>8, <1>9, <1>10, <1>11 DEF Next

\* The flags.
LEMMA FlagsNext == TypeOK /\ [Next]_vars => Flags'
  <1> SUFFICES ASSUME TypeOK, [Next]_vars PROVE Flags'
    OBVIOUS
  <1>a. Flags
    BY DEF TypeOK, Flags
  <1> USE <1>a
  <1> USE DEF Flags, Terminal, Emit, Goto, Finish, Forget, durable
  <1>1. CASE EmitSave \/ EmitAppend \/ Launch \/ Prepare \/ UserCancel \/
             StopAtLoop \/ OutOfSteps
    BY <1>1 DEF EmitSave, EmitAppend, Launch, Prepare, UserCancel, StopAtLoop,
            OutOfSteps
  <1>2. CASE RequestModel \/ NoTurn \/ ModelFailed \/ ModelCalls \/
             ModelAnswers \/ NextCall \/ RejectCall
    BY <1>2 DEF RequestModel, NoTurn, ModelFailed, ModelCalls, ModelAnswers,
            NextCall, RejectCall
  <1>3. CASE HookDenies \/ ReuseGrant \/ RequestApproval \/
             (\E d \in Decisions : Decide(d)) \/ ApprovalCancelled \/
             Denied \/ DenySave
    BY <1>3 DEF HookDenies, ReuseGrant, RequestApproval, Decide, Decisions,
            ApprovalCancelled, Denied, DenySave
  <1>4. CASE Approved \/ MarkStarted \/ EnterTool \/ BeginEffect \/
             EndEffect \/ Observe
    BY <1>4 DEF Approved, MarkStarted, EnterTool, BeginEffect, EndEffect,
            Observe
  <1>5. CASE Verified \/ VerifyFailed \/ FinalAnswer \/ EngineError \/
             FinishRun \/ Exit \/ Crash
    BY <1>5 DEF Verified, VerifyFailed, FinalAnswer, EngineError, FinishRun,
            Exit, Crash
  <1>6. CASE Claim \/ Refuse \/ Resume \/ Continue \/ Reconcile
    BY <1>6 DEF Claim, Refuse, Resume, Continue, Reconcile
  <1>7. CASE UNCHANGED vars
    BY <1>7 DEF vars, process, history, bounds, durable
  <1>8. CASE Dispatch
    BY <1>8 DEF Dispatch, NextWave, StartWave, WaveTimeout, WaveDone, AgentSave,
            AgentAppend, AgentEnds, AgentRaises, Gathered
  <1> QED BY <1>1, <1>2, <1>3, <1>4, <1>5, <1>6, <1>7, <1>8 DEF Next

\* The counters and the history.
LEMMA CountsNext == TypeOK /\ Control /\ Crews /\ [Next]_vars => Counts'
  <1> SUFFICES ASSUME TypeOK, Control, Crews, [Next]_vars PROVE Counts'
    OBVIOUS
  <1>0. at \in CallPCs \/ queue # <<>> => cur \in Call /\ cur.id \in 1..MaxCalls
    BY CurTyped DEF Control
  <1>a. Counts /\ MaxCalls \in Nat
    BY DEF TypeOK, Counts, SessionAssumption
  <1> USE <1>a
  <1> USE DEF Counts, Forget, durable, history, bounds
  <1>1. CASE ModelCalls
    <2>1. PICK n \in 1..MaxBatch :
             /\ issued + n <= MaxCalls /\ issued' = issued + n
             /\ live' = live \cup (issued + 1)..(issued + n)
      BY <1>1 DEF ModelCalls
    <2>2. UNCHANGED <<ran, crashes, turns>>
      BY <1>1 DEF ModelCalls
    <2> QED BY <2>1, <2>2, SessionAssumption DEF SessionAssumption
  <1>2. CASE BeginEffect
    <2>1. cur.id \in 1..MaxCalls
      BY <1>2, <1>0 DEF BeginEffect, at, CallPCs
    <2>2. /\ ran' = ran \cup {cur.id}
          /\ UNCHANGED <<live, issued, crashes, turns>>
      BY <1>2 DEF BeginEffect
    <2> QED BY <2>1, <2>2
  <1>3. CASE FinalAnswer
    BY <1>3 DEF FinalAnswer
  <1>4. CASE Crash
    <2>1. /\ UNCHANGED <<ran, issued, turns>> /\ crashes' = crashes + 1
          /\ live' = {}
      BY <1>4 DEF Crash
    <2> QED BY <2>1
  <1>5. CASE EmitSave \/ EmitAppend \/ Launch \/ Prepare \/ UserCancel \/
             StopAtLoop \/ OutOfSteps
    BY <1>5 DEF EmitSave, EmitAppend, Launch, Prepare, UserCancel, StopAtLoop,
            OutOfSteps
  <1>6. CASE RequestModel \/ NoTurn \/ ModelFailed \/ ModelAnswers \/
             NextCall \/ RejectCall \/ HookDenies
    BY <1>6 DEF RequestModel, NoTurn, ModelFailed, ModelAnswers, NextCall,
            RejectCall, HookDenies
  <1>7. CASE ReuseGrant \/ RequestApproval \/
             (\E d \in Decisions : Decide(d)) \/ ApprovalCancelled \/
             Denied \/ DenySave \/ Approved
    BY <1>7 DEF ReuseGrant, RequestApproval, Decide, Decisions,
            ApprovalCancelled, Denied, DenySave, Approved
  <1>8. CASE MarkStarted \/ EnterTool \/ EndEffect \/ Observe \/ Verified \/ VerifyFailed
    BY <1>8 DEF MarkStarted, EnterTool, EndEffect, Observe,
            Verified, VerifyFailed
  <1>9. CASE EngineError \/ FinishRun \/ Exit \/ Claim \/ Refuse \/ Resume \/
             Continue
    BY <1>9 DEF EngineError, FinishRun, Exit, Claim, Refuse, Resume, Continue
  <1>10. CASE Reconcile
    BY <1>10 DEF Reconcile
  <1>11. CASE UNCHANGED vars
    BY <1>11 DEF vars, process, history, bounds, durable
  <1>12. CASE NextWave \/ StartWave \/ WaveTimeout \/ WaveDone
    BY <1>12 DEF NextWave, StartWave, WaveTimeout, WaveDone
  <1>13. ASSUME NEW a \in Agents,
                AgentSave(a) \/ AgentEnds(a) \/ AgentRaises(a)
         PROVE  Counts'
    BY <1>13 DEF AgentSave, AgentEnds, AgentRaises
  <1>14. ASSUME NEW a \in Agents, AgentAppend(a) PROVE Counts'
    <2>1. agents[a].call.id \in 1..MaxCalls
      BY <1>14 DEF AgentAppend, Writing, Crews, Call
    <2>2. /\ ran' \in {ran, ran \cup {agents[a].call.id}}
          /\ UNCHANGED <<live, issued, crashes, turns>>
      BY <1>14 DEF AgentAppend
    <2> QED BY <2>1, <2>2
  <1> QED BY <1>1, <1>2, <1>3, <1>4, <1>5, <1>6, <1>7, <1>8, <1>9, <1>10,
         <1>11, <1>12, <1>13, <1>14 DEF Next, Dispatch

\* The queue holds calls.
LEMMA QueueNext == TypeOK /\ Control /\ [Next]_vars => (queue' \in Seq(Call))
  <1> SUFFICES ASSUME TypeOK, Control, [Next]_vars PROVE (queue' \in Seq(Call))
    OBVIOUS
  <1>a. queue \in Seq(Call) /\ issued \in 0..MaxCalls /\ MaxCalls \in Nat
    BY DEF TypeOK, SessionAssumption
  <1>b. <<>> \in Seq(Call) /\ (queue # <<>> => Tail(queue) \in Seq(Call))
    BY <1>a
  <1> USE <1>a, <1>b DEF Control
  <1> USE DEF Emit, Goto, Finish, Forget, at, CallPCs
  <1>1. CASE ModelCalls
    <2>1. PICK n \in 1..MaxBatch : \E w \in [1..n -> Tools] :
             /\ issued + n <= MaxCalls
             /\ queue' = [i \in 1..n |-> [id |-> issued + i, what |-> w[i]]]
      BY <1>1 DEF ModelCalls
    <2> QED BY <2>1, <1>a, CallsTyped DEF SessionAssumption
  <1>2. CASE FinalAnswer
    <2>1. CASE queue' = queue
      BY <2>1, <1>a
    <2>2. CASE /\ issued < MaxCalls /\ issued' = issued + 1
               /\ queue' = <<[id |-> issued', what |-> "VERIFY"]>>
      <3>1. [id |-> issued', what |-> "VERIFY"] \in Call
        BY <2>2, <1>a DEF Call, Whats
      <3> QED BY <2>2, <3>1
    <2> QED BY <1>2, <2>1, <2>2 DEF FinalAnswer
  <1>3. CASE EmitSave \/ EmitAppend \/ Launch \/ Prepare \/ UserCancel \/
             StopAtLoop \/ OutOfSteps
    BY <1>3 DEF EmitSave, EmitAppend, Launch, Prepare, UserCancel, StopAtLoop,
            OutOfSteps
  <1>4. CASE RequestModel \/ NoTurn \/ ModelFailed \/ ModelAnswers \/
             NextCall \/ RejectCall \/ HookDenies
    BY <1>4 DEF RequestModel, NoTurn, ModelFailed, ModelAnswers, NextCall,
            RejectCall, HookDenies
  <1>5. CASE ReuseGrant \/ RequestApproval \/
             (\E d \in Decisions : Decide(d)) \/ ApprovalCancelled \/
             Denied \/ DenySave \/ Approved
    BY <1>5 DEF ReuseGrant, RequestApproval, Decide, Decisions,
            ApprovalCancelled, Denied, DenySave, Approved
  <1>6. CASE MarkStarted \/ EnterTool \/ BeginEffect \/ EndEffect \/
             Observe \/ Verified
    BY <1>6 DEF MarkStarted, EnterTool, BeginEffect, EndEffect, Observe, Verified
  <1>7. CASE VerifyFailed \/ EngineError \/ FinishRun \/ Exit \/ Crash \/
             Claim \/ Refuse
    BY <1>7 DEF VerifyFailed, EngineError, FinishRun, Exit, Crash, Claim,
            Refuse
  <1>8. CASE Resume \/ Continue \/ Reconcile
    BY <1>8 DEF Resume, Continue, Reconcile
  <1>9. CASE UNCHANGED vars
    BY <1>9 DEF vars, process, history, bounds, durable
  <1>10. CASE Dispatch
    BY <1>10 DEF Dispatch, NextWave, StartWave, WaveTimeout, WaveDone, AgentSave,
            AgentAppend, AgentEnds, AgentRaises
  <1> QED BY <1>1, <1>2, <1>3, <1>4, <1>5, <1>6, <1>7, <1>8, <1>9, <1>10
       DEF Next

\* What is on disk.
LEMMA DiskNext == TypeOK /\ Control /\ [Next]_vars => (manifest' \in Manifest /\ log' \in Log)
  <1> SUFFICES ASSUME TypeOK, Control, [Next]_vars PROVE (manifest' \in Manifest /\ log' \in Log)
    OBVIOUS
  <1>0. at \in CallPCs \/ queue # <<>> => cur \in Call /\ cur.id \in 1..MaxCalls
    BY CurTyped DEF Control
  <1>a. manifest \in Manifest /\ log \in Log /\ msgs \in Seq(Item) /\ ev \in Event /\ seq \in Nat
    BY DEF TypeOK
  <1> USE <1>a
  <1> USE DEF Emit, Goto, Finish, Forget, durable, history, bounds
  <1>1. CASE EmitSave
    <2>1. seq \in Int
      OBVIOUS
    <2>2. log' = log /\ manifest' = [manifest EXCEPT !.lastSeq = seq, !.messages = msgs]
      BY <1>1 DEF EmitSave
    <2> QED BY <2>1, <2>2 DEF Manifest
  <1>2. CASE EmitAppend
    BY <1>2, AppendTyped DEF EmitAppend
  <1>3. CASE Prepare
    <2>1. <<User>> \in Seq(Item)
      BY ItemsTyped
    <2>2. log' = log /\ Checkpoint("running", <<User>>)
      BY <1>3 DEF Prepare
    <2> QED BY <2>1, <2>2, CheckpointTyped, PhasesTyped
  <1>4. CASE ReuseGrant
    BY <1>4, <1>0, PhasesTyped DEF ReuseGrant, Manifest, Pending, at, CallPCs
  <1>5. CASE RequestApproval
    BY <1>5, <1>0, PhasesTyped DEF RequestApproval, Manifest, at, CallPCs
  <1>6. ASSUME NEW d \in Decisions, Decide(d) PROVE (manifest' \in Manifest /\ log' \in Log)
    BY <1>6, <1>0, PhasesTyped DEF Decide, Decisions, Manifest, Pending, Effect, Effects, at, CallPCs
  <1>7. CASE DenySave
    BY <1>7, CheckpointTyped, PhasesTyped DEF DenySave
  <1>8. CASE MarkStarted
    BY <1>8 DEF MarkStarted, Manifest
  <1>9. CASE Observe
    BY <1>9, <1>0, CheckpointTyped, ItemsTyped, PhasesTyped DEF Observe, at, CallPCs
  <1>10. CASE VerifyFailed
    BY <1>10, <1>0, CheckpointTyped, ItemsTyped, PhasesTyped DEF VerifyFailed
  <1>11. CASE FinishRun
    BY <1>11, CheckpointTyped, PhasesTyped DEF FinishRun, TypeOK
  <1>12. CASE Crash
    <2>1. InFlight \subseteq Event
      BY AgentEventTyped DEF InFlight
    <2> QED BY <1>12, <2>1, AppendTyped DEF Crash
  <1>13. CASE Claim
    <2>1. log.lines - 1 \in Int
      BY DEF Log
    <2>2. log' = log /\ manifest' = [manifest EXCEPT !.lastSeq = log.lines - 1]
      BY <1>13 DEF Claim
    <2> QED BY <2>1, <2>2 DEF Manifest
  <1>14. CASE Continue
    BY <1>14, <1>0, CheckpointTyped, ItemsTyped, PhasesTyped DEF Continue, Manifest
  <1>15. CASE Reconcile
    <2>1. CASE manifest.pending = NoCall
      BY <1>15, <2>1 DEF Reconcile
    <2>2. CASE manifest.pending # NoCall
      <3> DEFINE p == manifest.pending
                 item == IF p.what = "VERIFY" THEN User ELSE Obs(p, "abandoned")
      <3>1. p \in Call
        BY <2>2 DEF Manifest
      <3>2. item \in Item
        BY <3>1, ItemsTyped DEF Unperformed
      <3>3. Append(msgs, item) \in Seq(Item)
        BY <3>2, ItemsTyped
      <3>4. /\ log' = log
            /\ manifest' = [manifest EXCEPT !.phase = "running",
                 !.pending = NoCall, !.messages = Append(msgs, item)]
        BY <1>15, <2>2 DEF Reconcile
      <3> HIDE DEF item
      <3> QED BY <3>3, <3>4, PhasesTyped DEF Manifest
    <2> QED BY <2>1, <2>2
  <1>16. CASE Launch \/ UserCancel \/ StopAtLoop \/ OutOfSteps \/
             RequestModel \/ NoTurn \/ ModelFailed
    BY <1>16 DEF Launch, UserCancel, StopAtLoop, OutOfSteps, RequestModel,
            NoTurn, ModelFailed
  <1>17. CASE ModelCalls \/ ModelAnswers \/ NextCall \/ RejectCall \/
             HookDenies \/ ApprovalCancelled \/ Denied
    BY <1>17 DEF ModelCalls, ModelAnswers, NextCall, RejectCall, HookDenies,
            ApprovalCancelled, Denied
  <1>18. CASE Approved \/ EnterTool \/ BeginEffect \/ EndEffect \/
             Verified \/ FinalAnswer
    BY <1>18 DEF Approved, EnterTool, BeginEffect, EndEffect, Verified, FinalAnswer
  <1>19. CASE EngineError \/ Exit \/ Refuse \/ Resume
    BY <1>19 DEF EngineError, Exit, Refuse, Resume
  <1>20. CASE UNCHANGED vars
    BY <1>20 DEF vars, process, history, bounds, durable
  <1>21. CASE NextWave \/ StartWave \/ WaveTimeout \/ WaveDone
    BY <1>21 DEF NextWave, StartWave, WaveTimeout, WaveDone
  <1>22. ASSUME NEW a \in Agents, AgentSave(a)
         PROVE  manifest' \in Manifest /\ log' \in Log
    <2>1. seq \in Int
      OBVIOUS
    <2>2. log' = log /\ manifest' = [manifest EXCEPT !.lastSeq = seq, !.messages = msgs]
      BY <1>22 DEF AgentSave
    <2> QED BY <2>1, <2>2 DEF Manifest
  <1>23. ASSUME NEW a \in Agents, AgentAppend(a)
         PROVE  manifest' \in Manifest /\ log' \in Log
    BY <1>23, AppendTyped, AgentEventTyped DEF AgentAppend
  <1>24. ASSUME NEW a \in Agents, AgentEnds(a) \/ AgentRaises(a)
         PROVE  manifest' \in Manifest /\ log' \in Log
    BY <1>24 DEF AgentEnds, AgentRaises
  <1> QED BY <1>1, <1>2, <1>3, <1>4, <1>5, <1>6, <1>7, <1>8, <1>9, <1>10,
         <1>11, <1>12, <1>13, <1>14, <1>15, <1>16, <1>17, <1>18, <1>19, <1>20,
         <1>21, <1>22, <1>23, <1>24 DEF Next, Dispatch

\* The conversation.
LEMMA MessagesNext == TypeOK /\ Control /\ [Next]_vars => (msgs' \in Seq(Item))
  <1> SUFFICES ASSUME TypeOK, Control, [Next]_vars PROVE (msgs' \in Seq(Item))
    OBVIOUS
  <1>0. at \in CallPCs \/ queue # <<>> => cur \in Call /\ cur.id \in 1..MaxCalls
    BY CurTyped DEF Control
  <1>a. manifest \in Manifest /\ msgs \in Seq(Item) /\ issued \in 0..MaxCalls
    BY DEF TypeOK
  <1>b. <<>> \in Seq(Item)
    OBVIOUS
  <1> USE <1>a, <1>b
  <1> USE DEF Emit, Goto, Finish, Forget, durable, history, bounds
  <1>1. CASE Prepare
    BY <1>1, ItemsTyped DEF Prepare
  <1>2. CASE OutOfSteps
    BY <1>2, ItemsTyped DEF OutOfSteps
  <1>3. CASE ModelCalls
    <2>1. PICK n \in 1..MaxBatch : \E w \in [1..n -> Tools] :
             /\ issued + n <= MaxCalls
             /\ msgs' = msgs \o [i \in 1..n |-> Calling([j \in 1..n |->
                                  [id |-> issued + j, what |-> w[j]]][i])]
      BY <1>3 DEF ModelCalls
    <2> QED BY <2>1, CallsTyped DEF SessionAssumption
  <1>4. CASE RejectCall
    BY <1>4, <1>0, ItemsTyped DEF RejectCall, Unperformed
  <1>5. CASE Denied
    BY <1>5, <1>0, ItemsTyped DEF Denied, Unperformed, at, CallPCs
  <1>6. CASE Observe
    BY <1>6, <1>0, ItemsTyped DEF Observe, at, CallPCs
  <1>7. CASE VerifyFailed
    BY <1>7, ItemsTyped DEF VerifyFailed
  <1>8. CASE Resume
    BY <1>8, <1>0, ItemsTyped DEF Resume, Manifest
  <1>9. CASE Continue
    BY <1>9, ItemsTyped DEF Continue, Manifest
  <1>10. CASE Reconcile
    <2>1. CASE manifest.pending = NoCall
      BY <1>10, <2>1 DEF Reconcile
    <2>2. CASE manifest.pending # NoCall
      <3> DEFINE p == manifest.pending
                 item == IF p.what = "VERIFY" THEN User ELSE Obs(p, "abandoned")
      <3>1. p \in Call
        BY <2>2 DEF Manifest
      <3>2. item \in Item
        BY <3>1, ItemsTyped DEF Unperformed
      <3>3. Append(msgs, item) \in Seq(Item)
        BY <3>2, ItemsTyped
      <3> QED BY <1>10, <2>2, <3>3 DEF Reconcile
    <2> QED BY <2>1, <2>2
  <1>11. CASE EmitSave \/ EmitAppend \/ Launch \/ UserCancel \/ StopAtLoop \/
             RequestModel \/ NoTurn
    BY <1>11 DEF EmitSave, EmitAppend, Launch, UserCancel, StopAtLoop,
            RequestModel, NoTurn
  <1>12. CASE ModelFailed \/ ModelAnswers \/ NextCall \/ HookDenies \/
             ReuseGrant \/ RequestApproval \/ (\E d \in Decisions : Decide(d))
    BY <1>12 DEF ModelFailed, ModelAnswers, NextCall, HookDenies, ReuseGrant,
            RequestApproval, Decide, Decisions
  <1>13. CASE ApprovalCancelled \/ DenySave \/ Approved \/ MarkStarted \/
             EnterTool \/ BeginEffect \/ EndEffect
    BY <1>13 DEF ApprovalCancelled, DenySave, Approved, MarkStarted,
            EnterTool, BeginEffect, EndEffect
  <1>14. CASE Verified \/ FinalAnswer \/ EngineError \/
             FinishRun \/ Exit \/ Crash
    BY <1>14 DEF Verified, FinalAnswer, EngineError, FinishRun,
            Exit, Crash
  <1>15. CASE Claim \/ Refuse
    BY <1>15 DEF Claim, Refuse
  <1>16. CASE UNCHANGED vars
    BY <1>16 DEF vars, process, history, bounds, durable
  <1>17. CASE Dispatch
    BY <1>17 DEF Dispatch, NextWave, StartWave, WaveTimeout, WaveDone, AgentSave,
            AgentAppend, AgentEnds, AgentRaises
  <1> QED BY <1>1, <1>2, <1>3, <1>4, <1>5, <1>6, <1>7, <1>8, <1>9, <1>10,
         <1>11, <1>12, <1>13, <1>14, <1>15, <1>16, <1>17 DEF Next

\* The next sequence number; a resumed one comes from the manifest.
LEMMA SeqNext == TypeOK /\ Control /\ Numbering /\ [Next]_vars => (seq' \in Nat)
  <1> SUFFICES ASSUME TypeOK, Control, Numbering, [Next]_vars PROVE (seq' \in Nat)
    OBVIOUS
  <1>a. manifest \in Manifest /\ log \in Log /\ seq \in Nat
    BY DEF TypeOK
  <1> USE <1>a
  <1> USE DEF Emit, Goto, Finish, Forget, durable, history, bounds
  <1>1. CASE Resume
    BY <1>1 DEF Resume, Numbering, Manifest, Log
  <1>2. CASE Continue
    BY <1>2 DEF Continue, Numbering, Manifest, Log
  <1>3. CASE EmitSave \/ EmitAppend \/ Launch \/ Prepare \/ UserCancel \/
             StopAtLoop \/ OutOfSteps
    BY <1>3 DEF EmitSave, EmitAppend, Launch, Prepare, UserCancel, StopAtLoop,
            OutOfSteps
  <1>4. CASE RequestModel \/ NoTurn \/ ModelFailed \/ ModelCalls \/
             ModelAnswers \/ NextCall \/ RejectCall
    BY <1>4 DEF RequestModel, NoTurn, ModelFailed, ModelCalls, ModelAnswers,
            NextCall, RejectCall
  <1>5. CASE HookDenies \/ ReuseGrant \/ RequestApproval \/
             (\E d \in Decisions : Decide(d)) \/ ApprovalCancelled \/
             Denied \/ DenySave
    BY <1>5 DEF HookDenies, ReuseGrant, RequestApproval, Decide, Decisions,
            ApprovalCancelled, Denied, DenySave
  <1>6. CASE Approved \/ MarkStarted \/ EnterTool \/ BeginEffect \/
             EndEffect \/ Observe
    BY <1>6 DEF Approved, MarkStarted, EnterTool, BeginEffect, EndEffect,
            Observe
  <1>7. CASE Verified \/ VerifyFailed \/ FinalAnswer \/ EngineError \/
             FinishRun \/ Exit \/ Crash
    BY <1>7 DEF Verified, VerifyFailed, FinalAnswer, EngineError, FinishRun,
            Exit, Crash
  <1>8. CASE Claim \/ Refuse \/ Reconcile
    BY <1>8 DEF Claim, Refuse, Reconcile
  <1>9. CASE UNCHANGED vars
    BY <1>9 DEF vars, process, history, bounds, durable
  <1>10. CASE Dispatch
    BY <1>10 DEF Dispatch, NextWave, StartWave, WaveTimeout, WaveDone, AgentSave,
            AgentAppend, AgentEnds, AgentRaises
  <1> QED BY <1>1, <1>2, <1>3, <1>4, <1>5, <1>6, <1>7, <1>8, <1>9, <1>10
       DEF Next

\* No step of the process, of a death or of a recovery breaks the three together.
LEMMA TypeNext == TypeInv /\ [Next]_vars => TypeInv'
  <1> SUFFICES ASSUME TypeInv, [Next]_vars PROVE TypeInv'
    OBVIOUS
  <1>1. Control' /\ Crews' /\ Locked' /\ Numbering'
    BY ControlNext, CrewsNext, LockedNext, NumberingNext DEF TypeInv
  <1>2. TypeOK'
    BY <1>1, EventNext, FlagsNext, CountsNext, QueueNext, DiskNext, MessagesNext, SeqNext
    DEF TypeInv, TypeOK, Control, Flags, Counts, Crews, AgentState, Returns
  <1> QED BY <1>1, <1>2 DEF TypeInv

\* The inductive invariant holds throughout.
THEOREM TypeInvariant == Spec => []TypeInv
  BY TypeInit, TypeNext, PTL DEF Spec

\* Every variable has its type in every reachable state.
THEOREM TypeCorrect == Spec => []TypeOK
  <1>1. TypeInv => TypeOK
    BY DEF TypeInv
  <1> QED BY <1>1, TypeInvariant, PTL

\* Wherever the process dies, the manifest names the last line of the log or
\* the one after it, so _validate_events accepts its numbering.
THEOREM Aligned == Spec => []JournalAligned
  <1>1. TypeInv => JournalAligned
    BY DEF TypeInv, TypeOK, Control, Numbering, JournalAligned, Manifest, Log
  <1> QED BY <1>1, TypeInvariant, PTL

-----------------------------------------------------------------------------
(* A session that died inside a side effect *)

(***************************************************************************)
(* The side effect of a tool or of a verification command runs while its   *)
(* started event, or the line of a subagent left behind earlier, is the    *)
(* last one; a crash there leaves the disk so, and nothing but a resume    *)
(* changes it.  Where there are no subagents the manifest is level with    *)
(* the log too.                                                            *)
(***************************************************************************)
Starting == {"started", "tool", "effect", "in_effect"}
Dispatching == {"dispatch", "wave", "gather"}
Shows == StartEvents \cup (IF "AGENT" \in Tools THEN AgentEvents ELSE {})
DispatchKind ==
    /\ at \in Dispatching => cur.what = "AGENT"
    /\ \A a \in Agents : agents[a].at # "idle" => agents[a].call.what = "AGENT"
MidEffect ==
    /\ DispatchKind
    /\ pc \in Starting => log.last \in Shows
    /\ pc \in {"emit", "append"} =>
          /\ ret \notin {"tool", "effect", "in_effect"}
          /\ ret = "started" => ev.type \in StartEvents
    /\ pc \notin {"down", "validating"} => cut = {}
    /\ (\E c \in cut : c.what # "AGENT") => log.last \in Shows
    /\ "AGENT" \notin Tools /\ cut # {} =>
          /\ manifest.lastSeq = log.lines - 1
          /\ pc = "validating" => ~ahead

\* In a new session no side effect is under way or was interrupted.
LEMMA MidEffectInit == Init => MidEffect
  BY DEF Init, MidEffect, DispatchKind, Starting, Dispatching, Resting, at

\* Only a session whose model may issue subagent calls has subagents.
LEMMA SpeakersDispatched ==
    ASSUME TypeInv, MidEffect
    PROVE  /\ \A a \in Agents : agents[a].at # "idle" => "AGENT" \in Tools
           /\ at \in Dispatching => "AGENT" \in Tools
           /\ \A a \in Agents : Writing(a) => AgentEvent(a).type \in Shows
  <1>1. at \in Dispatching => cur \in Call
    BY CurTyped DEF TypeInv, Control, CallPCs, Dispatching
  <1>2. \A c \in Call : c.what = "AGENT" => "AGENT" \in Tools
    BY DEF Call, Whats
  <1>3. \A a \in Agents : agents[a].at # "idle" => "AGENT" \in Tools
    BY <1>2 DEF TypeInv, Crews, MidEffect, DispatchKind
  <1>4. at \in Dispatching => "AGENT" \in Tools
    BY <1>1, <1>2 DEF MidEffect, DispatchKind
  <1>5. \A a \in Agents : Writing(a) => AgentEvent(a).type \in Shows
    BY <1>3, AgentEventTyped DEF Writing, Shows, TypeInv
  <1> QED BY <1>3, <1>4, <1>5

\* Subagents work for subagent calls.
LEMMA DispatchKindNext ==
    TypeInv /\ DispatchKind /\ [Next]_vars => DispatchKind'
  <1> SUFFICES ASSUME TypeInv, DispatchKind, [Next]_vars PROVE DispatchKind'
    OBVIOUS
  <1>0. ret \in Returns /\ agents \in [Agents -> AgentState]
    BY DEF TypeInv, Control, Crews
  <1>1. \A a \in Agents : agents'[a].at # "idle" => agents'[a].call.what = "AGENT"
    <2> DEFINE Kind == \A a \in Agents : agents'[a].at # "idle"
                                         => agents'[a].call.what = "AGENT"
    <2> USE <1>0 DEF DispatchKind, AgentState, Resting
    <2>1. CASE agents' = agents
      BY <2>1
    <2>2. CASE StartWave
      <3>1. cur.what = "AGENT"
        BY <2>2 DEF StartWave, at, Dispatching
      <3> QED BY <2>2, <3>1 DEF StartWave
    <2>3. CASE WaveTimeout
      BY <2>3 DEF WaveTimeout
    <2>4. ASSUME NEW a \in Agents, AgentSave(a) PROVE Kind
      BY <2>4 DEF AgentSave
    <2>5. ASSUME NEW a \in Agents, AgentAppend(a) PROVE Kind
      BY <2>5 DEF AgentAppend, Writing
    <2>6. ASSUME NEW a \in Agents, AgentEnds(a) \/ AgentRaises(a) PROVE Kind
      BY <2>6 DEF AgentEnds, AgentRaises
    <2>7. CASE Exit \/ Crash \/ Refuse
      BY <2>7 DEF Exit, Crash, Refuse, Forget
    <2> QED BY <2>1, <2>2, <2>3, <2>4, <2>5, <2>6, <2>7, AgentsStay
  <1>2. at' \in Dispatching => cur'.what = "AGENT"
    <2> USE <1>0 DEF DispatchKind, Dispatching, at, cur, Goto, Emit, Finish,
                 Forget, Returns, Up, Downs, durable, history, bounds
    <2>1. CASE EmitSave \/ EmitAppend \/ Launch \/ Prepare \/ UserCancel \/
               StopAtLoop \/ OutOfSteps
      BY <2>1 DEF EmitSave, EmitAppend, Launch, Prepare, UserCancel,
              StopAtLoop, OutOfSteps
    <2>2. CASE RequestModel \/ NoTurn \/ ModelFailed \/ ModelCalls \/
               ModelAnswers \/ NextCall \/ RejectCall
      BY <2>2 DEF RequestModel, NoTurn, ModelFailed, ModelCalls, ModelAnswers,
              NextCall, RejectCall
    <2>3. CASE HookDenies \/ ReuseGrant \/ RequestApproval \/
               (\E d \in Decisions : Decide(d)) \/ ApprovalCancelled \/
               Denied \/ DenySave
      BY <2>3 DEF HookDenies, ReuseGrant, RequestApproval, Decide, Decisions,
              ApprovalCancelled, Denied, DenySave
    <2>4. CASE Approved \/ MarkStarted \/ EnterTool \/ BeginEffect \/
               EndEffect \/ Observe
      BY <2>4 DEF Approved, MarkStarted, EnterTool, BeginEffect, EndEffect,
              Observe
    <2>5. CASE Verified \/ VerifyFailed \/ FinalAnswer \/ EngineError \/
               FinishRun \/ Exit \/ Crash
      BY <2>5 DEF Verified, VerifyFailed, FinalAnswer, EngineError, FinishRun,
              Exit, Crash
    <2>6. CASE Claim \/ Refuse \/ Resume \/ Continue \/ Reconcile
      BY <2>6 DEF Claim, Refuse, Resume, Continue, Reconcile
    <2>7. CASE Dispatch
      BY <2>7 DEF Dispatch, NextWave, StartWave, WaveTimeout, WaveDone,
              AgentSave, AgentAppend, AgentEnds, AgentRaises, Gathered
    <2>8. CASE UNCHANGED vars
      BY <2>8 DEF vars, process
    <2> QED BY <2>1, <2>2, <2>3, <2>4, <2>5, <2>6, <2>7, <2>8 DEF Next
  <1> QED BY <1>1, <1>2 DEF DispatchKind

\* Whatever happens next, and however often a recovery dies.
LEMMA MidEffectNext == TypeInv /\ MidEffect /\ [Next]_vars => MidEffect'
  <1> SUFFICES ASSUME TypeInv, MidEffect, [Next]_vars PROVE MidEffect'
    OBVIOUS
  <1>0. /\ manifest \in Manifest /\ log \in Log /\ cut \subseteq Call
        /\ \A c \in Call : c.what = "AGENT" => "AGENT" \in Tools
    BY DEF TypeInv, TypeOK, Call, Whats
  <1>a. ret \in Returns /\ Numbering
    BY DEF TypeInv, Control
  <1>b. DispatchKind'
    BY DispatchKindNext DEF MidEffect
  <1> USE <1>0, <1>a, <1>b
  <1> USE DEF MidEffect, Starting, Goto, Emit, Finish, Forget, Up, Downs,
               durable, history, bounds
  <1>1. CASE EmitSave
    BY <1>1 DEF EmitSave
  <1>2. CASE EmitAppend
    BY <1>2 DEF EmitAppend, AppendTo, Returns, Numbering, Shows
  <1>3. CASE Approved
    BY <1>3 DEF Approved, StartEvents
  <1>4. CASE MarkStarted
    BY <1>4 DEF MarkStarted
  <1>5. CASE EnterTool
    BY <1>5 DEF EnterTool
  <1>6. CASE Crash
    <2>1. /\ pc' = "down" /\ cut' = cut \cup Underway
          /\ manifest' = manifest
          /\ log' = log \/ \E e \in InFlight : log' = AppendTo(log, e)
      BY <1>6 DEF Crash
    <2>2. CASE pc = "in_effect"
      <3>1. log.last \in Shows /\ cut = {}
        BY <2>2
      <3>2. log'.last \in Shows
        BY <2>1, <2>2, <3>1, SpeakersDispatched DEF InFlight, AppendTo
      <3>3. "AGENT" \notin Tools => InFlight = {} /\ ~Emitting
        BY <2>2, SpeakersDispatched DEF InFlight, Writing, Emitting, Busy
      <3>4. "AGENT" \notin Tools => manifest'.lastSeq = log'.lines - 1
        BY <2>1, <2>2, <3>3 DEF Numbering
      <3> QED BY <2>1, <3>2, <3>4
    <2>3. CASE pc # "in_effect"
      <3>1. \A c \in Underway : c.what = "AGENT"
        BY <2>3 DEF Underway, DispatchKind
      <3>2. "AGENT" \notin Tools => Underway = {}
        BY <2>3, SpeakersDispatched DEF Underway
      <3>3. CASE cut = {}
        BY <2>1, <3>1, <3>2, <3>3
      <3>4. CASE cut # {}
        <4>1. pc \in {"down", "validating"}
          BY <3>4
        <4>2. InFlight = {}
          BY <4>1 DEF InFlight, TypeInv, Locked, Writing, Resting
        <4>3. log' = log
          BY <2>1, <4>2
        <4> QED BY <2>1, <3>1, <3>2, <4>3
      <3> QED BY <3>3, <3>4
    <2> QED BY <2>2, <2>3
  <1>7. CASE Claim
    <2>1. cut # {} /\ "AGENT" \notin Tools => ahead' = FALSE
      <3>1. cut # {} /\ "AGENT" \notin Tools => manifest.lastSeq # log.lines
        BY <1>7 DEF Claim, Log
      <3>2. ahead' = (manifest.lastSeq = log.lines)
        BY <1>7 DEF Claim
      <3> QED BY ONLY <3>1, <3>2
    <2>2. /\ pc = "down" /\ pc' = "validating" /\ log' = log
          /\ manifest'.lastSeq = log.lines - 1
          /\ cut' = cut
      BY <1>7 DEF Claim, Manifest
    <2> QED BY <2>1, <2>2
  <1>8. CASE Resume
    BY <1>8 DEF Resume
  <1>9. CASE Continue
    BY <1>9 DEF Continue
  <1>10. CASE Launch \/ Prepare \/ UserCancel \/ StopAtLoop \/ OutOfSteps \/
             RequestModel \/ NoTurn
    BY <1>10 DEF Launch, Prepare, UserCancel, StopAtLoop, OutOfSteps,
            RequestModel, NoTurn
  <1>11. CASE ModelFailed \/ ModelCalls \/ ModelAnswers \/ NextCall \/
             RejectCall \/ HookDenies \/ ReuseGrant
    BY <1>11 DEF ModelFailed, ModelCalls, ModelAnswers, NextCall, RejectCall,
            HookDenies, ReuseGrant
  <1>12. CASE RequestApproval \/ (\E d \in Decisions : Decide(d)) \/
             ApprovalCancelled \/ Denied \/ DenySave \/ BeginEffect \/
             EndEffect
    BY <1>12 DEF RequestApproval, Decide, Decisions, ApprovalCancelled,
            Denied, DenySave, BeginEffect, EndEffect
  <1>13. CASE Observe \/ Verified \/ VerifyFailed \/
             FinalAnswer \/ EngineError \/ FinishRun
    BY <1>13 DEF Observe, Verified, VerifyFailed, FinalAnswer,
            EngineError, FinishRun
  <1>14. CASE Exit \/ Refuse \/ Reconcile
    BY <1>14 DEF Exit, Refuse, Reconcile
  <1>15. CASE UNCHANGED vars
    BY <1>15 DEF vars, process, history, bounds, durable
  <1>16. CASE NextWave \/ StartWave \/ WaveTimeout \/ WaveDone
    BY <1>16 DEF NextWave, StartWave, WaveTimeout, WaveDone
  <1>17. ASSUME NEW a \in Agents, AgentEnds(a) \/ AgentRaises(a)
         PROVE  MidEffect'
    <2>1. pc \notin {"down", "validating"}
      BY <1>17 DEF AgentEnds, AgentRaises, TypeInv, Locked, Resting
    <2> QED BY <1>17, <2>1 DEF AgentEnds, AgentRaises, Gathered
  <1>18. ASSUME NEW a \in Agents, AgentSave(a) PROVE MidEffect'
    <2>1. pc \notin {"down", "validating"}
      BY <1>18 DEF AgentSave, TypeInv, Locked, Resting
    <2> QED BY <1>18, <2>1 DEF AgentSave
  <1>19. ASSUME NEW a \in Agents, AgentAppend(a) PROVE MidEffect'
    <2>1. pc \notin {"down", "validating"}
      BY <1>19 DEF AgentAppend, Writing, TypeInv, Locked, Resting
    <2>2. log'.last \in Shows
      BY <1>19, SpeakersDispatched DEF AgentAppend, AppendTo
    <2> QED BY <1>19, <2>1, <2>2 DEF AgentAppend
  <1> QED BY <1>1, <1>2, <1>3, <1>4, <1>5, <1>6, <1>7, <1>8, <1>9, <1>10,
         <1>11, <1>12, <1>13, <1>14, <1>15, <1>16, <1>17, <1>18, <1>19
         DEF Next, Dispatch

\* In every reachable state an interrupted side effect of the tool loop is still
\* told by the last line of the log, unless a subagent's line covers it.
THEOREM MidEffectInvariant == Spec => []MidEffect
  <1> QED BY MidEffectInit, MidEffectNext, TypeInvariant, PTL DEF Spec

\* claim_and_validate_resume lets only an unambiguous session into the loop.
LEMMA HandedOver ==
    ASSUME TypeInv, [Next]_vars, pc = "validating", pc' = "emit"
    PROVE  ~Ambiguous
  <1>1. \A a \in Agents : agents[a] = Resting
    BY DEF TypeInv, Locked, Up, Downs
  <1>2. ~Dispatch
    BY <1>1 DEF Dispatch, NextWave, StartWave, WaveTimeout, WaveDone,
       AgentSave, AgentAppend, AgentEnds, AgentRaises, Writing, Resting
  <1>3. Next
    BY DEF vars, process
  <1>4. Resume \/ Continue
    BY <1>2, <1>3 DEF Next, Up, Downs, EmitSave, EmitAppend, Launch,
         Prepare, UserCancel, StopAtLoop, OutOfSteps, RequestModel, NoTurn,
         ModelFailed, ModelCalls, ModelAnswers, NextCall, RejectCall,
         HookDenies, ReuseGrant, RequestApproval, Decide, ApprovalCancelled,
         Denied, DenySave, Approved, MarkStarted, EnterTool, BeginEffect,
         EndEffect, Observe, Verified, VerifyFailed, FinalAnswer, EngineError,
         FinishRun, Exit, Crash, Forget, Claim, Refuse, Reconcile
  <1> QED BY <1>4 DEF Resume, Continue

\* Whatever the tools, the bounds, the number of subagents and of deaths: a
\* session that died inside a side effect of the tool loop itself is handed
\* over only when a subagent's line hides the start, or the manifest is ahead.
THEOREM MidEffectHidden == Spec => OnlyAgentsResumeMidEffect
  <1>1. ASSUME TypeInv, MidEffect, [Next]_vars, pc = "validating",
               pc' = "emit", \E c \in cut : c.what # "AGENT"
        PROVE  ahead \/ log.last \in AgentEvents
    BY <1>1, HandedOver DEF Ambiguous, MidEffect, Shows
  <1>2. TypeInv /\ MidEffect /\ [Next]_vars
           => [pc = "validating" /\ pc' = "emit"
                 /\ (\E c \in cut : c.what # "AGENT")
                 => ahead \/ log.last \in AgentEvents]_vars
    BY <1>1
  <1> QED BY <1>2, TypeInvariant, MidEffectInvariant, PTL
       DEF Spec, OnlyAgentsResumeMidEffect

\* Without subagents claim_and_validate_resume never hands over a session that
\* died inside a side effect.
THEOREM MidEffectRefused ==
    ASSUME "AGENT" \notin Tools PROVE Spec => NoResumeMidEffect
  <1>1. ASSUME TypeInv, MidEffect, [Next]_vars, pc = "validating", pc' = "emit"
        PROVE  cut = {}
    <2> SUFFICES ASSUME cut # {} PROVE FALSE
      OBVIOUS
    <2>1. \A c \in cut : c.what # "AGENT"
      BY <1>1 DEF TypeInv, Crews, Call, Whats
    <2>2. log.last \in StartEvents /\ ~ahead
      BY <1>1, <2>1 DEF MidEffect, Shows
    <2> QED BY <1>1, <2>2, HandedOver DEF Ambiguous
  <1>2. TypeInv /\ MidEffect /\ [Next]_vars
           => [pc = "validating" /\ pc' = "emit" => cut = {}]_vars
    BY <1>1
  <1> QED BY <1>2, TypeInvariant, MidEffectInvariant, PTL DEF Spec, NoResumeMidEffect

-----------------------------------------------------------------------------
(* No side effect before its started event, no start without approval *)

\* The marks the log holds, and those the event being emitted will add, match
\* the place control has reached with the current call.
AgentsStarted == \A a \in Agents : agents[a].at # "idle"
                    => Logged(StartEvents, agents[a].call.id)
Journaled ==
    /\ EffectIsJournaled
    /\ pc = "started" \/ at \in {"tool", "effect"} \cup Dispatching
          => Logged(StartEvents, cur.id)
    /\ AgentsStarted
    /\ pc = "approved" => Logged(AllowEvents, cur.id)
    /\ pc \in {"emit", "append"} =>
          /\ ev.type \in StartEvents => Logged(AllowEvents, ev.id)
          /\ ret = "started" => ev.type \in StartEvents /\ ev.id = cur.id
          /\ ret = "approved" => ev.type \in AllowEvents /\ ev.id = cur.id

\* In a new session nothing has been started or allowed.
LEMMA JournaledInit == Init => Journaled
  BY DEF Init, Journaled, AgentsStarted, EffectIsJournaled, Logged, Dispatching, Resting, at

\* While nothing is appended and no effect begins, EffectIsJournaled stays.
LEMMA JournaledStays ==
    ASSUME EffectIsJournaled, log' = log, ran' = ran
    PROVE  EffectIsJournaled'
  BY DEF EffectIsJournaled, Logged

\* Appending the event keeps the marks and adds it when it is one.
LEMMA MarksGrow ==
    ASSUME Journaled, pc = "append", ev \in Event, log \in Log,
           log' = AppendTo(log, ev), ran' = ran
    PROVE  /\ EffectIsJournaled'
           /\ \A T, id : Logged(T, id) => Logged(T, id)'
           /\ ev.type \in StartEvents \cup AllowEvents
                 => \E e \in log'.marks : e.type = ev.type /\ e.id = ev.id
  <1>1. log'.marks = log.marks \cup ({ev} \cap MarkEvents)
    BY DEF AppendTo, Log
  <1>2. ev.type \in StartEvents \cup AllowEvents => ev \in MarkEvents
    BY DEF Event, MarkEvents
  <1>3. \A T, id : Logged(T, id) => Logged(T, id)'
    BY <1>1 DEF Logged
  <1>4. EffectIsJournaled'
    <2>1. \A id \in ran : Logged(StartEvents, id)'
      BY <1>3 DEF Journaled, EffectIsJournaled
    <2>2. ASSUME NEW id \in 1..MaxCalls, Logged(StartEvents, id)'
          PROVE  Logged(AllowEvents, id)'
      <3>1. CASE Logged(StartEvents, id)
        BY <3>1, <1>3 DEF Journaled, EffectIsJournaled
      <3>2. CASE ev.type \in StartEvents /\ ev.id = id
        BY <3>2, <1>3 DEF Journaled
      <3> QED BY <2>2, <3>1, <3>2, <1>1 DEF Logged
    <2> QED BY <2>1, <2>2 DEF EffectIsJournaled
  <1> QED BY <1>1, <1>2, <1>3, <1>4

\* Lines are written by emit(), and by a process as it dies.
LEMMA LogGrows ==
    ASSUME TypeInv, [Next]_vars
    PROVE  /\ log' = log \/ EmitAppend \/ Crash \/ \E a \in Agents : AgentAppend(a)
           /\ log.marks \subseteq log'.marks
  <1> USE DEF durable
  <1>1. CASE EmitSave \/ Launch \/ Prepare \/ UserCancel \/
             StopAtLoop \/ OutOfSteps \/ RequestModel \/ NoTurn \/
             ModelFailed \/ ModelCalls \/ ModelAnswers \/ NextCall \/
             RejectCall
    BY <1>1 DEF EmitSave, Launch, Prepare, UserCancel, StopAtLoop,
            OutOfSteps, RequestModel, NoTurn, ModelFailed, ModelCalls,
            ModelAnswers, NextCall, RejectCall
  <1>2. CASE HookDenies \/ ReuseGrant \/ RequestApproval \/
             ApprovalCancelled \/
             Denied \/ DenySave \/ Approved \/ MarkStarted \/ EnterTool \/
             BeginEffect \/ EndEffect \/ Observe
    BY <1>2 DEF HookDenies, ReuseGrant, RequestApproval,
            ApprovalCancelled, Denied, DenySave, Approved, MarkStarted,
            EnterTool, BeginEffect, EndEffect, Observe
  <1>3. CASE Verified \/ VerifyFailed \/ FinalAnswer \/ EngineError \/
             FinishRun \/ Exit \/ Claim \/ Refuse \/ Resume \/ Continue \/
             Reconcile
    BY <1>3 DEF Verified, VerifyFailed, FinalAnswer, EngineError, FinishRun,
            Exit, Claim, Refuse, Resume, Continue, Reconcile
  <1>4. ASSUME NEW d \in Decisions, Decide(d) PROVE log' = log
    BY <1>4 DEF Decide
  <1>5. CASE NextWave \/ StartWave \/ WaveTimeout \/ WaveDone
    BY <1>5 DEF NextWave, StartWave, WaveTimeout, WaveDone
  <1>6. ASSUME NEW a \in Agents,
               AgentSave(a) \/ AgentEnds(a) \/ AgentRaises(a)
        PROVE  log' = log
    BY <1>6 DEF AgentSave, AgentEnds, AgentRaises
  <1>7. CASE UNCHANGED vars
    BY <1>7 DEF vars
  <1>8. CASE EmitAppend \/ Crash \/ \E a \in Agents : AgentAppend(a)
    <2>1. \/ log' = log
          \/ \E e \in Event : log' = AppendTo(log, e)
      BY <1>8, AgentEventTyped
      DEF EmitAppend, Crash, AgentAppend, InFlight, TypeInv, TypeOK
    <2> QED BY <1>8, <2>1 DEF AppendTo
  <1> QED BY <1>1, <1>2, <1>3, <1>4, <1>5, <1>6, <1>7, <1>8 DEF Next, Dispatch

\* A subagent sent to work works for a call whose start is in the log.
LEMMA AgentsStartedNext ==
    TypeInv /\ Journaled /\ [Next]_vars => AgentsStarted'
  <1> SUFFICES ASSUME TypeInv, Journaled, [Next]_vars,
                      NEW a \in Agents, agents'[a].at # "idle"
               PROVE  Logged(StartEvents, agents[a].call.id)'
    BY DEF AgentsStarted
  <1>0. agents \in [Agents -> AgentState]
    BY DEF TypeInv, Crews
  <1>m. \A T, id : Logged(T, id) => \E e \in log'.marks : e.type \in T /\ e.id = id
    BY LogGrows DEF Logged
  <1>s. /\ agents'[a].call = agents[a].call /\ agents[a].at # "idle"
           => Logged(StartEvents, agents[a].call.id)'
    BY <1>m DEF Logged, Journaled, AgentsStarted
  <1> USE <1>0 DEF AgentState, Resting
  <1>1. CASE agents' = agents
    BY <1>1, <1>s
  <1>2. CASE StartWave
    <2>1. agents'[a].call = cur \/ agents'[a] = agents[a]
      BY <1>2 DEF StartWave
    <2>2. Logged(StartEvents, cur.id)
      BY <1>2 DEF StartWave, at, Dispatching, Journaled
    <2> QED BY <2>1, <2>2, <1>m, <1>s DEF Logged
  <1>3. CASE WaveTimeout
    BY <1>3, <1>s DEF WaveTimeout
  <1>4. ASSUME NEW b \in Agents, AgentSave(b) PROVE Logged(StartEvents, agents[a].call.id)'
    <2>1. agents'[a].call = agents[a].call /\ agents[a].at # "idle"
      BY <1>4 DEF AgentSave
    <2> QED BY <2>1, <1>s
  <1>5. ASSUME NEW b \in Agents, AgentAppend(b) PROVE Logged(StartEvents, agents[a].call.id)'
    <2>1. agents'[a].call = agents[a].call /\ agents[a].at # "idle"
      BY <1>5 DEF AgentAppend, Writing
    <2> QED BY <2>1, <1>s
  <1>6. ASSUME NEW b \in Agents, AgentEnds(b) \/ AgentRaises(b)
        PROVE  Logged(StartEvents, agents[a].call.id)'
    <2>1. agents'[a].call = agents[a].call /\ agents[a].at # "idle"
      BY <1>6 DEF AgentEnds, AgentRaises
    <2> QED BY <2>1, <1>s
  <1>7. CASE Exit \/ Crash \/ Refuse
    BY <1>7 DEF Exit, Crash, Refuse, Forget
  <1> QED BY <1>1, <1>2, <1>3, <1>4, <1>5, <1>6, <1>7, AgentsStay

\* No step of prepare_tool_call, the approval or the execution of a call, and no
\* death or recovery, lets a start or an effect get ahead of its line.
LEMMA JournaledNext == TypeInv /\ Journaled /\ [Next]_vars => Journaled'
  <1> SUFFICES ASSUME TypeInv, Journaled, [Next]_vars PROVE Journaled'
    OBVIOUS
  <1>0. log \in Log /\ ev \in Event /\ ret \in Returns
    BY DEF TypeInv, TypeOK, Control
  <1>a. log' = log /\ ran' = ran => EffectIsJournaled'
    BY JournaledStays DEF Journaled
  <1> USE <1>a
  <1>b. AgentsStarted'
    BY AgentsStartedNext
  <1> USE <1>b
  <1> USE DEF Journaled, Logged, Dispatching, at, cur, StartEvents, AllowEvents,
               Goto, Emit, Finish, Forget, Up, Downs,
               durable, history, bounds
  <1>1. CASE EmitAppend
    <2>1. /\ pc = "append" /\ log' = AppendTo(log, ev) /\ ran' = ran
          /\ pc' = ret /\ ret' = "new" /\ queue' = queue
      BY <1>1 DEF EmitAppend
    <2> HIDE DEF Journaled, Logged, StartEvents, AllowEvents
    <2>2. /\ EffectIsJournaled'
          /\ \A T, id : Logged(T, id) => Logged(T, id)'
          /\ ev.type \in StartEvents \cup AllowEvents
                => \E e \in log'.marks : e.type = ev.type /\ e.id = ev.id
      BY <1>0, <2>1, MarksGrow
    <2>3. ret = "started" => Logged(StartEvents, cur.id)'
      BY <2>1, <2>2 DEF Journaled, Logged
    <2>4. ret = "approved" => Logged(AllowEvents, cur.id)'
      BY <2>1, <2>2 DEF Journaled, Logged
    <2>5. ret \in {"tool", "effect"} \cup Dispatching => Logged(StartEvents, cur.id)'
      BY <2>1, <2>2 DEF Journaled
    <2> QED BY <1>0, <2>1, <2>2, <2>3, <2>4, <2>5 DEF Journaled, Returns
  <1>2. CASE BeginEffect
    <2>1. /\ pc = "effect" /\ pc' = "in_effect" /\ log' = log
          /\ ran' = ran \cup {cur.id}
      BY <1>2 DEF BeginEffect
    <2>2. EffectIsJournaled'
      BY <2>1 DEF EffectIsJournaled
    <2> QED BY <2>1, <2>2
  <1>3. CASE Crash
    <2>1. pc' = "down" /\ ret' = "new" /\ ran' = ran
      BY <1>3 DEF Crash
    <2>2. CASE log' = log
      BY <2>1, <2>2
    <2>3. CASE pc = "append" /\ log' = AppendTo(log, ev)
      <3>1. EffectIsJournaled'
        BY <1>0, <2>1, <2>3, MarksGrow
      <3> QED BY <2>1, <3>1
    <2>4. ASSUME NEW a \in Agents, log' = AppendTo(log, AgentEvent(a))
          PROVE  Journaled'
      <3>1. log'.marks = log.marks
        BY <2>4, AgentEventTyped DEF TypeInv
      <3> QED BY <2>1, <3>1 DEF EffectIsJournaled
    <2> QED BY <1>3, <2>2, <2>3, <2>4 DEF Crash, InFlight
  <1>4. CASE EmitSave \/ Launch \/ Prepare \/ UserCancel \/ StopAtLoop \/
             OutOfSteps \/ RequestModel
    BY <1>4 DEF EmitSave, Launch, Prepare, UserCancel, StopAtLoop, OutOfSteps,
            RequestModel
  <1>5. CASE NoTurn \/ ModelFailed \/ ModelCalls \/ ModelAnswers \/
             NextCall \/ RejectCall \/ HookDenies
    BY <1>5 DEF NoTurn, ModelFailed, ModelCalls, ModelAnswers, NextCall,
            RejectCall, HookDenies
  <1>6. CASE ReuseGrant \/ RequestApproval \/
             (\E d \in Decisions : Decide(d)) \/ ApprovalCancelled \/
             Denied \/ DenySave \/ Approved
    BY <1>6 DEF ReuseGrant, RequestApproval, Decide, Decisions,
            ApprovalCancelled, Denied, DenySave, Approved
  <1>7. CASE MarkStarted \/ EnterTool \/ EndEffect \/ Observe \/ Verified \/ VerifyFailed
    BY <1>7 DEF MarkStarted, EnterTool, EndEffect, Observe,
            Verified, VerifyFailed
  <1>8. CASE FinalAnswer \/ EngineError \/ FinishRun \/ Exit \/ Claim \/
             Refuse \/ Resume
    BY <1>8 DEF FinalAnswer, EngineError, FinishRun, Exit, Claim, Refuse,
            Resume
  <1>9. CASE Continue \/ Reconcile
    BY <1>9 DEF Continue, Reconcile
  <1>10. CASE UNCHANGED vars
    BY <1>10 DEF vars, process, history, bounds, durable
  <1>11. CASE NextWave \/ StartWave \/ WaveTimeout \/ WaveDone
    BY <1>11 DEF NextWave, StartWave, WaveTimeout, WaveDone
  <1>12. ASSUME NEW a \in Agents,
                AgentSave(a) \/ AgentEnds(a) \/ AgentRaises(a)
         PROVE  Journaled'
    BY <1>12 DEF AgentSave, AgentEnds, AgentRaises
  <1>13. ASSUME NEW a \in Agents, AgentAppend(a) PROVE Journaled'
    <2>1. /\ log' = AppendTo(log, AgentEvent(a))
          /\ ran' \in {ran, ran \cup {agents[a].call.id}}
          /\ UNCHANGED <<pc, queue, ev, ret>>
          /\ agents[a].at # "idle"
      BY <1>13 DEF AgentAppend, Writing
    <2>2. log'.marks = log.marks
      BY <2>1, AgentEventTyped DEF TypeInv
    <2>3. EffectIsJournaled'
      BY <2>1, <2>2 DEF EffectIsJournaled, AgentsStarted
    <2> QED BY <2>1, <2>2, <2>3
  <1> QED BY <1>1, <1>2, <1>3, <1>4, <1>5, <1>6, <1>7, <1>8, <1>9, <1>10,
         <1>11, <1>12, <1>13 DEF Next, Dispatch

\* No side effect begins before its started event is in the log, and none is
\* started there without the approval that allowed it.
THEOREM EffectsJournaled == Spec => []EffectIsJournaled
  <1>1. TypeInv /\ Journaled /\ [Next]_vars => Journaled'
    BY JournaledNext
  <1>2. Journaled => EffectIsJournaled
    BY DEF Journaled
  <1> QED BY <1>1, <1>2, JournaledInit, TypeInvariant, PTL DEF Spec
=============================================================================
