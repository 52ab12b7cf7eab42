------------------------ MODULE SessionHistory_proofs ------------------------
(***************************************************************************)
(* Proofs about what a session's manifest and conversation say, for every  *)
(* bound and every set of tools: the lifecycle fields stay loadable, and   *)
(* the observations are true, single and there in time.                    *)
(***************************************************************************)
EXTENDS SessionJournal_proofs

-----------------------------------------------------------------------------
(* The lifecycle fields of the manifest *)

\* A terminal manifest is on disk only from finish() on, and one that waits for
\* an approval only where the approver is asked or was when the run ended.
Lifecycle ==
    /\ ManifestLoadable
    /\ manifest.terminal => at \in {"exit", "down", "validating"}
    /\ manifest.phase = "waiting_approval" =>
          at \in {"waiting", "finish", "reconcile", "down", "validating"}

\* SessionManifest.new is loadable.
LEMMA LifecycleInit == Init => Lifecycle
  <1> SUFFICES ASSUME Init PROVE Lifecycle
    OBVIOUS
  <1>1. manifest.phase = "created" /\ manifest.terminal = FALSE
    BY DEF Init
  <1>2. manifest.phase \notin Terminal
    BY <1>1 DEF Terminal
  <1> DEFINE ended == manifest.phase \in Terminal
  <1>3. ended = FALSE
    BY <1>2
  <1> HIDE DEF ended
  <1>4. manifest.terminal = ended
    BY <1>1, <1>3
  <1> QED BY <1>1, <1>4 DEF Lifecycle, ManifestLoadable, ended

\* No update of the manifest makes one load() would refuse, whichever of the
\* two fields it leaves alone.
LEMMA LifecycleNext == TypeInv /\ Lifecycle /\ [Next]_vars => Lifecycle'
  <1> SUFFICES ASSUME TypeInv, Lifecycle, [Next]_vars PROVE Lifecycle'
    OBVIOUS
  <1>0. /\ manifest \in Manifest /\ ret \in Returns /\ outcome \in Terminal
        /\ at \in CallPCs => cur # NoCall
    BY CurTyped DEF TypeInv, TypeOK, Control, NoCall
  <1> USE <1>0
  <1> USE DEF Lifecycle, ManifestLoadable, Manifest, Terminal, at, CallPCs,
              Returns, Goto, Emit, Finish, Forget, Checkpoint, Up, Downs,
              durable, history, bounds
  <1>1. CASE EmitSave \/ EmitAppend \/ Launch \/ Prepare \/ UserCancel \/
             StopAtLoop \/ OutOfSteps
    BY <1>1 DEF EmitSave, EmitAppend, Launch, Prepare, UserCancel, StopAtLoop,
            OutOfSteps
  <1>2. CASE RequestModel \/ NoTurn \/ ModelFailed \/ ModelCalls \/
             ModelAnswers \/ NextCall \/ RejectCall
    BY <1>2 DEF RequestModel, NoTurn, ModelFailed, ModelCalls, ModelAnswers,
            NextCall, RejectCall
  <1>3. CASE HookDenies \/ ApprovalCancelled \/ Denied \/ DenySave
    BY <1>3 DEF HookDenies, ApprovalCancelled, Denied, DenySave
  <1>13. CASE RequestApproval
    <2>1. /\ pc = "ask" /\ pc' = "emit" /\ ret' = "waiting"
          /\ manifest'.phase = "waiting_approval" /\ manifest'.pending = cur
          /\ manifest'.terminal = manifest.terminal
      BY <1>13 DEF RequestApproval
    <2> QED BY <2>1
  <1>12. CASE ReuseGrant
    <2>1. /\ pc = "ask" /\ pc' = "emit"
          /\ manifest'.phase = "running" /\ manifest'.terminal = manifest.terminal
      BY <1>12 DEF ReuseGrant
    <2> QED BY <2>1
  <1>11. ASSUME NEW d \in Decisions, Decide(d) PROVE Lifecycle'
    <2>1. /\ pc = "waiting" /\ pc' = "emit"
          /\ manifest'.phase = "running" /\ manifest'.terminal = manifest.terminal
      BY <1>11 DEF Decide, Decisions
    <2> QED BY <2>1
  <1>4. CASE Approved \/ MarkStarted \/ EnterTool \/ BeginEffect \/
             EndEffect \/ Observe
    BY <1>4 DEF Approved, MarkStarted, EnterTool, BeginEffect, EndEffect,
            Observe
  <1>5. CASE Verified \/ VerifyFailed \/ FinalAnswer \/ EngineError \/ Exit
    BY <1>5 DEF Verified, VerifyFailed, FinalAnswer, EngineError, Exit
  <1>6. CASE FinishRun
    <2>1. PICK status \in Terminal :
             manifest' = [manifest EXCEPT !.phase = status, !.messages = msgs,
                                          !.terminal = status \in Terminal]
      BY <1>6 DEF FinishRun
    <2>2. manifest'.phase \in Terminal /\ manifest'.terminal = TRUE
      BY <2>1
    <2> QED BY <1>6, <2>2 DEF FinishRun
  <1>7. CASE Crash
    BY <1>7 DEF Crash
  <1>8. CASE Claim \/ Refuse \/ Resume \/ Continue
    BY <1>8 DEF Claim, Refuse, Resume, Continue
  <1>9. CASE Reconcile
    <2>1. CASE manifest.pending = NoCall
      BY <1>9, <2>1 DEF Reconcile
    <2>2. CASE manifest.pending # NoCall
      <3>1. /\ pc = "reconcile" /\ pc' = "emit"
            /\ manifest'.phase = "running" /\ manifest'.terminal = manifest.terminal
        BY <1>9, <2>2 DEF Reconcile
      <3> QED BY <3>1
    <2> QED BY <2>1, <2>2
  <1>10. CASE UNCHANGED vars
    BY <1>10 DEF vars, process, history, bounds, durable
  <1>14. CASE Dispatch
    <2>1. /\ manifest'.terminal = manifest.terminal
          /\ manifest'.phase = manifest.phase
          /\ manifest'.pending = manifest.pending
          /\ at' = at \/ (at \in {"dispatch", "wave", "gather"} /\
                         at' \in {"dispatch", "wave", "gather", "observe", "finish"})
      BY <1>14 DEF Dispatch, NextWave, StartWave, WaveTimeout, WaveDone,
         AgentSave, AgentAppend, AgentEnds, AgentRaises, Gathered
    <2> QED BY <2>1
  <1> QED BY <1>1, <1>2, <1>3, <1>4, <1>5, <1>6, <1>7, <1>8, <1>9, <1>10,
         <1>11, <1>12, <1>13, <1>14 DEF Next

\* The lifecycle fields keep company throughout.
THEOREM LifecycleInvariant == Spec => []Lifecycle
  BY LifecycleInit, LifecycleNext, TypeInvariant, PTL DEF Spec

\* Whatever the order of the updates and the deaths between them, the manifest on
\* disk is one that validate_lifecycle accepts.
THEOREM Loadable == Spec => []ManifestLoadable
  <1>1. Lifecycle => ManifestLoadable
    BY DEF Lifecycle
  <1> QED BY <1>1, LifecycleInvariant, PTL

\* A finished session becomes active again only through a new user turn: no
\* checkpoint of the loop, and no resume, takes the terminal mark away.
THEOREM FinishedStays == Spec => TerminalNeedsContinuation
  <1>1. TypeInv /\ Lifecycle /\ [Next]_vars
           => [manifest.terminal /\ ~manifest'.terminal => turns' = turns + 1]_vars
    <2> SUFFICES ASSUME TypeInv, Lifecycle, Next, manifest.terminal,
                        ~manifest'.terminal
                 PROVE  turns' = turns + 1
      OBVIOUS
    <2>1. manifest \in Manifest /\ at \in {"exit", "down", "validating"}
      BY DEF TypeInv, TypeOK, Lifecycle
    <2>2. pc # "finish" /\ pc # "prepare" /\ pc # "deny_save" /\ pc # "observe"
          /\ pc # "verify_failed"
      BY <2>1 DEF at
    <2>3. ~Prepare /\ ~DenySave /\ ~Observe /\ ~VerifyFailed /\ ~FinishRun
      BY <2>2 DEF Prepare, DenySave, Observe, VerifyFailed, FinishRun
    <2>4. manifest'.terminal = manifest.terminal \/ Continue
      <3> USE <2>1 DEF Manifest
      <3>1. CASE EmitSave \/ ReuseGrant \/ RequestApproval \/ MarkStarted \/ Claim
        BY <3>1 DEF EmitSave, ReuseGrant, RequestApproval, MarkStarted, Claim
      <3>2. ASSUME NEW d \in Decisions, Decide(d)
            PROVE  manifest'.terminal = manifest.terminal
        BY <3>2 DEF Decide
      <3>3. CASE Reconcile
        BY <3>3 DEF Reconcile
      <3>4. \/ manifest' = manifest \/ Continue
            \/ EmitSave \/ ReuseGrant \/ RequestApproval \/ MarkStarted \/ Claim
            \/ (\E d \in Decisions : Decide(d)) \/ Reconcile
            \/ (\E a \in Agents : AgentSave(a))
        BY <2>3 DEF Next, EmitAppend, Launch, durable, UserCancel, StopAtLoop,
           OutOfSteps, RequestModel, NoTurn, ModelFailed, ModelCalls,
           ModelAnswers, NextCall, RejectCall, HookDenies, ApprovalCancelled,
           Denied, Approved, EnterTool, BeginEffect, EndEffect,
           Dispatch, NextWave, StartWave, WaveTimeout, WaveDone, AgentAppend,
           AgentEnds, AgentRaises, Verified, FinalAnswer, EngineError, Exit, Crash, Refuse, Resume
      <3>5. ASSUME NEW a \in Agents, AgentSave(a)
            PROVE  manifest'.terminal = manifest.terminal
        BY <3>5 DEF AgentSave
      <3> QED BY <3>1, <3>2, <3>3, <3>4, <3>5
    <2> QED BY <2>4 DEF Continue
  <1> QED BY <1>1, TypeInvariant, LifecycleInvariant, PTL
       DEF Spec, TerminalNeedsContinuation

-----------------------------------------------------------------------------
(* What one more item makes of a conversation *)

\* The calls a conversation says were not performed.
Refused(m) ==
    {m[i].id : i \in {j \in DOMAIN m : m[j].k = "obs" /\ m[j].says \in Unperformed}}

\* Nothing is answered twice in it.
Once(m) ==
    \A i, j \in DOMAIN m :
        m[i].k = "obs" /\ m[j].k = "obs" /\ m[i].id = m[j].id => i = j

\* The two invariants over conversations, in these terms.
LEMMA InTheseTerms ==
    /\ UnperformedNeverRan <=> \A m \in Histories : Refused(m) \cap ran = {}
    /\ AnsweredOnce <=> \A m \in Histories : Once(m)
  <1>1. \A m : (\A i \in DOMAIN m :
              m[i].k = "obs" /\ m[i].says \in Unperformed => m[i].id \notin ran)
            <=> Refused(m) \cap ran = {}
    BY DEF Refused
  <1> QED BY <1>1 DEF UnperformedNeverRan, AnsweredOnce, Once

\* Nothing is said in an empty conversation.
LEMMA SaysNothing ==
    Answered(<<>>) = {} /\ Refused(<<>>) = {} /\ Issued(<<>>) = {} /\ Once(<<>>)
  BY DEF Answered, Refused, Issued, Once

\* Appending an item.
LEMMA Appending ==
    ASSUME NEW m \in Seq(Item), NEW x \in Item
    PROVE  LET n == Append(m, x)
           IN  /\ Issued(n) = Issued(m) \cup IF x.k = "call" THEN {x.id} ELSE {}
               /\ Answered(n) = Answered(m) \cup IF x.k = "obs" THEN {x.id} ELSE {}
               /\ Refused(n) = Refused(m) \cup
                     IF x.k = "obs" /\ x.says \in Unperformed THEN {x.id} ELSE {}
               /\ Once(m) /\ (x.k = "obs" => x.id \notin Answered(m)) => Once(n)
  <1> DEFINE n == Append(m, x)
             last == Len(m) + 1
  <1>1. /\ n \in Seq(Item) /\ Len(n) = last /\ last \in Nat
        /\ DOMAIN n = DOMAIN m \cup {last} /\ DOMAIN m = 1..Len(m)
        /\ n[last] = x /\ \A i \in DOMAIN m : n[i] = m[i] /\ i # last
    OBVIOUS
  <1> HIDE DEF n, last
  <1>2. Issued(n) = Issued(m) \cup IF x.k = "call" THEN {x.id} ELSE {}
    BY <1>1 DEF Issued
  <1>3. Answered(n) = Answered(m) \cup IF x.k = "obs" THEN {x.id} ELSE {}
    BY <1>1 DEF Answered
  <1>4. Refused(n) = Refused(m) \cup
           IF x.k = "obs" /\ x.says \in Unperformed THEN {x.id} ELSE {}
    BY <1>1 DEF Refused
  <1>5. ASSUME Once(m), x.k = "obs" => x.id \notin Answered(m) PROVE Once(n)
    <2>1. \A i \in DOMAIN m : m[i].k = "obs" => m[i].id \in Answered(m)
      BY DEF Answered
    <2> QED BY <1>1, <1>5, <2>1 DEF Once
  <1> QED BY <1>2, <1>3, <1>4, <1>5 DEF n

\* The calls of a model turn answer nothing.
LEMMA CallsAppended ==
    ASSUME NEW m \in Seq(Item), NEW s \in Seq(Item),
           \A i \in DOMAIN s : s[i].k = "call"
    PROVE  LET n == m \o s
           IN  /\ Issued(n) = Issued(m) \cup {s[i].id : i \in DOMAIN s}
               /\ Answered(n) = Answered(m) /\ Refused(n) = Refused(m)
               /\ Once(m) => Once(n)
  <1> DEFINE n == m \o s
  <1>1. /\ n \in Seq(Item) /\ Len(n) = Len(m) + Len(s)
        /\ DOMAIN n = 1..Len(n) /\ DOMAIN m = 1..Len(m) /\ DOMAIN s = 1..Len(s)
        /\ Len(m) \in Nat /\ Len(s) \in Nat
        /\ \A i \in DOMAIN m : i \in DOMAIN n /\ n[i] = m[i]
        /\ \A i \in DOMAIN s : i + Len(m) \in DOMAIN n /\ n[i + Len(m)] = s[i]
    OBVIOUS
  <1>2. ASSUME NEW i \in DOMAIN n, i \notin DOMAIN m
        PROVE  i - Len(m) \in DOMAIN s /\ n[i] = s[i - Len(m)]
    BY <1>1, <1>2
  <1> HIDE DEF n
  <1>3. \A i \in DOMAIN n : n[i].k = "obs" => i \in DOMAIN m
    BY <1>2
  <1>4. Answered(n) = Answered(m) /\ Refused(n) = Refused(m)
    BY <1>1, <1>3 DEF Answered, Refused
  <1>5. Issued(n) = Issued(m) \cup {s[i].id : i \in DOMAIN s}
    <2>1. ASSUME NEW id \in Issued(n) PROVE id \in Issued(m) \cup {s[i].id : i \in DOMAIN s}
      BY <1>1, <1>2 DEF Issued
    <2>2. Issued(m) \subseteq Issued(n)
      BY <1>1 DEF Issued
    <2>3. ASSUME NEW i \in DOMAIN s PROVE s[i].id \in Issued(n)
      BY <1>1 DEF Issued
    <2> QED BY <2>1, <2>2, <2>3
  <1>6. Once(m) => Once(n)
    BY <1>1, <1>3 DEF Once
  <1> QED BY <1>4, <1>5, <1>6 DEF n

\* What is left of a turn's calls when the first is done.
LEMMA TailCalls ==
    ASSUME queue \in Seq(Call), queue # <<>>
    PROVE  /\ cur = queue[1] /\ 1 \in DOMAIN queue
           /\ \A i \in DOMAIN queue : i > 1 <=> i # 1
           /\ \A i \in DOMAIN Tail(queue) :
                 i + 1 \in DOMAIN queue /\ Tail(queue)[i] = queue[i + 1] /\ i + 1 > 1
           /\ \A i \in DOMAIN queue :
                 i = 1 \/ \E k \in DOMAIN Tail(queue) : Tail(queue)[k] = queue[i]
  <1>1. /\ Len(queue) \in Nat \ {0} /\ cur = queue[1]
        /\ DOMAIN queue = 1..Len(queue)
        /\ DOMAIN Tail(queue) = 1..(Len(queue) - 1)
        /\ \A i \in 1..(Len(queue) - 1) : Tail(queue)[i] = queue[i + 1]
    BY DEF cur
  <1>2. ASSUME NEW i \in 1..Len(queue), i # 1
        PROVE  i - 1 \in 1..(Len(queue) - 1) /\ Tail(queue)[i - 1] = queue[i]
    BY <1>1, <1>2
  <1>3. ASSUME NEW i \in DOMAIN Tail(queue)
        PROVE  i + 1 \in DOMAIN queue /\ Tail(queue)[i] = queue[i + 1] /\ i + 1 > 1
    BY <1>1
  <1>4. ASSUME NEW i \in DOMAIN queue
        PROVE  i = 1 \/ \E k \in DOMAIN Tail(queue) : Tail(queue)[k] = queue[i]
    BY <1>1, <1>2
  <1>5. 1 \in DOMAIN queue /\ \A i \in DOMAIN queue : i > 1 <=> i # 1
    BY <1>1
  <1> QED BY <1>1, <1>3, <1>4, <1>5

-----------------------------------------------------------------------------
(* The conversation and the calls *)

(***************************************************************************)
(* A call is answered once and truly because it is untouched until control *)
(* comes to it: until its side effect begins it has not run, until its     *)
(* observation is appended no conversation, in memory or on disk, answers  *)
(* it; and an action found pending by a later process is such a call.      *)
(***************************************************************************)
Early == {"next", "ask", "waiting", "approved", "denied", "cancelled",
          "started", "tool", "effect"}
Unanswered == Early \cup Dispatching \cup {"in_effect", "observe"}
Idle == {"prepare", "loop", "model", "final", "reconcile"} \cup Downs
Held == {"waiting", "approved", "started"}
Left == {"finish", "exit", "reconcile", "down", "validating"}

Told == Answered(msgs) \cup Answered(manifest.messages)

\* Every call met has a number that was given out.
Numbered ==
    /\ ran \subseteq 1..issued /\ live \subseteq 1..issued
    /\ Told \subseteq 1..issued
    /\ \A i \in DOMAIN queue : queue[i].id <= issued

\* The calls of a turn are apart from each other and from verification.
Lined ==
    /\ \A i, j \in DOMAIN queue : queue[i].id = queue[j].id => i = j
    /\ \A i, j \in DOMAIN queue :
          queue[i].what = "VERIFY" => queue[j].what = "VERIFY"
    /\ at \in Idle => queue = <<>>

Untouched ==
    \A i \in DOMAIN queue :
       /\ i > 1 \/ at \in Early => queue[i].id \notin ran
       /\ i > 1 \/ at \in Unanswered => queue[i].id \notin Told

\* The pending action is the current call, or what an ended run left behind.
Kept ==
    manifest.pending # NoCall =>
       /\ manifest.pending.id \in 1..issued
       /\ manifest.pending.id \notin ran \cup Told
       /\ at \in Left \/ (at \in Held /\ queue # <<>> /\ manifest.pending = cur)

Telling == \A m \in Histories : Refused(m) \cap ran = {} /\ Once(m)

Truth == Numbered /\ Lined /\ Untouched /\ Kept /\ Telling

\* A subagent works for a call of which no conversation says that it was not
\* performed, and which nobody is still to decide about.
Clear(id) ==
    /\ id \in 1..issued
    /\ manifest.pending # NoCall => manifest.pending.id # id
    /\ \A m \in Histories : id \notin Refused(m)
    /\ \A i \in DOMAIN queue : queue[i].id = id => i = 1 /\ at \notin Early
Crewed == \A a \in Agents : agents[a].at # "idle" => Clear(agents[a].call.id)

\* A call this process issued is answered or still to do.
Owed ==
    /\ at \in Downs => live = {}
    /\ at = "verify_failed" => queue # <<>> /\ cur.what = "VERIFY"
    /\ at = "deny_save" => cur.id \in Answered(msgs)
    /\ \A id \in Issued(msgs) \cap live : id \in Answered(msgs) \/
          \E i \in DOMAIN queue : queue[i].id = id /\ queue[i].what # "VERIFY"

\* Nothing has been said in a new session.
LEMMA TruthInit == Init => Truth /\ Owed /\ Crewed
  <1> SUFFICES ASSUME Init PROVE Truth /\ Owed /\ Crewed
    OBVIOUS
  <1>1. /\ msgs = <<>> /\ manifest.messages = <<>> /\ queue = <<>> /\ ran = {}
        /\ live = {} /\ issued = 0 /\ manifest.pending = NoCall /\ at = "new"
    BY DEF Init, at
  <1>2. Told = {} /\ Histories = {<<>>}
    BY <1>1, SaysNothing DEF Told, Histories
  <1>3. Crewed
    BY DEF Crewed, Init, Resting
  <1> QED BY <1>1, <1>2, <1>3, SaysNothing DEF Truth, Numbered, Lined,
         Untouched, Kept, Telling, Owed

\* What a conversation says is said in one of those there were.
Echoes(m) ==
    \E h \in Histories : Answered(m) \subseteq Answered(h)
                         /\ Refused(m) \subseteq Refused(h) /\ (Once(h) => Once(m))

\* Steps that say nothing new: they may drop the turn's calls and this
\* process's memory, and hold the current call before its effect as pending.
LEMMA SayingNothing ==
    ASSUME TypeOK, Truth,
           queue' \in {queue, <<>>}, UNCHANGED <<ran, issued>>, live' \in {live, {}},
           Echoes(msgs'), Echoes(manifest'.messages),
           queue' # <<>> => /\ at' \in Early => at \in Early
                            /\ at' \in Unanswered => at \in Unanswered
                            /\ at' \notin Idle,
           manifest'.pending # NoCall =>
              \/ /\ manifest'.pending = manifest.pending
                 /\ at' \in Left \/ (at' \in Held /\ at \in Held /\ queue' = queue)
              \/ /\ manifest'.pending = cur /\ at \in Early /\ at' \in Held
                 /\ queue # <<>> /\ queue' = queue
    PROVE  Truth'
  <1>1. Told' \subseteq Told
    BY DEF Told, Echoes, Histories
  <1>2. Telling'
    BY DEF Truth, Telling, Echoes, Histories
  <1>3. Numbered' /\ Lined'
    BY <1>1 DEF Truth, Numbered, Lined
  <1>4. Untouched'
    BY <1>1 DEF Truth, Untouched
  <1>5. Kept'
    <2> SUFFICES ASSUME manifest'.pending # NoCall
                 PROVE  /\ manifest'.pending.id \in 1..issued
                        /\ manifest'.pending.id \notin ran \cup Told
                        /\ at' \in Left \/ (at' \in Held /\ queue' # <<>>
                                             /\ manifest'.pending = cur')
      BY <1>1 DEF Kept
    <2>1. CASE manifest'.pending = manifest.pending
      BY <2>1 DEF Truth, Kept, Left, Held, cur, Early
    <2>2. CASE /\ manifest'.pending = cur /\ at \in Early /\ at' \in Held
               /\ queue # <<>> /\ queue' = queue
      <3>1. cur = queue[1] /\ 1 \in DOMAIN queue /\ cur.id \in 1..MaxCalls
        BY <2>2, TailCalls, CurTyped DEF TypeOK
      <3>2. cur.id \notin ran \cup Told /\ cur.id <= issued
        BY <2>2, <3>1 DEF Truth, Untouched, Numbered, Early, Unanswered
      <3> QED BY <2>2, <3>1, <3>2 DEF TypeOK, cur
    <2> QED BY <2>1, <2>2
  <1> QED BY <1>2, <1>3, <1>4, <1>5 DEF Truth

\* The calls that are left are lined up as they were.
LEMMA StaysLined ==
    ASSUME TypeOK, Lined, queue # <<>>, queue' \in {queue, Tail(queue)}, at' \notin Idle
    PROVE  Lined'
  <1>1. /\ \A i, j \in DOMAIN queue' : queue'[i].id = queue'[j].id => i = j
        /\ \A i, j \in DOMAIN queue' :
              queue'[i].what = "VERIFY" => queue'[j].what = "VERIFY"
    <2>1. CASE queue' = queue
      BY <2>1 DEF Lined
    <2>2. CASE queue' = Tail(queue)
      <3>1. \A i \in DOMAIN Tail(queue) :
               i + 1 \in DOMAIN queue /\ Tail(queue)[i] = queue[i + 1]
        BY TailCalls DEF TypeOK
      <3>2. \A i, j \in DOMAIN Tail(queue) : i + 1 = j + 1 => i = j
        BY DEF TypeOK
      <3> QED BY <2>2, <3>1, <3>2 DEF Lined
    <2> QED BY <2>1, <2>2
  <1> QED BY <1>1 DEF Lined

\* Every refusal is an answer.
LEMMA RefusedIsAnswered == \A m : Refused(m) \subseteq Answered(m)
  BY DEF Refused, Answered

\* A new observation of the current call, which goes or waits to be saved.
LEMMA Answering ==
    ASSUME TypeOK, Truth, queue # <<>>, at \in Unanswered \ Held,
           NEW s \in {"ran"} \cup Unperformed,
           s \in Unperformed => cur.id \notin ran,
           msgs' = Append(msgs, Obs(cur, s)),
           manifest'.messages \in {manifest.messages, msgs'},
           manifest'.pending = manifest.pending, UNCHANGED <<ran, issued, live>>,
           \/ queue' = Tail(queue) /\ at' \notin Idle
           \/ queue' = queue /\ at' = "deny_save"
    PROVE  Truth'
  <1>0. \A i \in DOMAIN Tail(queue) :
           i + 1 \in DOMAIN queue /\ Tail(queue)[i] = queue[i + 1] /\ i + 1 > 1
    BY TailCalls DEF TypeOK
  <1>1. /\ Obs(cur, s) \in Item /\ Obs(cur, s).k = "obs"
        /\ Obs(cur, s).id = cur.id /\ Obs(cur, s).says = s
        /\ cur.id \in 1..MaxCalls /\ cur = queue[1] /\ 1 \in DOMAIN queue
    BY CurTyped, ItemsTyped, TailCalls DEF Obs, TypeOK
  <1>2. /\ manifest.pending = NoCall /\ cur.id \notin Told /\ cur.id <= issued
    BY <1>1 DEF Truth, Kept, Untouched, Numbered, Unanswered, Dispatching, Early, Left, Held
  <1>3. /\ Answered(msgs') = Answered(msgs) \cup {cur.id}
        /\ Refused(msgs') = Refused(msgs) \cup IF s \in Unperformed THEN {cur.id} ELSE {}
        /\ Once(msgs) => Once(msgs')
    BY <1>1, <1>2, Appending DEF TypeOK, Told
  <1>4. Told' \subseteq Told \cup {cur.id}
    BY <1>3 DEF Told
  <1>5. Numbered'
    <2>1. queue' = Tail(queue) \/ queue' = queue
      OBVIOUS
    <2>2. \A i \in DOMAIN queue' : queue'[i].id <= issued
      BY <1>0, <2>1 DEF Truth, Numbered
    <2> QED BY <1>1, <1>2, <1>4, <2>2 DEF Truth, Numbered, TypeOK
  <1>6. Lined'
    BY StaysLined DEF Truth, Idle, Downs
  <1>7. Untouched'
    <2>0. \A i \in DOMAIN queue : i > 1 => queue[i].id # cur.id
      BY <1>1 DEF Truth, Lined
    <2>1. CASE queue' = Tail(queue)
      <3>1. ASSUME NEW i \in DOMAIN Tail(queue)
            PROVE  Tail(queue)[i].id \notin ran \cup Told \cup {cur.id}
        BY <1>0, <2>0 DEF Truth, Untouched
      <3> QED BY <2>1, <3>1, <1>4 DEF Untouched
    <2>2. CASE queue' = queue /\ at' = "deny_save"
      BY <2>0, <2>2, <1>4 DEF Truth, Untouched, Early, Dispatching, Unanswered
    <2> QED BY <2>1, <2>2
  <1>8. Kept'
    BY <1>2 DEF Kept
  <1>9. Telling'
    <2>1. Refused(msgs') \cap ran' = {} /\ Once(msgs')
      BY <1>3 DEF Truth, Telling, Histories
    <2> QED BY <2>1 DEF Truth, Telling, Histories
  <1> QED BY <1>5, <1>6, <1>7, <1>8, <1>9 DEF Truth

\* The denied call goes once its observation is saved.
LEMMA DenialSaved == TypeOK /\ Control /\ Truth /\ DenySave => Truth'
  <1> SUFFICES ASSUME TypeOK, Control, Truth, DenySave PROVE Truth'
    OBVIOUS
  <1>1. /\ pc = "deny_save" /\ pc' = "next" /\ queue' = Tail(queue)
        /\ msgs' = msgs /\ manifest'.messages = msgs
        /\ manifest'.pending = manifest.pending /\ UNCHANGED <<ran, issued, live>>
    BY DEF DenySave, Checkpoint, Goto, history, bounds, TypeOK, Manifest
  <1>2. queue # <<>> /\ at = "deny_save" /\ at' = "next"
    BY <1>1 DEF Control, at, CallPCs
  <1>3. Told' \subseteq Told
    BY <1>1 DEF Told
  <1>4. \A i \in DOMAIN Tail(queue) :
           i + 1 \in DOMAIN queue /\ Tail(queue)[i] = queue[i + 1] /\ i + 1 > 1
    BY <1>2, TailCalls DEF TypeOK
  <1>7. Numbered'
    BY <1>1, <1>3, <1>4 DEF Truth, Numbered
  <1>8. Lined'
    BY <1>1, <1>2, StaysLined DEF Truth, Idle, Downs
  <1>5. Untouched'
    BY <1>1, <1>3, <1>4 DEF Truth, Untouched
  <1>6. Kept' /\ Telling'
    BY <1>1, <1>2 DEF Truth, Kept, Telling, Histories, Left, Held
  <1> QED BY <1>5, <1>6, <1>7, <1>8 DEF Truth

\* A side effect begins for a call that no conversation has answered.
LEMMA EffectBegins == TypeOK /\ Control /\ Truth /\ BeginEffect => Truth'
  <1> SUFFICES ASSUME TypeOK, Control, Truth, BeginEffect PROVE Truth'
    OBVIOUS
  <1>1. /\ pc = "effect" /\ pc' = "in_effect" /\ ran' = ran \cup {cur.id}
        /\ UNCHANGED <<manifest, queue, msgs, issued, live>>
    BY DEF BeginEffect, Goto, durable, bounds
  <1>2. /\ queue # <<>> /\ at = "effect" /\ at' = "in_effect"
        /\ cur = queue[1] /\ 1 \in DOMAIN queue /\ cur.id \in 1..MaxCalls
    BY <1>1, TailCalls, CurTyped DEF Control, at, CallPCs, TypeOK
  <1>3. manifest.pending = NoCall /\ cur.id \notin Told /\ cur.id <= issued
    BY <1>2 DEF Truth, Kept, Untouched, Numbered, Unanswered, Early, Left, Held
  <1>4. Told' = Told
    BY <1>1 DEF Told
  <1>5. Numbered'
    <2>0. ran \subseteq 1..issued
      BY DEF Truth, Numbered
    <2>2. cur.id \in 1..issued
      BY <1>2, <1>3 DEF TypeOK
    <2>1. ran' \subseteq 1..issued'
      BY <1>1, <2>0, <2>2
    <2> QED BY <1>1, <1>4, <2>1 DEF Truth, Numbered
  <1>9. Lined'
    BY <1>1, <1>2, StaysLined DEF Truth, Idle, Downs
  <1>6. Untouched'
    <2>1. \A i \in DOMAIN queue : i > 1 => queue[i].id # cur.id
      BY <1>2, TailCalls DEF Truth, Lined, TypeOK
    <2> QED BY <1>1, <1>2, <1>4, <2>1 DEF Truth, Untouched, Early, Unanswered
  <1>7. Kept'
    BY <1>1, <1>3 DEF Kept
  <1>8. Telling'
    BY <1>1, <1>3, RefusedIsAnswered DEF Truth, Telling, Histories, Told
  <1> QED BY <1>5, <1>6, <1>7, <1>8, <1>9 DEF Truth

\* The action found pending is answered as one that was not performed.
LEMMA Reconciling == TypeOK /\ Truth /\ Reconcile => Truth'
  <1> SUFFICES ASSUME TypeOK, Truth, Reconcile PROVE Truth'
    OBVIOUS
  <1> DEFINE p == manifest.pending
             x == IF p.what = "VERIFY" THEN User ELSE Obs(p, "abandoned")
  <1>1. at = "reconcile" /\ at' = "loop" /\ queue = <<>> /\ queue' = <<>>
        /\ UNCHANGED <<ran, issued, live>>
    BY DEF Reconcile, Goto, Emit, at, history, bounds, Truth, Lined, Idle
  <1>2. CASE p = NoCall
    <2>1. UNCHANGED <<manifest, msgs>>
      BY <1>2 DEF Reconcile
    <2>2. Echoes(msgs') /\ Echoes(manifest'.messages)
      BY <2>1 DEF Echoes, Histories
    <2> QED BY <1>1, <1>2, <2>1, <2>2, SayingNothing
  <1>3. CASE p # NoCall
    <2>1. /\ msgs' = Append(msgs, x) /\ manifest'.messages = msgs'
          /\ manifest'.pending = NoCall
      BY <1>3 DEF Reconcile, TypeOK, Manifest
    <2>2. p \in Call /\ p.id \in 1..issued /\ p.id \notin ran \cup Told
      BY <1>3 DEF Truth, Kept, TypeOK, Manifest
    <2>3. x \in Item /\ (x.k = "obs" => x.id = p.id)
      BY <2>2, ItemsTyped DEF User, Obs, Unperformed
    <2>9. msgs \in Seq(Item) /\ (x.k = "obs" => x.id \notin Answered(msgs))
      BY <2>2, <2>3 DEF TypeOK, Told
    <2>4. /\ Answered(msgs') \subseteq Answered(msgs) \cup {p.id}
          /\ Refused(msgs') \subseteq Refused(msgs) \cup {p.id}
          /\ Once(msgs) => Once(msgs')
      <3> HIDE DEF x
      <3> QED BY <2>1, <2>3, <2>9, Appending
    <2>5. Told' \subseteq Told \cup {p.id}
      BY <2>1, <2>4 DEF Told
    <2>6. Telling'
      BY <1>1, <2>1, <2>2, <2>4 DEF Truth, Telling, Histories
    <2>7. Numbered' /\ Lined'
      BY <1>1, <2>2, <2>5 DEF Truth, Numbered, Lined
    <2>8. Untouched' /\ Kept'
      BY <1>1, <2>1 DEF Untouched, Kept
    <2> QED BY <2>6, <2>7, <2>8 DEF Truth
  <1> QED BY <1>2, <1>3

\* The calls of a new turn have new numbers.
LEMMA TurnCalls == TypeOK /\ Truth /\ ModelCalls => Truth'
  <1> SUFFICES ASSUME TypeOK, Truth, ModelCalls PROVE Truth'
    OBVIOUS
  <1>0. PICK n \in 1..MaxBatch : \E w \in [1..n -> Tools] :
          LET calls == [i \in 1..n |-> [id |-> issued + i, what |-> w[i]]]
          IN  /\ issued + n <= MaxCalls
              /\ issued' = issued + n
              /\ queue' = calls
              /\ msgs' = msgs \o [i \in 1..n |-> Calling(calls[i])]
              /\ live' = live \cup (issued + 1)..(issued + n)
    BY DEF ModelCalls
  <1>00. PICK w \in [1..n -> Tools] :
          LET calls == [i \in 1..n |-> [id |-> issued + i, what |-> w[i]]]
          IN  /\ issued + n <= MaxCalls
              /\ issued' = issued + n
              /\ queue' = calls
              /\ msgs' = msgs \o [i \in 1..n |-> Calling(calls[i])]
              /\ live' = live \cup (issued + 1)..(issued + n)
    BY <1>0
  <1> DEFINE calls == [i \in 1..n |-> [id |-> issued + i, what |-> w[i]]]
             items == [i \in 1..n |-> Calling(calls[i])]
  <1>1. /\ issued + n <= MaxCalls /\ issued' = issued + n
        /\ queue' = calls /\ msgs' = msgs \o items
        /\ live' = live \cup (issued + 1)..(issued + n)
    BY <1>00
  <1>2. /\ pc = "model" /\ at' = "next" /\ UNCHANGED <<manifest, ran>>
    BY DEF ModelCalls, Emit, at, durable
  <1>3. issued \in Nat /\ n \in Nat /\ n > 0 /\ msgs \in Seq(Item)
    BY DEF TypeOK, SessionAssumption
  <1>4. items \in Seq(Item) /\ \A i \in DOMAIN items : items[i].k = "call"
    BY <1>1, <1>3, CallsTyped DEF Calling
  <1>5. /\ Answered(msgs') = Answered(msgs) /\ Refused(msgs') = Refused(msgs)
        /\ Once(msgs) => Once(msgs')
    <2> HIDE DEF items
    <2> QED BY <1>1, <1>3, <1>4, CallsAppended DEF items
  <1>6. Told' = Told
    BY <1>2, <1>5 DEF Told
  <1>7. /\ DOMAIN queue' = 1..n
        /\ \A i \in 1..n : queue'[i].id = issued + i /\ queue'[i].what \in Tools
    BY <1>1
  <1> HIDE DEF calls, items
  <1>8. Numbered'
    <2>1. 1..issued \subseteq 1..issued' /\ (issued + 1)..(issued + n) \subseteq 1..issued'
      BY <1>1, <1>3
    <2>2. \A i \in DOMAIN queue' : queue'[i].id <= issued'
      BY <1>1, <1>3, <1>7
    <2> QED BY <1>1, <1>2, <1>6, <2>1, <2>2 DEF Truth, Numbered
  <1>9. Lined'
    <2>1. \A i, j \in DOMAIN queue' : queue'[i].id = queue'[j].id => i = j
      BY ONLY <1>3, <1>7
    <2>2. \A i \in DOMAIN queue' : queue'[i].what # "VERIFY"
      <3>1. "VERIFY" \notin Tools
        BY SessionAssumption DEF SessionAssumption
      <3> QED BY ONLY <1>7, <3>1
    <2> QED BY <1>2, <2>1, <2>2 DEF Lined, Idle, Downs
  <1>10. Untouched'
    <2>1. ASSUME NEW i \in DOMAIN queue' PROVE queue'[i].id \notin 1..issued
      BY ONLY <1>3, <1>7
    <2> QED BY <1>2, <1>6, <2>1 DEF Truth, Numbered, Untouched
  <1>11. Kept'
    BY <1>2 DEF Truth, Kept, at, Left, Held
  <1>12. Telling'
    BY <1>2, <1>5 DEF Truth, Telling, Histories
  <1> QED BY <1>8, <1>9, <1>10, <1>11, <1>12 DEF Truth

\* So has a verification command.
LEMMA CommandCall ==
    ASSUME TypeOK, Truth, pc = "final", at' = "ask", issued' = issued + 1,
           queue' = <<[id |-> issued', what |-> "VERIFY"]>>,
           UNCHANGED <<manifest, msgs, ran, live>>
    PROVE  Truth'
  <1>1. issued \in Nat /\ at = "final"
    BY DEF TypeOK, at
  <1>2. /\ DOMAIN queue' = {1} /\ queue'[1].id = issued + 1
        /\ queue'[1].what = "VERIFY"
    OBVIOUS
  <1>3. Told' = Told
    BY DEF Told
  <1>4. Numbered'
    BY <1>1, <1>2, <1>3 DEF Truth, Numbered
  <1>5. Lined'
    BY <1>2 DEF Lined, Idle, Downs
  <1>6. Untouched'
    BY <1>1, <1>2, <1>3 DEF Truth, Numbered, Untouched
  <1>7. Kept' /\ Telling'
    BY <1>1 DEF Truth, Kept, Telling, Histories, Left, Held
  <1> QED BY <1>4, <1>5, <1>6, <1>7 DEF Truth

\* The steps that say nothing, leave the calls alone and do not take a pending
\* action from the disk.
Silent ==
    /\ queue' = queue /\ UNCHANGED <<msgs, ran, issued, live>>
    /\ manifest'.messages \in {manifest.messages, msgs}
    /\ manifest'.pending = manifest.pending

\* What they need: control goes no nearer to an effect or an answer.
LEMMA StayingSilent ==
    ASSUME TypeOK, Truth, Silent,
           queue # <<>> => /\ at' \in Early => at \in Early
                           /\ at' \in Unanswered => at \in Unanswered
                           /\ at' \notin Idle,
           manifest.pending # NoCall =>
               at' \in Left \/ (at' \in Held /\ at \in Held)
    PROVE  Truth'
  <1>1. Echoes(msgs') /\ Echoes(manifest'.messages)
    BY DEF Echoes, Histories, Silent
  <1> QED BY <1>1, SayingNothing DEF Silent

\* A user message says nothing of a call.
LEMMA UserEchoes ==
    ASSUME NEW m \in Histories, m \in Seq(Item)
    PROVE  Echoes(m) /\ Echoes(Append(m, User)) /\ Echoes(<<>>) /\ Echoes(<<User>>)
  <1>1. User \in Item /\ User.k = "user"
    BY ItemsTyped DEF User
  <1>2. /\ Answered(Append(m, User)) = Answered(m)
        /\ Refused(Append(m, User)) = Refused(m)
        /\ Once(m) => Once(Append(m, User))
    BY <1>1, Appending
  <1>3. /\ Answered(Append(<<>>, User)) = {} /\ Refused(Append(<<>>, User)) = {}
        /\ Once(Append(<<>>, User))
    <2>1. <<>> \in Seq(Item)
      OBVIOUS
    <2> QED BY <1>1, <2>1, Appending, SaysNothing
  <1>4. Append(<<>>, User) = <<User>>
    OBVIOUS
  <1> QED BY <1>2, <1>3, <1>4, SaysNothing DEF Echoes

\* A step that says nothing.
Calm ==
    /\ Silent
    /\ queue # <<>> => /\ at' \in Early => at \in Early
                       /\ at' \in Unanswered => at \in Unanswered
                       /\ at' \notin Idle
    /\ manifest.pending # NoCall => at' \in Left \/ (at' \in Held /\ at \in Held)
    /\ at' \in Downs => at \in Downs
    /\ at' = "deny_save" => at = "deny_save"
    /\ at' = "verify_failed" =>
          at = "verify_failed" \/ (queue # <<>> /\ cur.what = "VERIFY")

\* Most steps of a run are such: the journal, the model request, the way of a
\* call to its effect and from it, the end of the run, the claim.
LEMMA CalmSteps ==
    ASSUME TypeOK, Control, Truth, [Next]_vars
    PROVE  \/ Calm
           \/ Prepare \/ OutOfSteps \/ ModelCalls \/ RejectCall \/ ReuseGrant
           \/ RequestApproval \/ (\E d \in Decisions : Decide(d))
           \/ (Denied /\ ~cancel /\ cur.what # "VERIFY") \/ DenySave
           \/ MarkStarted \/ BeginEffect \/ Observe \/ VerifyFailed
           \/ (FinalAnswer /\ issued' = issued + 1)
           \/ Exit \/ Crash \/ Refuse \/ Resume \/ Continue \/ Reconcile
           \/ (\E a \in Agents : AgentAppend(a))
  <1>0. /\ manifest \in Manifest /\ ret \in Returns /\ issued \in Nat
        /\ manifest.pending # NoCall => at \in Left \cup Held
        /\ at \in Idle => queue = <<>>
        /\ at \in {"denied", "observe"} => queue # <<>>
    BY DEF TypeOK, Control, CallPCs, Truth, Kept, Lined
  <1>10. Silent /\ at' = at => Calm
    BY <1>0 DEF Calm
  <1>1. CASE EmitSave \/ EmitAppend \/ UserCancel \/ UNCHANGED vars
    <2>1. at' = at
      BY <1>0, <1>1 DEF EmitSave, EmitAppend, UserCancel, Goto, at, Returns, vars,
         process
    <2>2. Silent
      BY <1>0, <1>1 DEF EmitSave, EmitAppend, UserCancel, Silent, Manifest, vars,
         process, durable, history, bounds
    <2> QED BY <2>1, <2>2, <1>10
  <1>9. CASE Launch \/ Claim
    <2>1. (at = "new" /\ at' = "prepare") \/ (at = "down" /\ at' = "validating")
      BY <1>9 DEF Launch, Claim, Emit, Goto, at
    <2>2. Silent
      BY <1>0, <1>9 DEF Launch, Claim, Silent, Manifest, durable, history, bounds
    <2> QED BY <1>0, <2>1, <2>2 DEF Calm, Early, Unanswered, Idle, Left, Held, Downs
  <1> USE <1>0
  <1> USE DEF Calm, Silent, Early, Unanswered, Idle, Held, Left, Downs, at,
              Returns, Manifest, Goto, Emit, Finish, Checkpoint, durable,
              history, bounds
  <1>2. CASE StopAtLoop \/ RequestModel \/ NoTurn \/ ModelFailed \/ ModelAnswers
    BY <1>2 DEF StopAtLoop, RequestModel, NoTurn, ModelFailed, ModelAnswers
  <1>3. CASE NextCall \/ HookDenies \/ ApprovalCancelled
    BY <1>3 DEF NextCall, HookDenies, ApprovalCancelled
  <1>4. CASE Denied
    BY <1>4 DEF Denied
  <1>5. CASE Approved \/ EnterTool \/ EndEffect \/ Verified
    BY <1>5 DEF Approved, EnterTool, EndEffect, Verified
  <1>6. CASE EngineError
    BY <1>6 DEF EngineError
  <1>7. CASE FinishRun
    <2>1. PICK status \in {outcome, "failed"} : Checkpoint(status, msgs)
      BY <1>7 DEF FinishRun
    <2>2. manifest'.messages = msgs /\ manifest'.pending = manifest.pending
      BY <2>1
    <2>3. Silent /\ at = "finish" /\ at' = "exit"
      BY <1>7, <2>2 DEF FinishRun
    <2> QED BY <2>3 DEF Dispatching
  <1>8. CASE FinalAnswer
    BY <1>8 DEF FinalAnswer
  <1>11. CASE NextWave \/ StartWave \/ WaveTimeout \/ WaveDone
    BY <1>11 DEF NextWave, StartWave, WaveTimeout, WaveDone, Dispatching
  <1>12. ASSUME NEW a \in Agents, AgentSave(a) \/ AgentEnds(a) PROVE Calm
    <2>1. at' = at
      BY <1>12 DEF AgentSave, AgentEnds
    <2>2. Silent
      BY <1>12 DEF AgentSave, AgentEnds
    <2> QED BY <2>1, <2>2, <1>10
  <1>13. ASSUME NEW a \in Agents, AgentRaises(a) PROVE Calm
    <2>1. Silent
      BY <1>13 DEF AgentRaises
    <2>2. CASE at' = at
      BY <2>1, <2>2, <1>10
    <2>3. CASE pc = "gather" /\ pc' = "emit" /\ ret' \in {"observe", "finish"}
      BY <2>1, <2>3 DEF Dispatching
    <2> QED BY <1>13, <2>2, <2>3 DEF AgentRaises, Gathered
  <1> QED BY <1>1, <1>2, <1>3, <1>4, <1>5, <1>6, <1>7, <1>8, <1>9, <1>11,
         <1>12, <1>13 DEF Next, Dispatch

\* A subagent at work was, for the same call, or has just been sent.
LEMMA Employed ==
    ASSUME TypeInv, [Next]_vars, NEW a \in Agents, agents'[a].at # "idle"
    PROVE  \/ agents[a].at # "idle" /\ agents'[a].call = agents[a].call
           \/ StartWave /\ agents'[a].call = cur
  <1>0. agents \in [Agents -> AgentState]
    BY DEF TypeInv, Crews
  <1> USE <1>0 DEF AgentState, Resting
  <1>1. CASE agents' = agents
    BY <1>1
  <1>2. CASE StartWave
    BY <1>2 DEF StartWave
  <1>3. CASE WaveTimeout
    BY <1>3 DEF WaveTimeout
  <1>4. ASSUME NEW b \in Agents, AgentSave(b)
        PROVE  agents[a].at # "idle" /\ agents'[a].call = agents[a].call
    BY <1>4 DEF AgentSave
  <1>5. ASSUME NEW b \in Agents, AgentAppend(b)
        PROVE  agents[a].at # "idle" /\ agents'[a].call = agents[a].call
    BY <1>5 DEF AgentAppend, Writing
  <1>6. ASSUME NEW b \in Agents, AgentEnds(b) \/ AgentRaises(b)
        PROVE  agents[a].at # "idle" /\ agents'[a].call = agents[a].call
    BY <1>6 DEF AgentEnds, AgentRaises
  <1>7. CASE Exit \/ Crash \/ Refuse
    BY <1>7 DEF Exit, Crash, Refuse, Forget
  <1> QED BY <1>1, <1>2, <1>3, <1>4, <1>5, <1>6, <1>7, AgentsStay

\* What is clear of refusal stays so.
LEMMA ClearNext ==
    ASSUME TypeInv, Truth, [Next]_vars, NEW id, Clear(id)
    PROVE  Clear(id)'
  <1>0. /\ TypeOK /\ Control /\ manifest \in Manifest /\ msgs \in Seq(Item)
        /\ manifest.messages \in Seq(Item) /\ issued \in Nat
        /\ at \in CallPCs => queue # <<>>
        /\ id \in 1..issued
    BY DEF TypeInv, TypeOK, Control, Manifest, Clear
  <1>a. \A m \in {msgs, manifest.messages} :
           /\ id \notin Refused(m) /\ id \notin Refused(Append(m, User))
    BY <1>0, ItemsTyped, Appending DEF User, Clear, Histories
  <1>b. /\ id \notin Refused(<<>>) /\ id \notin Refused(<<User>>)
    BY SaysNothing DEF Refused, User
  <1>c. queue # <<>> /\ at \in Early => cur.id # id
    BY <1>0, TailCalls DEF Clear, TypeOK
  <1>d. queue # <<>> /\ queue' = Tail(queue) =>
           \A i \in DOMAIN queue' : queue'[i].id # id
    BY <1>0, TailCalls DEF Clear, TypeOK
  <1>e. ASSUME queue # <<>>, NEW t \in {"ran"} \cup Unperformed,
               t = "ran" \/ cur.id # id
        PROVE  id \notin Refused(Append(msgs, Obs(cur, t)))
    <2>1. /\ Obs(cur, t) \in Item /\ Obs(cur, t).id = cur.id
          /\ Obs(cur, t).says = t
      BY <1>0, <1>e, CurTyped, ItemsTyped DEF Obs
    <2> QED BY <1>0, <1>a, <1>e, <2>1, Appending DEF Unperformed
  <1> DEFINE Keeps ==
        /\ issued' >= issued
        /\ manifest'.pending # NoCall => manifest'.pending.id # id
        /\ id \notin Refused(msgs') /\ id \notin Refused(manifest'.messages)
        /\ \A i \in DOMAIN queue' : queue'[i].id = id => i = 1 /\ at' \notin Early
  <1>f. Keeps => Clear(id)'
    <2>1. issued' \in Int
      BY TypeNext DEF TypeInv, TypeOK
    <2> QED BY <1>0, <2>1 DEF Clear, Histories
  <1> HIDE DEF Keeps
  <1> USE <1>0, <1>a, <1>b, <1>c, <1>d
  <1>1. CASE Calm
    BY <1>1, <1>f DEF Calm, Silent, Clear, Keeps
  <1>2. CASE Prepare
    <2>1. /\ msgs' = <<User>> /\ manifest'.messages = <<User>>
          /\ manifest'.pending = manifest.pending
          /\ UNCHANGED <<queue, issued>> /\ at' \notin Early
      BY <1>2 DEF Prepare, Goto, Checkpoint, Manifest, history, bounds, at, Early
    <2> QED BY <2>1, <1>f DEF Clear, Keeps
  <1>3. CASE OutOfSteps
    <2>1. /\ msgs' = Append(msgs, User) /\ UNCHANGED <<manifest, queue, issued>>
          /\ at' \notin Early
      BY <1>3 DEF OutOfSteps, Emit, durable, history, bounds, at, Early
    <2> QED BY <2>1, <1>f DEF Clear, Keeps
  <1>4. CASE ModelCalls
    <2>1. PICK n \in 1..MaxBatch : \E w \in [1..n -> Tools] :
          LET calls == [i \in 1..n |-> [id |-> issued + i, what |-> w[i]]]
          IN  /\ issued + n <= MaxCalls /\ issued' = issued + n
              /\ queue' = calls
              /\ msgs' = msgs \o [i \in 1..n |-> Calling(calls[i])]
      BY <1>4 DEF ModelCalls
    <2>2. PICK w \in [1..n -> Tools] :
          LET calls == [i \in 1..n |-> [id |-> issued + i, what |-> w[i]]]
          IN  /\ issued + n <= MaxCalls /\ issued' = issued + n
              /\ queue' = calls
              /\ msgs' = msgs \o [i \in 1..n |-> Calling(calls[i])]
      BY <2>1
    <2> DEFINE calls == [i \in 1..n |-> [id |-> issued + i, what |-> w[i]]]
               items == [i \in 1..n |-> Calling(calls[i])]
    <2>3. /\ issued + n <= MaxCalls /\ issued' = issued + n /\ n \in Nat
          /\ queue' = calls /\ msgs' = msgs \o items
      BY <2>2
    <2>4. items \in Seq(Item) /\ \A i \in DOMAIN items : items[i].k = "call"
      BY <2>3, CallsTyped DEF Calling
    <2>5. \A i \in DOMAIN queue' : queue'[i].id # id
      BY <2>3
    <2> HIDE DEF items, calls
    <2>6. Refused(msgs') = Refused(msgs)
      BY <2>3, <2>4, CallsAppended
    <2>7. manifest' = manifest
      BY <1>4 DEF ModelCalls, durable
    <2> QED BY <2>3, <2>5, <2>6, <2>7, <1>f DEF Clear, Keeps
  <1>5. CASE RejectCall
    <2>1. /\ at \in {"next", "ask"} /\ queue # <<>>
          /\ msgs' = Append(msgs, Obs(cur, "invalid")) /\ queue' = Tail(queue)
          /\ UNCHANGED <<manifest, issued>>
      BY <1>5 DEF RejectCall, Emit, at, durable, history, bounds
    <2>2. id \notin Refused(msgs')
      BY <2>1, <1>e DEF Unperformed, Early
    <2> QED BY <2>1, <2>2, <1>f DEF Clear, Keeps
  <1>6. CASE ReuseGrant \/ RequestApproval \/ MarkStarted
    <2>1. /\ at \in Early /\ queue # <<>>
          /\ manifest'.pending \in {NoCall, cur, manifest.pending}
          /\ manifest'.messages = manifest.messages
          /\ UNCHANGED <<queue, msgs, issued>>
      <3>1. CASE ReuseGrant
        BY <3>1 DEF ReuseGrant, Emit, at, Early, CallPCs, Manifest,
           Pending, durable, history, bounds
      <3>2. CASE RequestApproval
        BY <3>2 DEF RequestApproval, Emit, at, Early, CallPCs, Manifest,
           durable, history, bounds
      <3>3. CASE MarkStarted
        BY <3>3 DEF MarkStarted, Goto, at, Early, CallPCs, Manifest,
           durable, history, bounds
      <3> QED BY <1>6, <3>1, <3>2, <3>3
    <2>2. \A i \in DOMAIN queue : queue[i].id # id
      BY <2>1 DEF Clear
    <2>3. manifest'.pending # NoCall => manifest'.pending.id # id
      BY <2>1 DEF Clear
    <2> QED BY <2>1, <2>2, <2>3, <1>f DEF Keeps
  <1>7. ASSUME NEW d \in Decisions, Decide(d) PROVE Clear(id)'
    <2>1. /\ at \in Early /\ queue # <<>>
          /\ manifest'.pending \in {NoCall, cur}
          /\ manifest'.messages = manifest.messages
          /\ UNCHANGED <<queue, msgs, issued>>
      BY <1>7 DEF Decide, Decisions, at, Early, CallPCs, Manifest, Pending,
         durable, history, bounds
    <2>2. \A i \in DOMAIN queue : queue[i].id # id
      BY <2>1 DEF Clear
    <2>3. manifest'.pending # NoCall => manifest'.pending.id # id
      BY <2>1 DEF Clear
    <2> QED BY <2>1, <2>2, <2>3, <1>f DEF Keeps
  <1>8. CASE Denied /\ ~cancel /\ cur.what # "VERIFY"
    <2>1. /\ at \in Early /\ queue # <<>> /\ queue' = queue
          /\ msgs' = Append(msgs, Obs(cur, "denied"))
          /\ UNCHANGED <<manifest, issued>> /\ at' \notin Early
      BY <1>8 DEF Denied, Emit, at, CallPCs, Early, durable, history, bounds
    <2>2. id \notin Refused(msgs')
      BY <2>1, <1>e DEF Unperformed
    <2> QED BY <2>1, <2>2, <1>f DEF Clear, Keeps
  <1>9. CASE DenySave
    <2>1. /\ queue # <<>> /\ queue' = Tail(queue) /\ msgs' = msgs
          /\ manifest'.messages = msgs /\ manifest'.pending = manifest.pending
          /\ issued' = issued
      BY <1>9 DEF DenySave, Checkpoint, Goto, at, CallPCs, Manifest, history,
         bounds
    <2> QED BY <2>1, <1>f DEF Clear, Keeps
  <1>10. CASE BeginEffect \/ \E b \in Agents : AgentAppend(b)
    <2>1. UNCHANGED <<manifest, queue, msgs, issued>>
      BY <1>10 DEF BeginEffect, AgentAppend, Goto, durable, bounds
    <2>2. queue # <<>> => at' \notin Early \/ at \in Early
      BY <1>10 DEF BeginEffect, AgentAppend, Goto, at, Early
    <2> QED BY <2>1, <2>2, <1>f DEF Clear, Keeps
  <1>11. CASE Observe
    <2>1. /\ queue # <<>> /\ msgs' = Append(msgs, Obs(cur, "ran"))
          /\ manifest'.messages = msgs' /\ manifest'.pending = manifest.pending
          /\ queue' = Tail(queue) /\ issued' = issued
      BY <1>11 DEF Observe, Goto, Finish, Checkpoint, at, CallPCs, Manifest,
         history, bounds
    <2>2. id \notin Refused(msgs')
      BY <2>1, <1>e
    <2> QED BY <2>1, <2>2, <1>f DEF Clear, Keeps
  <1>12. CASE VerifyFailed
    <2>1. /\ queue' = <<>> /\ msgs' = Append(msgs, User)
          /\ manifest'.messages = msgs' /\ manifest'.pending = manifest.pending
          /\ issued' = issued
      BY <1>12 DEF VerifyFailed, Goto, Checkpoint, Manifest, history, bounds
    <2> QED BY <2>1, <1>f DEF Clear, Keeps
  <1>13. CASE FinalAnswer /\ issued' = issued + 1
    <2>1. /\ queue' = <<[id |-> issued', what |-> "VERIFY"]>>
          /\ UNCHANGED <<manifest, msgs>>
      BY <1>13 DEF FinalAnswer, durable
    <2>2. \A i \in DOMAIN queue' : queue'[i].id # id
      BY <1>13, <2>1
    <2> QED BY <1>13, <2>1, <2>2, <1>f DEF Clear, Keeps
  <1>14. CASE Exit \/ Crash \/ Refuse
    <2>1. queue' = <<>> /\ msgs' = <<>> /\ UNCHANGED <<manifest, issued>>
      BY <1>14 DEF Exit, Crash, Refuse, Forget, durable, bounds
    <2> QED BY <2>1, <1>f DEF Clear, Keeps
  <1>15. CASE Resume \/ Continue
    <2>1. /\ at' = "reconcile" /\ queue' = queue
          /\ msgs' \in {manifest.messages, Append(manifest.messages, User)}
          /\ manifest'.messages \in {manifest.messages, msgs'}
          /\ manifest'.pending = manifest.pending /\ issued' = issued
      BY <1>15 DEF Resume, Continue, Emit, Checkpoint, at, Manifest, durable,
         history, bounds
    <2>2. /\ id \notin Refused(msgs') /\ id \notin Refused(manifest'.messages)
          /\ at' \notin Early
      BY <2>1 DEF Early
    <2>3. \A i \in DOMAIN queue' : queue'[i].id = id => i = 1
      BY <2>1 DEF Clear
    <2> QED BY <2>1, <2>2, <2>3, <1>f DEF Clear, Keeps
  <1>16. CASE Reconcile
    <2>1. at' = "loop" /\ UNCHANGED <<queue, issued>>
      BY <1>16 DEF Reconcile, Emit, Goto, at, history, bounds
    <2>2. CASE manifest.pending = NoCall
      <3>1. UNCHANGED <<manifest, msgs>>
        BY <1>16, <2>2 DEF Reconcile
      <3> QED BY <2>1, <3>1, <1>f DEF Clear, Keeps, Early
    <2>3. CASE manifest.pending # NoCall
      <3> DEFINE x == IF manifest.pending.what = "VERIFY" THEN User
                      ELSE Obs(manifest.pending, "abandoned")
      <3>1. manifest.pending \in Call /\ manifest.pending.id # id
        BY <2>3 DEF Manifest, Clear
      <3>2. x \in Item /\ (x.k = "obs" => x.id # id)
        BY <3>1, ItemsTyped DEF User, Obs, Unperformed
      <3>3. /\ msgs' = Append(msgs, x) /\ manifest'.messages = msgs'
            /\ manifest'.pending = NoCall
        BY <1>16, <2>3 DEF Reconcile, Manifest
      <3> HIDE DEF x
      <3>4. id \notin Refused(msgs')
        BY <3>2, <3>3, Appending
      <3> QED BY <2>1, <3>3, <3>4, <1>f DEF Clear, Keeps, Early
    <2> QED BY <2>2, <2>3
  <1> QED BY <1>1, <1>2, <1>3, <1>4, <1>5, <1>6, <1>7, <1>8, <1>9, <1>10,
         <1>11, <1>12, <1>13, <1>14, <1>15, <1>16, CalmSteps

\* Whoever is at work, or is sent to work, has a call clear of refusal.
LEMMA CrewedNext == TypeInv /\ Truth /\ Crewed /\ [Next]_vars => Crewed'
  <1> SUFFICES ASSUME TypeInv, Truth, Crewed, [Next]_vars,
                      NEW a \in Agents, agents'[a].at # "idle"
               PROVE  Clear(agents[a].call.id)'
    BY DEF Crewed
  <1>1. CASE agents[a].at # "idle" /\ agents'[a].call = agents[a].call
    <2>1. PICK id : id = agents[a].call.id
      OBVIOUS
    <2>2. Clear(id)
      BY <1>1, <2>1 DEF Crewed
    <2>3. Clear(id)'
      BY <2>2, ClearNext
    <2> QED BY <1>1, <2>1, <2>3 DEF Clear
  <1>2. CASE StartWave /\ agents'[a].call = cur
    <2>1. PICK id : id = cur.id
      OBVIOUS
    <2>2. /\ at = "wave" /\ queue # <<>> /\ cur = queue[1] /\ 1 \in DOMAIN queue
          /\ cur.id \in 1..MaxCalls
      BY <1>2, CurTyped, TailCalls
      DEF StartWave, at, TypeInv, Control, CallPCs, TypeOK
    <2>3. Clear(id)
      BY <2>1, <2>2, RefusedIsAnswered
      DEF Clear, Truth, Numbered, Lined, Untouched, Kept, Unanswered, Early,
          Dispatching, Left, Held, Told, Histories
    <2>4. Clear(id)'
      BY <2>3, ClearNext
    <2> QED BY <1>2, <2>1, <2>4 DEF Clear
  <1> QED BY <1>1, <1>2, Employed

\* A subagent begins to work for a call that nothing says was not performed.
LEMMA AgentBegins ==
    ASSUME TypeOK, Truth, Crewed, NEW a \in Agents, AgentAppend(a)
    PROVE  Truth'
  <1>1. PICK id : id = agents[a].call.id
    OBVIOUS
  <1>2. Clear(id)
    BY <1>1 DEF AgentAppend, Writing, Crewed
  <1>3. /\ ran' \in {ran, ran \cup {id}} /\ at' = at
        /\ UNCHANGED <<manifest, queue, msgs, issued, live>>
    BY <1>1 DEF AgentAppend, at, bounds
  <1>4. Told' = Told
    BY <1>3 DEF Told
  <1>5. Numbered' /\ Lined'
    BY <1>2, <1>3, <1>4 DEF Truth, Numbered, Lined, Clear
  <1>6. Untouched'
    BY <1>2, <1>3, <1>4 DEF Truth, Untouched, Clear, TypeOK
  <1>7. Kept'
    BY <1>2, <1>3, <1>4 DEF Truth, Kept, Clear, cur
  <1>8. Telling'
    BY <1>2, <1>3 DEF Truth, Telling, Clear, Histories
  <1> QED BY <1>5, <1>6, <1>7, <1>8 DEF Truth

\* No step says of a call what is not so, or says it twice.
LEMMA TruthNext == TypeInv /\ Truth /\ Crewed /\ [Next]_vars => Truth'
  <1> SUFFICES ASSUME TypeInv, Truth, Crewed, [Next]_vars PROVE Truth'
    OBVIOUS
  <1>0. /\ TypeOK /\ Control /\ manifest \in Manifest /\ msgs \in Seq(Item)
        /\ manifest.messages \in Seq(Item)
        /\ at \in CallPCs => queue # <<>>
    BY DEF TypeInv, TypeOK, Control, Manifest
  <1>a. /\ manifest.pending # NoCall => at \in Left \cup Held
        /\ Echoes(<<>>) /\ Echoes(<<User>>)
        /\ Echoes(msgs) /\ Echoes(Append(msgs, User))
        /\ Echoes(manifest.messages) /\ Echoes(Append(manifest.messages, User))
    BY <1>0, UserEchoes DEF Truth, Kept, Histories
  <1> USE <1>0, <1>a
  <1>1. CASE Calm
    BY <1>1, StayingSilent DEF Calm
  <1>2. CASE Prepare
    <2>1. /\ pc = "prepare" /\ pc' = "loop" /\ msgs' = <<User>>
          /\ manifest'.messages = <<User>> /\ manifest'.pending = manifest.pending
          /\ UNCHANGED <<queue, ran, issued, live>>
      BY <1>2 DEF Prepare, Goto, Checkpoint, Manifest, history, bounds
    <2>2. at = "prepare" /\ at' = "loop" /\ queue = <<>> /\ manifest.pending = NoCall
      BY <2>1 DEF at, Truth, Lined, Idle, Left, Held
    <2> QED BY <2>1, <2>2, SayingNothing DEF Histories
  <1>3. CASE OutOfSteps
    <2>1. /\ pc = "loop" /\ pc' = "emit" /\ ret' = "finish"
          /\ msgs' = Append(msgs, User)
          /\ UNCHANGED <<manifest, queue, ran, issued, live>>
      BY <1>3 DEF OutOfSteps, Emit, durable, history, bounds
    <2>2. at = "loop" /\ at' = "finish" /\ queue = <<>> /\ manifest.pending = NoCall
      BY <2>1 DEF at, Truth, Lined, Idle, Left, Held
    <2> QED BY <2>1, <2>2, SayingNothing DEF Histories
  <1>4. CASE ModelCalls
    BY <1>4, TurnCalls
  <1>5. CASE RejectCall
    <2>1. /\ at \in {"next", "ask"} /\ at' = "next" /\ queue # <<>>
          /\ msgs' = Append(msgs, Obs(cur, "invalid")) /\ queue' = Tail(queue)
          /\ UNCHANGED <<manifest, ran, issued, live>>
      BY <1>5 DEF RejectCall, Emit, at, durable, history, bounds
    <2>2. cur.id \notin ran
      BY <2>1, TailCalls DEF Truth, Untouched, Early, TypeOK
    <2> QED BY <2>1, <2>2, Answering
         DEF Unanswered, Early, Held, Idle, Downs, Unperformed
  <1>6. CASE ReuseGrant \/ RequestApproval \/ MarkStarted
    <2>1. /\ at \in Early /\ queue # <<>> /\ at' \in Held \cup {"tool"}
          /\ manifest'.pending \in {NoCall, cur} /\ manifest'.messages = manifest.messages
          /\ (at' = "tool" => manifest'.pending = NoCall)
          /\ UNCHANGED <<queue, msgs, ran, issued, live>>
      <3>1. CASE ReuseGrant
        BY <3>1 DEF ReuseGrant, Emit, at, Early, Held, CallPCs, Manifest,
           Pending, durable, history, bounds
      <3>2. CASE RequestApproval
        BY <3>2 DEF RequestApproval, Emit, at, Early, Held, CallPCs, Manifest,
           durable, history, bounds
      <3>3. CASE MarkStarted
        BY <3>3 DEF MarkStarted, Goto, at, Early, Held, Left, CallPCs, Manifest,
           durable, history, bounds, Truth, Kept
      <3> QED BY <1>6, <3>1, <3>2, <3>3
    <2> QED BY <2>1, SayingNothing
         DEF Histories, Early, Held, Unanswered, Idle, Downs
  <1>7. ASSUME NEW d \in Decisions, Decide(d) PROVE Truth'
    <2>1. /\ at = "waiting" /\ queue # <<>> /\ at' \in {"denied", "cancelled", "approved"}
          /\ manifest'.pending \in {NoCall, cur} /\ manifest'.messages = manifest.messages
          /\ (manifest'.pending # NoCall => at' = "approved")
          /\ UNCHANGED <<queue, msgs, ran, issued, live>>
      BY <1>7 DEF Decide, Decisions, Emit, at, CallPCs, Manifest, Pending,
         durable, history, bounds
    <2> QED BY <2>1, SayingNothing
         DEF Histories, Early, Held, Unanswered, Idle, Downs
  <1>8. CASE Denied /\ ~cancel /\ cur.what # "VERIFY"
    <2>1. /\ at = "denied" /\ at' = "deny_save" /\ queue # <<>>
          /\ msgs' = Append(msgs, Obs(cur, "denied")) /\ queue' = queue
          /\ UNCHANGED <<manifest, ran, issued, live>>
      BY <1>8 DEF Denied, Emit, at, CallPCs, durable, history, bounds
    <2>2. cur.id \notin ran
      BY <2>1, TailCalls DEF Truth, Untouched, Early, TypeOK
    <2> QED BY <2>1, <2>2, Answering DEF Unanswered, Early, Held, Unperformed
  <1>9. CASE DenySave
    BY <1>9, DenialSaved
  <1>10. CASE BeginEffect
    BY <1>10, EffectBegins
  <1>11. CASE Observe
    <2>1. /\ at = "observe" /\ at' \in {"next", "finish"} /\ queue # <<>>
          /\ msgs' = Append(msgs, Obs(cur, "ran")) /\ queue' = Tail(queue)
          /\ manifest'.messages = msgs' /\ manifest'.pending = manifest.pending
          /\ UNCHANGED <<ran, issued, live>>
      BY <1>11 DEF Observe, Goto, Finish, Checkpoint, at, CallPCs, Manifest,
         durable, history, bounds
    <2> QED BY <2>1, Answering
         DEF Unanswered, Early, Held, Idle, Downs, Unperformed
  <1>12. CASE VerifyFailed
    <2>1. /\ pc = "verify_failed" /\ pc' = "loop" /\ queue' = <<>>
          /\ msgs' = Append(msgs, User) /\ manifest'.messages = msgs'
          /\ manifest'.pending = manifest.pending /\ UNCHANGED <<ran, issued, live>>
      BY <1>12 DEF VerifyFailed, Goto, Checkpoint, Manifest, history, bounds
    <2>2. at = "verify_failed" /\ at' = "loop" /\ manifest.pending = NoCall
      BY <2>1 DEF at, Left, Held
    <2> QED BY <2>1, <2>2, SayingNothing DEF Histories
  <1>13. CASE FinalAnswer /\ issued' = issued + 1
    <2>1. /\ pc = "final" /\ at' = "ask"
          /\ queue' = <<[id |-> issued', what |-> "VERIFY"]>>
          /\ UNCHANGED <<manifest, msgs, ran, live>>
      BY <1>13 DEF FinalAnswer, Goto, at, durable, history, TypeOK
    <2> QED BY <1>13, <2>1, CommandCall
  <1>14. CASE Exit \/ Crash \/ Refuse
    <2>1. /\ pc' = "down" /\ queue' = <<>> /\ msgs' = <<>> /\ live' = {}
          /\ UNCHANGED <<manifest, ran, issued>>
      BY <1>14 DEF Exit, Crash, Refuse, Forget, durable, bounds
    <2>2. at' = "down"
      BY <2>1 DEF at
    <2> QED BY <2>1, <2>2, SayingNothing DEF Histories, Left
  <1>15. CASE Resume \/ Continue
    <2>1. /\ at = "validating" /\ at' = "reconcile" /\ queue' = queue
          /\ msgs' \in {manifest.messages, Append(manifest.messages, User)}
          /\ manifest'.messages \in {manifest.messages, msgs'}
          /\ manifest'.pending = manifest.pending /\ UNCHANGED <<ran, issued, live>>
      BY <1>15 DEF Resume, Continue, Emit, Checkpoint, at, Manifest, durable,
         history, bounds
    <2>2. queue = <<>>
      BY <2>1 DEF Truth, Lined, Idle, Downs
    <2> QED BY <2>1, <2>2, SayingNothing DEF Histories, Left
  <1>16. CASE Reconcile
    BY <1>16, Reconciling
  <1>17. ASSUME NEW a \in Agents, AgentAppend(a) PROVE Truth'
    BY <1>17, AgentBegins
  <1> QED BY <1>1, <1>2, <1>3, <1>4, <1>5, <1>6, <1>7, <1>8, <1>9, <1>10,
         <1>11, <1>12, <1>13, <1>14, <1>15, <1>16, <1>17, CalmSteps

\* What the conversations say of the calls is true and said once throughout.
THEOREM TruthInvariant == Spec => [](Truth /\ Crewed)
  <1>1. Init => Truth /\ Crewed
    BY TruthInit
  <1> QED BY <1>1, TruthNext, CrewedNext, TypeInvariant, PTL DEF Spec

\* A call that a conversation, in memory or on disk, reports as denied, invalid
\* or abandoned never ran, in any process of the session.
THEOREM RefusalsHold == Spec => []UnperformedNeverRan
  <1>1. Truth => UnperformedNeverRan
    BY InTheseTerms DEF Truth, Telling
  <1> QED BY <1>1, TruthInvariant, PTL

\* Neither a process nor the reconciliation of a later one gives a call a second
\* observation.
THEOREM SingleAnswers == Spec => []AnsweredOnce
  <1>1. Truth => AnsweredOnce
    BY InTheseTerms DEF Truth, Telling
  <1> QED BY <1>1, TruthInvariant, PTL

-----------------------------------------------------------------------------
(* Every call of this process is answered before the next request *)

\* A step that keeps the calls asked for, and answers what it drops.
LEMMA StaysOwed ==
    ASSUME Owed, live' = live, Issued(msgs') = Issued(msgs),
           Answered(msgs) \subseteq Answered(msgs'),
           \A i \in DOMAIN queue :
              \/ queue[i].what = "VERIFY"
              \/ queue[i].id \in Answered(msgs')
              \/ \E j \in DOMAIN queue' : queue'[j] = queue[i],
           at' \in Downs => live = {},
           at' = "verify_failed" => queue' # <<>> /\ cur'.what = "VERIFY",
           at' = "deny_save" => cur'.id \in Answered(msgs')
    PROVE  Owed'
  <1>1. ASSUME NEW id \in Issued(msgs') \cap live'
        PROVE  id \in Answered(msgs') \/
                  \E j \in DOMAIN queue' : queue'[j].id = id /\ queue'[j].what # "VERIFY"
    <2>1. CASE id \in Answered(msgs)
      BY <2>1
    <2>2. ASSUME NEW i \in DOMAIN queue, queue[i].id = id, queue[i].what # "VERIFY"
          PROVE  id \in Answered(msgs') \/
                    \E j \in DOMAIN queue' : queue'[j].id = id /\ queue'[j].what # "VERIFY"
      BY <2>2
    <2> QED BY <2>1, <2>2 DEF Owed
  <1> QED BY <1>1 DEF Owed

\* An observation of the current call, which goes with it or stays to be saved.
LEMMA OwedAnswering ==
    ASSUME TypeOK, Owed, queue # <<>>, NEW s \in {"ran"} \cup Unperformed,
           msgs' = Append(msgs, Obs(cur, s)), live' = live,
           \/ queue' = Tail(queue) /\ at' \in {"next", "finish"}
           \/ queue' = queue /\ at' = "deny_save"
    PROVE  Owed'
  <1>1. /\ Obs(cur, s) \in Item /\ Obs(cur, s).k = "obs" /\ Obs(cur, s).id = cur.id
    BY CurTyped, ItemsTyped DEF Obs, TypeOK
  <1>2. Issued(msgs') = Issued(msgs) /\ Answered(msgs') = Answered(msgs) \cup {cur.id}
    BY <1>1, Appending DEF TypeOK
  <1>4. ASSUME NEW i \in DOMAIN queue
        PROVE  queue[i].id \in Answered(msgs') \/ \E j \in DOMAIN queue' : queue'[j] = queue[i]
    BY <1>2, TailCalls DEF TypeOK
  <1>5. at' = "deny_save" => cur' = cur
    BY DEF cur
  <1>6. at' \in {"next", "finish", "deny_save"}
    OBVIOUS
  <1> QED BY <1>2, <1>4, <1>5, <1>6, StaysOwed DEF Downs

\* A turn's calls join what is owed.
LEMMA OwedCalls == TypeOK /\ Truth /\ Owed /\ ModelCalls => Owed'
  <1> SUFFICES ASSUME TypeOK, Truth, Owed, ModelCalls PROVE Owed'
    OBVIOUS
  <1>1. PICK n \in 1..MaxBatch : \E w \in [1..n -> Tools] :
          LET calls == [i \in 1..n |-> [id |-> issued + i, what |-> w[i]]]
          IN  /\ issued + n <= MaxCalls
              /\ issued' = issued + n
              /\ queue' = calls
              /\ msgs' = msgs \o [i \in 1..n |-> Calling(calls[i])]
              /\ live' = live \cup (issued + 1)..(issued + n)
    BY DEF ModelCalls
  <1>2. PICK w \in [1..n -> Tools] :
          LET calls == [i \in 1..n |-> [id |-> issued + i, what |-> w[i]]]
          IN  /\ issued + n <= MaxCalls
              /\ issued' = issued + n
              /\ queue' = calls
              /\ msgs' = msgs \o [i \in 1..n |-> Calling(calls[i])]
              /\ live' = live \cup (issued + 1)..(issued + n)
    BY <1>1
  <1> DEFINE calls == [i \in 1..n |-> [id |-> issued + i, what |-> w[i]]]
             items == [i \in 1..n |-> Calling(calls[i])]
  <1>3. /\ issued \in Nat /\ n \in Nat /\ msgs \in Seq(Item)
        /\ issued + n <= MaxCalls /\ queue' = calls /\ msgs' = msgs \o items
        /\ live' = live \cup (issued + 1)..(issued + n)
    BY <1>2 DEF TypeOK, SessionAssumption
  <1>4. /\ items \in Seq(Item) /\ DOMAIN items = 1..n
        /\ \A i \in 1..n : items[i].k = "call" /\ items[i].id = issued + i
    BY <1>3, CallsTyped DEF Calling
  <1>5. /\ DOMAIN queue' = 1..n
        /\ \A i \in 1..n : queue'[i].id = issued + i /\ queue'[i].what \in Tools
    BY <1>3
  <1> HIDE DEF calls, items
  <1>6. /\ Issued(msgs') = Issued(msgs) \cup {items[i].id : i \in DOMAIN items}
        /\ Answered(msgs') = Answered(msgs)
    BY <1>3, <1>4, CallsAppended
  <1>7. "VERIFY" \notin Tools
    BY SessionAssumption DEF SessionAssumption
  <1>8. at = "model" /\ at' = "next"
    BY DEF ModelCalls, Emit, at
  <1>9. queue = <<>>
    BY <1>8 DEF Truth, Lined, Idle
  <1>10. ASSUME NEW id \in (issued + 1)..(issued + n)
         PROVE  \E j \in DOMAIN queue' : queue'[j].id = id /\ queue'[j].what # "VERIFY"
    <2>1. id - issued \in 1..n /\ issued + (id - issued) = id
      BY <1>3
    <2> QED BY <1>5, <1>7, <2>1
  <1>11. ASSUME NEW id \in Issued(msgs') \cap live'
         PROVE  id \in Answered(msgs') \/
                  \E j \in DOMAIN queue' : queue'[j].id = id /\ queue'[j].what # "VERIFY"
    <2>1. CASE id \in (issued + 1)..(issued + n)
      BY <1>10, <2>1
    <2>2. CASE id \notin (issued + 1)..(issued + n)
      <3>1. id \in live
        BY <1>3, <2>2
      <3>2. id \notin {items[i].id : i \in DOMAIN items}
        BY <1>3, <1>4, <2>2
      <3>3. id \in Issued(msgs)
        BY <1>6, <3>2
      <3> QED BY <1>6, <1>9, <3>1, <3>3 DEF Owed
    <2> QED BY <2>1, <2>2
  <1> QED BY <1>8, <1>11 DEF Owed, Downs

\* Whatever the approver, the hooks, the cancellation and deaths do.
LEMMA OwedNext == TypeInv /\ Truth /\ Owed /\ [Next]_vars => Owed'
  <1> SUFFICES ASSUME TypeInv, Truth, Owed, [Next]_vars PROVE Owed'
    OBVIOUS
  <1>0. /\ TypeOK /\ Control /\ manifest \in Manifest /\ msgs \in Seq(Item)
        /\ at \in CallPCs => queue # <<>>
    BY DEF TypeInv, TypeOK, Control, Manifest
  <1>a. /\ Issued(Append(msgs, User)) = Issued(msgs)
        /\ Answered(Append(msgs, User)) = Answered(msgs)
    BY <1>0, ItemsTyped, Appending DEF User
  <1>b. queue' = queue => cur' = cur
    BY DEF cur
  <1>c. queue' = queue => \A i \in DOMAIN queue : \E j \in DOMAIN queue' : queue'[j] = queue[i]
    OBVIOUS
  <1> USE <1>0, <1>a, <1>b, <1>c
  <1>1. CASE Calm
    <2>1. /\ queue' = queue /\ msgs' = msgs /\ live' = live
          /\ at' \in Downs => at \in Downs
          /\ at' = "deny_save" => at = "deny_save"
          /\ at' = "verify_failed" =>
                at = "verify_failed" \/ (queue # <<>> /\ cur.what = "VERIFY")
      BY <1>1 DEF Calm, Silent
    <2> QED BY <2>1, StaysOwed DEF Owed
  <1>2. CASE Prepare
    <2>1. /\ msgs' = <<User>> /\ at' = "loop"
      BY <1>2 DEF Prepare, Goto, at
    <2>2. Issued(<<User>>) = {}
      BY DEF Issued, User
    <2> QED BY <2>1, <2>2 DEF Owed, Downs
  <1>3. CASE OutOfSteps
    <2>1. /\ at' = "finish" /\ msgs' = Append(msgs, User) /\ queue' = queue /\ live' = live
      BY <1>3 DEF OutOfSteps, Emit, at, history
    <2> QED BY <2>1, StaysOwed DEF Downs
  <1>4. CASE ModelCalls
    BY <1>4, OwedCalls
  <1>5. CASE RejectCall
    <2>1. /\ at' = "next" /\ queue # <<>> /\ live' = live
          /\ msgs' = Append(msgs, Obs(cur, "invalid")) /\ queue' = Tail(queue)
      BY <1>5 DEF RejectCall, Emit, at, history
    <2> QED BY <2>1, OwedAnswering DEF Unperformed
  <1>6. CASE ReuseGrant \/ RequestApproval \/ (\E d \in Decisions : Decide(d)) \/
             MarkStarted \/ BeginEffect \/ (\E a \in Agents : AgentAppend(a))
    <2>1. /\ queue' = queue /\ msgs' = msgs /\ live' = live
          /\ at' = at \/ at' \notin Downs \cup {"deny_save", "verify_failed"}
      BY <1>6 DEF ReuseGrant, RequestApproval, Decide, Decisions, MarkStarted,
         BeginEffect, AgentAppend, Emit, Goto, at, history, Downs
    <2> QED BY <2>1, StaysOwed DEF Owed
  <1>7. CASE Denied /\ ~cancel /\ cur.what # "VERIFY"
    <2>1. /\ at = "denied" /\ at' = "deny_save" /\ queue # <<>> /\ live' = live
          /\ msgs' = Append(msgs, Obs(cur, "denied")) /\ queue' = queue
      BY <1>7 DEF Denied, Emit, at, CallPCs, history
    <2> QED BY <2>1, OwedAnswering DEF Unperformed
  <1>8. CASE DenySave
    <2>1. /\ at = "deny_save" /\ at' = "next" /\ queue # <<>>
          /\ msgs' = msgs /\ live' = live /\ queue' = Tail(queue)
      BY <1>8 DEF DenySave, Goto, at, CallPCs, history
    <2>2. cur.id \in Answered(msgs)
      BY <2>1 DEF Owed
    <2>3. \A i \in DOMAIN queue : queue[i].id \in Answered(msgs) \/
             \E j \in DOMAIN queue' : queue'[j] = queue[i]
      BY <2>1, <2>2, TailCalls DEF TypeOK
    <2> QED BY <2>1, <2>3, StaysOwed DEF Downs
  <1>9. CASE Observe
    <2>1. /\ at = "observe" /\ at' \in {"next", "finish"} /\ queue # <<>>
          /\ msgs' = Append(msgs, Obs(cur, "ran")) /\ queue' = Tail(queue)
          /\ live' = live
      BY <1>9 DEF Observe, Goto, Finish, at, CallPCs, history
    <2> QED BY <2>1, OwedAnswering
  <1>10. CASE VerifyFailed
    <2>1. /\ at = "verify_failed" /\ at' = "loop" /\ queue' = <<>>
          /\ msgs' = Append(msgs, User) /\ live' = live
      BY <1>10 DEF VerifyFailed, Goto, at, history
    <2>2. queue # <<>> /\ cur.what = "VERIFY"
      BY <2>1 DEF Owed
    <2>3. \A i \in DOMAIN queue : queue[i].what = "VERIFY"
      BY <2>2, TailCalls DEF Truth, Lined, TypeOK
    <2> QED BY <2>1, <2>3, StaysOwed DEF Downs
  <1>11. CASE FinalAnswer /\ issued' = issued + 1
    <2>1. /\ pc = "final" /\ at = "final" /\ at' = "ask" /\ msgs' = msgs /\ live' = live
      BY <1>11 DEF FinalAnswer, Goto, at, history, TypeOK
    <2>2. queue = <<>>
      BY <2>1 DEF Truth, Lined, Idle
    <2> QED BY <2>1, <2>2, StaysOwed DEF Downs
  <1>12. CASE Exit \/ Crash \/ Refuse
    <2>1. live' = {} /\ at' = "down"
      BY <1>12 DEF Exit, Crash, Refuse, Forget, at
    <2> QED BY <2>1 DEF Owed
  <1>13. CASE Resume \/ Continue
    <2>1. /\ at = "validating" /\ at' = "reconcile" /\ live' = live
      BY <1>13 DEF Resume, Continue, Emit, at
    <2> QED BY <2>1 DEF Owed, Downs
  <1>14. CASE Reconcile
    <2>1. /\ at = "reconcile" /\ at' = "loop" /\ live' = live /\ queue' = queue
      BY <1>14 DEF Reconcile, Emit, Goto, at, history
    <2>2. Issued(msgs') = Issued(msgs) /\ Answered(msgs) \subseteq Answered(msgs')
      <3>1. CASE manifest.pending = NoCall
        <4>1. msgs' = msgs
          BY <1>14, <3>1 DEF Reconcile
        <4> QED BY <4>1
      <3>2. CASE manifest.pending # NoCall
        <4> DEFINE x == IF manifest.pending.what = "VERIFY" THEN User
                        ELSE Obs(manifest.pending, "abandoned")
        <4>1. manifest.pending \in Call
          BY <3>2 DEF Manifest
        <4>2. x \in Item /\ x.k # "call"
          BY <4>1, ItemsTyped DEF User, Obs, Unperformed
        <4>3. msgs' = Append(msgs, x)
          BY <1>14, <3>2 DEF Reconcile
        <4> HIDE DEF x
        <4> QED BY <4>2, <4>3, Appending
      <3> QED BY <3>1, <3>2
    <2> QED BY <2>1, <2>2, StaysOwed DEF Downs
  <1> QED BY <1>1, <1>2, <1>3, <1>4, <1>5, <1>6, <1>7, <1>8, <1>9, <1>10,
         <1>11, <1>12, <1>13, <1>14, CalmSteps

\* Within a process, no call that it issued reaches the model unanswered.
THEOREM CallsAnswered == Spec => []LiveCallsAnswered
  <1>1. Init => Owed
    BY TruthInit
  <1>2. Truth /\ Owed => LiveCallsAnswered
    BY DEF Truth, Lined, Idle, Owed, LiveCallsAnswered, at
  <1> QED BY <1>1, <1>2, OwedNext, TypeInvariant, TruthInvariant, PTL DEF Spec
=============================================================================
