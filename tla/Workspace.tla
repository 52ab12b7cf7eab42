------------------------------ MODULE Workspace ------------------------------
(***************************************************************************)
(* The workspace of one native session: its files, the tools that read and *)
(* edit them (ToolExecutor), transactions and their rollback, and the gate *)
(* a run passes before it may say "completed" (VerificationService).  The  *)
(* user, a subagent or a check may edit the same files between any two     *)
(* steps of a tool.                                                        *)
(*                                                                         *)
(* The contents of a file are a stamp; 0: there is no file.  A fingerprint *)
(* is what it is taken of, the contents of all files.  An edit gives       *)
(* contents that were never there before (only rollbacks bring contents    *)
(* back), and a new modification time.                                     *)
(***************************************************************************)
EXTENDS Integers, FiniteSets

CONSTANTS
    Files,      \* paths of the workspace
    Checks,     \* the task's verification commands
    MaxStamp,   \* bound: contents ever written
    MaxOps,     \* bound: tool operations
    MaxOutside, \* bound: edits by others
    MaxTurns    \* bound: user turns (the first, then continuations)

ASSUME WorkspaceAssumption ==
    /\ MaxStamp \in Nat \ {0} /\ MaxTurns \in Nat \ {0}
    /\ MaxOps \in Nat /\ MaxOutside \in Nat
    /\ IsFiniteSet(Files) /\ IsFiniteSet(Checks) /\ Checks # {}

VARIABLES
    files,      \* the workspace
    known,      \* ReadVersionStore.versions; 0: none
    cached,     \* files whose whole contents are in the read cache
    pc,         \* what the run is doing
    op,         \* the operation in progress
    txn,        \* the transaction in progress: its paths and their snapshot
    todo,       \* paths still to restore
    evidence,   \* VerificationCache.checked_workspaces
    verified,   \* TurnState.verified_workspace_fingerprint, {} for None
    changed,    \* TurnState.made_changes
    start,      \* verification_start_fingerprint; {} outside verify_all
    left, ok,   \* commands still to verify; whether all passed so far
    result,     \* how the turn ended, and the contents it spoke of
    stamps, ops, outs, turns,   \* the bounded counters
    passed,     \* history: which checks passed on which contents throughout
    reads,      \* history: contents of files that read_file has read whole
                \* in this turn, or that a replacement made of such contents
    putback,    \* history: contents not read that a rollback of this turn has
                \* put back, or that a replacement made of such contents
    raced       \* history: files others edited since the rollback put them
                \* back, or since the fingerprint of the final answer

tools == <<known, cached, op, txn, todo>>
gate == <<evidence, verified, changed, start, left, ok, result>>
bounds == <<stamps, ops, outs, turns>>
history == <<passed, reads, putback, raced>>
vars == <<files, pc, tools, gate, bounds, history>>

-----------------------------------------------------------------------------
Contents == 0..MaxStamp
Trees == [Files -> Contents]
Statuses == {"none", "no_changes", "verified", "failed", "cancelled"}
Kinds == {"none", "replace", "patch", "check"}
NoFile == "-"
NoTree == [f \in Files |-> 0]
NoOp == [kind |-> "none", on |-> NoFile, was |-> 0, new |-> 0,
         tree |-> NoTree, base |-> {}]
NoTxn == [on |-> FALSE, paths |-> {}, snap |-> NoTree]
NoResult == [status |-> "none", tree |-> NoTree]
\* The tree of a fresh clone: one file is missing, the others are there.
Base == [f \in Files |-> IF f = CHOOSE g \in Files : TRUE THEN 0 ELSE 1]

InTxn == txn.on

\* Mutant: the cache does not look at the modification time.
PutKeepsCache(f, c) == files' = [files EXCEPT ![f] = c] /\ UNCHANGED cached
\* Writing a file gives it a modification time the read cache does not know.
Put(f, c) == files' = [files EXCEPT ![f] = c] /\ cached' = cached \ {f}

\* A new edit of the harness.
Write(f) ==
    /\ stamps < MaxStamp /\ stamps' = stamps + 1
    /\ Put(f, stamps + 1)

\* A step of a transaction that fails rolls it back; an operation of its own
\* gives an observation, and a modification that succeeded is remembered.
Returns(good, modifies) ==
    /\ op' = NoOp
    /\ pc' = IF InTxn /\ ~good THEN "restore" ELSE "loop"
    /\ todo' = IF InTxn /\ ~good THEN txn.paths ELSE {}
    /\ changed' = (changed \/ (good /\ modifies /\ ~InTxn))
Starts(o, place) ==
    /\ pc = "loop" /\ ops < MaxOps
    /\ ops' = ops + 1
    /\ op' = o /\ pc' = place
Concluded(status, tree) ==
    /\ result' = [status |-> status, tree |-> tree]
    /\ pc' = "done"

\* Only a turn that completed is held to the contents it spoke of.
Ended(status) == Concluded(status, NoTree)
VerifyReturns == start' = {} /\ left' = {} /\ ok' = TRUE

\* _run_turns captures the fingerprint of the fresh clone; {} if it cannot.
Init ==
    /\ files = Base /\ known = NoTree /\ cached = {}
    /\ pc = "loop" /\ op = NoOp /\ txn = NoTxn /\ todo = {}
    /\ evidence = [c \in Checks |-> {}]
    /\ verified \in {{}, {Base}} /\ changed = FALSE
    /\ start = {} /\ left = {} /\ ok = TRUE /\ result = NoResult
    /\ stamps = 1 /\ ops = 0 /\ outs = 0 /\ turns = 1
    /\ passed = {} /\ reads = {} /\ putback = {} /\ raced = {}

-----------------------------------------------------------------------------
(* Reading *)

\* A cached file is "unchanged since last read" and not recorded again; a
\* whole read records its version.  Ranged and truncated reads record nothing.
\* A read counts as one also when its output is dropped, by the failure of the
\* transaction it is a step of.
ReadFile(f) ==
    /\ pc = "loop" /\ files[f] # 0
    /\ IF f \in cached THEN UNCHANGED <<known, cached>>
       ELSE known' = [known EXCEPT ![f] = files[f]] /\ cached' = cached \cup {f}
    /\ reads' = reads \cup {<<f, files[f]>>}
    /\ UNCHANGED <<files, pc, op, txn, todo, gate, bounds, passed, putback, raced>>

-----------------------------------------------------------------------------
(* replace_text, create_file and apply_patch *)

\* Mutant: any version that was ever read will do.
EverRead(f) == known[f] # 0
RequireCurrent(f) == known[f] = files[f]

\* The file is read and its version required to be the one last read; then
\* git is asked whether the file is tracked.
ReplaceReads(f) ==
    /\ files[f] # 0 /\ RequireCurrent(f)
    /\ InTxn => f \in txn.paths
    /\ Starts([NoOp EXCEPT !.kind = "replace", !.on = f, !.was = files[f]], "write")
    /\ UNCHANGED <<files, known, cached, txn, todo, gate, stamps, outs, turns, history>>

\* create_file, or a patch of an existing file: git apply --check.
PatchChecks(f) ==
    /\ InTxn => f \in txn.paths
    /\ Starts([NoOp EXCEPT !.kind = "patch", !.on = f, !.was = files[f]], "write")
    /\ UNCHANGED <<files, known, cached, txn, todo, gate, stamps, outs, turns, history>>

\* A replacement is computed from what was read; a patch applies to what is
\* there, or not at all.
WriteEdit ==
    /\ pc = "write"
    /\ op.kind = "patch" => files[op.on] = op.was
    /\ Write(op.on)
    /\ pc' = "review" /\ op' = [op EXCEPT !.new = stamps']
    /\ UNCHANGED <<known, txn, todo, gate, ops, outs, turns, history>>

EditRefused ==
    /\ pc = "write"
    /\ Returns(FALSE, TRUE)
    /\ UNCHANGED <<files, known, cached, txn, evidence, verified, start, left,
                   ok, result, bounds, history>>

\* What a replacement made of contents of this provenance.
Made(S) == IF op.kind = "replace" /\ <<op.on, op.was>> \in S
           THEN S \cup {<<op.on, op.new>>} ELSE S

\* A reviewable edit stands; a replacement then records what it wrote, also
\* when the file has changed again, and a patch records nothing.
EditAccepted ==
    /\ pc = "review"
    /\ known' = IF op.kind = "replace" THEN [known EXCEPT ![op.on] = op.new] ELSE known
    /\ reads' = Made(reads) /\ putback' = Made(putback)
    /\ Returns(TRUE, TRUE)
    /\ UNCHANGED <<files, cached, txn, evidence, verified, start, left, ok,
                   result, bounds, passed, raced>>

\* The edit is not reviewable, or its review ran out of time: a replacement
\* writes the original back over whatever is there; a patch is reversed if it
\* still can be.
EditUndone ==
    /\ pc = "review"
    /\ \/ /\ op.kind = "replace" \/ files[op.on] = op.new
          /\ Put(op.on, op.was)
       \/ UNCHANGED <<files, cached>>
    /\ Returns(FALSE, TRUE)
    /\ UNCHANGED <<known, txn, evidence, verified, start, left, ok, result,
                   bounds, history>>

-----------------------------------------------------------------------------
(* shell, run_check *)

\* A command edits any file, or none, whatever it returns; shell counts as
\* execution, not as a modification.
Shell(good) ==
    /\ pc = "loop" /\ ops < MaxOps /\ ops' = ops + 1
    /\ \/ \E f \in Files : Write(f)
       \/ UNCHANGED <<files, cached, stamps>>
    /\ Returns(good, FALSE)
    /\ UNCHANGED <<known, txn, evidence, verified, start, left, ok, result,
                   outs, turns, history>>

Pass(c, tree) == passed' = IF files = tree THEN passed \cup {<<c, tree>>} ELSE passed

\* begin_manual_check, for a call of its own: earlier evidence is dropped and
\* the fingerprint taken, unless it fails.  A check inside a transaction, or
\* one typed as a shell command, has no such frame.
RunCheck(c) ==
    /\ \E base \in {{}, {files}} :
         /\ InTxn => base = {}
         /\ Starts([NoOp EXCEPT !.kind = "check", !.on = c, !.tree = files,
                                !.base = base], "check")
    /\ evidence' = IF InTxn THEN evidence ELSE [evidence EXCEPT ![c] = {}]
    /\ UNCHANGED <<files, known, cached, txn, todo, verified, changed, start,
                   left, ok, result, stamps, outs, turns, history>>

CheckPasses ==
    /\ pc = "check"
    /\ Pass(op.on, op.tree)
    /\ pc' = "checked"
    /\ UNCHANGED <<files, tools, gate, bounds, reads, putback, raced>>

CheckFails ==
    /\ pc = "check"
    /\ Returns(FALSE, FALSE)
    /\ UNCHANGED <<files, known, cached, txn, evidence, verified, start, left,
                   ok, result, bounds, history>>

\* finish_manual_check: evidence for the contents that were there before and
\* are there after; the second fingerprint may fail too.
FinishCheck ==
    /\ pc = "checked"
    /\ evidence' \in {evidence} \cup
         (IF op.base = {files} THEN {[evidence EXCEPT ![op.on] = {files}]} ELSE {})
    /\ Returns(TRUE, FALSE)
    /\ UNCHANGED <<files, known, cached, txn, verified, start, left, ok, result,
                   bounds, history>>

-----------------------------------------------------------------------------
(* tool_transaction *)

\* The paths its editing steps name, in either branch, are captured first.
BeginTransaction(P) ==
    /\ ~InTxn
    /\ Starts(NoOp, "loop")
    /\ txn' = [on |-> TRUE, paths |-> P, snap |-> files]
    /\ UNCHANGED <<files, known, cached, todo, gate, stamps, outs, turns, history>>

EndTransaction ==
    /\ pc = "loop" /\ InTxn
    /\ txn' = NoTxn
    /\ changed' = TRUE
    /\ UNCHANGED <<files, pc, known, cached, op, todo, evidence, verified,
                   start, left, ok, result, bounds, history>>

\* A step that is refused without doing anything.
StepRefused ==
    /\ pc = "loop" /\ InTxn
    /\ Returns(FALSE, FALSE)
    /\ UNCHANGED <<files, known, cached, txn, evidence, verified, start, left,
                   ok, result, bounds, history>>

\* Mutant: the snapshots outlive the exception.
StepRaisesOpen ==
    /\ InTxn /\ pc \in {"loop", "write", "check"}
    /\ op' = NoOp
    /\ Ended("failed")
    /\ UNCHANGED <<files, known, cached, txn, todo, evidence, verified, changed,
                   start, left, ok, bounds, history>>

\* An exception the handler does not list: no rollback, and the run fails.
StepRaises ==
    /\ InTxn /\ pc \in {"loop", "write", "check"}
    /\ txn' = NoTxn /\ op' = NoOp
    /\ Ended("failed")
    /\ UNCHANGED <<files, known, cached, todo, evidence, verified, changed,
                   start, left, ok, bounds, history>>

\* Contents that are put back without ever having been read.
PutBack(f) ==
    putback' = putback \cup IF txn.snap[f] = 0 THEN {} ELSE {<<f, txn.snap[f]>>} \ reads

\* Mutant: the version store still holds what the transaction recorded.
RestoreKeepsVersion(f) ==
    /\ pc = "restore" /\ f \in todo
    /\ Put(f, txn.snap[f])
    /\ todo' = todo \ {f}
    /\ raced' = raced \ {f} /\ PutBack(f)
    /\ UNCHANGED <<known, pc, op, txn, gate, bounds, passed, reads>>

\* One path after the other: written and recorded, whether or not it was ever
\* read, or removed and forgotten.
Restore(f) ==
    /\ pc = "restore" /\ f \in todo
    /\ Put(f, txn.snap[f])
    /\ known' = [known EXCEPT ![f] = txn.snap[f]]
    /\ todo' = todo \ {f}
    /\ raced' = raced \ {f} /\ PutBack(f)
    /\ UNCHANGED <<pc, op, txn, gate, bounds, passed, reads>>

RolledBack ==
    /\ pc = "restore" /\ todo = {}
    /\ txn' = NoTxn /\ pc' = "loop" /\ raced' = {}
    /\ UNCHANGED <<files, known, cached, op, todo, gate, bounds, passed, reads,
                   putback>>

\* "tool transaction failed and rollback failed": the rest stays as it is; the
\* write that failed may have replaced its file.
RollbackFails ==
    /\ pc = "restore" /\ todo # {}
    /\ \/ \E f \in todo : Put(f, txn.snap[f])
       \/ UNCHANGED <<files, cached>>
    /\ txn' = NoTxn /\ pc' = "loop" /\ todo' = {} /\ raced' = {}
    /\ UNCHANGED <<known, op, gate, bounds, passed, reads, putback>>

-----------------------------------------------------------------------------
(* The final answer *)

\* Cancelled, out of steps or of time, or an error of the engine.
GiveUp(status) ==
    /\ pc = "loop" /\ ~InTxn
    /\ Ended(status)
    /\ UNCHANGED <<files, tools, evidence, verified, changed, start, left, ok,
                   bounds, history>>

\* Mutant: only successful modifications count as changes.
FinalAnswerByFlag ==
    /\ pc = "loop" /\ ~InTxn
    /\ UNCHANGED changed
    /\ pc' = IF changed THEN "gate" ELSE "closing"
    /\ UNCHANGED <<files, tools, evidence, verified, start, left, ok, result,
                   bounds, history>>

\* Nothing to verify only if no modification succeeded and the fingerprint is
\* readable and the verified one.
FinalAnswer ==
    /\ pc = "loop" /\ ~InTxn
    /\ \E now \in {{}, {files}} : changed' = (changed \/ now = {} \/ now # verified)
    /\ pc' = IF changed' THEN "gate" ELSE "closing"
    /\ UNCHANGED <<files, tools, evidence, verified, start, left, ok, result,
                   bounds, history>>

\* The memory of the session is extracted in a thread, then the patch is
\* collected, if it can be: nobody looks at the fingerprint again.
ReportUnchanged ==
    /\ pc = "closing"
    /\ Concluded("no_changes", files) \/ Ended("failed")
    /\ UNCHANGED <<files, tools, evidence, verified, changed, start, left, ok,
                   bounds, history>>

\* verify_all fingerprints what it starts from, or raises.
VerifyBegins ==
    /\ pc = "gate"
    /\ \/ /\ pc' = "verify" /\ UNCHANGED result
          /\ start' = {files} /\ left' = Checks
       \/ Ended("failed") /\ UNCHANGED <<start, left>>
    /\ UNCHANGED <<files, tools, evidence, verified, changed, ok, bounds, history>>

\* Evidence for contents that are there now and were there at the start.
ReuseEvidence(c) ==
    /\ pc = "verify" /\ c \in left
    /\ evidence[c] = {files} /\ start = {files}
    /\ left' = left \ {c}
    /\ UNCHANGED <<files, pc, tools, evidence, verified, changed, start, ok,
                   result, bounds, history>>

\* Approved and started, when there is no such evidence.
VerifyRuns(c) ==
    /\ pc = "verify" /\ c \in left
    /\ ~(evidence[c] = {files} /\ start = {files})
    /\ op' = [NoOp EXCEPT !.kind = "check", !.on = c, !.tree = files]
    /\ left' = left \ {c}
    /\ pc' = "verifying"
    /\ UNCHANGED <<files, known, cached, txn, todo, evidence, verified, changed,
                   start, ok, result, bounds, history>>

VerifyDenied(c) ==
    /\ pc = "verify" /\ c \in left
    /\ left' = left \ {c} /\ ok' = FALSE
    /\ UNCHANGED <<files, pc, tools, evidence, verified, changed, start,
                   result, bounds, history>>

VerifyEnds(good) ==
    /\ pc = "verifying"
    /\ IF good THEN Pass(op.on, op.tree) ELSE UNCHANGED passed
    /\ ok' = (ok /\ good)
    /\ op' = NoOp /\ pc' = "verify"
    /\ UNCHANGED <<files, known, cached, txn, todo, evidence, verified, changed,
                   start, left, result, bounds, reads, putback, raced>>

\* Mutant: the fingerprint after the commands is taken as verified.
PersistUnchecked ==
    /\ pc = "verify" /\ left = {}
    /\ verified' = IF ok THEN {files} ELSE {}
    /\ pc' = IF ok THEN "collect" ELSE "loop"
    /\ VerifyReturns
    /\ UNCHANGED <<files, tools, evidence, changed, result, bounds, history>>

\* persist: verified only if the fingerprint after the last command is the one
\* before the first; else the run fails.  Failing commands go to the model.
Persist ==
    /\ pc = "verify" /\ left = {}
    /\ verified' = IF ok /\ start = {files} THEN {files} ELSE {}
    /\ IF ok /\ start # {files} THEN Ended("failed")
       ELSE pc' = (IF ok THEN "collect" ELSE "loop") /\ UNCHANGED result
    /\ VerifyReturns
    /\ UNCHANGED <<files, tools, evidence, changed, bounds, history>>

\* verify_all is cancelled, out of time, or cannot read the fingerprint.
\* Cancelled after a command, it first persists what it has.
VerifyStops(status) ==
    /\ pc = "verify"
    /\ Ended(status)
    /\ verified' \in {verified, IF left = {} /\ ok /\ start = {files} THEN {files} ELSE {}}
    /\ VerifyReturns
    /\ UNCHANGED <<files, tools, evidence, changed, bounds, history>>

\* The patch is collected before the review lane and the last fingerprint.
CollectPatch ==
    /\ pc = "collect"
    /\ result' = [result EXCEPT !.tree = files]
    /\ pc' = "confirm"
    /\ UNCHANGED <<files, tools, evidence, verified, changed, start, left, ok,
                   bounds, history>>

\* Unreadable, out of budget, or changed since: the run fails.
Confirm ==
    /\ pc = "confirm"
    /\ \/ Ended("failed") /\ UNCHANGED verified
       \/ verified # {files} /\ Ended("failed") /\ verified' = {}
       \/ /\ verified = {files}
          /\ Concluded("verified", result.tree) /\ UNCHANGED verified
    /\ UNCHANGED <<files, tools, evidence, changed, start, left, ok, bounds, history>>

\* _open_continuation: a new executor has read nothing; the evidence is that
\* of the runner, which may be the same object or a new one.
Continue ==
    /\ pc = "done" /\ turns < MaxTurns
    /\ turns' = turns + 1
    /\ pc' = "loop" /\ result' = NoResult
    /\ known' = NoTree /\ cached' = {} /\ op' = NoOp /\ txn' = NoTxn /\ todo' = {}
    /\ evidence' \in {evidence, [c \in Checks |-> {}]}
    /\ \E now \in {{}, {files}} : changed' = (now = {} \/ now # verified)
    /\ reads' = {} /\ putback' = {} /\ raced' = {}
    /\ UNCHANGED <<files, verified, start, left, ok, stamps, ops, outs, passed>>

-----------------------------------------------------------------------------
\* The user, a subagent, a formatter run by a check.
Outside(f) ==
    /\ outs < MaxOutside /\ stamps < MaxStamp
    /\ outs' = outs + 1 /\ stamps' = stamps + 1
    /\ Put(f, stamps + 1)
    /\ raced' = IF pc \in {"restore", "closing"} THEN raced \cup {f} ELSE raced
    /\ UNCHANGED <<pc, known, op, txn, todo, gate, ops, turns, passed, reads, putback>>

Next ==
    \/ \E f \in Files : ReadFile(f) \/ ReplaceReads(f) \/ PatchChecks(f)
    \/ WriteEdit \/ EditRefused \/ EditAccepted \/ EditUndone
    \/ \E good \in BOOLEAN : Shell(good) \/ VerifyEnds(good)
    \/ \E c \in Checks : RunCheck(c) \/ ReuseEvidence(c) \/ VerifyRuns(c) \/ VerifyDenied(c)
    \/ CheckPasses \/ CheckFails \/ FinishCheck
    \/ \E P \in SUBSET Files : BeginTransaction(P)
    \/ EndTransaction \/ StepRefused \/ StepRaises
    \/ \E f \in Files : Restore(f)
    \/ RolledBack \/ RollbackFails
    \/ FinalAnswer \/ ReportUnchanged \/ VerifyBegins \/ Persist \/ CollectPatch \/ Confirm
    \/ \E status \in {"failed", "cancelled"} : VerifyStops(status) \/ GiveUp(status)
    \/ Continue
    \/ \E f \in Files : Outside(f)

Spec == Init /\ [][Next]_vars

-----------------------------------------------------------------------------
(* Properties *)

Optional == {{}} \cup {{t} : t \in Trees}
PassedAll(tree) == \A c \in Checks : <<c, tree>> \in passed

\* Every variable has its type, and a tool's frame is there exactly while the
\* tool runs.
TypeOK ==
    /\ files \in Trees /\ known \in Trees /\ cached \subseteq Files
    /\ pc \in {"loop", "write", "review", "check", "checked", "restore",
              "closing", "gate", "verify", "verifying", "collect", "confirm",
              "done"}
    /\ op.kind \in Kinds /\ op.was \in Contents /\ op.new \in Contents
    /\ pc \in {"write", "review"} => op.kind \in {"replace", "patch"} /\ op.on \in Files
    /\ pc \in {"check", "checked", "verifying"} => op.kind = "check" /\ op.on \in Checks
    /\ pc \notin {"write", "review", "check", "checked", "verifying"} => op = NoOp
    /\ op.tree \in Trees /\ op.base \in Optional
    /\ txn \in [on : BOOLEAN, paths : SUBSET Files, snap : Trees]
    /\ pc \in {"closing", "gate", "verify", "verifying", "collect", "confirm", "done"} => ~InTxn
    /\ todo \subseteq txn.paths
    /\ evidence \in [Checks -> Optional] /\ verified \in Optional
    /\ changed \in BOOLEAN /\ start \in Optional
    /\ left \subseteq Checks /\ ok \in BOOLEAN
    /\ result.status \in Statuses /\ result.tree \in Trees
    /\ stamps \in Contents /\ ops \in 0..MaxOps
    /\ outs \in 0..MaxOutside /\ turns \in 0..MaxTurns
    /\ passed \subseteq Checks \X Trees
    /\ reads \subseteq Files \X Contents /\ putback \subseteq Files \X Contents
    /\ raced \subseteq Files

\* A run completed as verified reports a patch whose contents passed every
\* check: with reused evidence, with commands that ran one after another, and
\* whoever edited files during or after them.
VerifiedIsPassed == result.status = "verified" => PassedAll(result.tree)

\* A turn that ends with nothing to verify reports the workspace it was given
\* or one that passed every check, also after failed tools, shell commands,
\* rollbacks and earlier turns, but for the files others edited after the last
\* fingerprint, before the patch was collected.
UntouchedIsTrusted ==
    result.status = "no_changes" =>
        \E tree \in verified :
            /\ tree = Base \/ PassedAll(tree)
            /\ \A f \in Files \ raced : result.tree[f] = tree[f]

\* "File unchanged since last read" does not record the version again, so a
\* file that is answered so has its version recorded: otherwise replace_text
\* would ask for a read that can never satisfy it.
RereadArms == \A f \in cached : known[f] = files[f]

\* A replacement writes over contents that were not read (an edit of others, or
\* what a command of its own left) only if they came after the replacement had
\* read the file, or if a rollback had put those contents back.
UnseenEditsSurvive ==
    [][pc = "write" /\ pc' = "review" /\ op.kind = "replace"
         /\ <<op.on, files[op.on]>> \notin reads \cup putback
         => files[op.on] # op.was]_vars

\* A transaction that reports "failed and rolled back touched paths" has put
\* them back, unless others wrote them since; and their versions are those of
\* the contents put back, so a replacement cannot start from what was undone.
FailedTransactionUndone ==
    [][pc = "restore" /\ pc' = "loop" /\ todo = {} =>
         \A f \in txn.paths :
            known[f] = txn.snap[f] /\ (f \in raced \/ files[f] = txn.snap[f])]_vars
=============================================================================
