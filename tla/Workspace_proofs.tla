-------------------------- MODULE Workspace_proofs --------------------------
(***************************************************************************)
(* What the tools and the gate guarantee for any files, checks and bounds. *)
(* The argument: every edit gives contents that were never there, so       *)
(* contents that were seen before and are there now were there all along,  *)
(* or were put back by a rollback, which also puts back their versions.    *)
(***************************************************************************)
EXTENDS Workspace, TLAPS

\* What a tool that runs remembers.
Frames == [kind : Kinds, on : Files \cup Checks \cup {NoFile}, was : Contents,
           new : Contents, tree : Trees, base : Optional]

\* What the run can be doing.
Places == {"loop", "write", "review", "check", "checked", "restore", "closing",
           "gate", "verify", "verifying", "collect", "confirm", "done"}

\* What the run holds, with the frames of its tools and of a transaction.
Typed ==
    /\ files \in Trees /\ known \in Trees /\ cached \subseteq Files
    /\ pc \in Places
    /\ op \in Frames
    /\ txn \in [on : BOOLEAN, paths : SUBSET Files, snap : Trees]
    /\ todo \subseteq txn.paths
    /\ evidence \in [Checks -> Optional] /\ verified \in Optional
    /\ changed \in BOOLEAN /\ start \in Optional
    /\ left \subseteq Checks /\ ok \in BOOLEAN
    /\ result \in [status : Statuses, tree : Trees]
    /\ stamps \in Contents /\ ops \in 0..MaxOps
    /\ outs \in 0..MaxOutside /\ turns \in 0..MaxTurns
    /\ passed \subseteq Checks \X Trees
    /\ raced \subseteq Files

\* A tool's frame is there exactly while the tool runs, the paths to restore
\* while a transaction is rolled back, and no transaction in the gate.
Framed ==
    /\ pc \in {"write", "review"} => op.kind \in {"replace", "patch"} /\ op.on \in Files
    /\ pc \in {"check", "checked", "verifying"} => op.kind = "check" /\ op.on \in Checks
    /\ pc \notin {"write", "review", "check", "checked", "verifying"} => op = NoOp
    /\ pc \in {"closing", "gate", "verify", "verifying", "collect", "confirm", "done"}
          => ~InTxn
    /\ pc # "restore" => todo = {}
    /\ pc # "done" => result.status = "none"

\* Contents there were are not ahead of the counter, so new ones are new.
Past(n) == [Files -> 0..n]
Stamped ==
    /\ stamps >= 1
    /\ files \in Past(stamps) /\ known \in Past(stamps)
    /\ op.was \in 0..stamps /\ op.new \in 0..stamps
    /\ op.tree \in Past(stamps) /\ txn.snap \in Past(stamps)
    /\ verified \subseteq Past(stamps) /\ start \subseteq Past(stamps)

\* A version that is recorded, and what a replacement has read, are of contents
\* that were read or that a rollback put back.
Known(f, c) == <<f, c>> \in reads \cup putback
Provenance ==
    /\ \A f \in Files : known[f] # 0 => Known(f, known[f])
    /\ pc \in {"write", "review"} /\ op.kind = "replace" => Known(op.on, op.was)
    /\ reads \subseteq Files \X Contents /\ putback \subseteq Files \X Contents

\* A file in the read cache is as it was recorded; one under review is not there.
Cached == RereadArms /\ (pc = "review" => op.on \notin cached)

\* The paths no longer to restore are restored, versions too.
Restored == pc = "restore" => \A f \in txn.paths \ todo :
    known[f] = txn.snap[f] /\ (f \in raced \/ files[f] = txn.snap[f])

\* Evidence is of contents on which the check passed throughout.
Evident ==
    /\ \A c \in Checks : \A t \in evidence[c] : <<c, t>> \in passed
    /\ pc \in {"check", "checked"} => \A t \in op.base : op.tree = t
    /\ pc = "checked" /\ files = op.tree => <<op.on, op.tree>> \in passed

\* While verify_all runs: if the contents are still those of the start, the
\* checks that are through, and did not fail, passed on them.
Verifying ==
    /\ pc \in {"verify", "verifying"} => start # {}
    /\ pc = "verifying" => \A t \in start : files = t => op.tree = t
    /\ pc \in {"verify", "verifying"} /\ ok => \A t \in start : files = t =>
          \A c \in Checks \ left :
              (pc = "verifying" /\ c = op.on) \/ <<c, t>> \in passed

\* What is taken as verified was the base or passed every check, after the
\* gate the latter; and the patch is of those contents, if they are still there.
Trusted ==
    /\ \A t \in verified : t = Base \/ PassedAll(t)
    /\ pc \in {"collect", "confirm"} => verified # {} /\ \A t \in verified : PassedAll(t)
    /\ pc = "confirm" => \A t \in verified : files = t => result.tree = t
    /\ pc = "closing" => /\ verified # {}
                         /\ \A t \in verified : \A f \in Files \ raced : files[f] = t[f]
    /\ VerifiedIsPassed /\ UntouchedIsTrusted

Inv == /\ Typed /\ Framed /\ Stamped /\ Provenance /\ Cached /\ Restored
       /\ Evident /\ Verifying /\ Trusted

-----------------------------------------------------------------------------
(* The operators of the model *)

\* The bounds, conjunct by conjunct.
LEMMA Bounded ==
    /\ MaxStamp \in Nat /\ MaxStamp >= 1 /\ MaxOps \in Nat /\ MaxOutside \in Nat
    /\ MaxTurns \in Nat /\ MaxTurns >= 1
  BY WorkspaceAssumption DEF WorkspaceAssumption

\* Trees are closed under writing a file.
LEMMA TreeFacts ==
    /\ NoTree \in Trees /\ Base \in Trees
    /\ \A t \in Trees, f \in Files : t[f] \in Contents
    /\ \A t \in Trees, f \in Files, c \in Contents : [t EXCEPT ![f] = c] \in Trees
  BY Bounded DEF Trees, NoTree, Base, Contents

\* A stamp below the bound has a next one.
LEMMA StampFacts ==
    \A n \in Contents : n < MaxStamp => n + 1 \in Contents
  BY Bounded DEF Contents

\* One tree, or none.
LEMMA OptionalFacts ==
    /\ {} \in Optional
    /\ \A t \in Trees : {t} \in Optional
    /\ \A s \in Optional : s \subseteq Trees
    /\ \A s \in Optional : \A t \in s : s = {t}
  BY DEF Optional

\* The frames of the tools: what they are of, and how they are made.
LEMMA FrameFacts ==
    /\ NoOp \in Frames /\ NoOp.kind = "none" /\ NoOp.was = 0 /\ NoOp.new = 0
    /\ NoOp.tree = NoTree /\ NoOp.base = {}
    /\ \A o \in Frames : /\ o.was \in Contents /\ o.new \in Contents
                         /\ o.tree \in Trees /\ o.base \in Optional
  BY Bounded, TreeFacts, OptionalFacts DEF Frames, NoOp, Kinds, Contents

EditOp(k, f, n) ==
    [kind |-> k, on |-> f, was |-> n, new |-> 0, tree |-> NoTree, base |-> {}]

CheckOp(c, t, b) ==
    [kind |-> "check", on |-> c, was |-> 0, new |-> 0, tree |-> t, base |-> b]

\* The frame of an edit that begins.
LEMMA EditFrame ==
    ASSUME NEW f \in Files, NEW n \in Contents, NEW k \in {"replace", "patch"}
    PROVE  EditOp(k, f, n) \in Frames
  <1>1. k \in Kinds /\ 0 \in Contents
    BY Bounded DEF Kinds, Contents
  <1>2. NoTree \in Trees /\ {} \in Optional
    BY TreeFacts, OptionalFacts
  <1> QED BY <1>1, <1>2 DEF Frames, EditOp

\* The frame of an edit once it has written its file.
LEMMA WrittenFrame ==
    ASSUME NEW o \in Frames, NEW n \in Contents, NEW p, p = [o EXCEPT !.new = n]
    PROVE  /\ p \in Frames /\ p.new = n /\ p.kind = o.kind /\ p.on = o.on
           /\ p.was = o.was /\ p.tree = o.tree /\ p.base = o.base
  BY DEF Frames

\* The frame of a check.
LEMMA CheckFrame ==
    ASSUME NEW c \in Checks, NEW t \in Trees, NEW b \in Optional
    PROVE  CheckOp(c, t, b) \in Frames
  BY Bounded DEF Frames, Kinds, Contents, CheckOp

\* What a turn ends with.
LEMMA ResultFacts ==
    /\ NoResult \in [status : Statuses, tree : Trees]
    /\ \A s \in Statuses, t \in Trees :
          [status |-> s, tree |-> t] \in [status : Statuses, tree : Trees]
    /\ {"none", "no_changes", "verified", "failed", "cancelled"} = Statuses
  BY TreeFacts DEF NoResult, Statuses

\* No transaction, and one that begins.
LEMMA TxnFacts ==
    /\ NoTxn \in [on : BOOLEAN, paths : SUBSET Files, snap : Trees]
    /\ NoTxn.on = FALSE /\ NoTxn.paths = {} /\ NoTxn.snap = NoTree
    /\ \A P \in SUBSET Files, t \in Trees :
          [on |-> TRUE, paths |-> P, snap |-> t]
              \in [on : BOOLEAN, paths : SUBSET Files, snap : Trees]
  BY TreeFacts DEF NoTxn


\* Trees of contents that were written by some time.
LEMMA PastFacts ==
    ASSUME NEW n \in Nat
    PROVE  /\ NoTree \in Past(n) /\ 0 \in 0..n
           /\ n >= 1 => Base \in Past(n)
           /\ \A t \in Past(n), f \in Files : t[f] \in 0..n
           /\ \A t \in Past(n), f \in Files, c \in 0..n :
                 [t EXCEPT ![f] = c] \in Past(n)
  BY DEF Past, NoTree, Base

\* What was written by then was written by later times.
LEMMA PastGrows ==
    ASSUME NEW n \in Nat, NEW m \in Nat, n <= m
    PROVE  Past(n) \subseteq Past(m) /\ 0..n \subseteq 0..m
  <1>1. 0..n \subseteq 0..m
    OBVIOUS
  <1> QED BY <1>1 DEF Past

\* Writing a file leaves the others alone, and takes it out of the cache.
LEMMA PutFacts ==
    ASSUME files \in Trees, NEW f \in Files, NEW c \in Contents, Put(f, c)
    PROVE  /\ files' = [files EXCEPT ![f] = c] /\ files' \in Trees
           /\ files'[f] = c /\ \A g \in Files \ {f} : files'[g] = files[g]
           /\ cached' = cached \ {f}
  BY DEF Put, Trees

\* Contents nobody has seen: no earlier tree has them.
LEMMA NewContents ==
    ASSUME NEW n \in Nat, NEW f \in Files, files' \in Trees, files'[f] = n + 1
    PROVE  files' \notin Past(n)
  <1> SUFFICES ASSUME files' \in Past(n)
               PROVE  FALSE
    OBVIOUS
  <1>1. files'[f] \in 0..n
    BY PastFacts
  <1> QED BY <1>1
-----------------------------------------------------------------------------
(* Each part of the invariant is kept by every step *)

\* The variables keep their types.
LEMMA TypedStep ==
    ASSUME Inv, [Next]_vars
    PROVE  Typed'
  <1>0. Typed /\ Framed
    BY DEF Inv
  <1>1. ASSUME NEW f \in Files, ReadFile(f)
        PROVE  Typed'
    <2>1. known' \in Trees
      <3>1. files \in Trees /\ known \in Trees
        BY <1>0 DEF Typed
      <3>2. known' = known \/ known' = [known EXCEPT ![f] = files[f]]
        BY <1>1 DEF ReadFile
      <3> QED BY <3>1, <3>2, TreeFacts
    <2>2. cached' \subseteq Files
      BY <1>0, <1>1 DEF Typed, Framed, ReadFile, gate, bounds
    <2>4. UNCHANGED <<files, pc, op, txn, todo, evidence, verified, changed,
                      start, left, ok, result, stamps, ops, outs, turns,
                      passed, raced>>
      BY <1>1 DEF ReadFile, gate, bounds
    <2> QED BY <1>0, <2>1, <2>2, <2>4 DEF Typed
  <1>2. ASSUME NEW f \in Files, ReplaceReads(f)
        PROVE  Typed'
    <2>1. pc' \in Places
      BY <1>0, <1>2 DEF Typed, Places, Framed, ReplaceReads, Starts, RequireCurrent,
         InTxn, gate, history
    <2>2. op' \in Frames
      <3>1. files[f] \in Contents
        BY <1>0, TreeFacts DEF Typed
      <3>2. op' = EditOp("replace", f, files[f])
        BY <1>2 DEF ReplaceReads, Starts, EditOp, NoOp
      <3> QED BY <3>1, <3>2, EditFrame
    <2>3. ops' \in 0..MaxOps
      <3>1. ops \in 0..MaxOps /\ ops < MaxOps /\ ops' = ops + 1
        BY <1>0, <1>2 DEF Typed, ReplaceReads, Starts
      <3> QED BY <3>1, Bounded
    <2>4. UNCHANGED <<files, known, cached, txn, todo, evidence, verified,
                      changed, start, left, ok, result, stamps, outs, turns,
                      passed, raced>>
      BY <1>2 DEF ReplaceReads, Starts, RequireCurrent, InTxn, gate, history
    <2> QED BY <1>0, <2>1, <2>2, <2>3, <2>4 DEF Typed
  <1>3. ASSUME NEW f \in Files, PatchChecks(f)
        PROVE  Typed'
    <2>1. pc' \in Places
      BY <1>0, <1>3 DEF Typed, Places, Framed, PatchChecks, Starts, InTxn, gate, history
    <2>2. op' \in Frames
      <3>1. files[f] \in Contents
        BY <1>0, TreeFacts DEF Typed
      <3>2. op' = EditOp("patch", f, files[f])
        BY <1>3 DEF PatchChecks, Starts, EditOp, NoOp
      <3> QED BY <3>1, <3>2, EditFrame
    <2>3. ops' \in 0..MaxOps
      <3>1. ops \in 0..MaxOps /\ ops < MaxOps /\ ops' = ops + 1
        BY <1>0, <1>3 DEF Typed, PatchChecks, Starts
      <3> QED BY <3>1, Bounded
    <2>4. UNCHANGED <<files, known, cached, txn, todo, evidence, verified,
                      changed, start, left, ok, result, stamps, outs, turns,
                      passed, raced>>
      BY <1>3 DEF PatchChecks, Starts, InTxn, gate, history
    <2> QED BY <1>0, <2>1, <2>2, <2>3, <2>4 DEF Typed
  <1>4. ASSUME WriteEdit
        PROVE  Typed'
    <2>1. stamps' \in Contents
      BY <1>0, <1>4, StampFacts DEF Typed, Framed, WriteEdit, Write, Put, gate, history
    <2>2. files' \in Trees
      BY <1>0, <1>4, TreeFacts, StampFacts DEF Typed, Framed, WriteEdit, Write,
         Put, gate, history
    <2>3. pc' \in Places
      BY <1>0, <1>4 DEF Typed, Places, Framed, WriteEdit, Write, Put, gate, history
    <2>4. cached' \subseteq Files
      BY <1>0, <1>4 DEF Typed, Framed, WriteEdit, Write, Put, gate, history
    <2>5. op' \in Frames
      <3>1. stamps' \in Contents /\ op' = [op EXCEPT !.new = stamps'] /\ op \in Frames
        BY <1>0, <1>4, <2>1 DEF Typed, WriteEdit
      <3> QED BY <3>1, WrittenFrame
    <2>7. UNCHANGED <<known, txn, todo, evidence, verified, changed, start,
                      left, ok, result, ops, outs, turns, passed, raced>>
      BY <1>4 DEF WriteEdit, Write, Put, gate, history
    <2> QED BY <1>0, <2>1, <2>2, <2>3, <2>4, <2>5, <2>7 DEF Typed
  <1>5. ASSUME EditRefused
        PROVE  Typed'
    <2>1. pc' \in Places
      BY <1>0, <1>5 DEF Typed, Places, Framed, EditRefused, Returns, InTxn, bounds,
         history
    <2>2. op' \in Frames
      BY <1>0, <1>5, FrameFacts DEF Typed, Framed, EditRefused, Returns, InTxn,
         bounds, history
    <2>3. todo' \subseteq txn'.paths
      BY <1>0, <1>5, TxnFacts DEF Typed, Framed, EditRefused, Returns, InTxn,
         bounds, history
    <2>4. changed' \in BOOLEAN
      BY <1>0, <1>5 DEF Typed, Framed, EditRefused, Returns, InTxn, bounds,
         history
    <2>5. UNCHANGED <<files, known, cached, txn, evidence, verified, start,
                      left, ok, result, stamps, ops, outs, turns, passed, raced>>
      BY <1>5 DEF EditRefused, Returns, InTxn, bounds, history
    <2> QED BY <1>0, <2>1, <2>2, <2>3, <2>4, <2>5 DEF Typed
  <1>6. ASSUME EditAccepted
        PROVE  Typed'
    <2>1. pc' \in Places
      BY <1>0, <1>6 DEF Typed, Places, Framed, EditAccepted, Returns, InTxn, bounds,
         history
    <2>2. known' \in Trees
      BY <1>0, <1>6, TreeFacts, FrameFacts DEF Typed, Framed, EditAccepted,
         Returns, InTxn, bounds, history
    <2>3. op' \in Frames
      BY <1>0, <1>6, FrameFacts DEF Typed, Framed, EditAccepted, Returns,
         InTxn, bounds, history
    <2>4. todo' \subseteq txn'.paths
      BY <1>0, <1>6, TxnFacts DEF Typed, Framed, EditAccepted, Returns, InTxn,
         bounds, history
    <2>5. changed' \in BOOLEAN
      BY <1>0, <1>6 DEF Typed, Framed, EditAccepted, Returns, InTxn, bounds,
         history
    <2>6. UNCHANGED <<files, cached, txn, evidence, verified, start, left, ok,
                      result, stamps, ops, outs, turns, passed,
                      raced>>
      BY <1>6 DEF EditAccepted, Returns, InTxn, bounds, history
    <2> QED BY <1>0, <2>1, <2>2, <2>3, <2>4, <2>5, <2>6 DEF Typed
  <1>7. ASSUME EditUndone
        PROVE  Typed'
    <2>1. files' \in Trees
      <3>1. files \in Trees /\ op.was \in Contents /\ op.on \in Files
        BY <1>0, <1>7, FrameFacts DEF Typed, Framed, EditUndone
      <3>2. files' = files \/ files' = [files EXCEPT ![op.on] = op.was]
        BY <1>7 DEF EditUndone, Put
      <3> QED BY <3>1, <3>2, TreeFacts
    <2>2. pc' \in Places
      BY <1>0, <1>7 DEF Typed, Places, Framed, EditUndone, Returns, InTxn, Put, bounds, history
    <2>3. cached' \subseteq Files
      BY <1>0, <1>7 DEF Typed, Framed, EditUndone, Returns, InTxn, Put, bounds, history
    <2>4. op' \in Frames
      BY <1>0, <1>7, FrameFacts DEF Typed, Framed, EditUndone, Returns, InTxn,
         Put, bounds, history
    <2>5. todo' \subseteq txn'.paths
      BY <1>0, <1>7, TxnFacts DEF Typed, Framed, EditUndone, Returns, InTxn,
         Put, bounds, history
    <2>6. changed' \in BOOLEAN
      BY <1>0, <1>7 DEF Typed, Framed, EditUndone, Returns, InTxn, Put, bounds, history
    <2>8. UNCHANGED <<known, txn, evidence, verified, start, left, ok, result,
                      stamps, ops, outs, turns, passed, raced>>
      BY <1>7 DEF EditUndone, Returns, InTxn, Put, bounds, history
    <2> QED BY <1>0, <2>1, <2>2, <2>3, <2>4, <2>5, <2>6, <2>8 DEF Typed
  <1>8. ASSUME NEW good \in BOOLEAN, Shell(good)
        PROVE  Typed'
    <2>1. files' \in Trees
      BY <1>0, <1>8, TreeFacts, StampFacts DEF Typed, Framed, Shell, Returns,
         InTxn, Write, Put, history
    <2>2. pc' \in Places
      BY <1>0, <1>8 DEF Typed, Places, Framed, Shell, Returns, InTxn, Write, Put,
         history
    <2>3. cached' \subseteq Files
      BY <1>0, <1>8 DEF Typed, Framed, Shell, Returns, InTxn, Write, Put,
         history
    <2>4. op' \in Frames
      BY <1>0, <1>8, FrameFacts DEF Typed, Framed, Shell, Returns, InTxn,
         Write, Put, history
    <2>5. todo' \subseteq txn'.paths
      BY <1>0, <1>8, TxnFacts DEF Typed, Framed, Shell, Returns, InTxn, Write,
         Put, history
    <2>6. changed' \in BOOLEAN
      BY <1>0, <1>8 DEF Typed, Framed, Shell, Returns, InTxn, Write, Put,
         history
    <2>7. stamps' \in Contents
      BY <1>0, <1>8, StampFacts DEF Typed, Framed, Shell, Returns, InTxn,
         Write, Put, history
    <2>8. ops' \in 0..MaxOps
      <3>1. ops \in 0..MaxOps /\ ops < MaxOps /\ ops' = ops + 1
        BY <1>0, <1>8 DEF Typed, Shell
      <3> QED BY <3>1, Bounded
    <2>9. UNCHANGED <<known, txn, evidence, verified, start, left, ok, result,
                      outs, turns, passed, raced>>
      BY <1>8 DEF Shell, Returns, InTxn, Write, Put, history
    <2> QED BY <1>0, <2>1, <2>2, <2>3, <2>4, <2>5, <2>6, <2>7, <2>8, <2>9 DEF
           Typed
  <1>9. ASSUME NEW good \in BOOLEAN, VerifyEnds(good)
        PROVE  Typed'
    <2>1. pc' \in Places
      BY <1>0, <1>9 DEF Typed, Places, Framed, VerifyEnds, Pass, bounds
    <2>2. op' \in Frames
      BY <1>0, <1>9, FrameFacts DEF Typed, Framed, VerifyEnds, Pass, bounds
    <2>3. ok' \in BOOLEAN
      BY <1>0, <1>9 DEF Typed, Framed, VerifyEnds, Pass, bounds
    <2>4. passed' \subseteq Checks \X Trees
      <3>1. passed \subseteq Checks \X Trees /\ op.on \in Checks /\ op.tree \in Trees
        BY <1>0, <1>9, FrameFacts DEF Typed, Framed, VerifyEnds
      <3>2. passed' \in {passed, passed \cup {<<op.on, op.tree>>}}
        BY <1>9 DEF VerifyEnds, Pass
      <3> QED BY <3>1, <3>2
    <2>5. UNCHANGED <<files, known, cached, txn, todo, evidence, verified,
                      changed, start, left, result, stamps, ops, outs, turns, raced>>
      BY <1>9 DEF VerifyEnds, Pass, bounds
    <2> QED BY <1>0, <2>1, <2>2, <2>3, <2>4, <2>5 DEF Typed
  <1>10. ASSUME NEW c \in Checks, RunCheck(c)
        PROVE  Typed'
    <2>1. pc' \in Places
      BY <1>0, <1>10 DEF Typed, Places, Framed, RunCheck, Starts, InTxn, history
    <2>2. op' \in Frames
      <3>1. files \in Trees
        BY <1>0 DEF Typed
      <3>2. PICK base \in {{}, {files}} :
                op' = CheckOp(c, files, base)
        BY <1>10 DEF RunCheck, Starts, CheckOp, NoOp
      <3>3. base \in Optional
        BY <3>1, OptionalFacts
      <3> QED BY <3>1, <3>2, <3>3, CheckFrame
    <2>3. evidence' \in [Checks -> Optional]
      BY <1>0, <1>10, OptionalFacts DEF Typed, Framed, RunCheck, Starts, InTxn,
         history
    <2>4. ops' \in 0..MaxOps
      <3>1. ops \in 0..MaxOps /\ ops < MaxOps /\ ops' = ops + 1
        BY <1>0, <1>10 DEF Typed, RunCheck, Starts
      <3> QED BY <3>1, Bounded
    <2>5. UNCHANGED <<files, known, cached, txn, todo, verified, changed,
                      start, left, ok, result, stamps, outs, turns, passed, raced>>
      BY <1>10 DEF RunCheck, Starts, InTxn, history
    <2> QED BY <1>0, <2>1, <2>2, <2>3, <2>4, <2>5 DEF Typed
  <1>11. ASSUME NEW c \in Checks, ReuseEvidence(c)
        PROVE  Typed'
    <2>1. left' \subseteq Checks
      BY <1>0, <1>11 DEF Typed, Framed, ReuseEvidence, tools, bounds, history
    <2>2. UNCHANGED <<files, pc, known, cached, op, txn, todo, evidence,
                      verified, changed, start, ok, result, stamps, ops, outs,
                      turns, passed, raced>>
      BY <1>11 DEF ReuseEvidence, tools, bounds, history
    <2> QED BY <1>0, <2>1, <2>2 DEF Typed
  <1>12. ASSUME NEW c \in Checks, VerifyRuns(c)
        PROVE  Typed'
    <2>1. pc' \in Places
      BY <1>0, <1>12 DEF Typed, Places, Framed, VerifyRuns, bounds, history
    <2>2. op' \in Frames
      <3>1. files \in Trees /\ {} \in Optional
        BY <1>0, OptionalFacts DEF Typed
      <3>2. op' = CheckOp(c, files, {})
        BY <1>12 DEF VerifyRuns, CheckOp, NoOp
      <3> QED BY <3>1, <3>2, CheckFrame
    <2>3. left' \subseteq Checks
      BY <1>0, <1>12 DEF Typed, Framed, VerifyRuns, bounds, history
    <2>4. UNCHANGED <<files, known, cached, txn, todo, evidence, verified,
                      changed, start, ok, result, stamps, ops, outs, turns,
                      passed, raced>>
      BY <1>12 DEF VerifyRuns, bounds, history
    <2> QED BY <1>0, <2>1, <2>2, <2>3, <2>4 DEF Typed
  <1>13. ASSUME NEW c \in Checks, VerifyDenied(c)
        PROVE  Typed'
    <2>1. left' \subseteq Checks
      BY <1>0, <1>13 DEF Typed, Framed, VerifyDenied, tools, bounds, history
    <2>2. ok' \in BOOLEAN
      BY <1>0, <1>13 DEF Typed, Framed, VerifyDenied, tools, bounds, history
    <2>3. UNCHANGED <<files, pc, known, cached, op, txn, todo, evidence,
                      verified, changed, start, result, stamps, ops, outs,
                      turns, passed, raced>>
      BY <1>13 DEF VerifyDenied, tools, bounds, history
    <2> QED BY <1>0, <2>1, <2>2, <2>3 DEF Typed
  <1>14. ASSUME CheckPasses
        PROVE  Typed'
    <2>1. pc' \in Places
      BY <1>0, <1>14 DEF Typed, Places, Framed, CheckPasses, Pass, tools, gate, bounds
    <2>2. passed' \subseteq Checks \X Trees
      <3>1. passed \subseteq Checks \X Trees /\ op.on \in Checks /\ op.tree \in Trees
        BY <1>0, <1>14, FrameFacts DEF Typed, Framed, CheckPasses
      <3>2. passed' \in {passed, passed \cup {<<op.on, op.tree>>}}
        BY <1>14 DEF CheckPasses, Pass
      <3> QED BY <3>1, <3>2
    <2>3. UNCHANGED <<files, known, cached, op, txn, todo, evidence, verified,
                      changed, start, left, ok, result, stamps, ops, outs,
                      turns, raced>>
      BY <1>14 DEF CheckPasses, Pass, tools, gate, bounds
    <2> QED BY <1>0, <2>1, <2>2, <2>3 DEF Typed
  <1>15. ASSUME CheckFails
        PROVE  Typed'
    <2>1. pc' \in Places
      BY <1>0, <1>15 DEF Typed, Places, Framed, CheckFails, Returns, InTxn, bounds,
         history
    <2>2. op' \in Frames
      BY <1>0, <1>15, FrameFacts DEF Typed, Framed, CheckFails, Returns, InTxn,
         bounds, history
    <2>3. todo' \subseteq txn'.paths
      BY <1>0, <1>15, TxnFacts DEF Typed, Framed, CheckFails, Returns, InTxn,
         bounds, history
    <2>4. changed' \in BOOLEAN
      BY <1>0, <1>15 DEF Typed, Framed, CheckFails, Returns, InTxn, bounds,
         history
    <2>5. UNCHANGED <<files, known, cached, txn, evidence, verified, start,
                      left, ok, result, stamps, ops, outs, turns, passed, raced>>
      BY <1>15 DEF CheckFails, Returns, InTxn, bounds, history
    <2> QED BY <1>0, <2>1, <2>2, <2>3, <2>4, <2>5 DEF Typed
  <1>16. ASSUME FinishCheck
        PROVE  Typed'
    <2>1. pc' \in Places
      BY <1>0, <1>16 DEF Typed, Places, Framed, FinishCheck, Returns, InTxn, bounds,
         history
    <2>2. op' \in Frames
      BY <1>0, <1>16, FrameFacts DEF Typed, Framed, FinishCheck, Returns,
         InTxn, bounds, history
    <2>3. todo' \subseteq txn'.paths
      BY <1>0, <1>16, TxnFacts DEF Typed, Framed, FinishCheck, Returns, InTxn,
         bounds, history
    <2>4. evidence' \in [Checks -> Optional]
      BY <1>0, <1>16, OptionalFacts DEF Typed, Framed, FinishCheck, Returns,
         InTxn, bounds, history
    <2>5. changed' \in BOOLEAN
      BY <1>0, <1>16 DEF Typed, Framed, FinishCheck, Returns, InTxn, bounds,
         history
    <2>6. UNCHANGED <<files, known, cached, txn, verified, start, left, ok,
                      result, stamps, ops, outs, turns, passed,
                      raced>>
      BY <1>16 DEF FinishCheck, Returns, InTxn, bounds, history
    <2> QED BY <1>0, <2>1, <2>2, <2>3, <2>4, <2>5, <2>6 DEF Typed
  <1>17. ASSUME NEW P \in SUBSET Files, BeginTransaction(P)
        PROVE  Typed'
    <2>1. pc' \in Places
      BY <1>0, <1>17 DEF Typed, Places, Framed, BeginTransaction, Starts, InTxn, gate,
         history
    <2>2. op' \in Frames
      BY <1>0, <1>17, FrameFacts DEF Typed, Framed, BeginTransaction, Starts,
         InTxn, gate, history
    <2>3. txn' \in [on : BOOLEAN, paths : SUBSET Files, snap : Trees]
      BY <1>0, <1>17, TxnFacts DEF Typed, Framed, BeginTransaction, Starts,
         InTxn, gate, history
    <2>4. todo' \subseteq txn'.paths
      BY <1>0, <1>17, TxnFacts DEF Typed, Framed, BeginTransaction, Starts,
         InTxn, gate, history
    <2>5. ops' \in 0..MaxOps
      <3>1. ops \in 0..MaxOps /\ ops < MaxOps /\ ops' = ops + 1
        BY <1>0, <1>17 DEF Typed, BeginTransaction, Starts
      <3> QED BY <3>1, Bounded
    <2>6. UNCHANGED <<files, known, cached, todo, evidence, verified, changed,
                      start, left, ok, result, stamps, outs, turns, passed, raced>>
      BY <1>17 DEF BeginTransaction, Starts, InTxn, gate, history
    <2> QED BY <1>0, <2>1, <2>2, <2>3, <2>4, <2>5, <2>6 DEF Typed
  <1>18. ASSUME EndTransaction
        PROVE  Typed'
    <2>1. txn' \in [on : BOOLEAN, paths : SUBSET Files, snap : Trees]
      BY <1>0, <1>18, TxnFacts DEF Typed, Framed, EndTransaction, InTxn, NoTxn,
         bounds, history
    <2>2. todo' \subseteq txn'.paths
      BY <1>0, <1>18, TxnFacts DEF Typed, Framed, EndTransaction, InTxn, NoTxn,
         bounds, history
    <2>3. changed' \in BOOLEAN
      BY <1>0, <1>18 DEF Typed, Framed, EndTransaction, InTxn, NoTxn, bounds,
         history
    <2>4. UNCHANGED <<files, pc, known, cached, op, todo, evidence, verified,
                      start, left, ok, result, stamps, ops, outs, turns,
                      passed, raced>>
      BY <1>18 DEF EndTransaction, InTxn, NoTxn, bounds, history
    <2> QED BY <1>0, <2>1, <2>2, <2>3, <2>4 DEF Typed
  <1>19. ASSUME StepRefused
        PROVE  Typed'
    <2>1. pc' \in Places
      BY <1>0, <1>19 DEF Typed, Places, Framed, StepRefused, Returns, InTxn, bounds,
         history
    <2>2. op' \in Frames
      BY <1>0, <1>19, FrameFacts DEF Typed, Framed, StepRefused, Returns,
         InTxn, bounds, history
    <2>3. todo' \subseteq txn'.paths
      BY <1>0, <1>19, TxnFacts DEF Typed, Framed, StepRefused, Returns, InTxn,
         bounds, history
    <2>4. changed' \in BOOLEAN
      BY <1>0, <1>19 DEF Typed, Framed, StepRefused, Returns, InTxn, bounds,
         history
    <2>5. UNCHANGED <<files, known, cached, txn, evidence, verified, start,
                      left, ok, result, stamps, ops, outs, turns, passed, raced>>
      BY <1>19 DEF StepRefused, Returns, InTxn, bounds, history
    <2> QED BY <1>0, <2>1, <2>2, <2>3, <2>4, <2>5 DEF Typed
  <1>20. ASSUME StepRaises
        PROVE  Typed'
    <2>1. pc' \in Places
      BY <1>0, <1>20 DEF Typed, Places, Framed, StepRaises, InTxn, NoTxn, Ended,
         Concluded, bounds, history
    <2>2. op' \in Frames
      BY <1>0, <1>20, FrameFacts DEF Typed, Framed, StepRaises, InTxn, NoTxn,
         Ended, Concluded, bounds, history
    <2>3. txn' \in [on : BOOLEAN, paths : SUBSET Files, snap : Trees]
      BY <1>0, <1>20, TxnFacts DEF Typed, Framed, StepRaises, InTxn, NoTxn,
         Ended, Concluded, bounds, history
    <2>4. todo' \subseteq txn'.paths
      BY <1>0, <1>20, TxnFacts DEF Typed, Framed, StepRaises, InTxn, NoTxn,
         Ended, Concluded, bounds, history
    <2>5. result' \in [status : Statuses, tree : Trees]
      BY <1>0, <1>20, TreeFacts, ResultFacts DEF Typed, Framed, StepRaises,
         InTxn, NoTxn, Ended, Concluded, bounds, history
    <2>6. UNCHANGED <<files, known, cached, todo, evidence, verified, changed,
                      start, left, ok, stamps, ops, outs, turns, passed, raced>>
      BY <1>20 DEF StepRaises, InTxn, NoTxn, Ended, Concluded, bounds, history
    <2> QED BY <1>0, <2>1, <2>2, <2>3, <2>4, <2>5, <2>6 DEF Typed
  <1>21. ASSUME NEW f \in Files, Restore(f)
        PROVE  Typed'
    <2>1. files' \in Trees
      BY <1>0, <1>21, TreeFacts, StampFacts DEF Typed, Framed, Restore, Put,
         gate, bounds
    <2>2. known' \in Trees
      BY <1>0, <1>21, TreeFacts, FrameFacts DEF Typed, Framed, Restore, Put,
         gate, bounds
    <2>3. cached' \subseteq Files
      BY <1>0, <1>21 DEF Typed, Framed, Restore, Put, gate, bounds
    <2>4. todo' \subseteq txn'.paths
      BY <1>0, <1>21, TxnFacts DEF Typed, Framed, Restore, Put, gate, bounds
    <2>6. raced' \subseteq Files
      BY <1>0, <1>21 DEF Typed, Framed, Restore, Put, gate, bounds
    <2>7. UNCHANGED <<pc, op, txn, evidence, verified, changed, start, left,
                      ok, result, stamps, ops, outs, turns, passed>>
      BY <1>21 DEF Restore, Put, gate, bounds
    <2> QED BY <1>0, <2>1, <2>2, <2>3, <2>4, <2>6, <2>7 DEF Typed
  <1>22. ASSUME RolledBack
        PROVE  Typed'
    <2>1. pc' \in Places
      BY <1>0, <1>22 DEF Typed, Places, Framed, RolledBack, NoTxn, gate, bounds
    <2>2. txn' \in [on : BOOLEAN, paths : SUBSET Files, snap : Trees]
      BY <1>0, <1>22, TxnFacts DEF Typed, Framed, RolledBack, NoTxn, gate,
         bounds
    <2>3. todo' \subseteq txn'.paths
      BY <1>0, <1>22, TxnFacts DEF Typed, Framed, RolledBack, NoTxn, gate,
         bounds
    <2>4. raced' \subseteq Files
      BY <1>0, <1>22 DEF Typed, Framed, RolledBack, NoTxn, gate, bounds
    <2>5. UNCHANGED <<files, known, cached, op, todo, evidence, verified,
                      changed, start, left, ok, result, stamps, ops, outs,
                      turns, passed>>
      BY <1>22 DEF RolledBack, NoTxn, gate, bounds
    <2> QED BY <1>0, <2>1, <2>2, <2>3, <2>4, <2>5 DEF Typed
  <1>23. ASSUME RollbackFails
        PROVE  Typed'
    <2>1. files' \in Trees
      BY <1>0, <1>23, TreeFacts, StampFacts DEF Typed, Framed, RollbackFails,
         Put, NoTxn, gate, bounds
    <2>2. pc' \in Places
      BY <1>0, <1>23 DEF Typed, Places, Framed, RollbackFails, Put, NoTxn, gate, bounds
    <2>3. cached' \subseteq Files
      BY <1>0, <1>23 DEF Typed, Framed, RollbackFails, Put, NoTxn, gate, bounds
    <2>4. txn' \in [on : BOOLEAN, paths : SUBSET Files, snap : Trees]
      BY <1>0, <1>23, TxnFacts DEF Typed, Framed, RollbackFails, Put, NoTxn,
         gate, bounds
    <2>5. todo' \subseteq txn'.paths
      BY <1>0, <1>23, TxnFacts DEF Typed, Framed, RollbackFails, Put, NoTxn,
         gate, bounds
    <2>7. raced' \subseteq Files
      BY <1>0, <1>23 DEF Typed, Framed, RollbackFails, Put, NoTxn, gate, bounds
    <2>8. UNCHANGED <<known, op, evidence, verified, changed, start, left, ok,
                      result, stamps, ops, outs, turns, passed>>
      BY <1>23 DEF RollbackFails, Put, NoTxn, gate, bounds
    <2> QED BY <1>0, <2>1, <2>2, <2>3, <2>4, <2>5, <2>7, <2>8 DEF Typed
  <1>24. ASSUME FinalAnswer
        PROVE  Typed'
    <2>1. pc' \in Places
      BY <1>0, <1>24 DEF Typed, Places, Framed, FinalAnswer, InTxn, Concluded, tools,
         gate, bounds, history
    <2>2. changed' \in BOOLEAN
      BY <1>0, <1>24 DEF Typed, Framed, FinalAnswer, InTxn, Concluded, tools,
         gate, bounds, history
    <2>3. result' \in [status : Statuses, tree : Trees]
      BY <1>0, <1>24, TreeFacts, ResultFacts DEF Typed, Framed, FinalAnswer,
         InTxn, Concluded, tools, gate, bounds, history
    <2>4. UNCHANGED <<files, known, cached, op, txn, todo, evidence, verified,
                      start, left, ok, stamps, ops, outs, turns, passed, raced>>
      BY <1>24 DEF FinalAnswer, InTxn, Concluded, tools, gate, bounds, history
    <2> QED BY <1>0, <2>1, <2>2, <2>3, <2>4 DEF Typed
  <1>25. ASSUME VerifyBegins
        PROVE  Typed'
    <2>1. pc' \in Places
      BY <1>0, <1>25 DEF Typed, Places, Framed, VerifyBegins, Ended, Concluded, tools,
         gate, bounds, history
    <2>2. start' \in Optional
      BY <1>0, <1>25, OptionalFacts DEF Typed, Framed, VerifyBegins, Ended,
         Concluded, tools, gate, bounds, history
    <2>3. left' \subseteq Checks
      BY <1>0, <1>25 DEF Typed, Framed, VerifyBegins, Ended, Concluded, tools,
         gate, bounds, history
    <2>4. result' \in [status : Statuses, tree : Trees]
      BY <1>0, <1>25, TreeFacts, ResultFacts DEF Typed, Framed, VerifyBegins,
         Ended, Concluded, tools, gate, bounds, history
    <2>5. UNCHANGED <<files, known, cached, op, txn, todo, evidence, verified,
                      changed, ok, stamps, ops, outs, turns, passed,
                      raced>>
      BY <1>25 DEF VerifyBegins, Ended, Concluded, tools, gate, bounds, history
    <2> QED BY <1>0, <2>1, <2>2, <2>3, <2>4, <2>5 DEF Typed
  <1>26. ASSUME Persist
        PROVE  Typed'
    <2>1. pc' \in Places
      BY <1>0, <1>26 DEF Typed, Places, Framed, Persist, Ended, Concluded,
         VerifyReturns, tools, bounds, history
    <2>2. verified' \in Optional
      BY <1>0, <1>26, OptionalFacts DEF Typed, Framed, Persist, Ended,
         Concluded, VerifyReturns, tools, bounds, history
    <2>3. start' \in Optional
      BY <1>0, <1>26, OptionalFacts DEF Typed, Framed, Persist, Ended,
         Concluded, VerifyReturns, tools, bounds, history
    <2>4. left' \subseteq Checks
      BY <1>0, <1>26 DEF Typed, Framed, Persist, Ended, Concluded,
         VerifyReturns, tools, bounds, history
    <2>5. ok' \in BOOLEAN
      BY <1>0, <1>26 DEF Typed, Framed, Persist, Ended, Concluded,
         VerifyReturns, tools, bounds, history
    <2>6. result' \in [status : Statuses, tree : Trees]
      BY <1>0, <1>26, TreeFacts, ResultFacts DEF Typed, Framed, Persist, Ended,
         Concluded, VerifyReturns, tools, bounds, history
    <2>7. UNCHANGED <<files, known, cached, op, txn, todo, evidence, changed,
                      stamps, ops, outs, turns, passed, raced>>
      BY <1>26 DEF Persist, Ended, Concluded, VerifyReturns, tools, bounds,
         history
    <2> QED BY <1>0, <2>1, <2>2, <2>3, <2>4, <2>5, <2>6, <2>7 DEF Typed
  <1>27. ASSUME CollectPatch
        PROVE  Typed'
    <2>1. pc' \in Places
      BY <1>0, <1>27 DEF Typed, Places, Framed, CollectPatch, tools, bounds, history
    <2>2. result' \in [status : Statuses, tree : Trees]
      BY <1>0, <1>27, TreeFacts, ResultFacts DEF Typed, Framed, CollectPatch,
         tools, bounds, history
    <2>3. UNCHANGED <<files, known, cached, op, txn, todo, evidence, verified,
                      changed, start, left, ok, stamps, ops, outs, turns,
                      passed, raced>>
      BY <1>27 DEF CollectPatch, tools, bounds, history
    <2> QED BY <1>0, <2>1, <2>2, <2>3 DEF Typed
  <1>28. ASSUME Confirm
        PROVE  Typed'
    <2>1. pc' \in Places
      BY <1>0, <1>28 DEF Typed, Places, Framed, Confirm, Ended, Concluded, tools,
         bounds, history
    <2>2. verified' \in Optional
      <3>1. verified \in Optional /\ {} \in Optional
        BY <1>0, OptionalFacts DEF Typed
      <3>2. verified' \in {verified, {}}
        BY <1>28 DEF Confirm
      <3> QED BY <3>1, <3>2
    <2>3. result' \in [status : Statuses, tree : Trees]
      BY <1>0, <1>28, TreeFacts, ResultFacts DEF Typed, Framed, Confirm, Ended,
         Concluded, tools, bounds, history
    <2>4. UNCHANGED <<files, known, cached, op, txn, todo, evidence, changed,
                      start, left, ok, stamps, ops, outs, turns, passed, raced>>
      BY <1>28 DEF Confirm, Ended, Concluded, tools, bounds, history
    <2> QED BY <1>0, <2>1, <2>2, <2>3, <2>4 DEF Typed
  <1>29. ASSUME NEW status \in {"failed", "cancelled"}, VerifyStops(status)
        PROVE  Typed'
    <2>1. pc' \in Places
      BY <1>0, <1>29 DEF Typed, Places, Framed, VerifyStops, Ended, Concluded,
         VerifyReturns, tools, bounds, history
    <2>2. verified' \in Optional
      <3>1. verified \in Optional /\ {} \in Optional /\ {files} \in Optional
        BY <1>0, OptionalFacts DEF Typed
      <3>2. verified' \in {verified, {}, {files}}
        BY <1>29 DEF VerifyStops
      <3> QED BY <3>1, <3>2
    <2>3. start' \in Optional
      BY <1>0, <1>29, OptionalFacts DEF Typed, Framed, VerifyStops, Ended,
         Concluded, VerifyReturns, tools, bounds, history
    <2>4. left' \subseteq Checks
      BY <1>0, <1>29 DEF Typed, Framed, VerifyStops, Ended, Concluded,
         VerifyReturns, tools, bounds, history
    <2>5. ok' \in BOOLEAN
      BY <1>0, <1>29 DEF Typed, Framed, VerifyStops, Ended, Concluded,
         VerifyReturns, tools, bounds, history
    <2>6. result' \in [status : Statuses, tree : Trees]
      BY <1>0, <1>29, TreeFacts, ResultFacts DEF Typed, Framed, VerifyStops,
         Ended, Concluded, VerifyReturns, tools, bounds, history
    <2>7. UNCHANGED <<files, known, cached, op, txn, todo, evidence, changed,
                      stamps, ops, outs, turns, passed, raced>>
      BY <1>29 DEF VerifyStops, Ended, Concluded, VerifyReturns, tools, bounds,
         history
    <2> QED BY <1>0, <2>1, <2>2, <2>3, <2>4, <2>5, <2>6, <2>7 DEF Typed
  <1>30. ASSUME NEW status \in {"failed", "cancelled"}, GiveUp(status)
        PROVE  Typed'
    <2>1. pc' \in Places
      BY <1>0, <1>30 DEF Typed, Places, Framed, GiveUp, InTxn, Ended, Concluded, tools,
         bounds, history
    <2>2. result' \in [status : Statuses, tree : Trees]
      BY <1>0, <1>30, TreeFacts, ResultFacts DEF Typed, Framed, GiveUp, InTxn,
         Ended, Concluded, tools, bounds, history
    <2>3. UNCHANGED <<files, known, cached, op, txn, todo, evidence, verified,
                      changed, start, left, ok, stamps, ops, outs, turns,
                      passed, raced>>
      BY <1>30 DEF GiveUp, InTxn, Ended, Concluded, tools, bounds, history
    <2> QED BY <1>0, <2>1, <2>2, <2>3 DEF Typed
  <1>31. ASSUME Continue
        PROVE  Typed'
    <2>1. pc' \in Places
      BY <1>0, <1>31 DEF Typed, Places, Framed, Continue, NoTxn, history
    <2>2. known' \in Trees
      BY <1>0, <1>31, TreeFacts, FrameFacts DEF Typed, Framed, Continue, NoTxn,
         history
    <2>3. cached' \subseteq Files
      BY <1>0, <1>31 DEF Typed, Framed, Continue, NoTxn, history
    <2>4. op' \in Frames
      BY <1>0, <1>31, FrameFacts DEF Typed, Framed, Continue, NoTxn, history
    <2>5. txn' \in [on : BOOLEAN, paths : SUBSET Files, snap : Trees]
      BY <1>0, <1>31, TxnFacts DEF Typed, Framed, Continue, NoTxn, history
    <2>6. todo' \subseteq txn'.paths
      BY <1>0, <1>31, TxnFacts DEF Typed, Framed, Continue, NoTxn, history
    <2>7. evidence' \in [Checks -> Optional]
      <3>1. evidence \in [Checks -> Optional] /\ {} \in Optional
        BY <1>0, OptionalFacts DEF Typed
      <3>2. evidence' \in {evidence, [c \in Checks |-> {}]}
        BY <1>31 DEF Continue
      <3> QED BY <3>1, <3>2
    <2>8. changed' \in BOOLEAN
      BY <1>0, <1>31 DEF Typed, Framed, Continue, NoTxn, history
    <2>9. result' \in [status : Statuses, tree : Trees]
      BY <1>0, <1>31, TreeFacts, ResultFacts DEF Typed, Framed, Continue,
         NoTxn, history
    <2>10. turns' \in 0..MaxTurns
      <3>1. turns \in 0..MaxTurns /\ turns < MaxTurns /\ turns' = turns + 1
        BY <1>0, <1>31 DEF Typed, Continue
      <3> QED BY <3>1, Bounded
    <2>11. UNCHANGED <<files, verified, start, left, ok, stamps, ops, outs,
                       passed>> /\ raced' = {}
      BY <1>31 DEF Continue, NoTxn, history
    <2> QED BY <1>0, <2>1, <2>2, <2>3, <2>4, <2>5, <2>6, <2>7, <2>8, <2>9,
           <2>10, <2>11 DEF Typed
  <1>32. ASSUME NEW f \in Files, Outside(f)
        PROVE  Typed'
    <2>1. files' \in Trees
      BY <1>0, <1>32, TreeFacts, StampFacts DEF Typed, Framed, Outside, Put,
         gate
    <2>2. cached' \subseteq Files
      BY <1>0, <1>32 DEF Typed, Framed, Outside, Put, gate
    <2>3. stamps' \in Contents
      BY <1>0, <1>32, StampFacts DEF Typed, Framed, Outside, Put, gate
    <2>4. outs' \in 0..MaxOutside
      <3>1. outs \in 0..MaxOutside /\ outs < MaxOutside /\ outs' = outs + 1
        BY <1>0, <1>32 DEF Typed, Outside
      <3> QED BY <3>1, Bounded
    <2>6. raced' \subseteq Files
      BY <1>0, <1>32 DEF Typed, Framed, Outside, Put, gate
    <2>7. UNCHANGED <<pc, known, op, txn, todo, evidence, verified, changed,
                      start, left, ok, result, ops, turns, passed>>
      BY <1>32 DEF Outside, Put, gate
    <2> QED BY <1>0, <2>1, <2>2, <2>3, <2>4, <2>6, <2>7 DEF Typed
  <1>33. CASE UNCHANGED vars
    BY <1>0, <1>33 DEF Typed, vars, tools, gate, bounds, history
  <1>34. ASSUME ReportUnchanged
        PROVE  Typed'
    <2>1. pc' \in Places
      BY <1>34 DEF ReportUnchanged, Ended, Concluded, Places
    <2>2. result' \in [status : Statuses, tree : Trees]
      BY <1>0, <1>34, TreeFacts, ResultFacts DEF Typed, ReportUnchanged, Ended,
         Concluded
    <2>3. UNCHANGED <<files, known, cached, op, txn, todo, evidence, verified,
                      changed, start, left, ok, stamps, ops, outs, turns,
                      passed, raced>>
      BY <1>34 DEF ReportUnchanged, tools, bounds, history
    <2> QED BY <1>0, <2>1, <2>2, <2>3 DEF Typed
  <1> QED
    BY <1>1, <1>2, <1>3, <1>4, <1>5, <1>6, <1>7, <1>8, <1>9, <1>10, <1>11,
       <1>12, <1>13, <1>14, <1>15, <1>16, <1>17, <1>18, <1>19, <1>20, <1>21,
       <1>22, <1>23, <1>24, <1>25, <1>26, <1>27, <1>28, <1>29, <1>30, <1>31,
       <1>32, <1>33, <1>34 DEF Next


\* The counter of contents only grows, by one.
LEMMA StampsGrow ==
    ASSUME Inv, [Next]_vars
    PROVE  /\ stamps \in Nat /\ stamps' \in Nat /\ stamps >= 1
           /\ stamps <= stamps' /\ stamps' >= 1
  <1>0. stamps \in Nat /\ stamps >= 1
    BY Bounded DEF Inv, Typed, Stamped, Contents
  <1>1. stamps' \in {stamps, stamps + 1}
    <2>1. CASE \E f \in Files : ReadFile(f)
      BY <2>1 DEF ReadFile, gate, bounds
    <2>2. CASE \E f \in Files : ReplaceReads(f)
      BY <2>2 DEF ReplaceReads, Starts, RequireCurrent, InTxn, gate, history
    <2>3. CASE \E f \in Files : PatchChecks(f)
      BY <2>3 DEF PatchChecks, Starts, InTxn, gate, history
    <2>4. CASE WriteEdit
      BY <2>4 DEF WriteEdit, Write, Put, gate, history
    <2>5. CASE EditRefused
      BY <2>5 DEF EditRefused, Returns, InTxn, bounds, history
    <2>6. CASE EditAccepted
      BY <2>6 DEF EditAccepted, Returns, InTxn, bounds, history
    <2>7. CASE EditUndone
      BY <2>7 DEF EditUndone, Returns, InTxn, Put, bounds, history
    <2>8. CASE \E good \in BOOLEAN : Shell(good)
      BY <2>8 DEF Shell, Returns, InTxn, Write, Put, history
    <2>9. CASE \E good \in BOOLEAN : VerifyEnds(good)
      BY <2>9 DEF VerifyEnds, Pass, bounds
    <2>10. CASE \E c \in Checks : RunCheck(c)
      BY <2>10 DEF RunCheck, Starts, InTxn, history
    <2>11. CASE \E c \in Checks : ReuseEvidence(c)
      BY <2>11 DEF ReuseEvidence, tools, bounds, history
    <2>12. CASE \E c \in Checks : VerifyRuns(c)
      BY <2>12 DEF VerifyRuns, bounds, history
    <2>13. CASE \E c \in Checks : VerifyDenied(c)
      BY <2>13 DEF VerifyDenied, tools, bounds, history
    <2>14. CASE CheckPasses
      BY <2>14 DEF CheckPasses, Pass, tools, gate, bounds
    <2>15. CASE CheckFails
      BY <2>15 DEF CheckFails, Returns, InTxn, bounds, history
    <2>16. CASE FinishCheck
      BY <2>16 DEF FinishCheck, Returns, InTxn, bounds, history
    <2>17. CASE \E P \in SUBSET Files : BeginTransaction(P)
      BY <2>17 DEF BeginTransaction, Starts, InTxn, gate, history
    <2>18. CASE EndTransaction
      BY <2>18 DEF EndTransaction, InTxn, NoTxn, bounds, history
    <2>19. CASE StepRefused
      BY <2>19 DEF StepRefused, Returns, InTxn, bounds, history
    <2>20. CASE StepRaises
      BY <2>20 DEF StepRaises, InTxn, NoTxn, Ended, Concluded, bounds, history
    <2>21. CASE \E f \in Files : Restore(f)
      BY <2>21 DEF Restore, Put, gate, bounds
    <2>22. CASE RolledBack
      BY <2>22 DEF RolledBack, NoTxn, gate, bounds
    <2>23. CASE RollbackFails
      BY <2>23 DEF RollbackFails, Put, NoTxn, gate, bounds
    <2>24. CASE FinalAnswer
      BY <2>24 DEF FinalAnswer, InTxn, Concluded, tools, gate, bounds, history
    <2>25. CASE VerifyBegins
      BY <2>25 DEF VerifyBegins, Ended, Concluded, tools, gate, bounds, history
    <2>26. CASE Persist
      BY <2>26 DEF Persist, Ended, Concluded, VerifyReturns, tools, bounds,
         history
    <2>27. CASE CollectPatch
      BY <2>27 DEF CollectPatch, tools, bounds, history
    <2>28. CASE Confirm
      BY <2>28 DEF Confirm, Ended, Concluded, tools, bounds, history
    <2>29. CASE \E status \in {"failed", "cancelled"} : VerifyStops(status)
      BY <2>29 DEF VerifyStops, Ended, Concluded, VerifyReturns, tools, bounds,
         history
    <2>30. CASE \E status \in {"failed", "cancelled"} : GiveUp(status)
      BY <2>30 DEF GiveUp, InTxn, Ended, Concluded, tools, bounds, history
    <2>31. CASE Continue
      BY <2>31 DEF Continue, NoTxn, history
    <2>32. CASE \E f \in Files : Outside(f)
      BY <2>32 DEF Outside, Put, gate
    <2>33. CASE UNCHANGED vars
      BY <2>33 DEF vars, bounds
    <2>34. CASE ReportUnchanged
      BY <2>34 DEF ReportUnchanged, bounds
    <2> QED
      BY <2>1, <2>2, <2>3, <2>4, <2>5, <2>6, <2>7, <2>8, <2>9, <2>10, <2>11,
         <2>12, <2>13, <2>14, <2>15, <2>16, <2>17, <2>18, <2>19, <2>20, <2>21,
         <2>22, <2>23, <2>24, <2>25, <2>26, <2>27, <2>28, <2>29, <2>30, <2>31,
         <2>32, <2>33, <2>34 DEF Next
  <1> QED BY <1>0, <1>1


\* What is written again was written before.
LEMMA StampedStep ==
    ASSUME Inv, [Next]_vars
    PROVE  Stamped'
  <1>0. Typed /\ Framed /\ Stamped
    BY DEF Inv
  <1>1. /\ stamps \in Nat /\ stamps' \in Nat /\ stamps >= 1
        /\ stamps <= stamps' /\ stamps' >= 1
    BY <1>0, StampsGrow
  <1>2. /\ Past(stamps) \subseteq Past(stamps') /\ 0..stamps \subseteq 0..stamps'
        /\ NoTree \in Past(stamps') /\ 0 \in 0..stamps'
        /\ \A t \in Past(stamps'), f \in Files : t[f] \in 0..stamps'
        /\ \A t \in Past(stamps), f \in Files : t[f] \in 0..stamps
        /\ \A t \in Past(stamps'), f \in Files, c \in 0..stamps' :
              [t EXCEPT ![f] = c] \in Past(stamps')
    <2>1. /\ Past(stamps) \subseteq Past(stamps')
          /\ 0..stamps \subseteq 0..stamps'
      BY <1>1, PastGrows
    <2>2. /\ NoTree \in Past(stamps') /\ 0 \in 0..stamps'
          /\ \A t \in Past(stamps'), f \in Files : t[f] \in 0..stamps'
          /\ \A t \in Past(stamps'), f \in Files, c \in 0..stamps' :
                [t EXCEPT ![f] = c] \in Past(stamps')
      BY <1>1, PastFacts
    <2>3. \A t \in Past(stamps), f \in Files : t[f] \in 0..stamps
      BY <1>1, PastFacts
    <2> QED BY <2>1, <2>2, <2>3
  <1>3. ASSUME NEW f \in Files, ReadFile(f)
        PROVE  Stamped'
    <2>1. known' \in Past(stamps')
      <3>1. known' = known \/ known' = [known EXCEPT ![f] = files[f]]
        BY <1>3 DEF ReadFile
      <3>2. files[f] \in 0..stamps'
        BY <1>0, <1>2 DEF Stamped
      <3> QED BY <1>0, <1>2, <3>1, <3>2 DEF Stamped
    <2>2. UNCHANGED <<files, op, txn, verified, start>>
      BY <1>3 DEF ReadFile, gate, bounds
    <2> QED BY <1>0, <1>1, <1>2, <2>1, <2>2 DEF Stamped
  <1>4. ASSUME NEW f \in Files, ReplaceReads(f)
        PROVE  Stamped'
    <2>1. /\ op'.was \in 0..stamps' /\ op'.new \in 0..stamps'
          /\ op'.tree \in Past(stamps')
      <3>1. op' = EditOp("replace", f, files[f])
        BY <1>4 DEF ReplaceReads, Starts, RequireCurrent, InTxn, gate, history,
           EditOp, NoOp
      <3>2. files[f] \in 0..stamps'
        BY <1>0, <1>1, <1>2 DEF Stamped
      <3> QED BY <1>2, <3>1, <3>2 DEF EditOp
    <2>2. UNCHANGED <<files, known, txn, verified, start>>
      BY <1>4 DEF ReplaceReads, Starts, RequireCurrent, InTxn, gate, history
    <2> QED BY <1>0, <1>1, <1>2, <2>1, <2>2 DEF Stamped
  <1>5. ASSUME NEW f \in Files, PatchChecks(f)
        PROVE  Stamped'
    <2>1. /\ op'.was \in 0..stamps' /\ op'.new \in 0..stamps'
          /\ op'.tree \in Past(stamps')
      <3>1. op' = EditOp("patch", f, files[f])
        BY <1>5 DEF PatchChecks, Starts, InTxn, gate, history, EditOp, NoOp
      <3>2. files[f] \in 0..stamps'
        BY <1>0, <1>1, <1>2 DEF Stamped
      <3> QED BY <1>2, <3>1, <3>2 DEF EditOp
    <2>2. UNCHANGED <<files, known, txn, verified, start>>
      BY <1>5 DEF PatchChecks, Starts, InTxn, gate, history
    <2> QED BY <1>0, <1>1, <1>2, <2>1, <2>2 DEF Stamped
  <1>6. ASSUME WriteEdit
        PROVE  Stamped'
    <2>1. files' \in Past(stamps')
      <3>1. files' = [files EXCEPT ![op.on] = stamps'] /\ op.on \in Files
        BY <1>0, <1>6 DEF Framed, WriteEdit, Write, Put
      <3>2. stamps' \in 0..stamps'
        BY <1>1
      <3> QED BY <1>0, <1>2, <3>1, <3>2 DEF Stamped
    <2>2. /\ op'.was \in 0..stamps' /\ op'.new \in 0..stamps'
          /\ op'.tree \in Past(stamps')
      <3>1. op' = [op EXCEPT !.new = stamps'] /\ op \in Frames /\ stamps' \in Contents
        BY <1>0, <1>6, TypedStep DEF Typed, WriteEdit
      <3>2. op'.was = op.was /\ op'.new = stamps' /\ op'.tree = op.tree
        BY <3>1, WrittenFrame
      <3>3. stamps' \in 0..stamps'
        BY <1>1
      <3> QED BY <1>0, <1>2, <3>2, <3>3 DEF Stamped
    <2>3. UNCHANGED <<known, txn, verified, start>>
      BY <1>6 DEF WriteEdit, Write, Put, gate, history
    <2> QED BY <1>0, <1>1, <1>2, <2>1, <2>2, <2>3 DEF Stamped
  <1>7. ASSUME EditRefused
        PROVE  Stamped'
    <2>1. /\ op'.was \in 0..stamps' /\ op'.new \in 0..stamps'
          /\ op'.tree \in Past(stamps')
      <3>1. op' = NoOp
        BY <1>7 DEF EditRefused, Returns, InTxn, bounds, history
      <3> QED BY <1>2, <3>1, FrameFacts
    <2>2. UNCHANGED <<files, known, txn, verified, start>>
      BY <1>7 DEF EditRefused, Returns, InTxn, bounds, history
    <2> QED BY <1>0, <1>1, <1>2, <2>1, <2>2 DEF Stamped
  <1>8. ASSUME EditAccepted
        PROVE  Stamped'
    <2>1. known' \in Past(stamps')
      <3>1. known' = known \/ known' = [known EXCEPT ![op.on] = op.new]
        BY <1>8 DEF EditAccepted
      <3>2. op.on \in Files
        BY <1>0, <1>8 DEF Framed, EditAccepted
      <3> QED BY <1>0, <1>2, <3>1, <3>2 DEF Stamped
    <2>2. /\ op'.was \in 0..stamps' /\ op'.new \in 0..stamps'
          /\ op'.tree \in Past(stamps')
      <3>1. op' = NoOp
        BY <1>8 DEF EditAccepted, Returns, InTxn, bounds, history
      <3> QED BY <1>2, <3>1, FrameFacts
    <2>3. UNCHANGED <<files, txn, verified, start>>
      BY <1>8 DEF EditAccepted, Returns, InTxn, bounds, history
    <2> QED BY <1>0, <1>1, <1>2, <2>1, <2>2, <2>3 DEF Stamped
  <1>9. ASSUME EditUndone
        PROVE  Stamped'
    <2>1. files' \in Past(stamps')
      <3>1. files' = files \/ files' = [files EXCEPT ![op.on] = op.was]
        BY <1>9 DEF EditUndone, Put
      <3>2. op.on \in Files
        BY <1>0, <1>9 DEF Framed, EditUndone
      <3> QED BY <1>0, <1>2, <3>1, <3>2 DEF Stamped
    <2>2. /\ op'.was \in 0..stamps' /\ op'.new \in 0..stamps'
          /\ op'.tree \in Past(stamps')
      <3>1. op' = NoOp
        BY <1>9 DEF EditUndone, Returns, InTxn, Put, bounds, history
      <3> QED BY <1>2, <3>1, FrameFacts
    <2>3. UNCHANGED <<known, txn, verified, start>>
      BY <1>9 DEF EditUndone, Returns, InTxn, Put, bounds, history
    <2> QED BY <1>0, <1>1, <1>2, <2>1, <2>2, <2>3 DEF Stamped
  <1>10. ASSUME NEW good \in BOOLEAN, Shell(good)
        PROVE  Stamped'
    <2>1. files' \in Past(stamps')
      <3>1. \/ files' = files
            \/ \E f \in Files : files' = [files EXCEPT ![f] = stamps']
        BY <1>10 DEF Shell, Write, Put
      <3>2. stamps' \in 0..stamps'
        BY <1>1
      <3> QED BY <1>0, <1>2, <3>1, <3>2 DEF Stamped
    <2>2. /\ op'.was \in 0..stamps' /\ op'.new \in 0..stamps'
          /\ op'.tree \in Past(stamps')
      <3>1. op' = NoOp
        BY <1>10 DEF Shell, Returns, InTxn, Write, Put, history
      <3> QED BY <1>2, <3>1, FrameFacts
    <2>3. UNCHANGED <<known, txn, verified, start>>
      BY <1>10 DEF Shell, Returns, InTxn, Write, Put, history
    <2> QED BY <1>0, <1>1, <1>2, <2>1, <2>2, <2>3 DEF Stamped
  <1>11. ASSUME NEW good \in BOOLEAN, VerifyEnds(good)
        PROVE  Stamped'
    <2>1. /\ op'.was \in 0..stamps' /\ op'.new \in 0..stamps'
          /\ op'.tree \in Past(stamps')
      <3>1. op' = NoOp
        BY <1>11 DEF VerifyEnds, Pass, bounds
      <3> QED BY <1>2, <3>1, FrameFacts
    <2>2. UNCHANGED <<files, known, txn, verified, start>>
      BY <1>11 DEF VerifyEnds, Pass, bounds
    <2> QED BY <1>0, <1>1, <1>2, <2>1, <2>2 DEF Stamped
  <1>12. ASSUME NEW c \in Checks, RunCheck(c)
        PROVE  Stamped'
    <2>1. /\ op'.was \in 0..stamps' /\ op'.new \in 0..stamps'
          /\ op'.tree \in Past(stamps')
      <3>1. PICK base \in {{}, {files}} : op' = CheckOp(c, files, base)
        BY <1>12 DEF RunCheck, Starts, CheckOp, NoOp
      <3> QED BY <1>0, <1>2, <3>1 DEF Stamped, CheckOp
    <2>2. UNCHANGED <<files, known, txn, verified, start>>
      BY <1>12 DEF RunCheck, Starts, InTxn, history
    <2> QED BY <1>0, <1>1, <1>2, <2>1, <2>2 DEF Stamped
  <1>13. ASSUME NEW c \in Checks, VerifyRuns(c)
        PROVE  Stamped'
    <2>1. /\ op'.was \in 0..stamps' /\ op'.new \in 0..stamps'
          /\ op'.tree \in Past(stamps')
      <3>1. op' = CheckOp(c, files, {})
        BY <1>13 DEF VerifyRuns, CheckOp, NoOp
      <3> QED BY <1>0, <1>2, <3>1 DEF Stamped, CheckOp
    <2>2. UNCHANGED <<files, known, txn, verified, start>>
      BY <1>13 DEF VerifyRuns, bounds, history
    <2> QED BY <1>0, <1>1, <1>2, <2>1, <2>2 DEF Stamped
  <1>14. ASSUME CheckFails
        PROVE  Stamped'
    <2>1. /\ op'.was \in 0..stamps' /\ op'.new \in 0..stamps'
          /\ op'.tree \in Past(stamps')
      <3>1. op' = NoOp
        BY <1>14 DEF CheckFails, Returns, InTxn, bounds, history
      <3> QED BY <1>2, <3>1, FrameFacts
    <2>2. UNCHANGED <<files, known, txn, verified, start>>
      BY <1>14 DEF CheckFails, Returns, InTxn, bounds, history
    <2> QED BY <1>0, <1>1, <1>2, <2>1, <2>2 DEF Stamped
  <1>15. ASSUME FinishCheck
        PROVE  Stamped'
    <2>1. /\ op'.was \in 0..stamps' /\ op'.new \in 0..stamps'
          /\ op'.tree \in Past(stamps')
      <3>1. op' = NoOp
        BY <1>15 DEF FinishCheck, Returns, InTxn, bounds, history
      <3> QED BY <1>2, <3>1, FrameFacts
    <2>2. UNCHANGED <<files, known, txn, verified, start>>
      BY <1>15 DEF FinishCheck, Returns, InTxn, bounds, history
    <2> QED BY <1>0, <1>1, <1>2, <2>1, <2>2 DEF Stamped
  <1>16. ASSUME NEW P \in SUBSET Files, BeginTransaction(P)
        PROVE  Stamped'
    <2>1. /\ op'.was \in 0..stamps' /\ op'.new \in 0..stamps'
          /\ op'.tree \in Past(stamps')
      <3>1. op' = NoOp
        BY <1>16 DEF BeginTransaction, Starts, InTxn, gate, history
      <3> QED BY <1>2, <3>1, FrameFacts
    <2>2. txn'.snap \in Past(stamps')
      <3>1. txn'.snap = files
        BY <1>16 DEF BeginTransaction
      <3> QED BY <1>0, <1>2, <3>1 DEF Stamped
    <2>3. UNCHANGED <<files, known, verified, start>>
      BY <1>16 DEF BeginTransaction, Starts, InTxn, gate, history
    <2> QED BY <1>0, <1>1, <1>2, <2>1, <2>2, <2>3 DEF Stamped
  <1>17. ASSUME EndTransaction
        PROVE  Stamped'
    <2>1. txn'.snap \in Past(stamps')
      <3>1. txn' = NoTxn
        BY <1>17 DEF EndTransaction
      <3> QED BY <1>2, <3>1, TxnFacts
    <2>2. UNCHANGED <<files, known, op, verified, start>>
      BY <1>17 DEF EndTransaction, InTxn, NoTxn, bounds, history
    <2> QED BY <1>0, <1>1, <1>2, <2>1, <2>2 DEF Stamped
  <1>18. ASSUME StepRefused
        PROVE  Stamped'
    <2>1. /\ op'.was \in 0..stamps' /\ op'.new \in 0..stamps'
          /\ op'.tree \in Past(stamps')
      <3>1. op' = NoOp
        BY <1>18 DEF StepRefused, Returns, InTxn, bounds, history
      <3> QED BY <1>2, <3>1, FrameFacts
    <2>2. UNCHANGED <<files, known, txn, verified, start>>
      BY <1>18 DEF StepRefused, Returns, InTxn, bounds, history
    <2> QED BY <1>0, <1>1, <1>2, <2>1, <2>2 DEF Stamped
  <1>19. ASSUME StepRaises
        PROVE  Stamped'
    <2>1. /\ op'.was \in 0..stamps' /\ op'.new \in 0..stamps'
          /\ op'.tree \in Past(stamps')
      <3>1. op' = NoOp
        BY <1>19 DEF StepRaises, InTxn, NoTxn, Ended, Concluded, bounds, history
      <3> QED BY <1>2, <3>1, FrameFacts
    <2>2. txn'.snap \in Past(stamps')
      <3>1. txn' = NoTxn
        BY <1>19 DEF StepRaises
      <3> QED BY <1>2, <3>1, TxnFacts
    <2>3. UNCHANGED <<files, known, verified, start>>
      BY <1>19 DEF StepRaises, InTxn, NoTxn, Ended, Concluded, bounds, history
    <2> QED BY <1>0, <1>1, <1>2, <2>1, <2>2, <2>3 DEF Stamped
  <1>20. ASSUME NEW f \in Files, Restore(f)
        PROVE  Stamped'
    <2>1. files' \in Past(stamps')
      <3>1. files' = [files EXCEPT ![f] = txn.snap[f]]
        BY <1>20 DEF Restore, Put
      <3>2. txn.snap[f] \in 0..stamps'
        BY <1>0, <1>2 DEF Stamped
      <3> QED BY <1>0, <1>2, <3>1, <3>2 DEF Stamped
    <2>2. known' \in Past(stamps')
      <3>1. known' = [known EXCEPT ![f] = txn.snap[f]]
        BY <1>20 DEF Restore, Put
      <3>2. txn.snap[f] \in 0..stamps'
        BY <1>0, <1>2 DEF Stamped
      <3> QED BY <1>0, <1>2, <3>1, <3>2 DEF Stamped
    <2>3. UNCHANGED <<op, txn, verified, start>>
      BY <1>20 DEF Restore, Put, gate, bounds
    <2> QED BY <1>0, <1>1, <1>2, <2>1, <2>2, <2>3 DEF Stamped
  <1>21. ASSUME RolledBack
        PROVE  Stamped'
    <2>1. txn'.snap \in Past(stamps')
      <3>1. txn' = NoTxn
        BY <1>21 DEF RolledBack
      <3> QED BY <1>2, <3>1, TxnFacts
    <2>2. UNCHANGED <<files, known, op, verified, start>>
      BY <1>21 DEF RolledBack, NoTxn, gate, bounds
    <2> QED BY <1>0, <1>1, <1>2, <2>1, <2>2 DEF Stamped
  <1>22. ASSUME RollbackFails
        PROVE  Stamped'
    <2>1. files' \in Past(stamps')
      <3>1. \/ files' = files
            \/ \E f \in Files : files' = [files EXCEPT ![f] = txn.snap[f]]
        BY <1>0, <1>22 DEF RollbackFails, Put, Typed
      <3>2. \A f \in Files : txn.snap[f] \in 0..stamps'
        BY <1>0, <1>2 DEF Stamped
      <3> QED BY <1>0, <1>2, <3>1, <3>2 DEF Stamped
    <2>2. txn'.snap \in Past(stamps')
      <3>1. txn' = NoTxn
        BY <1>22 DEF RollbackFails
      <3> QED BY <1>2, <3>1, TxnFacts
    <2>3. UNCHANGED <<known, op, verified, start>>
      BY <1>22 DEF RollbackFails, Put, NoTxn, gate, bounds
    <2> QED BY <1>0, <1>1, <1>2, <2>1, <2>2, <2>3 DEF Stamped
  <1>23. ASSUME VerifyBegins
        PROVE  Stamped'
    <2>1. start' \subseteq Past(stamps')
      <3>1. start' \in {start, {files}}
        BY <1>23 DEF VerifyBegins, VerifyReturns
      <3> QED BY <1>0, <1>2, <3>1 DEF Stamped
    <2>2. UNCHANGED <<files, known, op, txn, verified>>
      BY <1>23 DEF VerifyBegins, Ended, Concluded, tools, gate, bounds, history
    <2> QED BY <1>0, <1>1, <1>2, <2>1, <2>2 DEF Stamped
  <1>24. ASSUME Persist
        PROVE  Stamped'
    <2>1. verified' \subseteq Past(stamps')
      <3>1. verified' \in {{files}, {}}
        BY <1>24 DEF Persist, VerifyReturns
      <3> QED BY <1>0, <1>2, <3>1 DEF Stamped
    <2>2. start' \subseteq Past(stamps')
      <3>1. start' \in {{}}
        BY <1>24 DEF Persist, VerifyReturns
      <3> QED BY <1>0, <1>2, <3>1 DEF Stamped
    <2>3. UNCHANGED <<files, known, op, txn>>
      BY <1>24 DEF Persist, Ended, Concluded, VerifyReturns, tools, bounds,
         history
    <2> QED BY <1>0, <1>1, <1>2, <2>1, <2>2, <2>3 DEF Stamped
  <1>25. ASSUME Confirm
        PROVE  Stamped'
    <2>1. verified' \subseteq Past(stamps')
      <3>1. verified' \in {verified, {}}
        BY <1>25 DEF Confirm, VerifyReturns
      <3> QED BY <1>0, <1>2, <3>1 DEF Stamped
    <2>2. UNCHANGED <<files, known, op, txn, start>>
      BY <1>25 DEF Confirm, Ended, Concluded, tools, bounds, history
    <2> QED BY <1>0, <1>1, <1>2, <2>1, <2>2 DEF Stamped
  <1>26. ASSUME NEW status \in {"failed", "cancelled"}, VerifyStops(status)
        PROVE  Stamped'
    <2>1. verified' \subseteq Past(stamps')
      <3>1. verified' \in {verified, {files}, {}}
        BY <1>26 DEF VerifyStops, VerifyReturns
      <3> QED BY <1>0, <1>2, <3>1 DEF Stamped
    <2>2. start' \subseteq Past(stamps')
      <3>1. start' \in {{}}
        BY <1>26 DEF VerifyStops, VerifyReturns
      <3> QED BY <1>0, <1>2, <3>1 DEF Stamped
    <2>3. UNCHANGED <<files, known, op, txn>>
      BY <1>26 DEF VerifyStops, Ended, Concluded, VerifyReturns, tools, bounds,
         history
    <2> QED BY <1>0, <1>1, <1>2, <2>1, <2>2, <2>3 DEF Stamped
  <1>27. ASSUME Continue
        PROVE  Stamped'
    <2>1. known' \in Past(stamps')
      <3>1. known' = NoTree
        BY <1>27 DEF Continue
      <3> QED BY <1>2, <3>1
    <2>2. /\ op'.was \in 0..stamps' /\ op'.new \in 0..stamps'
          /\ op'.tree \in Past(stamps')
      <3>1. op' = NoOp
        BY <1>27 DEF Continue, NoTxn, history
      <3> QED BY <1>2, <3>1, FrameFacts
    <2>3. txn'.snap \in Past(stamps')
      <3>1. txn' = NoTxn
        BY <1>27 DEF Continue
      <3> QED BY <1>2, <3>1, TxnFacts
    <2>4. UNCHANGED <<files, verified, start>>
      BY <1>27 DEF Continue, NoTxn, history
    <2> QED BY <1>0, <1>1, <1>2, <2>1, <2>2, <2>3, <2>4 DEF Stamped
  <1>28. ASSUME NEW f \in Files, Outside(f)
        PROVE  Stamped'
    <2>1. files' \in Past(stamps')
      <3>1. files' = [files EXCEPT ![f] = stamps']
        BY <1>28 DEF Outside, Put
      <3>2. stamps' \in 0..stamps'
        BY <1>1
      <3> QED BY <1>0, <1>2, <3>1, <3>2 DEF Stamped
    <2>2. UNCHANGED <<known, op, txn, verified, start>>
      BY <1>28 DEF Outside, Put, gate
    <2> QED BY <1>0, <1>1, <1>2, <2>1, <2>2 DEF Stamped
  <1>29. CASE (\E c \in Checks : ReuseEvidence(c))
            \/ (\E c \in Checks : VerifyDenied(c)) \/ CheckPasses
            \/ FinalAnswer \/ CollectPatch
            \/ (\E status \in {"failed", "cancelled"} : GiveUp(status))
            \/ UNCHANGED vars
    <2>1. UNCHANGED <<files, known, op, txn, verified, start>>
      BY <1>29 DEF vars, tools, gate, bounds, history, ReuseEvidence,
         VerifyDenied, CheckPasses, Pass, FinalAnswer, InTxn, Concluded,
         CollectPatch, GiveUp, Ended
    <2> QED BY <1>0, <1>1, <1>2, <2>1 DEF Stamped
  <1>30. ASSUME ReportUnchanged
        PROVE  Stamped'
    BY <1>0, <1>30 DEF Stamped, ReportUnchanged, tools, bounds
  <1> QED
    BY <1>3, <1>4, <1>5, <1>6, <1>7, <1>8, <1>9, <1>10, <1>11, <1>12, <1>13,
       <1>14, <1>15, <1>16, <1>17, <1>18, <1>19, <1>20, <1>21, <1>22, <1>23,
       <1>24, <1>25, <1>26, <1>27, <1>28, <1>29, <1>30 DEF Next


\* Frames come and go with their places.
LEMMA FramedStep ==
    ASSUME Inv, [Next]_vars
    PROVE  Framed'
  <1>0. Typed /\ Framed
    BY DEF Inv
  <1>1. ASSUME NEW f \in Files, ReplaceReads(f)
        PROVE  Framed'
    BY <1>0, <1>1 DEF Framed, ReplaceReads, Starts, RequireCurrent, InTxn,
       gate, history, NoOp
  <1>2. ASSUME NEW f \in Files, PatchChecks(f)
        PROVE  Framed'
    BY <1>0, <1>2 DEF Framed, PatchChecks, Starts, InTxn, gate, history, NoOp
  <1>3. ASSUME WriteEdit
        PROVE  Framed'
    BY <1>0, <1>3, WrittenFrame DEF Framed, Typed, WriteEdit, Write, Put, gate, history
  <1>4. ASSUME EditRefused
        PROVE  Framed'
    BY <1>0, <1>4 DEF Framed, InTxn, EditRefused, Returns, bounds, history
  <1>5. ASSUME EditAccepted
        PROVE  Framed'
    BY <1>0, <1>5 DEF Framed, InTxn, EditAccepted, Returns, bounds, history
  <1>6. ASSUME EditUndone
        PROVE  Framed'
    BY <1>0, <1>6 DEF Framed, InTxn, EditUndone, Returns, Put, bounds, history
  <1>7. ASSUME NEW good \in BOOLEAN, Shell(good)
        PROVE  Framed'
    BY <1>0, <1>7 DEF Framed, InTxn, Shell, Returns, Write, Put, history
  <1>8. ASSUME NEW good \in BOOLEAN, VerifyEnds(good)
        PROVE  Framed'
    BY <1>0, <1>8 DEF Framed, InTxn, VerifyEnds, Pass, bounds
  <1>9. ASSUME NEW c \in Checks, RunCheck(c)
        PROVE  Framed'
    BY <1>0, <1>9 DEF Framed, RunCheck, Starts, InTxn, history, NoOp
  <1>10. ASSUME NEW c \in Checks, VerifyRuns(c)
        PROVE  Framed'
    BY <1>0, <1>10 DEF Framed, InTxn, VerifyRuns, bounds, history, NoOp
  <1>11. ASSUME CheckPasses
        PROVE  Framed'
    BY <1>0, <1>11 DEF Framed, InTxn, CheckPasses, Pass, tools, gate, bounds
  <1>12. ASSUME CheckFails
        PROVE  Framed'
    BY <1>0, <1>12 DEF Framed, InTxn, CheckFails, Returns, bounds, history
  <1>13. ASSUME FinishCheck
        PROVE  Framed'
    BY <1>0, <1>13 DEF Framed, InTxn, FinishCheck, Returns, bounds, history
  <1>14. ASSUME NEW P \in SUBSET Files, BeginTransaction(P)
        PROVE  Framed'
    BY <1>0, <1>14 DEF Framed, InTxn, BeginTransaction, Starts, gate, history
  <1>15. ASSUME EndTransaction
        PROVE  Framed'
    BY <1>0, <1>15 DEF Framed, InTxn, EndTransaction, NoTxn, bounds, history
  <1>16. ASSUME StepRefused
        PROVE  Framed'
    BY <1>0, <1>16 DEF Framed, InTxn, StepRefused, Returns, bounds, history
  <1>17. ASSUME StepRaises
        PROVE  Framed'
    BY <1>0, <1>17 DEF Framed, InTxn, StepRaises, NoTxn, Ended, Concluded,
       bounds, history
  <1>18. ASSUME NEW f \in Files, Restore(f)
        PROVE  Framed'
    BY <1>0, <1>18 DEF Framed, InTxn, Restore, Put, gate, bounds
  <1>19. ASSUME RolledBack
        PROVE  Framed'
    BY <1>0, <1>19 DEF Framed, InTxn, RolledBack, NoTxn, gate, bounds
  <1>20. ASSUME RollbackFails
        PROVE  Framed'
    BY <1>0, <1>20 DEF Framed, InTxn, RollbackFails, Put, NoTxn, gate, bounds
  <1>21. ASSUME FinalAnswer
        PROVE  Framed'
    BY <1>0, <1>21 DEF Framed, InTxn, FinalAnswer, Concluded, tools, gate,
       bounds, history
  <1>22. ASSUME VerifyBegins
        PROVE  Framed'
    BY <1>0, <1>22 DEF Framed, InTxn, VerifyBegins, Ended, Concluded, tools,
       gate, bounds, history
  <1>23. ASSUME Persist
        PROVE  Framed'
    BY <1>0, <1>23 DEF Framed, InTxn, Persist, Ended, Concluded, VerifyReturns,
       tools, bounds, history
  <1>24. ASSUME CollectPatch
        PROVE  Framed'
    BY <1>0, <1>24 DEF Framed, InTxn, CollectPatch, tools, bounds, history
  <1>25. ASSUME Confirm
        PROVE  Framed'
    BY <1>0, <1>25 DEF Framed, InTxn, Confirm, Ended, Concluded, tools, bounds,
       history
  <1>26. ASSUME NEW status \in {"failed", "cancelled"}, VerifyStops(status)
        PROVE  Framed'
    BY <1>0, <1>26 DEF Framed, InTxn, VerifyStops, Ended, Concluded,
       VerifyReturns, tools, bounds, history
  <1>27. ASSUME NEW status \in {"failed", "cancelled"}, GiveUp(status)
        PROVE  Framed'
    BY <1>0, <1>27 DEF Framed, InTxn, GiveUp, Ended, Concluded, tools, bounds,
       history
  <1>28. ASSUME Continue
        PROVE  Framed'
    <2>1. /\ pc' = "loop" /\ op' = NoOp /\ txn' = NoTxn /\ todo' = {}
          /\ result' = NoResult
      BY <1>28 DEF Continue
    <2>2. NoResult.status = "none"
      BY DEF NoResult
    <2> QED BY <2>1, <2>2 DEF Framed
  <1>29. CASE (\E f \in Files : ReadFile(f))
            \/ (\E c \in Checks : ReuseEvidence(c))
            \/ (\E c \in Checks : VerifyDenied(c))
            \/ (\E f \in Files : Outside(f)) \/ UNCHANGED vars
    <2>1. UNCHANGED <<pc, op, txn, todo, result>>
      BY <1>29 DEF vars, tools, gate, bounds, history, ReadFile, ReuseEvidence,
         VerifyDenied, Outside, Put
    <2> QED BY <1>0, <2>1 DEF Framed, InTxn
  <1>30. ASSUME ReportUnchanged
        PROVE  Framed'
    BY <1>0, <1>30 DEF Framed, InTxn, ReportUnchanged, Ended, Concluded, tools
  <1> QED
    BY <1>1, <1>2, <1>3, <1>4, <1>5, <1>6, <1>7, <1>8, <1>9, <1>10, <1>11,
       <1>12, <1>13, <1>14, <1>15, <1>16, <1>17, <1>18, <1>19, <1>20, <1>21,
       <1>22, <1>23, <1>24, <1>25, <1>26, <1>27, <1>28, <1>29, <1>30 DEF Next


\* Versions are recorded by whole reads, by replacements and by rollbacks.
LEMMA ProvenanceStep ==
    ASSUME Inv, [Next]_vars
    PROVE  Provenance'
  <1>0. Typed /\ Framed /\ Provenance
    BY DEF Inv
  <1>1. /\ files \in Trees /\ known \in Trees /\ txn.snap \in Trees
        /\ op.was \in Contents /\ op.new \in Contents /\ todo \subseteq Files
    BY <1>0, FrameFacts DEF Typed
  <1>2. ASSUME UNCHANGED <<known, reads, putback>>,
               pc' \notin {"write", "review"} \/ UNCHANGED <<pc, op>>
        PROVE  Provenance'
    BY <1>0, <1>2 DEF Provenance, Known
  <1>3. ASSUME NEW f \in Files, ReadFile(f)
        PROVE  Provenance'
    <2>1. /\ known' = known \/ known' = [known EXCEPT ![f] = files[f]]
          /\ reads' = reads \cup {<<f, files[f]>>} /\ putback' = putback
          /\ pc' = "loop"
      BY <1>3 DEF ReadFile
    <2>2. \A g \in Files : known'[g] = known[g] \/ (g = f /\ known'[g] = files[f])
      BY <1>1, <2>1 DEF Trees
    <2>3. reads' \subseteq Files \X Contents
      BY <1>0, <1>1, <2>1, TreeFacts DEF Provenance
    <2> QED BY <1>0, <2>1, <2>2, <2>3 DEF Provenance, Known
  <1>4. ASSUME NEW f \in Files, ReplaceReads(f)
        PROVE  Provenance'
    <2>1. /\ files[f] # 0 /\ known[f] = files[f]
          /\ UNCHANGED <<known, reads, putback>>
          /\ op' = EditOp("replace", f, files[f])
      BY <1>4 DEF ReplaceReads, RequireCurrent, Starts, history, NoOp, EditOp
    <2>2. op'.on = f /\ op'.was = files[f]
      BY <2>1 DEF EditOp
    <2> QED BY <1>0, <2>1, <2>2 DEF Provenance, Known
  <1>5. ASSUME NEW f \in Files, PatchChecks(f)
        PROVE  Provenance'
    <2>1. UNCHANGED <<known, reads, putback>> /\ op' = EditOp("patch", f, files[f])
      BY <1>5 DEF PatchChecks, Starts, history, NoOp, EditOp
    <2>2. op'.kind = "patch"
      BY <2>1 DEF EditOp
    <2> QED BY <1>0, <2>1, <2>2 DEF Provenance, Known
  <1>6. ASSUME WriteEdit
        PROVE  Provenance'
    <2>1. /\ UNCHANGED <<known, reads, putback>> /\ pc = "write"
          /\ op'.kind = op.kind /\ op'.on = op.on /\ op'.was = op.was
      BY <1>0, <1>6, WrittenFrame DEF WriteEdit, Write, Typed, history
    <2> QED BY <1>0, <2>1 DEF Provenance, Known
  <1>7. ASSUME EditAccepted
        PROVE  Provenance'
    <2>1. /\ op.on \in Files /\ pc = "review" /\ pc' \notin {"write", "review"}
          /\ reads' = Made(reads) /\ putback' = Made(putback)
      BY <1>0, <1>7 DEF Framed, EditAccepted, Returns
    <2>2. CASE op.kind = "replace"
      <3>1. Known(op.on, op.was)
        BY <1>0, <2>1, <2>2 DEF Provenance
      <3>2. /\ known' = [known EXCEPT ![op.on] = op.new]
            /\ reads \subseteq reads' /\ putback \subseteq putback'
            /\ reads' \subseteq reads \cup {<<op.on, op.new>>}
            /\ putback' \subseteq putback \cup {<<op.on, op.new>>}
            /\ <<op.on, op.new>> \in reads' \cup putback'
        BY <1>7, <2>1, <2>2, <3>1 DEF EditAccepted, Made, Known
      <3>3. \A g \in Files : known'[g] = known[g] \/ (g = op.on /\ known'[g] = op.new)
        BY <1>1, <3>2 DEF Trees
      <3>4. <<op.on, op.new>> \in Files \X Contents
        BY <1>1, <2>1
      <3> QED BY <1>0, <2>1, <3>2, <3>3, <3>4 DEF Provenance, Known
    <2>3. CASE op.kind # "replace"
      <3>1. UNCHANGED <<known, reads, putback>>
        BY <1>7, <2>1, <2>3 DEF EditAccepted, Made
      <3> QED BY <1>2, <2>1, <3>1
    <2> QED BY <2>2, <2>3
  <1>8. ASSUME NEW f \in Files, Restore(f)
        PROVE  Provenance'
    <2>1. /\ known' = [known EXCEPT ![f] = txn.snap[f]] /\ reads' = reads
          /\ putback' = putback \cup IF txn.snap[f] = 0 THEN {}
                                     ELSE {<<f, txn.snap[f]>>} \ reads
          /\ pc' = "restore"
      BY <1>8 DEF Restore, PutBack
    <2>2. \A g \in Files : known'[g] = known[g] \/ (g = f /\ known'[g] = txn.snap[f])
      BY <1>1, <2>1 DEF Trees
    <2>3. putback' \subseteq Files \X Contents
      BY <1>0, <1>1, <2>1, TreeFacts DEF Provenance
    <2>4. txn.snap[f] # 0 => <<f, txn.snap[f]>> \in reads' \cup putback'
      BY <2>1
    <2>5. putback \subseteq putback'
      BY <2>1
    <2> QED BY <1>0, <2>1, <2>2, <2>3, <2>4, <2>5 DEF Provenance, Known
  <1>9. ASSUME Continue
        PROVE  Provenance'
    <2>1. known' = NoTree /\ pc' = "loop" /\ reads' = {} /\ putback' = {}
      BY <1>9 DEF Continue
    <2> QED BY <2>1 DEF Provenance, NoTree
  <1>10. CASE EditRefused \/ EditUndone \/ CheckPasses \/ CheckFails
            \/ FinishCheck \/ EndTransaction \/ StepRefused \/ StepRaises
            \/ RolledBack \/ RollbackFails
    BY <1>2, <1>10 DEF EditRefused, EditUndone, CheckPasses, CheckFails,
       FinishCheck, EndTransaction, StepRefused, StepRaises, RolledBack,
       RollbackFails, Returns, Ended, Concluded, history, tools
  <1>11. CASE \E good \in BOOLEAN : Shell(good) \/ VerifyEnds(good)
    BY <1>2, <1>11 DEF Shell, VerifyEnds, Returns, history
  <1>12. CASE \E c \in Checks : \/ RunCheck(c) \/ ReuseEvidence(c)
                                \/ VerifyRuns(c) \/ VerifyDenied(c)
    BY <1>2, <1>12 DEF RunCheck, ReuseEvidence, VerifyRuns, VerifyDenied,
       Starts, history, tools
  <1>13. CASE (\E P \in SUBSET Files : BeginTransaction(P))
            \/ (\E f \in Files : Outside(f))
    BY <1>2, <1>13 DEF BeginTransaction, Outside, Starts, history
  <1>14. CASE FinalAnswer \/ ReportUnchanged \/ VerifyBegins \/ Persist
            \/ CollectPatch \/ Confirm \/ UNCHANGED vars
            \/ (\E status \in {"failed", "cancelled"} :
                    VerifyStops(status) \/ GiveUp(status))
    BY <1>2, <1>14 DEF FinalAnswer, ReportUnchanged, VerifyBegins, Persist,
       CollectPatch, Confirm, VerifyStops, GiveUp, Ended, Concluded, tools,
       history, vars
  <1> QED
    BY <1>3, <1>4, <1>5, <1>6, <1>7, <1>8, <1>9, <1>10, <1>11, <1>12, <1>13, <1>14 DEF Next


\* A write takes its file out of the read cache.
LEMMA CachedStep ==
    ASSUME Inv, [Next]_vars
    PROVE  Cached'
  <1>0. Typed /\ Framed /\ Cached
    BY DEF Inv
  <1>1. /\ files \in Trees /\ known \in Trees /\ txn.snap \in Trees
        /\ op.was \in Contents /\ cached \subseteq Files /\ todo \subseteq Files
    BY <1>0, FrameFacts DEF Typed
  <1>2. ASSUME NEW f \in Files, NEW c \in Contents, Put(f, c), known' = known,
               pc' = "review" => op'.on \notin cached \/ op'.on = f
        PROVE  Cached'
    <2>1. /\ cached' = cached \ {f}
          /\ \A g \in Files \ {f} : files'[g] = files[g]
      BY <1>1, <1>2, PutFacts
    <2> QED BY <1>0, <1>1, <1>2, <2>1 DEF Cached, RereadArms
  <1>3. ASSUME NEW f \in Files, ReadFile(f)
        PROVE  Cached'
    <2>1. pc' # "review" /\ files' = files
      BY <1>3 DEF ReadFile
    <2>2. \/ known' = known /\ cached' = cached
          \/ /\ known' = [known EXCEPT ![f] = files[f]]
             /\ cached' = cached \cup {f}
      BY <1>3 DEF ReadFile
    <2>3. \A g \in Files : known'[g] = known[g] \/ known'[g] = files[g]
      BY <1>1, <2>2 DEF Trees
    <2>4. known'[f] = files[f] \/ cached' = cached
      BY <1>1, <2>2 DEF Trees
    <2> QED BY <1>0, <1>1, <2>1, <2>2, <2>3, <2>4 DEF Cached, RereadArms
  <1>4. ASSUME NEW f \in Files, ReplaceReads(f)
        PROVE  Cached'
    BY <1>0, <1>4 DEF Cached, RereadArms, ReplaceReads, Starts, RequireCurrent,
       InTxn, gate, history
  <1>5. ASSUME NEW f \in Files, PatchChecks(f)
        PROVE  Cached'
    BY <1>0, <1>5 DEF Cached, RereadArms, PatchChecks, Starts, InTxn, gate,
       history
  <1>6. ASSUME WriteEdit
        PROVE  Cached'
    <2>1. /\ op.on \in Files /\ Put(op.on, stamps + 1) /\ known' = known
          /\ op'.on = op.on
      BY <1>0, <1>6, WrittenFrame DEF WriteEdit, Write, Put, gate, Framed, Typed, history
    <2>2. stamps + 1 \in Contents
      BY <1>0, <1>6, StampFacts DEF WriteEdit, Write, Typed
    <2> QED BY <1>2, <2>1, <2>2
  <1>7. ASSUME EditRefused
        PROVE  Cached'
    BY <1>0, <1>7 DEF Cached, RereadArms, EditRefused, Returns, InTxn, bounds,
       history
  <1>8. ASSUME EditAccepted
        PROVE  Cached'
    BY <1>0, <1>8 DEF Cached, RereadArms, EditAccepted, Returns, InTxn, bounds,
       history
  <1>9. ASSUME EditUndone
        PROVE  Cached'
    <2>1. op.on \in Files /\ known' = known /\ pc' # "review"
      BY <1>0, <1>9 DEF Framed, EditUndone, Returns
    <2>2. Put(op.on, op.was) \/ UNCHANGED <<files, cached>>
      BY <1>9 DEF EditUndone
    <2>3. CASE Put(op.on, op.was)
      BY <1>1, <1>2, <2>1, <2>3
    <2> QED BY <1>0, <2>1, <2>2, <2>3 DEF Cached, RereadArms
  <1>10. ASSUME NEW good \in BOOLEAN, Shell(good)
        PROVE  Cached'
    <2>1. known' = known /\ pc' # "review"
      BY <1>10 DEF Shell, Returns
    <2>2. CASE UNCHANGED <<files, cached>>
      BY <1>0, <2>1, <2>2 DEF Cached, RereadArms
    <2>3. ASSUME NEW f \in Files, Write(f)
          PROVE  Cached'
      <3>1. stamps + 1 \in Contents /\ Put(f, stamps + 1)
        BY <1>0, <2>3, StampFacts DEF Write, Typed
      <3> QED BY <1>2, <2>1, <3>1
    <2> QED BY <1>10, <2>2, <2>3 DEF Shell
  <1>11. ASSUME NEW good \in BOOLEAN, VerifyEnds(good)
        PROVE  Cached'
    BY <1>0, <1>11 DEF Cached, RereadArms, VerifyEnds, Pass, bounds
  <1>12. ASSUME NEW c \in Checks, RunCheck(c)
        PROVE  Cached'
    BY <1>0, <1>12 DEF Cached, RereadArms, RunCheck, Starts, InTxn, history
  <1>13. ASSUME NEW c \in Checks, VerifyRuns(c)
        PROVE  Cached'
    BY <1>0, <1>13 DEF Cached, RereadArms, VerifyRuns, bounds, history
  <1>14. ASSUME CheckPasses
        PROVE  Cached'
    BY <1>0, <1>14 DEF Cached, RereadArms, CheckPasses, Pass, tools, gate,
       bounds
  <1>15. ASSUME CheckFails
        PROVE  Cached'
    BY <1>0, <1>15 DEF Cached, RereadArms, CheckFails, Returns, InTxn, bounds,
       history
  <1>16. ASSUME FinishCheck
        PROVE  Cached'
    BY <1>0, <1>16 DEF Cached, RereadArms, FinishCheck, Returns, InTxn, bounds,
       history
  <1>17. ASSUME NEW P \in SUBSET Files, BeginTransaction(P)
        PROVE  Cached'
    BY <1>0, <1>17 DEF Cached, RereadArms, BeginTransaction, Starts, InTxn,
       gate, history
  <1>18. ASSUME StepRefused
        PROVE  Cached'
    BY <1>0, <1>18 DEF Cached, RereadArms, StepRefused, Returns, InTxn, bounds,
       history
  <1>19. ASSUME StepRaises
        PROVE  Cached'
    BY <1>0, <1>19 DEF Cached, RereadArms, StepRaises, InTxn, NoTxn, Ended,
       Concluded, bounds, history
  <1>20. ASSUME NEW f \in Files, Restore(f)
        PROVE  Cached'
    <2>1. /\ files' = [files EXCEPT ![f] = txn.snap[f]]
          /\ known' = [known EXCEPT ![f] = txn.snap[f]]
          /\ cached' = cached \ {f} /\ pc' = "restore"
      BY <1>0, <1>20 DEF Restore, Put
    <2> QED BY <1>0, <1>1, <2>1 DEF Cached, RereadArms, Trees
  <1>21. ASSUME RolledBack
        PROVE  Cached'
    BY <1>0, <1>21 DEF Cached, RereadArms, RolledBack, NoTxn, gate, bounds
  <1>22. ASSUME RollbackFails
        PROVE  Cached'
    <2>1. known' = known /\ pc' # "review"
      BY <1>22 DEF RollbackFails
    <2>2. CASE UNCHANGED <<files, cached>>
      BY <1>0, <2>1, <2>2 DEF Cached, RereadArms
    <2>3. ASSUME NEW f \in todo, Put(f, txn.snap[f])
          PROVE  Cached'
      <3>1. f \in Files /\ txn.snap[f] \in Contents
        BY <1>1, TreeFacts
      <3> QED BY <1>2, <2>1, <2>3, <3>1
    <2> QED BY <1>22, <2>2, <2>3 DEF RollbackFails
  <1>23. ASSUME FinalAnswer
        PROVE  Cached'
    BY <1>0, <1>23 DEF Cached, RereadArms, FinalAnswer, InTxn, Concluded,
       tools, gate, bounds, history
  <1>24. ASSUME VerifyBegins
        PROVE  Cached'
    BY <1>0, <1>24 DEF Cached, RereadArms, VerifyBegins, Ended, Concluded,
       tools, gate, bounds, history
  <1>25. ASSUME Persist
        PROVE  Cached'
    BY <1>0, <1>25 DEF Cached, RereadArms, Persist, Ended, Concluded,
       VerifyReturns, tools, bounds, history
  <1>26. ASSUME CollectPatch
        PROVE  Cached'
    BY <1>0, <1>26 DEF Cached, RereadArms, CollectPatch, tools, bounds, history
  <1>27. ASSUME Confirm
        PROVE  Cached'
    BY <1>0, <1>27 DEF Cached, RereadArms, Confirm, Ended, Concluded, tools,
       bounds, history
  <1>28. ASSUME NEW status \in {"failed", "cancelled"}, VerifyStops(status)
        PROVE  Cached'
    BY <1>0, <1>28 DEF Cached, RereadArms, VerifyStops, Ended, Concluded,
       VerifyReturns, tools, bounds, history
  <1>29. ASSUME NEW status \in {"failed", "cancelled"}, GiveUp(status)
        PROVE  Cached'
    BY <1>0, <1>29 DEF Cached, RereadArms, GiveUp, InTxn, Ended, Concluded,
       tools, bounds, history
  <1>30. ASSUME Continue
        PROVE  Cached'
    BY <1>30 DEF Cached, RereadArms, Continue
  <1>31. ASSUME NEW f \in Files, Outside(f)
        PROVE  Cached'
    <2>1. Put(f, stamps + 1) /\ known' = known /\ op' = op /\ pc' = pc
      BY <1>31 DEF Outside, tools
    <2>2. stamps + 1 \in Contents
      BY <1>0, <1>31, StampFacts DEF Outside, Typed
    <2> QED BY <1>0, <1>2, <2>1, <2>2 DEF Cached
  <1>32. CASE (\E c \in Checks : ReuseEvidence(c))
            \/ (\E c \in Checks : VerifyDenied(c)) \/ EndTransaction
            \/ UNCHANGED vars
    <2>1. UNCHANGED <<files, known, cached, op, pc>>
      BY <1>32 DEF vars, tools, gate, bounds, history, ReuseEvidence,
         VerifyDenied, EndTransaction, InTxn, NoTxn
    <2> QED BY <1>0, <2>1 DEF Cached, RereadArms
  <1>33. ASSUME ReportUnchanged
        PROVE  Cached'
    BY <1>0, <1>33 DEF Cached, RereadArms, ReportUnchanged, Ended, Concluded, tools,
       history
  <1> QED
    BY <1>3, <1>4, <1>5, <1>6, <1>7, <1>8, <1>9, <1>10, <1>11, <1>12, <1>13,
       <1>14, <1>15, <1>16, <1>17, <1>18, <1>19, <1>20, <1>21, <1>22, <1>23,
       <1>24, <1>25, <1>26, <1>27, <1>28, <1>29, <1>30, <1>31, <1>32, <1>33 DEF Next


\* A path that is restored is restored until somebody writes it.
LEMMA RestoredStep ==
    ASSUME Inv, [Next]_vars
    PROVE  Restored'
  <1>0. Typed /\ Framed /\ Restored
    BY DEF Inv
  <1>1. /\ files \in Trees /\ known \in Trees /\ txn.snap \in Trees
        /\ op.was \in Contents /\ cached \subseteq Files /\ todo \subseteq Files
    BY <1>0, FrameFacts DEF Typed
  <1>2. ASSUME NEW f \in Files, ReadFile(f)
        PROVE  Restored'
    BY <1>0, <1>2 DEF Restored, ReadFile, gate, bounds
  <1>3. ASSUME NEW f \in Files, ReplaceReads(f)
        PROVE  Restored'
    BY <1>0, <1>3 DEF Restored, ReplaceReads, Starts, RequireCurrent, InTxn,
       gate, history
  <1>4. ASSUME NEW f \in Files, PatchChecks(f)
        PROVE  Restored'
    BY <1>0, <1>4 DEF Restored, PatchChecks, Starts, InTxn, gate, history
  <1>5. ASSUME WriteEdit
        PROVE  Restored'
    BY <1>0, <1>5 DEF Restored, WriteEdit, Write, Put, gate, history
  <1>6. ASSUME EditRefused
        PROVE  Restored'
    BY <1>0, <1>6 DEF Restored, EditRefused, Returns, InTxn, bounds, history
  <1>7. ASSUME EditAccepted
        PROVE  Restored'
    BY <1>0, <1>7 DEF Restored, EditAccepted, Returns, InTxn, bounds, history
  <1>8. ASSUME EditUndone
        PROVE  Restored'
    BY <1>0, <1>8 DEF Restored, EditUndone, Returns, InTxn, Put, bounds, history
  <1>9. ASSUME NEW good \in BOOLEAN, Shell(good)
        PROVE  Restored'
    BY <1>0, <1>9 DEF Restored, Shell, Returns, InTxn, Write, Put, history
  <1>10. ASSUME NEW good \in BOOLEAN, VerifyEnds(good)
        PROVE  Restored'
    BY <1>0, <1>10 DEF Restored, VerifyEnds, Pass, bounds
  <1>11. ASSUME NEW c \in Checks, RunCheck(c)
        PROVE  Restored'
    BY <1>0, <1>11 DEF Restored, RunCheck, Starts, InTxn, history
  <1>12. ASSUME NEW c \in Checks, VerifyRuns(c)
        PROVE  Restored'
    BY <1>0, <1>12 DEF Restored, VerifyRuns, bounds, history
  <1>13. ASSUME CheckPasses
        PROVE  Restored'
    BY <1>0, <1>13 DEF Restored, CheckPasses, Pass, tools, gate, bounds
  <1>14. ASSUME CheckFails
        PROVE  Restored'
    BY <1>0, <1>14 DEF Restored, CheckFails, Returns, InTxn, bounds, history
  <1>15. ASSUME FinishCheck
        PROVE  Restored'
    BY <1>0, <1>15 DEF Restored, FinishCheck, Returns, InTxn, bounds, history
  <1>16. ASSUME NEW P \in SUBSET Files, BeginTransaction(P)
        PROVE  Restored'
    BY <1>0, <1>16 DEF Restored, BeginTransaction, Starts, InTxn, gate, history
  <1>17. ASSUME EndTransaction
        PROVE  Restored'
    BY <1>0, <1>17 DEF Restored, EndTransaction, InTxn, NoTxn, bounds, history
  <1>18. ASSUME StepRefused
        PROVE  Restored'
    BY <1>0, <1>18 DEF Restored, StepRefused, Returns, InTxn, bounds, history
  <1>19. ASSUME StepRaises
        PROVE  Restored'
    BY <1>0, <1>19 DEF Restored, StepRaises, InTxn, NoTxn, Ended, Concluded,
       bounds, history
  <1>20. ASSUME NEW f \in Files, Restore(f)
        PROVE  Restored'
    <2>1. /\ files' = [files EXCEPT ![f] = txn.snap[f]]
          /\ known' = [known EXCEPT ![f] = txn.snap[f]]
          /\ raced' = raced \ {f} /\ todo' = todo \ {f} /\ txn' = txn
          /\ pc = "restore" /\ f \in Files
      BY <1>1, <1>20 DEF Restore, Put
    <2> SUFFICES ASSUME NEW q \in txn.paths \ todo'
                 PROVE  /\ known'[q] = txn.snap[q]
                        /\ q \in raced' \/ files'[q] = txn.snap[q]
      BY <2>1 DEF Restored
    <2>2. q \in Files
      BY <1>0 DEF Typed
    <2>3. CASE q = f
      BY <1>1, <2>1, <2>3 DEF Trees
    <2>4. CASE q # f
      <3>1. known'[q] = known[q] /\ files'[q] = files[q]
        BY <1>1, <2>1, <2>2, <2>4 DEF Trees
      <3>2. q \in txn.paths \ todo /\ (q \in raced => q \in raced')
        BY <2>1, <2>4
      <3> QED BY <1>0, <2>1, <3>1, <3>2 DEF Restored
    <2> QED BY <2>3, <2>4
  <1>21. ASSUME RolledBack
        PROVE  Restored'
    BY <1>0, <1>21 DEF Restored, RolledBack, NoTxn, gate, bounds
  <1>22. ASSUME RollbackFails
        PROVE  Restored'
    BY <1>0, <1>22 DEF Restored, RollbackFails, Put, NoTxn, gate, bounds
  <1>23. ASSUME FinalAnswer
        PROVE  Restored'
    BY <1>0, <1>23 DEF Restored, FinalAnswer, InTxn, Concluded, tools, gate,
       bounds, history
  <1>24. ASSUME VerifyBegins
        PROVE  Restored'
    BY <1>0, <1>24 DEF Restored, VerifyBegins, Ended, Concluded, tools, gate,
       bounds, history
  <1>25. ASSUME Persist
        PROVE  Restored'
    BY <1>0, <1>25 DEF Restored, Persist, Ended, Concluded, VerifyReturns,
       tools, bounds, history
  <1>26. ASSUME CollectPatch
        PROVE  Restored'
    BY <1>0, <1>26 DEF Restored, CollectPatch, tools, bounds, history
  <1>27. ASSUME Confirm
        PROVE  Restored'
    BY <1>0, <1>27 DEF Restored, Confirm, Ended, Concluded, tools, bounds,
       history
  <1>28. ASSUME NEW status \in {"failed", "cancelled"}, VerifyStops(status)
        PROVE  Restored'
    BY <1>0, <1>28 DEF Restored, VerifyStops, Ended, Concluded, VerifyReturns,
       tools, bounds, history
  <1>29. ASSUME NEW status \in {"failed", "cancelled"}, GiveUp(status)
        PROVE  Restored'
    BY <1>0, <1>29 DEF Restored, GiveUp, InTxn, Ended, Concluded, tools,
       bounds, history
  <1>30. ASSUME Continue
        PROVE  Restored'
    BY <1>0, <1>30 DEF Restored, Continue, NoTxn, history
  <1>31. ASSUME NEW f \in Files, Outside(f)
        PROVE  Restored'
    <2>1. /\ files' = [files EXCEPT ![f] = stamps + 1]
          /\ UNCHANGED <<known, txn, todo, pc>>
          /\ raced' = IF pc \in {"restore", "closing"} THEN raced \cup {f} ELSE raced
      BY <1>31 DEF Outside, Put
    <2>2. \A g \in Files \ {f} : files'[g] = files[g]
      BY <1>1, <2>1 DEF Trees
    <2>3. txn.paths \subseteq Files
      BY <1>0 DEF Typed
    <2> QED BY <1>0, <2>1, <2>2, <2>3 DEF Restored
  <1>32. CASE (\E c \in Checks : ReuseEvidence(c))
            \/ (\E c \in Checks : VerifyDenied(c)) \/ UNCHANGED vars
    <2>1. UNCHANGED <<pc, txn, todo, known, files, raced>>
      BY <1>32 DEF vars, tools, gate, bounds, history, ReuseEvidence,
         VerifyDenied
    <2> QED BY <1>0, <2>1 DEF Restored
  <1>33. ASSUME ReportUnchanged
        PROVE  Restored'
    BY <1>0, <1>33 DEF Restored, ReportUnchanged, Ended, Concluded, tools,
       history
  <1> QED
    BY <1>2, <1>3, <1>4, <1>5, <1>6, <1>7, <1>8, <1>9, <1>10, <1>11, <1>12,
       <1>13, <1>14, <1>15, <1>16, <1>17, <1>18, <1>19, <1>20, <1>21, <1>22,
       <1>23, <1>24, <1>25, <1>26, <1>27, <1>28, <1>29, <1>30, <1>31, <1>32, <1>33 DEF
       Next


\* Evidence is only kept for contents that were there throughout.
LEMMA EvidentStep ==
    ASSUME Inv, [Next]_vars
    PROVE  Evident'
  <1>0. Typed /\ Framed /\ Stamped /\ Evident
    BY DEF Inv
  <1>1. evidence \in [Checks -> Optional]
    BY <1>0 DEF Typed
  <1>2. ASSUME passed \subseteq passed', evidence' = evidence,
               pc' \notin {"check", "checked"}
        PROVE  Evident'
    BY <1>0, <1>2 DEF Evident
  <1>3. ASSUME NEW f \in Files, ReplaceReads(f)
        PROVE  Evident'
    <2>1. /\ passed \subseteq passed' /\ evidence' = evidence
          /\ pc' \notin {"check", "checked"}
      BY <1>3 DEF ReplaceReads, Starts, RequireCurrent, InTxn, gate, history
    <2> QED BY <1>2, <2>1
  <1>4. ASSUME NEW f \in Files, PatchChecks(f)
        PROVE  Evident'
    <2>1. /\ passed \subseteq passed' /\ evidence' = evidence
          /\ pc' \notin {"check", "checked"}
      BY <1>4 DEF PatchChecks, Starts, InTxn, gate, history
    <2> QED BY <1>2, <2>1
  <1>5. ASSUME WriteEdit
        PROVE  Evident'
    <2>1. /\ passed \subseteq passed' /\ evidence' = evidence
          /\ pc' \notin {"check", "checked"}
      BY <1>5 DEF WriteEdit, Write, Put, gate, history
    <2> QED BY <1>2, <2>1
  <1>6. ASSUME EditRefused
        PROVE  Evident'
    <2>1. /\ passed \subseteq passed' /\ evidence' = evidence
          /\ pc' \notin {"check", "checked"}
      BY <1>6 DEF EditRefused, Returns, InTxn, bounds, history
    <2> QED BY <1>2, <2>1
  <1>7. ASSUME EditAccepted
        PROVE  Evident'
    <2>1. /\ passed \subseteq passed' /\ evidence' = evidence
          /\ pc' \notin {"check", "checked"}
      BY <1>7 DEF EditAccepted, Returns, InTxn, bounds, history
    <2> QED BY <1>2, <2>1
  <1>8. ASSUME EditUndone
        PROVE  Evident'
    <2>1. /\ passed \subseteq passed' /\ evidence' = evidence
          /\ pc' \notin {"check", "checked"}
      BY <1>8 DEF EditUndone, Returns, InTxn, Put, bounds, history
    <2> QED BY <1>2, <2>1
  <1>9. ASSUME NEW good \in BOOLEAN, Shell(good)
        PROVE  Evident'
    <2>1. /\ passed \subseteq passed' /\ evidence' = evidence
          /\ pc' \notin {"check", "checked"}
      BY <1>9 DEF Shell, Returns, InTxn, Write, Put, history
    <2> QED BY <1>2, <2>1
  <1>10. ASSUME NEW good \in BOOLEAN, VerifyEnds(good)
        PROVE  Evident'
    <2>1. /\ passed \subseteq passed' /\ evidence' = evidence
          /\ pc' \notin {"check", "checked"}
      BY <1>10 DEF VerifyEnds, Pass, bounds
    <2> QED BY <1>2, <2>1
  <1>11. ASSUME NEW c \in Checks, RunCheck(c)
        PROVE  Evident'
    <2>1. /\ passed' = passed /\ pc' = "check"
          /\ evidence' = evidence \/ evidence' = [evidence EXCEPT ![c] = {}]
      BY <1>11 DEF RunCheck, Starts, InTxn, history
    <2>2. PICK base \in {{}, {files}} : op' = CheckOp(c, files, base)
      BY <1>11 DEF RunCheck, Starts, CheckOp, NoOp
    <2>3. \A d \in Checks : evidence'[d] \subseteq evidence[d]
      BY <1>0, <2>1 DEF Typed
    <2>4. \A t \in op'.base : op'.tree = t
      BY <2>2 DEF CheckOp
    <2> QED BY <1>0, <2>1, <2>3, <2>4 DEF Evident
  <1>12. ASSUME NEW c \in Checks, VerifyRuns(c)
        PROVE  Evident'
    <2>1. /\ passed \subseteq passed' /\ evidence' = evidence
          /\ pc' \notin {"check", "checked"}
      BY <1>12 DEF VerifyRuns, bounds, history
    <2> QED BY <1>2, <2>1
  <1>13. ASSUME CheckPasses
        PROVE  Evident'
    <2>1. /\ evidence' = evidence /\ pc = "check" /\ pc' = "checked"
          /\ op' = op /\ files' = files /\ passed \subseteq passed'
          /\ files = op.tree => <<op.on, op.tree>> \in passed'
      BY <1>13 DEF CheckPasses, Pass, tools, gate, bounds
    <2> QED BY <1>0, <2>1 DEF Evident
  <1>14. ASSUME CheckFails
        PROVE  Evident'
    <2>1. /\ passed \subseteq passed' /\ evidence' = evidence
          /\ pc' \notin {"check", "checked"}
      BY <1>14 DEF CheckFails, Returns, InTxn, bounds, history
    <2> QED BY <1>2, <2>1
  <1>15. ASSUME FinishCheck
        PROVE  Evident'
    <2>1. /\ passed' = passed /\ pc = "checked" /\ pc' \notin {"check", "checked"}
          /\ \/ evidence' = evidence
             \/ /\ op.base = {files}
                /\ evidence' = [evidence EXCEPT ![op.on] = {files}]
      BY <1>15 DEF FinishCheck, Returns, InTxn, bounds, history
    <2>2. CASE evidence' = evidence
      BY <1>2, <2>1, <2>2
    <2>3. CASE /\ op.base = {files}
               /\ evidence' = [evidence EXCEPT ![op.on] = {files}]
      <3>1. op.tree = files
        BY <1>0, <2>1, <2>3 DEF Evident
      <3>2. <<op.on, files>> \in passed
        BY <1>0, <2>1, <3>1 DEF Evident
      <3>3. \A c \in Checks : \A t \in evidence'[c] :
                t \in evidence[c] \/ (c = op.on /\ t = files)
        BY <1>0, <2>3 DEF Typed
      <3> QED BY <1>0, <2>1, <3>2, <3>3 DEF Evident
    <2> QED BY <2>1, <2>2, <2>3
  <1>16. ASSUME NEW P \in SUBSET Files, BeginTransaction(P)
        PROVE  Evident'
    <2>1. /\ passed \subseteq passed' /\ evidence' = evidence
          /\ pc' \notin {"check", "checked"}
      BY <1>16 DEF BeginTransaction, Starts, InTxn, gate, history
    <2> QED BY <1>2, <2>1
  <1>17. ASSUME StepRefused
        PROVE  Evident'
    <2>1. /\ passed \subseteq passed' /\ evidence' = evidence
          /\ pc' \notin {"check", "checked"}
      BY <1>17 DEF StepRefused, Returns, InTxn, bounds, history
    <2> QED BY <1>2, <2>1
  <1>18. ASSUME StepRaises
        PROVE  Evident'
    <2>1. /\ passed \subseteq passed' /\ evidence' = evidence
          /\ pc' \notin {"check", "checked"}
      BY <1>18 DEF StepRaises, InTxn, NoTxn, Ended, Concluded, bounds, history
    <2> QED BY <1>2, <2>1
  <1>19. ASSUME NEW f \in Files, Restore(f)
        PROVE  Evident'
    <2>1. /\ passed \subseteq passed' /\ evidence' = evidence
          /\ pc' \notin {"check", "checked"}
      BY <1>19 DEF Restore, Put, gate, bounds
    <2> QED BY <1>2, <2>1
  <1>20. ASSUME RolledBack
        PROVE  Evident'
    <2>1. /\ passed \subseteq passed' /\ evidence' = evidence
          /\ pc' \notin {"check", "checked"}
      BY <1>20 DEF RolledBack, NoTxn, gate, bounds
    <2> QED BY <1>2, <2>1
  <1>21. ASSUME RollbackFails
        PROVE  Evident'
    <2>1. /\ passed \subseteq passed' /\ evidence' = evidence
          /\ pc' \notin {"check", "checked"}
      BY <1>21 DEF RollbackFails, Put, NoTxn, gate, bounds
    <2> QED BY <1>2, <2>1
  <1>22. ASSUME FinalAnswer
        PROVE  Evident'
    <2>1. /\ passed \subseteq passed' /\ evidence' = evidence
          /\ pc' \notin {"check", "checked"}
      BY <1>22 DEF FinalAnswer, InTxn, Concluded, tools, gate, bounds, history
    <2> QED BY <1>2, <2>1
  <1>23. ASSUME VerifyBegins
        PROVE  Evident'
    <2>1. /\ passed \subseteq passed' /\ evidence' = evidence
          /\ pc' \notin {"check", "checked"}
      BY <1>23 DEF VerifyBegins, Ended, Concluded, tools, gate, bounds, history
    <2> QED BY <1>2, <2>1
  <1>24. ASSUME Persist
        PROVE  Evident'
    <2>1. /\ passed \subseteq passed' /\ evidence' = evidence
          /\ pc' \notin {"check", "checked"}
      BY <1>24 DEF Persist, Ended, Concluded, VerifyReturns, tools, bounds,
         history
    <2> QED BY <1>2, <2>1
  <1>25. ASSUME CollectPatch
        PROVE  Evident'
    <2>1. /\ passed \subseteq passed' /\ evidence' = evidence
          /\ pc' \notin {"check", "checked"}
      BY <1>25 DEF CollectPatch, tools, bounds, history
    <2> QED BY <1>2, <2>1
  <1>26. ASSUME Confirm
        PROVE  Evident'
    <2>1. /\ passed \subseteq passed' /\ evidence' = evidence
          /\ pc' \notin {"check", "checked"}
      BY <1>26 DEF Confirm, Ended, Concluded, tools, bounds, history
    <2> QED BY <1>2, <2>1
  <1>27. ASSUME NEW status \in {"failed", "cancelled"}, VerifyStops(status)
        PROVE  Evident'
    <2>1. /\ passed \subseteq passed' /\ evidence' = evidence
          /\ pc' \notin {"check", "checked"}
      BY <1>27 DEF VerifyStops, Ended, Concluded, VerifyReturns, tools, bounds,
         history
    <2> QED BY <1>2, <2>1
  <1>28. ASSUME NEW status \in {"failed", "cancelled"}, GiveUp(status)
        PROVE  Evident'
    <2>1. /\ passed \subseteq passed' /\ evidence' = evidence
          /\ pc' \notin {"check", "checked"}
      BY <1>28 DEF GiveUp, InTxn, Ended, Concluded, tools, bounds, history
    <2> QED BY <1>2, <2>1
  <1>29. ASSUME Continue
        PROVE  Evident'
    <2>1. /\ passed' = passed /\ pc' = "loop"
          /\ evidence' = evidence \/ evidence' = [c \in Checks |-> {}]
      BY <1>29 DEF Continue, NoTxn, history
    <2>2. \A c \in Checks : evidence'[c] \subseteq evidence[c]
      BY <1>0, <2>1
    <2> QED BY <1>0, <2>1, <2>2 DEF Evident
  <1>30. ASSUME NEW f \in Files, Outside(f)
        PROVE  Evident'
    <2>1. /\ files' = [files EXCEPT ![f] = stamps + 1] /\ pc' = pc
          /\ UNCHANGED <<evidence, passed, op>>
      BY <1>30 DEF Outside, Put, gate
    <2>2. files' \in Trees /\ stamps \in Nat
      <3>1. stamps + 1 \in Contents /\ stamps \in Nat
        BY <1>0, <1>30, StampFacts, Bounded DEF Outside, Typed, Contents
      <3> QED BY <1>0, <2>1, <3>1, TreeFacts DEF Typed
    <2>3. files'[f] = stamps + 1
      BY <1>0, <2>1 DEF Typed, Trees
    <2>4. files' \notin Past(stamps)
      BY <2>2, <2>3, NewContents
    <2>5. op.tree # files'
      BY <1>0, <2>4 DEF Stamped
    <2> QED BY <1>0, <2>1, <2>5 DEF Evident
  <1>31. CASE (\E f \in Files : ReadFile(f))
            \/ (\E c \in Checks : ReuseEvidence(c))
            \/ (\E c \in Checks : VerifyDenied(c)) \/ EndTransaction
            \/ UNCHANGED vars
    <2>1. UNCHANGED <<evidence, passed, op, pc, files>>
      BY <1>31 DEF vars, tools, gate, bounds, history, ReadFile, ReuseEvidence,
         VerifyDenied, EndTransaction, InTxn, NoTxn
    <2> QED BY <1>0, <2>1 DEF Evident
  <1>32. ASSUME ReportUnchanged
        PROVE  Evident'
    BY <1>0, <1>32 DEF Evident, ReportUnchanged, Ended, Concluded, tools,
       history
  <1> QED
    BY <1>3, <1>4, <1>5, <1>6, <1>7, <1>8, <1>9, <1>10, <1>11, <1>12, <1>13,
       <1>14, <1>15, <1>16, <1>17, <1>18, <1>19, <1>20, <1>21, <1>22, <1>23,
       <1>24, <1>25, <1>26, <1>27, <1>28, <1>29, <1>30, <1>31, <1>32 DEF Next


\* While the contents are those of the start, every check that is through passed.
LEMMA VerifyingStep ==
    ASSUME Inv, [Next]_vars
    PROVE  Verifying'
  <1>0. Typed /\ Framed /\ Stamped /\ Evident /\ Verifying
    BY DEF Inv
  <1>1. ASSUME pc' \notin {"verify", "verifying"}
        PROVE  Verifying'
    BY <1>1 DEF Verifying
  <1>2. \A c \in left : c \in Checks
    BY <1>0 DEF Typed
  <1>3. ASSUME NEW f \in Files, ReplaceReads(f)
        PROVE  Verifying'
    <2>1. pc' \notin {"verify", "verifying"}
      BY <1>3 DEF ReplaceReads, Starts, RequireCurrent, InTxn, gate, history
    <2> QED BY <1>1, <2>1
  <1>4. ASSUME NEW f \in Files, PatchChecks(f)
        PROVE  Verifying'
    <2>1. pc' \notin {"verify", "verifying"}
      BY <1>4 DEF PatchChecks, Starts, InTxn, gate, history
    <2> QED BY <1>1, <2>1
  <1>5. ASSUME WriteEdit
        PROVE  Verifying'
    <2>1. pc' \notin {"verify", "verifying"}
      BY <1>5 DEF WriteEdit, Write, Put, gate, history
    <2> QED BY <1>1, <2>1
  <1>6. ASSUME EditRefused
        PROVE  Verifying'
    <2>1. pc' \notin {"verify", "verifying"}
      BY <1>6 DEF EditRefused, Returns, InTxn, bounds, history
    <2> QED BY <1>1, <2>1
  <1>7. ASSUME EditAccepted
        PROVE  Verifying'
    <2>1. pc' \notin {"verify", "verifying"}
      BY <1>7 DEF EditAccepted, Returns, InTxn, bounds, history
    <2> QED BY <1>1, <2>1
  <1>8. ASSUME EditUndone
        PROVE  Verifying'
    <2>1. pc' \notin {"verify", "verifying"}
      BY <1>8 DEF EditUndone, Returns, InTxn, Put, bounds, history
    <2> QED BY <1>1, <2>1
  <1>9. ASSUME NEW good \in BOOLEAN, Shell(good)
        PROVE  Verifying'
    <2>1. pc' \notin {"verify", "verifying"}
      BY <1>9 DEF Shell, Returns, InTxn, Write, Put, history
    <2> QED BY <1>1, <2>1
  <1>10. ASSUME NEW good \in BOOLEAN, VerifyEnds(good)
        PROVE  Verifying'
    <2>1. /\ pc = "verifying" /\ pc' = "verify"
          /\ UNCHANGED <<start, left, files>> /\ passed \subseteq passed'
      BY <1>10 DEF VerifyEnds, Pass, bounds
    <2>2. ok' => ok /\ (files = op.tree => <<op.on, op.tree>> \in passed')
      BY <1>10 DEF VerifyEnds, Pass, bounds
    <2> QED BY <1>0, <2>1, <2>2 DEF Verifying
  <1>11. ASSUME NEW c \in Checks, RunCheck(c)
        PROVE  Verifying'
    <2>1. pc' \notin {"verify", "verifying"}
      BY <1>11 DEF RunCheck, Starts, InTxn, history
    <2> QED BY <1>1, <2>1
  <1>12. ASSUME NEW c \in Checks, ReuseEvidence(c)
        PROVE  Verifying'
    <2>1. /\ pc = "verify" /\ UNCHANGED <<start, ok, passed, op, pc, files>>
          /\ left' = left \ {c} /\ evidence[c] = {files} /\ start = {files}
      BY <1>12 DEF ReuseEvidence, tools, bounds, history
    <2>2. <<c, files>> \in passed
      BY <1>0, <2>1 DEF Evident
    <2> QED BY <1>0, <2>1, <2>2 DEF Verifying
  <1>13. ASSUME NEW c \in Checks, VerifyRuns(c)
        PROVE  Verifying'
    <2>1. /\ pc = "verify" /\ UNCHANGED <<start, ok, passed, files>>
          /\ left' = left \ {c} /\ pc' = "verifying"
          /\ op' = CheckOp(c, files, {})
      BY <1>13 DEF VerifyRuns, bounds, history, CheckOp, NoOp
    <2>2. op'.tree = files /\ op'.on = c
      BY <2>1 DEF CheckOp
    <2> QED BY <1>0, <2>1, <2>2 DEF Verifying
  <1>14. ASSUME NEW c \in Checks, VerifyDenied(c)
        PROVE  Verifying'
    <2>1. pc = "verify" /\ UNCHANGED <<start, pc>> /\ ok' = FALSE
      BY <1>14 DEF VerifyDenied, tools, bounds, history
    <2> QED BY <1>0, <2>1 DEF Verifying
  <1>15. ASSUME CheckPasses
        PROVE  Verifying'
    <2>1. pc' \notin {"verify", "verifying"}
      BY <1>15 DEF CheckPasses, Pass, tools, gate, bounds
    <2> QED BY <1>1, <2>1
  <1>16. ASSUME CheckFails
        PROVE  Verifying'
    <2>1. pc' \notin {"verify", "verifying"}
      BY <1>16 DEF CheckFails, Returns, InTxn, bounds, history
    <2> QED BY <1>1, <2>1
  <1>17. ASSUME FinishCheck
        PROVE  Verifying'
    <2>1. pc' \notin {"verify", "verifying"}
      BY <1>17 DEF FinishCheck, Returns, InTxn, bounds, history
    <2> QED BY <1>1, <2>1
  <1>18. ASSUME NEW P \in SUBSET Files, BeginTransaction(P)
        PROVE  Verifying'
    <2>1. pc' \notin {"verify", "verifying"}
      BY <1>18 DEF BeginTransaction, Starts, InTxn, gate, history
    <2> QED BY <1>1, <2>1
  <1>19. ASSUME StepRefused
        PROVE  Verifying'
    <2>1. pc' \notin {"verify", "verifying"}
      BY <1>19 DEF StepRefused, Returns, InTxn, bounds, history
    <2> QED BY <1>1, <2>1
  <1>20. ASSUME StepRaises
        PROVE  Verifying'
    <2>1. pc' \notin {"verify", "verifying"}
      BY <1>20 DEF StepRaises, InTxn, NoTxn, Ended, Concluded, bounds, history
    <2> QED BY <1>1, <2>1
  <1>21. ASSUME NEW f \in Files, Restore(f)
        PROVE  Verifying'
    <2>1. pc' \notin {"verify", "verifying"}
      BY <1>21 DEF Restore, Put, gate, bounds
    <2> QED BY <1>1, <2>1
  <1>22. ASSUME RolledBack
        PROVE  Verifying'
    <2>1. pc' \notin {"verify", "verifying"}
      BY <1>22 DEF RolledBack, NoTxn, gate, bounds
    <2> QED BY <1>1, <2>1
  <1>23. ASSUME RollbackFails
        PROVE  Verifying'
    <2>1. pc' \notin {"verify", "verifying"}
      BY <1>23 DEF RollbackFails, Put, NoTxn, gate, bounds
    <2> QED BY <1>1, <2>1
  <1>24. ASSUME FinalAnswer
        PROVE  Verifying'
    <2>1. pc' \notin {"verify", "verifying"}
      BY <1>24 DEF FinalAnswer, InTxn, Concluded, tools, gate, bounds, history
    <2> QED BY <1>1, <2>1
  <1>25. ASSUME VerifyBegins
        PROVE  Verifying'
    <2>1. \/ pc' = "done"
          \/ pc' = "verify" /\ start' = {files} /\ left' = Checks
      BY <1>25 DEF VerifyBegins, Ended, Concluded, tools, gate, bounds, history
    <2>2. CASE pc' = "done"
      BY <1>1, <2>2
    <2>3. CASE pc' = "verify" /\ start' = {files} /\ left' = Checks
      BY <2>3 DEF Verifying
    <2> QED BY <2>1, <2>2, <2>3
  <1>26. ASSUME Persist
        PROVE  Verifying'
    <2>1. pc' \notin {"verify", "verifying"}
      BY <1>26 DEF Persist, Ended, Concluded, VerifyReturns, tools, bounds,
         history
    <2> QED BY <1>1, <2>1
  <1>27. ASSUME CollectPatch
        PROVE  Verifying'
    <2>1. pc' \notin {"verify", "verifying"}
      BY <1>27 DEF CollectPatch, tools, bounds, history
    <2> QED BY <1>1, <2>1
  <1>28. ASSUME Confirm
        PROVE  Verifying'
    <2>1. pc' \notin {"verify", "verifying"}
      BY <1>28 DEF Confirm, Ended, Concluded, tools, bounds, history
    <2> QED BY <1>1, <2>1
  <1>29. ASSUME NEW status \in {"failed", "cancelled"}, VerifyStops(status)
        PROVE  Verifying'
    <2>1. pc' \notin {"verify", "verifying"}
      BY <1>29 DEF VerifyStops, Ended, Concluded, VerifyReturns, tools, bounds,
         history
    <2> QED BY <1>1, <2>1
  <1>30. ASSUME NEW status \in {"failed", "cancelled"}, GiveUp(status)
        PROVE  Verifying'
    <2>1. pc' \notin {"verify", "verifying"}
      BY <1>30 DEF GiveUp, InTxn, Ended, Concluded, tools, bounds, history
    <2> QED BY <1>1, <2>1
  <1>31. ASSUME Continue
        PROVE  Verifying'
    <2>1. pc' \notin {"verify", "verifying"}
      BY <1>31 DEF Continue, NoTxn, history
    <2> QED BY <1>1, <2>1
  <1>32. ASSUME NEW f \in Files, Outside(f)
        PROVE  Verifying'
    <2>1. /\ files' = [files EXCEPT ![f] = stamps + 1] /\ pc' = pc
          /\ UNCHANGED <<start, left, ok, passed, op>>
      BY <1>32 DEF Outside, Put, gate
    <2>2. files' \in Trees /\ stamps \in Nat
      <3>1. stamps + 1 \in Contents /\ stamps \in Nat
        BY <1>0, <1>32, StampFacts, Bounded DEF Outside, Typed, Contents
      <3> QED BY <1>0, <2>1, <3>1, TreeFacts DEF Typed
    <2>3. files'[f] = stamps + 1
      BY <1>0, <2>1 DEF Typed, Trees
    <2>4. files' \notin Past(stamps)
      BY <2>2, <2>3, NewContents
    <2>5. \A t \in start' : files' # t
      BY <1>0, <2>1, <2>4 DEF Stamped
    <2> QED BY <1>0, <2>1, <2>5 DEF Verifying
  <1>33. CASE (\E f \in Files : ReadFile(f)) \/ EndTransaction
            \/ UNCHANGED vars
    <2>1. UNCHANGED <<start, left, ok, passed, op, pc, files>>
      BY <1>33 DEF vars, tools, gate, bounds, history, ReadFile,
         EndTransaction, InTxn, NoTxn
    <2> QED BY <1>0, <2>1 DEF Verifying
  <1>34. ASSUME ReportUnchanged
        PROVE  Verifying'
    BY <1>0, <1>34 DEF Verifying, ReportUnchanged, Ended, Concluded, tools,
       history
  <1> QED
    BY <1>3, <1>4, <1>5, <1>6, <1>7, <1>8, <1>9, <1>10, <1>11, <1>12, <1>13,
       <1>14, <1>15, <1>16, <1>17, <1>18, <1>19, <1>20, <1>21, <1>22, <1>23,
       <1>24, <1>25, <1>26, <1>27, <1>28, <1>29, <1>30, <1>31, <1>32, <1>33, <1>34 DEF
       Next


\* What is taken as verified was the base or passed every check.
LEMMA TrustedStep ==
    ASSUME Inv, [Next]_vars
    PROVE  Trusted'
  <1>0. Typed /\ Framed /\ Stamped /\ Verifying /\ Trusted
    BY DEF Inv
  <1>1. passed \subseteq passed' => \A t : PassedAll(t) => PassedAll(t)'
    BY DEF PassedAll
  <1>u. pc # "done" => result.status = "none"
    BY <1>0 DEF Framed
  <1>2. ASSUME NEW f \in Files, ReplaceReads(f)
        PROVE  Trusted'
    <2>1. /\ UNCHANGED <<verified, result>> /\ passed \subseteq passed'
          /\ pc # "done" /\ pc' \notin {"closing", "collect", "confirm"}
      BY <1>2 DEF ReplaceReads, Starts, RequireCurrent, InTxn, gate, history
    <2> QED BY <1>0, <1>1, <1>u, <2>1 DEF Trusted, VerifiedIsPassed,
           UntouchedIsTrusted
  <1>3. ASSUME NEW f \in Files, PatchChecks(f)
        PROVE  Trusted'
    <2>1. /\ UNCHANGED <<verified, result>> /\ passed \subseteq passed'
          /\ pc # "done" /\ pc' \notin {"closing", "collect", "confirm"}
      BY <1>3 DEF PatchChecks, Starts, InTxn, gate, history
    <2> QED BY <1>0, <1>1, <1>u, <2>1 DEF Trusted, VerifiedIsPassed,
           UntouchedIsTrusted
  <1>4. ASSUME WriteEdit
        PROVE  Trusted'
    <2>1. /\ UNCHANGED <<verified, result>> /\ passed \subseteq passed'
          /\ pc # "done" /\ pc' \notin {"closing", "collect", "confirm"}
      BY <1>4 DEF WriteEdit, Write, Put, gate, history
    <2> QED BY <1>0, <1>1, <1>u, <2>1 DEF Trusted, VerifiedIsPassed,
           UntouchedIsTrusted
  <1>5. ASSUME EditRefused
        PROVE  Trusted'
    <2>1. /\ UNCHANGED <<verified, result>> /\ passed \subseteq passed'
          /\ pc # "done" /\ pc' \notin {"closing", "collect", "confirm"}
      BY <1>5 DEF EditRefused, Returns, InTxn, bounds, history
    <2> QED BY <1>0, <1>1, <1>u, <2>1 DEF Trusted, VerifiedIsPassed,
           UntouchedIsTrusted
  <1>6. ASSUME EditAccepted
        PROVE  Trusted'
    <2>1. /\ UNCHANGED <<verified, result>> /\ passed \subseteq passed'
          /\ pc # "done" /\ pc' \notin {"closing", "collect", "confirm"}
      BY <1>6 DEF EditAccepted, Returns, InTxn, bounds, history
    <2> QED BY <1>0, <1>1, <1>u, <2>1 DEF Trusted, VerifiedIsPassed,
           UntouchedIsTrusted
  <1>7. ASSUME EditUndone
        PROVE  Trusted'
    <2>1. /\ UNCHANGED <<verified, result>> /\ passed \subseteq passed'
          /\ pc # "done" /\ pc' \notin {"closing", "collect", "confirm"}
      BY <1>7 DEF EditUndone, Returns, InTxn, Put, bounds, history
    <2> QED BY <1>0, <1>1, <1>u, <2>1 DEF Trusted, VerifiedIsPassed,
           UntouchedIsTrusted
  <1>8. ASSUME NEW good \in BOOLEAN, Shell(good)
        PROVE  Trusted'
    <2>1. /\ UNCHANGED <<verified, result>> /\ passed \subseteq passed'
          /\ pc # "done" /\ pc' \notin {"closing", "collect", "confirm"}
      BY <1>8 DEF Shell, Returns, InTxn, Write, Put, history
    <2> QED BY <1>0, <1>1, <1>u, <2>1 DEF Trusted, VerifiedIsPassed,
           UntouchedIsTrusted
  <1>9. ASSUME NEW good \in BOOLEAN, VerifyEnds(good)
        PROVE  Trusted'
    <2>1. /\ UNCHANGED <<verified, result>> /\ passed \subseteq passed'
          /\ pc # "done" /\ pc' \notin {"closing", "collect", "confirm"}
      BY <1>9 DEF VerifyEnds, Pass, bounds
    <2> QED BY <1>0, <1>1, <1>u, <2>1 DEF Trusted, VerifiedIsPassed,
           UntouchedIsTrusted
  <1>10. ASSUME NEW c \in Checks, RunCheck(c)
        PROVE  Trusted'
    <2>1. /\ UNCHANGED <<verified, result>> /\ passed \subseteq passed'
          /\ pc # "done" /\ pc' \notin {"closing", "collect", "confirm"}
      BY <1>10 DEF RunCheck, Starts, InTxn, history
    <2> QED BY <1>0, <1>1, <1>u, <2>1 DEF Trusted, VerifiedIsPassed,
           UntouchedIsTrusted
  <1>11. ASSUME NEW c \in Checks, VerifyRuns(c)
        PROVE  Trusted'
    <2>1. /\ UNCHANGED <<verified, result>> /\ passed \subseteq passed'
          /\ pc # "done" /\ pc' \notin {"closing", "collect", "confirm"}
      BY <1>11 DEF VerifyRuns, bounds, history
    <2> QED BY <1>0, <1>1, <1>u, <2>1 DEF Trusted, VerifiedIsPassed,
           UntouchedIsTrusted
  <1>12. ASSUME CheckPasses
        PROVE  Trusted'
    <2>1. /\ UNCHANGED <<verified, result>> /\ passed \subseteq passed'
          /\ pc # "done" /\ pc' \notin {"closing", "collect", "confirm"}
      BY <1>12 DEF CheckPasses, Pass, tools, gate, bounds
    <2> QED BY <1>0, <1>1, <1>u, <2>1 DEF Trusted, VerifiedIsPassed,
           UntouchedIsTrusted
  <1>13. ASSUME CheckFails
        PROVE  Trusted'
    <2>1. /\ UNCHANGED <<verified, result>> /\ passed \subseteq passed'
          /\ pc # "done" /\ pc' \notin {"closing", "collect", "confirm"}
      BY <1>13 DEF CheckFails, Returns, InTxn, bounds, history
    <2> QED BY <1>0, <1>1, <1>u, <2>1 DEF Trusted, VerifiedIsPassed,
           UntouchedIsTrusted
  <1>14. ASSUME FinishCheck
        PROVE  Trusted'
    <2>1. /\ UNCHANGED <<verified, result>> /\ passed \subseteq passed'
          /\ pc # "done" /\ pc' \notin {"closing", "collect", "confirm"}
      BY <1>14 DEF FinishCheck, Returns, InTxn, bounds, history
    <2> QED BY <1>0, <1>1, <1>u, <2>1 DEF Trusted, VerifiedIsPassed,
           UntouchedIsTrusted
  <1>15. ASSUME NEW P \in SUBSET Files, BeginTransaction(P)
        PROVE  Trusted'
    <2>1. /\ UNCHANGED <<verified, result>> /\ passed \subseteq passed'
          /\ pc # "done" /\ pc' \notin {"closing", "collect", "confirm"}
      BY <1>15 DEF BeginTransaction, Starts, InTxn, gate, history
    <2> QED BY <1>0, <1>1, <1>u, <2>1 DEF Trusted, VerifiedIsPassed,
           UntouchedIsTrusted
  <1>16. ASSUME StepRefused
        PROVE  Trusted'
    <2>1. /\ UNCHANGED <<verified, result>> /\ passed \subseteq passed'
          /\ pc # "done" /\ pc' \notin {"closing", "collect", "confirm"}
      BY <1>16 DEF StepRefused, Returns, InTxn, bounds, history
    <2> QED BY <1>0, <1>1, <1>u, <2>1 DEF Trusted, VerifiedIsPassed,
           UntouchedIsTrusted
  <1>17. ASSUME StepRaises
        PROVE  Trusted'
    <2>1. /\ verified' = verified /\ passed' = passed /\ pc' = "done"
          /\ result'.status \in {"failed", "cancelled"}
      BY <1>17 DEF StepRaises, InTxn, NoTxn, Ended, Concluded, bounds, history
    <2> QED BY <1>0, <1>1, <1>u, <2>1 DEF Trusted, VerifiedIsPassed,
           UntouchedIsTrusted
  <1>18. ASSUME NEW f \in Files, Restore(f)
        PROVE  Trusted'
    <2>1. /\ UNCHANGED <<verified, result>> /\ passed \subseteq passed'
          /\ pc # "done" /\ pc' \notin {"closing", "collect", "confirm"}
      BY <1>18 DEF Restore, Put, gate, bounds
    <2> QED BY <1>0, <1>1, <1>u, <2>1 DEF Trusted, VerifiedIsPassed,
           UntouchedIsTrusted
  <1>19. ASSUME RolledBack
        PROVE  Trusted'
    <2>1. /\ UNCHANGED <<verified, result>> /\ passed \subseteq passed'
          /\ pc # "done" /\ pc' \notin {"closing", "collect", "confirm"}
      BY <1>19 DEF RolledBack, NoTxn, gate, bounds
    <2> QED BY <1>0, <1>1, <1>u, <2>1 DEF Trusted, VerifiedIsPassed,
           UntouchedIsTrusted
  <1>20. ASSUME RollbackFails
        PROVE  Trusted'
    <2>1. /\ UNCHANGED <<verified, result>> /\ passed \subseteq passed'
          /\ pc # "done" /\ pc' \notin {"closing", "collect", "confirm"}
      BY <1>20 DEF RollbackFails, Put, NoTxn, gate, bounds
    <2> QED BY <1>0, <1>1, <1>u, <2>1 DEF Trusted, VerifiedIsPassed,
           UntouchedIsTrusted
  <1>21. ASSUME FinalAnswer
        PROVE  Trusted'
    <2>1. /\ UNCHANGED <<verified, passed, files, raced, result>> /\ pc = "loop"
          /\ pc' \notin {"collect", "confirm"}
          /\ pc' = "closing" => verified = {files}
      BY <1>0, <1>21 DEF FinalAnswer, tools, gate, bounds, history, Typed
    <2> QED BY <1>0, <1>1, <1>u, <2>1
        DEF Trusted, VerifiedIsPassed, UntouchedIsTrusted
  <1>22. ASSUME VerifyBegins
        PROVE  Trusted'
    <2>1. /\ verified' = verified /\ passed' = passed
          /\ pc = "gate" /\ pc' \notin {"closing", "collect", "confirm"}
          /\ result' = result \/ result'.status = "failed"
      BY <1>22 DEF VerifyBegins, Ended, Concluded, tools, gate, bounds, history
    <2> QED BY <1>0, <1>1, <1>u, <2>1 DEF Trusted, VerifiedIsPassed,
           UntouchedIsTrusted
  <1>23. ASSUME Persist
        PROVE  Trusted'
    <2>1. /\ passed' = passed /\ pc = "verify" /\ left = {}
          /\ \/ verified' = {files} /\ ok /\ start = {files}
             \/ verified' = {}
          /\ pc' \notin {"closing", "confirm"} /\ (pc' = "collect" => verified' = {files})
          /\ result' = result \/ result'.status = "failed"
      BY <1>0, <1>23 DEF Persist, Ended, Concluded, VerifyReturns, tools,
         bounds, history, Typed
    <2>2. ok /\ start = {files} => PassedAll(files)
      BY <1>0, <2>1 DEF Verifying, PassedAll
    <2>3. \A t \in verified' : PassedAll(t)
      BY <2>1, <2>2
    <2> QED BY <1>0, <1>1, <1>u, <2>1, <2>3
        DEF Trusted, VerifiedIsPassed, UntouchedIsTrusted
  <1>24. ASSUME CollectPatch
        PROVE  Trusted'
    <2>1. /\ passed' = passed /\ verified' = verified /\ pc = "collect"
          /\ files' = files /\ result' = [result EXCEPT !.tree = files]
          /\ pc' = "confirm"
      BY <1>24 DEF CollectPatch, tools, bounds, history
    <2>2. result.status = "none"
      BY <1>0, <2>1 DEF Framed
    <2>3. result'.tree = files /\ result'.status = "none"
      BY <1>0, <2>1, <2>2 DEF Typed
    <2> QED BY <1>0, <1>1, <1>u, <2>1, <2>3
        DEF Trusted, VerifiedIsPassed, UntouchedIsTrusted
  <1>25. ASSUME Confirm
        PROVE  Trusted'
    <2>1. /\ passed' = passed /\ pc = "confirm" /\ pc' = "done"
          /\ verified' = verified \/ verified' = {}
          /\ \/ result'.status = "failed"
             \/ verified = {files} /\ result' = [status |-> "verified",
                                               tree |-> result.tree]
      BY <1>25 DEF Confirm, Ended, Concluded, tools, bounds, history
    <2>2. verified = {files} => result.tree = files /\ PassedAll(files)
      BY <1>0, <2>1 DEF Trusted
    <2> QED BY <1>0, <1>1, <1>u, <2>1, <2>2
        DEF Trusted, VerifiedIsPassed, UntouchedIsTrusted
  <1>26. ASSUME NEW status \in {"failed", "cancelled"}, VerifyStops(status)
        PROVE  Trusted'
    <2>1. /\ passed' = passed /\ pc = "verify" /\ pc' = "done"
          /\ \/ verified' = verified \/ verified' = {}
             \/ verified' = {files} /\ left = {} /\ ok /\ start = {files}
          /\ result'.status \in {"failed", "cancelled"}
      BY <1>0, <1>26 DEF VerifyStops, Ended, Concluded, VerifyReturns, tools,
         bounds, history, Typed
    <2>2. left = {} /\ ok /\ start = {files} => PassedAll(files)
      BY <1>0, <2>1 DEF Verifying, PassedAll
    <2>3. \A t \in verified' : t \in verified \/ PassedAll(t)
      BY <2>1, <2>2
    <2> QED BY <1>0, <1>1, <1>u, <2>1, <2>3
        DEF Trusted, VerifiedIsPassed, UntouchedIsTrusted
  <1>27. ASSUME NEW status \in {"failed", "cancelled"}, GiveUp(status)
        PROVE  Trusted'
    <2>1. /\ verified' = verified /\ passed' = passed /\ pc' = "done"
          /\ result'.status \in {"failed", "cancelled"}
      BY <1>27 DEF GiveUp, InTxn, Ended, Concluded, tools, bounds, history
    <2> QED BY <1>0, <1>1, <1>u, <2>1 DEF Trusted, VerifiedIsPassed,
           UntouchedIsTrusted
  <1>28. ASSUME Continue
        PROVE  Trusted'
    <2>1. /\ verified' = verified /\ passed' = passed /\ pc' = "loop"
          /\ result'.status = "none"
      BY <1>28 DEF Continue, NoTxn, history, NoResult
    <2> QED BY <1>0, <1>1, <1>u, <2>1 DEF Trusted, VerifiedIsPassed,
           UntouchedIsTrusted
  <1>29. ASSUME NEW f \in Files, Outside(f)
        PROVE  Trusted'
    <2>1. /\ files' = [files EXCEPT ![f] = stamps + 1] /\ pc' = pc
          /\ UNCHANGED <<verified, result, passed>>
          /\ raced' = IF pc \in {"restore", "closing"} THEN raced \cup {f} ELSE raced
      BY <1>29 DEF Outside, Put, gate
    <2>2. files' \in Trees /\ stamps \in Nat
      <3>1. stamps + 1 \in Contents /\ stamps \in Nat
        BY <1>0, <1>29, StampFacts, Bounded DEF Outside, Typed, Contents
      <3> QED BY <1>0, <2>1, <3>1, TreeFacts DEF Typed
    <2>3. files'[f] = stamps + 1
      BY <1>0, <2>1 DEF Typed, Trees
    <2>4. files' \notin Past(stamps)
      BY <2>2, <2>3, NewContents
    <2>5. \A t \in verified' : files' # t
      BY <1>0, <2>1, <2>4 DEF Stamped
    <2>6. passed' = passed /\ verified' = verified /\ result' = result
      BY <2>1
    <2>7. \A g \in Files \ {f} : files'[g] = files[g]
      BY <1>0, <2>1 DEF Typed, Trees
    <2>8. pc = "closing" =>
            \A t \in verified : \A g \in Files \ raced' : files'[g] = t[g]
      BY <1>0, <2>1, <2>7 DEF Trusted
    <2>9. UntouchedIsTrusted'
      BY <1>0, <1>1, <1>u, <2>1, <2>6 DEF Trusted, UntouchedIsTrusted
    <2> QED BY <1>0, <1>1, <2>1, <2>5, <2>6, <2>8, <2>9
        DEF Trusted, VerifiedIsPassed
  <1>30. CASE (\E f \in Files : ReadFile(f))
            \/ (\E c \in Checks : ReuseEvidence(c))
            \/ (\E c \in Checks : VerifyDenied(c)) \/ EndTransaction
            \/ UNCHANGED vars
    <2>1. UNCHANGED <<verified, result, passed, pc, files, raced>>
      BY <1>30 DEF vars, tools, gate, bounds, history, ReadFile, ReuseEvidence,
         VerifyDenied, EndTransaction, InTxn, NoTxn
    <2> QED BY <1>0, <2>1 DEF Trusted, VerifiedIsPassed, UntouchedIsTrusted,
           PassedAll
  <1>31. ASSUME ReportUnchanged
        PROVE  Trusted'
    <2>1. /\ pc = "closing" /\ pc' = "done"
          /\ UNCHANGED <<verified, passed, files, raced>>
          /\ \/ result' = [status |-> "no_changes", tree |-> files]
             \/ result'.status = "failed"
      BY <1>31 DEF ReportUnchanged, Ended, Concluded, history
    <2>2. PICK t \in verified : /\ t = Base \/ PassedAll(t)
                                /\ \A f \in Files \ raced : files[f] = t[f]
      BY <1>0, <2>1 DEF Trusted
    <2>3. UntouchedIsTrusted'
      BY <1>1, <2>1, <2>2 DEF UntouchedIsTrusted
    <2> QED BY <1>0, <1>1, <2>1, <2>3 DEF Trusted, VerifiedIsPassed
  <1> QED
    BY <1>2, <1>3, <1>4, <1>5, <1>6, <1>7, <1>8, <1>9, <1>10, <1>11, <1>12,
       <1>13, <1>14, <1>15, <1>16, <1>17, <1>18, <1>19, <1>20, <1>21, <1>22,
       <1>23, <1>24, <1>25, <1>26, <1>27, <1>28, <1>29, <1>30, <1>31 DEF Next


\* The first turn starts from a fresh clone, with nothing read or checked.
LEMMA InvInit == Init => Inv
  <1> SUFFICES ASSUME Init
               PROVE  Inv
    OBVIOUS
  <1>1. /\ 0 \in Contents /\ 1 \in Contents /\ 0 \in 0..MaxOps
        /\ 0 \in 0..MaxOutside /\ 1 \in 0..MaxTurns
    BY Bounded DEF Contents
  <1>2. Typed
    <2>1. /\ files \in Trees /\ known \in Trees /\ op \in Frames
          /\ txn \in [on : BOOLEAN, paths : SUBSET Files, snap : Trees]
          /\ result \in [status : Statuses, tree : Trees] /\ todo = {}
      BY TreeFacts, FrameFacts, TxnFacts, ResultFacts DEF Init
    <2>2. /\ verified \in Optional /\ start \in Optional
          /\ evidence \in [Checks -> Optional]
      <3>1. verified \in {{}, {Base}} /\ start = {}
        BY DEF Init
      <3>2. {} \in Optional /\ {Base} \in Optional
        BY OptionalFacts, TreeFacts
      <3>3. evidence = [c \in Checks |-> {}]
        BY DEF Init
      <3> QED BY <3>1, <3>2, <3>3
    <2>3. /\ cached = {} /\ pc = "loop" /\ changed = FALSE /\ left = {} /\ ok = TRUE
          /\ passed = {} /\ raced = {}
      BY DEF Init
    <2>4. stamps = 1 /\ ops = 0 /\ outs = 0 /\ turns = 1
      BY DEF Init
    <2> QED BY <1>1, <2>1, <2>2, <2>3, <2>4 DEF Typed, Places
  <1>3. Framed
    BY TxnFacts DEF Init, Framed, InTxn, NoResult
  <1>4. Stamped
    <2>1. /\ stamps = 1 /\ files = Base /\ known = NoTree /\ op = NoOp
          /\ txn.snap = NoTree /\ start = {} /\ verified \subseteq {Base}
      BY TxnFacts DEF Init
    <2>2. NoTree \in Past(1) /\ Base \in Past(1) /\ 0 \in 0..1
      BY PastFacts
    <2>3. stamps >= 1
      BY <2>1
    <2> QED BY <2>1, <2>2, <2>3, FrameFacts DEF Stamped
  <1>5. Provenance /\ Cached /\ Restored
    BY DEF Init, Provenance, NoTree, Cached, RereadArms, Restored
  <1>6. Evident /\ Verifying
    BY DEF Init, Evident, Verifying
  <1>7. Trusted
    BY DEF Init, Trusted, VerifiedIsPassed, UntouchedIsTrusted, NoResult
  <1> QED BY <1>2, <1>3, <1>4, <1>5, <1>6, <1>7 DEF Inv

\* Every step keeps the invariant.
LEMMA InvStep ==
    ASSUME Inv, [Next]_vars
    PROVE  Inv'
  BY TypedStep, FramedStep, StampedStep, ProvenanceStep, CachedStep, RestoredStep,
     EvidentStep, VerifyingStep, TrustedStep DEF Inv

-----------------------------------------------------------------------------
(* What follows *)

\* The inductive invariant holds of every run, of any workspace, any set of
\* checks and any number of edits, operations and turns.
THEOREM WorkspaceInvariant == Spec => []Inv
  BY InvInit, InvStep, PTL DEF Spec

\* Every variable has its type, and a tool's frame is there exactly while the
\* tool runs (ToolExecutor, TurnState).
THEOREM WorkspaceTyped == Spec => []TypeOK
  <1>1. Inv => TypeOK
    <2> SUFFICES ASSUME Inv
                 PROVE  TypeOK
      OBVIOUS
    <2>1. Typed /\ Framed /\ Provenance
      BY DEF Inv
    <2>2. /\ op.kind \in Kinds /\ op.was \in Contents /\ op.new \in Contents
          /\ op.tree \in Trees /\ op.base \in Optional
      BY <2>1 DEF Typed, Frames
    <2>3. result.status \in Statuses /\ result.tree \in Trees
      BY <2>1 DEF Typed
    <2> QED BY <2>1, <2>2, <2>3 DEF TypeOK, Typed, Framed, Places, Provenance
  <1> QED BY <1>1, WorkspaceInvariant, PTL

\* A run that says "completed" with verified checks collected a patch of
\* contents on which every check passed (VerificationService.verify_all).
THEOREM PatchesArePassed == Spec => []VerifiedIsPassed
  <1>1. Inv => VerifiedIsPassed
    BY DEF Inv, Trusted
  <1> QED BY <1>1, WorkspaceInvariant, PTL

\* A run that ends with nothing to verify reports the fresh clone, or contents
\* that passed every check, but for files others edited between the fingerprint
\* of the final answer and the collection of the patch (_run_turns, _finish).
THEOREM UntouchedTreesAreTrusted == Spec => []UntouchedIsTrusted
  <1>1. Inv => UntouchedIsTrusted
    BY DEF Inv, Trusted
  <1> QED BY <1>1, WorkspaceInvariant, PTL

\* A file answered from the read cache has its version recorded
\* (ToolExecutor._read_file), so a replacement of it can go ahead.
THEOREM CacheHitsArm == Spec => []RereadArms
  <1>1. Inv => RereadArms
    BY DEF Inv, Cached
  <1> QED BY <1>1, WorkspaceInvariant, PTL

\* A replacement does not write over contents that were there when it read the
\* file and that were neither read in the turn nor put back by a rollback
\* (ReadVersionStore.require_current).
THEOREM ForeignEditsSurvive == Spec => UnseenEditsSurvive
  <1>1. ASSUME Inv, pc = "write", op.kind = "replace",
               <<op.on, files[op.on]>> \notin reads \cup putback
        PROVE  files[op.on] # op.was
    BY <1>1 DEF Inv, Provenance, Known
  <1>2. Inv /\ [Next]_vars =>
          [pc = "write" /\ pc' = "review" /\ op.kind = "replace"
             /\ <<op.on, files[op.on]>> \notin reads \cup putback
             => files[op.on] # op.was]_vars
    BY <1>1
  <1> QED BY <1>2, WorkspaceInvariant, PTL DEF Spec, UnseenEditsSurvive

\* A transaction that reports that it was rolled back has put back every path
\* it touched, but those others wrote since, and their versions
\* (ToolExecutor._tool_transaction).
THEOREM RollbackIsComplete == Spec => FailedTransactionUndone
  <1>1. ASSUME Inv, pc = "restore", todo = {}, NEW f \in txn.paths
        PROVE  known[f] = txn.snap[f] /\ (f \in raced \/ files[f] = txn.snap[f])
    BY <1>1 DEF Inv, Restored
  <1>2. Inv /\ [Next]_vars =>
          [pc = "restore" /\ pc' = "loop" /\ todo = {} =>
             \A f \in txn.paths :
                known[f] = txn.snap[f] /\ (f \in raced \/ files[f] = txn.snap[f])]_vars
    BY <1>1
  <1> QED BY <1>2, WorkspaceInvariant, PTL DEF Spec, FailedTransactionUndone

=============================================================================
