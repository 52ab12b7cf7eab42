------------------------------- MODULE EventLog -------------------------------
(***************************************************************************)
(* The two files of a session, session.json and events.jsonl, under        *)
(* several emitters: the main task of a run and the tasks it awaits beside *)
(* each other (a wave of subagents, a batch of reads).  _emit_lock puts    *)
(* their events in order; every write is done by a thread, which cannot be *)
(* cancelled: a cancelled task leaves a write behind that lands later, or  *)
(* never.  The next writer may be this process or another one.             *)
(*                                                                         *)
(* An event is its sequence number, from 1; the manifest is its writer     *)
(* token and last_event_sequence.  What a death leaves of a single writer  *)
(* is SessionJournal's subject.                                            *)
(***************************************************************************)
EXTENDS Integers, Sequences

CONSTANTS
    Peers,          \* tasks a run may await beside each other
    MaxWriters,     \* bound: runs, resumed runs and continuations
    MaxEvents       \* bound: lines of the log

VARIABLES
    log,        \* events.jsonl
    disk,       \* session.json
    owner,      \* who holds .writer.lock; 0 for nobody
    life,       \* [writer -> how far it is]
    sequence,   \* [writer -> RunPersistence.sequence]
    known,      \* [writer -> last_event_sequence of its manifest in memory]
    emitting,   \* [writer -> who holds its _emit_lock]
    at,         \* [writer -> [emitter -> the write it is in]]
    alive,      \* [writer -> tasks not done]
    strays,     \* writes whose task is gone
    struck,     \* history: a write landed that no task of a live run awaits
    orphaned    \* history: a run went on beside tasks it no longer awaits

logVars == <<log, disk, owner, life, sequence, known, emitting, at, alive,
             strays, struck, orphaned>>

Writers == 1..MaxWriters
Main == "main"
Free == "free"
Emitters == Peers \cup {Main}
Idle == [stage |-> "idle", last |-> 0]
\* `last` is the event's sequence, or the copy of last_event_sequence that
\* a save without an event carries ("clock").
Stages == {"idle", "check", "replace", "append", "clock"}
Strays == [writer : Writers, file : {"session", "events"}, last : 0..MaxEvents]

EventLogTypeOK ==
    /\ \A i \in DOMAIN log : log[i] \in 1..MaxEvents
    /\ disk \in [token : Writers, last : 0..MaxEvents]
    /\ owner \in Writers \cup {0}
    /\ life \in [Writers -> {"new", "claimed", "ahead", "up", "wave",
                             "closing", "over", "refused", "stuck", "dead"}]
    /\ sequence \in [Writers -> 1..MaxEvents + 1]
    /\ known \in [Writers -> 0..MaxEvents]
    /\ emitting \in [Writers -> Emitters \cup {Free}]
    /\ at \in [Writers -> [Emitters -> [stage : Stages, last : 0..MaxEvents]]]
    /\ alive \in [Writers -> SUBSET Peers]
    /\ strays \subseteq Strays
    /\ struck \in BOOLEAN /\ orphaned \in BOOLEAN

EventLogInit ==
    /\ log = <<>> /\ disk = [token |-> 1, last |-> 0] /\ owner = 1
    /\ life = [w \in Writers |-> IF w = 1 THEN "up" ELSE "new"]
    /\ sequence = [w \in Writers |-> 1] /\ known = [w \in Writers |-> 0]
    /\ emitting = [w \in Writers |-> Free]
    /\ at = [w \in Writers |-> [e \in Emitters |-> Idle]]
    /\ alive = [w \in Writers |-> {}]
    /\ strays = {} /\ struck = FALSE /\ orphaned = FALSE

Lives(w, how) == life' = [life EXCEPT ![w] = how]
Goes(w, e, stage) == at' = [at EXCEPT ![w][e].stage = stage]
Back(w, e) == at' = [at EXCEPT ![w][e] = Idle]
\* Whoever leaves emit() frees the lock.
Unlock(w, e) ==
    emitting' = [emitting EXCEPT ![w] = IF @ = e THEN Free ELSE @]
Holds(w) == owner = w

-----------------------------------------------------------------------------
(* emit(), save() and the event's line                                     *)

\* Main runs, or a task does that was started and is not done.
MayEmit(w, e) ==
    /\ at[w][e] = Idle
    /\ IF e = Main THEN life[w] = "up" ELSE e \in alive[w]

\* Mutant: no lock.
EmitUnlocked(w, e) ==
    /\ MayEmit(w, e) /\ sequence[w] <= MaxEvents
    /\ at' = [at EXCEPT ![w][e] = [stage |-> "check", last |-> sequence[w]]]
    /\ known' = [known EXCEPT ![w] = sequence[w]]
    /\ UNCHANGED <<log, disk, owner, life, sequence, emitting, alive, strays,
                   struck, orphaned>>

Emit(w, e) ==
    /\ MayEmit(w, e) /\ sequence[w] <= MaxEvents /\ emitting[w] = Free
    /\ emitting' = [emitting EXCEPT ![w] = e]
    /\ at' = [at EXCEPT ![w][e] = [stage |-> "check", last |-> sequence[w]]]
    /\ known' = [known EXCEPT ![w] = sequence[w]]
    /\ UNCHANGED <<log, disk, owner, life, sequence, alive, strays, struck, orphaned>>

\* A checkpoint or the clock: the manifest is saved beside the lock.
SaveAlone(w) ==
    /\ life[w] \in {"up", "closing"} /\ at[w][Main] = Idle
    /\ Holds(w) /\ disk.token = w
    /\ at' = [at EXCEPT ![w][Main] = [stage |-> "clock", last |-> known[w]]]
    /\ UNCHANGED <<log, disk, owner, life, sequence, known, emitting, alive,
                   strays, struck, orphaned>>

\* The lease is held and the token on disk is the writer's own.
Check(w, e) ==
    /\ at[w][e].stage = "check" /\ Holds(w) /\ disk.token = w
    /\ Goes(w, e, "replace")
    /\ UNCHANGED <<log, disk, owner, life, sequence, known, emitting, alive,
                   strays, struck, orphaned>>

\* SessionValidationError: it ends a task, and its wave; it ends the run.
CheckFails(w, e) ==
    /\ \/ at[w][e].stage = "check"
       \/ e = Main /\ life[w] = "closing" /\ at[w][e] = Idle
    /\ ~(Holds(w) /\ disk.token = w)
    /\ Back(w, e) /\ Unlock(w, e)
    /\ IF e # Main THEN alive' = [alive EXCEPT ![w] = @ \ {e}] /\ UNCHANGED life
       ELSE /\ Lives(w, IF life[w] = "up" THEN "closing" ELSE "stuck")
            /\ UNCHANGED alive
    /\ UNCHANGED <<log, disk, owner, sequence, known, strays, struck, orphaned>>

\* The manifest is replaced, and what was saved is the manifest in memory.
Replace(w, e) ==
    /\ at[w][e].stage \in {"replace", "clock"}
    /\ disk' = [token |-> w, last |-> at[w][e].last]
    /\ known' = [known EXCEPT ![w] = at[w][e].last]
    /\ struck' = (struck \/ ~Holds(w))
    /\ IF at[w][e].stage = "clock" THEN Back(w, e) ELSE Goes(w, e, "append")
    /\ UNCHANGED <<log, owner, life, sequence, emitting, alive, strays, orphaned>>

\* The line is appended, and counted.
AppendLine(w, e) ==
    /\ at[w][e].stage = "append"
    /\ log' = Append(log, at[w][e].last)
    /\ sequence' = [sequence EXCEPT ![w] = @ + 1]
    /\ struck' = (struck \/ ~Holds(w))
    /\ Back(w, e) /\ Unlock(w, e)
    /\ UNCHANGED <<disk, owner, life, known, alive, strays, orphaned>>

-----------------------------------------------------------------------------
(* Tasks beside each other, and their end                                  *)

StartWave(w) ==
    /\ life[w] = "up" /\ at[w][Main] = Idle /\ alive[w] = {}
    /\ Lives(w, "wave") /\ alive' = [alive EXCEPT ![w] = Peers]
    /\ UNCHANGED <<log, disk, owner, sequence, known, emitting, at, strays,
                   struck, orphaned>>

TaskDone(w, e) ==
    /\ e \in alive[w] /\ at[w][e] = Idle
    /\ alive' = [alive EXCEPT ![w] = @ \ {e}]
    /\ UNCHANGED <<log, disk, owner, life, sequence, known, emitting, at,
                   strays, struck, orphaned>>

\* gather() returns when all are done, and raises when one of them does.
WaveReturns(w) ==
    /\ life[w] = "wave" /\ alive[w] # Peers
    /\ Lives(w, "up") /\ orphaned' = (orphaned \/ alive[w] # {})
    /\ UNCHANGED <<log, disk, owner, sequence, known, emitting, at, alive,
                   strays, struck>>

\* The write a thread is in when its task is cancelled.
Left(w, e) ==
    CASE at[w][e].stage \in {"replace", "clock"} ->
             {[writer |-> w, file |-> "session", last |-> at[w][e].last]}
      [] at[w][e].stage = "append" ->
             {[writer |-> w, file |-> "events", last |-> at[w][e].last]}
      [] OTHER -> {}

\* Tasks are cancelled: each leaves its lock; the event it was in is not
\* counted, the write it was in is not undone.
CancelAll(w, who) ==
    /\ at' = [at EXCEPT ![w] = [e \in Emitters |-> IF e \in who THEN Idle ELSE @[e]]]
    /\ emitting' = [emitting EXCEPT ![w] = IF @ \in who THEN Free ELSE @]
    /\ alive' = [alive EXCEPT ![w] = @ \ who]
    /\ strays' = strays \cup UNION {Left(w, e) : e \in who}

\* The deadline of a wave: the dispatch fails and the run goes on.
WaveTimesOut(w) ==
    /\ life[w] = "wave"
    /\ CancelAll(w, alive[w]) /\ Lives(w, "up")
    /\ UNCHANGED <<log, disk, owner, sequence, known, struck, orphaned>>

\* The run is cancelled from outside, with the wave it awaits.
Interrupt(w) ==
    /\ life[w] \in {"up", "wave"}
    /\ CancelAll(w, {Main} \cup (IF life[w] = "wave" THEN alive[w] ELSE {}))
    /\ Lives(w, "closing")
    /\ UNCHANGED <<log, disk, owner, sequence, known, struck, orphaned>>

Finish(w) ==
    /\ life[w] = "up" /\ at[w][Main] = Idle
    /\ Lives(w, "closing")
    /\ UNCHANGED <<log, disk, owner, sequence, known, emitting, at, alive,
                   strays, struck, orphaned>>

\* After the clock is saved, or at once when it was paused (an approval).
Release(w) ==
    /\ life[w] = "closing" /\ at[w][Main] = Idle
    /\ Lives(w, "over") /\ owner' = 0
    /\ orphaned' = (orphaned \/ alive[w] # {})
    /\ UNCHANGED <<log, disk, sequence, known, emitting, at, alive, strays, struck>>

\* A thread nobody awaits gets there, or never started.
StrayLands(s) ==
    /\ s \in strays
    /\ strays' = strays \ {s}
    /\ \/ /\ s.file = "session" /\ UNCHANGED log
          /\ disk' = [token |-> s.writer, last |-> s.last] /\ struck' = TRUE
       \/ /\ s.file = "events" /\ UNCHANGED disk
          /\ log' = Append(log, s.last) /\ struck' = TRUE
       \/ UNCHANGED <<log, disk, struck>>
    /\ UNCHANGED <<owner, life, sequence, known, emitting, at, alive, orphaned>>

\* The process ends, and with it its threads and its hold of the lock.
Dies(w) ==
    /\ life[w] \notin {"new", "dead"}
    /\ Lives(w, "dead") /\ owner' = IF Holds(w) THEN 0 ELSE owner
    /\ at' = [at EXCEPT ![w] = [e \in Emitters |-> Idle]]
    /\ alive' = [alive EXCEPT ![w] = {}]
    /\ emitting' = [emitting EXCEPT ![w] = Free]
    /\ strays' = {s \in strays : s.writer # w}
    /\ UNCHANGED <<log, disk, sequence, known, struck, orphaned>>

-----------------------------------------------------------------------------
(* The next writer                                                         *)

Claim(w) ==
    /\ life[w] = "new" /\ owner = 0
    /\ \A v \in Writers : v < w => life[v] # "new"
    /\ owner' = w /\ Lives(w, "claimed")
    /\ disk' = [disk EXCEPT !.token = w]
    /\ known' = [known EXCEPT ![w] = disk.last]
    /\ UNCHANGED <<log, sequence, emitting, at, alive, strays, struck, orphaned>>

Contiguous == \A i \in DOMAIN log : log[i] = i
Opens(w, last) == Lives(w, "up") /\ sequence' = [sequence EXCEPT ![w] = last + 1]
Refused(w) == Lives(w, "refused") /\ owner' = 0

\* The log is read; a manifest that is one event ahead is set back.
Validate(w) ==
    /\ life[w] = "claimed"
    /\ \/ /\ Contiguous /\ known[w] = Len(log)
          /\ Opens(w, known[w]) /\ UNCHANGED <<owner, known>>
       \/ /\ Contiguous /\ known[w] = Len(log) + 1
          /\ known' = [known EXCEPT ![w] = Len(log)]
          /\ Lives(w, "ahead") /\ UNCHANGED <<owner, sequence>>
       \/ /\ ~Contiguous \/ known[w] \notin {Len(log), Len(log) + 1}
          /\ Refused(w) /\ UNCHANGED <<known, sequence>>
    /\ UNCHANGED <<log, disk, emitting, at, alive, strays, struck, orphaned>>

SetBack(w) ==
    /\ life[w] = "ahead"
    /\ IF disk.token = w
       THEN disk' = [token |-> w, last |-> known[w]] /\ Opens(w, known[w]) /\ UNCHANGED owner
       ELSE Refused(w) /\ UNCHANGED <<disk, sequence>>
    /\ UNCHANGED <<log, known, emitting, at, alive, strays, struck, orphaned>>

EventLogNext ==
    \/ \E w \in Writers :
           \/ \E e \in Emitters :
                  \/ Emit(w, e) \/ Check(w, e) \/ CheckFails(w, e)
                  \/ Replace(w, e) \/ AppendLine(w, e)
           \/ \E e \in Peers : TaskDone(w, e)
           \/ SaveAlone(w) \/ StartWave(w) \/ WaveReturns(w) \/ WaveTimesOut(w)
           \/ Interrupt(w) \/ Finish(w) \/ Release(w) \/ Dies(w)
           \/ Claim(w) \/ Validate(w) \/ SetBack(w)
    \/ \E s \in Strays : StrayLands(s)

Spec == EventLogInit /\ [][EventLogNext]_logVars

-----------------------------------------------------------------------------
(* Properties                                                              *)

(* The lock and the lease do their work: for as long as no write lands     *)
(* that no live run awaits, events are in the log in order and counted     *)
(* once, however many tasks emit, fail or outlive their wave, the owner's  *)
(* token stays on disk and no writer is left with a lease it cannot give   *)
(* up; and unless a run also went on beside tasks it no longer awaits, the *)
(* manifest names the last line or the one after it and no recovery is     *)
(* refused (RunPersistence.emit, SessionStore).                            *)
OnlyStraysBreak == ~struck =>
    /\ Contiguous
    /\ \A w \in Writers : life[w] # "stuck"
    /\ owner # 0 => disk.token = owner
    /\ ~orphaned => /\ disk.last \in {Len(log), Len(log) + 1}
                    /\ \A w \in Writers : life[w] # "refused"

(* What checkpoints.py says of the lock: parallel calls commit their       *)
(* events in order.                                                        *)
CommitsInOrder == Contiguous
=============================================================================
