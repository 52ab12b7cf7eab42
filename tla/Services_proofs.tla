---------------------------- MODULE Services_proofs ----------------------------
(***************************************************************************)
(* What the services guarantee for every number of calls, connections,     *)
(* tasks and slots.  The parts share no state and the one at work never    *)
(* changes, so each is proved by an invariant of its own.                  *)
(***************************************************************************)
EXTENDS Services, TLAPS, FiniteSetTheorems, SequenceTheorems

\* What is assumed of the constants, conjunct by conjunct.
LEMMA Bounds ==
    /\ MaxCalls \in Nat /\ MaxToolCalls \in Nat /\ MaxOutput \in Nat
    /\ IsFiniteSet(Runs) /\ Slots \in Nat
    /\ MaxIds \in Nat /\ MaxServers \in Nat /\ MaxNoise \in Nat
    /\ MaxTokens \in Nat /\ MaxTokens >= 1 /\ MaxRefused \in Nat
    /\ MaxControllers \in Nat /\ MaxWriters \in Nat /\ MaxWriters >= 1 /\ MaxEvents \in Nat
    /\ MaxAsked \in Nat /\ MaxUses \in Nat
    /\ "-" \notin Callers /\ "-" \notin Agents /\ 0 \notin Connections
    /\ "free" \notin Peers
    /\ \A p \in Plans : DOMAIN p.deps \subseteq Agents
  BY ServicesAssumption DEF ServicesAssumption

\* A step is one of the part at work, or leaves that part alone.
LEMMA PartSteps ==
    ASSUME [Next]_allVars
    PROVE  /\ part' = part
           /\ part = "subagents" => SA!SubagentsNext \/ UNCHANGED SubagentsVars
           /\ part = "toolturn" => TT!ToolTurnNext \/ UNCHANGED ToolTurnVars
           /\ part = "process" => LP!LocalProcessNext \/ UNCHANGED ProcessVars
           /\ part = "mcp" => MC!McpStdioNext \/ UNCHANGED McpVars
           /\ part = "credentials" => CR!CredentialsNext \/ UNCHANGED CredentialsVars
           /\ part = "sockets" => SO!SocketsNext \/ UNCHANGED SocketsVars
           /\ part = "eventlog" => EL!EventLogNext \/ UNCHANGED EventLogVars
           /\ part = "claude" => CS!ClaudeSessionNext \/ UNCHANGED ClaudeVars
  BY DEF Next, allVars, Subagents, ToolTurn, Process, Mcp, Credentials, Sockets,
         EventLog, Claude

-----------------------------------------------------------------------------
(* Local processes                                                         *)

ProcessTyped ==
    /\ slots \in Nat
    /\ step \in [Runs -> LP!Steps]
    /\ leader \in [Runs -> {"none", "alive", "dead"}]
    /\ kin \in [Runs -> BOOLEAN] /\ daemon \in [Runs -> BOOLEAN]
    /\ pipe \in [Runs -> Nat]
    /\ written \in [Runs -> 0..MaxOutput] /\ captured \in [Runs -> Nat]
    /\ reader \in [Runs -> {"none", "reading", "calling", "ended", "failed"}]
    /\ stopio \in [Runs -> BOOLEAN]
    /\ result \in [Runs -> [how : LP!Results, whole : BOOLEAN]]

\* What there is of a process at each place of the call: no process before it
\* is spawned, a reader from then on, and stop_io not before the finally.
Placed(r) ==
    /\ step[r] \in {"idle", "reserved"} =>
          leader[r] = "none" /\ ~kin[r] /\ ~daemon[r]
    /\ step[r] \in {"idle", "reserved", "spawned"} => reader[r] = "none"
    /\ step[r] \in {"watch", "reap"} => reader[r] # "none"
    /\ step[r] \notin {"stop", "back"} => ~stopio[r]

\* Nobody can write any more, and everything was read.
Shut(r) == LP!PipeClosed(r) /\ pipe[r] = 0

\* A line is in the pipe or captured; a reader that ended by itself came to the
\* end of the pipe; and a result that is said to be whole was drained, unless
\* the reader failed and the finally will say so.
Told(r) ==
    /\ captured[r] + pipe[r] = written[r]
    /\ reader[r] = "ended" /\ ~stopio[r] => Shut(r)
    /\ step[r] \in {"stop", "back"} /\ result[r].whole
          /\ result[r].how \notin {"raised", "refused"} =>
             Shut(r) \/ (step[r] = "stop" /\ reader[r] = "failed")
    /\ step[r] = "back" /\ result[r].how # "refused" =>
          leader[r] # "alive" /\ ~kin[r]

ProcessInv ==
    /\ ProcessTyped /\ LP!SlotsConserved
    /\ \A r \in Runs : Placed(r) /\ Told(r)

Holders == {r \in Runs : LP!Holds(r)}

\* Cardinality as LocalProcess takes it from its library is Cardinality.
LEMMA SameCount == \A S : LP!Cardinality(S) = Cardinality(S)
  BY DEF LP!Cardinality, Cardinality

\* The slots, counted with the holders.
LEMMA SlotsCounted ==
    LP!SlotsConserved <=> slots + Cardinality(Holders) = Slots
  <1>1. LP!SlotsConserved <=> slots + LP!Cardinality({r \in Runs : LP!Holds(r)}) = Slots
    BY DEF LP!SlotsConserved
  <1> QED BY <1>1, SameCount DEF Holders

\* The same of the state after a step.
LEMMA SlotsCountedNext ==
    LP!SlotsConserved' <=> slots' + Cardinality(Holders') = Slots
  <1>1. Holders' = {r \in Runs : LP!Holds(r)'}
    BY DEF Holders
  <1>2. LP!SlotsConserved' <=> slots' + LP!Cardinality({r \in Runs : LP!Holds(r)'}) = Slots
    BY DEF LP!SlotsConserved
  <1> QED BY <1>1, <1>2, SameCount

\* A slot taken for a run that held none, or given back by one that held one,
\* leaves the sum as it is.
LEMMA SlotMoves ==
    ASSUME LP!SlotsConserved, slots \in Nat, NEW r \in Runs,
           \/ Holders' = Holders /\ slots' = slots
           \/ Holders' = Holders \cup {r} /\ r \notin Holders /\ slots' = slots - 1
           \/ Holders' = Holders \ {r} /\ r \in Holders /\ slots' = slots + 1
    PROVE  LP!SlotsConserved'
  <1>a. Holders \subseteq Runs
    BY DEF Holders
  <1>1. IsFiniteSet(Holders) /\ Cardinality(Holders) \in Nat
    BY <1>a, Bounds, FS_Subset, FS_CardinalityType
  <1>2. slots + Cardinality(Holders) = Slots
    BY SlotsCounted
  <1>3. r \notin Holders =>
          Cardinality(Holders \cup {r}) = Cardinality(Holders) + 1
    BY <1>1, FS_AddElement
  <1>4. r \in Holders => Cardinality(Holders \ {r}) = Cardinality(Holders) - 1
    BY <1>1, FS_RemoveElement
  <1>5. CASE Holders' = Holders /\ slots' = slots
    BY <1>2, <1>5, SlotsCountedNext
  <1>6. CASE Holders' = Holders \cup {r} /\ r \notin Holders /\ slots' = slots - 1
    BY <1>1, <1>2, <1>3, <1>6, Bounds, SlotsCountedNext
  <1>7. CASE Holders' = Holders \ {r} /\ r \in Holders /\ slots' = slots + 1
    BY <1>1, <1>2, <1>4, <1>7, Bounds, SlotsCountedNext
  <1> QED BY <1>5, <1>6, <1>7

\* The variables keep their types.
LEMMA ProcessTypedStep ==
    ASSUME ProcessInv, LP!LocalProcessNext
    PROVE  ProcessTyped'
  <1> USE Bounds DEF ProcessTyped, LP!Steps, LP!Results
  <1>0. ProcessTyped /\ (\A r \in Runs : Placed(r) /\ Told(r))
    BY DEF ProcessInv
  <1>1. ASSUME NEW r \in Runs, LP!Refuse(r)
        PROVE  ProcessTyped'
    BY <1>0, <1>1 DEF LP!Refuse, LP!Goes, LP!Ends
  <1>2. ASSUME NEW r \in Runs, LP!Reserve(r)
        PROVE  ProcessTyped'
    BY <1>0, <1>2 DEF LP!Reserve, LP!Goes
  <1>3. ASSUME NEW r \in Runs, LP!Spawn(r)
        PROVE  ProcessTyped'
    BY <1>0, <1>3 DEF LP!Spawn, LP!Goes
  <1>4. ASSUME NEW r \in Runs, LP!SpawnFails(r)
        PROVE  ProcessTyped'
    BY <1>0, <1>4 DEF LP!SpawnFails, LP!Goes, LP!Ends
  <1>5. ASSUME NEW r \in Runs, LP!StartReader(r)
        PROVE  ProcessTyped'
    BY <1>0, <1>5 DEF LP!StartReader, LP!Goes
  <1>6. ASSUME NEW r \in Runs, LP!StartFails(r)
        PROVE  ProcessTyped'
    BY <1>0, <1>6 DEF LP!StartFails, LP!Goes, LP!Ends
  <1>7. ASSUME NEW r \in Runs, NEW how \in {"timeout", "cancelled"}, LP!GiveUp(r, how)
        PROVE  ProcessTyped'
    BY <1>0, <1>7 DEF LP!GiveUp, LP!Goes, LP!Ends
  <1>8. ASSUME NEW r \in Runs, LP!LeaderReaped(r)
        PROVE  ProcessTyped'
    BY <1>0, <1>8 DEF LP!LeaderReaped, LP!Goes
  <1>9. ASSUME NEW r \in Runs, LP!Drained(r)
        PROVE  ProcessTyped'
    BY <1>0, <1>9 DEF LP!Drained, LP!Goes, LP!Ends
  <1>10. ASSUME NEW r \in Runs, LP!WorkerError(r)
        PROVE  ProcessTyped'
    BY <1>0, <1>10 DEF LP!WorkerError, LP!Goes
  <1>11. ASSUME NEW r \in Runs, LP!CleanUp(r)
        PROVE  ProcessTyped'
    <2>1. slots' \in Nat
      <3>1. slots \in Nat
        BY <1>0
      <3>2. slots' = IF reader[r] = "none" THEN slots + 1 ELSE slots
        BY <1>11 DEF LP!CleanUp
      <3> QED BY <3>1, <3>2
    <2>2. result' \in [Runs -> [how : LP!Results, whole : BOOLEAN]]
      <3>1. IF reader[r] = "failed"
            THEN result' = [result EXCEPT ![r] = [how |-> "raised", whole |-> TRUE]]
            ELSE UNCHANGED result
        BY <1>11 DEF LP!CleanUp, LP!Ends
      <3>2. result \in [Runs -> [how : LP!Results, whole : BOOLEAN]]
        BY <1>0
      <3>3. CASE reader[r] = "failed"
        <4>1. result' = [result EXCEPT ![r] = [how |-> "raised", whole |-> TRUE]]
          BY <3>1, <3>3
        <4> QED BY <3>2, <4>1
      <3>4. CASE reader[r] # "failed"
        <4>1. result' = result
          BY <3>1, <3>4
        <4> QED BY <3>2, <4>1
      <3> QED BY <3>3, <3>4
    <2>3. /\ step' \in [Runs -> LP!Steps]
          /\ leader' \in [Runs -> {"none", "alive", "dead"}]
      BY <1>0, <1>11 DEF LP!CleanUp, LP!Goes
    <2>4. kin' \in [Runs -> BOOLEAN]
      BY <1>0, <1>11 DEF LP!CleanUp
    <2>5. UNCHANGED <<daemon, pipe, written, reader, captured, stopio>>
      BY <1>11 DEF LP!CleanUp
    <2> QED BY <1>0, <2>1, <2>2, <2>3, <2>4, <2>5
  <1>12. ASSUME NEW r \in Runs, LP!Read(r)
        PROVE  ProcessTyped'
    <2>1. CASE stopio[r]
      BY <1>0, <1>12, <2>1 DEF LP!Read, LP!ReaderEnds
    <2>2. CASE ~stopio[r]
      <3>1. /\ reader[r] = "reading" /\ pipe[r] > 0
            /\ pipe' = [pipe EXCEPT ![r] = pipe[r] - 1]
            /\ captured' = [captured EXCEPT ![r] = captured[r] + 1]
            /\ reader' = [reader EXCEPT ![r] = "calling"]
            /\ UNCHANGED <<slots, step, leader, kin, daemon, written, stopio,
                           result>>
        BY <1>12, <2>2 DEF LP!Read
      <3>2. pipe' \in [Runs -> Nat]
        BY <1>0, <3>1
      <3>3. captured' \in [Runs -> Nat]
        BY <1>0, <3>1
      <3>4. reader' \in [Runs -> {"none", "reading", "calling", "ended", "failed"}]
        BY <1>0, <3>1
      <3> QED BY <1>0, <3>1, <3>2, <3>3, <3>4
    <2> QED BY <2>1, <2>2
  <1>13. ASSUME NEW r \in Runs, LP!CallbackReturns(r)
        PROVE  ProcessTyped'
    BY <1>0, <1>13 DEF LP!CallbackReturns
  <1>14. ASSUME NEW r \in Runs, LP!ReaderStops(r)
        PROVE  ProcessTyped'
    BY <1>0, <1>14 DEF LP!ReaderStops, LP!ReaderEnds, LP!PipeClosed
  <1>15. ASSUME NEW r \in Runs, LP!ReaderFails(r)
        PROVE  ProcessTyped'
    BY <1>0, <1>15 DEF LP!ReaderFails, LP!ReaderEnds
  <1>16. ASSUME NEW r \in Runs, LP!Write(r)
        PROVE  ProcessTyped'
    BY <1>0, <1>16 DEF LP!Write
  <1>17. ASSUME NEW r \in Runs, LP!Fork(r)
        PROVE  ProcessTyped'
    BY <1>0, <1>17 DEF LP!Fork
  <1>18. ASSUME NEW r \in Runs, LP!Exit(r)
        PROVE  ProcessTyped'
    BY <1>0, <1>18 DEF LP!Exit
  <1> QED
    BY <1>1, <1>2, <1>3, <1>4, <1>5, <1>6, <1>7, <1>8, <1>9, <1>10,
       <1>11, <1>12, <1>13, <1>14, <1>15, <1>16, <1>17, <1>18
    DEF LP!LocalProcessNext

\* A process is where its call says.
LEMMA PlacedStep ==
    ASSUME ProcessInv, LP!LocalProcessNext
    PROVE  \A q \in Runs : Placed(q)'
  <1> USE Bounds DEF ProcessTyped, Placed
  <1>0. ProcessTyped /\ (\A r \in Runs : Placed(r) /\ Told(r))
    BY DEF ProcessInv
  <1>1. ASSUME NEW r \in Runs, LP!Refuse(r)
        PROVE  \A q \in Runs : Placed(q)'
    BY <1>0, <1>1 DEF LP!Refuse, LP!Goes, LP!Ends
  <1>2. ASSUME NEW r \in Runs, LP!Reserve(r)
        PROVE  \A q \in Runs : Placed(q)'
    BY <1>0, <1>2 DEF LP!Reserve, LP!Goes
  <1>3. ASSUME NEW r \in Runs, LP!Spawn(r)
        PROVE  \A q \in Runs : Placed(q)'
    BY <1>0, <1>3 DEF LP!Spawn, LP!Goes
  <1>4. ASSUME NEW r \in Runs, LP!SpawnFails(r)
        PROVE  \A q \in Runs : Placed(q)'
    BY <1>0, <1>4 DEF LP!SpawnFails, LP!Goes, LP!Ends
  <1>5. ASSUME NEW r \in Runs, LP!StartReader(r)
        PROVE  \A q \in Runs : Placed(q)'
    BY <1>0, <1>5 DEF LP!StartReader, LP!Goes
  <1>6. ASSUME NEW r \in Runs, LP!StartFails(r)
        PROVE  \A q \in Runs : Placed(q)'
    BY <1>0, <1>6 DEF LP!StartFails, LP!Goes, LP!Ends
  <1>7. ASSUME NEW r \in Runs, NEW how \in {"timeout", "cancelled"}, LP!GiveUp(r, how)
        PROVE  \A q \in Runs : Placed(q)'
    BY <1>0, <1>7 DEF LP!GiveUp, LP!Goes, LP!Ends
  <1>8. ASSUME NEW r \in Runs, LP!LeaderReaped(r)
        PROVE  \A q \in Runs : Placed(q)'
    BY <1>0, <1>8 DEF LP!LeaderReaped, LP!Goes
  <1>9. ASSUME NEW r \in Runs, LP!Drained(r)
        PROVE  \A q \in Runs : Placed(q)'
    BY <1>0, <1>9 DEF LP!Drained, LP!Goes, LP!Ends
  <1>10. ASSUME NEW r \in Runs, LP!WorkerError(r)
        PROVE  \A q \in Runs : Placed(q)'
    BY <1>0, <1>10 DEF LP!WorkerError, LP!Goes
  <1>11. ASSUME NEW r \in Runs, LP!CleanUp(r)
        PROVE  \A q \in Runs : Placed(q)'
    BY <1>0, <1>11 DEF LP!CleanUp, LP!Goes, LP!Ends
  <1>12. ASSUME NEW r \in Runs, LP!Read(r)
        PROVE  \A q \in Runs : Placed(q)'
    <2>1. CASE stopio[r]
      BY <1>0, <1>12, <2>1 DEF LP!Read, LP!ReaderEnds
    <2>2. CASE ~stopio[r]
      BY <1>0, <1>12, <2>2 DEF LP!Read, LP!ReaderEnds
    <2> QED BY <2>1, <2>2
  <1>13. ASSUME NEW r \in Runs, LP!CallbackReturns(r)
        PROVE  \A q \in Runs : Placed(q)'
    BY <1>0, <1>13 DEF LP!CallbackReturns
  <1>14. ASSUME NEW r \in Runs, LP!ReaderStops(r)
        PROVE  \A q \in Runs : Placed(q)'
    BY <1>0, <1>14 DEF LP!ReaderStops, LP!ReaderEnds, LP!PipeClosed
  <1>15. ASSUME NEW r \in Runs, LP!ReaderFails(r)
        PROVE  \A q \in Runs : Placed(q)'
    BY <1>0, <1>15 DEF LP!ReaderFails, LP!ReaderEnds
  <1>16. ASSUME NEW r \in Runs, LP!Write(r)
        PROVE  \A q \in Runs : Placed(q)'
    BY <1>0, <1>16 DEF LP!Write
  <1>17. ASSUME NEW r \in Runs, LP!Fork(r)
        PROVE  \A q \in Runs : Placed(q)'
    BY <1>0, <1>17 DEF LP!Fork
  <1>18. ASSUME NEW r \in Runs, LP!Exit(r)
        PROVE  \A q \in Runs : Placed(q)'
    BY <1>0, <1>18 DEF LP!Exit
  <1> QED
    BY <1>1, <1>2, <1>3, <1>4, <1>5, <1>6, <1>7, <1>8, <1>9, <1>10,
       <1>11, <1>12, <1>13, <1>14, <1>15, <1>16, <1>17, <1>18
    DEF LP!LocalProcessNext

\* What is told of a process stays true.
LEMMA ToldStep ==
    ASSUME ProcessInv, LP!LocalProcessNext
    PROVE  \A q \in Runs : Told(q)'
  <1> USE Bounds DEF ProcessTyped, Told, Placed, Shut, LP!PipeClosed
  <1>0. ProcessTyped /\ (\A r \in Runs : Placed(r) /\ Told(r))
    BY DEF ProcessInv
  <1>1. ASSUME NEW r \in Runs, LP!Refuse(r)
        PROVE  \A q \in Runs : Told(q)'
    BY <1>0, <1>1 DEF LP!Refuse, LP!Goes, LP!Ends
  <1>2. ASSUME NEW r \in Runs, LP!Reserve(r)
        PROVE  \A q \in Runs : Told(q)'
    BY <1>0, <1>2 DEF LP!Reserve, LP!Goes
  <1>3. ASSUME NEW r \in Runs, LP!Spawn(r)
        PROVE  \A q \in Runs : Told(q)'
    BY <1>0, <1>3 DEF LP!Spawn, LP!Goes
  <1>4. ASSUME NEW r \in Runs, LP!SpawnFails(r)
        PROVE  \A q \in Runs : Told(q)'
    BY <1>0, <1>4 DEF LP!SpawnFails, LP!Goes, LP!Ends
  <1>5. ASSUME NEW r \in Runs, LP!StartReader(r)
        PROVE  \A q \in Runs : Told(q)'
    BY <1>0, <1>5 DEF LP!StartReader, LP!Goes
  <1>6. ASSUME NEW r \in Runs, LP!StartFails(r)
        PROVE  \A q \in Runs : Told(q)'
    BY <1>0, <1>6 DEF LP!StartFails, LP!Goes, LP!Ends
  <1>7. ASSUME NEW r \in Runs, NEW how \in {"timeout", "cancelled"}, LP!GiveUp(r, how)
        PROVE  \A q \in Runs : Told(q)'
    BY <1>0, <1>7 DEF LP!GiveUp, LP!Goes, LP!Ends
  <1>8. ASSUME NEW r \in Runs, LP!LeaderReaped(r)
        PROVE  \A q \in Runs : Told(q)'
    BY <1>0, <1>8 DEF LP!LeaderReaped, LP!Goes
  <1>9. ASSUME NEW r \in Runs, LP!Drained(r)
        PROVE  \A q \in Runs : Told(q)'
    BY <1>0, <1>9 DEF LP!Drained, LP!Goes, LP!Ends
  <1>10. ASSUME NEW r \in Runs, LP!WorkerError(r)
        PROVE  \A q \in Runs : Told(q)'
    BY <1>0, <1>10 DEF LP!WorkerError, LP!Goes
  <1>11. ASSUME NEW r \in Runs, LP!CleanUp(r)
        PROVE  \A q \in Runs : Told(q)'
    BY <1>0, <1>11 DEF LP!CleanUp, LP!Goes, LP!Ends
  <1>12. ASSUME NEW r \in Runs, LP!Read(r)
        PROVE  \A q \in Runs : Told(q)'
    <2>1. CASE stopio[r]
      BY <1>0, <1>12, <2>1 DEF LP!Read, LP!ReaderEnds
    <2>2. CASE ~stopio[r]
      <3>1. /\ pipe' = [pipe EXCEPT ![r] = @ - 1] /\ pipe[r] \in Nat /\ pipe[r] > 0
            /\ captured' = [captured EXCEPT ![r] = @ + 1] /\ captured[r] \in Nat
            /\ reader' = [reader EXCEPT ![r] = "calling"] /\ reader[r] = "reading"
            /\ UNCHANGED <<step, leader, kin, daemon, written, stopio, result>>
        BY <1>0, <1>12, <2>2 DEF LP!Read
      <3>2. ASSUME NEW q \in Runs, q # r PROVE Told(q)'
        BY <1>0, <3>1, <3>2
      <3>3. captured'[r] + pipe'[r] = captured[r] + pipe[r]
        BY <1>0, <3>1
      <3>4. ~Shut(r)
        BY <3>1
      <3>5. Told(r)'
        BY <1>0, <3>1, <3>3, <3>4
      <3> QED BY <3>2, <3>5
    <2> QED BY <2>1, <2>2
  <1>13. ASSUME NEW r \in Runs, LP!CallbackReturns(r)
        PROVE  \A q \in Runs : Told(q)'
    BY <1>0, <1>13 DEF LP!CallbackReturns
  <1>14. ASSUME NEW r \in Runs, LP!ReaderStops(r)
        PROVE  \A q \in Runs : Told(q)'
    BY <1>0, <1>14 DEF LP!ReaderStops, LP!ReaderEnds, LP!PipeClosed
  <1>15. ASSUME NEW r \in Runs, LP!ReaderFails(r)
        PROVE  \A q \in Runs : Told(q)'
    BY <1>0, <1>15 DEF LP!ReaderFails, LP!ReaderEnds
  <1>16. ASSUME NEW r \in Runs, LP!Write(r)
        PROVE  \A q \in Runs : Told(q)'
    BY <1>0, <1>16 DEF LP!Write
  <1>17. ASSUME NEW r \in Runs, LP!Fork(r)
        PROVE  \A q \in Runs : Told(q)'
    BY <1>0, <1>17 DEF LP!Fork
  <1>18. ASSUME NEW r \in Runs, LP!Exit(r)
        PROVE  \A q \in Runs : Told(q)'
    <2>1. CASE /\ leader[r] = "alive" /\ leader' = [leader EXCEPT ![r] = "dead"]
               /\ UNCHANGED <<kin, daemon>>
      BY <1>0, <1>18, <2>1 DEF LP!Exit
    <2>2. CASE /\ kin' = [kin EXCEPT ![r] = FALSE]
               /\ UNCHANGED <<leader, daemon>>
      BY <1>0, <1>18, <2>2 DEF LP!Exit
    <2>3. CASE /\ daemon' = [daemon EXCEPT ![r] = FALSE]
               /\ UNCHANGED <<leader, kin>>
      BY <1>0, <1>18, <2>3 DEF LP!Exit
    <2> QED BY <1>18, <2>1, <2>2, <2>3 DEF LP!Exit
  <1> QED
    BY <1>1, <1>2, <1>3, <1>4, <1>5, <1>6, <1>7, <1>8, <1>9, <1>10,
       <1>11, <1>12, <1>13, <1>14, <1>15, <1>16, <1>17, <1>18
    DEF LP!LocalProcessNext

\* A slot is held by the call that took it or by its reader, and nobody else.
LEMMA SlotsStep ==
    ASSUME ProcessInv, LP!LocalProcessNext
    PROVE  LP!SlotsConserved'
  <1> USE DEF Holders, LP!Holds
  <1>0. /\ ProcessTyped /\ LP!SlotsConserved /\ slots \in Nat
        /\ \A r \in Runs : Placed(r)
    BY DEF ProcessInv, ProcessTyped
  <1>1. ASSUME NEW r \in Runs, LP!Refuse(r)
        PROVE  LP!SlotsConserved'
    <2>1. Holders' = Holders /\ slots' = slots
      BY <1>0, <1>1 DEF LP!Refuse, LP!Goes, LP!Ends, ProcessTyped, Placed
    <2> QED BY <1>0, <2>1, SlotMoves
  <1>2. ASSUME NEW r \in Runs, LP!Reserve(r)
        PROVE  LP!SlotsConserved'
    <2>1. Holders' = Holders \cup {r} /\ r \notin Holders /\ slots' = slots - 1
      BY <1>0, <1>2 DEF LP!Reserve, LP!Goes, ProcessTyped, Placed
    <2> QED BY <1>0, <2>1, SlotMoves
  <1>3. ASSUME NEW r \in Runs, LP!Spawn(r)
        PROVE  LP!SlotsConserved'
    <2>1. Holders' = Holders /\ slots' = slots
      BY <1>0, <1>3 DEF LP!Spawn, LP!Goes, ProcessTyped, Placed
    <2> QED BY <1>0, <2>1, SlotMoves
  <1>4. ASSUME NEW r \in Runs, LP!SpawnFails(r)
        PROVE  LP!SlotsConserved'
    <2>1. Holders' = Holders \ {r} /\ r \in Holders /\ slots' = slots + 1
      BY <1>0, <1>4 DEF LP!SpawnFails, LP!Goes, LP!Ends, ProcessTyped, Placed
    <2> QED BY <1>0, <2>1, SlotMoves
  <1>5. ASSUME NEW r \in Runs, LP!StartReader(r)
        PROVE  LP!SlotsConserved'
    <2>1. Holders' = Holders /\ slots' = slots
      BY <1>0, <1>5 DEF LP!StartReader, LP!Goes, ProcessTyped, Placed
    <2> QED BY <1>0, <2>1, SlotMoves
  <1>6. ASSUME NEW r \in Runs, LP!StartFails(r)
        PROVE  LP!SlotsConserved'
    <2>1. Holders' = Holders /\ slots' = slots
      BY <1>0, <1>6 DEF LP!StartFails, LP!Goes, LP!Ends, ProcessTyped, Placed
    <2> QED BY <1>0, <2>1, SlotMoves
  <1>7. ASSUME NEW r \in Runs, NEW how \in {"timeout", "cancelled"}, LP!GiveUp(r, how)
        PROVE  LP!SlotsConserved'
    <2>1. Holders' = Holders /\ slots' = slots
      BY <1>0, <1>7 DEF LP!GiveUp, LP!Goes, LP!Ends, ProcessTyped, Placed
    <2> QED BY <1>0, <2>1, SlotMoves
  <1>8. ASSUME NEW r \in Runs, LP!LeaderReaped(r)
        PROVE  LP!SlotsConserved'
    <2>1. Holders' = Holders /\ slots' = slots
      BY <1>0, <1>8 DEF LP!LeaderReaped, LP!Goes, ProcessTyped, Placed
    <2> QED BY <1>0, <2>1, SlotMoves
  <1>9. ASSUME NEW r \in Runs, LP!Drained(r)
        PROVE  LP!SlotsConserved'
    <2>1. Holders' = Holders /\ slots' = slots
      BY <1>0, <1>9 DEF LP!Drained, LP!Goes, LP!Ends, ProcessTyped, Placed
    <2> QED BY <1>0, <2>1, SlotMoves
  <1>10. ASSUME NEW r \in Runs, LP!WorkerError(r)
        PROVE  LP!SlotsConserved'
    <2>1. Holders' = Holders /\ slots' = slots
      BY <1>0, <1>10 DEF LP!WorkerError, LP!Goes, ProcessTyped, Placed
    <2> QED BY <1>0, <2>1, SlotMoves
  <1>11. ASSUME NEW r \in Runs, LP!CleanUp(r)
        PROVE  LP!SlotsConserved'
    <2>1. ASSUME reader[r] = "none"
          PROVE  Holders' = Holders \ {r} /\ r \in Holders /\ slots' = slots + 1
      BY <1>0, <1>11, <2>1 DEF LP!CleanUp, LP!Goes, LP!Ends, ProcessTyped,
         Placed
    <2>2. ASSUME reader[r] # "none"
          PROVE  Holders' = Holders /\ slots' = slots
      BY <1>0, <1>11, <2>2 DEF LP!CleanUp, LP!Goes, LP!Ends, ProcessTyped,
         Placed
    <2> QED BY <1>0, <2>1, <2>2, SlotMoves
  <1>12. ASSUME NEW r \in Runs, LP!Read(r)
        PROVE  LP!SlotsConserved'
    <2>1. ASSUME stopio[r]
          PROVE  Holders' = Holders \ {r} /\ r \in Holders /\ slots' = slots + 1
      BY <1>0, <1>12, <2>1 DEF LP!Read, LP!ReaderEnds, ProcessTyped, Placed
    <2>2. ASSUME ~stopio[r]
          PROVE  Holders' = Holders /\ slots' = slots
      BY <1>0, <1>12, <2>2 DEF LP!Read, LP!ReaderEnds, ProcessTyped, Placed
    <2> QED BY <1>0, <2>1, <2>2, SlotMoves
  <1>13. ASSUME NEW r \in Runs, LP!CallbackReturns(r)
        PROVE  LP!SlotsConserved'
    <2>1. Holders' = Holders /\ slots' = slots
      BY <1>0, <1>13 DEF LP!CallbackReturns, ProcessTyped, Placed
    <2> QED BY <1>0, <2>1, SlotMoves
  <1>14. ASSUME NEW r \in Runs, LP!ReaderStops(r)
        PROVE  LP!SlotsConserved'
    <2>1. Holders' = Holders \ {r} /\ r \in Holders /\ slots' = slots + 1
      BY <1>0, <1>14 DEF LP!ReaderStops, LP!ReaderEnds, LP!PipeClosed,
         ProcessTyped, Placed
    <2> QED BY <1>0, <2>1, SlotMoves
  <1>15. ASSUME NEW r \in Runs, LP!ReaderFails(r)
        PROVE  LP!SlotsConserved'
    <2>1. Holders' = Holders \ {r} /\ r \in Holders /\ slots' = slots + 1
      BY <1>0, <1>15 DEF LP!ReaderFails, LP!ReaderEnds, ProcessTyped, Placed
    <2> QED BY <1>0, <2>1, SlotMoves
  <1>16. ASSUME NEW r \in Runs, LP!Write(r)
        PROVE  LP!SlotsConserved'
    <2>1. Holders' = Holders /\ slots' = slots
      BY <1>0, <1>16 DEF LP!Write, ProcessTyped, Placed
    <2> QED BY <1>0, <2>1, SlotMoves
  <1>17. ASSUME NEW r \in Runs, LP!Fork(r)
        PROVE  LP!SlotsConserved'
    <2>1. Holders' = Holders /\ slots' = slots
      BY <1>0, <1>17 DEF LP!Fork, ProcessTyped, Placed
    <2> QED BY <1>0, <2>1, SlotMoves
  <1>18. ASSUME NEW r \in Runs, LP!Exit(r)
        PROVE  LP!SlotsConserved'
    <2>1. Holders' = Holders /\ slots' = slots
      BY <1>0, <1>18 DEF LP!Exit, ProcessTyped, Placed
    <2> QED BY <1>0, <2>1, SlotMoves
  <1> QED
    BY <1>1, <1>2, <1>3, <1>4, <1>5, <1>6, <1>7, <1>8, <1>9, <1>10,
       <1>11, <1>12, <1>13, <1>14, <1>15, <1>16, <1>17, <1>18
    DEF LP!LocalProcessNext


\* The calls start without a process, with every slot free.
LEMMA ProcessInit == LP!LocalProcessInit => ProcessInv
  <1> SUFFICES ASSUME LP!LocalProcessInit PROVE ProcessInv
    OBVIOUS
  <1>1. ProcessTyped
    BY Bounds DEF LP!LocalProcessInit, ProcessTyped, LP!Steps, LP!Results
  <1>2. \A r \in Runs : Placed(r) /\ Told(r)
    BY DEF LP!LocalProcessInit, Placed, Told
  <1>3. LP!SlotsConserved
    <2>1. Holders = {}
      BY DEF LP!LocalProcessInit, Holders, LP!Holds
    <2> QED BY <2>1, SlotsCounted, Bounds, FS_EmptySet DEF LP!LocalProcessInit
  <1> QED BY <1>1, <1>2, <1>3 DEF ProcessInv

\* The invariant of the local processes is inductive.
LEMMA ProcessStep ==
    ASSUME ProcessInv, LP!LocalProcessNext \/ UNCHANGED ProcessVars
    PROVE  ProcessInv'
  <1>1. CASE LP!LocalProcessNext
    BY <1>1, ProcessTypedStep, PlacedStep, ToldStep, SlotsStep DEF ProcessInv
  <1>2. CASE UNCHANGED ProcessVars
    <2>1. ProcessTyped' /\ \A r \in Runs : Placed(r)' /\ Told(r)'
      BY <1>2 DEF ProcessVars, ProcessInv, ProcessTyped, Placed, Told, Shut,
         LP!PipeClosed
    <2>2. Holders' = Holders /\ slots' = slots
      BY <1>2 DEF ProcessVars, Holders, LP!Holds
    <2>3. LP!SlotsConserved'
      BY <2>2, SlotsCounted, SlotsCountedNext DEF ProcessInv
    <2> QED BY <2>1, <2>3 DEF ProcessInv
  <1> QED BY <1>1, <1>2

\* The invariant of the process part.
LEMMA ProcessInvariance == Spec => [](part = "process" => ProcessInv)
  <1>1. Init => (part = "process" => ProcessInv)
    BY ProcessInit DEF Init
  <1>2. (part = "process" => ProcessInv) /\ [Next]_allVars
          => (part = "process" => ProcessInv)'
    BY PartSteps, ProcessStep
  <1> QED BY <1>1, <1>2, PTL DEF Spec

(* A callback slot is held by the call that took it or by its reader, also *)
(* by one whose callback outlives the call, and comes back exactly once    *)
(* (execution/local_process.py, _CALLBACK_SLOTS).                          *)
THEOREM SlotsComeBack == Spec => []SlotsConserved
  <1>1. (part = "process" => ProcessInv) => SlotsConserved
    BY DEF ProcessInv, SlotsConserved
  <1> QED BY <1>1, ProcessInvariance, PTL

(* What the caller of run_local_process is told of its process is true:    *)
(* nothing of the group is alive after the call, and output not said to be *)
(* incomplete is all that was written.                                     *)
THEOREM ResultsAreTrue == Spec => []ResultIsTrue
  <1>1. ProcessInv => LP!ResultIsTrue
    BY DEF ProcessInv, ProcessTyped, Told, Shut, LP!ResultIsTrue, LP!PipeClosed
  <1>2. (part = "process" => ProcessInv) => ResultIsTrue
    BY <1>1 DEF ResultIsTrue
  <1> QED BY <1>2, ProcessInvariance, PTL

-----------------------------------------------------------------------------
(* The WebSocket front                                                     *)

SocketsTyped ==
    /\ sessions \in [Conversations -> [controller : Nat, connected : BOOLEAN]]
    /\ made \in Nat
    /\ conn \in [Connections -> SO!Places]
    /\ wants \in [Connections -> Conversations \cup {SO!Unknown}]
    /\ has \in [Connections -> Nat]

\* Controllers are numbered as they are made, and no two conversations have one.
Numbered ==
    /\ \A v \in Conversations : sessions[v].controller <= made
    /\ \A v, w \in Conversations : v # w /\ sessions[v].controller # 0 =>
           sessions[v].controller # sessions[w].controller

\* A connection that has come in wants a conversation, and is served by a
\* controller.
Wanting == \A k \in Connections :
    /\ conn[k] # "new" => wants[k] \in Conversations
    /\ SO!Served(k) => has[k] # 0

SocketsInv == SocketsTyped /\ Numbered /\ Wanting /\ SO!OwnController

\* The variables keep their types.
LEMMA SocketsTypedStep ==
    ASSUME SocketsInv, SO!SocketsNext
    PROVE  SocketsTyped'
  <1> USE DEF SocketsTyped, SO!Places, SO!Unknown, SO!NoSession, SO!Goes
  <1>0. SocketsTyped /\ Numbered /\ Wanting /\ SO!OwnController
    BY DEF SocketsInv
  <1>1. ASSUME NEW k \in Connections, NEW v \in Conversations, SO!Connect(k, v)
        PROVE  SocketsTyped'
    BY <1>0, <1>1 DEF SO!Connect
  <1>2. ASSUME NEW k \in Connections, NEW v \in Conversations, SO!Evict(k, v)
        PROVE  SocketsTyped'
    BY <1>0, <1>2 DEF SO!Evict, SO!Idle, SO!Known
  <1>3. ASSUME NEW k \in Connections, SO!Acquire(k)
        PROVE  SocketsTyped'
    <2> DEFINE v == wants[k]
    <2>a. conn[k] = "evicting"
      BY <1>3 DEF SO!Acquire
    <2>0. v \in Conversations
      BY <1>0, <2>a DEF Wanting
    <2>1. CASE /\ SO!Taken(v) /\ SO!Goes(k, "gone")
               /\ UNCHANGED <<sessions, made, has, overdue>>
      <3>1. conn[k] = "evicting" /\ UNCHANGED <<closed, wants>>
        BY <1>3 DEF SO!Acquire
      <3> QED BY <1>0, <2>0, <2>1, <3>1 DEF SO!Known, SO!Taken
    <2>2. CASE /\ SO!Known(v) /\ ~SO!Taken(v)
               /\ sessions' = [sessions EXCEPT ![v].connected = TRUE]
               /\ has' = [has EXCEPT ![k] = sessions[v].controller]
               /\ SO!Goes(k, "opening") /\ UNCHANGED made
      <3>1. conn[k] = "evicting" /\ UNCHANGED <<closed, wants>>
        BY <1>3 DEF SO!Acquire
      <3> QED BY <1>0, <2>0, <2>2, <3>1 DEF SO!Known, SO!Taken
    <2>3. CASE /\ ~SO!Known(v)
               /\ made' = made + 1
               /\ sessions' = [sessions EXCEPT ![v] =
                                 [controller |-> made + 1, connected |-> TRUE]]
               /\ has' = [has EXCEPT ![k] = made + 1]
               /\ SO!Goes(k, "opening")
      <3>1. conn[k] = "evicting" /\ UNCHANGED <<closed, wants>>
        BY <1>3 DEF SO!Acquire
      <3> QED BY <1>0, <2>0, <2>3, <3>1 DEF SO!Known, SO!Taken
    <2>4. CASE /\ ~SO!Known(v) /\ SO!Goes(k, "gone")
               /\ UNCHANGED <<sessions, made, has, overdue>>
      <3>1. conn[k] = "evicting" /\ UNCHANGED <<closed, wants>>
        BY <1>3 DEF SO!Acquire
      <3> QED BY <1>0, <2>0, <2>4, <3>1 DEF SO!Known, SO!Taken
    <2> QED BY <1>3, <2>1, <2>2, <2>3, <2>4 DEF SO!Acquire
  <1>4. ASSUME NEW k \in Connections, SO!Attach(k)
        PROVE  SocketsTyped'
    BY <1>0, <1>4 DEF SO!Attach
  <1>5. ASSUME NEW k \in Connections, SO!OpenFails(k)
        PROVE  SocketsTyped'
    BY <1>0, <1>5 DEF SO!OpenFails
  <1>6. ASSUME NEW k \in Connections, SO!Turn(k)
        PROVE  SocketsTyped'
    BY <1>0, <1>6 DEF SO!Turn, SO!Goes
  <1>7. ASSUME NEW k \in Connections, SO!TurnEnds(k)
        PROVE  SocketsTyped'
    BY <1>0, <1>7 DEF SO!TurnEnds
  <1>8. ASSUME NEW k \in Connections, SO!TurnFails(k)
        PROVE  SocketsTyped'
    BY <1>0, <1>8 DEF SO!TurnFails
  <1>9. ASSUME NEW k \in Connections, SO!Disconnect(k)
        PROVE  SocketsTyped'
    BY <1>0, <1>9 DEF SO!Disconnect
  <1>10. ASSUME NEW k \in Connections, SO!Release(k)
        PROVE  SocketsTyped'
    <2>1. conn[k] = "leaving" /\ SO!Goes(k, "gone")
          /\ UNCHANGED <<made, has, wants>>
      BY <1>10 DEF SO!Release
    <2>2. wants[k] \in Conversations
      BY <1>0, <2>1 DEF Wanting
    <2>3. sessions' = [sessions EXCEPT ![wants[k]].connected = FALSE]
          \/ sessions' = sessions
      BY <1>10 DEF SO!Release
    <2>4. sessions' \in [Conversations -> [controller : Nat, connected : BOOLEAN]]
      <3>1. CASE sessions' = sessions
        BY <1>0, <3>1
      <3>2. CASE sessions' = [sessions EXCEPT ![wants[k]].connected = FALSE]
        <4>1. [sessions[wants[k]] EXCEPT !.connected = FALSE]
                  \in [controller : Nat, connected : BOOLEAN]
          BY <1>0, <2>2
        <4> QED BY <1>0, <3>2, <4>1
      <3> QED BY <2>3, <3>1, <3>2
    <2> QED BY <1>0, <2>1, <2>4
  <1>11. ASSUME NEW v \in Conversations, SO!Expire(v)
        PROVE  SocketsTyped'
    BY <1>0, <1>11 DEF SO!Expire, SO!Known
  <1> QED
    BY <1>1, <1>2, <1>3, <1>4, <1>5, <1>6, <1>7, <1>8, <1>9, <1>10, <1>11
    DEF SO!SocketsNext

\* A new controller has a number of its own; leaving the table frees none.
LEMMA NumberedStep ==
    ASSUME SocketsInv, SO!SocketsNext
    PROVE  Numbered'
  <1> USE DEF SocketsTyped, Numbered, Wanting, SO!Served, SO!NoSession, SO!Goes
  <1>0. SocketsTyped /\ Numbered /\ Wanting /\ SO!OwnController
    BY DEF SocketsInv
  <1>1. ASSUME NEW k \in Connections, NEW v \in Conversations, SO!Connect(k, v)
        PROVE  Numbered'
    BY <1>0, <1>1 DEF SO!Connect
  <1>2. ASSUME NEW k \in Connections, NEW v \in Conversations, SO!Evict(k, v)
        PROVE  Numbered'
    BY <1>0, <1>2 DEF SO!Evict, SO!Idle, SO!Known
  <1>3. ASSUME NEW k \in Connections, SO!Acquire(k)
        PROVE  Numbered'
    <2> DEFINE v == wants[k]
    <2>a. conn[k] = "evicting"
      BY <1>3 DEF SO!Acquire
    <2>0. v \in Conversations
      BY <1>0, <2>a DEF Wanting
    <2>1. CASE /\ SO!Taken(v) /\ SO!Goes(k, "gone")
               /\ UNCHANGED <<sessions, made, has, overdue>>
      <3>1. conn[k] = "evicting" /\ UNCHANGED <<closed, wants>>
        BY <1>3 DEF SO!Acquire
      <3> QED BY <1>0, <2>0, <2>1, <3>1 DEF SO!Known, SO!Taken
    <2>2. CASE /\ SO!Known(v) /\ ~SO!Taken(v)
               /\ sessions' = [sessions EXCEPT ![v].connected = TRUE]
               /\ has' = [has EXCEPT ![k] = sessions[v].controller]
               /\ SO!Goes(k, "opening") /\ UNCHANGED made
      <3>1. conn[k] = "evicting" /\ UNCHANGED <<closed, wants>>
        BY <1>3 DEF SO!Acquire
      <3> QED BY <1>0, <2>0, <2>2, <3>1 DEF SO!Known, SO!Taken
    <2>3. CASE /\ ~SO!Known(v)
               /\ made' = made + 1
               /\ sessions' = [sessions EXCEPT ![v] =
                                 [controller |-> made + 1, connected |-> TRUE]]
               /\ has' = [has EXCEPT ![k] = made + 1]
               /\ SO!Goes(k, "opening")
      <3>1. conn[k] = "evicting" /\ UNCHANGED <<closed, wants>>
        BY <1>3 DEF SO!Acquire
      <3> QED BY <1>0, <2>0, <2>3, <3>1 DEF SO!Known, SO!Taken
    <2>4. CASE /\ ~SO!Known(v) /\ SO!Goes(k, "gone")
               /\ UNCHANGED <<sessions, made, has, overdue>>
      <3>1. conn[k] = "evicting" /\ UNCHANGED <<closed, wants>>
        BY <1>3 DEF SO!Acquire
      <3> QED BY <1>0, <2>0, <2>4, <3>1 DEF SO!Known, SO!Taken
    <2> QED BY <1>3, <2>1, <2>2, <2>3, <2>4 DEF SO!Acquire
  <1>4. ASSUME NEW k \in Connections, SO!Attach(k)
        PROVE  Numbered'
    BY <1>0, <1>4 DEF SO!Attach
  <1>5. ASSUME NEW k \in Connections, SO!OpenFails(k)
        PROVE  Numbered'
    BY <1>0, <1>5 DEF SO!OpenFails
  <1>6. ASSUME NEW k \in Connections, SO!Turn(k)
        PROVE  Numbered'
    BY <1>0, <1>6 DEF SO!Turn, SO!Goes
  <1>7. ASSUME NEW k \in Connections, SO!TurnEnds(k)
        PROVE  Numbered'
    BY <1>0, <1>7 DEF SO!TurnEnds
  <1>8. ASSUME NEW k \in Connections, SO!TurnFails(k)
        PROVE  Numbered'
    BY <1>0, <1>8 DEF SO!TurnFails
  <1>9. ASSUME NEW k \in Connections, SO!Disconnect(k)
        PROVE  Numbered'
    BY <1>0, <1>9 DEF SO!Disconnect
  <1>10. ASSUME NEW k \in Connections, SO!Release(k)
        PROVE  Numbered'
    BY <1>0, <1>10 DEF SO!Release, SO!Known
  <1>11. ASSUME NEW v \in Conversations, SO!Expire(v)
        PROVE  Numbered'
    BY <1>0, <1>11 DEF SO!Expire, SO!Known
  <1> QED
    BY <1>1, <1>2, <1>3, <1>4, <1>5, <1>6, <1>7, <1>8, <1>9, <1>10, <1>11
    DEF SO!SocketsNext

\* Only a connection that came in moves on.
LEMMA WantingStep ==
    ASSUME SocketsInv, SO!SocketsNext
    PROVE  Wanting'
  <1> USE DEF SocketsTyped, Wanting, SO!Served, SO!Goes
  <1>0. SocketsTyped /\ Numbered /\ Wanting /\ SO!OwnController
    BY DEF SocketsInv
  <1>1. ASSUME NEW k \in Connections, NEW v \in Conversations, SO!Connect(k, v)
        PROVE  Wanting'
    BY <1>0, <1>1 DEF SO!Connect
  <1>2. ASSUME NEW k \in Connections, NEW v \in Conversations, SO!Evict(k, v)
        PROVE  Wanting'
    BY <1>0, <1>2 DEF SO!Evict, SO!Idle, SO!Known
  <1>3. ASSUME NEW k \in Connections, SO!Acquire(k)
        PROVE  Wanting'
    <2> DEFINE v == wants[k]
    <2>a. conn[k] = "evicting"
      BY <1>3 DEF SO!Acquire
    <2>0. v \in Conversations
      BY <1>0, <2>a DEF Wanting
    <2>1. CASE /\ SO!Taken(v) /\ SO!Goes(k, "gone")
               /\ UNCHANGED <<sessions, made, has, overdue>>
      <3>1. conn[k] = "evicting" /\ UNCHANGED <<closed, wants>>
        BY <1>3 DEF SO!Acquire
      <3> QED BY <1>0, <2>0, <2>1, <3>1 DEF SO!Known, SO!Taken
    <2>2. CASE /\ SO!Known(v) /\ ~SO!Taken(v)
               /\ sessions' = [sessions EXCEPT ![v].connected = TRUE]
               /\ has' = [has EXCEPT ![k] = sessions[v].controller]
               /\ SO!Goes(k, "opening") /\ UNCHANGED made
      <3>1. conn[k] = "evicting" /\ UNCHANGED <<closed, wants>>
        BY <1>3 DEF SO!Acquire
      <3> QED BY <1>0, <2>0, <2>2, <3>1 DEF SO!Known, SO!Taken
    <2>3. CASE /\ ~SO!Known(v)
               /\ made' = made + 1
               /\ sessions' = [sessions EXCEPT ![v] =
                                 [controller |-> made + 1, connected |-> TRUE]]
               /\ has' = [has EXCEPT ![k] = made + 1]
               /\ SO!Goes(k, "opening")
      <3>1. conn[k] = "evicting" /\ UNCHANGED <<closed, wants>>
        BY <1>3 DEF SO!Acquire
      <3> QED BY <1>0, <2>0, <2>3, <3>1 DEF SO!Known, SO!Taken
    <2>4. CASE /\ ~SO!Known(v) /\ SO!Goes(k, "gone")
               /\ UNCHANGED <<sessions, made, has, overdue>>
      <3>1. conn[k] = "evicting" /\ UNCHANGED <<closed, wants>>
        BY <1>3 DEF SO!Acquire
      <3> QED BY <1>0, <2>0, <2>4, <3>1 DEF SO!Known, SO!Taken
    <2> QED BY <1>3, <2>1, <2>2, <2>3, <2>4 DEF SO!Acquire
  <1>4. ASSUME NEW k \in Connections, SO!Attach(k)
        PROVE  Wanting'
    BY <1>0, <1>4 DEF SO!Attach
  <1>5. ASSUME NEW k \in Connections, SO!OpenFails(k)
        PROVE  Wanting'
    BY <1>0, <1>5 DEF SO!OpenFails
  <1>6. ASSUME NEW k \in Connections, SO!Turn(k)
        PROVE  Wanting'
    BY <1>0, <1>6 DEF SO!Turn, SO!Goes
  <1>7. ASSUME NEW k \in Connections, SO!TurnEnds(k)
        PROVE  Wanting'
    BY <1>0, <1>7 DEF SO!TurnEnds
  <1>8. ASSUME NEW k \in Connections, SO!TurnFails(k)
        PROVE  Wanting'
    BY <1>0, <1>8 DEF SO!TurnFails
  <1>9. ASSUME NEW k \in Connections, SO!Disconnect(k)
        PROVE  Wanting'
    BY <1>0, <1>9 DEF SO!Disconnect
  <1>10. ASSUME NEW k \in Connections, SO!Release(k)
        PROVE  Wanting'
    BY <1>0, <1>10 DEF SO!Release, SO!Known
  <1>11. ASSUME NEW v \in Conversations, SO!Expire(v)
        PROVE  Wanting'
    BY <1>0, <1>11 DEF SO!Expire, SO!Known
  <1> QED
    BY <1>1, <1>2, <1>3, <1>4, <1>5, <1>6, <1>7, <1>8, <1>9, <1>10, <1>11
    DEF SO!SocketsNext

\* Nobody is given a connected conversation, and an eviction takes none.
LEMMA OwnStep ==
    ASSUME SocketsInv, SO!SocketsNext
    PROVE  SO!OwnController'
  <1> USE DEF SocketsTyped, Numbered, Wanting, SO!OwnController, SO!Served,
              SO!NoSession, SO!Goes
  <1>0. SocketsTyped /\ Numbered /\ Wanting /\ SO!OwnController
    BY DEF SocketsInv
  <1>1. ASSUME NEW k \in Connections, NEW v \in Conversations, SO!Connect(k, v)
        PROVE  SO!OwnController'
    BY <1>0, <1>1 DEF SO!Connect
  <1>2. ASSUME NEW k \in Connections, NEW v \in Conversations, SO!Evict(k, v)
        PROVE  SO!OwnController'
    BY <1>0, <1>2 DEF SO!Evict, SO!Idle, SO!Known
  <1>3. ASSUME NEW k \in Connections, SO!Acquire(k)
        PROVE  SO!OwnController'
    <2> DEFINE v == wants[k]
    <2>a. conn[k] = "evicting"
      BY <1>3 DEF SO!Acquire
    <2>0. v \in Conversations
      BY <1>0, <2>a DEF Wanting
    <2>1. CASE /\ SO!Taken(v) /\ SO!Goes(k, "gone")
               /\ UNCHANGED <<sessions, made, has, overdue>>
      <3>1. conn[k] = "evicting" /\ UNCHANGED <<closed, wants>>
        BY <1>3 DEF SO!Acquire
      <3> QED BY <1>0, <2>0, <2>1, <3>1 DEF SO!Known, SO!Taken
    <2>2. CASE /\ SO!Known(v) /\ ~SO!Taken(v)
               /\ sessions' = [sessions EXCEPT ![v].connected = TRUE]
               /\ has' = [has EXCEPT ![k] = sessions[v].controller]
               /\ SO!Goes(k, "opening") /\ UNCHANGED made
      <3>1. conn[k] = "evicting" /\ UNCHANGED <<closed, wants>>
        BY <1>3 DEF SO!Acquire
      <3> HIDE DEF v
      <3>2. sessions'[v] = [controller |-> has'[k], connected |-> TRUE]
        <4>1. sessions[v] \in [controller : Nat, connected : BOOLEAN]
          BY <1>0, <2>0
        <4>2. /\ has'[k] = sessions[v].controller
              /\ sessions'[v] = [sessions[v] EXCEPT !.connected = TRUE]
          BY <1>0, <2>0, <2>2
        <4> QED BY <4>1, <4>2
      <3>3. /\ conn' = [conn EXCEPT ![k] = "opening"] /\ ~SO!Served(k)
            /\ wants' = wants /\ closed' = closed /\ v = wants[k]
        BY <2>2, <3>1 DEF v
      <3>4. ASSUME NEW q \in Connections, q # k, SO!Served(q)
            PROVE  /\ wants[q] # v /\ has'[q] = has[q] /\ has[q] # has'[k]
                   /\ sessions'[wants[q]] = sessions[wants[q]]
        <4>1. /\ sessions[wants[q]] = [controller |-> has[q], connected |-> TRUE]
              /\ wants[q] \in Conversations /\ has[q] # 0
          BY <1>0, <3>4
        <4>a. /\ sessions[wants[q]].controller = has[q]
              /\ sessions[wants[q]].connected
          BY <4>1
        <4>2. wants[q] # v
          BY <4>1, <4>a, <2>2 DEF SO!Known, SO!Taken
        <4>b. has[q] <= made /\ has[q] # sessions[v].controller
          BY <1>0, <2>0, <4>1, <4>a, <4>2
        <4>c. has'[k] = sessions[v].controller
          BY <1>0, <2>2
        <4>3. has[q] # has'[k]
          BY <1>0, <4>b, <4>c
        <4>4. sessions'[wants[q]] = sessions[wants[q]] /\ has'[q] = has[q]
          BY <1>0, <2>0, <2>2, <3>4, <4>1, <4>2
        <4> QED BY <4>2, <4>3, <4>4
      <3>5. ASSUME NEW q \in Connections, SO!Served(q)'
            PROVE  /\ sessions'[wants'[q]] = [controller |-> has'[q], connected |-> TRUE]
                   /\ \A j \in Connections \ {q} : SO!Served(j)' => has'[j] # has'[q]
                   /\ conn'[q] = "turn" => has'[q] \notin closed'
        <4>1. CASE q = k
          BY <1>0, <3>2, <3>3, <3>4, <3>5, <4>1
        <4>2. CASE q # k
          <5>1. SO!Served(q) /\ conn'[q] = conn[q]
            BY <1>0, <3>3, <3>5, <4>2
          <5> QED BY <1>0, <3>2, <3>3, <3>4, <4>2, <5>1
        <4> QED BY <4>1, <4>2
      <3> QED BY <3>5
    <2>3. CASE /\ ~SO!Known(v)
               /\ made' = made + 1
               /\ sessions' = [sessions EXCEPT ![v] =
                                 [controller |-> made + 1, connected |-> TRUE]]
               /\ has' = [has EXCEPT ![k] = made + 1]
               /\ SO!Goes(k, "opening")
      <3>1. conn[k] = "evicting" /\ UNCHANGED <<closed, wants>>
        BY <1>3 DEF SO!Acquire
      <3> HIDE DEF v
      <3>2. sessions'[v] = [controller |-> has'[k], connected |-> TRUE]
        <4>1. sessions[v] \in [controller : Nat, connected : BOOLEAN]
          BY <1>0, <2>0
        <4>2. /\ has'[k] = made + 1
              /\ sessions'[v] = [controller |-> made + 1, connected |-> TRUE]
          BY <1>0, <2>0, <2>3
        <4> QED BY <4>1, <4>2
      <3>3. /\ conn' = [conn EXCEPT ![k] = "opening"] /\ ~SO!Served(k)
            /\ wants' = wants /\ closed' = closed /\ v = wants[k]
        BY <2>3, <3>1 DEF v
      <3>4. ASSUME NEW q \in Connections, q # k, SO!Served(q)
            PROVE  /\ wants[q] # v /\ has'[q] = has[q] /\ has[q] # has'[k]
                   /\ sessions'[wants[q]] = sessions[wants[q]]
        <4>1. /\ sessions[wants[q]] = [controller |-> has[q], connected |-> TRUE]
              /\ wants[q] \in Conversations /\ has[q] # 0
          BY <1>0, <3>4
        <4>a. /\ sessions[wants[q]].controller = has[q]
              /\ sessions[wants[q]].connected
          BY <4>1
        <4>2. wants[q] # v
          BY <4>1, <4>a, <2>3 DEF SO!Known, SO!Taken
        <4>b. has[q] <= made /\ has[q] # sessions[v].controller
          BY <1>0, <2>0, <4>1, <4>a, <4>2
        <4>c. has'[k] = made + 1
          BY <1>0, <2>3
        <4>3. has[q] # has'[k]
          BY <1>0, <4>b, <4>c
        <4>4. sessions'[wants[q]] = sessions[wants[q]] /\ has'[q] = has[q]
          BY <1>0, <2>0, <2>3, <3>4, <4>1, <4>2
        <4> QED BY <4>2, <4>3, <4>4
      <3>5. ASSUME NEW q \in Connections, SO!Served(q)'
            PROVE  /\ sessions'[wants'[q]] = [controller |-> has'[q], connected |-> TRUE]
                   /\ \A j \in Connections \ {q} : SO!Served(j)' => has'[j] # has'[q]
                   /\ conn'[q] = "turn" => has'[q] \notin closed'
        <4>1. CASE q = k
          BY <1>0, <3>2, <3>3, <3>4, <3>5, <4>1
        <4>2. CASE q # k
          <5>1. SO!Served(q) /\ conn'[q] = conn[q]
            BY <1>0, <3>3, <3>5, <4>2
          <5> QED BY <1>0, <3>2, <3>3, <3>4, <4>2, <5>1
        <4> QED BY <4>1, <4>2
      <3> QED BY <3>5
    <2>4. CASE /\ ~SO!Known(v) /\ SO!Goes(k, "gone")
               /\ UNCHANGED <<sessions, made, has, overdue>>
      <3>1. conn[k] = "evicting" /\ UNCHANGED <<closed, wants>>
        BY <1>3 DEF SO!Acquire
      <3> QED BY <1>0, <2>0, <2>4, <3>1 DEF SO!Known, SO!Taken
    <2> QED BY <1>3, <2>1, <2>2, <2>3, <2>4 DEF SO!Acquire
  <1>4. ASSUME NEW k \in Connections, SO!Attach(k)
        PROVE  SO!OwnController'
    BY <1>0, <1>4 DEF SO!Attach
  <1>5. ASSUME NEW k \in Connections, SO!OpenFails(k)
        PROVE  SO!OwnController'
    BY <1>0, <1>5 DEF SO!OpenFails
  <1>6. ASSUME NEW k \in Connections, SO!Turn(k)
        PROVE  SO!OwnController'
    BY <1>0, <1>6 DEF SO!Turn, SO!Goes
  <1>7. ASSUME NEW k \in Connections, SO!TurnEnds(k)
        PROVE  SO!OwnController'
    BY <1>0, <1>7 DEF SO!TurnEnds
  <1>8. ASSUME NEW k \in Connections, SO!TurnFails(k)
        PROVE  SO!OwnController'
    BY <1>0, <1>8 DEF SO!TurnFails
  <1>9. ASSUME NEW k \in Connections, SO!Disconnect(k)
        PROVE  SO!OwnController'
    BY <1>0, <1>9 DEF SO!Disconnect
  <1>10. ASSUME NEW k \in Connections, SO!Release(k)
        PROVE  SO!OwnController'
    <2>1. /\ conn[k] = "leaving" /\ conn' = [conn EXCEPT ![k] = "gone"]
          /\ UNCHANGED <<closed, wants, has>>
      BY <1>10 DEF SO!Release
    <2>2. wants[k] \in Conversations /\ SO!Served(k)
      BY <1>0, <2>1
    <2>3. \/ sessions' = [sessions EXCEPT ![wants[k]].connected = FALSE]
          \/ sessions' = sessions
      BY <1>10 DEF SO!Release
    <2>4. ASSUME NEW q \in Connections, SO!Served(q)'
          PROVE  /\ q # k /\ SO!Served(q)
                 /\ sessions'[wants[q]] = sessions[wants[q]]
      <3>1. q # k /\ SO!Served(q) /\ wants[q] \in Conversations
        BY <1>0, <2>1, <2>4
      <3>2. has[q] # has[k] /\ sessions[wants[q]] = [controller |-> has[q], connected |-> TRUE]
            /\ sessions[wants[k]] = [controller |-> has[k], connected |-> TRUE]
        BY <1>0, <2>2, <3>1
      <3>3. wants[q] # wants[k]
        BY <3>2
      <3> QED BY <1>0, <2>2, <2>3, <3>1, <3>3
    <2>5. \A q \in Connections : SO!Served(q)' => conn'[q] = conn[q]
      BY <1>0, <2>1, <2>4
    <2> QED BY <1>0, <2>1, <2>4, <2>5
  <1>11. ASSUME NEW v \in Conversations, SO!Expire(v)
        PROVE  SO!OwnController'
    BY <1>0, <1>11 DEF SO!Expire, SO!Known
  <1> QED
    BY <1>1, <1>2, <1>3, <1>4, <1>5, <1>6, <1>7, <1>8, <1>9, <1>10, <1>11
    DEF SO!SocketsNext

\* Nothing is connected at the start.
LEMMA SocketsStart == SO!SocketsInit => SocketsInv
  BY DEF SO!SocketsInit, SocketsInv, SocketsTyped, Numbered, Wanting,
     SO!OwnController,
         SO!Served, SO!NoSession, SO!Places, SO!Unknown

\* The invariant of the front is inductive.
LEMMA SocketsStep ==
    ASSUME SocketsInv, SO!SocketsNext \/ UNCHANGED SocketsVars
    PROVE  SocketsInv'
  <1>1. CASE SO!SocketsNext
    BY <1>1, SocketsTypedStep, NumberedStep, WantingStep, OwnStep DEF SocketsInv
  <1>2. CASE UNCHANGED SocketsVars
    BY <1>2 DEF SocketsVars, SocketsInv, SocketsTyped, Numbered, Wanting,
       SO!OwnController,
         SO!Served
  <1> QED BY <1>1, <1>2

(* A connection has its conversation to itself for as long as it is        *)
(* served, and only a turn of its own closes its controller under a turn   *)
(* (ConversationWebSocketApp, _acquire_session and _release_session).      *)
THEOREM ConnectionsApart == Spec => []OwnController
  <1>1. Init => (part = "sockets" => SocketsInv)
    BY SocketsStart DEF Init
  <1>2. (part = "sockets" => SocketsInv) /\ [Next]_allVars
          => (part = "sockets" => SocketsInv)'
    BY PartSteps, SocketsStep
  <1>3. (part = "sockets" => SocketsInv) => OwnController
    BY DEF SocketsInv, OwnController
  <1> QED BY <1>1, <1>2, <1>3, PTL DEF Spec

-----------------------------------------------------------------------------
(* The subscription credential                                             *)

CredentialsTyped ==
    /\ stored \in Nat /\ minted \in Nat /\ valid \subseteq Nat
    /\ locks \in [CR!Processes -> BOOLEAN]
    /\ stage \in [Tasks -> CR!Stages]
    /\ held \in [Tasks -> Nat] /\ stale \in [Tasks -> Nat]
    /\ exchanged \in [CR!Processes -> SUBSET Nat]

Refreshing(t) == stage[t] \in {"post", "reply"}

\* The lock of a process lets one task refresh at a time.
Serial == \A t \in Tasks : Refreshing(t) =>
    /\ locks[CR!Proc(t)]
    /\ \A u \in Tasks \ {t} : CR!Proc(u) = CR!Proc(t) => ~Refreshing(u)

\* Every token that is around was given out, so the next one is new to all.
Minted ==
    /\ stored <= minted
    /\ \A k \in valid : k <= minted
    /\ \A p \in CR!Processes : \A k \in exchanged[p] : k <= minted
    /\ \A t \in Tasks : Refreshing(t) => held[t] <= minted

\* The file holds no token that was replaced.
Current == \A p \in CR!Processes : stored \notin exchanged[p]

\* An answer on its way is known to its task alone, and the token it was
\* given for is spent.
Answering == \A t \in Tasks : stage[t] = "reply" =>
    /\ held[t] # stored /\ held[t] \in valid /\ stale[t] \notin valid
    /\ stale[t] <= minted
    /\ \A p \in CR!Processes : held[t] \notin exchanged[p]
    /\ \A u \in Tasks \ {t} : Refreshing(u) => held[u] # held[t]

CredentialsInv ==
    CredentialsTyped /\ Serial /\ Minted /\ Current /\ Answering /\ CR!TokenChain

\* The variables keep their types.
LEMMA CredentialsTypedStep ==
    ASSUME CredentialsInv, CR!CredentialsNext
    PROVE  CredentialsTyped'
  <1> USE DEF CredentialsTyped, CR!Stages, CR!NoToken
  <1>0. /\ CredentialsTyped /\ Serial /\ Minted
        /\ Current /\ Answering /\ CR!TokenChain
    BY DEF CredentialsInv
  <1>p. \A t \in Tasks : CR!Proc(t) \in CR!Processes
    BY DEF CR!Processes
  <1>1. ASSUME NEW t \in Tasks, CR!Ask(t)
        PROVE  CredentialsTyped'
    BY <1>0, <1>p, <1>1 DEF CR!Ask, CR!service, CR!Moves
  <1>2. ASSUME NEW t \in Tasks, CR!Load(t)
        PROVE  CredentialsTyped'
    BY <1>0, <1>p, <1>2 DEF CR!Load, CR!service, CR!Moves, CR!Takes
  <1>3. ASSUME NEW t \in Tasks, CR!LockAndReload(t)
        PROVE  CredentialsTyped'
    BY <1>0, <1>p, <1>3 DEF CR!LockAndReload, CR!service, CR!Moves, CR!Takes
  <1>4. ASSUME NEW t \in Tasks, CR!Rotate(t)
        PROVE  CredentialsTyped'
    <2>1. held' \in [Tasks -> Nat] /\ stage' \in [Tasks -> CR!Stages]
      BY <1>0, <1>4 DEF CR!Rotate, CR!Moves, CR!Takes
    <2>2. stale' \in [Tasks -> Nat]
      <3>1. stale' = [stale EXCEPT ![t] = held[t]]
        BY <1>4 DEF CR!Rotate
      <3> QED BY <1>0, <3>1
    <2>3. /\ minted' \in Nat /\ valid' \subseteq Nat
          /\ UNCHANGED <<stored, locks, exchanged>>
      <3>1. /\ minted' = minted + 1 /\ valid' \subseteq valid \cup {minted + 1}
            /\ UNCHANGED <<stored, locks, exchanged>>
        BY <1>4 DEF CR!Rotate
      <3>2. minted + 1 \in Nat /\ valid \subseteq Nat
        BY <1>0
      <3> QED BY <3>1, <3>2
    <2> QED BY <1>0, <2>1, <2>2, <2>3
  <1>5. ASSUME NEW t \in Tasks, CR!Save(t)
        PROVE  CredentialsTyped'
    BY <1>0, <1>p, <1>5 DEF CR!Save, CR!service, CR!Moves, CR!Unlock
  <1>6. ASSUME NEW t \in Tasks, CR!LoseReply(t)
        PROVE  CredentialsTyped'
    BY <1>0, <1>p, <1>6 DEF CR!LoseReply, CR!service, CR!Ends, CR!Moves,
       CR!Takes, CR!Unlock
  <1>7. ASSUME NEW t \in Tasks, CR!RefreshFails(t)
        PROVE  CredentialsTyped'
    BY <1>0, <1>p, <1>7 DEF CR!RefreshFails, CR!service, CR!Ends, CR!Moves,
       CR!Takes, CR!Unlock
  <1>8. ASSUME NEW t \in Tasks, CR!Accepted(t)
        PROVE  CredentialsTyped'
    BY <1>0, <1>p, <1>8 DEF CR!Accepted, CR!service, CR!Ends, CR!Moves, CR!Takes
  <1>9. ASSUME NEW t \in Tasks, CR!Rejected(t)
        PROVE  CredentialsTyped'
    BY <1>0, <1>p, <1>9 DEF CR!Rejected, CR!service, CR!Ends, CR!Moves, CR!Takes
  <1>10. ASSUME NEW k \in CR!Tokens, CR!Revoked(k)
        PROVE  CredentialsTyped'
    BY <1>0, <1>p, <1>10 DEF CR!Revoked, CR!service
  <1>11. ASSUME CR!Expire
        PROVE  CredentialsTyped'
    BY <1>0, <1>p, <1>11 DEF CR!Expire, CR!service
  <1>12. ASSUME CR!LogIn
        PROVE  CredentialsTyped'
    BY <1>0, <1>p, <1>12 DEF CR!LogIn, CR!service
  <1> QED
    BY <1>1, <1>2, <1>3, <1>4, <1>5, <1>6, <1>7, <1>8, <1>9, <1>10, <1>11, <1>12
    DEF CR!CredentialsNext

\* A task refreshes under the lock of its process, and lets it go after.
LEMMA SerialStep ==
    ASSUME CredentialsInv, CR!CredentialsNext
    PROVE  Serial'
  <1> USE DEF CredentialsTyped, Serial, Refreshing
  <1>0. /\ CredentialsTyped /\ Serial /\ Minted
        /\ Current /\ Answering /\ CR!TokenChain
    BY DEF CredentialsInv
  <1>p. \A t \in Tasks : CR!Proc(t) \in CR!Processes
    BY DEF CR!Processes
  <1>1. ASSUME NEW t \in Tasks, CR!Ask(t)
        PROVE  Serial'
    BY <1>0, <1>p, <1>1 DEF CR!Ask, CR!service, CR!Moves
  <1>2. ASSUME NEW t \in Tasks, CR!Load(t)
        PROVE  Serial'
    BY <1>0, <1>p, <1>2 DEF CR!Load, CR!service, CR!Moves, CR!Takes
  <1>3. ASSUME NEW t \in Tasks, CR!LockAndReload(t)
        PROVE  Serial'
    BY <1>0, <1>p, <1>3 DEF CR!LockAndReload, CR!service, CR!Moves, CR!Takes
  <1>4. ASSUME NEW t \in Tasks, CR!Rotate(t)
        PROVE  Serial'
    BY <1>0, <1>p, <1>4 DEF CR!Rotate, CR!service, CR!Moves, CR!Takes
  <1>5. ASSUME NEW t \in Tasks, CR!Save(t)
        PROVE  Serial'
    BY <1>0, <1>p, <1>5 DEF CR!Save, CR!service, CR!Moves, CR!Unlock
  <1>6. ASSUME NEW t \in Tasks, CR!LoseReply(t)
        PROVE  Serial'
    BY <1>0, <1>p, <1>6 DEF CR!LoseReply, CR!service, CR!Ends, CR!Moves,
       CR!Takes, CR!Unlock
  <1>7. ASSUME NEW t \in Tasks, CR!RefreshFails(t)
        PROVE  Serial'
    BY <1>0, <1>p, <1>7 DEF CR!RefreshFails, CR!service, CR!Ends, CR!Moves,
       CR!Takes, CR!Unlock
  <1>8. ASSUME NEW t \in Tasks, CR!Accepted(t)
        PROVE  Serial'
    BY <1>0, <1>p, <1>8 DEF CR!Accepted, CR!service, CR!Ends, CR!Moves, CR!Takes
  <1>9. ASSUME NEW t \in Tasks, CR!Rejected(t)
        PROVE  Serial'
    BY <1>0, <1>p, <1>9 DEF CR!Rejected, CR!service, CR!Ends, CR!Moves, CR!Takes
  <1>10. ASSUME NEW k \in CR!Tokens, CR!Revoked(k)
        PROVE  Serial'
    BY <1>0, <1>p, <1>10 DEF CR!Revoked, CR!service
  <1>11. ASSUME CR!Expire
        PROVE  Serial'
    BY <1>0, <1>p, <1>11 DEF CR!Expire, CR!service
  <1>12. ASSUME CR!LogIn
        PROVE  Serial'
    BY <1>0, <1>p, <1>12 DEF CR!LogIn, CR!service
  <1> QED
    BY <1>1, <1>2, <1>3, <1>4, <1>5, <1>6, <1>7, <1>8, <1>9, <1>10, <1>11, <1>12
    DEF CR!CredentialsNext

\* Tokens are numbered as they are given out.
LEMMA MintedStep ==
    ASSUME CredentialsInv, CR!CredentialsNext
    PROVE  Minted'
  <1> USE DEF CredentialsTyped, Minted, Answering, Refreshing
  <1>0. /\ CredentialsTyped /\ Serial /\ Minted
        /\ Current /\ Answering /\ CR!TokenChain
    BY DEF CredentialsInv
  <1>p. \A t \in Tasks : CR!Proc(t) \in CR!Processes
    BY DEF CR!Processes
  <1>1. ASSUME NEW t \in Tasks, CR!Ask(t)
        PROVE  Minted'
    BY <1>0, <1>p, <1>1 DEF CR!Ask, CR!service, CR!Moves
  <1>2. ASSUME NEW t \in Tasks, CR!Load(t)
        PROVE  Minted'
    BY <1>0, <1>p, <1>2 DEF CR!Load, CR!service, CR!Moves, CR!Takes
  <1>3. ASSUME NEW t \in Tasks, CR!LockAndReload(t)
        PROVE  Minted'
    BY <1>0, <1>p, <1>3 DEF CR!LockAndReload, CR!service, CR!Moves, CR!Takes
  <1>4. ASSUME NEW t \in Tasks, CR!Rotate(t)
        PROVE  Minted'
    BY <1>0, <1>p, <1>4 DEF CR!Rotate, CR!service, CR!Moves, CR!Takes
  <1>5. ASSUME NEW t \in Tasks, CR!Save(t)
        PROVE  Minted'
    BY <1>0, <1>p, <1>5 DEF CR!Save, CR!service, CR!Moves, CR!Unlock
  <1>6. ASSUME NEW t \in Tasks, CR!LoseReply(t)
        PROVE  Minted'
    BY <1>0, <1>p, <1>6 DEF CR!LoseReply, CR!service, CR!Ends, CR!Moves,
       CR!Takes, CR!Unlock
  <1>7. ASSUME NEW t \in Tasks, CR!RefreshFails(t)
        PROVE  Minted'
    BY <1>0, <1>p, <1>7 DEF CR!RefreshFails, CR!service, CR!Ends, CR!Moves,
       CR!Takes, CR!Unlock
  <1>8. ASSUME NEW t \in Tasks, CR!Accepted(t)
        PROVE  Minted'
    BY <1>0, <1>p, <1>8 DEF CR!Accepted, CR!service, CR!Ends, CR!Moves, CR!Takes
  <1>9. ASSUME NEW t \in Tasks, CR!Rejected(t)
        PROVE  Minted'
    BY <1>0, <1>p, <1>9 DEF CR!Rejected, CR!service, CR!Ends, CR!Moves, CR!Takes
  <1>10. ASSUME NEW k \in CR!Tokens, CR!Revoked(k)
        PROVE  Minted'
    BY <1>0, <1>p, <1>10 DEF CR!Revoked, CR!service
  <1>11. ASSUME CR!Expire
        PROVE  Minted'
    BY <1>0, <1>p, <1>11 DEF CR!Expire, CR!service
  <1>12. ASSUME CR!LogIn
        PROVE  Minted'
    BY <1>0, <1>p, <1>12 DEF CR!LogIn, CR!service
  <1> QED
    BY <1>1, <1>2, <1>3, <1>4, <1>5, <1>6, <1>7, <1>8, <1>9, <1>10, <1>11, <1>12
    DEF CR!CredentialsNext

\* What replaces the file was never in it.
LEMMA CurrentStep ==
    ASSUME CredentialsInv, CR!CredentialsNext
    PROVE  Current'
  <1> USE DEF CredentialsTyped, Minted, Current, Answering
  <1>0. /\ CredentialsTyped /\ Serial /\ Minted
        /\ Current /\ Answering /\ CR!TokenChain
    BY DEF CredentialsInv
  <1>p. \A t \in Tasks : CR!Proc(t) \in CR!Processes
    BY DEF CR!Processes
  <1>1. ASSUME NEW t \in Tasks, CR!Ask(t)
        PROVE  Current'
    BY <1>0, <1>p, <1>1 DEF CR!Ask, CR!service, CR!Moves
  <1>2. ASSUME NEW t \in Tasks, CR!Load(t)
        PROVE  Current'
    BY <1>0, <1>p, <1>2 DEF CR!Load, CR!service, CR!Moves, CR!Takes
  <1>3. ASSUME NEW t \in Tasks, CR!LockAndReload(t)
        PROVE  Current'
    BY <1>0, <1>p, <1>3 DEF CR!LockAndReload, CR!service, CR!Moves, CR!Takes
  <1>4. ASSUME NEW t \in Tasks, CR!Rotate(t)
        PROVE  Current'
    BY <1>0, <1>p, <1>4 DEF CR!Rotate, CR!service, CR!Moves, CR!Takes
  <1>5. ASSUME NEW t \in Tasks, CR!Save(t)
        PROVE  Current'
    BY <1>0, <1>p, <1>5 DEF CR!Save, CR!service, CR!Moves, CR!Unlock
  <1>6. ASSUME NEW t \in Tasks, CR!LoseReply(t)
        PROVE  Current'
    BY <1>0, <1>p, <1>6 DEF CR!LoseReply, CR!service, CR!Ends, CR!Moves,
       CR!Takes, CR!Unlock
  <1>7. ASSUME NEW t \in Tasks, CR!RefreshFails(t)
        PROVE  Current'
    BY <1>0, <1>p, <1>7 DEF CR!RefreshFails, CR!service, CR!Ends, CR!Moves,
       CR!Takes, CR!Unlock
  <1>8. ASSUME NEW t \in Tasks, CR!Accepted(t)
        PROVE  Current'
    BY <1>0, <1>p, <1>8 DEF CR!Accepted, CR!service, CR!Ends, CR!Moves, CR!Takes
  <1>9. ASSUME NEW t \in Tasks, CR!Rejected(t)
        PROVE  Current'
    BY <1>0, <1>p, <1>9 DEF CR!Rejected, CR!service, CR!Ends, CR!Moves, CR!Takes
  <1>10. ASSUME NEW k \in CR!Tokens, CR!Revoked(k)
        PROVE  Current'
    BY <1>0, <1>p, <1>10 DEF CR!Revoked, CR!service
  <1>11. ASSUME CR!Expire
        PROVE  Current'
    BY <1>0, <1>p, <1>11 DEF CR!Expire, CR!service
  <1>12. ASSUME CR!LogIn
        PROVE  Current'
    BY <1>0, <1>p, <1>12 DEF CR!LogIn, CR!service
  <1> QED
    BY <1>1, <1>2, <1>3, <1>4, <1>5, <1>6, <1>7, <1>8, <1>9, <1>10, <1>11, <1>12
    DEF CR!CredentialsNext

\* An answer is held by one task, until the file has it.
LEMMA AnsweringStep ==
    ASSUME CredentialsInv, CR!CredentialsNext
    PROVE  Answering'
  <1> USE DEF CredentialsTyped, Serial, Minted, Current, Answering, Refreshing
  <1>0. /\ CredentialsTyped /\ Serial /\ Minted
        /\ Current /\ Answering /\ CR!TokenChain
    BY DEF CredentialsInv
  <1>p. \A t \in Tasks : CR!Proc(t) \in CR!Processes
    BY DEF CR!Processes
  <1>1. ASSUME NEW t \in Tasks, CR!Ask(t)
        PROVE  Answering'
    BY <1>0, <1>p, <1>1 DEF CR!Ask, CR!service, CR!Moves
  <1>2. ASSUME NEW t \in Tasks, CR!Load(t)
        PROVE  Answering'
    BY <1>0, <1>p, <1>2 DEF CR!Load, CR!service, CR!Moves, CR!Takes
  <1>3. ASSUME NEW t \in Tasks, CR!LockAndReload(t)
        PROVE  Answering'
    BY <1>0, <1>p, <1>3 DEF CR!LockAndReload, CR!service, CR!Moves, CR!Takes
  <1>4. ASSUME NEW t \in Tasks, CR!Rotate(t)
        PROVE  Answering'
    BY <1>0, <1>p, <1>4 DEF CR!Rotate, CR!service, CR!Moves, CR!Takes
  <1>5. ASSUME NEW t \in Tasks, CR!Save(t)
        PROVE  Answering'
    BY <1>0, <1>p, <1>5 DEF CR!Save, CR!service, CR!Moves, CR!Unlock
  <1>6. ASSUME NEW t \in Tasks, CR!LoseReply(t)
        PROVE  Answering'
    BY <1>0, <1>p, <1>6 DEF CR!LoseReply, CR!service, CR!Ends, CR!Moves,
       CR!Takes, CR!Unlock
  <1>7. ASSUME NEW t \in Tasks, CR!RefreshFails(t)
        PROVE  Answering'
    BY <1>0, <1>p, <1>7 DEF CR!RefreshFails, CR!service, CR!Ends, CR!Moves,
       CR!Takes, CR!Unlock
  <1>8. ASSUME NEW t \in Tasks, CR!Accepted(t)
        PROVE  Answering'
    BY <1>0, <1>p, <1>8 DEF CR!Accepted, CR!service, CR!Ends, CR!Moves, CR!Takes
  <1>9. ASSUME NEW t \in Tasks, CR!Rejected(t)
        PROVE  Answering'
    BY <1>0, <1>p, <1>9 DEF CR!Rejected, CR!service, CR!Ends, CR!Moves, CR!Takes
  <1>10. ASSUME NEW k \in CR!Tokens, CR!Revoked(k)
        PROVE  Answering'
    BY <1>0, <1>p, <1>10 DEF CR!Revoked, CR!service
  <1>11. ASSUME CR!Expire
        PROVE  Answering'
    BY <1>0, <1>p, <1>11 DEF CR!Expire, CR!service
  <1>12. ASSUME CR!LogIn
        PROVE  Answering'
    BY <1>0, <1>p, <1>12 DEF CR!LogIn, CR!service
  <1> QED
    BY <1>1, <1>2, <1>3, <1>4, <1>5, <1>6, <1>7, <1>8, <1>9, <1>10, <1>11, <1>12
    DEF CR!CredentialsNext

\* The file's token is spent only for an answer on its way, or a lost one.
LEMMA TokenChainStep ==
    ASSUME CredentialsInv, CR!CredentialsNext
    PROVE  CR!TokenChain'
  <1> USE DEF CredentialsTyped, Serial, Minted, Current, Answering, Refreshing,
              CR!TokenChain
  <1>0. /\ CredentialsTyped /\ Serial /\ Minted
        /\ Current /\ Answering /\ CR!TokenChain
    BY DEF CredentialsInv
  <1>p. \A t \in Tasks : CR!Proc(t) \in CR!Processes
    BY DEF CR!Processes
  <1>1. ASSUME NEW t \in Tasks, CR!Ask(t)
        PROVE  CR!TokenChain'
    BY <1>0, <1>p, <1>1 DEF CR!Ask, CR!service, CR!Moves
  <1>2. ASSUME NEW t \in Tasks, CR!Load(t)
        PROVE  CR!TokenChain'
    BY <1>0, <1>p, <1>2 DEF CR!Load, CR!service, CR!Moves, CR!Takes
  <1>3. ASSUME NEW t \in Tasks, CR!LockAndReload(t)
        PROVE  CR!TokenChain'
    BY <1>0, <1>p, <1>3 DEF CR!LockAndReload, CR!service, CR!Moves, CR!Takes
  <1>4. ASSUME NEW t \in Tasks, CR!Rotate(t)
        PROVE  CR!TokenChain'
    BY <1>0, <1>p, <1>4 DEF CR!Rotate, CR!service, CR!Moves, CR!Takes
  <1>5. ASSUME NEW t \in Tasks, CR!Save(t)
        PROVE  CR!TokenChain'
    BY <1>0, <1>p, <1>5 DEF CR!Save, CR!service, CR!Moves, CR!Unlock
  <1>6. ASSUME NEW t \in Tasks, CR!LoseReply(t)
        PROVE  CR!TokenChain'
    BY <1>0, <1>p, <1>6 DEF CR!LoseReply, CR!service, CR!Ends, CR!Moves,
       CR!Takes, CR!Unlock
  <1>7. ASSUME NEW t \in Tasks, CR!RefreshFails(t)
        PROVE  CR!TokenChain'
    BY <1>0, <1>p, <1>7 DEF CR!RefreshFails, CR!service, CR!Ends, CR!Moves,
       CR!Takes, CR!Unlock
  <1>8. ASSUME NEW t \in Tasks, CR!Accepted(t)
        PROVE  CR!TokenChain'
    BY <1>0, <1>p, <1>8 DEF CR!Accepted, CR!service, CR!Ends, CR!Moves, CR!Takes
  <1>9. ASSUME NEW t \in Tasks, CR!Rejected(t)
        PROVE  CR!TokenChain'
    BY <1>0, <1>p, <1>9 DEF CR!Rejected, CR!service, CR!Ends, CR!Moves, CR!Takes
  <1>10. ASSUME NEW k \in CR!Tokens, CR!Revoked(k)
        PROVE  CR!TokenChain'
    BY <1>0, <1>p, <1>10 DEF CR!Revoked, CR!service
  <1>11. ASSUME CR!Expire
        PROVE  CR!TokenChain'
    BY <1>0, <1>p, <1>11 DEF CR!Expire, CR!service
  <1>12. ASSUME CR!LogIn
        PROVE  CR!TokenChain'
    BY <1>0, <1>p, <1>12 DEF CR!LogIn, CR!service
  <1> QED
    BY <1>1, <1>2, <1>3, <1>4, <1>5, <1>6, <1>7, <1>8, <1>9, <1>10, <1>11, <1>12
    DEF CR!CredentialsNext

\* The first token is in the file and is valid.
LEMMA CredentialsStart == CR!CredentialsInit => CredentialsInv
  BY DEF CR!CredentialsInit, CredentialsInv, CredentialsTyped, Serial, Minted,
     Current,
         Answering, Refreshing, CR!TokenChain, CR!Stages, CR!NoToken, CR!Processes

\* The invariant of the credential is inductive.
LEMMA CredentialsStep ==
    ASSUME CredentialsInv, CR!CredentialsNext \/ UNCHANGED CredentialsVars
    PROVE  CredentialsInv'
  <1>1. CASE CR!CredentialsNext
    BY <1>1, CredentialsTypedStep, SerialStep, MintedStep, CurrentStep,
       AnsweringStep,
       TokenChainStep DEF CredentialsInv
  <1>2. CASE UNCHANGED CredentialsVars
    BY <1>2 DEF CredentialsVars, CredentialsInv, CredentialsTyped, Serial,
       Minted, Current,
         Answering, Refreshing, CR!TokenChain
  <1> QED BY <1>1, <1>2

(* One refresh at a time, on the newest token: a process never presents a  *)
(* refresh token it has itself replaced in the file, and the file holds a  *)
(* token the service takes, unless the answer to a refresh is on its way   *)
(* or was lost (CodexCredentialManager).                                   *)
THEOREM TokensChain == Spec => []TokenChain
  <1>1. Init => (part = "credentials" => CredentialsInv)
    BY CredentialsStart DEF Init
  <1>2. (part = "credentials" => CredentialsInv) /\ [Next]_allVars
           => (part = "credentials" => CredentialsInv)'
    BY PartSteps, CredentialsStep
  <1>3. (part = "credentials" => CredentialsInv) => TokenChain
    BY DEF CredentialsInv, TokenChain
  <1> QED BY <1>1, <1>2, <1>3, PTL DEF Spec

-----------------------------------------------------------------------------
(* The MCP client                                                          *)

Line == [server : Nat, id : Nat]
Answers == [how : {"none", "result", "error"}, line : Line, id : Nat, server : Nat]

McpTyped ==
    /\ caller \in [Callers -> {"idle", "locked", "hello", "greeted", "call", "back"}]
    /\ nextId \in Nat /\ nextId # 0 /\ waitsFor \in Nat
    /\ server \in Nat /\ servers \in Nat
    /\ given \in [Callers -> Answers]

\* What a server may have written: lines that answer nothing, and answers of its
\* own.
OwnLines == {MC!Noise} \cup {[server |-> server, id |-> n] : n \in Nat \ {0}}

\* The client's server alone has written what is there to read.
OwnOutput == server # 0 => stdout \in Seq(OwnLines) /\ buffer \in Seq(OwnLines)

\* The handshake was with the server there is, and a caller that waits has asked.
Shaken ==
    /\ initialized => ready /\ server # 0
    /\ \A c \in Callers :
         /\ MC!At(c, "call") => initialized
         /\ MC!Waiting(c) => server # 0 /\ waitsFor # 0

McpInv == McpTyped /\ OwnOutput /\ Shaken /\ MC!AnswerIsOwn

\* What is taken from the output is what the server wrote, and so is the rest.
LEMMA OwnLineRead ==
    ASSUME NEW c \in Callers, McpInv, MC!ReadLine(c)
    PROVE  /\ server # 0 /\ Head(buffer \o stdout) \in OwnLines
           /\ buffer' \in Seq(OwnLines) /\ stdout' \in Seq(OwnLines)
  <1>1. server # 0 /\ buffer \o stdout # <<>>
    BY DEF MC!ReadLine, McpInv, Shaken
  <1>2. stdout \in Seq(OwnLines) /\ buffer \in Seq(OwnLines)
    BY <1>1 DEF McpInv, OwnOutput
  <1>3. buffer \o stdout \in Seq(OwnLines)
    BY <1>2, ConcatProperties
  <1>4. Head(buffer \o stdout) \in OwnLines /\ Tail(buffer \o stdout) \in Seq(OwnLines)
    BY <1>1, <1>3, HeadTailProperties
  <1>5. buffer # <<>> => Tail(buffer) \in Seq(OwnLines)
    BY <1>2, HeadTailProperties
  <1>6. \/ buffer' = Tail(buffer \o stdout) /\ stdout' = <<>>
        \/ buffer # <<>> /\ buffer' = Tail(buffer) /\ stdout' = stdout
    BY DEF MC!ReadLine
  <1>7. <<>> \in Seq(OwnLines)
    BY EmptySeq
  <1> QED BY <1>1, <1>2, <1>4, <1>5, <1>6, <1>7

\* Reading a line leaves the lock and the caller as they were, greets it, or
\* ends its call with what was read.
LEMMA LineRead ==
    ASSUME NEW c \in Callers, McpInv, MC!ReadLine(c)
    PROVE  /\ MC!Waiting(c)
           /\ UNCHANGED <<nextId, server, servers, initialized, up, ready>>
           /\ \/ UNCHANGED <<holder, caller, waitsFor, given>>
              \/ /\ caller' = [caller EXCEPT ![c] = "greeted"] /\ waitsFor' = 0
                 /\ UNCHANGED <<holder, given>>
              \/ \E how \in {"result", "error"}, line \in OwnLines :
                    line.id = waitsFor /\ MC!Returns(c, how, line)
  <1>1. /\ MC!Waiting(c)
        /\ UNCHANGED <<nextId, server, servers, initialized, up, ready>>
    BY DEF MC!ReadLine
  <1>2. \/ UNCHANGED <<holder, caller, waitsFor, given>>
        \/ /\ caller' = [caller EXCEPT ![c] = "greeted"] /\ waitsFor' = 0
           /\ UNCHANGED <<holder, given>>
        \/ \E how \in {"result", "error"} :
              /\ Head(buffer \o stdout).id = waitsFor
              /\ MC!Returns(c, how, Head(buffer \o stdout))
    BY DEF MC!ReadLine, MC!Matches, MC!Goes
  <1> QED BY <1>1, <1>2, OwnLineRead

\* The variables keep their types.
LEMMA McpTypedStep ==
    ASSUME McpInv, MC!McpStdioNext
    PROVE  McpTyped'
  <1> USE Bounds DEF McpTyped
  <1>0. McpTyped /\ OwnOutput /\ Shaken /\ MC!AnswerIsOwn
    BY DEF McpInv
  <1>1. ASSUME NEW c \in Callers, MC!Lock(c)
        PROVE  McpTyped'
    BY <1>0, <1>1 DEF MC!Lock, MC!Goes
  <1>2. ASSUME NEW c \in Callers, MC!Start(c)
        PROVE  McpTyped'
    BY <1>0, <1>2 DEF MC!Start
  <1>3. ASSUME NEW c \in Callers, MC!StartFails(c)
        PROVE  McpTyped'
    BY <1>0, <1>3 DEF MC!StartFails, MC!Returns, MC!Goes, Answers, Line,
       MC!Noise, MC!NoAnswer
  <1>4. ASSUME NEW c \in Callers, MC!Initialize(c)
        PROVE  McpTyped'
    BY <1>0, <1>4 DEF MC!Initialize, MC!Ask, MC!Goes
  <1>5. ASSUME NEW c \in Callers, MC!Greet(c)
        PROVE  McpTyped'
    BY <1>0, <1>5 DEF MC!Greet
  <1>6. ASSUME NEW c \in Callers, MC!Request(c)
        PROVE  McpTyped'
    BY <1>0, <1>6 DEF MC!Request, MC!Ask, MC!Goes
  <1>7. ASSUME NEW c \in Callers, MC!WriteFails(c)
        PROVE  McpTyped'
    BY <1>0, <1>7 DEF MC!WriteFails, MC!Returns, MC!Goes, Answers, Line,
       MC!Noise, MC!NoAnswer
  <1>8. ASSUME NEW c \in Callers, MC!ReadLine(c)
        PROVE  McpTyped'
    <2>1. /\ MC!Waiting(c)
          /\ UNCHANGED <<nextId, server, servers, initialized, up, ready>>
      BY <1>8, LineRead
    <2>2. CASE UNCHANGED <<holder, caller, waitsFor, given>>
      BY <1>0, <2>1, <2>2
    <2>3. CASE /\ caller' = [caller EXCEPT ![c] = "greeted"] /\ waitsFor' = 0
               /\ UNCHANGED <<holder, given>>
      BY <1>0, <2>1, <2>3
    <2>4. ASSUME NEW how \in {"result", "error"}, NEW line \in OwnLines,
                 line.id = waitsFor, MC!Returns(c, how, line)
          PROVE  McpTyped'
      <3>1. server # 0 /\ waitsFor # 0
        BY <1>0, <2>1 DEF Shaken
      <3>2. line = [server |-> server, id |-> waitsFor] /\ line \in Line
        BY <1>0, <2>4, <3>1 DEF OwnLines, MC!Noise, Line, McpTyped
      <3>3. /\ holder' = MC!Nobody /\ caller' = [caller EXCEPT ![c] = "back"]
            /\ given' = [given EXCEPT ![c] = [how |-> how, line |-> line,
                                                id |-> waitsFor, server |-> server]]
            /\ waitsFor' = 0
        BY <2>4 DEF MC!Returns, MC!Goes
      <3> QED BY <1>0, <2>1, <3>2, <3>3 DEF Answers
    <2> QED BY <1>8, <2>2, <2>3, <2>4, LineRead
  <1>9. ASSUME NEW c \in Callers, MC!EndOfFile(c)
        PROVE  McpTyped'
    BY <1>0, <1>9 DEF MC!EndOfFile, MC!Returns, MC!Goes, Answers, Line,
       MC!Noise, MC!NoAnswer
  <1>10. ASSUME NEW c \in Callers, MC!TimesOut(c)
        PROVE  McpTyped'
    BY <1>0, <1>10 DEF MC!TimesOut, MC!Close, MC!Returns, MC!Goes, MC!Waiting,
       Answers, Line, MC!Noise, MC!NoAnswer
  <1>11. ASSUME NEW c \in Callers, MC!Again(c)
        PROVE  McpTyped'
    BY <1>0, <1>11 DEF MC!Again, MC!Goes, MC!NoAnswer, Answers, Line, MC!Noise,
       MC!NoAnswer
  <1>12. ASSUME MC!CloseClient
        PROVE  McpTyped'
    BY <1>0, <1>12 DEF MC!CloseClient, MC!Close
  <1>13. ASSUME NEW id \in 1..MaxIds, MC!Reply(id)
        PROVE  McpTyped'
    BY <1>0, <1>13 DEF MC!Reply
  <1>14. ASSUME MC!Chatter
        PROVE  McpTyped'
    BY <1>0, <1>14 DEF MC!Chatter
  <1>15. ASSUME MC!Dies
        PROVE  McpTyped'
    BY <1>0, <1>15 DEF MC!Dies
  <1> QED
    BY <1>1, <1>2, <1>3, <1>4, <1>5, <1>6, <1>7, <1>8, <1>9, <1>10,
       <1>11, <1>12, <1>13, <1>14, <1>15
    DEF MC!McpStdioNext

\* A server that is started finds nothing to read.
LEMMA OwnOutputStep ==
    ASSUME McpInv, MC!McpStdioNext
    PROVE  OwnOutput'
  <1> USE Bounds DEF OwnOutput
  <1>0. McpTyped /\ OwnOutput /\ Shaken /\ MC!AnswerIsOwn
    BY DEF McpInv
  <1>1. ASSUME NEW c \in Callers, MC!Lock(c)
        PROVE  OwnOutput'
    BY <1>0, <1>1 DEF MC!Lock, MC!Goes, OwnLines
  <1>2. ASSUME NEW c \in Callers, MC!Start(c)
        PROVE  OwnOutput'
    BY <1>2, EmptySeq DEF MC!Start
  <1>3. ASSUME NEW c \in Callers, MC!StartFails(c)
        PROVE  OwnOutput'
    BY <1>0, <1>3 DEF MC!StartFails, MC!Returns, MC!Goes, OwnLines
  <1>4. ASSUME NEW c \in Callers, MC!Initialize(c)
        PROVE  OwnOutput'
    BY <1>0, <1>4 DEF MC!Initialize, MC!Ask, MC!Goes, OwnLines, MC!Ask
  <1>5. ASSUME NEW c \in Callers, MC!Greet(c)
        PROVE  OwnOutput'
    BY <1>0, <1>5 DEF MC!Greet, OwnLines
  <1>6. ASSUME NEW c \in Callers, MC!Request(c)
        PROVE  OwnOutput'
    BY <1>0, <1>6 DEF MC!Request, MC!Ask, MC!Goes, OwnLines, MC!Ask
  <1>7. ASSUME NEW c \in Callers, MC!WriteFails(c)
        PROVE  OwnOutput'
    BY <1>0, <1>7 DEF MC!WriteFails, MC!Returns, MC!Goes, OwnLines
  <1>8. ASSUME NEW c \in Callers, MC!ReadLine(c)
        PROVE  OwnOutput'
    <2>1. UNCHANGED server
      BY <1>8, LineRead
    <2>2. OwnLines' = OwnLines
      BY <2>1 DEF OwnLines
    <2> QED BY <1>8, <2>2, OwnLineRead
  <1>9. ASSUME NEW c \in Callers, MC!EndOfFile(c)
        PROVE  OwnOutput'
    BY <1>0, <1>9 DEF MC!EndOfFile, MC!Returns, MC!Goes, OwnLines
  <1>10. ASSUME NEW c \in Callers, MC!TimesOut(c)
        PROVE  OwnOutput'
    BY <1>0, <1>10 DEF MC!TimesOut, MC!Close, MC!Returns, MC!Goes, MC!Waiting,
       OwnLines
  <1>11. ASSUME NEW c \in Callers, MC!Again(c)
        PROVE  OwnOutput'
    BY <1>0, <1>11 DEF MC!Again, MC!Goes, MC!NoAnswer, OwnLines
  <1>12. ASSUME MC!CloseClient
        PROVE  OwnOutput'
    BY <1>0, <1>12 DEF MC!CloseClient, MC!Close, OwnLines
  <1>13. ASSUME NEW id \in 1..MaxIds, MC!Reply(id)
        PROVE  OwnOutput'
    <2>1. /\ server' = server /\ buffer' = buffer
          /\ stdout' = Append(stdout, [server |-> server, id |-> id])
      BY <1>13 DEF MC!Reply
    <2>2. id \in Nat \ {0}
      BY Bounds
    <2>3. [server |-> server, id |-> id] \in OwnLines
      BY <2>2 DEF OwnLines
    <2>4. OwnLines' = OwnLines
      BY <2>1 DEF OwnLines
    <2> QED BY <1>0, <2>1, <2>3, <2>4, AppendProperties
  <1>14. ASSUME MC!Chatter
        PROVE  OwnOutput'
    <2>1. OwnLines' = OwnLines /\ MC!Noise \in OwnLines
      BY <1>14 DEF MC!Chatter, OwnLines
    <2>2. server' = server /\ buffer' = buffer /\ stdout' = Append(stdout, MC!Noise)
      BY <1>14 DEF MC!Chatter
    <2> QED BY <1>0, <2>1, <2>2, AppendProperties
  <1>15. ASSUME MC!Dies
        PROVE  OwnOutput'
    BY <1>0, <1>15 DEF MC!Dies, OwnLines
  <1> QED
    BY <1>1, <1>2, <1>3, <1>4, <1>5, <1>6, <1>7, <1>8, <1>9, <1>10,
       <1>11, <1>12, <1>13, <1>14, <1>15
    DEF MC!McpStdioNext

\* No server is asked before its handshake.
LEMMA ShakenStep ==
    ASSUME McpInv, MC!McpStdioNext
    PROVE  Shaken'
  <1> USE Bounds DEF McpTyped, Shaken, MC!Waiting, MC!At, MC!Nobody
  <1>0. McpTyped /\ OwnOutput /\ Shaken /\ MC!AnswerIsOwn
    BY DEF McpInv
  <1>1. ASSUME NEW c \in Callers, MC!Lock(c)
        PROVE  Shaken'
    BY <1>0, <1>1 DEF MC!Lock, MC!Goes
  <1>2. ASSUME NEW c \in Callers, MC!Start(c)
        PROVE  Shaken'
    BY <1>0, <1>2 DEF MC!Start
  <1>3. ASSUME NEW c \in Callers, MC!StartFails(c)
        PROVE  Shaken'
    BY <1>0, <1>3 DEF MC!StartFails, MC!Returns, MC!Goes, Answers, Line,
       MC!Noise, MC!NoAnswer
  <1>4. ASSUME NEW c \in Callers, MC!Initialize(c)
        PROVE  Shaken'
    BY <1>0, <1>4 DEF MC!Initialize, MC!Ask, MC!Goes
  <1>5. ASSUME NEW c \in Callers, MC!Greet(c)
        PROVE  Shaken'
    BY <1>0, <1>5 DEF MC!Greet, MC!AnswerIsOwn
  <1>6. ASSUME NEW c \in Callers, MC!Request(c)
        PROVE  Shaken'
    BY <1>0, <1>6 DEF MC!Request, MC!Ask, MC!Goes
  <1>7. ASSUME NEW c \in Callers, MC!WriteFails(c)
        PROVE  Shaken'
    BY <1>0, <1>7 DEF MC!WriteFails, MC!Returns, MC!Goes, Answers, Line,
       MC!Noise, MC!NoAnswer
  <1>8. ASSUME NEW c \in Callers, MC!ReadLine(c)
        PROVE  Shaken'
    <2>1. /\ MC!Waiting(c)
          /\ UNCHANGED <<nextId, server, servers, initialized, up, ready>>
      BY <1>8, LineRead
    <2>2. CASE UNCHANGED <<holder, caller, waitsFor, given>>
      BY <1>0, <2>1, <2>2
    <2>3. CASE /\ caller' = [caller EXCEPT ![c] = "greeted"] /\ waitsFor' = 0
               /\ UNCHANGED <<holder, given>>
      BY <1>0, <2>1, <2>3
    <2>4. ASSUME NEW how \in {"result", "error"}, NEW line \in OwnLines,
                 line.id = waitsFor, MC!Returns(c, how, line)
          PROVE  Shaken'
      <3>1. server # 0 /\ waitsFor # 0
        BY <1>0, <2>1 DEF Shaken
      <3>2. line = [server |-> server, id |-> waitsFor] /\ line \in Line
        BY <1>0, <2>4, <3>1 DEF OwnLines, MC!Noise, Line, McpTyped
      <3>3. /\ holder' = MC!Nobody /\ caller' = [caller EXCEPT ![c] = "back"]
            /\ given' = [given EXCEPT ![c] = [how |-> how, line |-> line,
                                                id |-> waitsFor, server |-> server]]
            /\ waitsFor' = 0
        BY <2>4 DEF MC!Returns, MC!Goes
      <3> QED BY <1>0, <2>1, <3>2, <3>3
    <2> QED BY <1>8, <2>2, <2>3, <2>4, LineRead
  <1>9. ASSUME NEW c \in Callers, MC!EndOfFile(c)
        PROVE  Shaken'
    BY <1>0, <1>9 DEF MC!EndOfFile, MC!Returns, MC!Goes, Answers, Line,
       MC!Noise, MC!NoAnswer
  <1>10. ASSUME NEW c \in Callers, MC!TimesOut(c)
        PROVE  Shaken'
    BY <1>0, <1>10 DEF MC!TimesOut, MC!Close, MC!Returns, MC!Goes, MC!Waiting,
       Answers, Line, MC!Noise, MC!NoAnswer
  <1>11. ASSUME NEW c \in Callers, MC!Again(c)
        PROVE  Shaken'
    BY <1>0, <1>11 DEF MC!Again, MC!Goes, MC!NoAnswer, Answers, Line, MC!Noise,
       MC!NoAnswer
  <1>12. ASSUME MC!CloseClient
        PROVE  Shaken'
    BY <1>0, <1>12 DEF MC!CloseClient, MC!Close
  <1>13. ASSUME NEW id \in 1..MaxIds, MC!Reply(id)
        PROVE  Shaken'
    BY <1>0, <1>13 DEF MC!Reply
  <1>14. ASSUME MC!Chatter
        PROVE  Shaken'
    BY <1>0, <1>14 DEF MC!Chatter
  <1>15. ASSUME MC!Dies
        PROVE  Shaken'
    BY <1>0, <1>15 DEF MC!Dies
  <1> QED
    BY <1>1, <1>2, <1>3, <1>4, <1>5, <1>6, <1>7, <1>8, <1>9, <1>10,
       <1>11, <1>12, <1>13, <1>14, <1>15
    DEF MC!McpStdioNext

\* An answer that matches is the server's answer to the request.
LEMMA OwnAnswerStep ==
    ASSUME McpInv, MC!McpStdioNext
    PROVE  MC!AnswerIsOwn'
  <1> USE Bounds DEF McpTyped, Shaken, MC!AnswerIsOwn, MC!Waiting, MC!At, MC!Nobody
  <1>0. McpTyped /\ OwnOutput /\ Shaken /\ MC!AnswerIsOwn
    BY DEF McpInv
  <1>1. ASSUME NEW c \in Callers, MC!Lock(c)
        PROVE  MC!AnswerIsOwn'
    BY <1>0, <1>1 DEF MC!Lock, MC!Goes
  <1>2. ASSUME NEW c \in Callers, MC!Start(c)
        PROVE  MC!AnswerIsOwn'
    BY <1>0, <1>2 DEF MC!Start
  <1>3. ASSUME NEW c \in Callers, MC!StartFails(c)
        PROVE  MC!AnswerIsOwn'
    BY <1>0, <1>3 DEF MC!StartFails, MC!Returns, MC!Goes, Answers, Line,
       MC!Noise, MC!NoAnswer
  <1>4. ASSUME NEW c \in Callers, MC!Initialize(c)
        PROVE  MC!AnswerIsOwn'
    BY <1>0, <1>4 DEF MC!Initialize, MC!Ask, MC!Goes
  <1>5. ASSUME NEW c \in Callers, MC!Greet(c)
        PROVE  MC!AnswerIsOwn'
    BY <1>0, <1>5 DEF MC!Greet
  <1>6. ASSUME NEW c \in Callers, MC!Request(c)
        PROVE  MC!AnswerIsOwn'
    BY <1>0, <1>6 DEF MC!Request, MC!Ask, MC!Goes
  <1>7. ASSUME NEW c \in Callers, MC!WriteFails(c)
        PROVE  MC!AnswerIsOwn'
    BY <1>0, <1>7 DEF MC!WriteFails, MC!Returns, MC!Goes, Answers, Line,
       MC!Noise, MC!NoAnswer
  <1>8. ASSUME NEW c \in Callers, MC!ReadLine(c)
        PROVE  MC!AnswerIsOwn'
    <2>1. /\ MC!Waiting(c)
          /\ UNCHANGED <<nextId, server, servers, initialized, up, ready>>
      BY <1>8, LineRead
    <2>2. CASE UNCHANGED <<holder, caller, waitsFor, given>>
      BY <1>0, <2>1, <2>2
    <2>3. CASE /\ caller' = [caller EXCEPT ![c] = "greeted"] /\ waitsFor' = 0
               /\ UNCHANGED <<holder, given>>
      BY <1>0, <2>1, <2>3
    <2>4. ASSUME NEW how \in {"result", "error"}, NEW line \in OwnLines,
                 line.id = waitsFor, MC!Returns(c, how, line)
          PROVE  MC!AnswerIsOwn'
      <3>1. server # 0 /\ waitsFor # 0
        BY <1>0, <2>1 DEF Shaken
      <3>2. line = [server |-> server, id |-> waitsFor] /\ line \in Line
        BY <1>0, <2>4, <3>1 DEF OwnLines, MC!Noise, Line, McpTyped
      <3>3. /\ holder' = MC!Nobody /\ caller' = [caller EXCEPT ![c] = "back"]
            /\ given' = [given EXCEPT ![c] = [how |-> how, line |-> line,
                                                id |-> waitsFor, server |-> server]]
            /\ waitsFor' = 0
        BY <2>4 DEF MC!Returns, MC!Goes
      <3> QED BY <1>0, <2>1, <3>2, <3>3
    <2> QED BY <1>8, <2>2, <2>3, <2>4, LineRead
  <1>9. ASSUME NEW c \in Callers, MC!EndOfFile(c)
        PROVE  MC!AnswerIsOwn'
    BY <1>0, <1>9 DEF MC!EndOfFile, MC!Returns, MC!Goes, Answers, Line,
       MC!Noise, MC!NoAnswer
  <1>10. ASSUME NEW c \in Callers, MC!TimesOut(c)
        PROVE  MC!AnswerIsOwn'
    BY <1>0, <1>10 DEF MC!TimesOut, MC!Close, MC!Returns, MC!Goes, MC!Waiting,
       Answers, Line, MC!Noise, MC!NoAnswer
  <1>11. ASSUME NEW c \in Callers, MC!Again(c)
        PROVE  MC!AnswerIsOwn'
    BY <1>0, <1>11 DEF MC!Again, MC!Goes, MC!NoAnswer, Answers, Line, MC!Noise,
       MC!NoAnswer
  <1>12. ASSUME MC!CloseClient
        PROVE  MC!AnswerIsOwn'
    BY <1>0, <1>12 DEF MC!CloseClient, MC!Close
  <1>13. ASSUME NEW id \in 1..MaxIds, MC!Reply(id)
        PROVE  MC!AnswerIsOwn'
    BY <1>0, <1>13 DEF MC!Reply
  <1>14. ASSUME MC!Chatter
        PROVE  MC!AnswerIsOwn'
    BY <1>0, <1>14 DEF MC!Chatter
  <1>15. ASSUME MC!Dies
        PROVE  MC!AnswerIsOwn'
    BY <1>0, <1>15 DEF MC!Dies
  <1> QED
    BY <1>1, <1>2, <1>3, <1>4, <1>5, <1>6, <1>7, <1>8, <1>9, <1>10,
       <1>11, <1>12, <1>13, <1>14, <1>15
    DEF MC!McpStdioNext

\* Nobody has called, and there is no server.
LEMMA McpStart == MC!McpStdioInit => McpInv
  <1> SUFFICES ASSUME MC!McpStdioInit PROVE McpInv
    OBVIOUS
  <1>1. McpTyped
    BY DEF MC!McpStdioInit, McpTyped, Answers, Line, MC!NoAnswer, MC!Noise
  <1>2. OwnOutput /\ Shaken
    BY DEF MC!McpStdioInit, OwnOutput, Shaken, MC!Waiting, MC!At
  <1>3. MC!AnswerIsOwn
    BY DEF MC!McpStdioInit, MC!AnswerIsOwn, MC!NoAnswer, MC!At
  <1> QED BY <1>1, <1>2, <1>3 DEF McpInv

\* The invariant of the client is inductive.
LEMMA McpStep ==
    ASSUME McpInv, MC!McpStdioNext \/ UNCHANGED McpVars
    PROVE  McpInv'
  <1>1. CASE MC!McpStdioNext
    BY <1>1, McpTypedStep, OwnOutputStep, ShakenStep, OwnAnswerStep DEF McpInv
  <1>2. CASE UNCHANGED McpVars
    BY <1>2 DEF McpVars, McpInv, McpTyped, OwnOutput, OwnLines, Shaken,
       MC!AnswerIsOwn,
         MC!Waiting, MC!At
  <1> QED BY <1>1, <1>2

(* A call returns the answer to its own request, given by the server it    *)
(* asked; no server is asked for a tool before the handshake with that     *)
(* very server; and no server but the client's own is alive                *)
(* (StdioMcpClient._request).                                              *)
THEOREM AnswersAreOwn == Spec => []AnswerIsOwn
  <1>1. Init => (part = "mcp" => McpInv)
    BY McpStart DEF Init
  <1>2. (part = "mcp" => McpInv) /\ [Next]_allVars
          => (part = "mcp" => McpInv)'
    BY PartSteps, McpStep
  <1>3. (part = "mcp" => McpInv) => AnswerIsOwn
    BY DEF McpInv, AnswerIsOwn
  <1> QED BY <1>1, <1>2, <1>3, PTL DEF Spec

-----------------------------------------------------------------------------
(* The tool calls of a turn                                                *)

\* The first n calls, in order.
Counted(n) == [i \in 1..n |-> i]

\* It is a sequence of n numbers.
LEMMA CountedSeq ==
    ASSUME NEW n \in Nat
    PROVE  Counted(n) \in Seq(Nat) /\ Len(Counted(n)) = n
  BY DEF Counted

\* One more call.
LEMMA CountedAppend ==
    ASSUME NEW n \in Nat
    PROVE  Append(Counted(n), n + 1) = Counted(n + 1)
  <1>1. /\ Counted(n) \in Seq(Nat) /\ Len(Counted(n)) = n
        /\ Counted(n + 1) \in Seq(Nat) /\ Len(Counted(n + 1)) = n + 1
    BY CountedSeq
  <1>2. /\ Append(Counted(n), n + 1) \in Seq(Nat)
        /\ Len(Append(Counted(n), n + 1)) = n + 1
        /\ \A i \in 1..n : Append(Counted(n), n + 1)[i] = Counted(n)[i]
        /\ Append(Counted(n), n + 1)[n + 1] = n + 1
    BY <1>1, AppendProperties
  <1>3. \A i \in 1..n + 1 : Append(Counted(n), n + 1)[i] = Counted(n + 1)[i]
    BY <1>2 DEF Counted
  <1> QED BY <1>1, <1>2, <1>3, SeqEqual

\* A stretch of calls.
LEMMA CountedConcat ==
    ASSUME NEW m \in Nat, NEW n \in Nat
    PROVE  Counted(m) \o [i \in 1..n |-> m + i] = Counted(m + n)
  <1> DEFINE rest == [i \in 1..n |-> m + i]
  <1>1. /\ Counted(m) \in Seq(Nat) /\ Len(Counted(m)) = m
        /\ Counted(m + n) \in Seq(Nat) /\ Len(Counted(m + n)) = m + n
    BY CountedSeq
  <1>2. rest \in Seq(Nat) /\ Len(rest) = n
    OBVIOUS
  <1>3. /\ Counted(m) \o rest \in Seq(Nat) /\ Len(Counted(m) \o rest) = m + n
        /\ \A i \in 1..m + n : (Counted(m) \o rest)[i] =
              IF i <= m THEN Counted(m)[i] ELSE rest[i - m]
    <2> HIDE DEF rest
    <2>1. /\ Len(Counted(m) \o rest) = Len(Counted(m)) + Len(rest)
          /\ Counted(m) \o rest \in Seq(Nat)
          /\ \A i \in 1..Len(Counted(m)) + Len(rest) : (Counted(m) \o rest)[i] =
                IF i <= Len(Counted(m)) THEN Counted(m)[i] ELSE rest[i - Len(Counted(m))]
      BY <1>1, <1>2, ConcatProperties
    <2> QED BY <1>1, <1>2, <2>1
  <1>4. \A i \in 1..m + n : (Counted(m) \o rest)[i] = Counted(m + n)[i]
    BY <1>3 DEF Counted
  <1> QED BY <1>1, <1>3, <1>4, SeqEqual

TurnTyped ==
    /\ index \in Nat /\ index >= 1 /\ high \in Nat
    /\ work \in [TT!TurnCalls -> TT!Work]
    /\ denied \in BOOLEAN
    /\ messages = Counted(index - 1)

\* A tool that is not through is one of the batch, and there is none while the
\* loop decides or the turn is over.
Batched ==
    /\ phase \in {"decide", "extend", "gather", "collect", "over"}
    /\ phase \in {"decide", "over"} =>
          \A i \in TT!TurnCalls : work[i] \notin {"task", "thread"}
    /\ phase \in {"extend", "gather"} =>
          /\ index <= high
          /\ \A i \in TT!TurnCalls : work[i] \in {"task", "thread"} => i \in index..high

TurnInv == TurnTyped /\ Batched

\* The answers of a batch follow those before it, and the denial follows them.
LEMMA BatchAnswers ==
    ASSUME TurnInv, phase = "gather"
    PROVE  messages \o TT!Answered \o (IF denied THEN <<high + 1>> ELSE <<>>)
               = Counted(IF denied THEN high + 1 ELSE high)
  <1>1. /\ index \in Nat /\ index >= 1 /\ high \in Nat /\ index <= high
        /\ messages = Counted(index - 1) /\ denied \in BOOLEAN
    BY DEF TurnInv, TurnTyped, Batched
  <1>2. TT!Answered = [i \in 1..(high - index + 1) |-> (index - 1) + i]
    BY <1>1 DEF TT!Answered
  <1>3. messages \o TT!Answered = Counted((index - 1) + (high - index + 1))
    <2> DEFINE m == index - 1
               n == high - index + 1
    <2>1. m \in Nat /\ n \in Nat
      BY <1>1
    <2>2. Counted(m) \o [i \in 1..n |-> m + i] = Counted(m + n)
      <3> HIDE DEF m, n
      <3> QED BY <2>1, CountedConcat
    <2> QED BY <1>1, <1>2, <2>2
  <1>4. (index - 1) + (high - index + 1) = high
    BY <1>1
  <1>5. messages \o TT!Answered = Counted(high)
    BY <1>3, <1>4
  <1>6. Counted(high) \in Seq(Nat)
    BY <1>1, CountedSeq
  <1>7. Counted(high) \o <<>> = Counted(high)
    BY <1>6, ConcatEmptySeq
  <1>8. Counted(high) \o <<high + 1>> = Counted(high + 1)
    <2>1. Append(Counted(high), high + 1) = Counted(high) \o <<high + 1>>
      BY <1>1, <1>6, AppendIsConcat
    <2> QED BY <2>1, <1>1, CountedAppend
  <1> QED BY <1>1, <1>5, <1>7, <1>8

\* The answers stay in order, whoever finishes first.
LEMMA TurnTypedStep ==
    ASSUME TurnInv, TT!ToolTurnNext
    PROVE  TurnTyped'
  <1> USE Bounds DEF TurnTyped, Batched, TT!Work, TT!TurnCalls
  <1>0. TurnTyped /\ Batched
    BY DEF TurnInv
  <1>1. ASSUME TT!TurnAnswered
        PROVE  TurnTyped'
    BY <1>0, <1>1 DEF TT!TurnAnswered, TT!Over
  <1>2. ASSUME TT!TurnCancelled
        PROVE  TurnTyped'
    BY <1>0, <1>2 DEF TT!TurnCancelled, TT!Over
  <1>3. ASSUME TT!Repeated
        PROVE  TurnTyped'
    BY <1>0, <1>3 DEF TT!Repeated, TT!Over
  <1>4. ASSUME TT!AnswerAtOnce
        PROVE  TurnTyped'
    <2>1. /\ messages' = Append(messages, index) /\ index' = index + 1
          /\ UNCHANGED <<high, work, denied>>
      BY <1>4 DEF TT!AnswerAtOnce
    <2>2. index - 1 \in Nat /\ (index - 1) + 1 = index /\ index' - 1 = index
      BY <1>0, <2>1
    <2>3. messages' = Counted(index)
      BY <1>0, <2>1, <2>2, CountedAppend
    <2> QED BY <1>0, <2>1, <2>2, <2>3
  <1>5. ASSUME TT!Allow
        PROVE  TurnTyped'
    BY <1>0, <1>5 DEF TT!Allow
  <1>6. ASSUME TT!Extend
        PROVE  TurnTyped'
    BY <1>0, <1>6 DEF TT!Extend, TT!NextIsRead
  <1>7. ASSUME TT!CloseBatch
        PROVE  TurnTyped'
    BY <1>0, <1>7 DEF TT!CloseBatch, TT!NextIsRead
  <1>8. ASSUME TT!AbandonBatch
        PROVE  TurnTyped'
    BY <1>0, <1>8 DEF TT!AbandonBatch, TT!NextIsRead, TT!Over, TT!Batch
  <1>9. ASSUME NEW i \in TT!TurnCalls, TT!StartThread(i)
        PROVE  TurnTyped'
    BY <1>0, <1>9 DEF TT!StartThread
  <1>10. ASSUME NEW i \in TT!TurnCalls, TT!ThreadEnds(i)
        PROVE  TurnTyped'
    BY <1>0, <1>10 DEF TT!ThreadEnds
  <1>11. ASSUME TT!GatherFails
        PROVE  TurnTyped'
    BY <1>0, <1>11 DEF TT!GatherFails, TT!CancelTasks
  <1>12. ASSUME TT!RunInterrupted
        PROVE  TurnTyped'
    BY <1>0, <1>12 DEF TT!RunInterrupted, TT!CancelTasks
  <1>13. ASSUME TT!Collect
        PROVE  TurnTyped'
    <2>1. /\ phase = "gather" /\ denied' = FALSE
          /\ messages' = messages \o TT!Answered
                             \o (IF denied THEN <<high + 1>> ELSE <<>>)
          /\ index' = high + (IF denied THEN 2 ELSE 1)
          /\ UNCHANGED <<high, work>>
      BY <1>13 DEF TT!Collect
    <2>2. messages' = Counted(IF denied THEN high + 1 ELSE high)
      BY <2>1, BatchAnswers
    <2>3. index' \in Nat /\ index' >= 1
          /\ index' - 1 = IF denied THEN high + 1 ELSE high
      BY <1>0, <2>1
    <2> QED BY <1>0, <2>1, <2>2, <2>3
  <1>14. ASSUME TT!BatchOver
        PROVE  TurnTyped'
    BY <1>0, <1>14 DEF TT!BatchOver, TT!Over, TT!Pending
  <1>15. ASSUME TT!UserCancels
        PROVE  TurnTyped'
    BY <1>0, <1>15 DEF TT!UserCancels
  <1> QED
    BY <1>1, <1>2, <1>3, <1>4, <1>5, <1>6, <1>7, <1>8, <1>9, <1>10,
       <1>11, <1>12, <1>13, <1>14, <1>15
    DEF TT!ToolTurnNext

\* A batch is over when none of its tools is at work.
LEMMA BatchedStep ==
    ASSUME TurnInv, TT!ToolTurnNext
    PROVE  Batched'
  <1> USE Bounds DEF TurnTyped, Batched, TT!TurnCalls
  <1>0. TurnTyped /\ Batched
    BY DEF TurnInv
  <1>1. ASSUME TT!TurnAnswered
        PROVE  Batched'
    BY <1>0, <1>1 DEF TT!TurnAnswered, TT!Over
  <1>2. ASSUME TT!TurnCancelled
        PROVE  Batched'
    BY <1>0, <1>2 DEF TT!TurnCancelled, TT!Over
  <1>3. ASSUME TT!Repeated
        PROVE  Batched'
    BY <1>0, <1>3 DEF TT!Repeated, TT!Over
  <1>4. ASSUME TT!AnswerAtOnce
        PROVE  Batched'
    BY <1>0, <1>4 DEF TT!AnswerAtOnce
  <1>5. ASSUME TT!Allow
        PROVE  Batched'
    BY <1>0, <1>5 DEF TT!Allow
  <1>6. ASSUME TT!Extend
        PROVE  Batched'
    BY <1>0, <1>6 DEF TT!Extend, TT!NextIsRead
  <1>7. ASSUME TT!CloseBatch
        PROVE  Batched'
    BY <1>0, <1>7 DEF TT!CloseBatch, TT!NextIsRead
  <1>8. ASSUME TT!AbandonBatch
        PROVE  Batched'
    BY <1>0, <1>8 DEF TT!AbandonBatch, TT!NextIsRead, TT!Over, TT!Batch
  <1>9. ASSUME NEW i \in TT!TurnCalls, TT!StartThread(i)
        PROVE  Batched'
    BY <1>0, <1>9 DEF TT!StartThread
  <1>10. ASSUME NEW i \in TT!TurnCalls, TT!ThreadEnds(i)
        PROVE  Batched'
    BY <1>0, <1>10 DEF TT!ThreadEnds
  <1>11. ASSUME TT!GatherFails
        PROVE  Batched'
    BY <1>0, <1>11 DEF TT!GatherFails, TT!CancelTasks
  <1>12. ASSUME TT!RunInterrupted
        PROVE  Batched'
    BY <1>0, <1>12 DEF TT!RunInterrupted, TT!CancelTasks
  <1>13. ASSUME TT!Collect
        PROVE  Batched'
    BY <1>0, <1>13 DEF TT!Collect, TT!Over, TT!Batch
  <1>14. ASSUME TT!BatchOver
        PROVE  Batched'
    BY <1>0, <1>14 DEF TT!BatchOver, TT!Over, TT!Pending
  <1>15. ASSUME TT!UserCancels
        PROVE  Batched'
    BY <1>0, <1>15 DEF TT!UserCancels
  <1> QED
    BY <1>1, <1>2, <1>3, <1>4, <1>5, <1>6, <1>7, <1>8, <1>9, <1>10,
       <1>11, <1>12, <1>13, <1>14, <1>15
    DEF TT!ToolTurnNext

\* The loop is at the first call and nothing was answered.
LEMMA TurnStart == TT!ToolTurnInit => TurnInv
  <1> SUFFICES ASSUME TT!ToolTurnInit PROVE TurnInv
    OBVIOUS
  <1>1. Batched
    BY DEF TT!ToolTurnInit, Batched
  <1>2. Counted(0) = <<>>
    <2>1. Counted(0) \in Seq(Nat) /\ Len(Counted(0)) = 0
      BY CountedSeq
    <2> QED BY <2>1, EmptySeq
  <1>a. index - 1 = 0
    BY DEF TT!ToolTurnInit
  <1>b. messages = Counted(index - 1)
    <2>1. messages = <<>>
      BY DEF TT!ToolTurnInit
    <2> QED BY <1>2, <1>a, <2>1
  <1>c. work \in [TT!TurnCalls -> TT!Work]
    BY DEF TT!ToolTurnInit, TT!Work
  <1>3. TurnTyped
    <2>1. index = 1 /\ high = 0 /\ denied = FALSE
      BY DEF TT!ToolTurnInit
    <2>2. index \in Nat /\ index >= 1
      BY <2>1
    <2>3. high \in Nat
      BY <2>1
    <2>4. denied \in BOOLEAN
      BY <2>1
    <2> QED BY <1>b, <1>c, <2>2, <2>3, <2>4, Zenon DEF TurnTyped
  <1> QED BY <1>1, <1>3 DEF TurnInv

\* The invariant of the turn is inductive.
LEMMA TurnStep ==
    ASSUME TurnInv, TT!ToolTurnNext \/ UNCHANGED ToolTurnVars
    PROVE  TurnInv'
  <1>1. CASE TT!ToolTurnNext
    BY <1>1, TurnTypedStep, BatchedStep DEF TurnInv
  <1>2. CASE UNCHANGED ToolTurnVars
    BY <1>2 DEF ToolTurnVars, TurnInv, TurnTyped, Batched
  <1> QED BY <1>1, <1>2

(* Whatever the order in which reads finish, and wherever a denial falls,  *)
(* the conversation gets one answer per call in the order of the calls,    *)
(* and no tool is at work when the turn is over (TurnEngine.run,           *)
(* execute_read_only_batch).                                               *)
THEOREM AnswersInOrder == Spec => []TurnInOrder
  <1>1. Init => (part = "toolturn" => TurnInv)
    BY TurnStart DEF Init
  <1>2. (part = "toolturn" => TurnInv) /\ [Next]_allVars
          => (part = "toolturn" => TurnInv)'
    BY PartSteps, TurnStep
  <1>3. TurnInv => TT!TurnInOrder
    <2> SUFFICES ASSUME TurnInv PROVE TT!TurnInOrder
      OBVIOUS
    <2>1. index - 1 \in Nat /\ messages = Counted(index - 1)
      BY DEF TurnInv, TurnTyped
    <2>2. Len(messages) = index - 1
      BY <2>1, CountedSeq
    <2>3. messages = [i \in 1..Len(messages) |-> i]
      BY <2>1, <2>2 DEF Counted
    <2>4. phase = "over" => TT!Pending = {}
      BY DEF TurnInv, Batched, TT!Pending
    <2> QED BY <2>2, <2>3, <2>4 DEF TT!TurnInOrder
  <1>4. (part = "toolturn" => TurnInv) => TurnInOrder
    BY <1>3 DEF TurnInOrder
  <1> QED BY <1>1, <1>2, <1>4, PTL DEF Spec

-----------------------------------------------------------------------------
(* The subagents                                                           *)

AgentsTyped ==
    /\ run \in {"model", "call", "ended", "released"}
    /\ call \in 0..MaxCalls
    /\ task \in [SA!Calls -> [Agents -> SA!States]]
    /\ report \in [SA!Calls -> [Agents -> {SA!None, "completed", "failed"}]]
    /\ stop \in {"no", "timeout", "interrupt"}
    /\ answer \in [SA!Calls -> {"none", "ok", "error", "timeout", "interrupt", "crash"}]
    /\ SA!Ids \subseteq Agents /\ pending \subseteq SA!Ids
    /\ due \subseteq Agents /\ completed \subseteq Agents

\* Where the run is between its calls, and the calls still to come.
Calm ==
    /\ run = "call" => call >= 1 /\ answer[call] = "none"
    /\ run = "model" => pending = {} /\ due = {} /\ txn = SA!None
    /\ \A c \in SA!Calls : c > call =>
          answer[c] = "none" /\ \A a \in Agents : task[c][a] = "out"
    /\ call = 0 => SA!Ids = {} /\ due = {} /\ completed = {} /\ txn = SA!None

\* The waves of the call: a task there is was waited for by nobody it depends
\* on; what is complete has returned and, if it proposed one, its transaction
\* succeeded; and a wave that returned is accounted for as a whole.
Waved ==
    /\ call >= 1 => \A a \in Agents : task[call][a] # "out" =>
          a \in SA!Ids /\ a \notin pending /\ plan.deps[a] \subseteq completed
    /\ \A a \in completed : task[call][a] = "returned"
          /\ (a \in plan.proposes => report[call][a] = "completed" /\ a \in applied)
    /\ due # {} => due = SA!Wave /\ \A a \in due : task[call][a] = "returned"
    /\ txn # SA!None =>
          /\ txn \in due /\ txn \in plan.proposes
          /\ report[call][txn] = "completed" /\ run = "call"

\* A call that was answered with a report left nothing behind.
Whole == \A c \in 1..call : answer[c] = "ok" =>
    \A a \in Agents : task[c][a] \in {"out", "returned"}

SubagentsInv == AgentsTyped /\ Calm /\ Waved /\ Whole

\* Nothing of a wave is left to account for: every task of the call returned.
LEMMA WaveOver ==
    ASSUME SubagentsInv, call >= 1, SA!Wave = {} \/ due # {}
    PROVE  \A a \in Agents : task[call][a] \in {"out", "returned"}
  BY DEF SubagentsInv, AgentsTyped, Waved, SA!Wave

\* What a run_one task does changes its own state, and its report at most.
OneTask(c, a) ==
    /\ task[c][a] \in SA!Live
    /\ \E s \in SA!States \ {"out"} : task' = [task EXCEPT ![c][a] = s]
    /\ \/ report' = report
       \/ \E status \in {"completed", "failed"} :
             report' = [report EXCEPT ![c][a] = status]
    /\ UNCHANGED <<run, call, plan, pending, due, txn, completed, applied,
                   stop, answer>>

\* Every action of a task is of that kind.
LEMMA TaskActions ==
    ASSUME NEW c \in SA!Calls, NEW a \in Agents,
           \/ SA!Started(c, a) \/ SA!Works(c, a) \/ SA!Fails(c, a) \/ SA!Reported(c, a)
           \/ \E status \in {"completed", "failed"} : SA!Returns(c, a, status)
    PROVE  OneTask(c, a)
  <1> USE DEF OneTask, SA!Moves, SA!Live, SA!States
  <1>1. CASE SA!Started(c, a)
    BY <1>1 DEF SA!Started
  <1>2. CASE SA!Works(c, a)
    BY <1>2 DEF SA!Works
  <1>3. CASE SA!Fails(c, a)
    BY <1>3 DEF SA!Fails
  <1>4. CASE SA!Reported(c, a)
    BY <1>4 DEF SA!Reported
  <1>5. ASSUME NEW status \in {"completed", "failed"}, SA!Returns(c, a, status)
        PROVE  OneTask(c, a)
    BY <1>5 DEF SA!Returns
  <1> QED BY <1>1, <1>2, <1>3, <1>4, <1>5

\* What the run itself does.
DispatcherStep ==
    \/ \E p \in Plans : SA!Dispatch(p)
    \/ SA!StartWave \/ SA!WaveReturns \/ SA!WaveCancelled
    \/ \E how \in {"refused", "raised"} : SA!WaveRaises(how)
    \/ \E why \in {"timeout", "interrupt"}, s \in SUBSET Agents : SA!CancelWave(why, s)
    \/ \E a \in Agents : SA!Account(a) \/ SA!BeginTransaction(a)
    \/ SA!TransactionSucceeds \/ SA!TransactionFails \/ SA!DispatchCompletes
    \/ SA!Finish \/ SA!Interrupt \/ SA!Release

\* A task that moves was not through, so nothing relied on it.
LEMMA OneTaskKeeps ==
    ASSUME SubagentsInv, NEW c \in SA!Calls, NEW a \in Agents, OneTask(c, a)
    PROVE  SubagentsInv'
  <1>0. AgentsTyped /\ Calm /\ Waved /\ Whole
    BY DEF SubagentsInv
  <1>1. PICK s \in SA!States \ {"out"} : task' = [task EXCEPT ![c][a] = s]
    BY DEF OneTask
  <1>2. /\ task' \in [SA!Calls -> [Agents -> SA!States]]
        /\ task'[c][a] = s
        /\ \A d \in SA!Calls, b \in Agents : d # c \/ b # a => task'[d][b] = task[d][b]
    BY <1>0, <1>1 DEF AgentsTyped
  <1>3. /\ report' \in [SA!Calls -> [Agents -> {SA!None, "completed", "failed"}]]
        /\ \A d \in SA!Calls, b \in Agents :
              d # c \/ b # a => report'[d][b] = report[d][b]
    <2>1. CASE report' = report
      BY <1>0, <2>1 DEF AgentsTyped
    <2>2. ASSUME NEW status \in {"completed", "failed"},
                 report' = [report EXCEPT ![c][a] = status]
          PROVE  /\ report' \in [SA!Calls -> [Agents -> {SA!None, "completed", "failed"}]]
                 /\ \A d \in SA!Calls, b \in Agents :
                       d # c \/ b # a => report'[d][b] = report[d][b]
      BY <1>0, <2>2 DEF AgentsTyped
    <2> QED BY <2>1, <2>2 DEF OneTask
  <1>4. /\ UNCHANGED <<run, call, plan, pending, due, txn, completed, applied, stop,
                       answer>>
        /\ SA!Ids' = SA!Ids
    BY DEF OneTask, SA!Ids
  <1>5. task[c][a] \notin {"out", "returned"}
    BY DEF OneTask, SA!Live
  <1>6. c <= call /\ c >= 1
    BY <1>0, <1>5 DEF Calm, AgentsTyped, SA!Calls
  <1>7. AgentsTyped'
    BY <1>0, <1>2, <1>3, <1>4 DEF AgentsTyped
  <1>8. Calm'
    BY <1>0, <1>2, <1>4, <1>6 DEF Calm, AgentsTyped, SA!Calls
  <1>9. Waved'
    <2>1. call \in SA!Calls
      BY <1>0, <1>6 DEF AgentsTyped, SA!Calls
    <2>2. \A b \in Agents : task[call][b] = "returned" =>
              task'[call][b] = "returned" /\ report'[call][b] = report[call][b]
      BY <1>2, <1>3, <1>5, <2>1
    <2>3. \A b \in Agents : task'[call][b] # "out" <=> task[call][b] # "out"
      BY <1>1, <1>2, <1>5, <2>1
    <2>4. SA!Wave' = SA!Wave
      BY <1>0, <1>4, <2>3 DEF SA!Wave, AgentsTyped
    <2> QED BY <1>0, <1>4, <2>1, <2>2, <2>3, <2>4 DEF Waved, AgentsTyped
  <1>10. Whole'
    <2> SUFFICES ASSUME NEW d \in 1..call, answer[d] = "ok", NEW b \in Agents
                 PROVE  task'[d][b] \in {"out", "returned"}
      BY <1>4 DEF Whole
    <2>1. d \in SA!Calls
      BY <1>0, Bounds DEF AgentsTyped, SA!Calls
    <2>a. task[d][b] \in {"out", "returned"}
      BY <1>0 DEF Whole
    <2> QED BY <1>2, <1>5, <2>1, <2>a
  <1> QED BY <1>7, <1>8, <1>9, <1>10 DEF SubagentsInv

\* The variables keep their types.
LEMMA AgentsTypedStep ==
    ASSUME SubagentsInv, DispatcherStep
    PROVE  AgentsTyped'
  <1> USE Bounds DEF AgentsTyped, SA!Calls, SA!States, SA!None
  <1>0. AgentsTyped /\ Calm /\ Waved /\ Whole
    BY DEF SubagentsInv
  <1>1. ASSUME NEW p \in Plans, SA!Dispatch(p)
        PROVE  AgentsTyped'
    <2>1. /\ plan' = p /\ call' = call + 1 /\ call < MaxCalls /\ completed' = {}
          /\ UNCHANGED <<task, report, due, stop>>
      BY <1>1 DEF SA!Dispatch
    <2>2. \/ run' = "call" /\ pending' = DOMAIN p.deps /\ UNCHANGED answer
          \/ /\ answer' = [answer EXCEPT ![call + 1] = "error"]
             /\ run = "model" /\ UNCHANGED <<run, pending>>
      BY <1>1 DEF SA!Dispatch
    <2>3. SA!Ids' = DOMAIN p.deps
      BY <2>1 DEF SA!Ids
    <2>4. pending' \subseteq SA!Ids'
      BY <1>0, <2>2, <2>3 DEF Calm
    <2>5. run' \in {"model", "call", "ended", "released"} /\ call' \in 0..MaxCalls
      BY <1>0, <2>1, <2>2
    <2>6. answer' \in [SA!Calls -> {"none", "ok", "error", "timeout",
                                     "interrupt", "crash"}]
      BY <1>0, <2>2
    <2> QED BY <1>0, <2>1, <2>3, <2>4, <2>5, <2>6
  <1>2. ASSUME SA!StartWave
        PROVE  AgentsTyped'
    BY <1>0, <1>2 DEF SA!StartWave, SA!Ready, SA!Ids, SA!Live
  <1>3. ASSUME SA!WaveReturns
        PROVE  AgentsTyped'
    BY <1>0, <1>3 DEF SA!WaveReturns, SA!Ids, SA!Live, SA!Wave
  <1>4. ASSUME SA!WaveCancelled
        PROVE  AgentsTyped'
    BY <1>0, <1>4 DEF SA!WaveCancelled, SA!Answers, SA!Ids, SA!Live
  <1>5. ASSUME NEW how \in {"refused", "raised"}, SA!WaveRaises(how)
        PROVE  AgentsTyped'
    BY <1>0, <1>5 DEF SA!WaveRaises, SA!Answers, SA!Ids, SA!Live
  <1>6. ASSUME NEW why \in {"timeout", "interrupt"}, NEW s \in SUBSET Agents,
              SA!CancelWave(why, s)
        PROVE  AgentsTyped'
    BY <1>0, <1>6 DEF SA!CancelWave, SA!Ids, SA!Live
  <1>7. ASSUME NEW a \in Agents, SA!Account(a)
        PROVE  AgentsTyped'
    BY <1>0, <1>7 DEF SA!Account, SA!Ids, SA!Live
  <1>8. ASSUME NEW a \in Agents, SA!BeginTransaction(a)
        PROVE  AgentsTyped'
    BY <1>0, <1>8 DEF SA!BeginTransaction, SA!Ids, SA!Live
  <1>9. ASSUME SA!TransactionSucceeds
        PROVE  AgentsTyped'
    BY <1>0, <1>9 DEF SA!TransactionSucceeds, SA!Ids, SA!Live, Waved
  <1>10. ASSUME SA!TransactionFails
        PROVE  AgentsTyped'
    BY <1>0, <1>10 DEF SA!TransactionFails, SA!Answers, SA!Ids, SA!Live
  <1>11. ASSUME SA!DispatchCompletes
        PROVE  AgentsTyped'
    BY <1>0, <1>11 DEF SA!DispatchCompletes, SA!Answers, SA!Ids, SA!Live
  <1>12. ASSUME SA!Finish
        PROVE  AgentsTyped'
    BY <1>0, <1>12 DEF SA!Finish, SA!Ids, SA!Live
  <1>13. ASSUME SA!Interrupt
        PROVE  AgentsTyped'
    BY <1>0, <1>13 DEF SA!Interrupt, SA!Ids, SA!Live
  <1>14. ASSUME SA!Release
        PROVE  AgentsTyped'
    BY <1>0, <1>14 DEF SA!Release, SA!Ids, SA!Live
  <1> QED
    BY <1>1, <1>2, <1>3, <1>4, <1>5, <1>6, <1>7, <1>8, <1>9, <1>10,
       <1>11, <1>12, <1>13, <1>14
    DEF DispatcherStep

\* A call leaves nothing pending.
LEMMA CalmStep ==
    ASSUME SubagentsInv, DispatcherStep
    PROVE  Calm'
  <1> USE Bounds DEF AgentsTyped, Calm, Waved, SA!Calls
  <1>0. AgentsTyped /\ Calm /\ Waved /\ Whole
    BY DEF SubagentsInv
  <1>1. ASSUME NEW p \in Plans, SA!Dispatch(p)
        PROVE  Calm'
    BY <1>0, <1>1 DEF SA!Dispatch, SA!Ids
  <1>2. ASSUME SA!StartWave
        PROVE  Calm'
    BY <1>0, <1>2 DEF SA!StartWave, SA!Ready, SA!Ids
  <1>3. ASSUME SA!WaveReturns
        PROVE  Calm'
    BY <1>0, <1>3 DEF SA!WaveReturns, SA!Ids
  <1>4. ASSUME SA!WaveCancelled
        PROVE  Calm'
    BY <1>0, <1>4 DEF SA!WaveCancelled, SA!Answers, SA!Ids
  <1>5. ASSUME NEW how \in {"refused", "raised"}, SA!WaveRaises(how)
        PROVE  Calm'
    BY <1>0, <1>5 DEF SA!WaveRaises, SA!Answers, SA!Ids
  <1>6. ASSUME NEW why \in {"timeout", "interrupt"}, NEW s \in SUBSET Agents,
              SA!CancelWave(why, s)
        PROVE  Calm'
    BY <1>0, <1>6 DEF SA!CancelWave, SA!Ids
  <1>7. ASSUME NEW a \in Agents, SA!Account(a)
        PROVE  Calm'
    BY <1>0, <1>7 DEF SA!Account, SA!Ids
  <1>8. ASSUME NEW a \in Agents, SA!BeginTransaction(a)
        PROVE  Calm'
    BY <1>0, <1>8 DEF SA!BeginTransaction, SA!Ids
  <1>9. ASSUME SA!TransactionSucceeds
        PROVE  Calm'
    BY <1>0, <1>9 DEF SA!TransactionSucceeds, SA!Ids
  <1>10. ASSUME SA!TransactionFails
        PROVE  Calm'
    BY <1>0, <1>10 DEF SA!TransactionFails, SA!Answers, SA!Ids
  <1>11. ASSUME SA!DispatchCompletes
        PROVE  Calm'
    BY <1>0, <1>11 DEF SA!DispatchCompletes, SA!Answers, SA!Ids
  <1>12. ASSUME SA!Finish
        PROVE  Calm'
    BY <1>0, <1>12 DEF SA!Finish, SA!Ids
  <1>13. ASSUME SA!Interrupt
        PROVE  Calm'
    BY <1>0, <1>13 DEF SA!Interrupt, SA!Ids
  <1>14. ASSUME SA!Release
        PROVE  Calm'
    BY <1>0, <1>14 DEF SA!Release, SA!Ids
  <1> QED
    BY <1>1, <1>2, <1>3, <1>4, <1>5, <1>6, <1>7, <1>8, <1>9, <1>10,
       <1>11, <1>12, <1>13, <1>14
    DEF DispatcherStep

\* A wave starts on what is complete, and is accounted for when all returned.
LEMMA WavedStep ==
    ASSUME SubagentsInv, DispatcherStep
    PROVE  Waved'
  <1> USE Bounds DEF AgentsTyped, Calm, Waved, SA!Calls
  <1>0. AgentsTyped /\ Calm /\ Waved /\ Whole
    BY DEF SubagentsInv
  <1>1. ASSUME NEW p \in Plans, SA!Dispatch(p)
        PROVE  Waved'
    BY <1>0, <1>1 DEF SA!Dispatch, SA!Ids, SA!Wave, SA!Live
  <1>2. ASSUME SA!StartWave
        PROVE  Waved'
    BY <1>0, <1>2 DEF SA!StartWave, SA!Ready, SA!Ids, SA!Wave, SA!Live
  <1>3. ASSUME SA!WaveReturns
        PROVE  Waved'
    BY <1>0, <1>3 DEF SA!WaveReturns, SA!Ids, SA!Wave, SA!Live
  <1>4. ASSUME SA!WaveCancelled
        PROVE  Waved'
    BY <1>0, <1>4 DEF SA!WaveCancelled, SA!Answers, SA!Ids, SA!Wave, SA!Live
  <1>5. ASSUME NEW how \in {"refused", "raised"}, SA!WaveRaises(how)
        PROVE  Waved'
    BY <1>0, <1>5 DEF SA!WaveRaises, SA!Answers, SA!Ids, SA!Wave, SA!Live
  <1>6. ASSUME NEW why \in {"timeout", "interrupt"}, NEW s \in SUBSET Agents,
              SA!CancelWave(why, s)
        PROVE  Waved'
    BY <1>0, <1>6 DEF SA!CancelWave, SA!Ids, SA!Wave, SA!Live
  <1>7. ASSUME NEW a \in Agents, SA!Account(a)
        PROVE  Waved'
    BY <1>0, <1>7 DEF SA!Account, SA!Ids, SA!Wave, SA!Live
  <1>8. ASSUME NEW a \in Agents, SA!BeginTransaction(a)
        PROVE  Waved'
    BY <1>0, <1>8 DEF SA!BeginTransaction, SA!Ids, SA!Wave, SA!Live
  <1>9. ASSUME SA!TransactionSucceeds
        PROVE  Waved'
    BY <1>0, <1>9 DEF SA!TransactionSucceeds, SA!Ids, SA!Wave, SA!Live
  <1>10. ASSUME SA!TransactionFails
        PROVE  Waved'
    BY <1>0, <1>10 DEF SA!TransactionFails, SA!Answers, SA!Ids, SA!Wave, SA!Live
  <1>11. ASSUME SA!DispatchCompletes
        PROVE  Waved'
    BY <1>0, <1>11 DEF SA!DispatchCompletes, SA!Answers, SA!Ids, SA!Wave,
       SA!Live
  <1>12. ASSUME SA!Finish
        PROVE  Waved'
    BY <1>0, <1>12 DEF SA!Finish, SA!Ids, SA!Wave, SA!Live
  <1>13. ASSUME SA!Interrupt
        PROVE  Waved'
    BY <1>0, <1>13 DEF SA!Interrupt, SA!Ids, SA!Wave, SA!Live
  <1>14. ASSUME SA!Release
        PROVE  Waved'
    BY <1>0, <1>14 DEF SA!Release, SA!Ids, SA!Wave, SA!Live
  <1> QED
    BY <1>1, <1>2, <1>3, <1>4, <1>5, <1>6, <1>7, <1>8, <1>9, <1>10,
       <1>11, <1>12, <1>13, <1>14
    DEF DispatcherStep

\* A report is given when the last wave is accounted for.
LEMMA WholeStep ==
    ASSUME SubagentsInv, DispatcherStep
    PROVE  Whole'
  <1> USE Bounds DEF AgentsTyped, Calm, Whole, SA!Calls
  <1>0. AgentsTyped /\ Calm /\ Waved /\ Whole
    BY DEF SubagentsInv
  <1>1. ASSUME NEW p \in Plans, SA!Dispatch(p)
        PROVE  Whole'
    BY <1>0, <1>1 DEF SA!Dispatch, SA!Live
  <1>2. ASSUME SA!StartWave
        PROVE  Whole'
    BY <1>0, <1>2 DEF SA!StartWave, SA!Ready, SA!Live
  <1>3. ASSUME SA!WaveReturns
        PROVE  Whole'
    BY <1>0, <1>3 DEF SA!WaveReturns, SA!Live
  <1>4. ASSUME SA!WaveCancelled
        PROVE  Whole'
    BY <1>0, <1>4 DEF SA!WaveCancelled, SA!Answers, SA!Live
  <1>5. ASSUME NEW how \in {"refused", "raised"}, SA!WaveRaises(how)
        PROVE  Whole'
    BY <1>0, <1>5 DEF SA!WaveRaises, SA!Answers, SA!Live
  <1>6. ASSUME NEW why \in {"timeout", "interrupt"}, NEW s \in SUBSET Agents,
              SA!CancelWave(why, s)
        PROVE  Whole'
    BY <1>0, <1>6 DEF SA!CancelWave, SA!Live
  <1>7. ASSUME NEW a \in Agents, SA!Account(a)
        PROVE  Whole'
    BY <1>0, <1>7 DEF SA!Account, SA!Live
  <1>8. ASSUME NEW a \in Agents, SA!BeginTransaction(a)
        PROVE  Whole'
    BY <1>0, <1>8 DEF SA!BeginTransaction, SA!Live
  <1>9. ASSUME SA!TransactionSucceeds
        PROVE  Whole'
    BY <1>0, <1>9 DEF SA!TransactionSucceeds, SA!Live
  <1>10. ASSUME SA!TransactionFails
        PROVE  Whole'
    BY <1>0, <1>10 DEF SA!TransactionFails, SA!Answers, SA!Live
  <1>11. ASSUME SA!DispatchCompletes
        PROVE  Whole'
    BY <1>0, <1>11, WaveOver DEF SA!DispatchCompletes, SA!Answers, SA!Live
  <1>12. ASSUME SA!Finish
        PROVE  Whole'
    BY <1>0, <1>12 DEF SA!Finish, SA!Live
  <1>13. ASSUME SA!Interrupt
        PROVE  Whole'
    BY <1>0, <1>13 DEF SA!Interrupt, SA!Live
  <1>14. ASSUME SA!Release
        PROVE  Whole'
    BY <1>0, <1>14 DEF SA!Release, SA!Live
  <1> QED
    BY <1>1, <1>2, <1>3, <1>4, <1>5, <1>6, <1>7, <1>8, <1>9, <1>10,
       <1>11, <1>12, <1>13, <1>14
    DEF DispatcherStep

\* The run has not called yet.
LEMMA SubagentsStart == SA!SubagentsInit => SubagentsInv
  BY Bounds DEF SA!SubagentsInit, SubagentsInv, AgentsTyped, Calm, Waved,
     Whole, SA!Ids,
         SA!Idle, SA!Calls, SA!States, SA!None, SA!Wave

\* The invariant of the subagents is inductive.
LEMMA SubagentsStep ==
    ASSUME SubagentsInv, SA!SubagentsNext \/ UNCHANGED SubagentsVars
    PROVE  SubagentsInv'
  <1>1. CASE DispatcherStep
    BY <1>1, AgentsTypedStep, CalmStep, WavedStep, WholeStep DEF SubagentsInv
  <1>2. ASSUME NEW c \in SA!Calls, NEW a \in Agents,
               \/ SA!Started(c, a) \/ SA!Works(c, a) \/ SA!Fails(c, a)
               \/ SA!Reported(c, a)
               \/ \E status \in {"completed", "failed"} : SA!Returns(c, a, status)
        PROVE  SubagentsInv'
    BY <1>2, TaskActions, OneTaskKeeps
  <1>3. CASE UNCHANGED SubagentsVars
    BY <1>3 DEF SubagentsVars, SubagentsInv, AgentsTyped, Calm, Waved, Whole,
       SA!Ids,
         SA!Wave
  <1> QED BY <1>1, <1>2, <1>3 DEF SA!SubagentsNext, DispatcherStep

\* The invariant of the subagents part.
LEMMA SubagentsInvariance == Spec => [](part = "subagents" => SubagentsInv)
  <1>1. Init => (part = "subagents" => SubagentsInv)
    BY SubagentsStart DEF Init
  <1>2. (part = "subagents" => SubagentsInv) /\ [Next]_allVars
           => (part = "subagents" => SubagentsInv)'
    BY PartSteps, SubagentsStep
  <1> QED BY <1>1, <1>2, PTL DEF Spec

(* An agent runs on what it depends on: its task exists only once every    *)
(* agent it depends on has returned a report and, if that one proposed a   *)
(* transaction, the transaction has succeeded (run_dispatch_subagents).    *)
THEOREM WavesInOrder == Spec => []WaveOrder
  <1>1. SubagentsInv => SA!WaveOrder
    BY Bounds DEF SubagentsInv, AgentsTyped, Calm, Waved, SA!WaveOrder
  <1>2. (part = "subagents" => SubagentsInv) => WaveOrder
    BY <1>1 DEF WaveOrder
  <1> QED BY <1>2, SubagentsInvariance, PTL

(* The report the model gets is whole: when a call is answered with one,   *)
(* and while a transaction its agents proposed is executed, none of the    *)
(* call's agents is running or was lost (run_dispatch_subagents).          *)
THEOREM ReportsAreWhole == Spec => []ReportIsWhole
  <1>1. SubagentsInv => SA!ReportIsWhole
    <2> SUFFICES ASSUME SubagentsInv PROVE SA!ReportIsWhole
      OBVIOUS
    <2>1. \A c \in 1..call : answer[c] = "ok" =>
              \A a \in Agents : task[c][a] \in {"out", "returned"}
      BY DEF SubagentsInv, Whole
    <2>2. txn # SA!None => call >= 1 /\ due # {}
      BY Bounds DEF SubagentsInv, Calm, Waved, AgentsTyped
    <2>3. txn # SA!None => \A a \in Agents : task[call][a] \in {"out", "returned"}
      BY <2>2, WaveOver
    <2> QED BY <2>1, <2>3 DEF SA!ReportIsWhole
  <1>2. (part = "subagents" => SubagentsInv) => ReportIsWhole
    BY <1>1 DEF ReportIsWhole
  <1> QED BY <1>2, SubagentsInvariance, PTL

-----------------------------------------------------------------------------
(* The files of a session                                                  *)

\* Where an emitter may be, how far a writer is, and the types of the rest.
Places == [stage : EL!Stages, last : 0..MaxEvents]
Lives == {"new", "claimed", "ahead", "up", "wave",
          "closing", "over", "refused", "stuck", "dead"}
LogTyped ==
    /\ log \in Seq(1..MaxEvents)
    /\ disk \in [token : EL!Writers, last : 0..MaxEvents]
    /\ owner \in EL!Writers \cup {0}
    /\ life \in [EL!Writers -> Lives]
    /\ sequence \in [EL!Writers -> 1..MaxEvents + 1]
    /\ known \in [EL!Writers -> 0..MaxEvents]
    /\ emitting \in [EL!Writers -> EL!Emitters \cup {EL!Free}]
    /\ at \in [EL!Writers -> [EL!Emitters -> Places]]
    /\ alive \in [EL!Writers -> SUBSET Peers]
    /\ strays \subseteq EL!Strays
    /\ struck \in BOOLEAN /\ orphaned \in BOOLEAN

\* Who emits has the lock, and the number its line will have.
InEmit == {"check", "replace", "append"}
Locked ==
    /\ \A w \in EL!Writers, e \in EL!Emitters : at[w][e].stage \in InEmit =>
          emitting[w] = e /\ at[w][e].last = sequence[w]
    /\ \A s \in strays : s.file = "events" => s.last # 0

\* Only a run that is up has tasks; only a task that is not done writes, beside
\* its run, which does not while it awaits a wave.
Attended == \A w \in EL!Writers :
    /\ life[w] \in {"new", "claimed", "ahead"} => alive[w] = {}
    /\ at[w][EL!Main] # EL!Idle => life[w] \in {"up", "closing"}
    /\ \A e \in EL!Emitters : /\ at[w][e] # EL!Idle => e \in alive[w] \cup {EL!Main}
                              /\ at[w][e].stage = "clock" => e = EL!Main

\* The owner of the lease is the run at work, and its token is on disk.
Working == {"claimed", "ahead", "up", "wave", "closing"}
Leased == ~struck =>
    /\ \A w \in EL!Writers :
          life[w] # "stuck" /\ (life[w] \in Working <=> owner = w)
    /\ owner # 0 => disk.token = owner

\* The log is in order, and the owner knows where it ends.
Ordered == ~struck =>
    /\ EL!Contiguous
    /\ owner # 0 =>
         /\ life[owner] = "ahead" => known[owner] = Len(log)
         /\ life[owner] \in {"up", "wave", "closing"} => sequence[owner] = Len(log) + 1

\* The manifest on disk, in memory and on its way there names the last line or
\* the next, and the next when that one is being appended.
Near(n) == n \in {Len(log), Len(log) + 1}
InPace == ~struck /\ ~orphaned =>
    /\ Near(disk.last)
    /\ \A w \in EL!Writers :
          life[w] # "refused" /\ (alive[w] # {} => life[w] = "wave")
    /\ owner # 0 =>
         /\ Near(known[owner])
         /\ \A e \in EL!Emitters :
              /\ at[owner][e].stage = "append" =>
                    disk.last = Len(log) + 1 /\ known[owner] = Len(log) + 1
              /\ at[owner][e].stage = "clock" => Near(at[owner][e].last)

\* The invariant of the event log.
LogInv == LogTyped /\ Locked /\ Attended /\ Leased /\ Ordered /\ InPace

\* An emitter goes to another place of a write, the others stay where they are.
Moves(w, e, x) ==
    /\ at'[w][e] = x
    /\ \A v \in EL!Writers, f \in EL!Emitters : v # w \/ f # e => at'[v][f] = at[v][f]
\* Emitters stop where they are.
Stops(w, who) ==
    /\ \A f \in EL!Emitters : at'[w][f] = IF f \in who THEN EL!Idle ELSE at[w][f]
    /\ \A v \in EL!Writers : v # w => at'[v] = at[v]

\* Nobody writes at first.
LEMMA IdlePlace == EL!Idle \in Places /\ EL!Idle.stage = "idle"
  BY Bounds DEF EL!Idle, Places, EL!Stages

\* What moving and leaving does to the places.
LEMMA MovesTo ==
    ASSUME at \in [EL!Writers -> [EL!Emitters -> Places]],
           NEW w \in EL!Writers, NEW e \in EL!Emitters
    PROVE  /\ \A x \in Places : at' = [at EXCEPT ![w][e] = x] =>
                 at' \in [EL!Writers -> [EL!Emitters -> Places]] /\ Moves(w, e, x)
           /\ EL!Back(w, e) =>
                 at' \in [EL!Writers -> [EL!Emitters -> Places]] /\ Moves(w, e, EL!Idle)
           /\ \A s \in EL!Stages : EL!Goes(w, e, s) =>
                 /\ at' \in [EL!Writers -> [EL!Emitters -> Places]]
                 /\ Moves(w, e, [stage |-> s, last |-> at[w][e].last])
  <1>1. ASSUME NEW x \in Places, at' = [at EXCEPT ![w][e] = x]
        PROVE  at' \in [EL!Writers -> [EL!Emitters -> Places]] /\ Moves(w, e, x)
    <2>1. [at[w] EXCEPT ![e] = x] \in [EL!Emitters -> Places]
      OBVIOUS
    <2> QED BY <1>1, <2>1 DEF Moves
  <1>2. ASSUME NEW s \in EL!Stages, EL!Goes(w, e, s)
        PROVE  /\ at' \in [EL!Writers -> [EL!Emitters -> Places]]
               /\ Moves(w, e, [stage |-> s, last |-> at[w][e].last])
    <2> DEFINE x == [stage |-> s, last |-> at[w][e].last]
    <2>1. at[w][e] \in Places
      OBVIOUS
    <2>2. x \in Places /\ [at[w][e] EXCEPT !.stage = s] = x
      BY <2>1 DEF Places
    <2>3. at' = [at EXCEPT ![w][e] = x]
      BY <1>2, <2>2 DEF EL!Goes
    <2> QED BY <1>1, <2>2, <2>3
  <1> QED BY <1>1, <1>2, IdlePlace DEF EL!Back

\* A deadline or an interruption cancels some of the emitters, all tasks among them.
LEMMA CancelsSome ==
    ASSUME alive \in [EL!Writers -> SUBSET Peers], NEW w \in EL!Writers,
           EL!WaveTimesOut(w) \/ EL!Interrupt(w)
    PROVE  /\ UNCHANGED <<log, disk, owner, sequence, known, struck, orphaned>>
           /\ \/ life[w] = "wave" /\ life' = [life EXCEPT ![w] = "up"]
              \/ life[w] \in {"up", "wave"} /\ life' = [life EXCEPT ![w] = "closing"]
           /\ \E who \in SUBSET EL!Emitters :
                 EL!CancelAll(w, who) /\ (life[w] = "wave" => alive[w] \subseteq who)
  <1>1. alive[w] \subseteq EL!Emitters
    BY DEF EL!Emitters
  <1>2. CASE EL!WaveTimesOut(w)
    BY <1>1, <1>2 DEF EL!WaveTimesOut, EL!Lives
  <1>3. CASE EL!Interrupt(w)
    <2> DEFINE who == {EL!Main} \cup (IF life[w] = "wave" THEN alive[w] ELSE {})
    <2>1. /\ who \in SUBSET EL!Emitters /\ EL!CancelAll(w, who)
          /\ life[w] = "wave" => alive[w] \subseteq who
      BY <1>1, <1>3 DEF EL!Interrupt, EL!Emitters
    <2>2. /\ UNCHANGED <<log, disk, owner, sequence, known, struck, orphaned>>
          /\ life[w] \in {"up", "wave"} /\ life' = [life EXCEPT ![w] = "closing"]
      BY <1>3 DEF EL!Interrupt, EL!Lives
    <2> QED BY <2>1, <2>2
  <1> QED BY <1>2, <1>3

\* What a cancellation does to them.
LEMMA StopsAll ==
    ASSUME at \in [EL!Writers -> [EL!Emitters -> Places]], NEW w \in EL!Writers, NEW who,
           at' = [at EXCEPT ![w] = [e \in EL!Emitters |-> IF e \in who THEN EL!Idle ELSE @[e]]]
    PROVE  at' \in [EL!Writers -> [EL!Emitters -> Places]] /\ Stops(w, who)
  <1>1. [e \in EL!Emitters |-> IF e \in who THEN EL!Idle ELSE at[w][e]] \in [EL!Emitters -> Places]
    BY IdlePlace
  <1> QED BY <1>1 DEF Stops

\* The variables keep their types.
LEMMA LogTypedStep ==
    ASSUME LogInv, EL!EventLogNext \/ UNCHANGED EventLogVars
    PROVE  LogTyped'
  <1>0. LogTyped /\ Locked
    BY DEF LogInv
  <1>1. /\ log \in Seq(1..MaxEvents)
        /\ disk \in [token : EL!Writers, last : 0..MaxEvents]
        /\ owner \in EL!Writers \cup {0}
        /\ life \in [EL!Writers -> Lives]
        /\ sequence \in [EL!Writers -> 1..MaxEvents + 1]
        /\ known \in [EL!Writers -> 0..MaxEvents]
        /\ emitting \in [EL!Writers -> EL!Emitters \cup {EL!Free}]
        /\ at \in [EL!Writers -> [EL!Emitters -> Places]]
        /\ alive \in [EL!Writers -> SUBSET Peers]
        /\ strays \subseteq EL!Strays
        /\ struck \in BOOLEAN /\ orphaned \in BOOLEAN
        /\ MaxEvents \in Nat
    BY <1>0, Bounds DEF LogTyped
  <1>2. ASSUME NEW w \in EL!Writers, NEW e \in EL!Emitters, EL!Emit(w, e)
        PROVE  LogTyped'
    <2>1. sequence[w] \in 0..MaxEvents
      BY <1>0, <1>2, Bounds DEF EL!Emit, LogTyped
    <2>2. [stage |-> "check", last |-> sequence[w]] \in Places
      BY <2>1 DEF Places, EL!Stages
    <2>3. at' \in [EL!Writers -> [EL!Emitters -> Places]]
      BY <1>1, <1>2, <2>2, MovesTo DEF EL!Emit
    <2>4. /\ known' \in [EL!Writers -> 0..MaxEvents]
          /\ emitting' \in [EL!Writers -> EL!Emitters \cup {EL!Free}]
      BY <1>1, <1>2, <2>1 DEF EL!Emit
    <2>5. UNCHANGED <<log, disk, owner, life, sequence, alive, strays, struck, orphaned>>
      BY <1>2 DEF EL!Emit
    <2> QED BY <1>0, <2>3, <2>4, <2>5 DEF LogTyped
  <1>3. ASSUME NEW w \in EL!Writers, NEW e \in EL!Emitters, EL!Check(w, e)
        PROVE  LogTyped'
    <2>1. at' \in [EL!Writers -> [EL!Emitters -> Places]]
      BY <1>1, <1>3, MovesTo DEF EL!Check, EL!Stages
    <2> QED BY <1>0, <1>3, <2>1 DEF EL!Check, LogTyped
  <1>4. ASSUME NEW w \in EL!Writers, NEW e \in EL!Emitters, EL!CheckFails(w, e)
        PROVE  LogTyped'
    <2>1. at' \in [EL!Writers -> [EL!Emitters -> Places]]
      BY <1>1, <1>4, MovesTo DEF EL!CheckFails
    <2>2. /\ life' \in [EL!Writers -> Lives] /\ alive' \in [EL!Writers -> SUBSET Peers]
          /\ emitting' \in [EL!Writers -> EL!Emitters \cup {EL!Free}]
      <3>1. emitting' = [emitting EXCEPT ![w] = IF @ = e THEN EL!Free ELSE @]
        BY <1>4 DEF EL!CheckFails, EL!Unlock
      <3>2. emitting' \in [EL!Writers -> EL!Emitters \cup {EL!Free}]
        BY <1>1, <3>1
      <3>3. CASE e # EL!Main
        <4>1. life' = life /\ alive' = [alive EXCEPT ![w] = @ \ {e}]
          BY <1>4, <3>3 DEF EL!CheckFails
        <4> QED BY <1>1, <3>2, <4>1
      <3>4. CASE e = EL!Main
        <4>1. /\ life' = [life EXCEPT ![w] = IF life[w] = "up" THEN "closing" ELSE "stuck"]
              /\ alive' = alive
          BY <1>4, <3>4 DEF EL!CheckFails, EL!Lives
        <4> QED BY <1>1, <3>2, <4>1 DEF Lives
      <3> QED BY <3>3, <3>4
    <2>3. UNCHANGED <<log, disk, owner, sequence, known, strays, struck, orphaned>>
      BY <1>4 DEF EL!CheckFails
    <2> QED BY <1>0, <2>1, <2>2, <2>3 DEF LogTyped
  <1>5. ASSUME NEW w \in EL!Writers, NEW e \in EL!Emitters, EL!Replace(w, e)
        PROVE  LogTyped'
    <2>1. at' \in [EL!Writers -> [EL!Emitters -> Places]]
      BY <1>1, <1>5, MovesTo DEF EL!Replace, EL!Stages
    <2>2. at[w][e].last \in 0..MaxEvents
      BY <1>1 DEF Places
    <2> QED BY <1>0, <1>5, <2>1, <2>2 DEF EL!Replace, LogTyped
  <1>6. ASSUME NEW w \in EL!Writers, NEW e \in EL!Emitters, EL!AppendLine(w, e)
        PROVE  LogTyped'
    <2>1. at' \in [EL!Writers -> [EL!Emitters -> Places]]
      BY <1>1, <1>6, MovesTo DEF EL!AppendLine
    <2>2. at[w][e].last \in 0..MaxEvents
      BY <1>1 DEF Places
    <2>3. at[w][e].last = sequence[w] /\ sequence[w] \in 1..MaxEvents + 1
      BY <1>0, <1>6 DEF EL!AppendLine, Locked, InEmit, LogTyped
    <2>4. at[w][e].last \in 1..MaxEvents /\ sequence[w] + 1 \in 1..MaxEvents + 1
      BY <1>1, <2>2, <2>3
    <2>5. log' \in Seq(1..MaxEvents)
      BY <1>1, <1>6, <2>4, AppendProperties DEF EL!AppendLine
    <2> QED BY <1>0, <1>6, <2>1, <2>4, <2>5
            DEF EL!AppendLine, EL!Unlock, LogTyped
  <1>7. ASSUME NEW w \in EL!Writers, EL!SaveAlone(w)
        PROVE  LogTyped'
    <2>1. known[w] \in 0..MaxEvents /\ EL!Main \in EL!Emitters
      BY <1>0 DEF LogTyped, EL!Emitters
    <2>2. [stage |-> "clock", last |-> known[w]] \in Places
      BY <2>1 DEF Places, EL!Stages
    <2>3. at' \in [EL!Writers -> [EL!Emitters -> Places]]
      BY <1>1, <1>7, <2>1, <2>2, MovesTo DEF EL!SaveAlone
    <2> QED BY <1>0, <1>7, <2>3 DEF EL!SaveAlone, LogTyped
  <1>8. ASSUME NEW w \in EL!Writers, NEW who \in SUBSET EL!Emitters, EL!CancelAll(w, who),
               life' \in [EL!Writers -> Lives],
               UNCHANGED <<log, disk, owner, sequence, known, struck, orphaned>>
        PROVE  LogTyped'
    <2>1. at' \in [EL!Writers -> [EL!Emitters -> Places]]
      BY <1>1, <1>8, StopsAll DEF EL!CancelAll
    <2>2. \A e \in EL!Emitters : EL!Left(w, e) \subseteq EL!Strays
      BY <1>1 DEF EL!Left, EL!Strays, Places
    <2>3. /\ strays' \subseteq EL!Strays
          /\ emitting' \in [EL!Writers -> EL!Emitters \cup {EL!Free}]
          /\ alive' \in [EL!Writers -> SUBSET Peers]
      BY <1>1, <1>8, <2>2 DEF EL!CancelAll
    <2> QED BY <1>0, <1>8, <2>1, <2>3 DEF LogTyped
  <1>9. ASSUME NEW w \in EL!Writers, EL!Dies(w)
        PROVE  LogTyped'
    <2>1. [e \in EL!Emitters |-> EL!Idle] \in [EL!Emitters -> Places]
      BY IdlePlace
    <2>2. at' \in [EL!Writers -> [EL!Emitters -> Places]]
      BY <1>1, <1>9, <2>1 DEF EL!Dies
    <2>3. /\ life' \in [EL!Writers -> Lives] /\ owner' \in EL!Writers \cup {0}
          /\ emitting' \in [EL!Writers -> EL!Emitters \cup {EL!Free}]
          /\ alive' \in [EL!Writers -> SUBSET Peers] /\ strays' \subseteq EL!Strays
      BY <1>1, <1>9 DEF EL!Dies, EL!Lives, EL!Holds, Lives
    <2>4. UNCHANGED <<log, disk, sequence, known, struck, orphaned>>
      BY <1>9 DEF EL!Dies
    <2> QED BY <1>0, <2>2, <2>3, <2>4 DEF LogTyped
  <1>10. ASSUME NEW w \in EL!Writers,
                \/ EL!StartWave(w) \/ EL!WaveReturns(w) \/ EL!Finish(w) \/ EL!Release(w)
                \/ \E e \in Peers : EL!TaskDone(w, e)
        PROVE  LogTyped'
    <2>1. life' \in [EL!Writers -> Lives]
      BY <1>1, <1>10 DEF EL!StartWave, EL!WaveReturns, EL!Finish, EL!Release, EL!TaskDone,
           EL!Lives, Lives
    <2>2. alive' \in [EL!Writers -> SUBSET Peers]
      BY <1>1, <1>10 DEF EL!StartWave, EL!WaveReturns, EL!Finish, EL!Release, EL!TaskDone
    <2>3. owner' \in {0, owner} /\ orphaned' \in BOOLEAN
      BY <1>1, <1>10 DEF EL!StartWave, EL!WaveReturns, EL!Finish, EL!Release, EL!TaskDone
    <2>4. UNCHANGED <<log, disk, sequence, known, emitting, at, strays, struck>>
      BY <1>10 DEF EL!StartWave, EL!WaveReturns, EL!Finish, EL!Release, EL!TaskDone
    <2> QED BY <1>0, <2>1, <2>2, <2>3, <2>4 DEF LogTyped
  <1>11. ASSUME NEW w \in EL!Writers, EL!Claim(w)
         PROVE  LogTyped'
    <2>1. disk' \in [token : EL!Writers, last : 0..MaxEvents] /\ disk.last \in 0..MaxEvents
      BY <1>1, <1>11 DEF EL!Claim
    <2>2. /\ owner' \in EL!Writers \cup {0} /\ life' \in [EL!Writers -> Lives]
          /\ known' \in [EL!Writers -> 0..MaxEvents]
      BY <1>1, <1>11, <2>1 DEF EL!Claim, EL!Lives, Lives
    <2>3. UNCHANGED <<log, sequence, emitting, at, alive, strays, struck, orphaned>>
      BY <1>11 DEF EL!Claim
    <2> QED BY <1>0, <2>1, <2>2, <2>3 DEF LogTyped
  <1>12. ASSUME NEW w \in EL!Writers, EL!Validate(w)
         PROVE  LogTyped'
    <2>1. Len(log) \in Nat /\ known[w] \in 0..MaxEvents
      BY <1>1, LenProperties
    <2>2. known[w] + 1 \in 1..MaxEvents + 1
          /\ (known[w] = Len(log) + 1 => Len(log) \in 0..MaxEvents)
      BY <1>1, <2>1
    <2>3. /\ owner' \in {0, owner}
          /\ life' = [life EXCEPT ![w] = "up"] \/ life' = [life EXCEPT ![w] = "ahead"]
             \/ life' = [life EXCEPT ![w] = "refused"]
          /\ known' = known \/ (/\ known[w] = Len(log) + 1
                                /\ known' = [known EXCEPT ![w] = Len(log)])
          /\ sequence' = sequence \/ sequence' = [sequence EXCEPT ![w] = known[w] + 1]
      BY <1>12 DEF EL!Validate, EL!Opens, EL!Refused, EL!Lives
    <2>5. life' \in [EL!Writers -> Lives]
      BY <1>1, <2>3 DEF Lives
    <2>6. known' \in [EL!Writers -> 0..MaxEvents]
      BY <1>1, <2>2, <2>3
    <2>7. sequence' \in [EL!Writers -> 1..MaxEvents + 1]
      BY <1>1, <2>2, <2>3
    <2>4. UNCHANGED <<log, disk, emitting, at, alive, strays, struck, orphaned>>
      BY <1>12 DEF EL!Validate
    <2> QED BY <1>0, <2>3, <2>4, <2>5, <2>6, <2>7 DEF LogTyped
  <1>13. ASSUME NEW w \in EL!Writers, EL!SetBack(w)
         PROVE  LogTyped'
    <2>1. known[w] \in 0..MaxEvents
      BY <1>0 DEF LogTyped
    <2>2. known[w] + 1 \in 1..MaxEvents + 1
      BY <1>1, <2>1
    <2>3. /\ owner' \in {0, owner} /\ life' \in [EL!Writers -> Lives]
          /\ disk' \in [token : EL!Writers, last : 0..MaxEvents]
          /\ sequence' \in [EL!Writers -> 1..MaxEvents + 1]
      <3>1. CASE disk.token = w
        <4>1. /\ disk' = [token |-> w, last |-> known[w]] /\ owner' = owner
              /\ life' = [life EXCEPT ![w] = "up"]
              /\ sequence' = [sequence EXCEPT ![w] = known[w] + 1]
          BY <1>13, <3>1 DEF EL!SetBack, EL!Opens, EL!Lives
        <4>2. disk' \in [token : EL!Writers, last : 0..MaxEvents]
          BY <2>1, <4>1
        <4>3. sequence' \in [EL!Writers -> 1..MaxEvents + 1]
          BY <1>1, <2>2, <4>1
        <4> QED BY <1>1, <4>1, <4>2, <4>3 DEF Lives
      <3>2. CASE disk.token # w
        BY <1>1, <1>13, <3>2 DEF EL!SetBack, EL!Refused, EL!Lives, Lives
      <3> QED BY <3>1, <3>2
    <2>4. UNCHANGED <<log, known, emitting, at, alive, strays, struck, orphaned>>
      BY <1>13 DEF EL!SetBack
    <2> QED BY <1>0, <2>3, <2>4 DEF LogTyped
  <1>14. ASSUME NEW s \in EL!Strays, EL!StrayLands(s)
         PROVE  LogTyped'
    <2>1. s.writer \in EL!Writers /\ s.last \in 0..MaxEvents
      BY <1>14 DEF EL!Strays
    <2>2. s.file = "events" => s.last \in 1..MaxEvents
      BY <1>0, <1>1, <1>14, <2>1 DEF EL!StrayLands, Locked
    <2>3. log' \in Seq(1..MaxEvents)
      <3>1. CASE s.file = "events" /\ log' = Append(log, s.last)
        BY <1>1, <2>2, <3>1, AppendProperties
      <3> QED BY <1>1, <1>14, <3>1 DEF EL!StrayLands
    <2>4. /\ strays' \subseteq EL!Strays /\ struck' \in BOOLEAN
          /\ disk' = disk \/ disk' = [token |-> s.writer, last |-> s.last]
      BY <1>1, <1>14 DEF EL!StrayLands
    <2>6. disk' \in [token : EL!Writers, last : 0..MaxEvents]
      BY <1>1, <2>1, <2>4
    <2>5. UNCHANGED <<owner, life, sequence, known, emitting, at, alive, orphaned>>
      BY <1>14 DEF EL!StrayLands
    <2> QED BY <1>0, <2>3, <2>4, <2>5, <2>6 DEF LogTyped
  <1>15. CASE UNCHANGED EventLogVars
    <2>1. UNCHANGED <<log, disk, owner, life, sequence, known, emitting, at, alive,
                      strays, struck, orphaned>>
      BY <1>15 DEF EventLogVars
    <2> QED BY <1>0, <2>1 DEF LogTyped
  <1>16. ASSUME NEW w \in EL!Writers, EL!WaveTimesOut(w) \/ EL!Interrupt(w)
         PROVE  LogTyped'
    <2>1. life' \in [EL!Writers -> Lives]
      BY <1>1, <1>16, CancelsSome DEF Lives
    <2> QED BY <1>1, <1>8, <1>16, <2>1, CancelsSome
  <1> QED BY <1>2, <1>3, <1>4, <1>5, <1>6, <1>7, <1>9, <1>10, <1>11, <1>12, <1>13, <1>14,
             <1>15, <1>16 DEF EL!EventLogNext

\* Only the holder of the lock is in an event, whose number is the next.
LEMMA LockedStep ==
    ASSUME LogInv, EL!EventLogNext \/ UNCHANGED EventLogVars
    PROVE  Locked'
  <1>0. LogTyped /\ Locked /\ Attended
    BY DEF LogInv
  <1>1. /\ at \in [EL!Writers -> [EL!Emitters -> Places]]
        /\ sequence \in [EL!Writers -> 1..MaxEvents + 1]
        /\ emitting \in [EL!Writers -> EL!Emitters \cup {EL!Free}]
        /\ alive \in [EL!Writers -> SUBSET Peers]
        /\ MaxEvents \in Nat /\ EL!Main \in EL!Emitters
        /\ EL!Idle.stage \notin InEmit
    BY <1>0, Bounds, IdlePlace DEF LogTyped, EL!Emitters, InEmit
  \* An emitter moves, and has the lock when it is in an event.
  <1>2. ASSUME NEW w \in EL!Writers, NEW e \in EL!Emitters, NEW x \in Places,
               Moves(w, e, x), strays' = strays,
               x.stage \in InEmit => emitting'[w] = e /\ x.last = sequence'[w],
               \A v \in EL!Writers : v # w => emitting'[v] = emitting[v]
                                              /\ sequence'[v] = sequence[v],
               \A f \in EL!Emitters : f # e /\ at[w][f].stage \in InEmit =>
                   emitting'[w] = f /\ sequence'[w] = sequence[w]
        PROVE  Locked'
    <2>1. ASSUME NEW v \in EL!Writers, NEW f \in EL!Emitters, at'[v][f].stage \in InEmit
          PROVE  emitting'[v] = f /\ at'[v][f].last = sequence'[v]
      <3>1. CASE v = w /\ f = e
        BY <1>2, <2>1, <3>1 DEF Moves
      <3>2. CASE v # w \/ f # e
        <4>1. at'[v][f] = at[v][f]
          BY <1>2, <3>2 DEF Moves
        <4>2. emitting[v] = f /\ at[v][f].last = sequence[v]
          BY <1>0, <2>1, <4>1 DEF Locked
        <4> QED BY <1>2, <2>1, <3>2, <4>1, <4>2
      <3> QED BY <3>1, <3>2
    <2> QED BY <1>0, <1>2, <2>1 DEF Locked
  <1>3. ASSUME NEW w \in EL!Writers, NEW e \in EL!Emitters, EL!Emit(w, e)
        PROVE  Locked'
    <2> DEFINE x == [stage |-> "check", last |-> sequence[w]]
    <2>1. /\ emitting[w] = EL!Free /\ emitting' = [emitting EXCEPT ![w] = e]
          /\ at' = [at EXCEPT ![w][e] = x] /\ sequence' = sequence /\ strays' = strays
          /\ sequence[w] <= MaxEvents
      BY <1>3 DEF EL!Emit
    <2>2. x \in Places /\ x.last = sequence[w]
      BY <1>1, <2>1 DEF Places, EL!Stages
    <2>3. Moves(w, e, x)
      BY <1>1, <2>1, <2>2, MovesTo
    <2>4. \A f \in EL!Emitters : at[w][f].stage \in InEmit => EL!Free = f
      BY <1>0, <2>1 DEF Locked
    <2>5. /\ emitting'[w] = e
          /\ \A v \in EL!Writers : v # w => emitting'[v] = emitting[v]
      BY <1>1, <2>1
    <2>6. \A f \in EL!Emitters : f # e => at[w][f].stage \notin InEmit
      BY <2>4, Bounds DEF EL!Free, EL!Emitters, EL!Main
    <2> QED BY <1>2, <2>1, <2>2, <2>3, <2>5, <2>6
  <1>4. ASSUME NEW w \in EL!Writers, NEW e \in EL!Emitters,
               EL!Check(w, e) \/ (EL!Replace(w, e) /\ at[w][e].stage = "replace")
        PROVE  Locked'
    <2> DEFINE s == IF at[w][e].stage = "check" THEN "replace" ELSE "append"
               x == [stage |-> s, last |-> at[w][e].last]
    <2>1. /\ at[w][e].stage \in InEmit /\ EL!Goes(w, e, s)
          /\ UNCHANGED <<emitting, sequence, strays>>
      BY <1>4 DEF EL!Check, EL!Replace, InEmit
    <2>2. s \in EL!Stages /\ x \in Places /\ x.last = at[w][e].last
      BY <1>1 DEF Places, EL!Stages
    <2>3. Moves(w, e, x)
      BY <1>1, <2>1, <2>2, MovesTo
    <2>4. emitting[w] = e /\ at[w][e].last = sequence[w]
      BY <1>0, <2>1 DEF Locked
    <2>5. \A f \in EL!Emitters : f # e => at[w][f].stage \notin InEmit
      BY <1>0, <2>4 DEF Locked
    <2> HIDE DEF x, s
    <2> QED BY <1>2, <2>1, <2>2, <2>3, <2>4, <2>5
  \* It leaves what it was in, and the lock.
  <1>5. ASSUME NEW w \in EL!Writers, NEW e \in EL!Emitters, EL!Back(w, e), strays' = strays,
               \A v \in EL!Writers : v # w => emitting'[v] = emitting[v]
                                              /\ sequence'[v] = sequence[v],
               \A f \in EL!Emitters : f # e /\ at[w][f].stage \in InEmit =>
                   emitting'[w] = f /\ sequence'[w] = sequence[w]
        PROVE  Locked'
    BY <1>1, <1>2, <1>5, MovesTo, IdlePlace
  <1>6. ASSUME NEW w \in EL!Writers, NEW e \in EL!Emitters,
               \/ EL!CheckFails(w, e) \/ EL!AppendLine(w, e)
               \/ EL!Replace(w, e) /\ at[w][e].stage = "clock"
        PROVE  Locked'
    <2>1. /\ EL!Back(w, e) /\ strays' = strays
          /\ emitting' = emitting \/ emitting' = [emitting EXCEPT ![w] = IF @ = e THEN EL!Free ELSE @]
          /\ \/ sequence' = sequence
             \/ at[w][e].stage \in InEmit /\ sequence' = [sequence EXCEPT ![w] = @ + 1]
      BY <1>6 DEF EL!CheckFails, EL!AppendLine, EL!Replace, EL!Unlock, InEmit
    <2>2. \A v \in EL!Writers : v # w => emitting'[v] = emitting[v]
                                         /\ sequence'[v] = sequence[v]
      BY <1>1, <2>1
    <2>3. ASSUME NEW f \in EL!Emitters, f # e, at[w][f].stage \in InEmit
          PROVE  emitting'[w] = f /\ sequence'[w] = sequence[w]
      <3>1. emitting[w] = f /\ at[w][e].stage \notin InEmit
        BY <1>0, <2>3 DEF Locked
      <3> QED BY <1>1, <2>1, <2>3, <3>1
    <2> QED BY <1>5, <2>1, <2>2, <2>3
  <1>7. ASSUME NEW w \in EL!Writers, EL!SaveAlone(w)
        PROVE  Locked'
    <2> DEFINE x == [stage |-> "clock", last |-> known[w]]
    <2>1. /\ at' = [at EXCEPT ![w][EL!Main] = x] /\ at[w][EL!Main] = EL!Idle
          /\ UNCHANGED <<emitting, sequence, strays>>
      BY <1>7 DEF EL!SaveAlone
    <2>2. x \in Places /\ x.stage \notin InEmit
      BY <1>0 DEF LogTyped, Places, EL!Stages, InEmit
    <2>3. Moves(w, EL!Main, x)
      BY <1>1, <2>1, <2>2, MovesTo
    <2>4. \A f \in EL!Emitters : at[w][f].stage \in InEmit => emitting[w] = f
      BY <1>0 DEF Locked
    <2> HIDE DEF x
    <2> QED BY <1>1, <1>2, <2>1, <2>2, <2>3, <2>4
  \* Emitters stop where they are, and may leave a write behind.
  <1>8. ASSUME NEW w \in EL!Writers, NEW who, Stops(w, who), sequence' = sequence,
               emitting' = [emitting EXCEPT ![w] = IF @ \in who THEN EL!Free ELSE @],
               \A s \in strays' : s.file = "events" => s.last # 0
        PROVE  Locked'
    <2>1. ASSUME NEW v \in EL!Writers, NEW f \in EL!Emitters, at'[v][f].stage \in InEmit
          PROVE  emitting'[v] = f /\ at'[v][f].last = sequence'[v]
      <3>1. CASE v = w
        <4>1. f \notin who /\ at'[v][f] = at[v][f]
          BY <1>1, <1>8, <2>1, <3>1 DEF Stops
        <4>2. emitting[v] = f /\ at[v][f].last = sequence[v]
          BY <1>0, <2>1, <4>1 DEF Locked
        <4> QED BY <1>1, <1>8, <3>1, <4>1, <4>2
      <3>2. CASE v # w
        <4>1. at'[v][f] = at[v][f]
          BY <1>8, <3>2 DEF Stops
        <4>2. emitting[v] = f /\ at[v][f].last = sequence[v]
          BY <1>0, <2>1, <4>1 DEF Locked
        <4> QED BY <1>1, <1>8, <3>2, <4>1, <4>2
      <3> QED BY <3>1, <3>2
    <2> QED BY <1>8, <2>1 DEF Locked
  <1>9. ASSUME NEW w \in EL!Writers, NEW who \in SUBSET EL!Emitters, EL!CancelAll(w, who),
               sequence' = sequence
        PROVE  Locked'
    <2>1. Stops(w, who)
      BY <1>1, <1>9, StopsAll DEF EL!CancelAll
    <2>2. \A e \in EL!Emitters : \A s \in EL!Left(w, e) : s.file = "events" => s.last # 0
      <3> SUFFICES ASSUME NEW e \in EL!Emitters, NEW s \in EL!Left(w, e), s.file = "events"
                   PROVE  s.last # 0
        OBVIOUS
      <3>1. at[w][e].stage = "append" /\ s.last = at[w][e].last
        BY DEF EL!Left
      <3>2. at[w][e].last = sequence[w]
        BY <1>0, <3>1 DEF Locked, InEmit
      <3> QED BY <1>1, <3>1, <3>2
    <2>3. \A s \in strays' : s.file = "events" => s.last # 0
      BY <1>0, <1>9, <2>2 DEF EL!CancelAll, Locked
    <2> QED BY <1>8, <1>9, <2>1, <2>3 DEF EL!CancelAll
  <1>10. ASSUME NEW w \in EL!Writers, EL!WaveTimesOut(w) \/ EL!Interrupt(w)
         PROVE  Locked'
    BY <1>1, <1>9, <1>10, CancelsSome
  <1>11. ASSUME NEW w \in EL!Writers, EL!Dies(w)
         PROVE  Locked'
    <2>1. /\ at' = [at EXCEPT ![w] = [e \in EL!Emitters |-> EL!Idle]]
          /\ emitting' = [emitting EXCEPT ![w] = EL!Free] /\ sequence' = sequence
          /\ strays' \subseteq strays
      BY <1>11 DEF EL!Dies
    <2>2. Stops(w, EL!Emitters \cup {EL!Free})
      BY <1>1, <2>1 DEF Stops
    <2>3. emitting' = [emitting EXCEPT ![w] =
                          IF @ \in EL!Emitters \cup {EL!Free} THEN EL!Free ELSE @]
      BY <1>1, <2>1
    <2>4. \A s \in strays' : s.file = "events" => s.last # 0
      BY <1>0, <2>1 DEF Locked
    <2> QED BY <1>8, <2>1, <2>2, <2>3, <2>4
  \* A writer that only opens the session is in no event.
  <1>12. ASSUME NEW w \in EL!Writers, EL!Validate(w) \/ EL!SetBack(w)
         PROVE  Locked'
    <2>1. /\ life[w] \in {"claimed", "ahead"} /\ UNCHANGED <<emitting, at, strays>>
          /\ \E n : sequence' = sequence \/ sequence' = [sequence EXCEPT ![w] = n]
      BY <1>12 DEF EL!Validate, EL!SetBack, EL!Opens, EL!Refused
    <2>2. \A e \in EL!Emitters : at[w][e] = EL!Idle
      BY <1>0, <2>1 DEF Attended
    <2>3. \A v \in EL!Writers : v # w => sequence'[v] = sequence[v]
      BY <1>1, <2>1
    <2> QED BY <1>0, <1>1, <2>1, <2>2, <2>3 DEF Locked
  <1>13. CASE UNCHANGED <<emitting, at, sequence>> /\ strays' \subseteq strays
    BY <1>0, <1>13 DEF Locked
  <1>14. ASSUME NEW w \in EL!Writers,
                \/ EL!StartWave(w) \/ EL!WaveReturns(w) \/ EL!Finish(w) \/ EL!Release(w)
                \/ EL!Claim(w) \/ \E e \in Peers : EL!TaskDone(w, e)
         PROVE  UNCHANGED <<emitting, at, sequence, strays>>
    BY <1>14 DEF EL!StartWave, EL!WaveReturns, EL!Finish, EL!Release, EL!TaskDone, EL!Claim
  <1>15. ASSUME NEW s \in EL!Strays, EL!StrayLands(s)
         PROVE  UNCHANGED <<emitting, at, sequence>> /\ strays' \subseteq strays
    BY <1>15 DEF EL!StrayLands
  <1>16. CASE UNCHANGED EventLogVars
    BY <1>13, <1>16 DEF EventLogVars
  <1>17. ASSUME NEW w \in EL!Writers, NEW e \in EL!Emitters, EL!Replace(w, e)
         PROVE  Locked'
    BY <1>4, <1>6, <1>17 DEF EL!Replace
  <1> QED BY <1>3, <1>4, <1>6, <1>7, <1>10, <1>11, <1>12, <1>13, <1>14, <1>15, <1>16, <1>17
          DEF EL!EventLogNext

\* Nobody writes but a run that is up and its tasks.
LEMMA AttendedStep ==
    ASSUME LogInv, EL!EventLogNext \/ UNCHANGED EventLogVars
    PROVE  Attended'
  <1>0. LogTyped /\ Locked /\ Attended
    BY DEF LogInv
  <1>1. /\ at \in [EL!Writers -> [EL!Emitters -> Places]]
        /\ alive \in [EL!Writers -> SUBSET Peers] /\ life \in [EL!Writers -> Lives]
        /\ sequence \in [EL!Writers -> 1..MaxEvents + 1]
        /\ known \in [EL!Writers -> 0..MaxEvents]
        /\ MaxEvents \in Nat /\ EL!Main \in EL!Emitters /\ EL!Idle.stage = "idle"
        /\ \A e \in Peers : e \in EL!Emitters
        /\ \A e \in EL!Emitters : e \in Peers \cup {EL!Main}
    BY <1>0, Bounds, IdlePlace DEF LogTyped, EL!Emitters
  \* An emitter moves, that may write.
  <1>2. ASSUME NEW w \in EL!Writers, NEW e \in EL!Emitters, NEW x, Moves(w, e, x),
               alive' = alive, life' = life,
               x # EL!Idle =>
                  /\ e \in alive[w] \cup {EL!Main}
                  /\ e = EL!Main => life[w] \in {"up", "closing"},
               x.stage = "clock" => e = EL!Main
        PROVE  Attended'
    BY <1>0, <1>1, <1>2 DEF Attended, Moves
  <1>3. ASSUME NEW w \in EL!Writers, NEW e \in EL!Emitters, EL!Emit(w, e)
        PROVE  Attended'
    <2> DEFINE x == [stage |-> "check", last |-> sequence[w]]
    <2>1. /\ EL!MayEmit(w, e) /\ sequence[w] <= MaxEvents
          /\ at' = [at EXCEPT ![w][e] = x] /\ alive' = alive /\ life' = life
      BY <1>3 DEF EL!Emit
    <2>2. x \in Places /\ x.stage # "clock"
      BY <1>1, <2>1 DEF Places, EL!Stages
    <2>3. Moves(w, e, x)
      BY <1>1, <2>1, <2>2, MovesTo
    <2>4. e \in alive[w] \cup {EL!Main} /\ (e = EL!Main => life[w] \in {"up", "closing"})
      BY <1>0, <2>1 DEF EL!MayEmit, Attended
    <2> HIDE DEF x
    <2> QED BY <1>2, <2>1, <2>2, <2>3, <2>4
  <1>4. ASSUME NEW w \in EL!Writers, NEW e \in EL!Emitters, at[w][e] # EL!Idle
        PROVE  e \in alive[w] \cup {EL!Main} /\ (e = EL!Main => life[w] \in {"up", "closing"})
    BY <1>0, <1>4 DEF Attended
  <1>5. ASSUME NEW w \in EL!Writers, NEW e \in EL!Emitters, NEW s \in EL!Stages \ {"clock"},
               EL!Goes(w, e, s), at[w][e] # EL!Idle, alive' = alive, life' = life
        PROVE  Attended'
    <2> DEFINE x == [stage |-> s, last |-> at[w][e].last]
    <2>1. Moves(w, e, x) /\ x.stage # "clock"
      BY <1>1, <1>5, MovesTo
    <2> HIDE DEF x
    <2> QED BY <1>2, <1>4, <1>5, <2>1
  <1>6. ASSUME NEW w \in EL!Writers, NEW e \in EL!Emitters, EL!Back(w, e),
               alive' = alive, life' = life
        PROVE  Attended'
    BY <1>1, <1>2, <1>6, MovesTo
  <1>7. ASSUME NEW w \in EL!Writers, NEW e \in EL!Emitters,
               EL!Check(w, e) \/ EL!Replace(w, e) \/ EL!AppendLine(w, e)
        PROVE  Attended'
    <2>1. at[w][e] # EL!Idle /\ alive' = alive /\ life' = life
      BY <1>1, <1>7 DEF EL!Check, EL!Replace, EL!AppendLine
    <2>2. EL!Back(w, e) \/ \E s \in EL!Stages \ {"clock"} : EL!Goes(w, e, s)
      BY <1>7 DEF EL!Check, EL!Replace, EL!AppendLine, EL!Stages
    <2> QED BY <1>5, <1>6, <2>1, <2>2
  <1>8. ASSUME NEW w \in EL!Writers, NEW e \in EL!Emitters, EL!CheckFails(w, e)
        PROVE  Attended'
    <2>1. Moves(w, e, EL!Idle)
      BY <1>1, <1>8, MovesTo DEF EL!CheckFails
    <2>2. CASE e # EL!Main
      <3>1. life' = life /\ alive' = [alive EXCEPT ![w] = @ \ {e}]
        BY <1>8, <2>2 DEF EL!CheckFails
      <3> QED BY <1>0, <1>1, <2>1, <2>2, <3>1 DEF Attended, Moves
    <2>3. CASE e = EL!Main
      <3>1. /\ alive' = alive
            /\ life' = [life EXCEPT ![w] = IF life[w] = "up" THEN "closing" ELSE "stuck"]
        BY <1>8, <2>3 DEF EL!CheckFails, EL!Lives
      <3> QED BY <1>0, <1>1, <2>1, <2>3, <3>1 DEF Attended, Moves
    <2> QED BY <2>2, <2>3
  <1>9. ASSUME NEW w \in EL!Writers, EL!SaveAlone(w)
        PROVE  Attended'
    <2> DEFINE x == [stage |-> "clock", last |-> known[w]]
    <2>1. /\ at' = [at EXCEPT ![w][EL!Main] = x] /\ alive' = alive /\ life' = life
          /\ life[w] \in {"up", "closing"}
      BY <1>9 DEF EL!SaveAlone
    <2>2. x \in Places
      BY <1>1 DEF Places, EL!Stages
    <2>3. Moves(w, EL!Main, x)
      BY <1>1, <2>1, <2>2, MovesTo
    <2> HIDE DEF x
    <2> QED BY <1>1, <1>2, <2>1, <2>3
  <1>10. ASSUME NEW w \in EL!Writers, EL!WaveTimesOut(w) \/ EL!Interrupt(w)
         PROVE  Attended'
    <2>1. PICK who \in SUBSET EL!Emitters : EL!CancelAll(w, who)
      BY <1>1, <1>10, CancelsSome
    <2>2. Stops(w, who) /\ alive' = [alive EXCEPT ![w] = @ \ who]
      BY <1>1, <2>1, StopsAll DEF EL!CancelAll
    <2>3. life' = [life EXCEPT ![w] = "up"] \/ life' = [life EXCEPT ![w] = "closing"]
      BY <1>1, <1>10, CancelsSome
    <2> QED BY <1>0, <1>1, <2>2, <2>3 DEF Attended, Stops
  <1>11. ASSUME NEW w \in EL!Writers, EL!Dies(w)
         PROVE  Attended'
    BY <1>0, <1>1, <1>11 DEF EL!Dies, EL!Lives, Attended
  <1>12. ASSUME NEW w \in EL!Writers, EL!Claim(w) \/ EL!Validate(w) \/ EL!SetBack(w)
         PROVE  Attended'
    <2>1. /\ life[w] \in {"new", "claimed", "ahead"} /\ UNCHANGED <<at, alive>>
          /\ \E how \in Lives \ {"wave"} : life' = [life EXCEPT ![w] = how]
      BY <1>12 DEF EL!Claim, EL!Validate, EL!SetBack, EL!Opens, EL!Refused, EL!Lives, Lives
    <2> QED BY <1>0, <1>1, <2>1 DEF Attended
  <1>13. ASSUME NEW w \in EL!Writers,
                EL!StartWave(w) \/ EL!WaveReturns(w) \/ EL!Finish(w) \/ EL!Release(w)
         PROVE  Attended'
    <2>1. /\ at' = at /\ (alive' = alive \/ (alive[w] = {} /\ alive' = [alive EXCEPT ![w] = Peers]))
          /\ \/ /\ at[w][EL!Main] = EL!Idle
                /\ \E how \in {"wave", "over"} : life' = [life EXCEPT ![w] = how]
             \/ \E how \in {"up", "closing"} : life' = [life EXCEPT ![w] = how]
      BY <1>13 DEF EL!StartWave, EL!WaveReturns, EL!Finish, EL!Release, EL!Lives
    <2>2. \A v \in EL!Writers : alive[v] \subseteq alive'[v] /\ (v # w => alive'[v] = alive[v])
      BY <1>1, <2>1
    <2> QED BY <1>0, <1>1, <2>1, <2>2 DEF Attended
  <1>14. ASSUME NEW w \in EL!Writers, NEW e \in Peers, EL!TaskDone(w, e)
         PROVE  Attended'
    BY <1>0, <1>1, <1>14 DEF EL!TaskDone, Attended
  <1>15. CASE UNCHANGED <<at, alive, life>>
    BY <1>0, <1>15 DEF Attended
  <1>16. ASSUME NEW s \in EL!Strays, EL!StrayLands(s)
         PROVE  UNCHANGED <<at, alive, life>>
    BY <1>16 DEF EL!StrayLands
  <1> QED BY <1>3, <1>7, <1>8, <1>9, <1>10, <1>11, <1>12, <1>13, <1>14, <1>15, <1>16
          DEF EL!EventLogNext, EventLogVars

\* A write that landed stays landed, and a task left behind was left behind.
LEMMA HistoryStays ==
    ASSUME EL!EventLogNext \/ UNCHANGED EventLogVars
    PROVE  (struck => struck') /\ (orphaned => orphaned')
  <1>1. ASSUME NEW w \in EL!Writers, NEW e \in EL!Emitters,
               EL!Emit(w, e) \/ EL!Check(w, e) \/ EL!CheckFails(w, e)
        PROVE  UNCHANGED <<struck, orphaned>>
    BY <1>1 DEF EL!Emit, EL!Check, EL!CheckFails
  <1>2. ASSUME NEW w \in EL!Writers, NEW e \in EL!Emitters,
               EL!Replace(w, e) \/ EL!AppendLine(w, e)
        PROVE  struck' = (struck \/ ~EL!Holds(w)) /\ orphaned' = orphaned
    BY <1>2 DEF EL!Replace, EL!AppendLine
  <1>4. ASSUME NEW w \in EL!Writers,
               \/ EL!SaveAlone(w) \/ EL!StartWave(w) \/ EL!WaveTimesOut(w)
               \/ EL!Interrupt(w) \/ EL!Finish(w) \/ EL!Dies(w) \/ EL!Claim(w)
               \/ EL!Validate(w) \/ EL!SetBack(w) \/ \E e \in Peers : EL!TaskDone(w, e)
        PROVE  UNCHANGED <<struck, orphaned>>
    BY <1>4 DEF EL!TaskDone, EL!SaveAlone, EL!StartWave, EL!WaveTimesOut, EL!Interrupt,
         EL!Finish, EL!Dies, EL!Claim, EL!Validate, EL!SetBack
  <1>5. ASSUME NEW w \in EL!Writers, EL!WaveReturns(w) \/ EL!Release(w)
        PROVE  struck' = struck /\ orphaned' = (orphaned \/ alive[w] # {})
    BY <1>5 DEF EL!WaveReturns, EL!Release
  <1>3. ASSUME NEW s \in EL!Strays, EL!StrayLands(s)
        PROVE  (struck => struck') /\ orphaned' = orphaned
    BY <1>3 DEF EL!StrayLands
  <1>6. CASE UNCHANGED EventLogVars
    BY <1>6 DEF EventLogVars
  <1>7. ASSUME NEW w \in EL!Writers, NEW e \in EL!Emitters,
               \/ EL!Emit(w, e) \/ EL!Check(w, e) \/ EL!CheckFails(w, e)
               \/ EL!Replace(w, e) \/ EL!AppendLine(w, e)
        PROVE  (struck => struck') /\ (orphaned => orphaned')
    BY <1>1, <1>2, <1>7
  <1> QED BY <1>3, <1>4, <1>5, <1>6, <1>7 DEF EL!EventLogNext

\* The lease goes from one run at work to the next.
LEMMA LeasedStep ==
    ASSUME LogInv, EL!EventLogNext \/ UNCHANGED EventLogVars
    PROVE  Leased'
  <1> SUFFICES ASSUME ~struck' PROVE Leased'
    BY DEF Leased
  <1>0. LogTyped /\ Attended
    BY DEF LogInv
  <1>1. /\ life \in [EL!Writers -> Lives]
        /\ disk \in [token : EL!Writers, last : 0..MaxEvents]
        /\ owner \in EL!Writers \cup {0} /\ 0 \notin EL!Writers
        /\ at \in [EL!Writers -> [EL!Emitters -> Places]]
        /\ alive \in [EL!Writers -> SUBSET Peers]
        /\ EL!Idle.stage = "idle"
    BY <1>0, Bounds, IdlePlace DEF LogTyped, EL!Writers
  <1>2. /\ ~struck
        /\ \A w \in EL!Writers :
              life[w] # "stuck" /\ (life[w] \in Working <=> owner = w)
        /\ owner # 0 => disk.token = owner
    BY HistoryStays DEF LogInv, Leased
  \* A run at work stays at work.
  <1>3. ASSUME NEW w \in EL!Writers, NEW how \in Working, life[w] \in Working,
               life' = [life EXCEPT ![w] = how], owner' = owner,
               disk'.token = disk.token \/ disk'.token = owner
        PROVE  Leased'
    BY <1>1, <1>2, <1>3 DEF Leased, Working
  \* It is at work no more.
  <1>4. ASSUME NEW w \in EL!Writers, NEW how \in {"over", "refused", "dead"}, life[w] \in Working,
               life' = [life EXCEPT ![w] = how], owner' = 0
        PROVE  Leased'
    BY <1>1, <1>2, <1>4 DEF Leased, Working
  <1>5. CASE life' = life /\ owner' = owner /\ (disk'.token = disk.token \/ disk'.token = owner)
    BY <1>1, <1>2, <1>5 DEF Leased
  <1>6. ASSUME NEW w \in EL!Writers, NEW e \in EL!Emitters,
               EL!Emit(w, e) \/ EL!Check(w, e) \/ EL!Replace(w, e) \/ EL!AppendLine(w, e)
        PROVE  Leased'
    <2>1. life' = life /\ owner' = owner
      BY <1>6 DEF EL!Emit, EL!Check, EL!Replace, EL!AppendLine
    <2>2. \/ disk' = disk
          \/ owner = w /\ disk' = [token |-> w, last |-> at[w][e].last]
      BY <1>6 DEF EL!Emit, EL!Check, EL!Replace, EL!AppendLine, EL!Holds
    <2> QED BY <1>5, <2>1, <2>2
  <1>7. ASSUME NEW w \in EL!Writers, NEW e \in EL!Emitters, EL!CheckFails(w, e)
        PROVE  Leased'
    <2>1. disk' = disk /\ owner' = owner
      BY <1>7 DEF EL!CheckFails
    <2>2. CASE e # EL!Main
      BY <1>5, <1>7, <2>1, <2>2 DEF EL!CheckFails
    <2>3. CASE e = EL!Main
      <3>1. /\ at[w][e].stage = "check" \/ life[w] = "closing"
            /\ ~(owner = w /\ disk.token = w)
            /\ life' = [life EXCEPT ![w] = IF life[w] = "up" THEN "closing" ELSE "stuck"]
        BY <1>7, <2>3 DEF EL!CheckFails, EL!Holds, EL!Lives
      <3>2. life[w] \notin Working
        BY <1>1, <1>2, <3>1
      <3>3. at[w][EL!Main].stage = "check"
        BY <2>3, <3>1, <3>2 DEF Working
      <3>4. life[w] \in {"up", "closing"}
        BY <1>0, <1>1, <3>3 DEF Attended
      <3> QED BY <3>2, <3>4 DEF Working
    <2> QED BY <2>2, <2>3
  <1>8. ASSUME NEW w \in EL!Writers, EL!WaveTimesOut(w) \/ EL!Interrupt(w)
        PROVE  Leased'
    <2>1. /\ life[w] \in {"up", "wave"} /\ owner' = owner /\ disk' = disk
          /\ \E how \in {"up", "closing"} : life' = [life EXCEPT ![w] = how]
      BY <1>1, <1>8, CancelsSome
    <2> QED BY <1>3, <2>1 DEF Working
  <1>9. ASSUME NEW w \in EL!Writers, EL!Dies(w)
        PROVE  Leased'
    <2>1. /\ life' = [life EXCEPT ![w] = "dead"] /\ disk' = disk
          /\ owner' = IF owner = w THEN 0 ELSE owner
      BY <1>9 DEF EL!Dies, EL!Lives, EL!Holds
    <2>2. CASE life[w] \in Working
      BY <1>2, <1>4, <2>1, <2>2
    <2>3. CASE life[w] \notin Working
      BY <1>1, <1>2, <2>1, <2>3 DEF Leased, Working
    <2> QED BY <2>2, <2>3
  <1>10. ASSUME NEW w \in EL!Writers, EL!Claim(w)
         PROVE  Leased'
    <2>1. /\ owner = 0 /\ owner' = w /\ disk'.token = w
          /\ life' = [life EXCEPT ![w] = "claimed"]
      BY <1>1, <1>10 DEF EL!Claim, EL!Lives
    <2> QED BY <1>1, <1>2, <2>1 DEF Leased, Working
  <1>11. ASSUME NEW w \in EL!Writers, EL!Validate(w) \/ EL!SetBack(w)
         PROVE  Leased'
    <2>1. /\ life[w] \in Working
          /\ disk' = disk \/ disk' = [token |-> w, last |-> known[w]]
          /\ \/ owner' = owner /\ \E how \in Working : life' = [life EXCEPT ![w] = how]
             \/ owner' = 0 /\ life' = [life EXCEPT ![w] = "refused"]
      BY <1>11 DEF EL!Validate, EL!SetBack, EL!Opens, EL!Refused, EL!Lives, Working
    <2>2. disk'.token \in {disk.token, owner}
      BY <1>2, <2>1
    <2> QED BY <1>3, <1>4, <2>1, <2>2
  <1>12. ASSUME NEW w \in EL!Writers,
                EL!StartWave(w) \/ EL!WaveReturns(w) \/ EL!Finish(w) \/ EL!Release(w)
         PROVE  Leased'
    <2>1. /\ life[w] \in Working /\ disk' = disk
          /\ \/ owner' = owner /\ \E how \in Working : life' = [life EXCEPT ![w] = how]
             \/ owner' = 0 /\ life' = [life EXCEPT ![w] = "over"]
      BY <1>12 DEF EL!StartWave, EL!WaveReturns, EL!Finish, EL!Release, EL!Lives, Working
    <2> QED BY <1>3, <1>4, <2>1
  <1>13. ASSUME NEW w \in EL!Writers, EL!SaveAlone(w) \/ \E e \in Peers : EL!TaskDone(w, e)
         PROVE  Leased'
    BY <1>5, <1>13 DEF EL!SaveAlone, EL!TaskDone
  <1>14. ASSUME NEW s \in EL!Strays, EL!StrayLands(s)
         PROVE  Leased'
    BY <1>5, <1>14 DEF EL!StrayLands
  <1> QED BY <1>5, <1>6, <1>7, <1>8, <1>9, <1>10, <1>11, <1>12, <1>13, <1>14
          DEF EL!EventLogNext, EventLogVars

\* Who writes and has the lease is up: it did not just open the session.
LEMMA WritesWhenUp ==
    ASSUME LogInv, NEW w \in EL!Writers, NEW e \in EL!Emitters,
           at[w][e] # EL!Idle \/ EL!MayEmit(w, e)
    PROVE  /\ life[w] \notin {"new", "claimed", "ahead"}
           /\ ~struck /\ owner = w => life[w] \in {"up", "wave", "closing"}
  <1>1. life[w] \notin {"new", "claimed", "ahead"}
    BY DEF LogInv, Attended, EL!MayEmit
  <1>2. ~struck /\ owner = w => life[w] \in Working
    BY DEF LogInv, Leased
  <1> QED BY <1>1, <1>2 DEF Working

\* Lines are appended in order, and the owner knows how many there are.
LEMMA OrderedStep ==
    ASSUME LogInv, EL!EventLogNext \/ UNCHANGED EventLogVars
    PROVE  Ordered'
  <1> SUFFICES ASSUME ~struck' PROVE Ordered'
    BY DEF Ordered
  <1>0. LogTyped /\ Attended /\ Locked
    BY DEF LogInv
  <1>1. /\ life \in [EL!Writers -> Lives] /\ log \in Seq(1..MaxEvents)
        /\ Len(log) \in Nat /\ owner \in EL!Writers \cup {0} /\ 0 \notin EL!Writers
        /\ sequence \in [EL!Writers -> 1..MaxEvents + 1]
        /\ known \in [EL!Writers -> 0..MaxEvents]
        /\ at \in [EL!Writers -> [EL!Emitters -> Places]]
        /\ alive \in [EL!Writers -> SUBSET Peers]
        /\ EL!Idle.stage = "idle"
    BY <1>0, Bounds, IdlePlace, LenProperties DEF LogTyped, EL!Writers
  <1>2. /\ ~struck /\ EL!Contiguous
        /\ \A w \in EL!Writers : life[w] \in Working <=> owner = w
        /\ owner # 0 =>
             /\ life[owner] = "ahead" => known[owner] = Len(log)
             /\ life[owner] \in {"up", "wave", "closing"} => sequence[owner] = Len(log) + 1
    BY HistoryStays DEF LogInv, Leased, Ordered
  <1>3. log' = log => EL!Contiguous'
    BY <1>2 DEF EL!Contiguous
  \* The owner goes on, and has nothing to learn.
  <1>4. ASSUME log' = log, owner' \in {0, owner},
               owner # 0 /\ owner' # 0 =>
                 /\ life'[owner] = "ahead" =>
                      life[owner] = "ahead" /\ known'[owner] = known[owner]
                 /\ life'[owner] \in {"up", "wave", "closing"} =>
                      life[owner] \in {"up", "wave", "closing"} /\ sequence'[owner] = sequence[owner]
        PROVE  Ordered'
    BY <1>1, <1>2, <1>3, <1>4 DEF Ordered
  <1>5. ASSUME NEW w \in EL!Writers, NEW e \in EL!Emitters,
               EL!Emit(w, e) \/ EL!Check(w, e) \/ EL!Replace(w, e)
        PROVE  Ordered'
    <2>1. /\ log' = log /\ owner' = owner /\ life' = life /\ sequence' = sequence
          /\ known' = known \/ \E n : known' = [known EXCEPT ![w] = n]
          /\ EL!MayEmit(w, e) \/ at[w][e].stage \in {"check", "replace", "clock"}
      BY <1>5 DEF EL!Emit, EL!Check, EL!Replace
    <2>2. life[w] # "ahead"
      BY <1>1, <2>1, WritesWhenUp
    <2>3. owner \in EL!Writers /\ owner # w => known'[owner] = known[owner]
      BY <1>1, <2>1
    <2> QED BY <1>1, <1>4, <2>1, <2>2, <2>3
  <1>6. ASSUME NEW w \in EL!Writers, NEW e \in EL!Emitters, EL!AppendLine(w, e)
        PROVE  Ordered'
    <2>1. /\ at[w][e].stage = "append" /\ log' = Append(log, at[w][e].last)
          /\ sequence' = [sequence EXCEPT ![w] = @ + 1] /\ owner = w
          /\ life' = life /\ owner' = owner
      BY <1>6 DEF EL!AppendLine, EL!Holds
    <2>2. life[w] \in {"up", "wave", "closing"}
      BY <1>1, <1>2, <2>1, WritesWhenUp
    <2>3. at[w][e].last = Len(log) + 1
      BY <1>0, <1>1, <1>2, <2>1, <2>2 DEF Locked, InEmit
    <2>4. /\ Len(log') = Len(log) + 1
          /\ \A i \in 1..Len(log) + 1 : log'[i] = IF i = Len(log) + 1 THEN Len(log) + 1 ELSE log[i]
          /\ DOMAIN log' = 1..Len(log) + 1 /\ DOMAIN log = 1..Len(log)
      <3>1. at[w][e].last \in 1..MaxEvents
        <4>1. at[w][e].last \in 0..MaxEvents
          BY <1>1 DEF Places
        <4> QED BY <1>1, <2>3, <4>1
      <3> QED BY <1>1, <2>1, <2>3, <3>1, AppendProperties, LenProperties
    <2>5. EL!Contiguous'
      BY <1>1, <1>2, <2>4 DEF EL!Contiguous
    <2>6. sequence'[w] = Len(log') + 1
      BY <1>1, <1>2, <2>1, <2>2, <2>4
    <2> QED BY <1>1, <2>1, <2>2, <2>5, <2>6 DEF Ordered
  <1>7. ASSUME NEW w \in EL!Writers, NEW e \in EL!Emitters, EL!CheckFails(w, e)
        PROVE  Ordered'
    <2>1. /\ UNCHANGED <<log, owner, sequence, known>>
          /\ life' = life \/ (e = EL!Main /\ \E how \in {"closing", "stuck"} :
                                 life' = [life EXCEPT ![w] = how])
          /\ at[w][e].stage = "check" \/ (e = EL!Main /\ life[w] = "closing")
      BY <1>7 DEF EL!CheckFails, EL!Lives
    <2>2. owner = w => life[w] \in {"up", "wave", "closing"}
      BY <1>1, <1>2, <2>1, WritesWhenUp
    <2> QED BY <1>1, <1>4, <2>1, <2>2
  <1>8. ASSUME NEW w \in EL!Writers,
               \/ EL!WaveTimesOut(w) \/ EL!Interrupt(w) \/ EL!StartWave(w) \/ EL!WaveReturns(w)
               \/ EL!Finish(w) \/ EL!Release(w) \/ EL!SaveAlone(w)
               \/ \E e \in Peers : EL!TaskDone(w, e)
        PROVE  Ordered'
    <2>1. /\ UNCHANGED <<log, sequence, known>> /\ owner' \in {0, owner}
          /\ \/ life' = life
             \/ /\ life[w] \in {"up", "wave", "closing"}
                /\ \E how \in {"up", "wave", "closing", "over"} : life' = [life EXCEPT ![w] = how]
      <3>1. CASE EL!WaveTimesOut(w) \/ EL!Interrupt(w)
        BY <1>1, <3>1, CancelsSome
      <3> QED BY <1>8, <3>1 DEF EL!StartWave, EL!WaveReturns, EL!Finish, EL!Release,
                 EL!SaveAlone, EL!TaskDone, EL!Lives
    <2> QED BY <1>1, <1>4, <2>1
  <1>9. ASSUME NEW w \in EL!Writers, EL!Dies(w)
        PROVE  Ordered'
    <2>1. /\ UNCHANGED <<log, sequence, known>> /\ life' = [life EXCEPT ![w] = "dead"]
          /\ owner' = IF owner = w THEN 0 ELSE owner
      BY <1>9 DEF EL!Dies, EL!Lives, EL!Holds
    <2> QED BY <1>1, <1>4, <2>1
  <1>10. ASSUME NEW w \in EL!Writers, EL!Claim(w)
         PROVE  Ordered'
    <2>1. log' = log /\ owner' = w /\ life'[w] = "claimed"
      BY <1>1, <1>10 DEF EL!Claim, EL!Lives
    <2> QED BY <1>3, <2>1 DEF Ordered
  <1>11. ASSUME NEW w \in EL!Writers, EL!Validate(w)
         PROVE  Ordered'
    <2>1. log' = log /\ life[w] = "claimed" /\ owner = w
      BY <1>2, <1>11 DEF EL!Validate, Working
    <2>2. CASE known[w] = Len(log) /\ EL!Opens(w, known[w]) /\ owner' = owner
      <3>1. life'[w] = "up" /\ sequence'[w] = known[w] + 1
        BY <1>1, <2>2 DEF EL!Opens, EL!Lives
      <3> QED BY <1>3, <2>1, <2>2, <3>1 DEF Ordered
    <2>3. CASE /\ known' = [known EXCEPT ![w] = Len(log)]
               /\ EL!Lives(w, "ahead") /\ owner' = owner
      <3>1. life'[w] = "ahead" /\ known'[w] = Len(log)
        BY <1>1, <2>3 DEF EL!Lives
      <3> QED BY <1>3, <2>1, <2>3, <3>1 DEF Ordered
    <2>4. CASE owner' = 0
      BY <1>3, <2>1, <2>4 DEF Ordered
    <2> QED BY <1>11, <2>2, <2>3, <2>4 DEF EL!Validate, EL!Refused
  <1>12. ASSUME NEW w \in EL!Writers, EL!SetBack(w)
         PROVE  Ordered'
    <2>1. log' = log /\ life[w] = "ahead" /\ owner = w
      BY <1>2, <1>12 DEF EL!SetBack, Working
    <2>2. CASE EL!Opens(w, known[w]) /\ owner' = owner
      <3>1. life'[w] = "up" /\ sequence'[w] = known[w] + 1 /\ known[w] = Len(log)
        BY <1>1, <1>2, <2>1, <2>2 DEF EL!Opens, EL!Lives
      <3> QED BY <1>3, <2>1, <2>2, <3>1 DEF Ordered
    <2>3. CASE owner' = 0
      BY <1>3, <2>1, <2>3 DEF Ordered
    <2> QED BY <1>12, <2>2, <2>3 DEF EL!SetBack, EL!Refused
  <1>13. ASSUME NEW s \in EL!Strays, EL!StrayLands(s)
         PROVE  UNCHANGED <<log, owner, life, sequence, known>>
    BY <1>13 DEF EL!StrayLands
  <1>14. CASE UNCHANGED <<log, owner, life, sequence, known>>
    BY <1>4, <1>14
  <1> QED BY <1>5, <1>6, <1>7, <1>8, <1>9, <1>10, <1>11, <1>12, <1>13, <1>14
          DEF EL!EventLogNext, EventLogVars

\* As long as no task was left behind, who writes is of the owner, and the run
\* does not write beside its tasks.
LEMMA OwnerWrites ==
    ASSUME LogInv, ~struck, ~orphaned, NEW w \in EL!Writers
    PROVE  /\ (\E e \in EL!Emitters : at[w][e] # EL!Idle \/ EL!MayEmit(w, e)) \/ life[w] \in Working
                 => owner = w /\ disk.token = w
           /\ at[w][EL!Main] # EL!Idle =>
                 \A e \in EL!Emitters : e # EL!Main => at[w][e] = EL!Idle
  <1>1. /\ alive[w] # {} => life[w] = "wave"
        /\ life[w] \in Working => owner = w
        /\ owner # 0 => disk.token = owner
    BY DEF LogInv, InPace, Leased
  <1>2. \A e \in EL!Emitters : at[w][e] # EL!Idle \/ EL!MayEmit(w, e) =>
           IF e = EL!Main THEN life[w] \in {"up", "closing"} ELSE e \in alive[w]
    BY DEF LogInv, Attended, EL!MayEmit
  <1>3. 0 \notin EL!Writers
    BY DEF EL!Writers
  <1> QED BY <1>1, <1>2, <1>3 DEF Working, LogInv, Attended

\* The manifest keeps pace with the log.
LEMMA InPaceStep ==
    ASSUME LogInv, EL!EventLogNext \/ UNCHANGED EventLogVars
    PROVE  InPace'
  <1> SUFFICES ASSUME ~struck', ~orphaned' PROVE InPace'
    BY DEF InPace
  <1>0. LogTyped /\ Attended /\ Locked /\ Leased /\ Ordered
    BY DEF LogInv
  <1>1. /\ life \in [EL!Writers -> Lives] /\ log \in Seq(1..MaxEvents)
        /\ disk \in [token : EL!Writers, last : 0..MaxEvents]
        /\ Len(log) \in Nat /\ owner \in EL!Writers \cup {0} /\ 0 \notin EL!Writers
        /\ sequence \in [EL!Writers -> 1..MaxEvents + 1]
        /\ known \in [EL!Writers -> 0..MaxEvents]
        /\ at \in [EL!Writers -> [EL!Emitters -> Places]]
        /\ alive \in [EL!Writers -> SUBSET Peers]
        /\ EL!Idle.stage = "idle" /\ EL!Main \in EL!Emitters
        /\ MaxEvents \in Nat
    <2>1. Len(log) \in Nat
      BY <1>0, LenProperties DEF LogTyped
    <2>2. EL!Main \in EL!Emitters /\ 0 \notin EL!Writers
      BY DEF EL!Emitters, EL!Writers
    <2> QED BY <1>0, <2>1, <2>2, Bounds, IdlePlace DEF LogTyped
  <1>2. ~struck /\ ~orphaned
    BY HistoryStays
  <1>3. /\ Near(disk.last)
        /\ \A w \in EL!Writers :
              life[w] # "refused" /\ (alive[w] # {} => life[w] = "wave")
        /\ owner # 0 =>
             /\ Near(known[owner])
             /\ \A e \in EL!Emitters :
                  /\ at[owner][e].stage = "append" =>
                        disk.last = Len(log) + 1 /\ known[owner] = Len(log) + 1
                  /\ at[owner][e].stage = "clock" => Near(at[owner][e].last)
    BY <1>2 DEF LogInv, InPace
  <1>4. log' = log => \A n : Near(n)' <=> Near(n)
    BY DEF Near
  \* Who writes has the number of the next line.
  <1>5. ASSUME NEW w \in EL!Writers, NEW e \in EL!Emitters, at[w][e].stage \in InEmit
        PROVE  /\ owner = w /\ at[w][e].last = Len(log) + 1
               /\ \A f \in EL!Emitters : f # e => at[w][f].stage \notin InEmit \cup {"clock"}
    <2>1. owner = w /\ at[w][e] # EL!Idle
      BY <1>1, <1>2, <1>5, OwnerWrites DEF InEmit
    <2>2. life[w] \in {"up", "wave", "closing"}
      BY <1>2, <2>1, WritesWhenUp
    <2>3. at[w][e].last = Len(log) + 1
      BY <1>0, <1>1, <1>2, <1>5, <2>1, <2>2 DEF Locked, Ordered
    <2>4. \A f \in EL!Emitters : f # e => at[w][f].stage \notin InEmit
      BY <1>0, <1>5 DEF Locked
    <2>5. \A f \in EL!Emitters : f # e => at[w][f].stage # "clock"
      <3> SUFFICES ASSUME NEW f \in EL!Emitters, f # e, at[w][f].stage = "clock" PROVE FALSE
        OBVIOUS
      <3>1. f = EL!Main /\ at[w][EL!Main] # EL!Idle
        BY <1>0, <1>1 DEF Attended
      <3> QED BY <1>2, <2>1, <3>1, OwnerWrites
    <2> QED BY <2>1, <2>3, <2>4, <2>5
  <1>6. ASSUME NEW w \in EL!Writers, NEW e \in EL!Emitters, EL!Emit(w, e)
        PROVE  InPace'
    <2> DEFINE x == [stage |-> "check", last |-> sequence[w]]
    <2>1. /\ EL!MayEmit(w, e) /\ sequence[w] <= MaxEvents
          /\ at' = [at EXCEPT ![w][e] = x] /\ known' = [known EXCEPT ![w] = sequence[w]]
          /\ UNCHANGED <<log, disk, owner, life, alive>>
      BY <1>6 DEF EL!Emit
    <2>2. owner = w /\ life[w] \in {"up", "wave", "closing"}
      BY <1>2, <2>1, OwnerWrites, WritesWhenUp
    <2>3. sequence[w] = Len(log) + 1 /\ known'[w] = Len(log) + 1
      BY <1>0, <1>1, <1>2, <2>1, <2>2 DEF Ordered
    <2>4. x \in Places /\ x.stage \notin {"append", "clock"}
      BY <1>1, <2>1 DEF Places, EL!Stages
    <2>5. Moves(w, e, x)
      BY <1>1, <2>1, <2>4, MovesTo
    <2> HIDE DEF x
    <2> QED BY <1>3, <2>1, <2>2, <2>3, <2>4, <2>5 DEF InPace, Near, Moves
  \* Nothing is written, and no task left behind.
  <1>6a. ASSUME NEW w \in EL!Writers, UNCHANGED <<log, disk, known>>, owner' \in {0, owner},
                \A v \in EL!Writers, e \in EL!Emitters :
                   at'[v][e].stage \in {"append", "clock"} => at'[v][e] = at[v][e],
                \A v \in EL!Writers : v # w => life'[v] = life[v] /\ alive'[v] = alive[v],
                life'[w] # "refused", alive'[w] # {} => life'[w] = "wave"
         PROVE  InPace'
    <2>1. \A v \in EL!Writers : life'[v] # "refused" /\ (alive'[v] # {} => life'[v] = "wave")
      BY <1>3, <1>6a
    <2>2. Near(disk.last)'
      BY <1>3, <1>6a DEF Near
    <2>3. ASSUME owner' # 0 PROVE owner' = owner /\ owner \in EL!Writers /\ Near(known[owner])'
      BY <1>1, <1>3, <1>6a, <2>3 DEF Near
    <2>4. ASSUME owner' # 0, NEW e \in EL!Emitters, at'[owner][e].stage \in {"append", "clock"}
          PROVE  /\ at'[owner][e].stage = "append" =>
                        disk'.last = Len(log') + 1 /\ known'[owner] = Len(log') + 1
                 /\ at'[owner][e].stage = "clock" => Near(at[owner][e].last)'
      <3>1. at'[owner][e] = at[owner][e]
        BY <1>6a, <2>3, <2>4
      <3>2. /\ at[owner][e].stage = "append" =>
                  disk.last = Len(log) + 1 /\ known[owner] = Len(log) + 1
            /\ at[owner][e].stage = "clock" => Near(at[owner][e].last)
        BY <1>3, <2>3, <2>4
      <3> QED BY <1>6a, <2>3, <2>4, <3>1, <3>2 DEF Near
    <2> QED BY <2>1, <2>2, <2>3, <2>4 DEF InPace
  <1>7. ASSUME NEW w \in EL!Writers, NEW e \in EL!Emitters, EL!Check(w, e)
        PROVE  InPace'
    <2> DEFINE x == [stage |-> "replace", last |-> at[w][e].last]
    <2>1. EL!Goes(w, e, "replace") /\ UNCHANGED <<log, disk, owner, life, known, alive>>
      BY <1>7 DEF EL!Check
    <2>2. Moves(w, e, x) /\ x.stage \notin {"append", "clock"}
      BY <1>1, <2>1, MovesTo DEF EL!Stages
    <2> HIDE DEF x
    <2>3. \A v \in EL!Writers, f \in EL!Emitters :
             at'[v][f].stage \in {"append", "clock"} => at'[v][f] = at[v][f]
      BY <2>2 DEF Moves
    <2> QED BY <1>3, <1>6a, <2>1, <2>3
  <1>8. ASSUME NEW w \in EL!Writers, NEW e \in EL!Emitters, EL!CheckFails(w, e)
        PROVE  FALSE
    <2>1. /\ ~(owner = w /\ disk.token = w)
          /\ at[w][e].stage = "check" \/ life[w] = "closing"
      BY <1>8 DEF EL!CheckFails, EL!Holds
    <2> QED BY <1>1, <1>2, <2>1, OwnerWrites DEF Working
  <1>9. ASSUME NEW w \in EL!Writers, NEW e \in EL!Emitters, EL!Replace(w, e)
        PROVE  InPace'
    <2>1. /\ disk' = [token |-> w, last |-> at[w][e].last]
          /\ known' = [known EXCEPT ![w] = at[w][e].last] /\ owner = w
          /\ UNCHANGED <<log, owner, life, alive>>
      BY <1>9 DEF EL!Replace, EL!Holds
    <2>2. disk'.last = at[w][e].last /\ known'[w] = at[w][e].last
      BY <1>1, <2>1
    <2>3. CASE at[w][e].stage = "replace"
      <3> DEFINE x == [stage |-> "append", last |-> at[w][e].last]
      <3>1. EL!Goes(w, e, "append")
        BY <1>9, <2>3 DEF EL!Replace
      <3>2. Moves(w, e, x) /\ x.stage = "append"
        BY <1>1, <3>1, MovesTo DEF EL!Stages
      <3>3. /\ at[w][e].last = Len(log) + 1
            /\ \A f \in EL!Emitters : f # e => at[w][f].stage \notin InEmit \cup {"clock"}
        BY <1>5, <2>3 DEF InEmit
      <3> HIDE DEF x
      <3> QED BY <1>3, <2>1, <2>2, <3>2, <3>3 DEF InPace, Near, Moves, InEmit
    <2>4. CASE at[w][e].stage = "clock"
      <3>1. Moves(w, e, EL!Idle)
        BY <1>1, <1>9, <2>4, MovesTo DEF EL!Replace
      <3>2. e = EL!Main /\ at[w][e] # EL!Idle
        BY <1>0, <1>1, <2>4 DEF Attended
      <3>3. \A f \in EL!Emitters : f # e => at[w][f] = EL!Idle
        BY <1>2, <3>2, OwnerWrites
      <3>4. Near(at[w][e].last)
        BY <1>1, <1>3, <2>1, <2>4
      <3>5. \A f \in EL!Emitters : at'[w][f] = EL!Idle
        BY <1>1, <3>1, <3>3 DEF Moves
      <3> QED BY <1>1, <1>3, <2>1, <2>2, <3>4, <3>5 DEF InPace, Near
    <2> QED BY <1>9, <2>3, <2>4 DEF EL!Replace
  <1>10. ASSUME NEW w \in EL!Writers, NEW e \in EL!Emitters, EL!AppendLine(w, e)
         PROVE  InPace'
    <2>1. /\ log' = Append(log, at[w][e].last) /\ at[w][e].stage = "append" /\ owner = w
          /\ UNCHANGED <<disk, owner, life, known, alive>>
      BY <1>10 DEF EL!AppendLine, EL!Holds
    <2>2. Moves(w, e, EL!Idle)
      BY <1>1, <1>10, MovesTo DEF EL!AppendLine
    <2>3. \A f \in EL!Emitters : f # e => at[w][f].stage \notin InEmit \cup {"clock"}
      BY <1>5, <2>1 DEF InEmit
    <2>4. disk.last = Len(log) + 1 /\ known[w] = Len(log) + 1
      BY <1>1, <1>3, <2>1
    <2>5. Len(log') = Len(log) + 1
      <3>1. at[w][e].last \in 0..MaxEvents /\ at[w][e].last = Len(log) + 1
        BY <1>1, <1>5, <2>1 DEF Places, InEmit
      <3>2. at[w][e].last \in 1..MaxEvents
        BY <1>1, <3>1
      <3> QED BY <1>1, <2>1, <3>2, AppendProperties
    <2> QED BY <1>1, <1>3, <2>1, <2>2, <2>3, <2>4, <2>5 DEF InPace, Near, Moves, InEmit
  <1>11. ASSUME NEW w \in EL!Writers, EL!SaveAlone(w)
         PROVE  InPace'
    <2> DEFINE x == [stage |-> "clock", last |-> known[w]]
    <2>1. /\ at' = [at EXCEPT ![w][EL!Main] = x] /\ owner = w
          /\ UNCHANGED <<log, disk, owner, life, known, alive>>
      BY <1>11 DEF EL!SaveAlone, EL!Holds
    <2>2. x \in Places /\ x.stage = "clock" /\ x.last = known[w]
      BY <1>1 DEF Places, EL!Stages
    <2>3. Moves(w, EL!Main, x)
      BY <1>1, <2>1, <2>2, MovesTo
    <2> HIDE DEF x
    <2> QED BY <1>1, <1>3, <2>1, <2>2, <2>3 DEF InPace, Near, Moves
  <1>13. ASSUME NEW w \in EL!Writers, EL!WaveTimesOut(w) \/ EL!Interrupt(w)
         PROVE  InPace'
    <2>1. PICK who \in SUBSET EL!Emitters :
             EL!CancelAll(w, who) /\ (life[w] = "wave" => alive[w] \subseteq who)
      BY <1>1, <1>13, CancelsSome
    <2>2. Stops(w, who) /\ alive' = [alive EXCEPT ![w] = @ \ who]
      BY <1>1, <2>1, StopsAll DEF EL!CancelAll
    <2>3. /\ UNCHANGED <<log, disk, known, owner>>
          /\ \E how \in {"up", "closing"} : life' = [life EXCEPT ![w] = how]
      BY <1>1, <1>13, CancelsSome
    <2>4. alive'[w] = {}
      BY <1>1, <1>3, <2>1, <2>2
    <2>5. \A v \in EL!Writers, e \in EL!Emitters :
             at'[v][e].stage \in {"append", "clock"} => at'[v][e] = at[v][e]
      BY <1>1, <2>2 DEF Stops
    <2>6. /\ \A v \in EL!Writers : v # w => life'[v] = life[v] /\ alive'[v] = alive[v]
          /\ life'[w] # "refused"
      BY <1>1, <2>2, <2>3
    <2> QED BY <1>6a, <2>3, <2>4, <2>5, <2>6
  <1>14. ASSUME NEW w \in EL!Writers,
                \/ EL!StartWave(w) \/ EL!WaveReturns(w) \/ EL!Finish(w) \/ EL!Release(w)
         PROVE  InPace'
    <2>1. /\ UNCHANGED <<log, disk, known, at>> /\ owner' \in {0, owner}
          /\ \/ life' = [life EXCEPT ![w] = "wave"] /\ alive' = [alive EXCEPT ![w] = Peers]
             \/ /\ \E how \in {"up", "closing", "over"} : life' = [life EXCEPT ![w] = how]
                /\ alive' = alive /\ (alive[w] = {} \/ life[w] = "up")
      BY <1>14 DEF EL!StartWave, EL!WaveReturns, EL!Finish, EL!Release, EL!Lives
    <2>2. alive'[w] # {} => life'[w] = "wave"
      BY <1>1, <1>3, <2>1
    <2> QED BY <1>1, <1>6a, <2>1, <2>2
  <1>15. ASSUME NEW w \in EL!Writers, NEW e \in Peers, EL!TaskDone(w, e)
         PROVE  InPace'
    <2>1. /\ UNCHANGED <<log, disk, known, at, owner, life>>
          /\ alive' = [alive EXCEPT ![w] = @ \ {e}]
      BY <1>15 DEF EL!TaskDone
    <2>2. alive'[w] # {} => life'[w] = "wave"
      BY <1>1, <1>3, <2>1
    <2> QED BY <1>1, <1>3, <1>6a, <2>1, <2>2
  <1>16. ASSUME NEW w \in EL!Writers, EL!Dies(w)
         PROVE  InPace'
    <2>1. /\ UNCHANGED <<log, disk, known>> /\ owner' \in {0, owner}
          /\ at' = [at EXCEPT ![w] = [e \in EL!Emitters |-> EL!Idle]]
          /\ alive' = [alive EXCEPT ![w] = {}] /\ life' = [life EXCEPT ![w] = "dead"]
      BY <1>16 DEF EL!Dies, EL!Lives, EL!Holds
    <2> QED BY <1>1, <1>6a, <2>1
  \* A writer that only opens the session finds it in order.
  <1>17. ASSUME NEW w \in EL!Writers, life[w] \in {"new", "claimed", "ahead"},
                UNCHANGED <<log, at, alive>>, owner' = w, Near(disk'.last), Near(known'[w]),
                NEW how \in Lives \ {"wave", "refused"}, life' = [life EXCEPT ![w] = how]
         PROVE  InPace'
    <2>1. alive[w] = {} /\ \A e \in EL!Emitters : at[w][e] = EL!Idle
      BY <1>0, <1>17 DEF Attended
    <2> QED BY <1>1, <1>3, <1>17, <2>1 DEF InPace, Near
  <1>18. ASSUME NEW w \in EL!Writers, EL!Claim(w)
         PROVE  InPace'
    <2>1. /\ life[w] = "new" /\ UNCHANGED <<log, at, alive>> /\ owner' = w
          /\ disk' = [disk EXCEPT !.token = w] /\ known' = [known EXCEPT ![w] = disk.last]
          /\ life' = [life EXCEPT ![w] = "claimed"]
      BY <1>18 DEF EL!Claim, EL!Lives
    <2>2. disk'.last = disk.last /\ known'[w] = disk.last
      BY <1>1, <2>1
    <2> QED BY <1>3, <1>17, <2>1, <2>2 DEF Lives
  <1>19. ASSUME NEW w \in EL!Writers, EL!Validate(w)
         PROVE  InPace'
    <2>1. /\ life[w] = "claimed" /\ UNCHANGED <<log, disk, at, alive>>
      BY <1>19 DEF EL!Validate
    <2>2. owner = w
      BY <1>2, <2>1, OwnerWrites DEF Working
    <2>3. Near(known[w]) /\ EL!Contiguous
      BY <1>0, <1>1, <1>2, <1>3, <2>2 DEF Ordered
    <2>4. /\ owner' = owner
          /\ known' = known \/ known' = [known EXCEPT ![w] = Len(log)]
          /\ \E how \in {"up", "ahead"} : life' = [life EXCEPT ![w] = how]
      BY <1>19, <2>3 DEF EL!Validate, EL!Opens, EL!Refused, EL!Lives, Near
    <2>5. Near(known'[w])
      BY <1>1, <2>3, <2>4 DEF Near
    <2> QED BY <1>3, <1>17, <2>1, <2>2, <2>4, <2>5 DEF Lives
  <1>20. ASSUME NEW w \in EL!Writers, EL!SetBack(w)
         PROVE  InPace'
    <2>1. /\ life[w] = "ahead" /\ UNCHANGED <<log, known, at, alive>>
      BY <1>20 DEF EL!SetBack
    <2>2. owner = w /\ disk.token = w
      BY <1>2, <2>1, OwnerWrites DEF Working
    <2>3. /\ disk' = [token |-> w, last |-> known[w]] /\ owner' = owner
          /\ life' = [life EXCEPT ![w] = "up"]
      BY <1>20, <2>2 DEF EL!SetBack, EL!Opens, EL!Lives
    <2>4. Near(disk'.last) /\ Near(known'[w])
      BY <1>1, <1>3, <2>1, <2>2, <2>3
    <2> QED BY <1>17, <2>1, <2>2, <2>3, <2>4 DEF Lives
  <1>21. CASE UNCHANGED <<log, disk, owner, life, known, at, alive>>
    BY <1>3, <1>21 DEF InPace, Near
  <1>22. ASSUME NEW s \in EL!Strays, EL!StrayLands(s)
         PROVE  UNCHANGED <<log, disk, owner, life, known, at, alive>>
    BY <1>22 DEF EL!StrayLands
  <1> QED BY <1>6, <1>7, <1>8, <1>9, <1>10, <1>11, <1>13, <1>14, <1>15, <1>16, <1>18, <1>19,
             <1>20, <1>21, <1>22 DEF EL!EventLogNext, EventLogVars

\* The files of a new session are in order.
LEMMA LogStart == EL!EventLogInit => LogInv
  <1> SUFFICES ASSUME EL!EventLogInit PROVE LogInv
    OBVIOUS
  <1>1. 1 \in EL!Writers /\ MaxEvents \in Nat /\ 1 \in 1..MaxEvents + 1 /\ 0 \in 0..MaxEvents
    BY Bounds DEF EL!Writers
  <1>2. LogTyped
    <2>1. /\ log \in Seq(1..MaxEvents)
          /\ disk \in [token : EL!Writers, last : 0..MaxEvents] /\ owner \in EL!Writers
      BY <1>1 DEF EL!EventLogInit
    <2>2. /\ life \in [EL!Writers -> Lives]
          /\ sequence \in [EL!Writers -> 1..MaxEvents + 1]
          /\ known \in [EL!Writers -> 0..MaxEvents]
      BY <1>1 DEF EL!EventLogInit, Lives
    <2>3. /\ emitting \in [EL!Writers -> EL!Emitters \cup {EL!Free}]
          /\ at \in [EL!Writers -> [EL!Emitters -> Places]]
          /\ alive \in [EL!Writers -> SUBSET Peers]
      BY <1>1, IdlePlace DEF EL!EventLogInit
    <2> QED BY <2>1, <2>2, <2>3 DEF EL!EventLogInit, LogTyped
  <1>3. Locked /\ Attended
    <2>1. \A w \in EL!Writers : alive[w] = {} /\ \A e \in EL!Emitters : at[w][e] = EL!Idle
      BY DEF EL!EventLogInit
    <2>2. strays = {} /\ EL!Main \in EL!Emitters
      BY DEF EL!EventLogInit, EL!Emitters
    <2> QED BY <2>1, <2>2, IdlePlace DEF Locked, Attended, InEmit
  <1>4. Leased
    BY <1>1 DEF EL!EventLogInit, Leased, Working
  <1>5. Ordered /\ InPace
    BY <1>1, IdlePlace DEF EL!EventLogInit, Ordered, InPace, Near, EL!Contiguous
  <1> QED BY <1>2, <1>3, <1>4, <1>5 DEF LogInv

\* The invariant of the event log is inductive.
LEMMA LogStep ==
    ASSUME LogInv, EL!EventLogNext \/ UNCHANGED EventLogVars
    PROVE  LogInv'
  BY LogTypedStep, LockedStep, AttendedStep, LeasedStep, OrderedStep, InPaceStep DEF LogInv

\* The invariant of the event log, of the part at work.
LEMMA LogInvariance == Spec => [](part = "eventlog" => LogInv)
  <1>1. Init => (part = "eventlog" => LogInv)
    BY LogStart DEF Init
  <1>2. (part = "eventlog" => LogInv) /\ [Next]_allVars => (part = "eventlog" => LogInv)'
    BY PartSteps, LogStep
  <1> QED BY <1>1, <1>2, PTL DEF Spec

(* The lock and the lease do their work: for as long as no write lands     *)
(* that no live run awaits, events are in the log in order and counted     *)
(* once, the owner's token stays on disk, and no writer is left with a     *)
(* lease it cannot give up; unless a run also went on beside tasks it no   *)
(* longer awaits, no recovery is refused (RunPersistence.emit).            *)
THEOREM StraysAlone == Spec => []OnlyStraysBreak
  <1>1. LogInv => EL!OnlyStraysBreak
    BY DEF LogInv, Leased, Ordered, InPace, Near, EL!OnlyStraysBreak
  <1>2. (part = "eventlog" => LogInv) => OnlyStraysBreak
    BY <1>1 DEF OnlyStraysBreak
  <1> QED BY <1>2, LogInvariance, PTL

-----------------------------------------------------------------------------
(* The Claude session                                                      *)

ToolTypes == {"tool_started", "approval_requested", "tool_completed"}
Signed(types) == [type : types, turn : 0..MaxAsked, id : 0..MaxUses]
SideFrames == Signed({"turn", "interrupt", "approval"})
HostFrames == Signed(ToolTypes \cup {"turn_accepted", "approval_accepted",
                                     "turn_completed", "fatal"})
EventFrames == Signed(ToolTypes \cup {"approval_resolved", "turn_completed"})

\* A frame about a tool names one.
ClaudeTyped ==
    /\ CS!ClaudeSessionTypeOK
    /\ toSide \in Seq(SideFrames) /\ toHost \in Seq(HostFrames)
    /\ events \in Seq(EventFrames)
    /\ \A i \in 1..Len(toHost) : toHost[i].type \in ToolTypes => toHost[i].id \in CS!Uses

\* Who is alive: a sidecar and its session end by themselves only over a
\* crossing, a death or a flood.
Alive ==
    /\ running => session = "ready"
    /\ ~running /\ session # "closed" => crossed \/ died \/ flooded
    /\ session = "ready" => host # "over"

Has(frames, type, u) == \E i \in 1..Len(frames) : frames[i].type = type /\ frames[i].id = u
Ends(frames, type) == Len(frames) > 0 /\ frames[Len(frames)].type = type

\* A crossed approval is acknowledged, and nobody can take the acknowledgement:
\* its request is closed, or will be by a frame ahead of it, and is not repeated.
DoomedBy(i) ==
    /\ toHost[i].type = "approval_accepted" /\ toHost[i].id \in CS!Uses
    /\ \/ toHost[i].id \notin open
       \/ \E j \in 1..(i - 1) : toHost[j].type = "turn_completed"
    /\ use[toHost[i].id].state \notin {"none", "started"}
    /\ ~Has(toHost, "approval_requested", toHost[i].id)
Doomed == \E i \in 1..Len(toHost) : DoomedBy(i)

\* One turn at a time: the host's and the sidecar's is the same, but for the
\* frame that begins it and the one that ends it.
SameTurn ==
    /\ active \in {0, turns} /\ side \in {0, active}
    /\ active = 0 => Len(toHost) = 0 /\ open = {}
    /\ host = "idle" => active = 0
    /\ host \in {"idle", "sending"} => Len(events) = 0
    /\ host = "sending" => active # 0 /\
          (Ends(toSide, "turn") \/ (Len(toHost) > 0 /\ toHost[1].type = "turn_accepted"))
    /\ active # 0 /\ side = 0 => Ends(toSide, "turn") \/ Ends(toHost, "turn_completed")

\* The frame that begins a turn is the last to the sidecar, which is idle.
Begun == \A i \in 1..Len(toSide) : toSide[i].type = "turn" =>
    /\ i = Len(toSide) /\ toSide[i].turn = active /\ active # 0
    /\ host = "sending" /\ side = 0 /\ Len(toHost) = 0 /\ open = {}

\* What the sidecar says is of the turn, whose end it says last.
Spoken == \A i \in 1..Len(toHost) :
    /\ toHost[i].type # "fatal"
    /\ toHost[i].type = "turn_accepted" => i = 1 /\ host = "sending"
    /\ toHost[i].type \in ToolTypes \cup {"turn_completed"} => toHost[i].turn = active
    /\ toHost[i].type = "turn_completed" => i = Len(toHost) /\ side = 0

\* So are the events, and their end is the last of them.
Related == \A i \in 1..Len(events) :
    /\ events[i].turn = turns /\ turns # 0
    /\ events[i].type = "turn_completed" => i = Len(events) /\ active = 0

\* An answer on its way to the sidecar is to the request that is awaited; so is
\* an acknowledgement on its way back, which will be taken; and who waits, waits
\* for one of the two.
Answered == \A i \in 1..Len(toSide) : toSide[i].type = "approval" =>
    /\ host = "answering" /\ toSide[i].id = awaited
    /\ toSide[i].turn = turns /\ turns # 0
    /\ toSide[i].id \in open \/ active = 0
    /\ \A j \in 1..Len(toSide) : toSide[j].type = "approval" => j = i
    /\ \A j \in 1..Len(toHost) : toHost[j].type # "approval_accepted"
Accepting == \A i \in 1..Len(toHost) : toHost[i].type = "approval_accepted" =>
    /\ host = "answering" /\ toHost[i].id = awaited /\ toHost[i].id \in open \ asks
    /\ use[toHost[i].id].state \in {"answered", "ended"}
    /\ \A j \in 1..Len(toHost) : toHost[j].type = "approval_accepted" => j = i
Waiting == host = "answering" =>
    \/ \E i \in 1..Len(toSide) : toSide[i].type = "approval"
    \/ \E i \in 1..Len(toHost) : toHost[i].type = "approval_accepted"

\* A request that is on its way, queued or being answered is one and the same,
\* and the sidecar still has it.
Sought(u) == u \in asks /\ use[u].state \in {"asked", "answered", "ended"}
Requested == \A i \in 1..Len(toHost) : toHost[i].type = "approval_requested" =>
    /\ Sought(toHost[i].id)
    /\ use[toHost[i].id].turn = side \/ side = 0
    /\ \A j \in 1..Len(toHost) :
           toHost[j].type = "approval_requested" /\ toHost[j].id = toHost[i].id => j = i
Queued == \A i \in 1..Len(events) : events[i].type = "approval_requested" =>
    /\ Sought(events[i].id) /\ ~Has(toHost, "approval_requested", events[i].id)
    /\ \A j \in 1..Len(events) :
           events[j].type = "approval_requested" /\ events[j].id = events[i].id => j = i
Replied == \A i \in 1..Len(toSide) : toSide[i].type = "approval" =>
    /\ Sought(toSide[i].id)
    /\ ~Has(toHost, "approval_requested", toSide[i].id)
    /\ ~Has(events, "approval_requested", toSide[i].id)

\* The frames of a tool come in order: it begins, asks, ends, once each.
Shown == \A i \in 1..Len(toHost) :
    toHost[i].type \in ToolTypes => use[toHost[i].id].state # "none"
Opening == \A i \in 1..Len(toHost) : toHost[i].type = "tool_started" =>
    /\ toHost[i].id \notin acting
    /\ \A j \in 1..Len(toHost) :
           toHost[j].type = "tool_started" /\ toHost[j].id = toHost[i].id => j = i
Following == \A i \in 1..Len(toHost) :
    toHost[i].type \in {"approval_requested", "tool_completed"} =>
        \/ toHost[i].id \in acting
        \/ \E j \in 1..(i - 1) : toHost[j].type = "tool_started" /\ toHost[j].id = toHost[i].id
Closing == \A i, j \in 1..Len(toHost) :
    toHost[i].type = "tool_completed" /\ i < j /\ toHost[j].type \in ToolTypes =>
        toHost[j].id # toHost[i].id

\* The sidecar is ahead of the host by the frames on their way: for the tools at
\* work, and for the requests that are open.
Owned == \A u \in CS!Uses : CS!InUse(u) => side # 0 /\ use[u].turn = side
Ahead == \A u \in CS!Uses :
    CS!InUse(u) <=> /\ u \in acting \/ Has(toHost, "tool_started", u)
                    /\ ~Has(toHost, "tool_completed", u)
Opened == \A u \in CS!Uses : u \in open =>
    \/ u \in asks /\ use[u].turn = side
    \/ side = 0 \/ Has(toHost, "approval_accepted", u)
Pending == \A u \in CS!Uses :
    u \in asks /\ use[u].turn = side /\ side # 0 =>
        u \in open \/ Has(toHost, "approval_requested", u)

\* A request the sidecar keeps is of a tool that asked, in this turn or before.
Dated == \A u \in CS!Uses : u \in asks =>
    /\ use[u].state \in {"asked", "answered", "ended"}
    /\ use[u].turn \in 1..turns
    /\ \A i \in 1..Len(toSide) : toSide[i].type = "turn" => use[u].turn < toSide[i].turn

Straight ==
    /\ SameTurn /\ Begun /\ Spoken /\ Related
    /\ Answered /\ Accepting /\ Waiting
    /\ Requested /\ Queued /\ Replied
    /\ Shown /\ Opening /\ Following /\ Closing
    /\ Owned /\ Ahead /\ Opened /\ Pending /\ Dated

ClaudeInv ==
    /\ ClaudeTyped /\ Alive
    /\ running /\ crossed => Doomed
    /\ running /\ ~crossed => Straight
-----------------------------------------------------------------------------

\* A frame taken from a pipe, and one put into it.
Took(old, new) ==
    /\ Len(old) \in Nat /\ Len(old) > 0 /\ Len(new) = Len(old) - 1
    /\ \A i \in 1..Len(new) : i + 1 \in 1..Len(old) /\ new[i] = old[i + 1]
    /\ \A i \in 1..Len(old) : i # 1 => i - 1 \in 1..Len(new) /\ new[i - 1] = old[i]
Put(old, new, frame) ==
    /\ Len(old) \in Nat /\ Len(new) = Len(old) + 1
    /\ \A i \in 1..Len(old) : new[i] = old[i]
    /\ new[Len(old) + 1] = frame

\* The tail of a sequence and its head.
LEMMA Taking ==
    ASSUME NEW F, NEW s \in Seq(F), s # <<>>
    PROVE  Tail(s) \in Seq(F) /\ Took(s, Tail(s)) /\ Head(s) = s[1] /\ s[1] \in F
  BY HeadTailProperties, LenProperties, EmptySeq DEF Took

\* A sequence and one more element.
LEMMA Putting ==
    ASSUME NEW F, NEW s \in Seq(F), NEW f \in F
    PROVE  /\ Append(s, f) \in Seq(F) /\ Put(s, Append(s, f), f)
           /\ s \o <<f>> \in Seq(F) /\ Put(s, s \o <<f>>, f)
  BY AppendProperties, AppendIsConcat, LenProperties DEF Put

\* What a pipe has after a frame was taken from it.
LEMMA HasTook ==
    ASSUME NEW old, NEW new, Took(old, new)
    PROVE  \A type, u : Has(old, type, u) <=>
               \/ old[1].type = type /\ old[1].id = u
               \/ Has(new, type, u)
  BY DEF Took, Has

\* What a pipe has after a frame was put into it.
LEMMA HasPut ==
    ASSUME NEW old, NEW new, NEW frame, Put(old, new, frame)
    PROVE  \A type, u : Has(new, type, u) <=>
               \/ Has(old, type, u)
               \/ frame.type = type /\ frame.id = u
  BY DEF Put, Has

-----------------------------------------------------------------------------

\* What each step does, frame by frame.
SendsTurn ==
    /\ host = "idle" /\ active = 0 /\ turns < MaxAsked
    /\ turns' = turns + 1 /\ active' = turns + 1 /\ host' = "sending"
    /\ heeded' \in BOOLEAN
    /\ toSide' \in Seq(SideFrames)
    /\ Put(toSide, toSide', CS!Frame("turn", turns + 1, 0))
    /\ UNCHANGED <<session, open, awaited, acting, events, toHost, side, use, asks,
                   running, crossed, died, flooded>>

Interrupts ==
    /\ host = "reading" /\ heeded' \in BOOLEAN
    /\ toSide' \in Seq(SideFrames)
    /\ Put(toSide, toSide', CS!Frame("interrupt", turns, 0))
    /\ UNCHANGED <<host, turns, session, active, open, awaited, acting, events, toHost,
                   side, use, asks, running, crossed, died, flooded>>

TakesEvent ==
    /\ host = "reading"
    /\ events' \in Seq(EventFrames) /\ Took(events, events')
    /\ \/ /\ events[1].type = "turn_completed"
          /\ host' = "idle" /\ awaited' = awaited /\ toSide' = toSide
       \/ /\ events[1].type = "approval_requested" /\ events[1].id \in open
          /\ host' = "answering" /\ awaited' = events[1].id
          /\ toSide' \in Seq(SideFrames)
          /\ Put(toSide, toSide', CS!Frame("approval", events[1].turn, events[1].id))
       \/ /\ events[1].type \notin {"turn_completed", "approval_requested"}
          /\ host' = host /\ awaited' = awaited /\ toSide' = toSide
    /\ UNCHANGED <<turns, heeded, session, active, open, acting, toHost, side, use, asks,
                   running, crossed, died, flooded>>

GivesUp ==
    /\ running' = FALSE
    /\ \/ /\ host' = "over" /\ session' = "closed"
          /\ flooded' = flooded
       \/ /\ host' = host /\ session = "ready" /\ session' = "failed"
          /\ \/ CS!Unexpected /\ flooded' = flooded
             \/ flooded' = TRUE
    /\ UNCHANGED <<turns, heeded, active, open, awaited, acting, events, toSide, toHost,
                   side, use, asks, crossed, died>>

Reads ==
    /\ toHost' \in Seq(HostFrames) /\ Took(toHost, toHost')
    /\ UNCHANGED <<turns, heeded, session, toSide, side, use, asks, running, crossed, died, flooded>>

ReadsAccepted ==
    /\ Reads /\ toHost[1].type = "turn_accepted"
    /\ host = "sending" /\ host' = "reading"
    /\ UNCHANGED <<active, open, awaited, acting, events>>

ReadsApproved ==
    /\ Reads /\ toHost[1].type = "approval_accepted"
    /\ awaited = toHost[1].id /\ toHost[1].id \in open
    /\ host' = "reading" /\ awaited' = 0 /\ open' = open \ {toHost[1].id}
    /\ events' \in Seq(EventFrames)
    /\ Put(events, events', CS!Frame("approval_resolved", active, toHost[1].id))
    /\ UNCHANGED <<active, acting>>

ReadsTool ==
    /\ Reads /\ toHost[1].turn = active /\ toHost[1].id \in CS!Uses
    /\ events' \in Seq(EventFrames) /\ Put(events, events', toHost[1])
    /\ \/ /\ toHost[1].type = "tool_started" /\ toHost[1].id \notin acting
          /\ acting' = acting \cup {toHost[1].id} /\ open' = open
       \/ /\ toHost[1].type = "approval_requested" /\ toHost[1].id \in acting
          /\ open' = open \cup {toHost[1].id} /\ acting' = acting
       \/ /\ toHost[1].type = "tool_completed" /\ toHost[1].id \in acting
          /\ acting' = acting \ {toHost[1].id} /\ open' = open
    /\ UNCHANGED <<host, active, awaited>>

ReadsEnd ==
    /\ Reads /\ toHost[1].type = "turn_completed" /\ toHost[1].turn = active
    /\ acting = {} /\ active' = 0 /\ open' = {}
    /\ events' \in Seq(EventFrames) /\ Put(events, events', toHost[1])
    /\ UNCHANGED <<host, awaited, acting>>

Hears ==
    /\ running /\ toSide' \in Seq(SideFrames) /\ Took(toSide, toSide')
    /\ UNCHANGED <<host, turns, heeded, session, active, open, awaited, acting, events, died,
                   flooded>>

Speaks(frame) == toHost' \in Seq(HostFrames) /\ Put(toHost, toHost', frame)

HearsTurn ==
    /\ Hears /\ toSide[1].type = "turn" /\ side = 0 /\ side' = toSide[1].turn
    /\ Speaks(CS!Frame("turn_accepted", side', 0))
    /\ UNCHANGED <<use, asks, running, crossed>>

HearsAnswer ==
    /\ Hears /\ toSide[1].type = "approval" /\ toSide[1].id \in asks
    /\ asks' = asks \ {toSide[1].id}
    /\ Speaks(CS!Frame("approval_accepted", toSide[1].turn, toSide[1].id))
    /\ crossed' = (crossed \/ toSide[1].turn # side)
    /\ use' = IF use[toSide[1].id].state = "asked"
              THEN [use EXCEPT ![toSide[1].id].state = "answered"] ELSE use
    /\ UNCHANGED <<side, running>>

HearsInterrupt ==
    /\ Hears /\ toSide[1].type = "interrupt"
    /\ UNCHANGED <<toHost, side, use, asks, running, crossed>>

Rejects ==
    /\ Hears /\ running' = FALSE
    /\ \/ toSide[1].type = "turn" /\ side # 0
       \/ toSide[1].type = "interrupt" /\ toSide[1].turn # side
       \/ toSide[1].type = "approval" /\ toSide[1].id \notin asks
    /\ crossed' = (crossed \/ toSide[1].turn # side)
    /\ Speaks(CS!Frame("fatal", side, 0))
    /\ UNCHANGED <<side, use, asks>>

Works ==
    /\ running
    /\ UNCHANGED <<host, turns, heeded, session, active, open, awaited, acting, events,
                   toSide, crossed, flooded>>

UsesTool(u) ==
    /\ Works /\ side # 0 /\ use[u].state = "none"
    /\ use' = [use EXCEPT ![u] = [state |-> "started", turn |-> side]]
    /\ Speaks(CS!Frame("tool_started", side, u))
    /\ UNCHANGED <<side, asks, running, died>>

AsksHost(u) ==
    /\ Works /\ use[u].state = "started" /\ use[u].turn = side
    /\ use' = [use EXCEPT ![u].state = "asked"] /\ asks' = asks \cup {u}
    /\ Speaks(CS!Frame("approval_requested", side, u))
    /\ UNCHANGED <<side, running, died>>

EndsTool(u) ==
    /\ Works /\ use[u].state \in {"started", "asked", "answered"}
    /\ use' = [use EXCEPT ![u].state = "ended"]
    /\ Speaks(CS!Frame("tool_completed", use[u].turn, u))
    /\ UNCHANGED <<side, asks, running, died>>

\* The frames a result adds: the end of every tool in use, once, and of the turn.
Results ==
    /\ Works /\ side # 0 /\ side' = 0
    /\ use' = [u \in CS!Uses |-> IF CS!InUse(u) THEN [use[u] EXCEPT !.state = "ended"]
                                               ELSE use[u]]
    /\ toHost' \in Seq(HostFrames)
    /\ Len(toHost) \in Nat /\ Len(toHost) < Len(toHost')
    /\ \A i \in 1..Len(toHost) : toHost'[i] = toHost[i]
    /\ \A i \in (Len(toHost) + 1)..(Len(toHost') - 1) :
           /\ toHost'[i].type = "tool_completed" /\ toHost'[i].turn = side
           /\ toHost'[i].id \in CS!Uses /\ CS!InUse(toHost'[i].id)
           /\ \A j \in (i + 1)..(Len(toHost') - 1) : toHost'[j].id # toHost'[i].id
    /\ \A u \in CS!Uses : CS!InUse(u) =>
           \E i \in (Len(toHost) + 1)..(Len(toHost') - 1) : toHost'[i].id = u
    /\ toHost'[Len(toHost')] = CS!Frame("turn_completed", side, 0)
    /\ UNCHANGED <<asks, running, died>>

Dies ==
    /\ Works /\ running' = FALSE /\ died' = TRUE
    /\ Speaks(CS!Frame("fatal", side, 0)) \/ toHost' = toHost
    /\ UNCHANGED <<side, use, asks>>

ClaudeStep ==
    \/ SendsTurn \/ Interrupts \/ TakesEvent \/ GivesUp
    \/ ReadsAccepted \/ ReadsApproved \/ ReadsTool \/ ReadsEnd
    \/ HearsTurn \/ HearsAnswer \/ HearsInterrupt \/ Rejects
    \/ (\E u \in CS!Uses : UsesTool(u) \/ AsksHost(u) \/ EndsTool(u))
    \/ Results \/ Dies

\* The types, as facts to cite.
LEMMA ClaudeTypes ==
    ASSUME ClaudeTyped
    PROVE  /\ toSide \in Seq(SideFrames) /\ toHost \in Seq(HostFrames)
           /\ events \in Seq(EventFrames)
           /\ turns \in Nat /\ turns <= MaxAsked /\ side \in 0..MaxAsked /\ active \in 0..MaxAsked
           /\ MaxAsked \in Nat /\ MaxUses \in Nat
           /\ use \in [CS!Uses -> [state : CS!States, turn : 0..MaxAsked]]
           /\ \A u \in CS!Uses : u \in 1..MaxUses /\ u \in Nat /\ u # 0 /\ u \in 0..MaxUses
           /\ Len(toHost) \in Nat /\ Len(toSide) \in Nat /\ Len(events) \in Nat
           /\ \A i \in 1..Len(toHost) : toHost[i] \in HostFrames
           /\ \A i \in 1..Len(toSide) : toSide[i] \in SideFrames
           /\ \A i \in 1..Len(events) : events[i] \in EventFrames
  <1>1. /\ toSide \in Seq(SideFrames) /\ toHost \in Seq(HostFrames)
        /\ events \in Seq(EventFrames)
    BY DEF ClaudeTyped
  <1>2. /\ turns \in Nat /\ turns <= MaxAsked /\ side \in 0..MaxAsked /\ active \in 0..MaxAsked
        /\ use \in [CS!Uses -> [state : CS!States, turn : 0..MaxAsked]]
        /\ \A u \in CS!Uses : u \in 1..MaxUses /\ u \in Nat /\ u # 0 /\ u \in 0..MaxUses
    BY Bounds DEF ClaudeTyped, CS!ClaudeSessionTypeOK, CS!Uses
  <1> QED BY <1>1, <1>2, Bounds, LenProperties, ElementOfSeq

\* The controller's turn: what its actions do to the frames.
LEMMA ControllerSteps ==
    ASSUME ClaudeTyped
    PROVE  /\ CS!SendTurn => SendsTurn
           /\ CS!Interrupt => Interrupts
           /\ CS!TakeEvent => TakesEvent
           /\ CS!Close \/ CS!Fail \/ CS!Flood => GivesUp
  <1> USE DEF CS!sidecar
  <1>1. ASSUME CS!SendTurn
        PROVE  SendsTurn
    <2>1. CS!Frame("turn", turns + 1, 0) \in SideFrames
      BY <1>1, ClaudeTypes DEF CS!SendTurn, CS!Frame, SideFrames, Signed
    <2>2. toSide' = Append(toSide, CS!Frame("turn", turns + 1, 0))
      BY <1>1 DEF CS!SendTurn, CS!Writes
    <2>3. toSide' \in Seq(SideFrames) /\ Put(toSide, toSide', CS!Frame("turn", turns + 1, 0))
      BY <2>1, <2>2, ClaudeTypes, Putting
    <2> QED BY <1>1, <2>3 DEF CS!SendTurn, SendsTurn
  <1>2. ASSUME CS!Interrupt
        PROVE  Interrupts
    <2>1. CS!Frame("interrupt", turns, 0) \in SideFrames
      BY ClaudeTypes DEF CS!Frame, SideFrames, Signed
    <2>2. toSide' = Append(toSide, CS!Frame("interrupt", turns, 0))
      BY <1>2 DEF CS!Interrupt, CS!Writes
    <2>3. toSide' \in Seq(SideFrames) /\ Put(toSide, toSide', CS!Frame("interrupt", turns, 0))
      BY <2>1, <2>2, ClaudeTypes, Putting
    <2> QED BY <1>2, <2>3 DEF CS!Interrupt, Interrupts
  <1>3. ASSUME CS!TakeEvent
        PROVE  TakesEvent
    <2>1. /\ Tail(events) \in Seq(EventFrames) /\ Took(events, Tail(events))
          /\ Head(events) = events[1] /\ events[1] \in EventFrames
      BY <1>3, ClaudeTypes, Taking DEF CS!TakeEvent
    <2>2. CS!Frame("approval", events[1].turn, events[1].id) \in SideFrames
      BY <2>1, ClaudeTypes DEF CS!Frame, SideFrames, EventFrames, Signed
    <2>3. toSide' = Append(toSide, CS!Frame("approval", events[1].turn, events[1].id)) =>
              /\ toSide' \in Seq(SideFrames)
              /\ Put(toSide, toSide', CS!Frame("approval", events[1].turn, events[1].id))
      <3> DEFINE reply == CS!Frame("approval", events[1].turn, events[1].id)
      <3>1. /\ Append(toSide, reply) \in Seq(SideFrames)
            /\ Put(toSide, Append(toSide, reply), reply)
        BY <2>2, ClaudeTypes, Putting
      <3> QED BY <3>1
    <2> QED BY <1>3, <2>1, <2>3 DEF CS!TakeEvent, CS!Writes, TakesEvent
  <1>4. ASSUME CS!Close \/ CS!Fail \/ CS!Flood
        PROVE  GivesUp
    BY <1>4 DEF CS!Close, CS!Fail, CS!Flood, GivesUp
  <1> QED BY <1>1, <1>2, <1>3, <1>4

\* A frame the reader task takes.
LEMMA Receiving ==
    ASSUME ClaudeTyped, NEW type, CS!Receives(type)
    PROVE  /\ toHost' \in Seq(HostFrames) /\ Took(toHost, toHost')
           /\ Head(toHost) = toHost[1] /\ toHost[1] \in HostFrames /\ toHost[1].type = type
           /\ type \in ToolTypes => toHost[1].id \in CS!Uses
  <1>1. /\ toHost' \in Seq(HostFrames) /\ Took(toHost, toHost')
        /\ Head(toHost) = toHost[1] /\ toHost[1] \in HostFrames
    BY ClaudeTypes, Taking DEF CS!Receives
  <1> QED BY <1>1, ClaudeTypes DEF CS!Receives, ClaudeTyped, Took

\* What the reader task's actions do.
LEMMA ReaderSteps ==
    ASSUME ClaudeTyped
    PROVE  /\ CS!ReadAccepted => ReadsAccepted
           /\ CS!ReadApproved => ReadsApproved
           /\ CS!ReadTool => ReadsTool
           /\ CS!ReadEnded => ReadsEnd
  <1> USE DEF CS!sidecar, Reads
  <1>1. ASSUME CS!ReadAccepted
        PROVE  ReadsAccepted
    <2>1. CS!Receives("turn_accepted")
      BY <1>1 DEF CS!ReadAccepted
    <2> QED BY <1>1, <2>1, Receiving DEF CS!ReadAccepted, ReadsAccepted
  <1>2. ASSUME CS!ReadApproved
        PROVE  ReadsApproved
    <2>1. CS!Receives("approval_accepted")
      BY <1>2 DEF CS!ReadApproved
    <2>2. Head(toHost) = toHost[1] /\ toHost[1] \in HostFrames
      BY <2>1, Receiving
    <2>3. CS!Frame("approval_resolved", active, toHost[1].id) \in EventFrames
      BY <2>2, ClaudeTypes DEF CS!Frame, HostFrames, EventFrames, Signed
    <2>4. events' = Append(events, CS!Frame("approval_resolved", active, toHost[1].id))
      BY <1>2, <2>2 DEF CS!ReadApproved, CS!Queue
    <2>5. /\ events' \in Seq(EventFrames)
          /\ Put(events, events', CS!Frame("approval_resolved", active, toHost[1].id))
      BY <2>3, <2>4, ClaudeTypes, Putting
    <2> QED BY <1>2, <2>1, <2>2, <2>5, Receiving DEF CS!ReadApproved, CS!Acknowledged, ReadsApproved
  <1>3. ASSUME CS!ReadTool
        PROVE  ReadsTool
    <2>1. PICK type \in ToolTypes : CS!Receives(type)
      BY <1>3 DEF CS!ReadTool, ToolTypes
    <2>2. /\ Head(toHost) = toHost[1] /\ toHost[1] \in HostFrames
          /\ toHost[1].type \in ToolTypes /\ toHost[1].id \in CS!Uses
      BY <2>1, Receiving
    <2>3. toHost[1] \in EventFrames
      BY <2>2 DEF HostFrames, EventFrames, Signed
    <2>4. events' \in Seq(EventFrames) /\ Put(events, events', toHost[1])
      BY <1>3, <2>2, <2>3, ClaudeTypes, Putting DEF CS!ReadTool, CS!Queue
    <2>5. toHost' \in Seq(HostFrames) /\ Took(toHost, toHost')
      BY <2>1, Receiving
    <2> QED BY <1>3, <2>2, <2>4, <2>5 DEF CS!ReadTool, ReadsTool
  <1>4. ASSUME CS!ReadEnded
        PROVE  ReadsEnd
    <2>1. CS!Receives("turn_completed")
      BY <1>4 DEF CS!ReadEnded
    <2>2. Head(toHost) = toHost[1] /\ toHost[1] \in HostFrames /\ toHost[1].type = "turn_completed"
      BY <2>1, Receiving
    <2>3. toHost[1] \in EventFrames
      BY <2>2 DEF HostFrames, EventFrames, Signed
    <2>4. events' \in Seq(EventFrames) /\ Put(events, events', toHost[1])
      BY <1>4, <2>2, <2>3, ClaudeTypes, Putting DEF CS!ReadEnded, CS!Queue
    <2> QED BY <1>4, <2>1, <2>2, <2>4, Receiving DEF CS!ReadEnded, ReadsEnd
  <1> QED BY <1>1, <1>2, <1>3, <1>4

\* A frame the sidecar takes.
LEMMA Hearing ==
    ASSUME ClaudeTyped, toSide # <<>>, toSide' = Tail(toSide)
    PROVE  /\ toSide' \in Seq(SideFrames) /\ Took(toSide, toSide')
           /\ Head(toSide) = toSide[1] /\ toSide[1] \in SideFrames
  BY ClaudeTypes, Taking

\* A frame the sidecar says.
LEMMA Speaking ==
    ASSUME ClaudeTyped, NEW frame \in HostFrames, CS!Says(<<frame>>)
    PROVE  Speaks(frame)
  BY ClaudeTypes, Putting DEF CS!Says, Speaks

\* What the sidecar's reader does.
LEMMA SidecarSteps ==
    ASSUME ClaudeTyped
    PROVE  /\ CS!HearTurn => HearsTurn
           /\ CS!HearAnswer => HearsAnswer
           /\ CS!HearInterrupt => HearsInterrupt
           /\ CS!HearsBadly => Rejects
           /\ CS!SideDies => Dies
  <1> USE DEF CS!controller, Hears, Works
  <1>0. ASSUME NEW turn \in 0..MaxAsked, NEW id \in 0..MaxUses,
               NEW type \in {"turn_accepted", "approval_accepted", "fatal"}
        PROVE  CS!Frame(type, turn, id) \in HostFrames
    BY DEF CS!Frame, HostFrames, Signed
  <1>1. ASSUME CS!HearTurn
        PROVE  HearsTurn
    <2>1. toSide # <<>> /\ toSide' = Tail(toSide)
      BY <1>1 DEF CS!HearTurn, CS!Hears
    <2>2. side' \in 0..MaxAsked
      BY <1>1, <2>1, Hearing DEF CS!HearTurn, SideFrames, Signed
    <2>3. CS!Frame("turn_accepted", side', 0) \in HostFrames
      BY <1>0, <2>2, ClaudeTypes
    <2>4. Speaks(CS!Frame("turn_accepted", side', 0))
      BY <1>1, <2>3, Speaking DEF CS!HearTurn
    <2> QED BY <1>1, <2>1, <2>4, Hearing DEF CS!HearTurn, CS!Hears, HearsTurn
  <1>2. ASSUME CS!HearAnswer
        PROVE  HearsAnswer
    <2>1. toSide # <<>> /\ toSide' = Tail(toSide)
      BY <1>2 DEF CS!HearAnswer, CS!Hears
    <2>2. Head(toSide) = toSide[1] /\ toSide[1].turn \in 0..MaxAsked /\ toSide[1].id \in 0..MaxUses
      BY <2>1, Hearing DEF SideFrames, Signed
    <2>3. CS!Frame("approval_accepted", toSide[1].turn, toSide[1].id) \in HostFrames
      BY <1>0, <2>2
    <2>4. Speaks(CS!Frame("approval_accepted", toSide[1].turn, toSide[1].id))
      BY <1>2, <2>2, <2>3, Speaking DEF CS!HearAnswer
    <2> QED BY <1>2, <2>1, <2>2, <2>4, Hearing DEF CS!HearAnswer, CS!Hears, HearsAnswer
  <1>3. ASSUME CS!HearInterrupt
        PROVE  HearsInterrupt
    <2>1. toSide # <<>> /\ toSide' = Tail(toSide)
      BY <1>3 DEF CS!HearInterrupt, CS!Hears
    <2> QED BY <1>3, <2>1, Hearing DEF CS!HearInterrupt, CS!Hears, HearsInterrupt
  <1>4. CS!Frame("fatal", side, 0) \in HostFrames
    BY <1>0, ClaudeTypes
  <1>5. ASSUME CS!HearsBadly
        PROVE  Rejects
    <2>1. toSide # <<>> /\ toSide' = Tail(toSide) /\ running
      BY <1>5 DEF CS!HearsBadly
    <2>2. Head(toSide) = toSide[1] /\ toSide[1].type \in {"turn", "interrupt", "approval"}
      BY <2>1, Hearing DEF SideFrames, Signed
    <2>3. Speaks(CS!Frame("fatal", side, 0))
      BY <1>4, <1>5, Speaking DEF CS!HearsBadly
    <2>4. \/ toSide[1].type = "turn" /\ side # 0
          \/ toSide[1].type = "interrupt" /\ toSide[1].turn # side
          \/ toSide[1].type = "approval" /\ toSide[1].id \notin asks
      BY <1>5, <2>2 DEF CS!HearsBadly
    <2>5. crossed' = (crossed \/ toSide[1].turn # side) /\ ~running'
      BY <1>5, <2>2 DEF CS!HearsBadly
    <2> QED BY <1>5, <2>1, <2>3, <2>4, <2>5, Hearing DEF CS!HearsBadly, Rejects
  <1>6. ASSUME CS!SideDies
        PROVE  Dies
    BY <1>4, <1>6, Speaking DEF CS!SideDies, Dies
  <1> QED BY <1>1, <1>2, <1>3, <1>5, <1>6

\* What the SDK's callbacks do for one tool.
LEMMA ToolSteps ==
    ASSUME ClaudeTyped, NEW u \in CS!Uses
    PROVE  /\ CS!UseTool(u) => UsesTool(u)
           /\ CS!AskHost(u) => AsksHost(u)
           /\ CS!ToolResult(u) => EndsTool(u)
  <1> USE DEF CS!controller, Works, CS!Becomes
  <1>0. \A type \in ToolTypes : CS!Frame(type, side, u) \in HostFrames
    BY ClaudeTypes DEF CS!Frame, HostFrames, Signed
  <1>1. ASSUME CS!UseTool(u)
        PROVE  UsesTool(u)
    <2>1. Speaks(CS!Frame("tool_started", side, u))
      BY <1>0, <1>1, Speaking DEF CS!UseTool, ToolTypes
    <2> QED BY <1>1, <2>1 DEF CS!UseTool, UsesTool
  <1>2. ASSUME CS!AskHost(u)
        PROVE  AsksHost(u)
    <2>1. Speaks(CS!Frame("approval_requested", side, u))
      BY <1>0, <1>2, Speaking DEF CS!AskHost, ToolTypes
    <2> QED BY <1>2, <2>1 DEF CS!AskHost, AsksHost
  <1>3. ASSUME CS!ToolResult(u)
        PROVE  EndsTool(u)
    <2>1. CS!Frame("tool_completed", use[u].turn, u) \in HostFrames
      BY ClaudeTypes DEF CS!Frame, HostFrames, Signed, ToolTypes
    <2>2. Speaks(CS!Frame("tool_completed", use[u].turn, u))
      BY <1>3, <2>1, Speaking DEF CS!ToolResult
    <2> QED BY <1>3, <2>2 DEF CS!ToolResult, CS!InUse, EndsTool
  <1> QED BY <1>1, <1>2, <1>3

\* What the result message does: an end for every tool in use, in their order.
LEMMA ResultSteps ==
    ASSUME ClaudeTyped, CS!Result
    PROVE  Results
  <1>1. PICK n \in 0..MaxUses : \E order \in [1..n -> CS!Uses] :
            /\ CS!LeftOpen(order)
            /\ CS!Says([i \in 1..n |-> CS!Frame("tool_completed", side, order[i])]
                       \o <<CS!Frame("turn_completed", side, 0)>>)
    BY DEF CS!Result
  <1>2. PICK order \in [1..n -> CS!Uses] :
            /\ CS!LeftOpen(order)
            /\ CS!Says([i \in 1..n |-> CS!Frame("tool_completed", side, order[i])]
                       \o <<CS!Frame("turn_completed", side, 0)>>)
    BY <1>1
  <1> DEFINE ends == [i \in 1..n |-> CS!Frame("tool_completed", side, order[i])]
             end == CS!Frame("turn_completed", side, 0)
  <1>3. n \in Nat /\ \A i \in 1..n : order[i] \in CS!Uses /\ order[i] \in Nat
    BY <1>2, ClaudeTypes
  <1>4. end \in HostFrames /\ \A i \in 1..n : ends[i] \in HostFrames
    <2>1. \A id \in 0..MaxUses : CS!Frame("tool_completed", side, id) \in HostFrames
      BY ClaudeTypes DEF CS!Frame, HostFrames, Signed, ToolTypes
    <2>2. end \in HostFrames
      BY ClaudeTypes DEF CS!Frame, HostFrames, Signed
    <2> QED BY <1>3, <2>1, <2>2, ClaudeTypes
  <1>5. ends \in Seq(HostFrames) /\ Len(ends) = n
    BY <1>3, <1>4
  <1>6. /\ ends \o <<end>> \in Seq(HostFrames) /\ Len(ends \o <<end>>) = n + 1
        /\ \A i \in 1..n : (ends \o <<end>>)[i] = ends[i]
        /\ (ends \o <<end>>)[n + 1] = end
    <2> HIDE DEF ends, end
    <2> QED BY <1>3, <1>4, <1>5, Putting DEF Put
  <1>7. toHost' = toHost \o (ends \o <<end>>)
    BY <1>2 DEF CS!Says
  <1>8. /\ toHost' \in Seq(HostFrames) /\ Len(toHost') = Len(toHost) + n + 1
        /\ \A i \in 1..Len(toHost) : toHost'[i] = toHost[i]
        /\ \A i \in 1..n : toHost'[Len(toHost) + i] = ends[i]
        /\ toHost'[Len(toHost) + n + 1] = end
    <2> DEFINE more == ends \o <<end>>
    <2>1. /\ more \in Seq(HostFrames) /\ Len(more) = n + 1 /\ toHost' = toHost \o more
          /\ \A i \in 1..n : more[i] = ends[i]
          /\ more[n + 1] = end
      BY <1>6, <1>7
    <2> HIDE DEF more, ends, end
    <2>2. /\ toHost \o more \in Seq(HostFrames)
          /\ Len(toHost \o more) = Len(toHost) + (n + 1)
          /\ \A i \in 1..Len(toHost) + (n + 1) : (toHost \o more)[i] =
                IF i <= Len(toHost) THEN toHost[i] ELSE more[i - Len(toHost)]
      BY <2>1, ClaudeTypes, ConcatProperties
    <2>3. \A i \in 1..(n + 1) : /\ Len(toHost) + i \in 1..Len(toHost) + (n + 1)
                                /\ ~(Len(toHost) + i <= Len(toHost))
                                /\ (Len(toHost) + i) - Len(toHost) = i
      BY <1>3, ClaudeTypes
    <2>4. \A i \in 1..(n + 1) : toHost'[Len(toHost) + i] = more[i]
      BY <2>1, <2>2, <2>3
    <2>5. \A i \in 1..Len(toHost) : toHost'[i] = toHost[i]
      BY <1>3, <2>1, <2>2, ClaudeTypes
    <2> QED BY <1>3, <2>1, <2>2, <2>4, <2>5, ClaudeTypes
  <1>9. \A i \in (Len(toHost) + 1)..(Len(toHost') - 1) :
            /\ i - Len(toHost) \in 1..n
            /\ toHost'[i] = CS!Frame("tool_completed", side, order[i - Len(toHost)])
    <2> SUFFICES ASSUME NEW i \in (Len(toHost) + 1)..(Len(toHost') - 1)
                 PROVE  /\ i - Len(toHost) \in 1..n
                        /\ toHost'[i] = CS!Frame("tool_completed", side, order[i - Len(toHost)])
      OBVIOUS
    <2>1. i - Len(toHost) \in 1..n /\ Len(toHost) + (i - Len(toHost)) = i
      BY <1>3, <1>8, ClaudeTypes
    <2> QED BY <1>8, <2>1
  <1>10. /\ \A i, j \in 1..n : i < j => order[i] < order[j]
         /\ \A u \in CS!Uses : CS!InUse(u) <=> \E i \in 1..n : order[i] = u
    <2>1. DOMAIN order = 1..n /\ {order[i] : i \in 1..n} = {u \in CS!Uses : CS!InUse(u)}
      BY <1>2 DEF CS!LeftOpen
    <2> QED BY <1>2, <2>1 DEF CS!LeftOpen
  <1>11. \A i \in (Len(toHost) + 1)..(Len(toHost') - 1) :
            /\ toHost'[i].type = "tool_completed" /\ toHost'[i].turn = side
            /\ toHost'[i].id = order[i - Len(toHost)]
            /\ toHost'[i].id \in CS!Uses /\ CS!InUse(toHost'[i].id)
    <2> SUFFICES ASSUME NEW i \in (Len(toHost) + 1)..(Len(toHost') - 1)
                 PROVE  /\ toHost'[i].type = "tool_completed" /\ toHost'[i].turn = side
                        /\ toHost'[i].id = order[i - Len(toHost)]
                        /\ toHost'[i].id \in CS!Uses /\ CS!InUse(toHost'[i].id)
      OBVIOUS
    <2>1. /\ i - Len(toHost) \in 1..n
          /\ toHost'[i] = CS!Frame("tool_completed", side, order[i - Len(toHost)])
      BY <1>9
    <2>2. toHost'[i].id = order[i - Len(toHost)]
      BY <2>1 DEF CS!Frame
    <2> QED BY <1>3, <1>10, <2>1, <2>2 DEF CS!Frame
  <1>12. \A i, j \in (Len(toHost) + 1)..(Len(toHost') - 1) : i < j =>
             toHost'[j].id # toHost'[i].id
    <2> SUFFICES ASSUME NEW i \in (Len(toHost) + 1)..(Len(toHost') - 1),
                        NEW j \in (Len(toHost) + 1)..(Len(toHost') - 1), i < j
                 PROVE  toHost'[j].id # toHost'[i].id
      OBVIOUS
    <2>1. i - Len(toHost) \in 1..n /\ j - Len(toHost) \in 1..n /\ i - Len(toHost) < j - Len(toHost)
      BY <1>9, ClaudeTypes
    <2>2. order[i - Len(toHost)] < order[j - Len(toHost)]
      BY <1>10, <2>1
    <2> QED BY <1>3, <1>11, <2>1, <2>2
  <1>13. \A u \in CS!Uses : CS!InUse(u) =>
             \E i \in (Len(toHost) + 1)..(Len(toHost') - 1) : toHost'[i].id = u
    <2> SUFFICES ASSUME NEW u \in CS!Uses, CS!InUse(u)
                 PROVE  \E i \in (Len(toHost) + 1)..(Len(toHost') - 1) : toHost'[i].id = u
      OBVIOUS
    <2>1. PICK k \in 1..n : order[k] = u
      BY <1>10
    <2>2. /\ Len(toHost) + k \in (Len(toHost) + 1)..(Len(toHost') - 1)
          /\ (Len(toHost) + k) - Len(toHost) = k
      BY <1>3, <1>8, ClaudeTypes
    <2> QED BY <1>11, <2>1, <2>2
  <1>14. toHost'[Len(toHost')] = end /\ Len(toHost') \in Nat /\ Len(toHost) < Len(toHost')
    BY <1>3, <1>8, ClaudeTypes
  <1>15. \A i \in (Len(toHost) + 1)..(Len(toHost') - 1) :
            \A j \in (i + 1)..(Len(toHost') - 1) : toHost'[j].id # toHost'[i].id
    BY <1>12, <1>14, ClaudeTypes
  <1> QED
    BY <1>8, <1>11, <1>13, <1>14, <1>15, ClaudeTypes DEF CS!Result, CS!controller, Results, Works

\* Every step of the session is one of these.
LEMMA ClaudeSteps ==
    ASSUME ClaudeTyped, CS!ClaudeSessionNext
    PROVE  ClaudeStep
  <1>1. ASSUME NEW u \in CS!Uses, CS!UseTool(u) \/ CS!AskHost(u) \/ CS!ToolResult(u)
        PROVE  ClaudeStep
    BY <1>1, ToolSteps DEF ClaudeStep
  <1> QED
    BY <1>1, ControllerSteps, ReaderSteps, SidecarSteps, ResultSteps
       DEF CS!ClaudeSessionNext, ClaudeStep

\* The variables keep their types.
LEMMA ClaudeTypedStep ==
    ASSUME ClaudeTyped, ClaudeStep
    PROVE  ClaudeTyped'
  <1> DEFINE Named(frames) == \A i \in 1..Len(frames) :
                 frames[i].type \in ToolTypes => frames[i].id \in CS!Uses
  <1>0. Named(toHost) /\ CS!ClaudeSessionTypeOK
    BY DEF ClaudeTyped
  <1>1. ASSUME NEW frame, Speaks(frame), frame.type \in ToolTypes => frame.id \in CS!Uses
        PROVE  toHost' \in Seq(HostFrames) /\ Named(toHost')
    BY <1>0, <1>1 DEF Speaks, Put
  <1>2. ASSUME Reads
        PROVE  toHost' \in Seq(HostFrames) /\ Named(toHost')
    BY <1>0, <1>2 DEF Reads, Took
  <1>3. CASE SendsTurn
    BY <1>0, <1>3, ClaudeTypes DEF SendsTurn, ClaudeTyped, CS!ClaudeSessionTypeOK, CS!Uses
  <1>4. CASE Interrupts
    BY <1>0, <1>4, ClaudeTypes DEF Interrupts, ClaudeTyped, CS!ClaudeSessionTypeOK, CS!Uses
  <1>5. CASE TakesEvent
    <2>1. events[1].id \in 0..MaxUses
      BY <1>5, ClaudeTypes DEF TakesEvent, Took, EventFrames, Signed
    <2> QED BY <1>0, <1>5, <2>1, ClaudeTypes DEF TakesEvent, ClaudeTyped, CS!ClaudeSessionTypeOK, CS!Uses
  <1>6. CASE GivesUp
    BY <1>0, <1>6, ClaudeTypes DEF GivesUp, ClaudeTyped, CS!ClaudeSessionTypeOK, CS!Uses
  <1>7. CASE ReadsAccepted
    BY <1>0, <1>2, <1>7, ClaudeTypes
       DEF ReadsAccepted, Reads, ClaudeTyped, CS!ClaudeSessionTypeOK, CS!Uses
  <1>8. CASE ReadsApproved
    BY <1>0, <1>2, <1>8, ClaudeTypes
       DEF ReadsApproved, Reads, ClaudeTyped, CS!ClaudeSessionTypeOK, CS!Uses
  <1>9. CASE ReadsTool
    BY <1>0, <1>2, <1>9, ClaudeTypes DEF ReadsTool, Reads, ClaudeTyped, CS!ClaudeSessionTypeOK, CS!Uses
  <1>10. CASE ReadsEnd
    BY <1>0, <1>2, <1>10, ClaudeTypes DEF ReadsEnd, Reads, ClaudeTyped, CS!ClaudeSessionTypeOK, CS!Uses
  <1>11. CASE HearsTurn
    <2>1. toHost' \in Seq(HostFrames) /\ Named(toHost')
      BY <1>1, <1>11 DEF HearsTurn, CS!Frame, ToolTypes
    <2>2. side' \in 0..MaxAsked
      <3>1. 1 \in 1..Len(toSide)
        BY <1>11 DEF HearsTurn, Hears, Took
      <3>2. toSide[1] \in SideFrames
        BY <3>1, ClaudeTypes
      <3> QED BY <1>11, <3>2 DEF HearsTurn, SideFrames, Signed
    <2> QED BY <1>0, <1>11, <2>1, <2>2, ClaudeTypes
            DEF HearsTurn, Hears, ClaudeTyped, CS!ClaudeSessionTypeOK, CS!Uses
  <1>12. CASE HearsAnswer
    <2>1. toHost' \in Seq(HostFrames) /\ Named(toHost')
      BY <1>1, <1>12 DEF HearsAnswer, CS!Frame, ToolTypes
    <2>2. crossed' \in BOOLEAN /\ asks' \subseteq CS!Uses
      BY <1>0, <1>12 DEF HearsAnswer, CS!ClaudeSessionTypeOK
    <2>3. use' \in [CS!Uses -> [state : CS!States, turn : 0..MaxAsked]]
      BY <1>0, <1>12 DEF HearsAnswer, CS!ClaudeSessionTypeOK, CS!States
    <2> QED BY <1>0, <1>12, <2>1, <2>2, <2>3, ClaudeTypes
            DEF HearsAnswer, Hears, ClaudeTyped, CS!ClaudeSessionTypeOK
  <1>13. CASE HearsInterrupt
    BY <1>0, <1>13, ClaudeTypes DEF HearsInterrupt, Hears, ClaudeTyped, CS!ClaudeSessionTypeOK
  <1>14. CASE Rejects
    <2>1. toHost' \in Seq(HostFrames) /\ Named(toHost')
      BY <1>1, <1>14 DEF Rejects, CS!Frame, ToolTypes
    <2>2. crossed' \in BOOLEAN
      BY <1>0, <1>14 DEF Rejects, CS!ClaudeSessionTypeOK
    <2> QED BY <1>0, <1>14, <2>1, <2>2, ClaudeTypes
            DEF Rejects, Hears, ClaudeTyped, CS!ClaudeSessionTypeOK
  <1>15. ASSUME NEW u \in CS!Uses, UsesTool(u) \/ AsksHost(u) \/ EndsTool(u)
         PROVE  ClaudeTyped'
    <2>1. toHost' \in Seq(HostFrames) /\ Named(toHost')
      BY <1>1, <1>15 DEF UsesTool, AsksHost, EndsTool, CS!Frame, ToolTypes
    <2>2. use' \in [CS!Uses -> [state : CS!States, turn : 0..MaxAsked]]
      BY <1>0, <1>15 DEF UsesTool, AsksHost, EndsTool, CS!ClaudeSessionTypeOK, CS!States
    <2>3. asks' \subseteq CS!Uses
      BY <1>0, <1>15 DEF UsesTool, AsksHost, EndsTool, CS!ClaudeSessionTypeOK
    <2> QED BY <1>0, <1>15, <2>1, <2>2, <2>3, ClaudeTypes
            DEF UsesTool, AsksHost, EndsTool, Works, ClaudeTyped, CS!ClaudeSessionTypeOK
  <1>16. CASE Results
    <2>1. \A i \in 1..Len(toHost') : \/ i \in 1..Len(toHost)
                                     \/ i \in (Len(toHost) + 1)..(Len(toHost') - 1)
                                     \/ i = Len(toHost')
      BY <1>16, LenProperties DEF Results
    <2>2. toHost' \in Seq(HostFrames) /\ Named(toHost')
      BY <1>0, <1>16, <2>1 DEF Results, CS!Frame, ToolTypes
    <2>3. use' \in [CS!Uses -> [state : CS!States, turn : 0..MaxAsked]]
      BY <1>0, <1>16 DEF Results, CS!ClaudeSessionTypeOK, CS!States
    <2>4. side' \in 0..MaxAsked
      BY <1>16, ClaudeTypes DEF Results
    <2> QED BY <1>0, <1>16, <2>2, <2>3, <2>4, ClaudeTypes
            DEF Results, Works, ClaudeTyped, CS!ClaudeSessionTypeOK
  <1>17. CASE Dies
    <2>1. toHost' \in Seq(HostFrames) /\ Named(toHost')
      BY <1>0, <1>1, <1>17, ClaudeTypes DEF Dies, CS!Frame, ToolTypes
    <2> QED BY <1>0, <1>17, <2>1, ClaudeTypes
            DEF Dies, Works, ClaudeTyped, CS!ClaudeSessionTypeOK
  <1> QED
    BY <1>3, <1>4, <1>5, <1>6, <1>7, <1>8, <1>9, <1>10, <1>11, <1>12, <1>13, <1>14,
       <1>15, <1>16, <1>17 DEF ClaudeStep

\* An acknowledgement nobody can take stays in the way.
LEMMA DoomedStep ==
    ASSUME ClaudeTyped, running, running', Doomed, ClaudeStep
    PROVE  Doomed'
  <1> PICK i \in 1..Len(toHost) : DoomedBy(i)
    BY DEF Doomed
  <1>0. /\ toHost[i].type = "approval_accepted" /\ toHost[i].id \in CS!Uses
        /\ \/ toHost[i].id \notin open
           \/ \E j \in 1..(i - 1) : toHost[j].type = "turn_completed"
        /\ use[toHost[i].id].state \notin {"none", "started"}
        /\ ~Has(toHost, "approval_requested", toHost[i].id)
        /\ use \in [CS!Uses -> [state : CS!States, turn : 0..MaxAsked]]
    BY ClaudeTypes DEF DoomedBy
  <1>1. ASSUME UNCHANGED <<toHost, open, use>>
        PROVE  Doomed'
    BY <1>1 DEF Doomed, DoomedBy, Has
  <1>2. ASSUME NEW frame, Speaks(frame), open' = open,
               use'[toHost[i].id].state \notin {"none", "started"},
               frame.type = "approval_requested" => frame.id # toHost[i].id
        PROVE  Doomed'
    <2>1. i \in 1..Len(toHost') /\ toHost'[i] = toHost[i]
      BY <1>2 DEF Speaks, Put
    <2>2. ~Has(toHost', "approval_requested", toHost[i].id)
      BY <1>0, <1>2, HasPut DEF Speaks
    <2>3. \A j \in 1..(i - 1) : toHost'[j] = toHost[j]
      BY <1>2 DEF Speaks, Put
    <2> QED BY <1>0, <1>2, <2>1, <2>2, <2>3 DEF Doomed, DoomedBy
  <1>3. ASSUME Reads, i # 1,
               toHost[1].type = "turn_completed" => open' = {},
               open' \subseteq open \cup {toHost[1].id},
               toHost[1].type # "approval_requested" => open' \subseteq open
        PROVE  Doomed'
    <2>1. i # 1 => i - 1 \in 1..Len(toHost') /\ toHost'[i - 1] = toHost[i]
      BY <1>3 DEF Reads, Took
    <2>2. ~Has(toHost', "approval_requested", toHost[i].id) /\ use' = use
          /\ ~(toHost[1].type = "approval_requested" /\ toHost[1].id = toHost[i].id)
      BY <1>0, <1>3, HasTook DEF Reads
    <2>3. ASSUME NEW j \in 1..(i - 1), toHost[j].type = "turn_completed"
          PROVE  open' = {} \/ \E k \in 1..(i - 1 - 1) : toHost'[k].type = "turn_completed"
      <3>1. CASE j = 1
        BY <1>3, <2>3, <3>1
      <3>2. CASE j # 1
        <4>1. j - 1 \in 1..Len(toHost') /\ toHost'[j - 1] = toHost[j]
          BY <1>3, <3>2 DEF Reads, Took
        <4>2. j - 1 \in 1..(i - 1 - 1)
          BY <3>2
        <4> QED BY <2>3, <4>1, <4>2
      <3> QED BY <3>1, <3>2
    <2>5. \/ toHost[i].id \notin open'
          \/ \E k \in 1..(i - 1 - 1) : toHost'[k].type = "turn_completed"
      BY <1>0, <1>3, <2>2, <2>3
    <2>6. DoomedBy(i - 1)'
      BY <1>0, <1>3, <2>1, <2>2, <2>5 DEF DoomedBy
    <2> QED BY <1>3, <2>1, <2>6 DEF Doomed
  <1>4. CASE SendsTurn \/ Interrupts \/ TakesEvent \/ HearsInterrupt
    BY <1>1, <1>4 DEF SendsTurn, Interrupts, TakesEvent, HearsInterrupt, Hears
  <1>5. CASE ReadsAccepted \/ ReadsTool \/ ReadsEnd
    <2>1. i # 1
      BY <1>0, <1>5 DEF ReadsAccepted, ReadsTool, ReadsEnd
    <2> QED BY <1>3, <1>5, <2>1 DEF ReadsAccepted, ReadsTool, ReadsEnd
  <1>6. CASE ReadsApproved
    <2>1. i # 1
      BY <1>0, <1>6 DEF ReadsApproved
    <2> QED BY <1>3, <1>6, <2>1 DEF ReadsApproved
  <1>7. CASE HearsTurn
    BY <1>0, <1>2, <1>7 DEF HearsTurn, Hears, CS!Frame
  <1>8. CASE HearsAnswer
    <2>1. use'[toHost[i].id].state \notin {"none", "started"}
      BY <1>0, <1>8 DEF HearsAnswer
    <2> QED BY <1>2, <1>8, <2>1 DEF HearsAnswer, Hears, CS!Frame
  <1>9. ASSUME NEW u \in CS!Uses, UsesTool(u) \/ AsksHost(u) \/ EndsTool(u)
        PROVE  Doomed'
    <2>1. use'[toHost[i].id].state \notin {"none", "started"}
      BY <1>0, <1>9 DEF UsesTool, AsksHost, EndsTool
    <2>2. AsksHost(u) => u # toHost[i].id
      BY <1>0 DEF AsksHost
    <2> QED BY <1>2, <1>9, <2>1, <2>2 DEF UsesTool, AsksHost, EndsTool, Works, CS!Frame
  <1>10. CASE Results
    <2>1. i \in 1..Len(toHost') /\ toHost'[i] = toHost[i] /\ open' = open
      BY <1>10 DEF Results, Works
    <2>2. ~Has(toHost', "approval_requested", toHost[i].id)
      <3>1. \A j \in 1..Len(toHost') : \/ j \in 1..Len(toHost)
                                       \/ j \in (Len(toHost) + 1)..(Len(toHost') - 1)
                                       \/ j = Len(toHost')
        BY <1>10, LenProperties DEF Results
      <3> QED BY <1>0, <1>10, <3>1 DEF Results, Has, CS!Frame
    <2>3. \A j \in 1..(i - 1) : toHost'[j] = toHost[j]
      BY <1>10 DEF Results
    <2>4. use'[toHost[i].id].state \notin {"none", "started"}
      BY <1>0, <1>10 DEF Results
    <2> QED BY <1>0, <2>1, <2>2, <2>3, <2>4 DEF Doomed, DoomedBy
  <1> QED
    BY <1>4, <1>5, <1>6, <1>7, <1>8, <1>9, <1>10 DEF ClaudeStep, GivesUp, Rejects, Dies
-----------------------------------------------------------------------------

\* A step that is taken while nobody has died and nothing has crossed.
Going ==
    /\ ClaudeTyped /\ Straight /\ running /\ ~crossed
    /\ running' /\ ~crossed'

\* The turn is sent to a sidecar that is idle, over empty pipes.
LEMMA SendsTurnStraight ==
    ASSUME Going, SendsTurn
    PROVE  Straight'
  <1> USE DEF Straight, CS!Frame
  <1>0. Straight
    BY DEF Going
  <1>1. /\ Put(toSide, toSide', CS!Frame("turn", turns + 1, 0)) /\ turns \in Nat
        /\ active = 0 /\ side = 0 /\ Len(toHost) = 0 /\ Len(events) = 0 /\ open = {}
        /\ turns' = turns + 1 /\ active' = turns' /\ active' # 0
        /\ host = "idle" /\ host' = "sending"
        /\ \A i \in 1..Len(toSide) : toSide[i].type \notin {"turn", "approval"}
        /\ UNCHANGED <<open, awaited, acting, events, toHost, side, use, asks>>
    BY <1>0, ClaudeTypes DEF Going, SendsTurn, SameTurn, Begun, Answered
  <1>2. SameTurn'
    BY <1>1 DEF SameTurn, Ends, Put
  <1>3. Begun'
    BY <1>1 DEF Begun, Put
  <1>4. Spoken' /\ Related' /\ Accepting' /\ Waiting'
    BY <1>1 DEF Spoken, Related, Accepting, Waiting
  <1>5. Answered' /\ Replied'
    BY <1>1 DEF Answered, Replied, Put
  <1>6. Requested' /\ Queued'
    BY <1>0, <1>1 DEF Requested, Queued
  <1>7. Shown' /\ Opening' /\ Following' /\ Closing'
    BY <1>1 DEF Shown, Opening, Following, Closing
  <1>8. Owned' /\ Ahead' /\ Opened' /\ Pending'
    BY <1>0, <1>1 DEF Owned, Ahead, Opened, Pending, CS!InUse, Has, SameTurn
  <1>9. Dated'
    BY <1>0, <1>1 DEF Dated, Put
  <1> QED BY <1>2, <1>3, <1>4, <1>5, <1>6, <1>7, <1>8, <1>9

\* An interrupt is no answer and begins nothing.
LEMMA InterruptsStraight ==
    ASSUME Going, Interrupts
    PROVE  Straight'
  <1> USE DEF Straight, CS!Frame
  <1>0. Straight
    BY DEF Going
  <1>1. /\ Put(toSide, toSide', CS!Frame("interrupt", turns, 0))
        /\ host = "reading"
        /\ \A i \in 1..Len(toSide) : toSide[i].type \notin {"turn", "approval"}
        /\ UNCHANGED <<host, turns, active, open, awaited, acting, events, toHost, side, use, asks>>
    BY <1>0 DEF Interrupts, Begun, Answered
  <1>2. SameTurn'
    BY <1>0, <1>1 DEF SameTurn, Ends, Put
  <1>3. Begun' /\ Answered' /\ Replied' /\ Waiting'
    BY <1>1 DEF Begun, Answered, Replied, Waiting, Put
  <1>4. Spoken' /\ Related' /\ Accepting' /\ Requested' /\ Queued'
    BY <1>0, <1>1 DEF Spoken, Related, Accepting, Requested, Queued, Sought, Has
  <1>5. Shown' /\ Opening' /\ Following' /\ Closing'
    BY <1>0, <1>1 DEF Shown, Opening, Following, Closing
  <1>6. Owned' /\ Ahead' /\ Opened' /\ Pending'
    BY <1>0, <1>1 DEF Owned, Ahead, Opened, Pending, CS!InUse, Has
  <1>7. Dated'
    BY <1>0, <1>1 DEF Dated, Put
  <1> QED BY <1>2, <1>3, <1>4, <1>5, <1>6, <1>7

\* The answer to a queued request is the only one on its way.
LEMMA TakesEventStraight ==
    ASSUME Going, TakesEvent
    PROVE  Straight'
  <1> USE DEF Straight, CS!Frame
  <1>0. Straight
    BY DEF Going
  <1>1. /\ Took(events, events') /\ host = "reading"
        /\ \A i \in 1..Len(toSide) : toSide[i].type \notin {"turn", "approval"}
        /\ \A i \in 1..Len(toHost) : toHost[i].type \notin {"turn_accepted", "approval_accepted"}
        /\ UNCHANGED <<turns, active, open, acting, toHost, side, use, asks>>
    BY <1>0 DEF TakesEvent, Begun, Answered, Accepting, Spoken
  <1>2. /\ events[1].turn = turns /\ turns # 0
        /\ events[1].type = "turn_completed" => Len(events) = 1 /\ active = 0
    BY <1>0, <1>1 DEF Related, Took
  <1>3. \/ host' = "idle" /\ toSide' = toSide /\ Len(events') = 0 /\ active = 0
        \/ host' = "reading" /\ toSide' = toSide
        \/ /\ host' = "answering" /\ awaited' = events[1].id /\ events[1].id \in open
           /\ events[1].type = "approval_requested"
           /\ Put(toSide, toSide', [type |-> "approval", turn |-> turns, id |-> awaited'])
    <2>1. Len(events) = 1 => Len(events') = 0
      BY <1>1 DEF Took
    <2>2. CASE events[1].type = "turn_completed" /\ host' = "idle" /\ toSide' = toSide
      BY <1>2, <2>1, <2>2
    <2>3. CASE /\ events[1].type = "approval_requested" /\ events[1].id \in open
               /\ host' = "answering" /\ awaited' = events[1].id
               /\ Put(toSide, toSide', CS!Frame("approval", events[1].turn, events[1].id))
      BY <1>2, <2>3
    <2>4. CASE host' = host /\ toSide' = toSide
      BY <1>1, <2>4
    <2> QED BY <2>2, <2>3, <2>4 DEF TakesEvent
  <1>4. SameTurn'
    BY <1>0, <1>1, <1>3 DEF SameTurn, Ends, Put
  <1>5. Begun'
    BY <1>1, <1>3 DEF Begun, Put
  <1>6. Spoken' /\ Accepting' /\ Requested'
    BY <1>0, <1>1 DEF Spoken, Accepting, Requested, Sought
  <1>7. Related'
    <2>1. /\ Len(events) \in Nat /\ Len(events') = Len(events) - 1
          /\ \A i \in 1..Len(events') : i + 1 \in 1..Len(events) /\ events'[i] = events[i + 1]
      BY <1>1 DEF Took
    <2>2. \A i \in 1..Len(events') :
              /\ events'[i].turn = turns /\ turns # 0
              /\ events'[i].type = "turn_completed" => i + 1 = Len(events) /\ active = 0
      BY <1>0, <2>1 DEF Related
    <2> QED BY <1>1, <2>1, <2>2 DEF Related
  <1>8. Answered'
    <2>1. CASE toSide' = toSide
      BY <1>1, <2>1 DEF Answered
    <2>2. CASE /\ host' = "answering" /\ awaited' = events[1].id /\ events[1].id \in open
               /\ Put(toSide, toSide', [type |-> "approval", turn |-> turns, id |-> awaited'])
      <3>1. \A i \in 1..Len(toSide') :
                \/ i \in 1..Len(toSide) /\ toSide'[i] = toSide[i]
                \/ i = Len(toSide) + 1
        BY <2>2 DEF Put
      <3>2. \A i \in 1..Len(toSide') : toSide'[i].type = "approval" => i = Len(toSide) + 1
        BY <1>1, <3>1
      <3>3. toSide'[Len(toSide) + 1] = [type |-> "approval", turn |-> turns, id |-> awaited']
        BY <2>2 DEF Put
      <3> QED BY <1>1, <1>2, <2>2, <3>2, <3>3 DEF Answered
    <2> QED BY <1>3, <2>1, <2>2
  <1>9. Waiting'
    <2>1. host' = "answering" => \E i \in 1..Len(toSide') : toSide'[i].type = "approval"
      BY <1>3 DEF Put
    <2> QED BY <2>1 DEF Waiting
  <1>10. Queued'
    BY <1>0, <1>1 DEF Queued, Sought, Has, Took
  <1>11. Replied'
    <2>1. events[1].type = "approval_requested" =>
              /\ Sought(events[1].id) /\ ~Has(toHost, "approval_requested", events[1].id)
              /\ ~Has(events', "approval_requested", events[1].id)
      BY <1>0, <1>1 DEF Queued, Took, Has
    <2> QED BY <1>1, <1>3, <2>1 DEF Replied, Put, Sought, Has
  <1>12. Shown' /\ Opening' /\ Following' /\ Closing'
    BY <1>0, <1>1 DEF Shown, Opening, Following, Closing
  <1>13. Owned' /\ Ahead' /\ Opened' /\ Pending'
    BY <1>0, <1>1 DEF Owned, Ahead, Opened, Pending, CS!InUse, Has
  <1>14. Dated'
    BY <1>0, <1>1, <1>3 DEF Dated, Put
  <1> QED BY <1>4, <1>5, <1>6, <1>7, <1>8, <1>9, <1>10, <1>11, <1>12, <1>13, <1>14

\* A frame about no tool, taken, leaves those of the tools in order.
LEMMA InOrder ==
    ASSUME Straight, Took(toHost, toHost'), toHost[1].type \notin ToolTypes,
           acting' = acting, use' = use
    PROVE  Shown' /\ Opening' /\ Following' /\ Closing'
  <1>0. \A i \in 1..Len(toHost') : i + 1 \in 1..Len(toHost) /\ toHost'[i] = toHost[i + 1]
    BY DEF Took
  <1>1. Shown' /\ Opening' /\ Closing'
    <2>1. Shown'
      BY <1>0 DEF Straight, Shown
    <2>2. Opening'
      BY <1>0 DEF Straight, Opening
    <2>3. Closing'
      BY <1>0 DEF Straight, Closing
    <2> QED BY <2>1, <2>2, <2>3
  <1>2. Following'
    <2> SUFFICES ASSUME NEW i \in 1..Len(toHost'),
                        toHost'[i].type \in {"approval_requested", "tool_completed"}
                 PROVE  \/ toHost'[i].id \in acting
                        \/ \E j \in 1..(i - 1) : /\ toHost'[j].type = "tool_started"
                                                 /\ toHost'[j].id = toHost'[i].id
      BY DEF Following
    <2>1. i + 1 \in 1..Len(toHost) /\ toHost'[i] = toHost[i + 1] /\ (i + 1) - 1 = i
      BY DEF Took
    <2>2. ASSUME NEW j \in 1..i, toHost[j].type = "tool_started", toHost[j].id = toHost[i + 1].id
          PROVE  \E k \in 1..(i - 1) : /\ toHost'[k].type = "tool_started"
                                       /\ toHost'[k].id = toHost'[i].id
      <3>1. j # 1
        BY <2>2 DEF ToolTypes
      <3>2. j - 1 \in 1..(i - 1) /\ toHost'[j - 1] = toHost[j]
        BY <2>1, <3>1 DEF Took
      <3> QED BY <2>1, <2>2, <3>2
    <2> QED BY <2>1, <2>2 DEF Straight, Following
  <1> QED BY <1>1, <1>2

\* The turn's acceptance is taken.
LEMMA ReadsAcceptedStraight ==
    ASSUME Going, ReadsAccepted
    PROVE  Straight'
  <1> USE DEF Straight
  <1>0. Straight
    BY DEF Going
  <1>1. /\ Took(toHost, toHost') /\ toHost[1].type = "turn_accepted"
        /\ host = "sending" /\ host' = "reading"
        /\ UNCHANGED <<turns, active, open, awaited, acting, events, toSide, side, use, asks>>
    BY DEF ReadsAccepted, Reads
  <1>2. /\ active # 0
        /\ \A i \in 1..Len(toSide) : toSide[i].type \notin {"turn", "approval"}
        /\ \A i \in 1..Len(toHost) : toHost[i].type # "approval_accepted"
    BY <1>0, <1>1 DEF SameTurn, Begun, Answered, Accepting, Took
  <1>3. \A type, u : type # "turn_accepted" => (Has(toHost, type, u) <=> Has(toHost', type, u))
    BY <1>1, HasTook
  <1>4. SameTurn'
    BY <1>0, <1>1, <1>2 DEF SameTurn, Ends, Took
  <1>5. Begun' /\ Answered' /\ Replied' /\ Waiting'
    BY <1>1, <1>2 DEF Begun, Answered, Replied, Waiting
  <1>6. Spoken' /\ Accepting'
    BY <1>0, <1>1, <1>2 DEF Spoken, Accepting, Took
  <1>7. Related'
    BY <1>0, <1>1 DEF Related
  <1>8. Requested'
    <2>1. \A i \in 1..Len(toHost') : i + 1 \in 1..Len(toHost) /\ toHost'[i] = toHost[i + 1]
      BY <1>1 DEF Took
    <2> QED BY <1>0, <1>1, <2>1 DEF Requested, Sought
  <1>9. Queued'
    BY <1>0, <1>1, <1>3 DEF Queued, Sought
  <1>10. Shown' /\ Opening' /\ Following' /\ Closing'
    BY <1>0, <1>1, InOrder DEF ToolTypes
  <1>11. Owned' /\ Ahead' /\ Opened' /\ Pending'
    BY <1>0, <1>1, <1>3 DEF Owned, Ahead, Opened, Pending, CS!InUse
  <1>12. Dated'
    BY <1>0, <1>1 DEF Dated
  <1> QED BY <1>4, <1>5, <1>6, <1>7, <1>8, <1>9, <1>10, <1>11, <1>12

\* The acknowledgement that was awaited is taken: its request is closed.
LEMMA ReadsApprovedStraight ==
    ASSUME Going, ReadsApproved
    PROVE  Straight'
  <1> USE DEF Straight
  <1> DEFINE u == toHost[1].id
  <1>0. Straight
    BY DEF Going
  <1>1. /\ Took(toHost, toHost') /\ toHost[1].type = "approval_accepted"
        /\ host' = "reading" /\ awaited' = 0 /\ open' = open \ {u}
        /\ Put(events, events', CS!Frame("approval_resolved", active, u))
        /\ UNCHANGED <<turns, active, acting, toSide, side, use, asks>>
    BY DEF ReadsApproved, Reads
  <1>2. 1 \in 1..Len(toHost)
    BY <1>1 DEF Took
  <1>3. /\ host = "answering" /\ u \in open
        /\ use[u].state \in {"answered", "ended"} /\ u \notin asks
        /\ \A j \in 1..Len(toHost) : toHost[j].type = "approval_accepted" => j = 1
    BY <1>0, <1>1, <1>2 DEF Accepting
  <1>4. \A i \in 1..Len(toSide) : toSide[i].type \notin {"turn", "approval"}
    BY <1>0, <1>1, <1>2, <1>3 DEF Begun, Answered
  <1>5. \A i \in 1..Len(toHost') : toHost'[i].type \notin {"turn_accepted", "approval_accepted"}
    BY <1>0, <1>1, <1>3 DEF Took, Spoken
  <1>6. \A type, v : type # "approval_accepted" => (Has(toHost, type, v) <=> Has(toHost', type, v))
    BY <1>1, HasTook
  <1>7. active # 0 /\ active = turns
    BY <1>0, <1>3 DEF SameTurn
  <1>8. SameTurn'
    BY <1>0, <1>1, <1>7 DEF SameTurn, Ends, Took
  <1>9. Begun' /\ Answered' /\ Replied' /\ Waiting'
    BY <1>1, <1>4 DEF Begun, Answered, Replied, Waiting
  <1>10. Spoken' /\ Accepting'
    BY <1>0, <1>1, <1>5 DEF Spoken, Accepting, Took
  <1>11. Related'
    BY <1>0, <1>1, <1>7 DEF Related, Put, CS!Frame
  <1>12. Requested'
    <2>1. \A i \in 1..Len(toHost') : i + 1 \in 1..Len(toHost) /\ toHost'[i] = toHost[i + 1]
      BY <1>1 DEF Took
    <2> QED BY <1>0, <1>1, <2>1 DEF Requested, Sought
  <1>13. Queued'
    <2>1. \A i \in 1..Len(events') : events'[i].type = "approval_requested" =>
              i \in 1..Len(events) /\ events'[i] = events[i]
      BY <1>1 DEF Put, CS!Frame
    <2> QED BY <1>0, <1>1, <1>6, <2>1 DEF Queued, Sought
  <1>14. Shown' /\ Opening' /\ Following' /\ Closing'
    BY <1>0, <1>1, InOrder DEF ToolTypes
  <1>15. Owned' /\ Ahead'
    BY <1>0, <1>1, <1>6 DEF Owned, Ahead, CS!InUse
  <1>16. Opened' /\ Pending'
    <2>1. \A v : v # u => (Has(toHost, "approval_accepted", v) <=> Has(toHost', "approval_accepted", v))
      BY <1>1, HasTook
    <2> QED BY <1>0, <1>1, <1>3, <1>6, <2>1 DEF Opened, Pending
  <1>17. Dated'
    BY <1>0, <1>1 DEF Dated
  <1> QED BY <1>17, <1>8, <1>9, <1>10, <1>11, <1>12, <1>13, <1>14, <1>15, <1>16

\* A frame of a tool moves the tool from the pipe to the host.
LEMMA ReadsToolStraight ==
    ASSUME Going, ReadsTool
    PROVE  Straight'
  <1>0. Straight /\ ClaudeTyped
    BY DEF Going
  <1>1. /\ Took(toHost, toHost') /\ Put(events, events', toHost[1])
        /\ toHost[1].type \in ToolTypes /\ toHost[1].turn = active
        /\ toHost[1].id \in CS!Uses
        /\ \/ /\ toHost[1].type = "tool_started" /\ toHost[1].id \notin acting
              /\ acting' = acting \cup {toHost[1].id} /\ open' = open
           \/ /\ toHost[1].type = "approval_requested" /\ toHost[1].id \in acting
              /\ open' = open \cup {toHost[1].id} /\ acting' = acting
           \/ /\ toHost[1].type = "tool_completed" /\ toHost[1].id \in acting
              /\ acting' = acting \ {toHost[1].id} /\ open' = open
        /\ UNCHANGED <<host, turns, active, awaited, toSide, side, use, asks>>
    BY DEF ReadsTool, Reads, ToolTypes
  <1>2. active # 0 /\ active = turns /\ side \in {0, active}
        /\ host \notin {"idle", "sending"} /\ host # "idle"
    BY <1>0, <1>1 DEF Straight, SameTurn, Took, Ends, Begun, ToolTypes
  <1>a. \A type, u : Has(toHost, type, u) <=>
            \/ toHost[1].type = type /\ toHost[1].id = u
            \/ Has(toHost', type, u)
    BY <1>1, HasTook
  <1>b. \A type, u : Has(events', type, u) <=>
            \/ Has(events, type, u)
            \/ toHost[1].type = type /\ toHost[1].id = u
    BY <1>1, HasPut
  <1>c. toHost[1].type = "tool_started" => ~Has(toHost', "tool_started", toHost[1].id)
    BY <1>0, <1>1 DEF Straight, Opening, Took, Has
  <1>d. toHost[1].type = "tool_completed" =>
            \A type \in ToolTypes : ~Has(toHost', type, toHost[1].id)
    BY <1>0, <1>1 DEF Straight, Closing, Took, Has
  <1>e. toHost[1].type = "approval_requested" => ~Has(toHost', "approval_requested", toHost[1].id)
    BY <1>0, <1>1 DEF Straight, Requested, Took, Has
  <1>3. SameTurn'
    BY <1>0, <1>1, <1>2 DEF Straight, SameTurn, Took, Ends, ToolTypes, Put
  <1>4. Begun'
    BY <1>0, <1>1, <1>2 DEF Straight, Begun, Took
  <1>5. Spoken'
    BY <1>0, <1>1, <1>2 DEF Straight, Spoken, Took
  <1>6. Related'
    BY <1>0, <1>1, <1>2 DEF Straight, Related, Put, ToolTypes, Spoken
  <1>7. Answered'
    BY <1>0, <1>1, <1>2 DEF Straight, Answered, Took, ToolTypes
  <1>8. Accepting'
    BY <1>0, <1>1, <1>2 DEF Straight, Accepting, Took, ToolTypes
  <1>9. Waiting'
    BY <1>0, <1>1, <1>2 DEF Straight, Waiting, Took, ToolTypes
  <1>10. Requested'
    BY <1>0, <1>1, <1>2 DEF Straight, Requested, Took, ToolTypes, Sought
  <1>11. Queued'
    <2>1. ASSUME NEW i \in 1..Len(events), events[i].type = "approval_requested"
          PROVE  /\ Sought(events[i].id) /\ ~Has(toHost', "approval_requested", events[i].id)
                 /\ toHost[1].type = "approval_requested" => events[i].id # toHost[1].id
      BY <1>0, <1>a, <2>1 DEF Straight, Queued
    <2>2. toHost[1].type = "approval_requested" =>
              /\ Sought(toHost[1].id) /\ ~Has(toHost', "approval_requested", toHost[1].id)
      BY <1>0, <1>1, <1>e DEF Straight, Requested, Took
    <2> QED BY <1>0, <1>1, <2>1, <2>2 DEF Straight, Queued, Put, Sought
  <1>12. Replied'
    <2>1. ASSUME NEW i \in 1..Len(toSide), toSide[i].type = "approval"
          PROVE  /\ Sought(toSide[i].id) /\ ~Has(toHost', "approval_requested", toSide[i].id)
                 /\ ~Has(events', "approval_requested", toSide[i].id)
      BY <1>0, <1>1, <1>a, <1>b, <2>1 DEF Straight, Replied
    <2> QED BY <1>1, <2>1 DEF Replied, Sought
  <1>13. Shown'
    BY <1>0, <1>1, <1>2 DEF Straight, Shown, Took
  <1>14. Opening'
    BY <1>0, <1>1, <1>2 DEF Straight, Opening, Took
  <1>15. Following'
    <2> SUFFICES ASSUME NEW i \in 1..Len(toHost'),
                        toHost'[i].type \in {"approval_requested", "tool_completed"}
                 PROVE  \/ toHost'[i].id \in acting'
                        \/ \E j \in 1..(i - 1) : /\ toHost'[j].type = "tool_started"
                                                /\ toHost'[j].id = toHost'[i].id
      BY DEF Following
    <2>1. i + 1 \in 1..Len(toHost) /\ toHost'[i] = toHost[i + 1]
      BY <1>1 DEF Took
    <2>2. CASE toHost'[i].id \in acting
      BY <1>0, <1>1, <2>1, <2>2 DEF Straight, Closing, Took, ToolTypes
    <2>3. CASE \E j \in 1..i : toHost[j].type = "tool_started" /\ toHost[j].id = toHost[i + 1].id
      <3> PICK j \in 1..i : toHost[j].type = "tool_started" /\ toHost[j].id = toHost[i + 1].id
        BY <2>3
      <3>1. CASE j = 1
        BY <1>1, <2>1, <3>1
      <3>2. CASE j # 1
        BY <1>1, <2>1, <3>2 DEF Took
      <3> QED BY <3>1, <3>2
    <2> QED BY <1>0, <2>1, <2>2, <2>3 DEF Straight, Following
  <1>16. Closing'
    BY <1>0, <1>1, <1>2 DEF Straight, Closing, Took, ToolTypes
  <1>17. Owned'
    BY <1>0, <1>1, <1>2 DEF Straight, Owned, CS!InUse
  <1>18. Ahead'
    BY <1>0, <1>1, <1>a, <1>c, <1>d DEF Straight, Ahead, ToolTypes, CS!InUse
  <1>19. Opened'
    <2>1. toHost[1].type = "approval_requested" =>
              toHost[1].id \in asks /\ (use[toHost[1].id].turn = side \/ side = 0)
      BY <1>0, <1>1 DEF Straight, Requested, Sought, Took
    <2>2. \A u \in CS!Uses : Has(toHost, "approval_accepted", u) <=>
                             Has(toHost', "approval_accepted", u)
      BY <1>1, <1>a DEF ToolTypes
    <2>3. \A u \in open' : u \in open \/ (toHost[1].type = "approval_requested" /\ u = toHost[1].id)
      BY <1>1
    <2> QED BY <1>0, <1>1, <2>1, <2>2, <2>3 DEF Straight, Opened
  <1>20. Pending'
    BY <1>0, <1>1, <1>2 DEF Straight, Pending, Requested, Took, ToolTypes, Has
  <1>21. Dated'
    BY <1>0, <1>1 DEF Straight, Dated
  <1> QED
    BY <1>21, <1>3, <1>4, <1>5, <1>6, <1>7, <1>8, <1>9, <1>10, <1>11, <1>12, <1>13,
       <1>14, <1>15, <1>16, <1>17, <1>18, <1>19, <1>20 DEF Straight

\* The end of a turn is the last frame of it.
LEMMA ReadsEndStraight ==
    ASSUME Going, ReadsEnd
    PROVE  Straight'
  <1> USE DEF Straight
  <1>0. Straight
    BY DEF Going
  <1>1. /\ Took(toHost, toHost') /\ toHost[1].type = "turn_completed"
        /\ toHost[1].turn = active /\ acting = {} /\ active' = 0 /\ open' = {}
        /\ Put(events, events', toHost[1])
        /\ UNCHANGED <<host, turns, awaited, acting, toSide, side, use, asks>>
    BY DEF ReadsEnd, Reads
  <1>2. 1 \in 1..Len(toHost) /\ Len(toHost) = 1 /\ Len(toHost') = 0 /\ side = 0
    BY <1>0, <1>1 DEF Took, Spoken
  <1>3. \A i \in 1..Len(toSide) : toSide[i].type # "turn"
    BY <1>0, <1>2 DEF Begun
  <1>4. active # 0 /\ active = turns /\ host \notin {"idle", "sending"}
    BY <1>0, <1>1, <1>2, <1>3, ClaudeTypes DEF Going, SameTurn, Ends
  <1>5. \A u \in CS!Uses : ~CS!InUse(u)
    BY <1>0, <1>2 DEF Owned
  <1>6. SameTurn'
    BY <1>0, <1>1, <1>2, <1>4 DEF SameTurn
  <1>7. Begun' /\ Spoken' /\ Accepting' /\ Requested'
    BY <1>1, <1>2, <1>3 DEF Begun, Spoken, Accepting, Requested
  <1>8. Answered' /\ Waiting'
    BY <1>0, <1>1, <1>2 DEF Answered, Waiting
  <1>9. Related'
    BY <1>0, <1>1, <1>4 DEF Related, Put
  <1>10. Queued' /\ Replied'
    <2>1. \A i \in 1..Len(events') : events'[i].type = "approval_requested" =>
              i \in 1..Len(events) /\ events'[i] = events[i]
      BY <1>1 DEF Put
    <2>2. \A u : ~Has(toHost', "approval_requested", u)
      BY <1>2 DEF Has
    <2>3. \A u : Has(events', "approval_requested", u) => Has(events, "approval_requested", u)
      BY <2>1 DEF Has
    <2> QED BY <1>0, <1>1, <2>1, <2>2, <2>3 DEF Queued, Replied, Sought
  <1>11. Shown' /\ Opening' /\ Following' /\ Closing'
    BY <1>2 DEF Shown, Opening, Following, Closing
  <1>12. Owned' /\ Ahead' /\ Opened' /\ Pending'
    BY <1>1, <1>2, <1>5 DEF Owned, Ahead, Opened, Pending, CS!InUse, Has
  <1>13. Dated'
    BY <1>0, <1>1 DEF Dated
  <1> QED BY <1>13, <1>6, <1>7, <1>8, <1>9, <1>10, <1>11, <1>12

\* The sidecar begins the turn the host began.
LEMMA HearsTurnStraight ==
    ASSUME Going, HearsTurn
    PROVE  Straight'
  <1> USE DEF Straight
  <1>0. Straight
    BY DEF Going
  <1>1. /\ Took(toSide, toSide') /\ toSide[1].type = "turn" /\ side = 0
        /\ side' = toSide[1].turn
        /\ Put(toHost, toHost', CS!Frame("turn_accepted", side', 0))
        /\ UNCHANGED <<host, turns, active, open, awaited, acting, events, use, asks>>
    BY DEF HearsTurn, Hears, Speaks
  <1>2. /\ Len(toSide') = 0 /\ side' = active /\ active # 0 /\ active = turns
        /\ host = "sending" /\ Len(toHost) = 0 /\ open = {} /\ Len(events) = 0
    BY <1>0, <1>1, ClaudeTypes DEF Going, Begun, Took, SameTurn
  <1>3. Len(toHost') = 1 /\ toHost'[1].type = "turn_accepted"
    BY <1>1, <1>2 DEF Put, CS!Frame
  <1>4. \A u \in CS!Uses : ~CS!InUse(u)
    BY <1>0, <1>1 DEF Owned
  <1>5. SameTurn' /\ Begun' /\ Spoken' /\ Related'
    BY <1>1, <1>2, <1>3 DEF SameTurn, Begun, Spoken, Related, ToolTypes
  <1>6. Answered' /\ Accepting' /\ Waiting' /\ Requested' /\ Queued' /\ Replied'
    BY <1>1, <1>2, <1>3 DEF Answered, Accepting, Waiting, Requested, Queued, Replied
  <1>7. Shown' /\ Opening' /\ Following' /\ Closing'
    BY <1>3 DEF Shown, Opening, Following, Closing, ToolTypes
  <1>8. \A type \in ToolTypes : \A u : Has(toHost, type, u) <=> Has(toHost', type, u)
    BY <1>2, <1>3 DEF Has, ToolTypes
  <1>9. Owned' /\ Ahead' /\ Opened'
    BY <1>0, <1>1, <1>2, <1>4, <1>8 DEF Owned, Ahead, Opened, CS!InUse, ToolTypes
  <1>10. Pending'
    <2>1. \A u \in CS!Uses : u \in asks => use[u].turn < side' /\ use[u].turn \in 1..turns
      BY <1>0, <1>1 DEF Dated, Took
    <2> QED BY <1>1, <2>1, ClaudeTypes DEF Pending
  <1>11. Dated'
    BY <1>0, <1>1, <1>2 DEF Dated
  <1> QED BY <1>5, <1>6, <1>7, <1>9, <1>10, <1>11

\* An answer in its turn is acknowledged while its request is open.
LEMMA HearsAnswerStraight ==
    ASSUME Going, HearsAnswer
    PROVE  Straight'
  <1> USE DEF Straight
  <1> DEFINE u == toSide[1].id
  <1>0. Straight /\ ~crossed' /\ ClaudeTyped
    BY DEF Going
  <1>1. /\ Took(toSide, toSide') /\ toSide[1].type = "approval" /\ u \in asks
        /\ asks' = asks \ {u} /\ toSide[1].turn = side
        /\ Put(toHost, toHost', CS!Frame("approval_accepted", toSide[1].turn, u))
        /\ use' = IF use[u].state = "asked" THEN [use EXCEPT ![u].state = "answered"] ELSE use
        /\ UNCHANGED <<host, turns, active, open, awaited, acting, events, side>>
    BY <1>0 DEF HearsAnswer, Hears, Speaks
  <1>2. 1 \in 1..Len(toSide)
    BY <1>1 DEF Took
  <1>3. /\ host = "answering" /\ u = awaited /\ side = turns /\ turns # 0
        /\ u \in open \/ active = 0
        /\ \A j \in 1..Len(toSide) : toSide[j].type = "approval" => j = 1
        /\ \A j \in 1..Len(toHost) : toHost[j].type # "approval_accepted"
    BY <1>0, <1>1, <1>2 DEF Answered
  <1>4. active = side /\ active # 0 /\ u \in open /\ u \in CS!Uses
    BY <1>0, <1>1, <1>3 DEF SameTurn, ClaudeTyped, CS!ClaudeSessionTypeOK
  <1>5. use[u].state \in {"asked", "answered", "ended"}
    BY <1>0, <1>1, <1>4 DEF Dated
  <1>6. /\ use'[u].state \in {"answered", "ended"}
        /\ use[u].state \in {"asked", "answered"} => use'[u].state = "answered"
        /\ use[u].state = "ended" => use'[u].state = "ended"
        /\ \A v \in CS!Uses : v # u => use'[v] = use[v]
        /\ \A v \in CS!Uses : use'[v].turn = use[v].turn
    BY <1>1, <1>4, <1>5, <1>0, ClaudeTypes
  <1>7. \A v \in CS!Uses : CS!InUse(v) <=> CS!InUse(v)'
    BY <1>5, <1>6 DEF CS!InUse
  <1>8. \A i \in 1..Len(toSide') : toSide'[i].type \notin {"turn", "approval"}
    BY <1>0, <1>1, <1>3 DEF Took, Begun
  <1>9. \A type, v : Has(toHost', type, v) <=>
            Has(toHost, type, v) \/ (type = "approval_accepted" /\ v = u)
    BY <1>1, HasPut DEF CS!Frame
  <1>10. \A i \in 1..Len(toHost') : \/ /\ i \in 1..Len(toHost) /\ toHost'[i] = toHost[i]
                                       /\ toHost'[i].type # "approval_accepted"
                                    \/ /\ i = Len(toHost) + 1
                                       /\ toHost'[i].type = "approval_accepted"
                                       /\ toHost'[i].id = u
    BY <1>1, <1>3 DEF Put, CS!Frame
  <1>11. SameTurn'
    BY <1>0, <1>1, <1>3, <1>4 DEF SameTurn
  <1>12. Begun' /\ Answered' /\ Replied'
    BY <1>8 DEF Begun, Answered, Replied
  <1>13. Spoken'
    BY <1>0, <1>1, <1>3, <1>4, <1>10 DEF Spoken, ToolTypes
  <1>14. Related'
    BY <1>0, <1>1 DEF Related
  <1>15. Accepting'
    BY <1>1, <1>3, <1>4, <1>6, <1>10 DEF Accepting
  <1>16. Waiting'
    BY <1>1 DEF Waiting, Put, CS!Frame
  <1>17. \A v : Sought(v) /\ v # u => Sought(v)'
    BY <1>0, <1>1 DEF Sought, ClaudeTyped, CS!ClaudeSessionTypeOK
  <1>18. Requested'
    <2>1. \A i \in 1..Len(toHost) : toHost[i].type = "approval_requested" =>
              toHost[i].id # u /\ toHost[i].id \in CS!Uses
      BY <1>0, <1>1, <1>2 DEF Replied, Has, ClaudeTyped, ToolTypes
    <2> QED BY <1>0, <1>1, <1>6, <1>10, <1>17, <2>1 DEF Requested
  <1>19. Queued'
    <2>1. \A i \in 1..Len(events) : events[i].type = "approval_requested" => events[i].id # u
      BY <1>0, <1>1, <1>2 DEF Replied, Has
    <2> QED BY <1>0, <1>1, <1>9, <1>17, <2>1 DEF Queued
  <1>20. Shown' /\ Opening' /\ Following' /\ Closing'
    <2>1. \A v \in CS!Uses : use[v].state # "none" => use'[v].state # "none"
      BY <1>6
    <2>2. Shown'
      BY <1>0, <1>10, <2>1 DEF Shown, ToolTypes, ClaudeTyped
    <2>3. Opening' /\ Closing'
      BY <1>0, <1>1, <1>10 DEF Opening, Closing, ToolTypes
    <2>4. Following'
      BY <1>0, <1>1, <1>10 DEF Following
    <2> QED BY <2>2, <2>3, <2>4
  <1>21. Owned' /\ Ahead'
    BY <1>0, <1>1, <1>6, <1>7, <1>9 DEF Owned, Ahead
  <1>22. Opened' /\ Pending'
    BY <1>0, <1>1, <1>6, <1>9 DEF Opened, Pending
  <1>23. Dated'
    <2>1. \A v \in CS!Uses : v \in asks' => v # u /\ v \in asks
      BY <1>1
    <2> QED BY <1>0, <1>1, <1>6, <1>8, <2>1 DEF Dated
  <1> QED BY <1>23, <1>11, <1>12, <1>13, <1>14, <1>15, <1>16, <1>18, <1>19, <1>20, <1>21, <1>22

\* An interrupt in its turn is taken.
LEMMA HearsInterruptStraight ==
    ASSUME Going, HearsInterrupt
    PROVE  Straight'
  <1> USE DEF Straight
  <1>0. Straight
    BY DEF Going
  <1>1. /\ Took(toSide, toSide') /\ toSide[1].type = "interrupt"
        /\ UNCHANGED <<host, turns, active, open, awaited, acting, events, toHost,
                       side, use, asks>>
    BY DEF HearsInterrupt, Hears
  <1>2. SameTurn'
    BY <1>0, <1>1 DEF SameTurn, Ends, Took
  <1>3. Begun'
    BY <1>0, <1>1 DEF Begun, Took
  <1>4. Spoken' /\ Related' /\ Accepting' /\ Requested' /\ Queued'
    BY <1>0, <1>1 DEF Spoken, Related, Accepting, Requested, Queued, Sought, Has
  <1>5. Answered'
    BY <1>0, <1>1 DEF Answered, Took
  <1>6. Waiting'
    <2>1. ASSUME NEW i \in 1..Len(toSide), toSide[i].type = "approval"
          PROVE  \E j \in 1..Len(toSide') : toSide'[j].type = "approval"
      BY <1>1, <2>1 DEF Took
    <2> QED BY <1>0, <1>1, <2>1 DEF Waiting
  <1>7. Replied'
    BY <1>0, <1>1 DEF Replied, Sought, Has, Took
  <1>8. Shown' /\ Opening' /\ Following' /\ Closing'
    BY <1>0, <1>1 DEF Shown, Opening, Following, Closing
  <1>9. Owned' /\ Ahead' /\ Opened' /\ Pending'
    BY <1>0, <1>1 DEF Owned, Ahead, Opened, Pending, CS!InUse, Has
  <1>10. Dated'
    BY <1>0, <1>1 DEF Dated, Took
  <1> QED BY <1>10, <1>2, <1>3, <1>4, <1>5, <1>6, <1>7, <1>8, <1>9

\* A frame of a tool, said during a turn: what does not turn on the tool.
LEMMA SaysOfTool ==
    ASSUME Going, Works, side' = side, side # 0, NEW type \in ToolTypes, NEW u \in CS!Uses,
           Put(toHost, toHost', CS!Frame(type, side, u))
    PROVE  /\ SameTurn' /\ Begun' /\ Spoken' /\ Related' /\ Answered' /\ Waiting'
           /\ active = side /\ \A i \in 1..Len(toHost) : toHost[i].type # "turn_completed"
           /\ turns = side /\ \A i \in 1..Len(toSide) : toSide[i].type # "turn"
           /\ \A t, v : Has(toHost', t, v) <=> Has(toHost, t, v) \/ (t = type /\ v = u)
           /\ \A i \in 1..Len(toHost') :
                 \/ i \in 1..Len(toHost) /\ toHost'[i] = toHost[i]
                 \/ i = Len(toHost) + 1 /\ toHost'[i] = CS!Frame(type, side, u)
           /\ \A i \in 1..Len(toHost') : toHost'[i].type = "approval_accepted" =>
                 i \in 1..Len(toHost) /\ toHost'[i] = toHost[i]
           /\ Len(toHost') = Len(toHost) + 1
           /\ \A i \in 1..Len(toHost) : toHost'[i] = toHost[i]
  <1> USE DEF Straight
  <1>0. Straight
    BY DEF Going
  <1>1. UNCHANGED <<host, turns, active, open, awaited, acting, events, toSide, side>>
    BY DEF Works
  <1>2. /\ Len(toHost') = Len(toHost) + 1 /\ Len(toHost) \in Nat
        /\ \A i \in 1..Len(toHost) : toHost'[i] = toHost[i]
        /\ toHost'[Len(toHost) + 1] = CS!Frame(type, side, u)
    BY DEF Put
  <1>3. \A i \in 1..Len(toHost') : \/ i \in 1..Len(toHost) /\ toHost'[i] = toHost[i]
                                   \/ i = Len(toHost) + 1 /\ toHost'[i] = CS!Frame(type, side, u)
    BY <1>2
  <1>4. /\ active = side /\ active # 0 /\ turns = side
        /\ \A i \in 1..Len(toSide) : toSide[i].type # "turn"
        /\ \A i \in 1..Len(toHost) : toHost[i].type # "turn_completed"
    BY <1>0 DEF SameTurn, Begun, Spoken
  <1>5. SameTurn'
    BY <1>0, <1>1, <1>2, <1>4 DEF SameTurn, Ends
  <1>6. Begun' /\ Related'
    BY <1>0, <1>1, <1>4 DEF Begun, Related
  <1>7. Spoken'
    BY <1>0, <1>1, <1>3, <1>4 DEF Spoken, ToolTypes, CS!Frame
  <1>8. Answered'
    BY <1>0, <1>1, <1>3 DEF Answered, ToolTypes, CS!Frame
  <1>9. Waiting'
    BY <1>0, <1>1, <1>2 DEF Waiting
  <1>10. \A t, v : Has(toHost', t, v) <=> Has(toHost, t, v) \/ (t = type /\ v = u)
    BY HasPut DEF CS!Frame
  <1>11. \A i \in 1..Len(toHost') : toHost'[i].type = "approval_accepted" =>
             i \in 1..Len(toHost) /\ toHost'[i] = toHost[i]
    BY <1>3 DEF CS!Frame, ToolTypes
  <1> QED BY <1>2, <1>3, <1>4, <1>5, <1>6, <1>7, <1>8, <1>9, <1>10, <1>11

\* A tool begins.
LEMMA UsesToolStraight ==
    ASSUME Going, NEW u \in CS!Uses, UsesTool(u)
    PROVE  Straight'
  <1> USE DEF Straight
  <1>0. Straight /\ ClaudeTyped
    BY DEF Going
  <1>1. /\ side # 0 /\ use[u].state = "none"
        /\ use' = [use EXCEPT ![u] = [state |-> "started", turn |-> side]]
        /\ UNCHANGED <<host, turns, active, open, awaited, acting, events, toSide, side, asks>>
    BY DEF UsesTool, Works
  <1>2. /\ SameTurn' /\ Begun' /\ Spoken' /\ Related' /\ Answered' /\ Waiting'
        /\ \A t, v : Has(toHost', t, v) <=> Has(toHost, t, v) \/ (t = "tool_started" /\ v = u)
        /\ \A i \in 1..Len(toHost') :
              \/ i \in 1..Len(toHost) /\ toHost'[i] = toHost[i]
              \/ i = Len(toHost) + 1 /\ toHost'[i] = CS!Frame("tool_started", side, u)
        /\ \A i \in 1..Len(toHost') : toHost'[i].type = "approval_accepted" =>
              i \in 1..Len(toHost) /\ toHost'[i] = toHost[i]
        /\ Len(toHost') = Len(toHost) + 1
        /\ \A i \in 1..Len(toHost) : toHost'[i] = toHost[i]
    BY <1>0, SaysOfTool DEF UsesTool, Speaks, ToolTypes
  <1>3. /\ use'[u].state = "started" /\ use'[u].turn = side
        /\ \A v \in CS!Uses : v # u => use'[v] = use[v]
    BY <1>0, <1>1, ClaudeTypes
  <1>4. /\ \A i \in 1..Len(toHost) : toHost[i].type \in ToolTypes \cup {"approval_accepted"} =>
               toHost[i].id # u
        /\ ~Sought(u)
    BY <1>0, <1>1 DEF Shown, Accepting, Sought
  <1>5. u \notin acting
    BY <1>0, <1>1, <1>4 DEF Ahead, Has, CS!InUse, ToolTypes
  <1>6. u \notin open /\ u \notin asks
    BY <1>0, <1>1, <1>4 DEF Opened, Has, Dated
  <1>7. \A v : Sought(v) => Sought(v)' /\ v \in CS!Uses /\ v # u
    BY <1>0, <1>1, <1>3, <1>4 DEF Sought, ClaudeTyped, CS!ClaudeSessionTypeOK
  <1>8. Accepting'
    <2>1. \A i \in 1..Len(toHost) : toHost[i].type = "approval_accepted" =>
              toHost[i].id \in CS!Uses /\ use'[toHost[i].id].state \in {"answered", "ended"}
      BY <1>0, <1>3, <1>4 DEF Accepting, ClaudeTyped, CS!ClaudeSessionTypeOK
    <2> QED BY <1>0, <1>1, <1>2, <2>1 DEF Accepting
  <1>9. Requested'
    BY <1>0, <1>1, <1>2, <1>3, <1>7 DEF Requested, CS!Frame
  <1>10. Queued' /\ Replied'
    BY <1>0, <1>1, <1>2, <1>7 DEF Queued, Replied
  <1>11. Shown' /\ Opening'
    <2>1. \A v \in CS!Uses : use[v].state # "none" => use'[v].state # "none"
      BY <1>3
    <2>2. use'[u].state # "none"
      BY <1>3
    <2>3. Shown'
      BY <1>0, <1>2, <2>1, <2>2 DEF Shown, CS!Frame, ToolTypes, ClaudeTyped
    <2>4. Opening'
      BY <1>0, <1>1, <1>2, <1>4, <1>5 DEF Opening, CS!Frame, ToolTypes, Shown
    <2> QED BY <2>3, <2>4
  <1>12. Following'
    BY <1>0, <1>1, <1>2 DEF Following, CS!Frame
  <1>13. Closing'
    BY <1>0, <1>2, <1>4 DEF Closing, CS!Frame, ToolTypes
  <1>14. Owned'
    BY <1>0, <1>1, <1>3 DEF Owned, CS!InUse
  <1>15. Ahead'
    <2>1. ~Has(toHost', "tool_completed", u) /\ Has(toHost', "tool_started", u) /\ CS!InUse(u)'
      BY <1>2, <1>3, <1>4 DEF CS!InUse, Has, ToolTypes
    <2>2. \A v \in CS!Uses : v # u => (CS!InUse(v)' <=> CS!InUse(v))
      BY <1>3 DEF CS!InUse
    <2> QED BY <1>0, <1>1, <1>2, <2>1, <2>2 DEF Ahead
  <1>16. Opened' /\ Pending'
    BY <1>0, <1>1, <1>2, <1>3, <1>6 DEF Opened, Pending
  <1>17. Dated'
    BY <1>0, <1>1, <1>3, <1>6 DEF Dated
  <1> QED BY <1>17, <1>2, <1>8, <1>9, <1>10, <1>11, <1>12, <1>13, <1>14, <1>15, <1>16

\* A tool asks for approval.
LEMMA AsksHostStraight ==
    ASSUME Going, NEW u \in CS!Uses, AsksHost(u)
    PROVE  Straight'
  <1> USE DEF Straight
  <1>0. Straight /\ ClaudeTyped
    BY DEF Going
  <1>1. /\ use[u].state = "started" /\ use[u].turn = side
        /\ use' = [use EXCEPT ![u].state = "asked"] /\ asks' = asks \cup {u}
        /\ UNCHANGED <<host, turns, active, open, awaited, acting, events, toSide, side>>
    BY DEF AsksHost, Works
  <1>2. CS!InUse(u) /\ side # 0
    BY <1>0, <1>1 DEF CS!InUse, Owned
  <1>3. /\ SameTurn' /\ Begun' /\ Spoken' /\ Related' /\ Answered' /\ Waiting'
        /\ \A t, v : Has(toHost', t, v) <=> Has(toHost, t, v) \/ (t = "approval_requested" /\ v = u)
        /\ \A i \in 1..Len(toHost') :
              \/ i \in 1..Len(toHost) /\ toHost'[i] = toHost[i]
              \/ i = Len(toHost) + 1 /\ toHost'[i] = CS!Frame("approval_requested", side, u)
        /\ \A i \in 1..Len(toHost') : toHost'[i].type = "approval_accepted" =>
              i \in 1..Len(toHost) /\ toHost'[i] = toHost[i]
        /\ Len(toHost') = Len(toHost) + 1
        /\ turns = side /\ \A i \in 1..Len(toSide) : toSide[i].type # "turn"
        /\ \A i \in 1..Len(toHost) : toHost'[i] = toHost[i]
    BY <1>0, <1>1, <1>2, SaysOfTool DEF AsksHost, Speaks, ToolTypes
  <1>4. /\ use'[u].state = "asked" /\ use'[u].turn = use[u].turn
        /\ \A v \in CS!Uses : v # u => use'[v] = use[v]
        /\ \A v \in CS!Uses : CS!InUse(v) <=> CS!InUse(v)'
    BY <1>0, <1>1, ClaudeTypes DEF CS!InUse
  <1>5. /\ ~Sought(u) /\ ~Has(toHost, "approval_requested", u)
        /\ \A i \in 1..Len(toHost) : toHost[i].type = "approval_accepted" => toHost[i].id # u
    BY <1>0, <1>1 DEF Requested, Accepting, Sought, Has
  <1>6. \A v : Sought(v) => Sought(v)' /\ v \in CS!Uses /\ v # u
    BY <1>0, <1>1, <1>4, <1>5 DEF Sought, ClaudeTyped, CS!ClaudeSessionTypeOK
  <1>7. Accepting'
    <2>1. \A i \in 1..Len(toHost) : toHost[i].type = "approval_accepted" =>
              toHost[i].id \in CS!Uses /\ use'[toHost[i].id].state \in {"answered", "ended"}
      BY <1>0, <1>4, <1>5 DEF Accepting, ClaudeTyped, CS!ClaudeSessionTypeOK
    <2> QED BY <1>0, <1>1, <1>3, <2>1 DEF Accepting
  <1>8. Requested'
    <2>1. Sought(u)'
      BY <1>1, <1>4 DEF Sought
    <2> QED BY <1>0, <1>1, <1>3, <1>4, <1>6, <2>1 DEF Requested, CS!Frame
  <1>9. Queued' /\ Replied'
    BY <1>0, <1>1, <1>3, <1>6 DEF Queued, Replied
  <1>10. Shown' /\ Opening'
    <2>1. \A v \in CS!Uses : use[v].state # "none" => use'[v].state # "none"
      BY <1>4
    <2>2. use'[u].state # "none"
      BY <1>4
    <2>3. Shown'
      BY <1>0, <1>3, <2>1, <2>2 DEF Shown, CS!Frame, ToolTypes, ClaudeTyped
    <2>4. Opening'
      BY <1>0, <1>1, <1>3 DEF Opening, CS!Frame, ToolTypes, Shown
    <2> QED BY <2>3, <2>4
  <1>11. Following'
    <2>1. u \in acting \/ \E j \in 1..Len(toHost) : toHost[j].type = "tool_started" /\ toHost[j].id = u
      BY <1>0, <1>2 DEF Ahead, Has
    <2> QED BY <1>0, <1>1, <1>3, <2>1 DEF Following, CS!Frame
  <1>12. Closing'
    BY <1>0, <1>2, <1>3 DEF Closing, CS!Frame, ToolTypes, Ahead, Has
  <1>13. Owned' /\ Ahead'
    BY <1>0, <1>1, <1>3, <1>4 DEF Owned, Ahead
  <1>14. Opened' /\ Pending'
    BY <1>0, <1>1, <1>3, <1>4 DEF Opened, Pending
  <1>15. Dated'
    <2>1. u \in CS!Uses => use'[u].turn \in 1..turns
      BY <1>0, <1>1, <1>2, <1>3, <1>4, ClaudeTypes
    <2> QED BY <1>0, <1>1, <1>3, <1>4, <2>1 DEF Dated
  <1> QED BY <1>15, <1>3, <1>7, <1>8, <1>9, <1>10, <1>11, <1>12, <1>13, <1>14

\* A tool ends.
LEMMA EndsToolStraight ==
    ASSUME Going, NEW u \in CS!Uses, EndsTool(u)
    PROVE  Straight'
  <1> USE DEF Straight
  <1>0. Straight /\ ClaudeTyped
    BY DEF Going
  <1>1. /\ use[u].state \in {"started", "asked", "answered"} /\ use[u].turn = side
        /\ use' = [use EXCEPT ![u].state = "ended"]
        /\ UNCHANGED <<host, turns, active, open, awaited, acting, events, toSide, side, asks>>
    BY <1>0 DEF EndsTool, Works, Owned, CS!InUse
  <1>2. CS!InUse(u) /\ side # 0
    BY <1>0, <1>1 DEF CS!InUse, Owned
  <1>3. /\ SameTurn' /\ Begun' /\ Spoken' /\ Related' /\ Answered' /\ Waiting'
        /\ \A t, v : Has(toHost', t, v) <=> Has(toHost, t, v) \/ (t = "tool_completed" /\ v = u)
        /\ \A i \in 1..Len(toHost') :
              \/ i \in 1..Len(toHost) /\ toHost'[i] = toHost[i]
              \/ i = Len(toHost) + 1 /\ toHost'[i] = CS!Frame("tool_completed", side, u)
        /\ \A i \in 1..Len(toHost') : toHost'[i].type = "approval_accepted" =>
              i \in 1..Len(toHost) /\ toHost'[i] = toHost[i]
        /\ Len(toHost') = Len(toHost) + 1
        /\ turns = side /\ \A i \in 1..Len(toSide) : toSide[i].type # "turn"
        /\ \A i \in 1..Len(toHost) : toHost'[i] = toHost[i]
    BY <1>0, <1>1, <1>2, SaysOfTool DEF EndsTool, Speaks, ToolTypes
  <1>4. /\ use'[u].state = "ended"
        /\ \A v \in CS!Uses : v # u => use'[v] = use[v]
        /\ \A v \in CS!Uses : use'[v].turn = use[v].turn
        /\ \A v \in CS!Uses : CS!InUse(v)' <=> CS!InUse(v) /\ v # u
    BY <1>0, <1>1, ClaudeTypes DEF CS!InUse
  <1>5. \A v : Sought(v) => Sought(v)' /\ v \in CS!Uses
    BY <1>0, <1>1, <1>4 DEF Sought, ClaudeTyped, CS!ClaudeSessionTypeOK
  <1>6. Accepting'
    <2>1. \A i \in 1..Len(toHost) : toHost[i].type = "approval_accepted" =>
              toHost[i].id \in CS!Uses /\ use'[toHost[i].id].state \in {"answered", "ended"}
      BY <1>0, <1>4 DEF Accepting, ClaudeTyped, CS!ClaudeSessionTypeOK
    <2> QED BY <1>0, <1>1, <1>3, <2>1 DEF Accepting
  <1>7. Requested'
    <2>1. \A i \in 1..Len(toHost) : toHost[i].type = "approval_requested" =>
              use'[toHost[i].id].turn = use[toHost[i].id].turn
      BY <1>0, <1>4, <1>5 DEF Requested
    <2> QED BY <1>0, <1>1, <1>3, <1>5, <2>1 DEF Requested, CS!Frame
  <1>8. Queued' /\ Replied'
    BY <1>0, <1>1, <1>3, <1>5 DEF Queued, Replied
  <1>9. Shown' /\ Opening'
    <2>1. \A v \in CS!Uses : use[v].state # "none" => use'[v].state # "none"
      BY <1>4
    <2>2. use'[u].state # "none"
      BY <1>4
    <2>3. Shown'
      BY <1>0, <1>3, <2>1, <2>2 DEF Shown, CS!Frame, ToolTypes, ClaudeTyped
    <2>4. Opening'
      BY <1>0, <1>1, <1>3 DEF Opening, CS!Frame, ToolTypes, Shown
    <2> QED BY <2>3, <2>4
  <1>10. Following'
    <2>1. u \in acting \/ \E j \in 1..Len(toHost) : toHost[j].type = "tool_started" /\ toHost[j].id = u
      BY <1>0, <1>2 DEF Ahead, Has
    <2> QED BY <1>0, <1>1, <1>3, <2>1 DEF Following, CS!Frame
  <1>11. Closing'
    BY <1>0, <1>2, <1>3 DEF Closing, CS!Frame, ToolTypes, Ahead, Has
  <1>12. Owned' /\ Ahead'
    BY <1>0, <1>1, <1>3, <1>4 DEF Owned, Ahead
  <1>13. Opened' /\ Pending'
    BY <1>0, <1>1, <1>2, <1>3, <1>4 DEF Opened, Pending
  <1>14. Dated'
    BY <1>0, <1>1, <1>4 DEF Dated
  <1> QED BY <1>14, <1>3, <1>6, <1>7, <1>8, <1>9, <1>10, <1>11, <1>12, <1>13

\* A turn ends on the sidecar, every tool in use with it.
LEMMA ResultsStraight ==
    ASSUME Going, Results
    PROVE  Straight'
  <1> USE DEF Straight
  <1>0. Straight /\ ClaudeTyped
    BY DEF Going
  <1> DEFINE n == Len(toHost)
             m == Len(toHost')
  <1>1. /\ side # 0 /\ side' = 0
        /\ n \in Nat /\ m \in Nat /\ n < m
        /\ \A i \in 1..n : toHost'[i] = toHost[i]
        /\ \A i \in (n + 1)..(m - 1) :
               /\ toHost'[i].type = "tool_completed" /\ toHost'[i].turn = side
               /\ toHost'[i].id \in CS!Uses /\ CS!InUse(toHost'[i].id)
               /\ \A j \in (i + 1)..(m - 1) : toHost'[j].id # toHost'[i].id
        /\ \A u \in CS!Uses : CS!InUse(u) => \E i \in (n + 1)..(m - 1) : toHost'[i].id = u
        /\ toHost'[m].type = "turn_completed" /\ toHost'[m].turn = side
        /\ UNCHANGED <<host, turns, active, open, awaited, acting, events, toSide, asks>>
    BY ClaudeTypes, LenProperties DEF Results, Works, CS!Frame
  <1>2. \A i \in 1..m : \/ i \in 1..n /\ toHost'[i] = toHost[i]
                        \/ i \in (n + 1)..(m - 1)
                        \/ i = m
    BY <1>1
  <1>3. /\ active = side /\ active # 0
        /\ \A i \in 1..Len(toSide) : toSide[i].type # "turn"
        /\ \A i \in 1..n : toHost[i].type # "turn_completed"
    BY <1>0, <1>1 DEF SameTurn, Begun, Spoken
  <1>4. /\ \A u \in CS!Uses : ~CS!InUse(u)'
        /\ \A u \in CS!Uses : use'[u].turn = use[u].turn /\ use'[u].state =
               IF CS!InUse(u) THEN "ended" ELSE use[u].state
    BY <1>0, ClaudeTypes DEF Results, CS!InUse
  <1>5. \A u : Sought(u) => Sought(u)' /\ u \in CS!Uses
    BY <1>0, <1>1, <1>4 DEF Sought, ClaudeTyped, CS!ClaudeSessionTypeOK
  <1>6. \A type, u : type # "tool_completed" /\ type # "turn_completed" =>
            (Has(toHost', type, u) <=> Has(toHost, type, u))
    <2> HIDE DEF m, n
    <2>1. \A i \in 1..n : i \in 1..m
      BY <1>1
    <2>2. \A i \in 1..m : toHost'[i].type \notin {"tool_completed", "turn_completed"} => i \in 1..n
      BY <1>1, <1>2
    <2> QED BY <1>1, <2>1, <2>2 DEF Has, m, n
  <1>7. \A u \in CS!Uses : Has(toHost', "tool_completed", u) <=>
            Has(toHost, "tool_completed", u) \/ CS!InUse(u)
    <2> TAKE u \in CS!Uses
    <2>1. ASSUME Has(toHost, "tool_completed", u)
          PROVE  Has(toHost', "tool_completed", u)
      BY <1>1, <2>1 DEF Has
    <2>2. ASSUME CS!InUse(u)
          PROVE  Has(toHost', "tool_completed", u)
      <3>1. PICK i \in (n + 1)..(m - 1) : toHost'[i].id = u
        BY <1>1, <2>2
      <3>2. i \in 1..m /\ toHost'[i].type = "tool_completed"
        BY <1>1
      <3> QED BY <3>1, <3>2 DEF Has
    <2>3. ASSUME Has(toHost', "tool_completed", u)
          PROVE  Has(toHost, "tool_completed", u) \/ CS!InUse(u)
      <3>1. PICK i \in 1..m : toHost'[i].type = "tool_completed" /\ toHost'[i].id = u
        BY <2>3 DEF Has
      <3> QED BY <1>1, <1>2, <3>1 DEF Has
    <2> QED BY <2>1, <2>2, <2>3
  <1>8. \A i \in 1..m : toHost'[i].type \notin {"tool_completed", "turn_completed"} =>
            i \in 1..n /\ toHost'[i] = toHost[i]
    BY <1>1, <1>2
  <1>9. SameTurn'
    <2>1. Ends(toHost', "turn_completed") /\ m > 0
      BY <1>1 DEF Ends
    <2>2. n > 0 => toHost'[1] = toHost[1]
      BY <1>1
    <2> QED BY <1>0, <1>1, <1>3, <2>1, <2>2 DEF SameTurn, Ends
  <1>10. Begun' /\ Related'
    BY <1>0, <1>1, <1>3 DEF Begun, Related
  <1>11. Spoken'
    <2> SUFFICES ASSUME NEW i \in 1..m
                 PROVE  /\ toHost'[i].type # "fatal"
                        /\ toHost'[i].type = "turn_accepted" => i = 1 /\ host = "sending"
                        /\ toHost'[i].type \in ToolTypes \cup {"turn_completed"} =>
                               toHost'[i].turn = active
                        /\ toHost'[i].type = "turn_completed" => i = m /\ side' = 0
      BY <1>1 DEF Spoken
    <2>1. CASE i \in 1..n /\ toHost'[i] = toHost[i]
      BY <1>0, <1>3, <2>1 DEF Spoken
    <2>2. CASE i \in (n + 1)..(m - 1)
      BY <1>1, <1>3, <2>2
    <2>3. CASE i = m
      BY <1>1, <1>3, <2>3
    <2> QED BY <1>2, <2>1, <2>2, <2>3
  <1>12. Answered'
    <2>1. (\A j \in 1..n : toHost[j].type # "approval_accepted") =>
              \A j \in 1..m : toHost'[j].type # "approval_accepted"
      BY <1>8
    <2> HIDE DEF n, m
    <2> QED BY <1>0, <1>1, <2>1 DEF Answered, n, m
  <1>13. Accepting'
    <2>1. \A i \in 1..n : toHost[i].type = "approval_accepted" =>
              toHost[i].id \in CS!Uses /\ use'[toHost[i].id].state \in {"answered", "ended"}
      BY <1>0, <1>4 DEF Accepting, ClaudeTyped, CS!ClaudeSessionTypeOK
    <2> QED BY <1>0, <1>1, <1>8, <2>1 DEF Accepting
  <1>14. Waiting'
    <2>1. \A i \in 1..n : i \in 1..m /\ toHost'[i] = toHost[i]
      BY <1>1
    <2> QED BY <1>0, <1>1, <2>1 DEF Waiting
  <1>15. Requested'
    <2>1. \A i \in 1..n : toHost[i].type = "approval_requested" =>
              \A j \in 1..n : toHost[j].type = "approval_requested"
                               /\ toHost[j].id = toHost[i].id => j = i
      BY <1>0 DEF Requested
    <2>2. \A i \in 1..n : toHost[i].type = "approval_requested" => Sought(toHost[i].id)
      BY <1>0 DEF Requested
    <2> QED BY <1>1, <1>5, <1>8, <2>1, <2>2 DEF Requested
  <1>16. Queued' /\ Replied'
    BY <1>0, <1>1, <1>5, <1>6 DEF Queued, Replied
  <1>17. Shown'
    <2>1. \A u \in CS!Uses : CS!InUse(u) \/ use[u].state # "none" => use'[u].state # "none"
      BY <1>4
    <2> SUFFICES ASSUME NEW i \in 1..m, toHost'[i].type \in ToolTypes
                 PROVE  use'[toHost'[i].id].state # "none"
      BY DEF Shown
    <2>2. CASE i \in 1..n /\ toHost'[i] = toHost[i]
      BY <1>0, <2>1, <2>2 DEF Shown, ClaudeTyped
    <2>3. CASE i \in (n + 1)..(m - 1)
      BY <1>1, <2>1, <2>3
    <2>4. i # m
      BY <1>1 DEF ToolTypes
    <2> QED BY <1>2, <2>2, <2>3, <2>4
  <1>18. Opening'
    BY <1>0, <1>1, <1>8 DEF Opening
  <1>19. Following'
    <2> SUFFICES ASSUME NEW i \in 1..m,
                        toHost'[i].type \in {"approval_requested", "tool_completed"}
                 PROVE  \/ toHost'[i].id \in acting
                        \/ \E j \in 1..(i - 1) : toHost'[j].type = "tool_started"
                                                 /\ toHost'[j].id = toHost'[i].id
      BY <1>1 DEF Following
    <2>1. CASE i \in 1..n /\ toHost'[i] = toHost[i]
      <3>1. \A j \in 1..(i - 1) : toHost'[j] = toHost[j]
        BY <1>1, <2>1
      <3> QED BY <1>0, <2>1, <3>1 DEF Following
    <2>2. CASE i \in (n + 1)..(m - 1)
      <3>1. CS!InUse(toHost'[i].id) /\ toHost'[i].id \in CS!Uses
        BY <1>1, <2>2
      <3>2. toHost'[i].id \in acting \/ Has(toHost, "tool_started", toHost'[i].id)
        BY <1>0, <3>1 DEF Ahead
      <3>3. \A j \in 1..n : j \in 1..(i - 1) /\ toHost'[j] = toHost[j]
        BY <1>1, <2>2
      <3> QED BY <3>2, <3>3 DEF Has
    <2>3. i # m
      BY <1>1
    <2> QED BY <1>2, <2>1, <2>2, <2>3
  <1>20. Closing'
    <2> SUFFICES ASSUME NEW i \in 1..m, NEW j \in 1..m,
                        toHost'[i].type = "tool_completed", i < j, toHost'[j].type \in ToolTypes
                 PROVE  toHost'[j].id # toHost'[i].id
      BY DEF Closing
    <2>0. i # m /\ j # m
      BY <1>1 DEF ToolTypes
    <2>1. CASE j \in 1..n
      <3>1. i \in 1..n
        BY <1>1, <2>1
      <3> QED BY <1>0, <1>1, <2>1, <3>1 DEF Closing
    <2>2. CASE i \in 1..n /\ j \in (n + 1)..(m - 1)
      <3>1. CS!InUse(toHost'[j].id) /\ toHost'[j].id \in CS!Uses
        BY <1>1, <2>2
      <3>2. ~Has(toHost, "tool_completed", toHost'[j].id)
        BY <1>0, <3>1 DEF Ahead
      <3> QED BY <1>1, <2>2, <3>2 DEF Has
    <2>3. CASE i \in (n + 1)..(m - 1) /\ j \in (n + 1)..(m - 1)
      BY <1>1, <2>3
    <2>4. i \in (n + 1)..(m - 1) /\ j \notin (n + 1)..(m - 1) => j = m
      BY <1>1
    <2> QED BY <1>2, <2>0, <2>1, <2>2, <2>3, <2>4
  <1>21. Owned' /\ Pending'
    BY <1>1, <1>4 DEF Owned, Pending, CS!InUse
  <1>22. Ahead'
    BY <1>0, <1>1, <1>4, <1>6, <1>7 DEF Ahead
  <1>23. Opened'
    BY <1>1 DEF Opened
  <1>24. Dated'
    BY <1>0, <1>1, <1>4 DEF Dated
  <1> QED BY <1>24, <1>9, <1>10, <1>11, <1>12, <1>13, <1>14, <1>15, <1>16, <1>17, <1>18, <1>19,
             <1>20, <1>21, <1>22, <1>23

\* A step that crosses nothing keeps the session straight.
LEMMA StraightStep ==
    ASSUME Going, ClaudeStep
    PROVE  Straight'
  BY SendsTurnStraight, InterruptsStraight, TakesEventStraight, ReadsAcceptedStraight,
     ReadsApprovedStraight, ReadsToolStraight, ReadsEndStraight, HearsTurnStraight,
     HearsAnswerStraight, HearsInterruptStraight, UsesToolStraight, AsksHostStraight,
     EndsToolStraight, ResultsStraight
     DEF ClaudeStep, GivesUp, Rejects, Dies, Going

\* An answer that crosses the end of its turn dooms the session.
LEMMA CrossingStep ==
    ASSUME ClaudeTyped, Straight, running, ~crossed, ClaudeStep, running', crossed'
    PROVE  Doomed'
  <1> USE DEF Straight
  <1>1. HearsAnswer
    BY DEF ClaudeStep, SendsTurn, Interrupts, TakesEvent, GivesUp, ReadsAccepted, ReadsApproved,
           ReadsTool, ReadsEnd, Reads, HearsTurn, HearsInterrupt, Rejects, UsesTool, AsksHost,
           EndsTool, Results, Dies, Works
  <1> DEFINE u == toSide[1].id
  <1>a. Len(toHost) \in Nat
    BY ClaudeTypes
  <1> PICK i \in Nat : i = Len(toHost) + 1
    BY <1>a
  <1>b. toSide[1].turn # side
    BY <1>1 DEF HearsAnswer
  <1>2. /\ 1 \in 1..Len(toSide) /\ toSide[1].type = "approval" /\ toSide[1].turn # side
        /\ Put(toHost, toHost', CS!Frame("approval_accepted", toSide[1].turn, u))
        /\ open' = open
        /\ use' = IF use[u].state = "asked" THEN [use EXCEPT ![u].state = "answered"] ELSE use
    <2>1. Took(toSide, toSide')
      BY <1>1 DEF HearsAnswer, Hears
    <2>2. 1 \in 1..Len(toSide)
      BY <2>1 DEF Took
    <2> QED BY <1>1, <1>b, <2>2 DEF HearsAnswer, Hears, Speaks
  <1>3. /\ toSide[1].turn = turns /\ turns # 0 /\ host = "answering"
        /\ Sought(u) /\ ~Has(toHost, "approval_requested", u) /\ u \in CS!Uses
    BY <1>2 DEF Answered, Replied, Sought, ClaudeTyped, CS!ClaudeSessionTypeOK
  <1>4. /\ Len(toHost) \in Nat /\ i \in 1..Len(toHost')
        /\ toHost'[i].type = "approval_accepted" /\ toHost'[i].id = u
        /\ \A j \in 1..(i - 1) : j \in 1..Len(toHost) /\ toHost'[j] = toHost[j]
    BY <1>2, <1>a DEF Put, CS!Frame
  <1>5. active = 0 \/ (active # 0 /\ side = 0)
    BY <1>2, <1>3 DEF SameTurn
  <1>6. \/ u \notin open
        \/ \E j \in 1..(i - 1) : toHost'[j].type = "turn_completed"
    <2>1. CASE active = 0
      BY <2>1 DEF SameTurn
    <2>2. CASE active # 0 /\ side = 0
      <3>1. ~Ends(toSide, "turn")
        BY <1>3, ClaudeTypes DEF Ends, Begun
      <3>2. Ends(toHost, "turn_completed")
        BY <2>2, <3>1 DEF SameTurn
      <3>3. Len(toHost) \in 1..(i - 1) /\ toHost[Len(toHost)].type = "turn_completed"
        BY <1>4, <3>2 DEF Ends
      <3> QED BY <1>4, <3>3
    <2> QED BY <1>5, <2>1, <2>2
  <1>7. use'[u].state \notin {"none", "started"}
    BY <1>2, <1>3, ClaudeTypes DEF Sought
  <1>8. ~Has(toHost', "approval_requested", u)
    BY <1>2, <1>3, HasPut DEF CS!Frame
  <1>9. DoomedBy(i)'
    BY <1>2, <1>3, <1>4, <1>6, <1>7, <1>8 DEF DoomedBy
  <1> QED BY <1>4, <1>9 DEF Doomed

\* While nothing crossed, the reader expects every frame it finds.
LEMMA Expected ==
    ASSUME ClaudeTyped, Straight, running
    PROVE  ~CS!Unexpected
  <1> USE DEF Straight
  <1>1. CASE toHost = <<>>
    BY <1>1 DEF CS!Unexpected
  <1>2. CASE toHost # <<>>
    <2>1. Head(toHost) = toHost[1] /\ 1 \in 1..Len(toHost) /\ toHost[1] \in HostFrames
      BY <1>2, ClaudeTypes, Taking DEF Took
    <2>2. toHost[1].type \in ToolTypes \cup {"turn_accepted", "approval_accepted", "turn_completed"}
      BY <2>1 DEF Spoken, HostFrames, Signed
    <2>3. CASE toHost[1].type = "turn_accepted"
      BY <1>2, <2>1, <2>3 DEF Spoken, CS!Unexpected
    <2>4. CASE toHost[1].type = "approval_accepted"
      BY <1>2, <2>1, <2>4 DEF Accepting, CS!Unexpected, CS!Acknowledged
    <2>5. toHost[1].type \in ToolTypes \cup {"turn_completed"} => toHost[1].turn = active
      BY <2>1 DEF Spoken
    <2>6. CASE toHost[1].type = "tool_started"
      <3>1. toHost[1].id \notin acting
        BY <2>1, <2>6 DEF Opening
      <3> QED BY <1>2, <2>1, <2>5, <2>6, <3>1 DEF CS!Unexpected, ToolTypes
    <2>7. CASE toHost[1].type \in {"approval_requested", "tool_completed"}
      <3>1. toHost[1].id \in acting
        BY <2>1, <2>7 DEF Following
      <3> QED BY <1>2, <2>1, <2>5, <2>7, <3>1 DEF CS!Unexpected, ToolTypes
    <2>8. CASE toHost[1].type = "turn_completed"
      <3>1. Len(toHost) = 1 /\ side = 0
        BY <2>1, <2>8 DEF Spoken
      <3>2. \A u : ~Has(toHost, "tool_completed", u)
        BY <2>8, <3>1 DEF Has
      <3>3. acting = {}
        BY <3>1, <3>2 DEF Ahead, Owned, ClaudeTyped, CS!ClaudeSessionTypeOK
      <3> QED BY <1>2, <2>1, <2>5, <2>8, <3>3 DEF CS!Unexpected
    <2> QED BY <2>2, <2>3, <2>4, <2>6, <2>7, <2>8 DEF ToolTypes
  <1> QED BY <1>1, <1>2

\* What a step leaves of who is alive, and of the history.
LEMMA Histories ==
    ASSUME ClaudeTyped, ClaudeStep
    PROVE  /\ running' => running
           /\ crossed => crossed'
           /\ died => died'
           /\ flooded => flooded'
           /\ \/ UNCHANGED <<running, session>> /\ (host' = "over" => host = "over")
              \/ GivesUp
              \/ running /\ ~running' /\ UNCHANGED <<session, host>> /\ (died' \/ Rejects)
  <1> USE DEF Works, Hears, Reads, ClaudeTyped, CS!ClaudeSessionTypeOK
  <1>1. CASE SendsTurn \/ Interrupts \/ TakesEvent
    BY <1>1 DEF SendsTurn, Interrupts, TakesEvent
  <1>2. CASE GivesUp
    BY <1>2 DEF GivesUp
  <1>3. CASE ReadsAccepted \/ ReadsApproved \/ ReadsTool \/ ReadsEnd
    BY <1>3 DEF ReadsAccepted, ReadsApproved, ReadsTool, ReadsEnd
  <1>4. CASE HearsTurn \/ HearsInterrupt
    BY <1>4 DEF HearsTurn, HearsInterrupt
  <1>5. CASE HearsAnswer \/ Rejects
    BY <1>5 DEF HearsAnswer, Rejects
  <1>6. ASSUME NEW u \in CS!Uses, UsesTool(u) \/ AsksHost(u) \/ EndsTool(u)
        PROVE  UNCHANGED <<running, session, host, crossed, died, flooded>>
    BY <1>6 DEF UsesTool, AsksHost, EndsTool
  <1>7. CASE Results \/ Dies
    BY <1>7 DEF Results, Dies
  <1> QED BY <1>1, <1>2, <1>3, <1>4, <1>5, <1>6, <1>7 DEF ClaudeStep

\* A session or its sidecar ends by itself only over a crossing, a death or a flood.
LEMMA AliveStep ==
    ASSUME ClaudeInv, ClaudeStep
    PROVE  Alive'
  <1>0. ClaudeTyped /\ Alive /\ (running /\ ~crossed => Straight)
    BY DEF ClaudeInv
  <1>1. /\ running' => running
        /\ crossed => crossed'
        /\ died => died'
        /\ flooded => flooded'
        /\ running \in BOOLEAN /\ crossed \in BOOLEAN /\ died \in BOOLEAN
        /\ running' \in BOOLEAN /\ flooded \in BOOLEAN
    BY <1>0, Histories, ClaudeTypedStep DEF ClaudeTyped, CS!ClaudeSessionTypeOK
  <1>2. CASE UNCHANGED <<running, session>> /\ (host' = "over" => host = "over")
    BY <1>0, <1>2, Histories DEF Alive
  <1>3. CASE GivesUp
    <2>1. CASE host' = "over" /\ session' = "closed" /\ running' = FALSE
      BY <2>1 DEF Alive
    <2>2. CASE /\ host' = host /\ session = "ready" /\ session' = "failed" /\ CS!Unexpected
               /\ running' = FALSE /\ UNCHANGED <<crossed, died, flooded>>
      <3>1. crossed \/ died \/ flooded
        BY <1>0, <2>2, Expected DEF Alive
      <3> QED BY <2>2, <3>1 DEF Alive
    <2>3. CASE /\ host' = host /\ session = "ready" /\ session' = "failed"
               /\ flooded' = TRUE /\ running' = FALSE
      BY <1>0, <2>3 DEF Alive
    <2>4. \/ host' = "over" /\ session' = "closed" /\ running' = FALSE
          \/ /\ host' = host /\ session = "ready" /\ session' = "failed" /\ CS!Unexpected
             /\ running' = FALSE /\ UNCHANGED <<crossed, died, flooded>>
          \/ /\ host' = host /\ session = "ready" /\ session' = "failed"
             /\ flooded' = TRUE /\ running' = FALSE
      BY <1>3, Zenon DEF GivesUp
    <2> QED BY <2>1, <2>2, <2>3, <2>4, Zenon
  <1>4. CASE running /\ ~running' /\ UNCHANGED <<session, host>> /\ died'
    BY <1>0, <1>4 DEF Alive
  <1>5. CASE running /\ ~running' /\ UNCHANGED <<session, host>> /\ Rejects
    <2>1. /\ 1 \in 1..Len(toSide)
          /\ \/ toSide[1].type = "turn" /\ side # 0
             \/ toSide[1].type = "interrupt" /\ toSide[1].turn # side
             \/ toSide[1].type = "approval" /\ toSide[1].id \notin asks
          /\ crossed' = (crossed \/ toSide[1].turn # side)
      BY <1>5 DEF Rejects, Hears, Took
    <2>2. ASSUME ~crossed
          PROVE  toSide[1].turn # side
      <3>1. Straight
        BY <1>0, <1>5, <2>2
      <3>2. toSide[1].type = "turn" => side = 0
        BY <2>1, <3>1 DEF Straight, Begun
      <3>3. toSide[1].type = "approval" => toSide[1].id \in asks
        BY <2>1, <3>1 DEF Straight, Replied, Sought
      <3> QED BY <2>1, <3>2, <3>3
    <2>3. crossed'
      BY <2>1, <2>2
    <2> QED BY <1>0, <1>5, <2>3 DEF Alive
  <1> QED BY <1>0, <1>2, <1>3, <1>4, <1>5, Histories

\* A new session is in order.
LEMMA ClaudeStart == CS!ClaudeSessionInit => ClaudeInv
  <1> SUFFICES ASSUME CS!ClaudeSessionInit PROVE ClaudeInv
    OBVIOUS
  <1>1. /\ toSide = <<>> /\ toHost = <<>> /\ events = <<>> /\ host = "idle" /\ turns = 0
        /\ session = "ready" /\ active = 0 /\ side = 0 /\ open = {} /\ acting = {} /\ asks = {}
        /\ running = TRUE /\ crossed = FALSE /\ died = FALSE
        /\ flooded = FALSE /\ heeded = FALSE /\ awaited = 0
        /\ use = [u \in CS!Uses |-> [state |-> "none", turn |-> 0]]
    BY DEF CS!ClaudeSessionInit, CS!Unused
  <1>2. Len(toSide) = 0 /\ Len(toHost) = 0 /\ Len(events) = 0
    BY <1>1
  <1>3. ClaudeTyped
    <2>1. CS!ClaudeSessionTypeOK
      <3>1. 0 \in 0..MaxAsked /\ 0 \in 0..MaxUses
        BY Bounds
      <3>2. [state |-> "none", turn |-> 0] \in [state : CS!States, turn : 0..MaxAsked]
        BY <3>1 DEF CS!States
      <3>3. use \in [CS!Uses -> [state : CS!States, turn : 0..MaxAsked]]
        BY <1>1, <3>2
      <3> QED BY <1>1, <3>1, <3>3 DEF CS!ClaudeSessionTypeOK
    <2>2. toSide \in Seq(SideFrames) /\ toHost \in Seq(HostFrames) /\ events \in Seq(EventFrames)
      BY <1>1
    <2> QED BY <1>2, <2>1, <2>2 DEF ClaudeTyped
  <1>4. Alive
    BY <1>1 DEF Alive
  <1>5. Straight
    <2>1. SameTurn /\ Begun /\ Spoken /\ Related /\ Answered /\ Accepting /\ Waiting
      BY <1>1, <1>2 DEF SameTurn, Begun, Spoken, Related, Answered, Accepting, Waiting
    <2>2. Requested /\ Queued /\ Replied /\ Shown /\ Opening /\ Following /\ Closing
      BY <1>2 DEF Requested, Queued, Replied, Shown, Opening, Following, Closing
    <2>3. Owned /\ Ahead /\ Opened /\ Pending
      BY <1>1, <1>2 DEF Owned, Ahead, Opened, Pending, CS!InUse, Has
    <2>4. Dated
      BY <1>1 DEF Dated
    <2> QED BY <2>1, <2>2, <2>3, <2>4 DEF Straight
  <1> QED BY <1>1, <1>3, <1>4, <1>5 DEF ClaudeInv

\* A state that differs in nothing of the session is as good.
LEMMA ClaudeRests ==
    ASSUME ClaudeInv, UNCHANGED ClaudeVars
    PROVE  ClaudeInv'
  <1> USE DEF ClaudeVars
  <1>1. ClaudeTyped => ClaudeTyped'
    BY DEF ClaudeTyped, CS!ClaudeSessionTypeOK
  <1>2. Alive => Alive'
    BY DEF Alive
  <1>3. Doomed => Doomed'
    BY DEF Doomed, DoomedBy, Has
  <1>4. Straight => Straight'
    <2>1. SameTurn /\ Begun /\ Spoken /\ Related => (SameTurn /\ Begun /\ Spoken /\ Related)'
      BY DEF SameTurn, Begun, Spoken, Related, Ends
    <2>2. Answered /\ Accepting /\ Waiting => (Answered /\ Accepting /\ Waiting)'
      BY DEF Answered, Accepting, Waiting
    <2>3. Requested /\ Queued /\ Replied => (Requested /\ Queued /\ Replied)'
      BY DEF Requested, Queued, Replied, Sought, Has
    <2>4. Shown /\ Opening /\ Following /\ Closing => (Shown /\ Opening /\ Following /\ Closing)'
      BY DEF Shown, Opening, Following, Closing
    <2>5. Owned /\ Ahead /\ Opened /\ Pending => (Owned /\ Ahead /\ Opened /\ Pending)'
      BY DEF Owned, Ahead, Opened, Pending, CS!InUse, Has
    <2>6. Dated => Dated'
      BY DEF Dated
    <2> QED BY <2>1, <2>2, <2>3, <2>4, <2>5, <2>6 DEF Straight
  <1> QED BY <1>1, <1>2, <1>3, <1>4 DEF ClaudeInv

\* The invariant of the session is inductive.
LEMMA ClaudeSessionStep ==
    ASSUME ClaudeInv, CS!ClaudeSessionNext \/ UNCHANGED ClaudeVars
    PROVE  ClaudeInv'
  <1>1. CASE UNCHANGED ClaudeVars
    BY <1>1, ClaudeRests
  <1>2. CASE CS!ClaudeSessionNext
    <2>1. ClaudeTyped /\ (running /\ crossed => Doomed) /\ (running /\ ~crossed => Straight)
      BY DEF ClaudeInv
    <2>2. ClaudeStep
      BY <1>2, <2>1, ClaudeSteps
    <2>3. ClaudeTyped' /\ Alive'
      BY <2>1, <2>2, ClaudeTypedStep, AliveStep
    <2>4. (running' => running) /\ (crossed => crossed')
      BY <2>1, <2>2, Histories
    <2>5. ASSUME running', crossed'
          PROVE  Doomed'
      BY <2>1, <2>2, <2>4, <2>5, DoomedStep, CrossingStep
    <2>6. ASSUME running', ~crossed'
          PROVE  Straight'
      BY <2>1, <2>2, <2>4, <2>6, StraightStep DEF Going
    <2> QED BY <2>3, <2>5, <2>6 DEF ClaudeInv
  <1> QED BY <1>1, <1>2

\* What the pipes would explain, empty pipes do not.
LEMMA ClaudeInStep == ClaudeInv => CS!InStep
  <1> SUFFICES ASSUME ClaudeInv PROVE CS!InStep
    OBVIOUS
  <1>0. ClaudeTyped /\ Alive
    BY DEF ClaudeInv
  <1>1. session = "failed" => crossed \/ died \/ flooded
    BY <1>0 DEF Alive
  <1>2. ASSUME session = "ready", running, toSide = <<>>, toHost = <<>>
        PROVE  /\ active = side
               /\ acting = {u \in CS!Uses : CS!InUse(u)}
               /\ open = {u \in asks : use[u].turn = side}
               /\ host \notin {"sending", "answering"}
    <2>1. Len(toSide) = 0 /\ Len(toHost) = 0
      BY <1>2
    <2>2. ~Doomed
      BY <2>1 DEF Doomed
    <2>3. Straight
      BY <1>2, <2>2 DEF ClaudeInv
    <2>4. ~Ends(toSide, "turn") /\ ~Ends(toHost, "turn_completed")
      BY <2>1 DEF Ends
    <2>5. active = side
      BY <2>3, <2>4 DEF Straight, SameTurn
    <2>6. host \notin {"sending", "answering"}
      BY <2>1, <2>3, <2>4 DEF Straight, SameTurn, Waiting
    <2>7. \A type, u : ~Has(toHost, type, u)
      BY <2>1 DEF Has
    <2>8. acting = {u \in CS!Uses : CS!InUse(u)}
      BY <1>0, <2>3, <2>7 DEF Straight, Ahead, ClaudeTyped, CS!ClaudeSessionTypeOK
    <2>9. open = {u \in asks : use[u].turn = side}
      <3>1. \A u \in CS!Uses : u \in open => u \in asks /\ use[u].turn = side
        BY <2>3, <2>5, <2>7 DEF Straight, Opened, SameTurn
      <3>2. \A u \in CS!Uses : u \in asks /\ use[u].turn = side => u \in open
        <4>1. \A u \in CS!Uses : u \in asks => use[u].turn # 0
          BY <2>3, ClaudeTypes, <1>0 DEF Straight, Dated
        <4> QED BY <2>3, <2>7, <4>1 DEF Straight, Pending
      <3> QED BY <1>0, <3>1, <3>2 DEF ClaudeTyped, CS!ClaudeSessionTypeOK
    <2> QED BY <2>5, <2>6, <2>8, <2>9
  <1> QED BY <1>1, <1>2 DEF CS!InStep

\* So it holds of every state of a session.
LEMMA ClaudeInvariance == Spec => [](part = "claude" => ClaudeInv)
  <1>1. Init => (part = "claude" => ClaudeInv)
    BY ClaudeStart DEF Init
  <1>2. (part = "claude" => ClaudeInv) /\ [Next]_allVars => (part = "claude" => ClaudeInv)'
    BY PartSteps, ClaudeSessionStep
  <1> QED BY <1>1, <1>2, PTL DEF Spec

(* The two sides stay in step: a session fails only if an interrupt or an  *)
(* approval crossed the end of its turn, the sidecar died or said more     *)
(* than the host takes; with the pipes empty both know the same turn, the  *)
(* same open tools and, of the turn's requests, the same ones unanswered;  *)
(* and a controller that waits for an acknowledgement waits for one that   *)
(* is coming (ClaudeAgentSession and its sidecar).                         *)
THEOREM SidesInStep == Spec => []InStep
  <1>1. (part = "claude" => ClaudeInv) => InStep
    BY ClaudeInStep DEF InStep
  <1> QED BY <1>1, ClaudeInvariance, PTL

-----------------------------------------------------------------------------
(* The types                                                               *)

\* One of the eight is at work throughout.
LEMMA PartStays == Spec => [](part \in Parts)
  <1>1. Init => part \in Parts
    BY DEF Init
  <1>2. part \in Parts /\ [Next]_allVars => (part \in Parts)'
    BY PartSteps
  <1> QED BY <1>1, <1>2, PTL DEF Spec

\* What is in the pipe or captured was written, and the slots that are taken
\* are among all of them.
LEMMA ProcessTypes == ProcessInv => LP!LocalProcessTypeOK
  <1> SUFFICES ASSUME ProcessInv PROVE LP!LocalProcessTypeOK
    OBVIOUS
  <1>0. ProcessTyped /\ \A r \in Runs : captured[r] + pipe[r] = written[r]
    BY DEF ProcessInv, Told
  <1>1. slots \in 0..Slots
    <2>1. Holders \subseteq Runs
      BY DEF Holders
    <2>2. Cardinality(Holders) \in Nat
      BY <2>1, Bounds, FS_Subset, FS_CardinalityType
    <2>3. LP!SlotsConserved
      BY DEF ProcessInv
    <2>4. slots + Cardinality(Holders) = Slots
      BY <2>3, SlotsCounted
    <2> QED BY <1>0, <2>2, <2>4, Bounds DEF ProcessTyped
  <1>2. \A r \in Runs : pipe[r] \in 0..MaxOutput /\ captured[r] \in 0..MaxOutput
    BY <1>0, Bounds DEF ProcessTyped
  <1>3. pipe \in [Runs -> 0..MaxOutput] /\ captured \in [Runs -> 0..MaxOutput]
    BY <1>0, <1>2 DEF ProcessTyped
  <1> QED BY <1>0, <1>1, <1>3 DEF ProcessTyped, LP!LocalProcessTypeOK

\* Controllers are counted up to the bound, and those a connection was given,
\* a turn started or anything closed are among them.
SocketsBound ==
    /\ made <= MaxControllers
    /\ has \in [Connections -> 0..MaxControllers]
    /\ started \subseteq SO!Controllers /\ closed \subseteq SO!Controllers
    /\ guard \in Connections \cup {SO!Free}
    /\ overdue \subseteq Conversations

\* A controller that is handed out was made within the bound, and whoever closes
\* or starts one was served by it.
LEMMA SocketsBoundStep ==
    ASSUME SocketsInv, SocketsBound, SO!SocketsNext
    PROVE  SocketsBound'
  <1> USE DEF SocketsBound, SO!Controllers, SO!Free
  <1>0. SocketsTyped /\ Numbered /\ Wanting
    BY DEF SocketsInv
  <1>a. \A v \in Conversations : sessions[v].controller \in 0..MaxControllers
    BY <1>0, Bounds DEF SocketsTyped, Numbered
  <1>b. \A k \in Connections : conn[k] = "attached" \/ conn[k] = "turn" =>
            has[k] \in SO!Controllers
    BY <1>0, Bounds DEF Wanting, SO!Served
  <1>1. ASSUME NEW k \in Connections, NEW v \in Conversations, SO!Connect(k, v)
        PROVE  SocketsBound'
    BY <1>1 DEF SO!Connect
  <1>2. ASSUME NEW k \in Connections, NEW v \in Conversations, SO!Evict(k, v)
        PROVE  SocketsBound'
    <2>1. sessions[v].controller \in SO!Controllers
      BY <1>2, <1>a, Bounds DEF SO!Evict, SO!Idle, SO!Known
    <2> QED BY <1>2, <2>1 DEF SO!Evict
  <1>3. ASSUME NEW k \in Connections, SO!Acquire(k)
        PROVE  SocketsBound'
    <2>0. wants[k] \in Conversations
      BY <1>0, <1>3 DEF Wanting, SO!Acquire
    <2>1. made' \in Nat /\ made' <= MaxControllers
      BY <1>0, <1>3, Bounds DEF SO!Acquire, SocketsTyped
    <2>2. has' \in [Connections -> 0..MaxControllers]
      <3>1. \/ has' = has
            \/ has' = [has EXCEPT ![k] = sessions[wants[k]].controller]
            \/ made < MaxControllers /\ has' = [has EXCEPT ![k] = made + 1]
        BY <1>3 DEF SO!Acquire
      <3> QED BY <1>0, <1>a, <2>0, <3>1, Bounds DEF SocketsTyped
    <2> QED BY <1>3, <2>1, <2>2 DEF SO!Acquire
  <1>4. ASSUME NEW k \in Connections,
               SO!Attach(k) \/ SO!OpenFails(k) \/ SO!TurnEnds(k)
                   \/ SO!Disconnect(k) \/ SO!Release(k)
        PROVE  SocketsBound'
    BY <1>4 DEF SO!Attach, SO!OpenFails, SO!TurnEnds, SO!Disconnect, SO!Release
  <1>5. ASSUME NEW k \in Connections, SO!Turn(k)
        PROVE  SocketsBound'
    <2>1. conn[k] = "attached"
      BY <1>5 DEF SO!Turn
    <2>2. started' = started \/ started' = started \cup {has[k]}
      BY <1>5 DEF SO!Turn
    <2>3. UNCHANGED <<made, closed, has, guard, overdue>>
      BY <1>5 DEF SO!Turn
    <2> QED BY <1>b, <2>1, <2>2, <2>3
  <1>6. ASSUME NEW k \in Connections, SO!TurnFails(k)
        PROVE  SocketsBound'
    BY <1>6, <1>b DEF SO!TurnFails
  <1>7. ASSUME NEW v \in Conversations, SO!Expire(v)
        PROVE  SocketsBound'
    BY <1>7 DEF SO!Expire
  <1> QED BY <1>1, <1>2, <1>3, <1>4, <1>5, <1>6, <1>7 DEF SO!SocketsNext

\* The types of the WebSocket front.
LEMMA SocketsTypes == Spec => [](part = "sockets" => SO!SocketsTypeOK)
  <1> DEFINE I == part = "sockets" => SocketsInv /\ SocketsBound
  <1>1. Init => I
    BY SocketsStart, Bounds DEF Init, SO!SocketsInit, SocketsBound
  <1>2. I /\ [Next]_allVars => I'
    <2> SUFFICES ASSUME SocketsInv, SocketsBound, part = "sockets", [Next]_allVars
                 PROVE  SocketsBound'
      BY PartSteps, SocketsStep
    <2>1. CASE SO!SocketsNext
      BY <2>1, SocketsBoundStep
    <2>2. CASE UNCHANGED SocketsVars
      BY <2>2 DEF SocketsVars, SocketsBound
    <2> QED BY <2>1, <2>2, PartSteps
  <1>3. I => (part = "sockets" => SO!SocketsTypeOK)
    <2> SUFFICES ASSUME SocketsInv, SocketsBound PROVE SO!SocketsTypeOK
      OBVIOUS
    <2>0. SocketsTyped /\ Numbered
      BY DEF SocketsInv
    <2>1. \A v \in Conversations : sessions[v] \in
              [controller : SO!Controllers \cup {0}, connected : BOOLEAN]
      BY <2>0, Bounds DEF SocketsTyped, Numbered, SocketsBound, SO!Controllers
    <2>2. sessions \in [Conversations ->
              [controller : SO!Controllers \cup {0}, connected : BOOLEAN]]
      BY <2>0, <2>1 DEF SocketsTyped
    <2>3. has \in [Connections -> SO!Controllers \cup {0}]
      BY Bounds DEF SocketsBound, SO!Controllers
    <2> QED BY <2>0, <2>2, <2>3, Bounds
            DEF SocketsTyped, SocketsBound, SO!SocketsTypeOK, SO!Places, SO!Unknown, SO!Free
  <1> QED BY <1>1, <1>2, <1>3, PTL DEF Spec

\* Tokens are numbered as they are given out; a task whose refresh was answered
\* holds the new one and knows the one it was given for.
CredentialsBound ==
    /\ stored \in CR!Tokens /\ minted \in CR!Tokens
    /\ valid \subseteq CR!Tokens /\ refused \subseteq CR!Tokens
    /\ expired \in CR!Tokens \cup {CR!NoToken}
    /\ force \in [Tasks -> BOOLEAN] /\ lost \in BOOLEAN
    /\ held \in [Tasks -> CR!Tokens \cup {CR!NoToken}]
    /\ stale \in [Tasks -> CR!Tokens \cup {CR!NoToken}]
    /\ exchanged \in [CR!Processes -> SUBSET CR!Tokens]
    /\ \A t \in Tasks : stage[t] = "reply" => held[t] # CR!NoToken /\ stale[t] # CR!NoToken

\* A token that is minted is within the bound; the others were around before.
LEMMA CredentialsBoundStep ==
    ASSUME CredentialsTyped, CredentialsBound, CR!CredentialsNext
    PROVE  CredentialsBound'
  <1> USE DEF CredentialsBound, CR!service, CR!Moves, CR!Takes
  <1>0. stage \in [Tasks -> CR!Stages]
    BY DEF CredentialsTyped
  <1>n. CR!NoToken \notin CR!Tokens
    BY DEF CR!NoToken, CR!Tokens
  <1>m. minted < MaxTokens => minted + 1 \in CR!Tokens
    BY Bounds DEF CR!Tokens
  <1>1. ASSUME NEW t \in Tasks, CR!Ask(t)
        PROVE  CredentialsBound'
    BY <1>0, <1>1 DEF CR!Ask
  <1>2. ASSUME NEW t \in Tasks, CR!Load(t)
        PROVE  CredentialsBound'
    <2>1. stage[t] # "reply" /\ \A u \in Tasks : stage'[u] = "reply" => stage[u] = "reply" /\ u # t
      BY <1>0, <1>2 DEF CR!Load
    <2> QED BY <1>0, <1>2, <2>1 DEF CR!Load
  <1>3. ASSUME NEW t \in Tasks, CR!LockAndReload(t)
        PROVE  CredentialsBound'
    <2>1. \A u \in Tasks : stage'[u] = "reply" => stage[u] = "reply" /\ u # t
      BY <1>0, <1>3 DEF CR!LockAndReload
    <2> QED BY <1>0, <1>3, <2>1 DEF CR!LockAndReload
  <1>4. ASSUME NEW t \in Tasks, CR!Rotate(t)
        PROVE  CredentialsBound'
    <2>1. minted + 1 \in CR!Tokens /\ held[t] \in CR!Tokens
      BY <1>4, <1>m DEF CR!Rotate
    <2>2. held' = [held EXCEPT ![t] = minted + 1] /\ stale' = [stale EXCEPT ![t] = held[t]]
      BY <1>4 DEF CR!Rotate
    <2>3. held' \in [Tasks -> CR!Tokens \cup {CR!NoToken}]
          /\ stale' \in [Tasks -> CR!Tokens \cup {CR!NoToken}]
      BY <2>1, <2>2
    <2>4. minted' = minted + 1 /\ valid' = (valid \ {held[t]}) \cup {minted + 1}
          /\ stage' = [stage EXCEPT ![t] = "reply"]
          /\ UNCHANGED <<stored, refused, expired, force, exchanged, lost>>
      BY <1>4 DEF CR!Rotate
    <2>5. \A u \in Tasks : stage'[u] = "reply" => held'[u] # CR!NoToken /\ stale'[u] # CR!NoToken
      BY <1>0, <1>n, <2>1, <2>2, <2>4
    <2> QED BY <2>1, <2>3, <2>4, <2>5
  <1>5. ASSUME NEW t \in Tasks, CR!Save(t)
        PROVE  CredentialsBound'
    <2>1. held[t] \in CR!Tokens /\ stale[t] \in CR!Tokens
      BY <1>5 DEF CR!Save
    <2>2. exchanged' \in [CR!Processes -> SUBSET CR!Tokens]
      BY <1>5, <2>1 DEF CR!Save
    <2>3. \A u \in Tasks : stage'[u] = "reply" => stage[u] = "reply" /\ u # t
      BY <1>0, <1>5 DEF CR!Save
    <2> QED BY <1>5, <2>1, <2>2, <2>3 DEF CR!Save
  <1>6. ASSUME NEW t \in Tasks,
               CR!LoseReply(t) \/ CR!RefreshFails(t) \/ CR!Accepted(t)
        PROVE  CredentialsBound'
    <2>1. CR!Ends(t) /\ UNCHANGED <<stored, valid, refused, expired, minted, exchanged>>
          /\ lost' \in BOOLEAN
      BY <1>6 DEF CR!LoseReply, CR!RefreshFails, CR!Accepted
    <2>2. \A u \in Tasks : stage'[u] = "reply" => stage[u] = "reply" /\ u # t
      BY <1>0, <2>1 DEF CR!Ends
    <2> QED BY <2>1, <2>2 DEF CR!Ends
  <1>7. ASSUME NEW t \in Tasks, CR!Rejected(t)
        PROVE  CredentialsBound'
    <2>1. UNCHANGED <<stored, valid, refused, expired, minted, exchanged, lost>>
      BY <1>7 DEF CR!Rejected
    <2>2. \A u \in Tasks : stage'[u] = "reply" => stage[u] = "reply" /\ u # t
      BY <1>0, <1>7 DEF CR!Rejected, CR!Ends
    <2>3. CASE CR!Ends(t)
      BY <2>1, <2>2, <2>3 DEF CR!Ends
    <2>4. CASE CR!Takes(t, CR!NoToken) /\ force' = [force EXCEPT ![t] = TRUE] /\ UNCHANGED stale
      BY <2>1, <2>2, <2>4
    <2> QED BY <1>7, <2>3, <2>4 DEF CR!Rejected
  <1>8. ASSUME NEW k \in CR!Tokens, CR!Revoked(k)
        PROVE  CredentialsBound'
    BY <1>8 DEF CR!Revoked
  <1>9. ASSUME CR!Expire
        PROVE  CredentialsBound'
    <2>1. expired' \in CR!Tokens
      BY <1>9, Bounds DEF CR!Expire, CR!Tokens, CR!NoToken
    <2> QED BY <1>9, <2>1 DEF CR!Expire
  <1>10. ASSUME CR!LogIn
        PROVE  CredentialsBound'
    BY <1>10, <1>m DEF CR!LogIn
  <1> QED BY <1>1, <1>2, <1>3, <1>4, <1>5, <1>6, <1>7, <1>8, <1>9, <1>10
          DEF CR!CredentialsNext

\* The types of the credential.
LEMMA CredentialsTypes == Spec => [](part = "credentials" => CR!CredentialsTypeOK)
  <1> DEFINE I == part = "credentials" => CredentialsInv /\ CredentialsBound
  <1>1. Init => I
    <2> SUFFICES ASSUME CR!CredentialsInit PROVE CredentialsBound
      BY CredentialsStart DEF Init
    <2>1. 1 \in CR!Tokens /\ CR!NoToken = 0
      BY Bounds DEF CR!Tokens, CR!NoToken
    <2> QED BY <2>1 DEF CR!CredentialsInit, CredentialsBound
  <1>2. I /\ [Next]_allVars => I'
    <2> SUFFICES ASSUME CredentialsInv, CredentialsBound, part = "credentials", [Next]_allVars
                 PROVE  CredentialsBound'
      BY PartSteps, CredentialsStep
    <2>1. CASE CR!CredentialsNext
      BY <2>1, CredentialsBoundStep DEF CredentialsInv
    <2>2. CASE UNCHANGED CredentialsVars
      BY <2>2 DEF CredentialsVars, CredentialsBound
    <2> QED BY <2>1, <2>2, PartSteps
  <1>3. I => (part = "credentials" => CR!CredentialsTypeOK)
    BY DEF CredentialsInv, CredentialsTyped, CredentialsBound, CR!CredentialsTypeOK
  <1> QED BY <1>1, <1>2, <1>3, PTL DEF Spec

\* Requests and servers are numbered up to their bounds, and a line is of one
\* of the servers, in answer to one of the requests, or of none.
Returned == [how : {"none", "result", "error"}, line : MC!Lines,
             id : 0..MaxIds, server : 0..MaxServers]
McpBound ==
    /\ holder \in Callers \cup {MC!Nobody}
    /\ nextId \in 1..MaxIds + 1 /\ waitsFor \in 0..MaxIds
    /\ server \in 0..MaxServers /\ servers \in 0..MaxServers
    /\ initialized \in BOOLEAN /\ ready \in BOOLEAN
    /\ up \subseteq 1..MaxServers /\ asked \subseteq 1..MaxIds
    /\ stdout \in Seq(MC!Lines) /\ buffer \in Seq(MC!Lines)
    /\ noise \in 0..MaxNoise
    /\ given \in [Callers -> Returned]

\* A line that answers nothing is a line.
LEMMA NoiseIsLine == MC!Noise \in MC!Lines
  BY Bounds DEF MC!Noise, MC!Lines

\* A call returns with a line there may be.
LEMMA BoundReturn ==
    ASSUME McpBound, NEW c \in Callers, NEW how \in {"result", "error"},
           NEW line \in MC!Lines, MC!Returns(c, how, line)
    PROVE  /\ holder' \in Callers \cup {MC!Nobody} /\ waitsFor' \in 0..MaxIds
           /\ given' \in [Callers -> Returned]
  <1> DEFINE g == [how |-> how, line |-> line, id |-> waitsFor, server |-> server]
  <1>1. g \in Returned
    BY DEF McpBound, Returned
  <1>2. given' = [given EXCEPT ![c] = g] /\ holder' = MC!Nobody /\ waitsFor' = 0
    BY DEF MC!Returns
  <1> HIDE DEF g
  <1> QED BY <1>1, <1>2, Bounds DEF McpBound

\* Nothing is asked, started or written beyond its bound.
LEMMA McpBoundStep ==
    ASSUME McpBound, MC!McpStdioNext
    PROVE  McpBound'
  <1>0. MaxIds \in Nat /\ MaxServers \in Nat /\ MaxNoise \in Nat
    BY Bounds
  <1> USE <1>0, NoiseIsLine DEF McpBound
  <1>1. ASSUME NEW c \in Callers, MC!Lock(c)
        PROVE  McpBound'
    BY <1>1 DEF MC!Lock
  <1>2. ASSUME NEW c \in Callers, MC!Start(c)
        PROVE  McpBound'
    <2>1. /\ servers \in 0..MaxServers /\ servers < MaxServers /\ server' = servers + 1
          /\ servers' = servers + 1 /\ up' = up \cup {servers + 1}
      BY <1>2 DEF MC!Start
    <2>2. servers + 1 \in 1..MaxServers
      BY <2>1
    <2>3. server' \in 0..MaxServers /\ servers' \in 0..MaxServers /\ up' \subseteq 1..MaxServers
      BY <2>1, <2>2
    <2>4. stdout' \in Seq(MC!Lines) /\ buffer' \in Seq(MC!Lines)
      BY <1>2, EmptySeq DEF MC!Start
    <2>5. /\ UNCHANGED <<holder, nextId, waitsFor, initialized, given>>
          /\ asked' = {} /\ ready' = FALSE /\ noise' = MaxNoise
      BY <1>2 DEF MC!Start
    <2>6. noise' \in 0..MaxNoise
      BY <2>5
    <2> QED BY <2>3, <2>4, <2>5, <2>6
  <1>3. ASSUME NEW c \in Callers,
               MC!StartFails(c) \/ MC!WriteFails(c) \/ MC!EndOfFile(c)
        PROVE  McpBound'
    <2>1. MC!Returns(c, "error", MC!Noise)
      BY <1>3 DEF MC!StartFails, MC!WriteFails, MC!EndOfFile
    <2>2. UNCHANGED <<nextId, server, servers, initialized, up, asked, ready,
                      stdout, buffer, noise>>
      BY <1>3 DEF MC!StartFails, MC!WriteFails, MC!EndOfFile
    <2> QED BY <2>1, <2>2, BoundReturn
  <1>4. ASSUME NEW c \in Callers, MC!Initialize(c) \/ MC!Request(c)
        PROVE  McpBound'
    <2>1. MC!Ask(c, "hello") \/ MC!Ask(c, "call")
      BY <1>4 DEF MC!Initialize, MC!Request
    <2>2. nextId \in 1..MaxIds /\ waitsFor' = nextId /\ nextId' = nextId + 1
          /\ asked' = asked \cup {nextId}
      BY <2>1 DEF MC!Ask
    <2>3. waitsFor' \in 0..MaxIds /\ nextId' \in 1..MaxIds + 1 /\ asked' \subseteq 1..MaxIds
      BY <2>2
    <2>4. UNCHANGED <<holder, server, servers, initialized, up, ready, stdout,
                      buffer, noise, given>>
      BY <2>1 DEF MC!Ask
    <2> QED BY <2>3, <2>4
  <1>5. ASSUME NEW c \in Callers, MC!Greet(c)
        PROVE  McpBound'
    BY <1>5 DEF MC!Greet
  <1>6. ASSUME NEW c \in Callers, MC!ReadLine(c)
        PROVE  McpBound'
    <2>0. UNCHANGED <<nextId, server, servers, initialized, up, asked, ready, noise>>
      BY <1>6 DEF MC!ReadLine
    <2>1. buffer \o stdout \in Seq(MC!Lines) /\ buffer \o stdout # <<>>
      BY <1>6, ConcatProperties DEF MC!ReadLine
    <2>2. Head(buffer \o stdout) \in MC!Lines /\ Tail(buffer \o stdout) \in Seq(MC!Lines)
      BY <2>1, HeadTailProperties
    <2>3. buffer # <<>> => Tail(buffer) \in Seq(MC!Lines)
      BY HeadTailProperties
    <2>4. buffer' \in Seq(MC!Lines) /\ stdout' \in Seq(MC!Lines)
      <3>1. \/ buffer' = Tail(buffer \o stdout) /\ stdout' = <<>>
            \/ buffer # <<>> /\ buffer' = Tail(buffer) /\ stdout' = stdout
        BY <1>6 DEF MC!ReadLine
      <3> QED BY <2>2, <2>3, <3>1, EmptySeq
    <2>5. \/ UNCHANGED <<holder, waitsFor, given>>
          \/ waitsFor' = 0 /\ UNCHANGED <<holder, given>>
          \/ MC!Returns(c, "result", Head(buffer \o stdout))
          \/ MC!Returns(c, "error", Head(buffer \o stdout))
      BY <1>6 DEF MC!ReadLine
    <2> QED BY <2>0, <2>2, <2>4, <2>5, BoundReturn
  <1>7. ASSUME NEW c \in Callers, MC!TimesOut(c)
        PROVE  McpBound'
    <2>1. MC!Returns(c, "error", MC!Noise) /\ MC!Close
      BY <1>7 DEF MC!TimesOut
    <2>2. /\ server' = 0 /\ initialized' = FALSE /\ up' = up \ {server}
          /\ UNCHANGED <<nextId, servers, asked, ready, stdout, buffer, noise>>
      BY <2>1 DEF MC!Close
    <2>3. 0 \in 0..MaxServers
      OBVIOUS
    <2>4. /\ holder' \in Callers \cup {MC!Nobody} /\ waitsFor' \in 0..MaxIds
          /\ given' \in [Callers -> Returned]
      BY <2>1, BoundReturn
    <2> QED BY <2>2, <2>3, <2>4
  <1>8. ASSUME NEW c \in Callers, MC!Again(c)
        PROVE  McpBound'
    <2>1. MC!NoAnswer \in Returned
      BY DEF MC!NoAnswer, Returned
    <2> QED BY <1>8, <2>1 DEF MC!Again
  <1>9. ASSUME MC!CloseClient
        PROVE  McpBound'
    <2>1. /\ server' = 0 /\ initialized' = FALSE /\ up' = up \ {server}
          /\ UNCHANGED <<nextId, servers, asked, ready, stdout, buffer, noise,
                          holder, waitsFor, given>>
      BY <1>9 DEF MC!CloseClient, MC!Close
    <2>2. 0 \in 0..MaxServers
      OBVIOUS
    <2> QED BY <2>1, <2>2
  <1>10. ASSUME NEW id \in 1..MaxIds, MC!Reply(id)
         PROVE  McpBound'
    <2>1. [server |-> server, id |-> id] \in MC!Lines
      BY DEF MC!Lines
    <2> QED BY <1>10, <2>1, AppendProperties DEF MC!Reply
  <1>11. ASSUME MC!Chatter
         PROVE  McpBound'
    BY <1>11, AppendProperties DEF MC!Chatter
  <1>12. ASSUME MC!Dies
         PROVE  McpBound'
    BY <1>12 DEF MC!Dies
  <1> QED BY <1>1, <1>2, <1>3, <1>4, <1>5, <1>6, <1>7, <1>8, <1>9, <1>10, <1>11, <1>12
          DEF MC!McpStdioNext

\* The types of the MCP client.
LEMMA McpTypes == Spec => [](part = "mcp" => MC!McpStdioTypeOK)
  <1> DEFINE I == part = "mcp" => McpInv /\ McpBound
  <1>1. Init => I
    <2> SUFFICES ASSUME MC!McpStdioInit PROVE McpBound
      BY McpStart DEF Init
    <2>1. MC!NoAnswer \in Returned
      BY Bounds, NoiseIsLine DEF MC!NoAnswer, Returned
    <2>2. /\ 1 \in 1..MaxIds + 1 /\ 0 \in 0..MaxIds /\ 0 \in 0..MaxServers
          /\ MaxNoise \in 0..MaxNoise
      BY Bounds
    <2>3. stdout \in Seq(MC!Lines) /\ buffer \in Seq(MC!Lines)
      BY EmptySeq DEF MC!McpStdioInit
    <2> QED BY <2>1, <2>2, <2>3 DEF MC!McpStdioInit, McpBound
  <1>2. I /\ [Next]_allVars => I'
    <2> SUFFICES ASSUME McpInv, McpBound, part = "mcp", [Next]_allVars
                 PROVE  McpBound'
      BY PartSteps, McpStep
    <2>1. CASE MC!McpStdioNext
      BY <2>1, McpBoundStep
    <2>2. CASE UNCHANGED McpVars
      BY <2>2 DEF McpVars, McpBound
    <2> QED BY <2>1, <2>2, PartSteps
  <1>3. I => (part = "mcp" => MC!McpStdioTypeOK)
    <2> SUFFICES ASSUME McpInv, McpBound PROVE MC!McpStdioTypeOK
      OBVIOUS
    <2>1. \A i \in DOMAIN stdout : stdout[i] \in MC!Lines
      BY ElementOfSeq, LenProperties DEF McpBound
    <2>2. \A i \in DOMAIN buffer : buffer[i] \in MC!Lines
      BY ElementOfSeq, LenProperties DEF McpBound
    <2> QED BY <2>1, <2>2 DEF McpInv, McpTyped, McpBound, Returned, MC!McpStdioTypeOK
  <1> QED BY <1>1, <1>2, <1>3, PTL DEF Spec

\* The first calls, one answer each, are calls of the turn: the loop is never
\* beyond the last, nor is a batch, nor the denial that follows one.
TurnBound ==
    /\ kind \in [TT!TurnCalls -> TT!ToolKinds]
    /\ index <= MaxToolCalls + 1 /\ high <= MaxToolCalls
    /\ denied => high < MaxToolCalls
    /\ denied => phase \in {"gather", "collect", "over"}
    /\ cancelled \in BOOLEAN
    /\ outcome \in {"none", "answered", "cancelled", "failed", "interrupted"}

\* A batch grows, and a denial follows it, only while there is a next call.
LEMMA TurnBoundStep ==
    ASSUME TurnInv, TurnBound, TT!ToolTurnNext
    PROVE  TurnBound'
  <1>0. MaxToolCalls \in Nat /\ index \in Nat /\ high \in Nat
    BY Bounds DEF TurnInv, TurnTyped
  <1> USE <1>0 DEF TurnBound, TT!Over
  <1>1. CASE TT!TurnAnswered \/ TT!TurnCancelled \/ TT!Repeated
    BY <1>1 DEF TT!TurnAnswered, TT!TurnCancelled, TT!Repeated
  <1>2. CASE TT!AnswerAtOnce
    BY <1>2 DEF TT!AnswerAtOnce
  <1>3. CASE TT!Allow
    BY <1>3 DEF TT!Allow
  <1>4. CASE TT!Extend
    BY <1>4 DEF TT!Extend, TT!NextIsRead
  <1>5. CASE TT!CloseBatch
    BY <1>5 DEF TT!CloseBatch, TT!NextIsRead
  <1>6. CASE TT!AbandonBatch
    BY <1>6 DEF TT!AbandonBatch
  <1>7. ASSUME NEW i \in TT!TurnCalls, TT!StartThread(i) \/ TT!ThreadEnds(i)
        PROVE  TurnBound'
    BY <1>7 DEF TT!StartThread, TT!ThreadEnds
  <1>8. CASE TT!GatherFails
    BY <1>8 DEF TT!GatherFails, TT!CancelTasks
  <1>9. CASE TT!RunInterrupted
    BY <1>9 DEF TT!RunInterrupted, TT!CancelTasks
  <1>10. CASE TT!Collect
    <2>1. index' = high + (IF denied THEN 2 ELSE 1) /\ denied' = FALSE
          /\ UNCHANGED <<kind, high, cancelled>>
      BY <1>10 DEF TT!Collect
    <2>2. outcome' = "cancelled" \/ outcome' = outcome
      BY <1>10 DEF TT!Collect
    <2> QED BY <2>1, <2>2
  <1>11. CASE TT!BatchOver
    BY <1>11 DEF TT!BatchOver
  <1>12. CASE TT!UserCancels
    BY <1>12 DEF TT!UserCancels
  <1> QED BY <1>1, <1>2, <1>3, <1>4, <1>5, <1>6, <1>7, <1>8, <1>9, <1>10, <1>11, <1>12
          DEF TT!ToolTurnNext

\* The types of the turn: its answers are the first calls.
LEMMA TurnTypes == Spec => [](part = "toolturn" => TT!ToolTurnTypeOK)
  <1> DEFINE I == part = "toolturn" => TurnInv /\ TurnBound
  <1>1. Init => I
    <2> SUFFICES ASSUME TT!ToolTurnInit PROVE TurnBound
      BY TurnStart DEF Init
    <2>1. index <= MaxToolCalls + 1 /\ high <= MaxToolCalls
      BY Bounds DEF TT!ToolTurnInit
    <2> QED BY <2>1 DEF TT!ToolTurnInit, TurnBound
  <1>2. I /\ [Next]_allVars => I'
    <2> SUFFICES ASSUME TurnInv, TurnBound, part = "toolturn", [Next]_allVars
                 PROVE  TurnBound'
      BY PartSteps, TurnStep
    <2>1. CASE TT!ToolTurnNext
      BY <2>1, TurnBoundStep
    <2>2. CASE UNCHANGED ToolTurnVars
      BY <2>2 DEF ToolTurnVars, TurnBound
    <2> QED BY <2>1, <2>2, PartSteps
  <1>3. I => (part = "toolturn" => TT!ToolTurnTypeOK)
    <2> SUFFICES ASSUME TurnInv, TurnBound PROVE TT!ToolTurnTypeOK
      OBVIOUS
    <2>0. TurnTyped /\ Batched
      BY DEF TurnInv
    <2>1. index \in 1..MaxToolCalls + 1 /\ high \in 0..MaxToolCalls
      BY <2>0, Bounds DEF TurnTyped, TurnBound
    <2>2. \A i \in DOMAIN messages : messages[i] \in TT!TurnCalls
      BY <2>0, <2>1, Bounds DEF TurnTyped, Counted, TT!TurnCalls
    <2> QED BY <2>0, <2>1, <2>2 DEF TurnTyped, Batched, TurnBound, TT!ToolTurnTypeOK
  <1> QED BY <1>1, <1>2, <1>3, PTL DEF Spec

\* The types of the event log are part of its invariant.
LEMMA LogTypes == Spec => [](part = "eventlog" => EL!EventLogTypeOK)
  <1>1. LogInv => EL!EventLogTypeOK
    <2> SUFFICES ASSUME LogInv PROVE EL!EventLogTypeOK
      OBVIOUS
    <2>0. LogTyped
      BY DEF LogInv
    <2>1. \A i \in DOMAIN log : log[i] \in 1..MaxEvents
      BY <2>0, ElementOfSeq, LenProperties DEF LogTyped
    <2> QED BY <2>0, <2>1 DEF LogTyped, Places, Lives, EL!EventLogTypeOK
  <1> QED BY <1>1, LogInvariance, PTL

\* The call asks what a call may ask, and what was applied or has a directory
\* is an agent.
SubagentsBound ==
    /\ plan \in Plans \cup {SA!Idle}
    /\ applied \subseteq Agents /\ dirs \subseteq Agents

\* Only a transaction of an agent is applied, only an agent makes a directory.
LEMMA SubagentsBoundStep ==
    ASSUME SubagentsInv, SubagentsBound, SA!SubagentsNext
    PROVE  SubagentsBound'
  <1> USE DEF SubagentsBound
  <1>1. ASSUME NEW p \in Plans, SA!Dispatch(p)
        PROVE  SubagentsBound'
    BY <1>1 DEF SA!Dispatch
  <1>2. CASE SA!StartWave \/ SA!WaveReturns \/ SA!WaveCancelled
    BY <1>2 DEF SA!StartWave, SA!WaveReturns, SA!WaveCancelled, SA!Answers
  <1>3. ASSUME NEW how \in {"refused", "raised"}, SA!WaveRaises(how)
        PROVE  SubagentsBound'
    BY <1>3 DEF SA!WaveRaises, SA!Answers
  <1>4. ASSUME NEW why \in {"timeout", "interrupt"}, NEW s \in SUBSET Agents,
               SA!CancelWave(why, s)
        PROVE  SubagentsBound'
    BY <1>4 DEF SA!CancelWave
  <1>5. ASSUME NEW a \in Agents, SA!Account(a) \/ SA!BeginTransaction(a)
        PROVE  SubagentsBound'
    BY <1>5 DEF SA!Account, SA!BeginTransaction
  <1>6. CASE SA!TransactionSucceeds
    <2>1. txn \in Agents
      BY <1>6 DEF SA!TransactionSucceeds, SubagentsInv, AgentsTyped, Waved
    <2> QED BY <1>6, <2>1 DEF SA!TransactionSucceeds
  <1>7. CASE SA!TransactionFails \/ SA!DispatchCompletes
    BY <1>7 DEF SA!TransactionFails, SA!DispatchCompletes, SA!Answers
  <1>8. ASSUME NEW c \in SA!Calls, NEW a \in Agents,
               \/ SA!Started(c, a) \/ SA!Works(c, a) \/ SA!Fails(c, a) \/ SA!Reported(c, a)
               \/ \E status \in {"completed", "failed"} : SA!Returns(c, a, status)
        PROVE  SubagentsBound'
    <2>1. UNCHANGED <<plan, applied>> /\ (dirs' = dirs \/ dirs' = dirs \cup {a})
      BY <1>8 DEF SA!Started, SA!Works, SA!Fails, SA!Reported, SA!Returns
    <2> QED BY <2>1
  <1>9. CASE SA!Finish \/ SA!Interrupt \/ SA!Release
    BY <1>9 DEF SA!Finish, SA!Interrupt, SA!Release
  <1> QED BY <1>1, <1>2, <1>3, <1>4, <1>5, <1>6, <1>7, <1>8, <1>9
          DEF SA!SubagentsNext

\* The types of the subagents.
LEMMA SubagentsTypes == Spec => [](part = "subagents" => SA!SubagentsTypeOK)
  <1> DEFINE I == part = "subagents" => SubagentsInv /\ SubagentsBound
  <1>1. Init => I
    BY SubagentsStart DEF Init, SA!SubagentsInit, SubagentsBound
  <1>2. I /\ [Next]_allVars => I'
    <2> SUFFICES ASSUME SubagentsInv, SubagentsBound, part = "subagents", [Next]_allVars
                 PROVE  SubagentsBound'
      BY PartSteps, SubagentsStep
    <2>1. CASE SA!SubagentsNext
      BY <2>1, SubagentsBoundStep
    <2>2. CASE UNCHANGED SubagentsVars
      BY <2>2 DEF SubagentsVars, SubagentsBound
    <2> QED BY <2>1, <2>2, PartSteps
  <1>3. I => (part = "subagents" => SA!SubagentsTypeOK)
    <2> SUFFICES ASSUME SubagentsInv, SubagentsBound PROVE SA!SubagentsTypeOK
      OBVIOUS
    <2>1. txn \in Agents \cup {SA!None}
      BY DEF SubagentsInv, AgentsTyped, Waved
    <2>2. pending \subseteq Agents
      BY DEF SubagentsInv, AgentsTyped
    <2> QED BY <2>1, <2>2 DEF SubagentsInv, AgentsTyped, SubagentsBound, SA!SubagentsTypeOK
  <1> QED BY <1>1, <1>2, <1>3, PTL DEF Spec

(* The eight parts keep their types: every variable of the part at work    *)
(* stays among the values its code can give it, and every count within its *)
(* bound: callback slots, controllers, tokens, requests, servers, calls    *)
(* and events.                                                             *)
THEOREM TypeCorrect == Spec => []TypeOK
  <1> DEFINE Types == /\ part \in Parts
                      /\ part = "subagents" => SA!SubagentsTypeOK
                      /\ part = "toolturn" => TT!ToolTurnTypeOK
                      /\ part = "process" => LP!LocalProcessTypeOK
                      /\ part = "mcp" => MC!McpStdioTypeOK
                      /\ part = "credentials" => CR!CredentialsTypeOK
                      /\ part = "sockets" => SO!SocketsTypeOK
                      /\ part = "eventlog" => EL!EventLogTypeOK
                      /\ part = "claude" => CS!ClaudeSessionTypeOK
  <1>1. Types => TypeOK
    BY DEF Parts, TypeOK
  <1>2. (part = "process" => ProcessInv) => (part = "process" => LP!LocalProcessTypeOK)
    BY ProcessTypes
  <1>3. (part = "claude" => ClaudeInv) => (part = "claude" => CS!ClaudeSessionTypeOK)
    BY DEF ClaudeInv, ClaudeTyped
  <1>4. Spec => []Types
    BY <1>2, <1>3, PartStays, SubagentsTypes, TurnTypes, ProcessInvariance, McpTypes,
       CredentialsTypes, SocketsTypes, LogTypes, ClaudeInvariance, PTL
  <1> QED BY <1>1, <1>4, PTL
=============================================================================
