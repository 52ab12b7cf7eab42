SPECIFICATION Spec
CONSTANTS
    x = x
    y = y
    z = z
    p = p
    q = q
    Agents = {x, y, z}
    Plans <- MCPlans
    MaxCalls = 2
    MaxToolCalls = 4
    Runs = {r1, r2}
    Slots = 1
    MaxOutput = 2
    Callers = {t1, t2}
    MaxIds = 5
    MaxServers = 2
    MaxNoise = 1
    Tasks <- MCTasks
    MaxTokens = 3
    MaxRefused = 1
    Conversations = {v, w}
    Connections = {k1, k2, k3}
    MaxControllers = 3
    Peers = {s1, s2}
    MaxWriters = 2
    MaxEvents = 2
    MaxAsked = 2
    MaxUses = 2
CONSTRAINT UntilStray
INVARIANTS TypeOK WaveOrder ReportIsWhole TurnInOrder SlotsConserved
           ResultIsTrue AnswerIsOwn TokenChain OwnController
           OnlyStraysBreak InStep
CHECK_DEADLOCK FALSE
