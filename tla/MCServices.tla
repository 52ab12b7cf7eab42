----------------------------- MODULE MCServices -----------------------------
(* Calls of three agents worth asking; requests of two processes; the event *)
(* log until a stray write has landed, which is all its property speaks of. *)
EXTENDS Services

CONSTANTS x, y, z, p, q

MCPlans ==
    {[deps |-> [a \in {x, y} |-> {}], proposes |-> {y}],
     [deps |-> [a \in {x, y, z} |-> IF a = z THEN {x, y} ELSE {}], proposes |-> {x}],
     [deps |-> [a \in {x, y} |-> {x, y} \ {a}], proposes |-> {}]}

MCTasks == {<<p, 1>>, <<p, 2>>, <<q, 1>>}

UntilStray == part = "eventlog" => ~struck
=============================================================================
