------------------------------ MODULE MCRules -------------------------------
(* Rules with one preset: two rules of the receiver, two to be created, one of  *)
(* the preset. *)
EXTENDS Rules, TLC

CONSTANTS a, b, n1, n2, ps, receiver, preset, Word

MCRules == {a, b, n1, n2, ps}
MCIds == <<n1, b, a, n2, ps>>
MCPresets == <<preset>>
MCListOf == [x \in Rules |-> IF x = ps THEN preset ELSE receiver]
MCSeverityOf == a :> "warning" @@ b :> "error" @@ n1 :> "debug" @@ n2 :> "debug" @@ ps :> "critical"

First == a :> 10 @@ b :> 30 @@ ps :> 10
MCInitialRows ==
    [x \in Rules |-> IF x \in DOMAIN First THEN Row(x, First[x], TRUE) ELSE NoRow]

Policy(exit_code, seconds, duration, default) ==
    [exit_code_severity |-> exit_code, duration_threshold_seconds |-> seconds,
     duration_severity |-> duration, default_severity |-> default]
MCPolicies == {Policy("warning", 1, "error", "info")}

\* A value of each header at each side of its limits.
Message(header, query, exit_code, duration_ms, content) ==
    [header |-> header, query |-> query, exit_code |-> exit_code,
     duration_ms |-> duration_ms, content |-> content]
MCMessages ==
    {Message(Null, Null, Null, Null, content) : content \in {{}, {a, b}, {b, n1, ps}}}
    \cup {Message(Null, Null, e, 1001, {a}) : e \in {0, 1, Int4Max + 1}}
    \cup {Message(Null, Null, 1, d, {a}) : d \in {-1, 1000, Int8Max + 1}}
    \cup {Message(Word, "debug", 1, 1001, {a})}

Interchangeable == Permutations(Requests)
=============================================================================
