------------------------------ MODULE Severity ------------------------------
(***************************************************************************)
(* How a notification gets its severity: an explicit value, the outcome of *)
(* the execution, the rules of the receiver and of its presets, and the    *)
(* receiver's default, in this order.                                      *)
(*                                                                         *)
(* A message is the set of the rules whose pattern it matches, and its     *)
(* headers; a header is a value, or a word that is none.                   *)
(***************************************************************************)
EXTENDS Integers, Sequences, FiniteSets, SequencesExt

CONSTANTS
    Null,           \* a missing header, and NULL in a column
    Int4Max,        \* largest value of the column exit_code
    Int8Max         \* largest value of the column duration_ms

ASSUME WidthAssumption == Int4Max \in Nat /\ Int8Max \in Nat

Severities == {"debug", "info", "warning", "error", "critical"}

SEVERITY_ORDER ==
    [debug |-> 10, info |-> 20, warning |-> 30, error |-> 40, critical |-> 50]

-----------------------------------------------------------------------------
(* The headers. *)

_parse_explicit_severity(value) == IF value \in Severities THEN value ELSE Null

\* A number that does not fit its column counts as no number.
parse_exit_code(value) == IF value \in -Int4Max - 1 .. Int4Max THEN value ELSE Null

parse_duration_ms(value) == IF value \in 0 .. Int8Max THEN value ELSE Null

\* Mistake: the threshold itself already exceeds.
duration_reaches_threshold(duration_ms, threshold_seconds, duration_severity) ==
    /\ duration_ms # Null /\ threshold_seconds # Null /\ duration_severity # Null
    /\ duration_ms >= threshold_seconds * 1000

duration_exceeds_threshold(duration_ms, threshold_seconds, duration_severity) ==
    /\ duration_ms # Null /\ threshold_seconds # Null /\ duration_severity # Null
    /\ duration_ms > threshold_seconds * 1000

-----------------------------------------------------------------------------
(* The rules. *)

\* ORDER BY: the members of S by their keys, which are distinct.
InOrder(S, key) ==
    [i \in 1 .. Cardinality(S) |->
        CHOOSE x \in S : Cardinality({y \in S : key[y] < key[x]}) = i - 1]

\* The enabled rules of one list by priority, as they are handed to the engine.
\* rows holds the rules of every list.
Enabled(rows, list, preset) ==
    LET found == {x \in DOMAIN rows : rows[x].list = list /\ rows[x].enabled}
        ordered == InOrder(found, [x \in found |-> rows[x].priority])
    IN  [i \in DOMAIN ordered |->
            [id |-> ordered[i], severity |-> rows[ordered[i]].severity, preset |-> preset]]

\* The two statements that read the rules.
load_own_rules(rows, receiver) == Enabled(rows, receiver, FALSE)
load_preset_rules(rows, presets) ==
    FlattenSeq([n \in DOMAIN presets |-> Enabled(rows, presets[n], TRUE)])

-----------------------------------------------------------------------------
(* The decision. *)

Resolution(severity, source, rule, slow) ==
    [severity |-> severity, source |-> source, rule |-> rule, duration_exceeded |-> slow]

\* The more severe of the two facts of an execution, an exit code other than 0 and
\* a duration above the threshold; of two equals the exit code.
Outcome(failed, slow, policy) ==
    IF failed /\ (~slow \/ SEVERITY_ORDER[policy.exit_code_severity]
                             >= SEVERITY_ORDER[policy.duration_severity])
    THEN Resolution(policy.exit_code_severity, "exit_code", Null, slow)
    ELSE Resolution(policy.duration_severity, "duration", Null, slow)

\* policy holds the columns of the receiver; exit_code and duration_ms are parsed.
resolve_severity(header, query, exit_code, duration_ms, policy, chain, content) ==
    LET slow == duration_exceeds_threshold(duration_ms, policy.duration_threshold_seconds,
                                           policy.duration_severity)
        failed == exit_code \notin {Null, 0} /\ policy.exit_code_severity # Null
        explicit == IF _parse_explicit_severity(header) # Null
                    THEN _parse_explicit_severity(header)
                    ELSE _parse_explicit_severity(query)
        hit == SelectInSeq(chain, LAMBDA rule : rule.id \in content)
    IN  CASE explicit # Null -> Resolution(explicit, "explicit", Null, slow)
          [] explicit = Null /\ (failed \/ slow) -> Outcome(failed, slow, policy)
          [] explicit = Null /\ ~failed /\ ~slow /\ hit # 0 ->
               Resolution(chain[hit].severity, IF chain[hit].preset THEN "preset_rule" ELSE "rule",
                          chain[hit].id, slow)
          [] OTHER -> Resolution(policy.default_severity, "receiver_default", Null, slow)
=============================================================================
