------------------------------ MODULE Rulebook ------------------------------
(***************************************************************************)
(* Policy rulebooks, src/policy.ts: which rulebooks are accepted and what an     *)
(* accepted rulebook says of the facts.                                      *)
(*                                                                          *)
(* A rulebook has rules, a sequence of [id, priority, when, outcome,           *)
(* reasonCode], and a defaultOutcome.  A condition is                         *)
(*   [op |-> "eq", fact, value], [op |-> "in", fact, values],                  *)
(*   [op |-> "not", condition] or [op |-> "all" or "any", conditions].         *)
(* The shape of the JSON, closed key sets and identifiers are left out.       *)
(***************************************************************************)
EXTENDS PolicyFacts, SequencesExt, Integers

CONSTANTS MAX_RULES, MAX_CONDITION_DEPTH, MAX_CONDITIONS, MAX_GROUP_WIDTH, MAX_PRIORITY

----------------------------------------------------------------------------
(* Conditions.                                                              *)
Children(condition) ==
    CASE condition.op \in {"all", "any"} -> condition.conditions
      [] condition.op = "not" -> <<condition.condition>>
      [] OTHER -> <<>>

RECURSIVE Size(_)
Size(condition) == 1 + FoldLeft(LAMBDA n, child : n + Size(child), 0, Children(condition))

RECURSIVE WellFormed(_, _)
WellFormed(condition, depth) ==
    /\ depth <= MAX_CONDITION_DEPTH
    /\ condition.op \in {"eq", "in", "all", "any", "not"}
    /\ condition.op \in {"eq", "in"} => condition.fact \in DOMAIN POLICY_FACT_VALUES
    /\ condition.op = "eq" => condition.value \in POLICY_FACT_VALUES[condition.fact]
    /\ condition.op = "in" =>
           /\ Len(condition.values) \in 1 .. MAX_GROUP_WIDTH
           /\ ToSet(condition.values) \subseteq POLICY_FACT_VALUES[condition.fact]
           /\ IsInjective(condition.values)
    /\ condition.op \in {"all", "any"} => Len(condition.conditions) \in 1 .. MAX_GROUP_WIDTH
    /\ \A i \in DOMAIN Children(condition) : WellFormed(Children(condition)[i], depth + 1)

validateCondition(condition) == WellFormed(condition, 0) /\ Size(condition) <= MAX_CONDITIONS

RECURSIVE evaluateCondition(_, _)
evaluateCondition(condition, facts) ==
    CASE condition.op = "eq"  -> facts[condition.fact] = condition.value
      [] condition.op = "in"  -> facts[condition.fact] \in ToSet(condition.values)
      [] condition.op = "not" -> ~evaluateCondition(condition.condition, facts)
      [] condition.op = "all" -> \A i \in DOMAIN condition.conditions :
                                     evaluateCondition(condition.conditions[i], facts)
      [] condition.op = "any" -> \E i \in DOMAIN condition.conditions :
                                     evaluateCondition(condition.conditions[i], facts)

----------------------------------------------------------------------------
(* Rulebooks.                                                               *)
validateRulebook(rulebook) ==
    LET rules == rulebook.rules
    IN  /\ rulebook.defaultOutcome = "unresolved"
        /\ Len(rules) \in 1 .. MAX_RULES
        /\ \A i, j \in DOMAIN rules :
               i # j => rules[i].id # rules[j].id /\ rules[i].priority # rules[j].priority
        /\ \A i \in DOMAIN rules : /\ rules[i].priority \in 0 .. MAX_PRIORITY
                                   /\ rules[i].outcome \in ALLOWED_OUTCOMES
                                   /\ validateCondition(rules[i].when)

\* orderedRules: the first rule that matches is the one of the highest priority.
evaluateRulebook(rulebook, facts) ==
    LET matching == {rule \in ToSet(rulebook.rules) : evaluateCondition(rule.when, facts)}
        first    == CHOOSE rule \in matching : \A other \in matching : rule.priority >= other.priority
    IN  IF matching = {}
        THEN [outcome |-> rulebook.defaultOutcome, reasonCode |-> "unresolved_default"]
        ELSE [outcome |-> first.outcome, reasonCode |-> first.reasonCode]

----------------------------------------------------------------------------
(* rulebooks/v1/mandate-to-liability.v1.json, the reference rulebook.         *)
Eq(fact, value)  == [op |-> "eq", fact |-> fact, value |-> value]
In(fact, values) == [op |-> "in", fact |-> fact, values |-> values]
AllOf(conditions)  == [op |-> "all", conditions |-> conditions]
AnyOf(conditions)  == [op |-> "any", conditions |-> conditions]
Not(condition)   == [op |-> "not", condition |-> condition]

Rule(id, priority, when, outcome, reasonCode) ==
    [id |-> id, priority |-> priority, when |-> when, outcome |-> outcome, reasonCode |-> reasonCode]

CompliantExecution ==
    <<Eq("evidence_state", "sufficient"), Eq("mandate_state", "valid"), Eq("receipt_state", "trusted"),
      Eq("execution_state", "compliant"), Eq("operator_controls", "compliant"),
      Eq("operator_violation", "none")>>

MandateToLiability ==
    <<Rule("invalid-input-or-evidence", 1000,
           AnyOf(<<Eq("input_state", "invalid"), Eq("evidence_state", "tampered"),
                 Eq("policy_state", "invalid"), In("trust_state", <<"mismatch", "invalid">>)>>),
           "unresolved", "invalid_evidence"),
      Rule("conflicting-or-multi-causal-evidence", 900,
           AnyOf(<<Eq("evidence_state", "contradictory"),
                 In("causation_state", <<"conflicting", "multi_causal">>)>>),
           "unresolved", "conflicting_evidence"),
      Rule("trusted-operator-violation", 800,
           AllOf(<<Eq("receipt_state", "trusted"),
                 In("operator_violation",
                    <<"invalid_mandate", "expired_mandate", "revoked_mandate",
                      "replayed_execution", "out_of_scope", "control_failure">>)>>),
           "operator", "operator_executed_outside_valid_mandate"),
      Rule("proven-model-vendor-causation", 700,
           AllOf(CompliantExecution \o <<Eq("model_provenance", "matched"), Eq("causation_state", "sufficient")>>),
           "model_vendor", "trusted_model_vendor_causation"),
      Rule("valid-authorized-execution", 600,
           AllOf(CompliantExecution \o <<Eq("policy_state", "active"), Eq("trust_state", "pinned")>>),
           "principal", "principal_authorized_compliant_execution"),
      Rule("missing-required-evidence", 500,
           AnyOf(<<Eq("evidence_state", "missing"), Eq("mandate_state", "missing"),
                 Eq("receipt_state", "missing"), Eq("execution_state", "missing")>>),
           "unresolved", "missing_required_evidence")>>
=============================================================================
