---------------------------- MODULE PolicyFacts ----------------------------
(***************************************************************************)
(* The closed vocabulary between the engine and the rulebooks, src/policy.ts:  *)
(* the names of the facts with their values, and the outcomes.               *)
(***************************************************************************)
EXTENDS Integers

POLICY_FACT_VALUES ==
    [input_state        |-> {"valid", "invalid"},
     evidence_state     |-> {"sufficient", "missing", "tampered", "contradictory"},
     policy_state       |-> {"active", "inactive", "invalid"},
     trust_state        |-> {"pinned", "mismatch", "invalid"},
     mandate_state      |-> {"valid", "invalid", "expired", "revoked", "out_of_scope", "missing"},
     receipt_state      |-> {"trusted", "untrusted", "missing"},
     execution_state    |-> {"compliant", "noncompliant", "replayed", "missing"},
     operator_controls  |-> {"compliant", "noncompliant", "unknown"},
     operator_violation |-> {"none", "invalid_mandate", "expired_mandate", "revoked_mandate",
                             "replayed_execution", "out_of_scope", "control_failure"},
     model_provenance   |-> {"matched", "mismatched", "missing"},
     causation_state    |-> {"sufficient", "insufficient", "conflicting", "multi_causal", "missing"}]

ALLOWED_OUTCOMES == {"principal", "operator", "model_vendor", "unresolved"}

\* assertValidPolicyFacts: a value of the vocabulary for every name.
ValidPolicyFacts(facts) ==
    /\ DOMAIN facts = DOMAIN POLICY_FACT_VALUES
    /\ \A name \in DOMAIN POLICY_FACT_VALUES : facts[name] \in POLICY_FACT_VALUES[name]
=============================================================================
