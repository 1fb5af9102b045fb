------------------------------ MODULE MCEngine ------------------------------
(***************************************************************************)
(* Four cases, each allocated by the reference rulebook, and every case that    *)
(* differs from one of them in one part or in two.                            *)
(***************************************************************************)
EXTENDS Engine

CONSTANTS MAX_RULES, MAX_CONDITION_DEPTH, MAX_CONDITIONS, MAX_GROUP_WIDTH, MAX_PRIORITY

Rules == INSTANCE Rulebook

AlwaysRule(outcome) ==
    <<Rules!Rule("always", 2000,
                 Rules!AnyOf(<<Rules!Eq("input_state", "invalid"), Rules!Not(Rules!Eq("input_state", "invalid"))>>),
                 outcome, "always")>>

Nested[n \in Nat] == IF n = 0 THEN Rules!Eq("input_state", "valid") ELSE Rules!Not(Nested[n - 1])

\* The rules of a rulebook, which a case holds by name.
RulesNamed ==
    [reference    |-> Rules!MandateToLiability,
     principal    |-> AlwaysRule("principal") \o Rules!MandateToLiability,
     operator     |-> AlwaysRule("operator") \o Rules!MandateToLiability,
     model_vendor |-> AlwaysRule("model_vendor") \o Rules!MandateToLiability,
     ambiguous    |-> AlwaysRule("principal") \o AlwaysRule("operator"),
     deep         |-> <<Rules!Rule("deep", 1, Nested[9], "principal", "deep")>>,
     nested       |-> <<Rules!Rule("nested", 1, Nested[8], "principal", "nested")>>]

MCEvaluateRulebook(rulebook, facts) ==
    Rules!evaluateRulebook([rulebook EXCEPT !.rules = RulesNamed[@]], facts)
MCValidateRulebook(rulebook) == Rules!validateRulebook([rulebook EXCEPT !.rules = RulesNamed[@]])

\* Each artifact has a number for its identifier and one for its digest.
Ref(type, n) == [type |-> type, id |-> n, digest |-> n]
Elsewhere(ref) == [ref EXCEPT !.digest = 99]

Actor(role, id) == [role |-> role, id |-> id]
alice == Actor("principal", "alice")
oscar == Actor("operator", "oscar")
vera  == Actor("model_vendor", "vera")

\* [record EXCEPT ...] for each <<field, value>>, one at a time.
Edits(record, changes) == {[record EXCEPT ![change[1]] = change[2]] : change \in changes}

----------------------------------------------------------------------------
(* The parts the cases share.  Cutoff 20, executed at 10.                    *)
policyRef   == Ref("liability_policy", 1)
rulebookRef == Ref("rulebook", 2)
trustRef    == Ref("trust_snapshot", 3)
mandateRef  == Ref("mandate_envelope", 4)
receiptRef  == Ref("execution_receipt", 5)
incidentRef == Ref("incident_report", 6)

policy ==
    [ref |-> policyRef, proof |-> "ok", issuedAt |-> 0, effectiveFrom |-> 0, effectiveUntil |-> 30,
     rulebookRef |-> rulebookRef, trustSnapshotRef |-> trustRef, principalId |-> "alice",
     operatorId |-> "oscar", modelVendorIds |-> {"vera", "victor"},
     allowedMethods |-> {"counterfactual_replay"}]

rulebook ==
    [ref |-> rulebookRef, proof |-> "ok", issuedAt |-> 0, rules |-> "reference",
     defaultOutcome |-> "unresolved"]

trustSnapshot == [ref |-> trustRef, proof |-> "ok"]

mandate ==
    [ref |-> mandateRef, proof |-> "ok", issuedAt |-> 4, validFrom |-> 5, expiresAt |-> 15,
     principal |-> alice, operator |-> oscar, agent |-> Actor("agent", "bot"), modelVendor |-> vera,
     policyRef |-> policyRef, rulebookRef |-> rulebookRef, nonce |-> "n1",
     actions |-> {[kind |-> "pay", targets |-> {"shop"}, counterparties |-> {"shop-co"},
                   asset |-> "EUR", maxMinorUnits |-> 100]},
     maxExecutions |-> 2, requiredControls |-> {"limit"}]

action == [kind |-> "pay", target |-> "shop", counterparty |-> "shop-co",
           quantity |-> [asset |-> "EUR", minorUnits |-> 100]]

Event(n, sequence, type, actor) ==
    [ref |-> Ref("runtime_event", n), proof |-> "ok", sequence |-> sequence, executionId |-> "x1",
     actionDigest |-> action, eventType |-> type, observedAt |-> 9, parentEventIds |-> {}, actor |-> actor,
     controlId |-> None, controlResult |-> None, effectiveAt |-> None, mandateRef |-> None,
     contentDigest |-> None]

invoked   == [Event(11, 1, "model_invoked", vera) EXCEPT !.contentDigest = "model"]
checked   == [Event(12, 2, "control_evaluated", oscar) EXCEPT
                  !.parentEventIds = {11}, !.controlId = "limit", !.controlResult = "pass"]
completed == [Event(13, 3, "execution_completed", oscar) EXCEPT !.parentEventIds = {12}]
revoked   == [Event(14, 4, "mandate_revoked", alice) EXCEPT
                  !.effectiveAt = 10, !.mandateRef = mandateRef]

receipt ==
    [ref |-> receiptRef, proof |-> "ok", executedAt |-> 10, operator |-> oscar, mandateRef |-> mandateRef,
     policyRef |-> policyRef, authorizationNonce |-> "n1", executionId |-> "x1", idempotencyKey |-> "k1",
     action |-> action, disposition |-> "executed", actualEffectDigest |-> "effect",
     controlResults |-> <<[controlId |-> "limit", result |-> "pass", eventId |-> 12]>>,
     eventRootDigest |-> {}, modelDigest |-> "model"]

prior == [receipt EXCEPT !.ref = Ref("execution_receipt", 21), !.executedAt = 8,
                         !.executionId = "x2", !.idempotencyKey = "k2"]
priorAgain == [prior EXCEPT !.ref = Ref("execution_receipt", 22),
                            !.executionId = "x3", !.idempotencyKey = "k3"]

incident ==
    [ref |-> incidentRef, proof |-> "ok", filedAt |-> 12, discoveredAt |-> 11,
     executionReceiptRef |-> receiptRef, evidenceRefs |-> {receiptRef, invoked.ref}]

attestation ==
    [ref |-> Ref("causation_attestation", 31), proof |-> "ok", issuedAt |-> 13, incidentRef |-> incidentRef,
     attestor |-> Actor("causation_attestor", "atty"), subject |-> vera,
     method |-> "counterfactual_replay", conclusion |-> "sufficient", competingCauseIds |-> {},
     modelDigest |-> "model", failureCode |-> "wrong_price", causalEventIds |-> {11}]
second == [attestation EXCEPT !.ref = Ref("causation_attestation", 32)]

priorDecision == [ref |-> Ref("liability_decision", 41), proof |-> "ok", caseId |-> "used", evaluatedAt |-> 14]

\* The receipt is signed over the events.
Rooted(c) == [c EXCEPT !.executionReceipt.eventRootDigest = computeEventRootDigest(Events(c))]

Plain ==
    Rooted([caseId |-> "plain", asOf |-> 20, pins |-> "ok", policy |-> policy, rulebook |-> rulebook,
            trustSnapshot |-> trustSnapshot, mandate |-> mandate, executionReceipt |-> receipt,
            incidentReport |-> incident, runtimeEvents |-> <<invoked, checked, completed>>,
            priorReceipts |-> <<>>, causationAttestations |-> <<>>, priorDecision |-> None, appealId |-> None])

\* The principal's case, the vendor's, the operator's, and an appeal with a mandate half used.
Base ==
    [plain   |-> Plain,
     vendor  |-> [Plain EXCEPT !.caseId = "vendor", !.causationAttestations = <<attestation>>],
     revoked |-> Rooted([Plain EXCEPT !.caseId = "revoked", !.runtimeEvents = Append(@, revoked)]),
     used    |-> [Plain EXCEPT !.caseId = "used", !.priorReceipts = <<prior>>,
                               !.priorDecision = priorDecision, !.appealId = "a1"]]

MCInitialCases == {Base[id] : id \in DOMAIN Base}

----------------------------------------------------------------------------
(* What the parts may be instead.                                            *)
PolicyVariants ==
    Edits(policy, {<<"proof", "malformed">>, <<"proof", "unproven">>, <<"issuedAt", 21>>,
                   <<"effectiveFrom", 20>>, <<"effectiveFrom", 21>>, <<"effectiveUntil", 20>>,
                   <<"rulebookRef", Elsewhere(rulebookRef)>>, <<"trustSnapshotRef", Elsewhere(trustRef)>>,
                   <<"principalId", "mallory">>, <<"operatorId", "mallory">>, <<"operatorId", "atty">>,
                   <<"modelVendorIds", {"victor"}>>, <<"allowedMethods", {"controlled_reproduction"}>>})

RulebookVariants ==
    Edits(rulebook, {<<"rules", name>> : name \in DOMAIN RulesNamed \ {"reference"}}
                    \cup {<<"defaultOutcome", "principal">>, <<"proof", "unproven">>, <<"issuedAt", 21>>})

MandateVariants ==
    {None}
    \cup Edits(mandate, {<<"proof", "malformed">>, <<"proof", "unproven">>, <<"issuedAt", 21>>,
                         <<"validFrom", 10>>, <<"validFrom", 11>>, <<"expiresAt", 10>>, <<"expiresAt", 11>>,
                         <<"validFrom", 15>>, <<"principal", Actor("operator", "alice")>>,
                         <<"principal", Actor("principal", "mallory")>>,
                         <<"operator", Actor("operator", "mallory")>>, <<"modelVendor", None>>,
                         <<"modelVendor", Actor("model_vendor", "victor")>>,
                         <<"modelVendor", Actor("model_vendor", "nobody")>>,
                         <<"policyRef", Elsewhere(policyRef)>>, <<"rulebookRef", Elsewhere(rulebookRef)>>,
                         <<"nonce", "n2">>, <<"maxExecutions", 1>>, <<"requiredControls", {"limit", "log"}>>,
                         <<"actions", Edits(CHOOSE s \in mandate.actions : TRUE, {<<"maxMinorUnits", 99>>})>>,
                         <<"actions", Edits(CHOOSE s \in mandate.actions : TRUE,
                                            {<<"maxMinorUnits", None>>, <<"targets", {"bank"}>>})>>,
                         <<"actions", Edits(CHOOSE s \in mandate.actions : TRUE,
                                            {<<"counterparties", {"bank-co"}>>, <<"asset", "USD">>})>>})

ReceiptVariants(given) ==
    {None}
    \cup Edits(given, {<<"proof", "malformed">>, <<"proof", "unproven">>, <<"executedAt", 9>>,
                       <<"executedAt", 15>>, <<"executedAt", 21>>, <<"operator", Actor("operator", "mallory")>>,
                       <<"operator", Actor("principal", "oscar")>>, <<"mandateRef", Elsewhere(mandateRef)>>, <<"authorizationNonce", "n2">>,
                       <<"executionId", "x2">>, <<"idempotencyKey", "k2">>, <<"disposition", "failed">>,
                       <<"actualEffectDigest", None>>, <<"modelDigest", None>>, <<"modelDigest", "other">>,
                       <<"action", [action EXCEPT !.quantity = None]>>,
                       <<"action", [action EXCEPT !.counterparty = None]>>,
                       <<"controlResults", <<>>>>, <<"eventRootDigest", {}>>,
                       <<"controlResults", <<[controlId |-> "limit", result |-> "fail", eventId |-> 12]>>>>,
                       <<"controlResults", given.controlResults \o given.controlResults>>})

IncidentVariants ==
    {None}
    \cup Edits(incident, {<<"proof", "unproven">>, <<"filedAt", 21>>, <<"discoveredAt", 21>>,
                          <<"executionReceiptRef", Elsewhere(receiptRef)>>,
                          <<"evidenceRefs", {Elsewhere(receiptRef)}>>,
                          <<"evidenceRefs", {Ref("runtime_event", 19)}>>, <<"evidenceRefs", {prior.ref}>>})

\* One event is another, or is gone, or comes twice, or one more follows.
EventsVariants(events) ==
    LET At(i, changes) == {[events EXCEPT ![i] = e] : e \in Edits(events[i], changes)}
    IN  At(1, {<<"proof", "unproven">>, <<"actor", Actor("model_vendor", "victor")>>, <<"contentDigest", "other">>,
               <<"observedAt", 21>>, <<"parentEventIds", {12}>>})
        \cup At(2, {<<"controlResult", "fail">>, <<"controlResult", None>>, <<"executionId", "x2">>,
                    <<"actor", Actor("agent", "bot")>>, <<"actor", Actor("operator", "mallory")>>,
                    <<"sequence", 1>>, <<"observedAt", 10>>, <<"observedAt", 11>>})
        \cup At(3, {<<"eventType", "rollback_completed">>, <<"actionDigest", [action EXCEPT !.target = "bank"]>>})
        \cup (IF Len(events) < 4 THEN {Append(events, revoked)}
              ELSE At(4, {<<"effectiveAt", 9>>, <<"effectiveAt", 11>>, <<"effectiveAt", None>>,
                          <<"actor", oscar>>, <<"mandateRef", Elsewhere(mandateRef)>>}))
        \cup {<<>>, RemoveAt(events, 1), RemoveAt(events, 2), events \o <<events[1]>>}
        \cup {Append(events, [checked EXCEPT !.ref = Ref("runtime_event", 15), !.sequence = 5, !.controlResult = result]) :
                  result \in {"pass", "fail"}}

PriorsVariants ==
    {<<>>, <<prior>>, <<prior, prior>>, <<prior, priorAgain>>, <<priorAgain, prior>>}
    \cup {<<p>> : p \in Edits(prior, {<<"proof", "unproven">>, <<"mandateRef", Elsewhere(mandateRef)>>,
                                      <<"idempotencyKey", "k1">>, <<"disposition", "failed">>,
                                      <<"authorizationNonce", "n2">>, <<"executedAt", 10>>, <<"executedAt", 11>>,
                                      <<"operator", Actor("operator", "mallory")>>})}
    \cup {<<prior, p>> : p \in Edits(priorAgain, {<<"executionId", "x2">>, <<"disposition", "failed">>})}
    \cup {<<[priorAgain EXCEPT !.executionId = "x2"], prior>>}

AttestationsVariants ==
    {<<>>, <<attestation>>, <<attestation, attestation>>, <<second, attestation>>}
    \cup {<<a>> : a \in Edits(attestation,
              {<<"proof", "unproven">>, <<"issuedAt", 21>>, <<"incidentRef", Elsewhere(incidentRef)>>,
               <<"attestor", Actor("causation_attestor", "oscar")>>, <<"subject", Actor("model_vendor", "victor")>>,
               <<"method", "controlled_reproduction">>, <<"conclusion", "insufficient">>,
               <<"conclusion", "conflicting">>, <<"competingCauseIds", {"network"}>>,
               <<"modelDigest", "other">>, <<"causalEventIds", {12}>>})}
    \cup {<<attestation, a>> : a \in Edits(second,
              {<<"conclusion", "insufficient">>, <<"conclusion", "conflicting">>, <<"failureCode", "outage">>,
               <<"competingCauseIds", {"network"}>>, <<"subject", Actor("model_vendor", "victor")>>})}

DecisionVariants == {None} \cup Edits(priorDecision, {<<"proof", "unproven">>, <<"caseId", "plain">>, <<"evaluatedAt", 21>>})

----------------------------------------------------------------------------
Parts == {"pins", "policy", "rulebook", "trustSnapshot", "mandate", "executionReceipt", "incidentReport",
          "runtimeEvents", "priorReceipts", "causationAttestations", "priorDecision"}

Variants(base, part) ==
    CASE part = "pins"                  -> {"unsorted", "mismatched"}
      [] part = "policy"                -> PolicyVariants
      [] part = "rulebook"              -> RulebookVariants
      [] part = "trustSnapshot"         -> Edits(trustSnapshot, {<<"proof", "unbound">>, <<"proof", "unverified">>})
      [] part = "mandate"               -> MandateVariants
      [] part = "executionReceipt"      -> ReceiptVariants(base.executionReceipt)
      [] part = "incidentReport"        -> IncidentVariants
      [] part = "runtimeEvents"         -> EventsVariants(base.runtimeEvents)
      [] part = "priorReceipts"         -> PriorsVariants
      [] part = "causationAttestations" -> AttestationsVariants
      [] part = "priorDecision"         -> DecisionVariants

\* A receipt that differs only in the events it is signed over is not amended for that.
Amended(c) ==
    LET base == Base[c.caseId]
        Signed(r) == IF r = None THEN None ELSE [r EXCEPT !.eventRootDigest = {}]
    IN  {part \in Parts \ {"executionReceipt"} : c[part] # base[part]}
            \cup (IF Signed(c.executionReceipt) = Signed(base.executionReceipt) THEN {} ELSE {"executionReceipt"})

(* Parts amended together: a rulebook with anything, and the parts an execution  *)
(* is judged by among themselves (bound).                                      *)
Together(parts) ==
    \/ Cardinality(parts) <= 1
    \/ Cardinality(parts) = 2 /\ "rulebook" \in parts
    \/ parts \in {{"executionReceipt", other} : other \in {"mandate", "runtimeEvents", "priorReceipts"}}
    \/ parts = {"mandate", "priorReceipts"}

\* The events are amended with or without the receipt being signed over them.
MCAmendments(c) ==
    LET amended == Amended(c)
    IN  UNION {LET cases == {[c EXCEPT ![part] = v] : v \in Variants(Base[c.caseId], part)}
               IN  IF part = "runtimeEvents" /\ c.executionReceipt # None
                   THEN cases \cup {Rooted(d) : d \in cases}
                   ELSE cases
               : part \in {other \in Parts \ amended : Together(amended \cup {other})}}
=============================================================================
