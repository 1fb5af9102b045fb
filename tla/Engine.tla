------------------------------ MODULE Engine ------------------------------
(***************************************************************************)
(* The liability engine, src/engine.ts: from the evidence of a case to the    *)
(* typed facts, from the facts and a rulebook to an outcome, and the guard     *)
(* over what the rulebook says; with it the evidence bundle a case is packed   *)
(* into and the replay of a bundle (src/bundle.ts).                          *)
(*                                                                          *)
(* An artifact is a record of the fields the engine reads.  Its ref is         *)
(* [type, id, digest], where numbers stand for identifiers and digests so      *)
(* that compareAscii is <; times are numbers for the same reason.  Its proof   *)
(* says what the schema, digest and signature checks find: "ok"; "malformed",   *)
(* what needs no trust to see; "unproven", a key or signature the snapshot      *)
(* does not support.  An optional field that is absent is None.  A digest of   *)
(* a value is the value.                                                     *)
(***************************************************************************)
EXTENDS PolicyFacts, SequencesExt, Integers

CONSTANTS None,
          AnswerOf(_, _),           \* evaluateRulebook of a rulebook and the facts
          IsValid(_),               \* validateRulebook of a rulebook
          InitialCases,             \* cases evaluated first
          Amendments(_)             \* the cases one change away from a case

\* The reasons evaluateBundle forces a decision with.
ForcedReasons == {"ALB_TRUST_ANCHOR_REQUIRED", "ALB_BUNDLE_ANCHOR_MISMATCH"}

ASSUME NoneAssumption == None \notin ForcedReasons

VARIABLES case,      \* the case as it was submitted last
          decision,  \* what evaluateCase made of it
          replay     \* what evaluateBundle made of its bundle, or None

vars == <<case, decision, replay>>

Given(x) == IF x = None THEN {} ELSE {x}

When(condition, code) == IF condition THEN {code} ELSE {}

Refs(artifacts) == {a.ref : a \in artifacts}

\* signedArtifactOrder and runtimeOrder.
ArtifactBefore(a, b) == a.ref.id < b.ref.id \/ (a.ref.id = b.ref.id /\ a.ref.digest < b.ref.digest)

EventBefore(a, b) == a.sequence < b.sequence \/ (a.sequence = b.sequence /\ ArtifactBefore(a, b))

Unresolved(reason) == [outcome |-> "unresolved", reasonCode |-> reason]

----------------------------------------------------------------------------
(* Trust and signatures.                                                    *)
Events(c)       == ToSet(c.runtimeEvents)
Priors(c)       == ToSet(c.priorReceipts)
Attestations(c) == ToSet(c.causationAttestations)

TrustPinned(c) == c.trustSnapshot.proof = "ok"

\* verifyTrust: a snapshot bound to another time is as bad as a forged one.
TrustRejections(c) ==
    When(c.trustSnapshot.proof = "unverified", "invalid")
        \cup When(c.trustSnapshot.proof \notin {"ok", "unverified"}, "tampered")

verifyArtifact(c, artifact) ==
    IF artifact.proof = "malformed" THEN "tampered"
    ELSE IF ~TrustPinned(c) THEN "invalid"
    ELSE IF artifact.proof # "ok" THEN "tampered"
    ELSE "ok"

Accepted(c, artifact) == verifyArtifact(c, artifact) = "ok"

\* What verifyArtifact is called for, one kind after the other.
Rejected(c, artifacts) == {verifyArtifact(c, a) : a \in artifacts} \ {"ok"}

Rejections(c) ==
    Rejected(c, {c.policy}) \cup Rejected(c, {c.rulebook}) \cup Rejected(c, Given(c.priorDecision))
        \cup Rejected(c, Given(c.mandate)) \cup Rejected(c, Given(c.executionReceipt))
        \cup Rejected(c, Given(c.incidentReport)) \cup Rejected(c, Events(c))
        \cup Rejected(c, Priors(c)) \cup Rejected(c, Attestations(c))

checkPins(c) ==
    When(c.pins = "unsorted", "invalid") \cup When(c.pins \notin {"ok", "unsorted"}, "tampered")

\* Evidence dated after the cutoff.
FutureDated(c) ==
    \/ \E m \in Given(c.mandate) : m.issuedAt > c.asOf
    \/ \E r \in Given(c.executionReceipt) \cup Priors(c) : r.executedAt > c.asOf
    \/ \E i \in Given(c.incidentReport) : i.filedAt > c.asOf \/ i.discoveredAt > c.asOf
    \/ \E e \in Events(c) : e.observedAt > c.asOf

PolicyAccepted(c) == Accepted(c, c.policy) /\ Accepted(c, c.rulebook)

PolicyBroken(c) ==
    \/ c.policy.rulebookRef # c.rulebook.ref
    \/ c.policy.trustSnapshotRef # c.trustSnapshot.ref
    \/ c.policy.issuedAt > c.asOf \/ c.rulebook.issuedAt > c.asOf

policyState(c) ==
    IF ~PolicyAccepted(c) \/ PolicyBroken(c) THEN "invalid"
    ELSE IF c.policy.effectiveFrom <= c.asOf /\ c.asOf < c.policy.effectiveUntil
    THEN "active"
    ELSE "inactive"

\* The flags hardInvalid and tampered of the evaluation.
Invalidity(c) ==
    checkPins(c) \cup TrustRejections(c) \cup Rejections(c)
        \cup When(FutureDated(c), "invalid")
        \cup When(PolicyAccepted(c) /\ PolicyBroken(c), "invalid")

----------------------------------------------------------------------------
(* The prior decision of an appeal.                                          *)
PriorDecisionBound(c) ==
    /\ c.appealId # None
    /\ c.priorDecision.caseId = c.caseId
    /\ c.priorDecision.evaluatedAt <= c.asOf

PriorDecisionConflicts(c) ==
    When(c.priorDecision # None /\ ~PriorDecisionBound(c), "prior_decision_appeal_binding_conflict")

Supersedes(c) ==
    IF c.priorDecision # None /\ Accepted(c, c.priorDecision) /\ PriorDecisionBound(c)
    THEN c.priorDecision.ref.id
    ELSE None

----------------------------------------------------------------------------
(* Runtime events.                                                          *)
runtimeActorBound(event, mandate) ==
    \/ event.actor \in {[role |-> "principal", id |-> mandate.principal.id],
                       [role |-> "operator",  id |-> mandate.operator.id],
                       [role |-> "agent",     id |-> mandate.agent.id]}
    \/ \E v \in Given(mandate.modelVendor) : event.actor = [role |-> "model_vendor", id |-> v.id]

\* verifiedEventDigests, as the events themselves.
VerifiedEvents(c) ==
    {e \in Events(c) : /\ Accepted(c, e)
                       /\ ~(e.observedAt > c.asOf)
                       /\ \A m \in Given(c.mandate) : runtimeActorBound(e, m)}

RevocationBound(c, e) ==
    /\ e \in VerifiedEvents(c)
    /\ e.actor = [role |-> "principal", id |-> c.mandate.principal.id]
    /\ e.effectiveAt # None
    /\ e.mandateRef = c.mandate.ref

EventConflicts(c) ==
    IF c.mandate = None THEN {}
    ELSE When(\E e \in Events(c) : ~runtimeActorBound(e, c.mandate), "runtime_actor_binding_conflict")
         \cup When(\E e \in Events(c) : e.eventType = "mandate_revoked" /\ ~RevocationBound(c, e),
                   "revocation_binding_conflict")

revocationEffective(c) ==
    \E e \in VerifiedEvents(c) :
        /\ e.eventType = "mandate_revoked" /\ e.effectiveAt # None
        /\ e.effectiveAt <= c.executionReceipt.executedAt
        /\ e.mandateRef = c.mandate.ref

computeEventRootDigest(events) == {<<e.sequence, e.ref>> : e \in events}

\* Mutant: the root the receipt signs is not compared.
VerifyRuntimeGraphUnrooted(c) ==
    When(\E e \in Events(c) : e.executionId # c.executionReceipt.executionId,
         "runtime_execution_id_conflict")

verifyRuntimeGraph(c) ==
    LET receipt == c.executionReceipt
        n == Len(c.runtimeEvents)
    IN  When(\E i, j \in 1 .. n : /\ i < j
                                  /\ \/ c.runtimeEvents[i].ref.id = c.runtimeEvents[j].ref.id
                                     \/ c.runtimeEvents[i].sequence = c.runtimeEvents[j].sequence,
             "runtime_event_order_conflict")
        \cup When(\E e \in Events(c) : e.executionId # receipt.executionId, "runtime_execution_id_conflict")
        \cup When(\E e \in Events(c) : e.actionDigest # receipt.action /\ e.eventType # "mandate_revoked",
                  "runtime_action_digest_conflict")
        \cup When(\E e \in Events(c) : /\ e.observedAt > receipt.executedAt
                                       /\ e.eventType # "rollback_completed",
                  "runtime_event_after_execution")
        \cup When(\E e \in Events(c) : \E parent \in e.parentEventIds :
                      \A f \in Events(c) : ~(f.ref.id = parent /\ EventBefore(f, e)),
                  "runtime_parent_missing_or_forward")
        \cup When(receipt.eventRootDigest # computeEventRootDigest(Events(c)), "event_root_digest_mismatch")

----------------------------------------------------------------------------
(* Controls: what the receipt reports, against what the events show.         *)
ControlEvents(c, control) == {e \in VerifiedEvents(c) : e.controlId = control}

\* Mutant: the events of a control are compared with the reported one only.
ControlConflictsReported(c) ==
    When(\E result \in ToSet(c.executionReceipt.controlResults) :
             ~\E e \in VerifiedEvents(c) : e.controlId = result.controlId /\ e.controlResult = result.result,
         "control_event_mismatch")

ControlConflicts(c) ==
    LET results == c.executionReceipt.controlResults
        Reported(control) == {r \in ToSet(results) : r.controlId = control}
    IN  When(\E i, j \in 1 .. Len(results) : i < j /\ results[i].controlId = results[j].controlId,
             "duplicate_control_result")
        \cup When(\E r \in ToSet(results) : ~\E e \in ControlEvents(c, r.controlId) :
                      e.ref.id = r.eventId /\ e.controlResult = r.result,
                  "control_event_mismatch")
        \cup When(\E k \in c.mandate.requiredControls : \E e \in ControlEvents(c, k) :
                      e.controlResult = None,
                  "control_event_incomplete")
        \cup When(\E k \in c.mandate.requiredControls : \E e \in ControlEvents(c, k) :
                      /\ e.controlResult # None
                      /\ \/ \E f \in ControlEvents(c, k) : f.controlResult \notin {None, e.controlResult}
                         \/ \E r \in Reported(k) : r.result # e.controlResult,
                  "control_event_contradiction")

Unpassed(c) ==
    {k \in c.mandate.requiredControls :
        ~\E r \in ToSet(c.executionReceipt.controlResults) : r.controlId = k /\ r.result = "pass"}

controlState(c) ==
    IF c.mandate.requiredControls = {} THEN "unknown"
    ELSE IF ControlConflicts(c) = {} /\ Unpassed(c) = {} THEN "compliant"
    ELSE "noncompliant"

----------------------------------------------------------------------------
(* Prior receipts: replays and the number of executions.                     *)
PriorBound(c, prior) ==
    /\ prior.operator = [role |-> "operator", id |-> c.mandate.operator.id]
    /\ prior.policyRef = c.policy.ref
    /\ prior.authorizationNonce = c.mandate.nonce

SameIdentity(p, q) == p.executionId = q.executionId \/ p.idempotencyKey = q.idempotencyKey

\* Mutant: of two receipts with one identity the second is dropped in silence.
ExamineForgiving(c, found, prior) ==
    IF ~Accepted(c, prior) \/ prior.mandateRef # c.mandate.ref THEN found
    ELSE IF ~PriorBound(c, prior)
    THEN [found EXCEPT !.conflicts = @ \cup {"prior_receipt_binding_conflict"}]
    ELSE IF \E p \in found.relevant : p.ref.digest # prior.ref.digest /\ SameIdentity(p, prior)
    THEN found
    ELSE [found EXCEPT !.relevant = @ \cup {prior}]

verifiedPrior(c, prior) == Accepted(c, prior) /\ ~(prior.executedAt > c.asOf)

Examine(c, found, prior) ==
    IF ~verifiedPrior(c, prior) \/ prior.mandateRef # c.mandate.ref THEN found
    ELSE IF ~PriorBound(c, prior)
    THEN [found EXCEPT !.conflicts = @ \cup {"prior_receipt_binding_conflict"}]
    ELSE IF prior.executedAt > c.executionReceipt.executedAt
    THEN [found EXCEPT !.conflicts = @ \cup {"prior_receipt_after_current_execution"}]
    ELSE IF \E p \in found.relevant : p.ref.digest # prior.ref.digest /\ SameIdentity(p, prior)
    THEN [found EXCEPT !.conflicts = @ \cup {"prior_receipt_identity_conflict"}]
    ELSE [found EXCEPT !.relevant = @ \cup {prior}]

NothingFound == [relevant |-> {}, conflicts |-> {}]

\* The receipts that count, and the conflicts met on the way, in the order given.
RelevantPriors(c) ==
    LET found[n \in 0 .. Len(c.priorReceipts)] ==
            IF n = 0 THEN NothingFound ELSE Examine(c, found[n - 1], c.priorReceipts[n])
    IN  found[Len(c.priorReceipts)]

\* Mutant: the execution at hand is not counted.
ReplayedUncounted(c, relevant) ==
    \/ \E p \in relevant : SameIdentity(p, c.executionReceipt)
    \/ Cardinality({p \in relevant : p.disposition = "executed"}) > c.mandate.maxExecutions

replayed(c, relevant) ==
    \/ \E p \in relevant : SameIdentity(p, c.executionReceipt)
    \/ Cardinality({p \in relevant : p.disposition = "executed"}) + 1 > c.mandate.maxExecutions

----------------------------------------------------------------------------
(* The execution under the mandate.                                          *)
InScope(action, scope) ==
    /\ scope.kind = action.kind
    /\ action.target \in scope.targets
    /\ scope.counterparties # None => action.counterparty \in scope.counterparties
    /\ scope.asset # None => action.quantity # None /\ action.quantity.asset = scope.asset
    /\ scope.maxMinorUnits # None =>
           action.quantity # None /\ action.quantity.minorUnits <= scope.maxMinorUnits

actionInScope(action, mandate) == \E scope \in mandate.actions : InScope(action, scope)

mandateTrusted(c) == c.mandate # None /\ Accepted(c, c.mandate) /\ ~(c.mandate.issuedAt > c.asOf)

receiptTrusted(c) ==
    c.executionReceipt # None /\ Accepted(c, c.executionReceipt) /\ ~(c.executionReceipt.executedAt > c.asOf)

incidentTrusted(c) ==
    /\ c.incidentReport # None /\ Accepted(c, c.incidentReport)
    /\ ~(c.incidentReport.filedAt > c.asOf) /\ ~(c.incidentReport.discoveredAt > c.asOf)

\* Mandate and receipt are there to be held against each other.
Examined(c) == c.mandate # None /\ receiptTrusted(c)

mandateRefsValid(c) ==
    /\ mandateTrusted(c)
    /\ c.mandate.policyRef = c.policy.ref /\ c.mandate.rulebookRef = c.rulebook.ref
    /\ c.executionReceipt.mandateRef = c.mandate.ref
    /\ c.executionReceipt.policyRef = c.policy.ref
    /\ c.executionReceipt.authorizationNonce = c.mandate.nonce
    /\ c.executionReceipt.operator.id = c.mandate.operator.id
    /\ c.executionReceipt.operator.role = "operator"

authorityBindingsValid(c) ==
    /\ c.mandate.principal = [role |-> "principal", id |-> c.policy.principalId]
    /\ c.mandate.operator = [role |-> "operator", id |-> c.policy.operatorId]
    /\ \A v \in Given(c.mandate.modelVendor) : v.role = "model_vendor" /\ v.id \in c.policy.modelVendorIds

MandateUnusable(c) ==
    \/ ~mandateRefsValid(c) \/ ~authorityBindingsValid(c)
    \/ ~(c.mandate.validFrom < c.mandate.expiresAt)
    \/ c.executionReceipt.executedAt < c.mandate.validFrom

operatorViolation(c, relevant) ==
    IF ~Examined(c) THEN "none"
    ELSE IF MandateUnusable(c) THEN "invalid_mandate"
    ELSE IF c.executionReceipt.executedAt >= c.mandate.expiresAt THEN "expired_mandate"
    ELSE IF revocationEffective(c) THEN "revoked_mandate"
    ELSE IF replayed(c, relevant) THEN "replayed_execution"
    ELSE IF ~actionInScope(c.executionReceipt.action, c.mandate) THEN "out_of_scope"
    ELSE IF controlState(c) # "compliant" THEN "control_failure"
    ELSE "none"

mandateState(c, violation) ==
    IF c.mandate = None THEN "missing"
    ELSE IF ~mandateTrusted(c) \/ violation = "invalid_mandate" THEN "invalid"
    ELSE IF violation = "expired_mandate" THEN "expired"
    ELSE IF violation = "revoked_mandate" THEN "revoked"
    ELSE IF violation = "out_of_scope" THEN "out_of_scope"
    ELSE "valid"

receiptState(c) ==
    IF c.executionReceipt = None THEN "missing"
    ELSE IF receiptTrusted(c) THEN "trusted"
    ELSE "untrusted"

\* The conflicts there are when the execution is judged.
ConductConflicts(c, found) ==
    PriorDecisionConflicts(c) \cup EventConflicts(c)
        \cup (IF ~Examined(c) THEN {}
              ELSE When(~authorityBindingsValid(c), "mandate_policy_authority_conflict")
                   \cup found.conflicts \cup ControlConflicts(c) \cup verifyRuntimeGraph(c))

executionState(c, violation, conflicts) ==
    IF c.executionReceipt = None THEN "missing"
    ELSE IF violation = "replayed_execution" THEN "replayed"
    ELSE IF /\ Examined(c)
            /\ violation = "none"
            /\ c.executionReceipt.disposition = "executed"
            /\ c.executionReceipt.actualEffectDigest # None
            /\ conflicts = {}
    THEN "compliant"
    ELSE "noncompliant"

----------------------------------------------------------------------------
(* Causation.                                                               *)
AttestationBound(c, a) ==
    /\ c.incidentReport # None
    /\ a.incidentRef = c.incidentReport.ref
    /\ a.attestor.id \notin {a.subject.id, c.policy.principalId, c.policy.operatorId}
    /\ a.attestor.role = "causation_attestor"
    /\ a.subject.role = "model_vendor"
    /\ a.subject.id \in c.policy.modelVendorIds
    /\ a.method \in c.policy.allowedMethods
    /\ a.issuedAt <= c.asOf

Heard(c) == {a \in Attestations(c) : Accepted(c, a) /\ AttestationBound(c, a)}

Concluding(c, conclusion) == {a \in Heard(c) : a.conclusion = conclusion}

Claim(a) == <<a.subject, a.modelDigest, a.failureCode, a.causalEventIds>>

\* Mutant: an attestation of insufficient causation does not weigh.
CausationStateLenient(c) ==
    IF Heard(c) = {} THEN "missing"
    ELSE IF Concluding(c, "conflicting") # {} THEN "conflicting"
    ELSE IF \E a \in Heard(c) : a.competingCauseIds # {} THEN "multi_causal"
    ELSE IF Concluding(c, "sufficient") = {} THEN "insufficient"
    ELSE "sufficient"

causationState(c) ==
    IF Heard(c) = {} THEN "missing"
    ELSE IF Concluding(c, "conflicting") # {} THEN "conflicting"
    ELSE IF Concluding(c, "sufficient") # {} /\ Concluding(c, "insufficient") # {} THEN "conflicting"
    ELSE IF \E a \in Heard(c) : a.competingCauseIds # {} THEN "multi_causal"
    ELSE IF Concluding(c, "sufficient") = {} THEN "insufficient"
    ELSE IF \E a, b \in Concluding(c, "sufficient") : Claim(a) # Claim(b) THEN "multi_causal"
    ELSE "sufficient"

ModelEvents(c) == {e \in VerifiedEvents(c) : e.eventType = "model_invoked"}

\* The vendor's model is what the mandate names, what ran and what failed.
ProvenanceMatches(c, a) ==
    /\ c.mandate.modelVendor # None
    /\ c.mandate.modelVendor.id = a.subject.id
    /\ c.executionReceipt.modelDigest # None
    /\ c.executionReceipt.modelDigest = a.modelDigest
    /\ ModelEvents(c) # {}
    /\ \A e \in ModelEvents(c) : e.contentDigest = c.executionReceipt.modelDigest
    /\ \A id \in a.causalEventIds : \E e \in ModelEvents(c) : e.ref.id = id

\* When causation is sufficient, all those that say so make the same claim.
modelProvenance(c) ==
    IF causationState(c) \in {"conflicting", "multi_causal"} THEN "mismatched"
    ELSE IF causationState(c) # "sufficient" \/ ~Examined(c) THEN "missing"
    ELSE IF \A a \in Concluding(c, "sufficient") : ProvenanceMatches(c, a) THEN "matched"
    ELSE "mismatched"

----------------------------------------------------------------------------
(* checkIncidentEvidenceClosure: what the incident cites is supplied and       *)
(* verified.                                                                *)
Provided(c) ==
    Refs(Events(c)) \cup Refs(Priors(c)) \cup Refs(Attestations(c))
        \cup {c.policy.ref, c.rulebook.ref, c.trustSnapshot.ref}
        \cup Refs(Given(c.mandate)) \cup Refs(Given(c.executionReceipt)) \cup Refs(Given(c.priorDecision))

Verified(c) ==
    Refs({e \in Events(c) : Accepted(c, e)}) \cup Refs({p \in Priors(c) : Accepted(c, p)})
        \cup Refs({a \in Attestations(c) : Accepted(c, a)})
        \cup Refs({p \in {c.policy} : Accepted(c, p)}) \cup Refs({r \in {c.rulebook} : Accepted(c, r)})
        \cup (IF TrustPinned(c) THEN {c.trustSnapshot.ref} ELSE {})
        \cup Refs({m \in Given(c.mandate) : Accepted(c, m)})
        \cup Refs({r \in Given(c.executionReceipt) : Accepted(c, r)})
        \cup Refs({d \in Given(c.priorDecision) : Accepted(c, d)})

Cited(c) == UNION {i.evidenceRefs : i \in Given(c.incidentReport)}

ContradictedRef(c, ref) ==
    ref \notin Provided(c) /\ \E given \in Provided(c) : given.type = ref.type /\ given.id = ref.id

ClosureConflicts(c) ==
    When(\E ref \in Cited(c) : ContradictedRef(c, ref), "incident_evidence_digest_conflict")

ClosureMissing(c) ==
    When(\E ref \in Cited(c) : ref \notin Verified(c) /\ ~ContradictedRef(c, ref), "incident_evidence")

----------------------------------------------------------------------------
(* The facts.                                                               *)
missingEvidence(c) ==
    When(c.mandate = None, "mandate") \cup When(c.executionReceipt = None, "execution_receipt")
        \cup When(c.incidentReport = None, "incident_report")
        \cup When(c.runtimeEvents = <<>>, "runtime_events")
        \cup (IF ~Examined(c) THEN {}
              ELSE When(/\ c.executionReceipt.disposition = "executed"
                        /\ c.executionReceipt.actualEffectDigest = None, "actual_effect_digest")
                   \cup When(\A e \in Events(c) : e.eventType # "execution_completed",
                             "execution_completed_event"))
        \cup ClosureMissing(c)
        \cup When(causationState(c) = "sufficient" /\ modelProvenance(c) # "matched",
                  "matching_model_provenance")

conflictingEvidence(c, found) ==
    ConductConflicts(c, found)
        \cup When(/\ incidentTrusted(c)
                  /\ \A r \in Given(c.executionReceipt) : c.incidentReport.executionReceiptRef # r.ref,
                  "incident_receipt_reference_conflict")
        \cup When(\E a \in Attestations(c) : ~AttestationBound(c, a), "causation_attestation_binding_conflict")
        \cup ClosureConflicts(c)
        \cup When(causationState(c) \in {"conflicting", "multi_causal"}, "causation_conflict")

evidenceState(invalidity, conflicts, missing) ==
    IF "tampered" \in invalidity THEN "tampered"
    ELSE IF conflicts # {} THEN "contradictory"
    ELSE IF missing # {} THEN "missing"
    ELSE "sufficient"

Facts(c, found, invalidity) ==
    LET violation == operatorViolation(c, found.relevant)
    IN  [input_state        |-> IF invalidity # {} THEN "invalid" ELSE "valid",
         evidence_state     |-> evidenceState(invalidity, conflictingEvidence(c, found), missingEvidence(c)),
         policy_state       |-> policyState(c),
         trust_state        |-> IF TrustPinned(c) THEN "pinned" ELSE "invalid",
         mandate_state      |-> mandateState(c, violation),
         receipt_state      |-> receiptState(c),
         execution_state    |-> executionState(c, violation, ConductConflicts(c, found)),
         operator_controls  |-> IF Examined(c) THEN controlState(c) ELSE "unknown",
         operator_violation |-> violation,
         model_provenance   |-> modelProvenance(c),
         causation_state    |-> causationState(c)]

----------------------------------------------------------------------------
(* The outcome.                                                             *)
\* Mutant: whom the rulebook blames is checked against the trust in the evidence only.
AllowedOutcomeTrusting(outcome, facts) ==
    \/ outcome = "unresolved"
    \/ facts.evidence_state = "sufficient" /\ facts.policy_state = "active" /\ facts.trust_state = "pinned"

allowedOutcome(outcome, facts) ==
    \/ outcome = "unresolved"
    \/ /\ facts.evidence_state = "sufficient"
       /\ facts.policy_state = "active" /\ facts.trust_state = "pinned"
       /\ facts.receipt_state = "trusted"
       /\ IF outcome = "operator"
          THEN facts.operator_violation # "none"
          ELSE /\ facts.mandate_state = "valid"
               /\ facts.execution_state = "compliant"
               /\ facts.operator_controls = "compliant"
               /\ facts.operator_violation = "none"
               /\ outcome # "principal" =>
                      facts.model_provenance = "matched" /\ facts.causation_state = "sufficient"

\* Mutant: conflicts are reported before forgeries.
GuardedConflictsFirst(c, invalidity, facts) ==
    IF facts.evidence_state = "contradictory" THEN Unresolved("conflicting_evidence")
    ELSE IF facts.evidence_state = "missing" THEN Unresolved("missing_required_evidence")
    ELSE IF invalidity # {} THEN Unresolved("invalid_evidence")
    ELSE AnswerOf(c.rulebook, facts)

guardedPolicyEvaluation(c, invalidity, facts) ==
    IF invalidity # {} THEN Unresolved("invalid_evidence")
    ELSE IF \/ facts.evidence_state = "contradictory"
            \/ facts.causation_state \in {"conflicting", "multi_causal"}
    THEN Unresolved("conflicting_evidence")
    ELSE IF facts.evidence_state = "missing" THEN Unresolved("missing_required_evidence")
    ELSE IF ~IsValid(c.rulebook) THEN Unresolved("invalid_rulebook")
    ELSE IF ~allowedOutcome(AnswerOf(c.rulebook, facts).outcome, facts)
    THEN Unresolved("rulebook_conclusion_denied")
    ELSE AnswerOf(c.rulebook, facts)

dispositionFor(evaluation) ==
    IF evaluation.outcome # "unresolved" THEN "allocated"
    ELSE IF evaluation.reasonCode \in {"invalid_evidence", "invalid_rulebook", "rulebook_conclusion_denied"}
    THEN "invalid"
    ELSE IF evaluation.reasonCode = "conflicting_evidence" THEN "conflicted"
    ELSE "indeterminate"

\* The vendor is the subject of the attestations, named when provenance matches.
Vendor(c) ==
    IF modelProvenance(c) = "matched"
    THEN (CHOOSE a \in Concluding(c, "sufficient") : TRUE).subject
    ELSE None

allocationFor(outcome, c) ==
    CASE outcome = "principal" ->
           IF c.mandate # None THEN c.mandate.principal
           ELSE [role |-> "principal", id |-> c.policy.principalId]
      [] outcome = "operator" ->
           IF c.mandate # None THEN c.mandate.operator
           ELSE [role |-> "operator", id |-> c.policy.operatorId]
      [] outcome = "model_vendor" -> Vendor(c)
      [] OTHER -> None

\* A reason forced from outside makes the input invalid and the decision unresolved.
evaluateCaseInternal(c, forcedReason) ==
    LET found      == RelevantPriors(c)
        invalidity == Invalidity(c) \cup When(forcedReason # None, "invalid")
        facts      == Facts(c, found, invalidity)
        evaluation == IF forcedReason # None THEN Unresolved(forcedReason)
                      ELSE guardedPolicyEvaluation(c, invalidity, facts)
    IN  [outcome     |-> evaluation.outcome,
         reasonCode  |-> evaluation.reasonCode,
         disposition |-> IF forcedReason # None THEN "invalid" ELSE dispositionFor(evaluation),
         allocation  |-> allocationFor(evaluation.outcome, c),
         supersedesDecisionId |-> Supersedes(c),
         facts       |-> facts]

evaluateCase(c) == evaluateCaseInternal(c, None)

----------------------------------------------------------------------------
(* The bundle of a case: its artifacts in a fixed order.                     *)
\* sort is stable: each element has its place after the ones ahead of it.
Placed(list, ahead) == [k \in DOMAIN list |-> list[CHOOSE i \in DOMAIN list : Cardinality(ahead[i]) = k - 1]]

EventsInOrder(list) ==
    Placed(list, [i \in DOMAIN list |-> {j \in DOMAIN list \ {i} : \/ EventBefore(list[j], list[i])
                                                                   \/ j < i /\ ~EventBefore(list[i], list[j])}])

ArtifactsInOrder(list) ==
    Placed(list, [i \in DOMAIN list |-> {j \in DOMAIN list \ {i} : \/ ArtifactBefore(list[j], list[i])
                                                                   \/ j < i /\ ~ArtifactBefore(list[i], list[j])}])

Normalized(c) ==
    [part \in DOMAIN c |-> IF part = "runtimeEvents" THEN EventsInOrder(c[part])
                           ELSE IF part \in {"priorReceipts", "causationAttestations"} THEN ArtifactsInOrder(c[part])
                           ELSE c[part]]

\* Every signed object of the bundle, the ones of a list each for itself.
Objects(c) ==
    <<c.policy, c.rulebook, c.trustSnapshot>> \o SetToSeq(Given(c.mandate))
        \o SetToSeq(Given(c.executionReceipt)) \o SetToSeq(Given(c.incidentReport))
        \o c.runtimeEvents \o c.priorReceipts \o c.causationAttestations \o SetToSeq(Given(c.priorDecision))

(* verifyEvidenceBundle of the bundle of a case: schema, digest and proof       *)
(* header of each object, the pins, identifiers and sequence numbers unique.    *)
verifyEvidenceBundle(c) ==
    LET objects == Objects(c)
        events  == c.runtimeEvents
    IN  /\ c.pins = "ok"
        /\ \A i \in DOMAIN objects : objects[i].proof # "malformed"
        /\ \A i, j \in DOMAIN objects : i < j => objects[i].ref.id # objects[j].ref.id
        /\ \A i, j \in DOMAIN events : i < j => events[i].sequence # events[j].sequence

malformedDecision(reason) ==
    [outcome |-> "unresolved", reasonCode |-> reason, disposition |-> "invalid", allocation |-> None,
     supersedesDecisionId |-> None,
     facts |-> [input_state |-> "invalid", evidence_state |-> "tampered", policy_state |-> "invalid",
                trust_state |-> "invalid", mandate_state |-> "missing", receipt_state |-> "missing",
                execution_state |-> "missing", operator_controls |-> "unknown",
                operator_violation |-> "none", model_provenance |-> "missing",
                causation_state |-> "missing"]]

(* What a replay is anchored to: nothing, the pins and the root of the bundle,   *)
(* another root, or other pins, which the case then fails as well.            *)
Anchors == {"none", "matching", "other_root", "other_pins"}

Mispinned(c) == [c EXCEPT !.pins = "mismatched"]

evaluateBundle(c, anchors) ==
    IF ~verifyEvidenceBundle(c) THEN malformedDecision("ALB_BUNDLE_INVALID")
    ELSE IF anchors = "none" THEN evaluateCaseInternal(Normalized(c), "ALB_TRUST_ANCHOR_REQUIRED")
    ELSE IF anchors = "matching" THEN evaluateCaseInternal(Normalized(c), None)
    ELSE evaluateCaseInternal(
             IF anchors = "other_pins" THEN Mispinned(Normalized(c)) ELSE Normalized(c),
             "ALB_BUNDLE_ANCHOR_MISMATCH")

----------------------------------------------------------------------------
(* What stands for JSON in a case: its parts, a list is a list, what the schema    *)
(* takes has identifiers, places and times, and a digest belongs to one receipt.  *)
CaseParts == {"caseId", "asOf", "pins", "policy", "rulebook", "trustSnapshot", "mandate", "executionReceipt",
              "incidentReport", "runtimeEvents", "priorReceipts", "causationAttestations", "priorDecision", "appealId"}

Shaped(c) ==
    /\ DOMAIN c = CaseParts
    /\ c.runtimeEvents \in Seq(Events(c)) /\ c.priorReceipts \in Seq(Priors(c))
    /\ c.causationAttestations \in Seq(Attestations(c))
    /\ \A e \in Events(c) : e.proof # "malformed" => e.sequence \in Int
    /\ \A a \in Priors(c) \cup Attestations(c) : a.proof # "malformed" => a.ref.id \in Int
    /\ \A p, q \in Priors(c) : p.proof = "ok" /\ q.proof = "ok" /\ p.ref.digest = q.ref.digest => p = q
    /\ \A m \in Given(c.mandate) :
           m.proof = "ok" => m.maxExecutions \in Nat /\ m.validFrom \in Nat /\ m.expiresAt \in Nat
    /\ \A r \in Given(c.executionReceipt) : r.proof = "ok" => r.executedAt \in Nat

Init ==
    /\ case \in InitialCases
    /\ Shaped(case)
    /\ decision = evaluateCase(case)
    /\ replay = None

\* A case is submitted again with a change (bound: before its bundle is replayed).
Evaluate(c) ==
    /\ replay = None
    /\ Shaped(c)
    /\ case' = c
    /\ decision' = evaluateCase(c)
    /\ replay' = None

\* Its bundle is replayed under some anchors.
Replay(anchors) ==
    /\ replay = None
    /\ replay' = [anchors |-> anchors, decision |-> evaluateBundle(case, anchors)]
    /\ UNCHANGED <<case, decision>>

Next ==
    \/ \E c \in Amendments(case) : Evaluate(c)
    \/ \E anchors \in Anchors : Replay(anchors)

Spec == Init /\ [][Next]_vars

----------------------------------------------------------------------------
(* What a case shows, read off its artifacts.                                *)
Artifacts(c) ==
    {c.policy, c.rulebook, c.trustSnapshot} \cup Given(c.mandate) \cup Given(c.executionReceipt)
        \cup Given(c.incidentReport) \cup Given(c.priorDecision)
        \cup Events(c) \cup Priors(c) \cup Attestations(c)

Genuine(c, artifact) == c.trustSnapshot.proof = "ok" /\ artifact.proof = "ok"

\* The receipt claims this mandate, and this mandate was given under this policy.
Authorised(c) ==
    LET m == c.mandate
        r == c.executionReceipt
    IN  /\ m # None /\ Genuine(c, m) /\ m.policyRef = c.policy.ref /\ m.rulebookRef = c.rulebook.ref
        /\ m.principal = [role |-> "principal", id |-> c.policy.principalId]
        /\ m.operator = [role |-> "operator", id |-> c.policy.operatorId]
        /\ r.operator.role = "operator" /\ r.operator.id = m.operator.id
        /\ \A v \in Given(m.modelVendor) : v.role = "model_vendor" /\ v.id \in c.policy.modelVendorIds
        /\ r.mandateRef = m.ref /\ r.policyRef = c.policy.ref /\ r.authorizationNonce = m.nonce

\* The mandate was in force when the receipt says the execution was.
InForce(c) ==
    LET at == c.executionReceipt.executedAt
    IN  /\ ~(at < c.mandate.validFrom) /\ ~(at >= c.mandate.expiresAt)
        /\ \A e \in Events(c) : e.eventType = "mandate_revoked" => ~(e.effectiveAt <= at)

WithinScope(c) ==
    LET action == c.executionReceipt.action
    IN  \E scope \in c.mandate.actions :
            /\ scope.kind = action.kind /\ action.target \in scope.targets
            /\ scope.counterparties = None \/ action.counterparty \in scope.counterparties
            /\ \/ scope.asset = None /\ scope.maxMinorUnits = None
               \/ /\ action.quantity # None
                  /\ scope.asset \in {None, action.quantity.asset}
                  /\ scope.maxMinorUnits = None \/ action.quantity.minorUnits <= scope.maxMinorUnits

\* Every control is reported passed, an event shows it, and none shows otherwise.
ControlsPassed(c) ==
    /\ c.mandate.requiredControls # {}
    /\ \A k \in c.mandate.requiredControls :
           \E r \in ToSet(c.executionReceipt.controlResults) :
               /\ r.controlId = k /\ r.result = "pass"
               /\ \E e \in Events(c) : e.ref.id = r.eventId /\ e.controlId = k /\ Genuine(c, e)
    /\ \A k \in c.mandate.requiredControls : \A e \in Events(c) : e.controlId = k => e.controlResult = "pass"

InsideMandate(c) ==
    /\ c.executionReceipt # None /\ Genuine(c, c.executionReceipt)
    /\ Authorised(c) /\ InForce(c) /\ WithinScope(c) /\ ControlsPassed(c)

\* No receipt under the mandate repeats the execution, nor do they use it up.
UseLeft(c) ==
    LET used == {p \in Priors(c) : p.mandateRef = c.mandate.ref}
    IN  /\ \A p \in used : ~SameIdentity(p, c.executionReceipt)
        /\ Cardinality({p.ref.digest : p \in {q \in used : q.disposition = "executed"}})
               < c.mandate.maxExecutions

----------------------------------------------------------------------------
(* Properties.                                                              *)
\* Facts stay in the vocabulary the rulebooks are written in, and decisions in theirs.
TypeOK ==
    /\ ValidPolicyFacts(decision.facts)
    /\ decision.outcome \in ALLOWED_OUTCOMES
    /\ decision.disposition \in {"allocated", "invalid", "conflicted", "indeterminate"}
    /\ decision.disposition = "allocated" <=> decision.allocation # None
    /\ replay # None => replay.anchors \in Anchors /\ ValidPolicyFacts(replay.decision.facts)

(* One artifact that does not verify, is dated after the cutoff or is not the    *)
(* pinned one, and nobody is blamed: the decision is invalid, whatever else the   *)
(* case holds and whatever the rulebook says (evaluateCaseInternal).            *)
RejectedEvidenceBlamesNobody ==
    \/ \E a \in Artifacts(case) : a.proof # "ok"
    \/ case.pins # "ok"
    \/ FutureDated(case)
    => decision.outcome = "unresolved" /\ decision.disposition = "invalid"

(* No rulebook can lay the loss on the principal or the vendor unless the        *)
(* execution was inside the mandate as the artifacts show it: authorised, in       *)
(* force and not revoked, in scope, its controls passed (allowedOutcome).        *)
PrincipalInsideMandate ==
    decision.outcome \in {"principal", "model_vendor"} => InsideMandate(case)

\* Nor when the mandate was used up or the execution is a repetition (replayed).
ExecutionsCounted ==
    decision.outcome \in {"principal", "model_vendor"} => UseLeft(case)

\* The operator is blamed only for what the artifacts show it did outside the mandate.
OperatorOutsideMandate ==
    decision.outcome = "operator" =>
        /\ case.executionReceipt # None /\ Genuine(case, case.executionReceipt)
        /\ ~(InsideMandate(case) /\ UseLeft(case))

(* The vendor is blamed only if it is the mandate's vendor, its model and no other *)
(* ran, and no attestation, of which there is one by neither party, says the      *)
(* cause lay elsewhere as well (causationState).                                *)
VendorBlamedForItsModel ==
    decision.outcome = "model_vendor" =>
        LET model == case.executionReceipt.modelDigest
            says  == {a \in Attestations(case) : a.conclusion = "sufficient"}
        IN  /\ case.mandate.modelVendor # None
            /\ decision.allocation.id = case.mandate.modelVendor.id
            /\ decision.allocation.id \in case.policy.modelVendorIds
            /\ \E e \in Events(case) : e.eventType = "model_invoked"
            /\ \A e \in Events(case) :
                   e.eventType = "model_invoked" => Genuine(case, e) /\ e.contentDigest = model
            /\ says # {}
            /\ \A a \in says : a.subject = decision.allocation /\ a.modelDigest = model
            /\ \A a \in Attestations(case) :
                   /\ Genuine(case, a)
                   /\ a.conclusion \notin {"insufficient", "conflicting"} /\ a.competingCauseIds = {}
                   /\ a.attestor.id \notin {a.subject.id, case.policy.principalId, case.policy.operatorId}

(* The receipt commits to the events: of two cases with one receipt and different *)
(* events, at most one allocates (computeEventRootDigest, verifyRuntimeGraph).    *)
EventsAreBound ==
    [][ /\ case'.executionReceipt = case.executionReceipt
        /\ Refs(Events(case')) # Refs(Events(case))
        => ~(decision.disposition = "allocated" /\ decision'.disposition = "allocated") ]_vars

(* A bundle replayed under the anchors of its case gives the decision of the     *)
(* case, and under any others, or when it does not verify, blames nobody.       *)
ReplayAgrees ==
    replay # None =>
        IF replay.anchors = "matching" /\ verifyEvidenceBundle(case)
        THEN /\ replay.decision.outcome = decision.outcome
             /\ replay.decision.reasonCode = decision.reasonCode
             /\ replay.decision.disposition = decision.disposition
             /\ replay.decision.allocation = decision.allocation
        ELSE replay.decision.outcome = "unresolved" /\ replay.decision.disposition = "invalid"
=============================================================================
