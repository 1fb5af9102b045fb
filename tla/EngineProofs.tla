---------------------------- MODULE EngineProofs ----------------------------
(***************************************************************************)
(* What the engine never concludes, for any case, any change of it and any     *)
(* rulebook: AnswerOf and IsValid stay opaque.  The lemmas go from a conclusion  *)
(* that has passed the guard back through the facts to the artifacts.          *)
(***************************************************************************)
EXTENDS Engine, SequenceTheorems, FiniteSetTheorems, WellFoundedInduction, TLAPS

\* The facts of a case nothing of which is rejected.
CleanFacts(c) == Facts(c, RelevantPriors(c), {})

----------------------------------------------------------------------------
(* Sets of findings.                                                         *)
LEMMA WhenEmpty ==
    ASSUME NEW condition, NEW code, When(condition, code) = {}
    PROVE  ~condition
BY DEF When

LEMMA GivenOne ==
    ASSUME NEW x, x # None
    PROVE  Given(x) = {x}
BY DEF Given

\* Nothing is rejected only if everything supplied verifies and is dated in time.
LEMMA NothingRejected ==
    ASSUME NEW c, Invalidity(c) = {}
    PROVE  /\ c.pins = "ok" /\ c.trustSnapshot.proof = "ok" /\ ~FutureDated(c)
           /\ \A a \in Artifacts(c) : a.proof = "ok"
<1>1. /\ checkPins(c) = {} /\ TrustRejections(c) = {} /\ Rejections(c) = {}
      /\ When(FutureDated(c), "invalid") = {}
    BY DEF Invalidity
<1>2. c.pins = "ok"
    BY <1>1 DEF checkPins, When
<1>3. c.trustSnapshot.proof = "ok"
    BY <1>1 DEF TrustRejections, When
<1>4. ~FutureDated(c)
    BY <1>1 DEF When
<1>5. \A S, a : Rejected(c, S) = {} /\ a \in S => a.proof = "ok"
    <2>1. SUFFICES ASSUME NEW S, NEW a, Rejected(c, S) = {}, a \in S
                   PROVE  a.proof = "ok"
        OBVIOUS
    <2>2. verifyArtifact(c, a) = "ok"
        BY <2>1 DEF Rejected
    <2> QED
        BY <2>2 DEF verifyArtifact
<1>6. /\ Rejected(c, {c.policy}) = {} /\ Rejected(c, {c.rulebook}) = {}
      /\ Rejected(c, Given(c.priorDecision)) = {} /\ Rejected(c, Given(c.mandate)) = {}
      /\ Rejected(c, Given(c.executionReceipt)) = {} /\ Rejected(c, Given(c.incidentReport)) = {}
      /\ Rejected(c, Events(c)) = {} /\ Rejected(c, Priors(c)) = {} /\ Rejected(c, Attestations(c)) = {}
    BY <1>1 DEF Rejections
<1>7. ASSUME NEW a \in Artifacts(c)
      PROVE  a.proof = "ok"
    BY <1>3, <1>5, <1>6, <1>7 DEF Artifacts
<1> QED
    BY <1>2, <1>3, <1>4, <1>7

LEMMA GenuineIsAccepted ==
    ASSUME NEW c, NEW a
    PROVE  Accepted(c, a) <=> Genuine(c, a)
BY DEF Accepted, verifyArtifact, TrustPinned, Genuine

----------------------------------------------------------------------------
(* The guard over the rulebook.                                              *)
\* A case with something rejected is invalid whatever the rulebook says.
LEMMA RejectedIsInvalid ==
    ASSUME NEW c, Invalidity(c) # {}
    PROVE  evaluateCase(c).outcome = "unresolved" /\ evaluateCase(c).disposition = "invalid"
<1>1. Invalidity(c) \cup When(None # None, "invalid") = Invalidity(c)
    BY DEF When
<1>2. \A facts : guardedPolicyEvaluation(c, Invalidity(c), facts) = Unresolved("invalid_evidence")
    BY DEF guardedPolicyEvaluation
<1>3. dispositionFor(Unresolved("invalid_evidence")) = "invalid"
    BY DEF dispositionFor, Unresolved
<1>4. Unresolved("invalid_evidence").outcome = "unresolved"
    BY DEF Unresolved
<1> QED
    BY <1>1, <1>2, <1>3, <1>4 DEF evaluateCase, evaluateCaseInternal

\* A conclusion about a party has passed the guard.
LEMMA BlamedIsAllowed ==
    ASSUME NEW c, evaluateCase(c).outcome # "unresolved"
    PROVE  /\ Invalidity(c) = {}
           /\ CleanFacts(c).evidence_state # "contradictory"
           /\ allowedOutcome(evaluateCase(c).outcome, CleanFacts(c))
<1>1. Invalidity(c) = {}
    BY RejectedIsInvalid
<1>2. Invalidity(c) \cup When(None # None, "invalid") = {}
    BY <1>1 DEF When
<1> DEFINE g == guardedPolicyEvaluation(c, {}, CleanFacts(c))
<1>3. evaluateCase(c).outcome = g.outcome
    BY <1>2 DEF evaluateCase, evaluateCaseInternal, CleanFacts
<1>4. \A reason : g # Unresolved(reason)
    BY <1>3 DEF Unresolved
<1>5. /\ CleanFacts(c).evidence_state # "contradictory"
      /\ g = AnswerOf(c.rulebook, CleanFacts(c))
      /\ allowedOutcome(AnswerOf(c.rulebook, CleanFacts(c)).outcome, CleanFacts(c))
    BY <1>4 DEF guardedPolicyEvaluation
<1> QED
    BY <1>1, <1>3, <1>5

LEMMA BlamedIsExamined ==
    ASSUME NEW c, evaluateCase(c).outcome # "unresolved"
    PROVE  /\ Examined(c)
           /\ conflictingEvidence(c, RelevantPriors(c)) = {}
           /\ evaluateCase(c).outcome # "operator" =>
                  operatorViolation(c, RelevantPriors(c).relevant) = "none"
<1> DEFINE outcome == evaluateCase(c).outcome
           found   == RelevantPriors(c)
           violation == operatorViolation(c, found.relevant)
<1>1. /\ CleanFacts(c).evidence_state # "contradictory"
      /\ allowedOutcome(outcome, CleanFacts(c))
    BY BlamedIsAllowed
<1>2. /\ CleanFacts(c).evidence_state = evidenceState({}, conflictingEvidence(c, found), missingEvidence(c))
      /\ CleanFacts(c).receipt_state = receiptState(c)
      /\ CleanFacts(c).mandate_state = mandateState(c, violation)
      /\ CleanFacts(c).operator_violation = violation
    BY DEF CleanFacts, Facts
<1>3. conflictingEvidence(c, found) = {}
    BY <1>1, <1>2 DEF evidenceState
<1>4. outcome # "operator" => violation = "none" /\ mandateState(c, violation) = "valid"
    BY <1>1, <1>2 DEF allowedOutcome
<1>5. outcome = "operator" => violation # "none"
    BY <1>1, <1>2 DEF allowedOutcome
<1>6. receiptTrusted(c)
    BY <1>1, <1>2 DEF allowedOutcome, receiptState
<1>7. Examined(c)
    <2>1. CASE outcome = "operator"
        BY <1>5, <2>1 DEF operatorViolation
    <2>2. CASE outcome # "operator"
        BY <1>4, <1>6, <2>2 DEF mandateState, Examined
    <2> QED
        BY <2>1, <2>2
<1> QED
    BY <1>3, <1>4, <1>7

----------------------------------------------------------------------------
(* A case without conflicts and without a violation is inside the mandate.    *)
LEMMA NoConductConflicts ==
    ASSUME NEW c, Examined(c), conflictingEvidence(c, RelevantPriors(c)) = {}
    PROVE  EventConflicts(c) = {} /\ ControlConflicts(c) = {} /\ verifyRuntimeGraph(c) = {}
<1>1. ConductConflicts(c, RelevantPriors(c)) = {}
    BY DEF conflictingEvidence
<1> QED
    BY <1>1 DEF ConductConflicts

LEMMA NoViolation ==
    ASSUME NEW c, NEW relevant, Examined(c), operatorViolation(c, relevant) = "none"
    PROVE  /\ ~MandateUnusable(c) /\ ~(c.executionReceipt.executedAt >= c.mandate.expiresAt)
           /\ ~revocationEffective(c)
           /\ actionInScope(c.executionReceipt.action, c.mandate) /\ controlState(c) = "compliant"
BY DEF operatorViolation

\* Every event supplied counts.
LEMMA EventsCount ==
    ASSUME NEW c, Invalidity(c) = {}, c.mandate # None, EventConflicts(c) = {}
    PROVE  VerifiedEvents(c) = Events(c)
<1>1. ~(\E e \in Events(c) : ~runtimeActorBound(e, c.mandate))
    BY DEF EventConflicts, When
<1>2. c.trustSnapshot.proof = "ok" /\ ~FutureDated(c) /\ \A a \in Artifacts(c) : a.proof = "ok"
    BY NothingRejected
<1>3. ASSUME NEW e \in Events(c)
      PROVE  Accepted(c, e) /\ ~(e.observedAt > c.asOf)
    BY <1>2, <1>3 DEF Artifacts, Accepted, verifyArtifact, TrustPinned, FutureDated
<1> QED
    BY <1>1, <1>3, GivenOne DEF VerifiedEvents

LEMMA MandateAuthorises ==
    ASSUME NEW c, Examined(c), ~MandateUnusable(c)
    PROVE  Authorised(c)
<1>1. mandateRefsValid(c) /\ authorityBindingsValid(c)
    BY DEF MandateUnusable
<1>2. c.mandate # None /\ Genuine(c, c.mandate)
    BY <1>1, GenuineIsAccepted DEF mandateRefsValid, mandateTrusted
<1> QED
    BY <1>1, <1>2 DEF Authorised, mandateRefsValid, authorityBindingsValid

LEMMA MandateInForce ==
    ASSUME NEW c, VerifiedEvents(c) = Events(c), c.mandate # None, EventConflicts(c) = {}, ~revocationEffective(c),
           ~MandateUnusable(c), ~(c.executionReceipt.executedAt >= c.mandate.expiresAt)
    PROVE  InForce(c)
<1>1. ~(c.executionReceipt.executedAt < c.mandate.validFrom)
    BY DEF MandateUnusable
<1>2. ASSUME NEW e \in Events(c), e.eventType = "mandate_revoked"
      PROVE  ~(e.effectiveAt <= c.executionReceipt.executedAt)
    <2>1. RevocationBound(c, e)
        BY <1>2 DEF EventConflicts, When
    <2> QED
        BY <1>2, <2>1 DEF RevocationBound, revocationEffective
<1> QED
    BY <1>1, <1>2 DEF InForce

LEMMA ActionWithinScope ==
    ASSUME NEW c, actionInScope(c.executionReceipt.action, c.mandate)
    PROVE  WithinScope(c)
<1>1. PICK scope \in c.mandate.actions : InScope(c.executionReceipt.action, scope)
    BY DEF actionInScope
<1> QED
    BY <1>1 DEF InScope, WithinScope

LEMMA ControlsShown ==
    ASSUME NEW c, VerifiedEvents(c) = Events(c), ControlConflicts(c) = {}, controlState(c) = "compliant"
    PROVE  ControlsPassed(c)
<1> DEFINE Results == ToSet(c.executionReceipt.controlResults)
           Reported(k) == {r \in Results : r.controlId = k}
<1>1. c.mandate.requiredControls # {} /\ Unpassed(c) = {}
    BY DEF controlState
<1>2. ASSUME NEW r \in Results
      PROVE  \E e \in ControlEvents(c, r.controlId) : e.ref.id = r.eventId /\ e.controlResult = r.result
    BY <1>2 DEF ControlConflicts, When
<1>3. ASSUME NEW k \in c.mandate.requiredControls, NEW e \in ControlEvents(c, k)
      PROVE  e.controlResult # None /\ \A r \in Reported(k) : r.result = e.controlResult
    BY <1>3 DEF ControlConflicts, When
<1>4. ASSUME NEW k \in c.mandate.requiredControls
      PROVE  \E r \in Results : r.controlId = k /\ r.result = "pass"
    BY <1>1, <1>4 DEF Unpassed
<1>5. ASSUME NEW k \in c.mandate.requiredControls
      PROVE  \E r \in Results :
                 /\ r.controlId = k /\ r.result = "pass"
                 /\ \E e \in Events(c) : e.ref.id = r.eventId /\ e.controlId = k /\ Genuine(c, e)
    <2>1. PICK r \in Results : r.controlId = k /\ r.result = "pass"
        BY <1>4, <1>5
    <2>2. PICK e \in ControlEvents(c, k) : e.ref.id = r.eventId
        BY <1>2, <2>1
    <2>3. e \in Events(c) /\ e.controlId = k /\ Genuine(c, e)
        BY <2>2, GenuineIsAccepted DEF ControlEvents, VerifiedEvents
    <2> QED
        BY <2>1, <2>2, <2>3
<1>6. ASSUME NEW k \in c.mandate.requiredControls, NEW e \in Events(c), e.controlId = k
      PROVE  e.controlResult = "pass"
    <2>1. e \in ControlEvents(c, k)
        BY <1>6 DEF ControlEvents
    <2>2. PICK r \in Reported(k) : r.result = "pass"
        BY <1>4, <1>6
    <2> QED
        BY <1>3, <1>6, <2>1, <2>2
<1> QED
    BY <1>1, <1>5, <1>6 DEF ControlsPassed

LEMMA CompliantIsInside ==
    ASSUME NEW c, evaluateCase(c).outcome \in {"principal", "model_vendor"}
    PROVE  InsideMandate(c)
<1> DEFINE relevant == RelevantPriors(c).relevant
<1>1. Invalidity(c) = {} /\ Examined(c) /\ conflictingEvidence(c, RelevantPriors(c)) = {}
      /\ operatorViolation(c, relevant) = "none"
    BY BlamedIsAllowed, BlamedIsExamined
<1>2. EventConflicts(c) = {} /\ ControlConflicts(c) = {}
    BY <1>1, NoConductConflicts
<1>3. /\ ~MandateUnusable(c) /\ ~(c.executionReceipt.executedAt >= c.mandate.expiresAt)
      /\ ~revocationEffective(c)
      /\ actionInScope(c.executionReceipt.action, c.mandate) /\ controlState(c) = "compliant"
    BY <1>1, NoViolation
<1>4. c.mandate # None /\ c.executionReceipt # None /\ Genuine(c, c.executionReceipt)
    BY <1>1, GenuineIsAccepted DEF Examined, receiptTrusted
<1>5. VerifiedEvents(c) = Events(c)
    BY <1>1, <1>2, <1>4, EventsCount
<1>6. Authorised(c)
    BY <1>1, <1>3, MandateAuthorises
<1>7. InForce(c)
    BY <1>2, <1>3, <1>4, <1>5, MandateInForce
<1>8. WithinScope(c)
    BY <1>3, ActionWithinScope
<1>9. ControlsPassed(c)
    BY <1>2, <1>3, <1>5, ControlsShown
<1> QED
    BY <1>4, <1>6, <1>7, <1>8, <1>9 DEF InsideMandate

----------------------------------------------------------------------------
(* The vendor.                                                              *)
\* Every attestation supplied is heard.
LEMMA AttestationsHeard ==
    ASSUME NEW c, Invalidity(c) = {}, conflictingEvidence(c, RelevantPriors(c)) = {}
    PROVE  Heard(c) = Attestations(c)
<1>1. When(\E a \in Attestations(c) : ~AttestationBound(c, a), "causation_attestation_binding_conflict") = {}
    BY DEF conflictingEvidence
<1>2. \A a \in Attestations(c) : AttestationBound(c, a)
    BY <1>1 DEF When
<1>3. \A a \in Attestations(c) : Accepted(c, a)
    BY NothingRejected DEF Artifacts, Accepted, verifyArtifact, TrustPinned
<1> QED
    BY <1>2, <1>3 DEF Heard

LEMMA CausationProven ==
    ASSUME NEW c, evaluateCase(c).outcome \notin {"unresolved", "operator", "principal"}
    PROVE  causationState(c) = "sufficient" /\ modelProvenance(c) = "matched"
<1>1. allowedOutcome(evaluateCase(c).outcome, CleanFacts(c))
    BY BlamedIsAllowed
<1>2. CleanFacts(c).model_provenance = modelProvenance(c) /\ CleanFacts(c).causation_state = causationState(c)
    BY DEF CleanFacts, Facts
<1> QED
    BY <1>1, <1>2 DEF allowedOutcome

LEMMA CausationSufficient ==
    ASSUME NEW c, causationState(c) = "sufficient"
    PROVE  /\ Concluding(c, "conflicting") = {} /\ Concluding(c, "sufficient") # {}
           /\ Concluding(c, "insufficient") = {}
           /\ \A a \in Heard(c) : a.competingCauseIds = {}
           /\ \A a, b \in Concluding(c, "sufficient") : Claim(a) = Claim(b)
BY DEF causationState

LEMMA VendorIsTheModels ==
    ASSUME NEW c, evaluateCase(c).outcome = "model_vendor", NEW a \in Concluding(c, "sufficient")
    PROVE  /\ evaluateCase(c).allocation = a.subject
           /\ ProvenanceMatches(c, a) /\ AttestationBound(c, a)
<1>1. causationState(c) = "sufficient" /\ modelProvenance(c) = "matched"
    BY CausationProven
<1> DEFINE chosen == CHOOSE b \in Concluding(c, "sufficient") : TRUE
<1>2. evaluateCase(c).allocation = Vendor(c)
    BY DEF evaluateCase, evaluateCaseInternal, allocationFor
<1>3. Vendor(c) = chosen.subject
    BY <1>1 DEF Vendor
<1>4. chosen \in Concluding(c, "sufficient")
    OBVIOUS
<1>5. Claim(chosen) = Claim(a)
    BY <1>1, <1>4, CausationSufficient
<1>6. chosen.subject = a.subject
    BY <1>5 DEF Claim
<1>7. ProvenanceMatches(c, a)
    BY <1>1 DEF modelProvenance
<1>8. AttestationBound(c, a)
    BY DEF Concluding, Heard
<1> QED
    BY <1>2, <1>3, <1>6, <1>7, <1>8

LEMMA VendorsModelFailed ==
    ASSUME NEW c, evaluateCase(c).outcome = "model_vendor"
    PROVE  LET model == c.executionReceipt.modelDigest
               says  == {a \in Attestations(c) : a.conclusion = "sufficient"}
               party == evaluateCase(c).allocation
           IN  /\ c.mandate.modelVendor # None /\ party.id = c.mandate.modelVendor.id
               /\ party.id \in c.policy.modelVendorIds
               /\ \E e \in Events(c) : e.eventType = "model_invoked"
               /\ \A e \in Events(c) : e.eventType = "model_invoked" => Genuine(c, e) /\ e.contentDigest = model
               /\ says # {}
               /\ \A a \in says : a.subject = party /\ a.modelDigest = model
               /\ \A a \in Attestations(c) :
                      /\ Genuine(c, a)
                      /\ a.conclusion \notin {"insufficient", "conflicting"} /\ a.competingCauseIds = {}
                      /\ a.attestor.id \notin {a.subject.id, c.policy.principalId, c.policy.operatorId}
<1> DEFINE party == evaluateCase(c).allocation
           Sufficient == Concluding(c, "sufficient")
<1>1. /\ Invalidity(c) = {} /\ Examined(c) /\ conflictingEvidence(c, RelevantPriors(c)) = {}
    BY BlamedIsAllowed, BlamedIsExamined
<1>2. VerifiedEvents(c) = Events(c)
    BY <1>1, NoConductConflicts, EventsCount DEF Examined
<1>3. Heard(c) = Attestations(c)
    BY <1>1, AttestationsHeard
<1>4. /\ Concluding(c, "conflicting") = {} /\ Sufficient # {} /\ Concluding(c, "insufficient") = {}
      /\ \A a \in Heard(c) : a.competingCauseIds = {}
    BY CausationProven, CausationSufficient
<1>5. PICK witness \in Sufficient : TRUE
    BY <1>4
<1>6. party = witness.subject /\ ProvenanceMatches(c, witness) /\ AttestationBound(c, witness)
    BY <1>5, VendorIsTheModels
<1>7. /\ c.mandate.modelVendor # None /\ party.id = c.mandate.modelVendor.id
      /\ party.id \in c.policy.modelVendorIds
    BY <1>6 DEF ProvenanceMatches, AttestationBound
<1>8. /\ \E e \in Events(c) : e.eventType = "model_invoked"
      /\ \A e \in Events(c) : e.eventType = "model_invoked" =>
             Genuine(c, e) /\ e.contentDigest = c.executionReceipt.modelDigest
    <2>1. ModelEvents(c) = {e \in Events(c) : e.eventType = "model_invoked"}
        BY <1>2 DEF ModelEvents
    <2>2. \A e \in Events(c) : Genuine(c, e)
        BY <1>2, GenuineIsAccepted DEF VerifiedEvents
    <2> QED
        BY <1>6, <2>1, <2>2 DEF ProvenanceMatches
<1>9. Sufficient = {a \in Attestations(c) : a.conclusion = "sufficient"}
    BY <1>3 DEF Concluding
<1>10. \A a \in Sufficient : a.subject = party /\ a.modelDigest = c.executionReceipt.modelDigest
    BY VendorIsTheModels DEF ProvenanceMatches
<1>11. \A a \in Attestations(c) :
           /\ Genuine(c, a)
           /\ a.conclusion \notin {"insufficient", "conflicting"} /\ a.competingCauseIds = {}
           /\ a.attestor.id \notin {a.subject.id, c.policy.principalId, c.policy.operatorId}
    BY <1>3, <1>4, GenuineIsAccepted DEF Heard, Concluding, AttestationBound
<1> QED
    BY <1>4, <1>7, <1>8, <1>9, <1>10, <1>11

----------------------------------------------------------------------------
(* The prior receipts that count.                                            *)
LEMMA Least ==
    ASSUME NEW S \in SUBSET Nat, S # {}
    PROVE  \E m \in S : \A k \in S : m <= k
<1> DEFINE R == OpToRel(<, Nat)
<1>1. IsWellFoundedOn(R, Nat)
    BY NatLessThanWellFounded
<1>2. \A x, y \in Nat : y < x => <<y, x>> \in R
    BY DEF OpToRel
<1> HIDE DEF R
<1>3. \E x \in S : \A y \in S : ~ (<<y, x>> \in R)
    BY <1>1, WFMin
<1>4. PICK m \in S : \A y \in S : ~ (<<y, m>> \in R)
    BY <1>3
<1>5. ASSUME NEW k \in S PROVE m <= k
    <2>1. k \in Nat /\ m \in Nat
        OBVIOUS
    <2>2. ~ (<<k, m>> \in R)
        BY <1>4
    <2>3. k < m => <<k, m>> \in R
        BY <1>2, <2>1
    <2> QED
        BY <2>1, <2>2, <2>3
<1> QED
    BY <1>5

\* f keeps what the search has found after each of the first n receipts.
IsSearch(f, c, n) ==
    f = [m \in 0 .. n |-> IF m = 0 THEN NothingFound ELSE Examine(c, f[m - 1], c.priorReceipts[m])]

LEMMA SearchExists ==
    ASSUME NEW c, NEW n \in Nat
    PROVE  \E f : IsSearch(f, c, n)
<1> DEFINE bad == {k \in Nat : ~ \E f : IsSearch(f, c, k)}
<1>1. SUFFICES ASSUME bad # {} PROVE FALSE
    OBVIOUS
<1>2. PICK m \in bad : \A k \in bad : m <= k
    BY <1>1, Least
<1>3. CASE m = 0
    <2>1. IsSearch([k \in 0 .. 0 |-> NothingFound], c, 0)
        BY DEF IsSearch
    <2> QED
        BY <1>2, <1>3, <2>1
<1>4. CASE m # 0
    <2>1. m - 1 \in Nat /\ m \in Nat /\ m - 1 \notin bad
        BY <1>2, <1>4
    <2>2. PICK f : IsSearch(f, c, m - 1)
        BY <2>1
    <2> DEFINE g == [k \in 0 .. m |-> IF k = m THEN Examine(c, f[m - 1], c.priorReceipts[m]) ELSE f[k]]
    <2>3. \A k \in 0 .. (m - 1) :
              f[k] = IF k = 0 THEN NothingFound ELSE Examine(c, f[k - 1], c.priorReceipts[k])
        BY <2>2, Zenon DEF IsSearch
    <2>4. \A k \in 0 .. (m - 1) : g[k] = f[k]
        BY <2>1
    <2>5. \A k \in 0 .. m : g[k] = IF k = 0 THEN NothingFound ELSE Examine(c, g[k - 1], c.priorReceipts[k])
        <3>1. TAKE k \in 0 .. m
        <3>2. CASE k = m
            BY <1>4, <2>1, <2>4, <3>2
        <3>3. CASE k # m
            <4>1. k \in 0 .. (m - 1) /\ (k = 0 \/ k - 1 \in 0 .. (m - 1))
                BY <2>1, <3>3
            <4> QED
                BY <2>3, <2>4, <4>1
        <3> QED
            BY <3>2, <3>3
    <2>6. g = [k \in 0 .. m |-> g[k]]
        OBVIOUS
    <2> HIDE DEF g
    <2>7. IsSearch(g, c, m)
        BY <2>5, <2>6, Zenon DEF IsSearch
    <2> QED
        BY <2>7
<1> QED
    BY <1>3, <1>4

\* A receipt under the mandate that is verified and in time.
Counts(c, prior) == verifiedPrior(c, prior) /\ prior.mandateRef = c.mandate.ref

IsFound(found) == found = [relevant |-> found.relevant, conflicts |-> found.conflicts]

\* A receipt that raises no conflict beside others.
Fits(c, prior, others) ==
    /\ PriorBound(c, prior) /\ ~(prior.executedAt > c.executionReceipt.executedAt)
    /\ ~\E p \in others : p.ref.digest # prior.ref.digest /\ SameIdentity(p, prior)

Fitting(c, S) == \A p \in S : Fits(c, p, S)

LEMMA OneMoreFits ==
    ASSUME NEW c, NEW S, NEW prior
    PROVE  Fitting(c, S \cup {prior}) <=> Fitting(c, S) /\ Fits(c, prior, S)
    BY DEF Fitting, Fits, SameIdentity

LEMMA ExamineStep ==
    ASSUME NEW c, NEW found, NEW prior, IsFound(found), NEW next, next = Examine(c, found, prior)
    PROVE  /\ IsFound(next)
           /\ next.conflicts = {} <=> found.conflicts = {} /\ (Counts(c, prior) => Fits(c, prior, found.relevant))
           /\ next.conflicts = {} => next.relevant = found.relevant \cup {p \in {prior} : Counts(c, p)}
<1>0. PICK R, K : found = [relevant |-> R, conflicts |-> K]
    BY DEF IsFound
<1>1. ASSUME NEW code
      PROVE  LET n == [found EXCEPT !.conflicts = @ \cup {code}]
             IN  IsFound(n) /\ n.conflicts # {}
    BY ONLY <1>0 DEF IsFound
<1>2. LET n == [found EXCEPT !.relevant = @ \cup {prior}]
      IN  IsFound(n) /\ n.conflicts = K /\ n.relevant = R \cup {prior}
    BY ONLY <1>0 DEF IsFound
<1>3. found.relevant = R /\ found.conflicts = K
    BY ONLY <1>0
<1>4. CASE ~Counts(c, prior)
    <2>1. next = found
        BY <1>4 DEF Examine, Counts
    <2> QED
        BY <1>3, <1>4, <2>1
<1>5. CASE Counts(c, prior)
    <2>1. \/ ~Fits(c, prior, found.relevant) /\ \E code : next = [found EXCEPT !.conflicts = @ \cup {code}]
          \/ Fits(c, prior, found.relevant) /\ next = [found EXCEPT !.relevant = @ \cup {prior}]
        BY <1>5 DEF Examine, Counts, Fits
    <2>2. CASE ~Fits(c, prior, found.relevant) /\ \E code : next = [found EXCEPT !.conflicts = @ \cup {code}]
        <3>1. IsFound(next) /\ next.conflicts # {}
            BY <1>1, <2>2
        <3> QED
            BY <1>5, <2>2, <3>1
    <2>3. CASE Fits(c, prior, found.relevant) /\ next = [found EXCEPT !.relevant = @ \cup {prior}]
        <3>1. IsFound(next) /\ next.conflicts = K /\ next.relevant = R \cup {prior}
            BY <1>2, <2>3
        <3> QED
            BY <1>3, <1>5, <2>3, <3>1
    <2> QED
        BY <2>1, <2>2, <2>3
<1> QED
    BY <1>4, <1>5

LEMMA SearchFinds ==
    ASSUME NEW c, NEW n \in Nat, NEW f, IsSearch(f, c, n)
    PROVE  LET counted == {p \in {c.priorReceipts[i] : i \in 1 .. n} : Counts(c, p)}
           IN  /\ f[n].conflicts = {} => f[n].relevant = counted
               /\ f[n].conflicts = {} <=> Fitting(c, counted)
<1> DEFINE First(k) == {p \in {c.priorReceipts[i] : i \in 1 .. k} : Counts(c, p)}
           Good(k)  == /\ IsFound(f[k])
                       /\ f[k].conflicts = {} => f[k].relevant = First(k)
                       /\ f[k].conflicts = {} <=> Fitting(c, First(k))
           bad == {k \in Nat : k <= n /\ ~Good(k)}
<1>1. SUFFICES bad = {}
    BY <1>1
<1>2. SUFFICES ASSUME bad # {} PROVE FALSE
    OBVIOUS
<1>3. PICK m \in bad : \A k \in bad : m <= k
    BY <1>2, Least
<1>4. \A k \in 0 .. n :
          f[k] = IF k = 0 THEN NothingFound ELSE Examine(c, f[k - 1], c.priorReceipts[k])
    BY Zenon DEF IsSearch
<1>5. m \in Nat /\ m <= n /\ ~Good(m) /\ m \in 0 .. n
    BY <1>3
<1>6. CASE m = 0
    <2>1. f[0] = NothingFound
        BY <1>4, <1>5, <1>6
    <2>2. First(0) = {}
        OBVIOUS
    <2>3. Good(0)
        BY ONLY <2>1, <2>2 DEF NothingFound, IsFound, Fitting
    <2> QED
        BY <1>5, <1>6, <2>3
<1>7. CASE m # 0
    <2>1. m - 1 \in Nat /\ m - 1 <= n /\ m - 1 \notin bad
        BY <1>3, <1>5, <1>7
    <2>2. Good(m - 1)
        BY <2>1
    <2>3. f[m] = Examine(c, f[m - 1], c.priorReceipts[m])
        BY <1>4, <1>5, <1>7
    <2> DEFINE prior == c.priorReceipts[m]
    <2>4. First(m) = First(m - 1) \cup {p \in {prior} : Counts(c, p)}
        <3>1. 1 .. m = (1 .. (m - 1)) \cup {m}
            BY <1>5, <1>7
        <3> QED
            BY <3>1
    <2> HIDE DEF First
    <2>5. /\ IsFound(f[m])
          /\ f[m].conflicts = {} <=> f[m - 1].conflicts = {} /\ (Counts(c, prior) => Fits(c, prior, f[m - 1].relevant))
          /\ f[m].conflicts = {} => f[m].relevant = f[m - 1].relevant \cup {p \in {prior} : Counts(c, p)}
        BY <2>2, <2>3, ExamineStep
    <2>6. Good(m)
        <3>1. Fitting(c, First(m - 1) \cup {prior}) <=> Fitting(c, First(m - 1)) /\ Fits(c, prior, First(m - 1))
            BY OneMoreFits
        <3>2. CASE Counts(c, prior)
            <4>1. First(m) = First(m - 1) \cup {prior}
                BY <2>4, <3>2
            <4> QED
                BY <2>2, <2>5, <3>1, <3>2, <4>1
        <3>3. CASE ~Counts(c, prior)
            <4>1. First(m) = First(m - 1)
                BY <2>4, <3>3
            <4> QED
                BY <2>2, <2>5, <3>3, <4>1
        <3> QED
            BY <3>2, <3>3
    <2> QED
        BY <1>5, <2>6
<1> QED
    BY <1>6, <1>7

LEMMA ListOfPriors ==
    ASSUME NEW c, c.priorReceipts \in Seq(Priors(c))
    PROVE  /\ Len(c.priorReceipts) \in Nat
           /\ Priors(c) = {c.priorReceipts[i] : i \in 1 .. Len(c.priorReceipts)}
           /\ IsFiniteSet(Priors(c))
<1> DEFINE s == c.priorReceipts
           T == {s[i] : i \in 1 .. Len(s)}
<1>1. Len(s) \in Nat /\ DOMAIN s = 1 .. Len(s)
    BY Z3
<1>2. Priors(c) = T
    BY ONLY <1>1, Zenon DEF Priors, ToSet
<1>3. IsFiniteSet(1 .. Len(s))
    BY <1>1, FS_Interval
<1>4. IsFiniteSet(T)
    <2> DEFINE f == [i \in 1 .. Len(s) |-> s[i]]
    <2>1. f \in Surjection(1 .. Len(s), T)
        BY ONLY Zenon DEF Surjection
    <2> QED
        BY ONLY <1>3, <2>1, FS_Surjection
<1> QED
    BY <1>1, <1>2, <1>4

LEMMA RelevantAre ==
    ASSUME NEW c, c.priorReceipts \in Seq(Priors(c))
    PROVE  LET counted == {p \in Priors(c) : Counts(c, p)}
           IN  /\ RelevantPriors(c).conflicts = {} => RelevantPriors(c).relevant = counted
               /\ RelevantPriors(c).conflicts = {} <=> Fitting(c, counted)
<1> DEFINE n == Len(c.priorReceipts)
           f == CHOOSE g : IsSearch(g, c, n)
<1>1. n \in Nat /\ Priors(c) = {c.priorReceipts[i] : i \in 1 .. n}
    BY ListOfPriors
<1>2. RelevantPriors(c) = f[n]
    BY Zenon DEF RelevantPriors, IsSearch
<1>3. IsSearch(f, c, n)
    BY <1>1, SearchExists, Zenon
<1> HIDE DEF f
<1>4. LET counted == {p \in {c.priorReceipts[i] : i \in 1 .. n} : Counts(c, p)}
      IN  /\ f[n].conflicts = {} => f[n].relevant = counted
          /\ f[n].conflicts = {} <=> Fitting(c, counted)
    BY ONLY <1>1, <1>3, SearchFinds
<1> QED
    BY ONLY <1>1, <1>2, <1>4
----------------------------------------------------------------------------
(* The executions under the mandate.                                         *)
Used(c) == {p \in Priors(c) : p.mandateRef = c.mandate.ref}

LEMMA RelevantIsUsed ==
    ASSUME NEW c, Shaped(c), Invalidity(c) = {}, Examined(c), conflictingEvidence(c, RelevantPriors(c)) = {}
    PROVE  RelevantPriors(c).relevant = Used(c)
<1>1. ConductConflicts(c, RelevantPriors(c)) = {}
    BY DEF conflictingEvidence
<1>2. RelevantPriors(c).conflicts = {}
    BY <1>1 DEF ConductConflicts
<1>3. RelevantPriors(c).relevant = {p \in Priors(c) : Counts(c, p)}
    BY <1>2, RelevantAre DEF Shaped
<1>4. c.trustSnapshot.proof = "ok" /\ ~FutureDated(c) /\ \A a \in Artifacts(c) : a.proof = "ok"
    BY NothingRejected
<1>5. \A p \in Priors(c) : verifiedPrior(c, p)
    BY <1>4 DEF Artifacts, FutureDated, verifiedPrior, Accepted, verifyArtifact, TrustPinned
<1> QED
    BY <1>3, <1>5 DEF Counts, Used

\* Receipts, one for each digest, are as many as their digests.
LEMMA DigestsCount ==
    ASSUME NEW S, IsFiniteSet(S), NEW D, D = {p.ref.digest : p \in S}
    PROVE  /\ Cardinality(S) \in Nat /\ Cardinality(D) \in Nat
           /\ Cardinality(D) <= Cardinality(S)
           /\ (\A p, q \in S : p.ref.digest = q.ref.digest => p = q) => Cardinality(D) = Cardinality(S)
<1> DEFINE f == [p \in S |-> p.ref.digest]
<1>1. f \in Surjection(S, D)
    BY ONLY D = {p.ref.digest : p \in S}, Zenon DEF Surjection
<1>2. \A p \in S : f[p] = p.ref.digest
    OBVIOUS
<1>3. f \in [S -> D]
    OBVIOUS
<1> HIDE DEF f
<1>4. IsFiniteSet(D) /\ Cardinality(D) <= Cardinality(S)
      /\ (Cardinality(D) = Cardinality(S) <=> f \in Injection(S, D))
    BY ONLY <1>1, FS_Surjection, IsFiniteSet(S)
<1>5. ASSUME \A p, q \in S : p.ref.digest = q.ref.digest => p = q
      PROVE  f \in Injection(S, D)
    BY ONLY <1>2, <1>3, <1>5, Zenon DEF Injection, IsInjective
<1>6. Cardinality(S) \in Nat /\ Cardinality(D) \in Nat
    BY <1>4, FS_CardinalityType
<1> QED
    BY <1>4, <1>5, <1>6

LEMMA UseCounted ==
    ASSUME NEW c, Shaped(c), Invalidity(c) = {}, Examined(c), conflictingEvidence(c, RelevantPriors(c)) = {}
    PROVE  replayed(c, RelevantPriors(c).relevant) <=> ~UseLeft(c)
<1> DEFINE Executed == {p \in Used(c) : p.disposition = "executed"}
           D == {p.ref.digest : p \in Executed}
<1>1. RelevantPriors(c).relevant = Used(c)
    BY RelevantIsUsed
<1>2. c.mandate # None /\ \A a \in Artifacts(c) : a.proof = "ok"
    BY NothingRejected DEF Examined
<1>3. c.mandate.maxExecutions \in Nat
    BY <1>2 DEF Shaped, Artifacts, Given
<1>4. \A p, q \in Executed : p.ref.digest = q.ref.digest => p = q
    BY <1>2 DEF Shaped, Artifacts, Used
<1>5. IsFiniteSet(Executed)
    <2>1. IsFiniteSet(Priors(c)) /\ Executed \in SUBSET Priors(c)
        BY ListOfPriors DEF Shaped, Used
    <2> QED
        BY <2>1, FS_Subset
<1> HIDE DEF Executed
<1>6. Cardinality(Executed) \in Nat /\ Cardinality(D) = Cardinality(Executed)
    BY <1>4, <1>5, DigestsCount
<1>7. replayed(c, RelevantPriors(c).relevant) <=>
          \/ \E p \in Used(c) : SameIdentity(p, c.executionReceipt)
          \/ Cardinality(Executed) + 1 > c.mandate.maxExecutions
    BY ONLY <1>1, Zenon DEF replayed, Executed
<1>8. UseLeft(c) <=>
          /\ \A p \in Used(c) : ~SameIdentity(p, c.executionReceipt)
          /\ Cardinality(D) < c.mandate.maxExecutions
    BY ONLY Zenon DEF UseLeft, Used, Executed
<1> HIDE DEF D
<1> QED
    BY ONLY <1>3, <1>6, <1>7, <1>8
----------------------------------------------------------------------------
(* The operator.                                                             *)
\* Inside the mandate and with a use left there is nothing to blame the operator for.
LEMMA InsideMandateAllows ==
    ASSUME NEW c, Shaped(c), InsideMandate(c), Invalidity(c) = {}
    PROVE  ~MandateUnusable(c)
<1>1. c.mandate # None /\ c.executionReceipt # None /\ Authorised(c) /\ InForce(c)
    BY DEF InsideMandate, Authorised
<1>2. ~FutureDated(c) /\ \A a \in Artifacts(c) : a.proof = "ok"
    BY NothingRejected
<1>3. Accepted(c, c.mandate) /\ ~(c.mandate.issuedAt > c.asOf)
    BY <1>1, <1>2, GenuineIsAccepted DEF Authorised, FutureDated, Given
<1>4. mandateRefsValid(c)
    BY <1>1, <1>3 DEF Authorised, mandateRefsValid, mandateTrusted
<1>5. authorityBindingsValid(c)
    BY <1>1 DEF Authorised, authorityBindingsValid
<1>6. c.mandate.validFrom \in Nat /\ c.mandate.expiresAt \in Nat /\ c.executionReceipt.executedAt \in Nat
    BY <1>1, <1>2 DEF Shaped, Artifacts, Given
<1>7. /\ ~(c.executionReceipt.executedAt < c.mandate.validFrom)
      /\ ~(c.executionReceipt.executedAt >= c.mandate.expiresAt)
    BY <1>1 DEF InForce
<1>8. c.mandate.validFrom < c.mandate.expiresAt
    BY ONLY <1>6, <1>7
<1> QED
    BY <1>4, <1>5, <1>7, <1>8 DEF MandateUnusable

LEMMA InsideMandateIsCompliant ==
    ASSUME NEW c, InsideMandate(c), ControlConflicts(c) = {}
    PROVE  /\ ~(c.executionReceipt.executedAt >= c.mandate.expiresAt)
           /\ ~revocationEffective(c)
           /\ actionInScope(c.executionReceipt.action, c.mandate)
           /\ controlState(c) = "compliant"
<1>1. ~(c.executionReceipt.executedAt >= c.mandate.expiresAt) /\ ~revocationEffective(c)
    BY DEF InsideMandate, InForce, revocationEffective, VerifiedEvents
<1>2. actionInScope(c.executionReceipt.action, c.mandate)
    <2>1. WithinScope(c)
        BY DEF InsideMandate
    <2> QED
        BY <2>1 DEF WithinScope, actionInScope, InScope
<1>3. c.mandate.requiredControls # {} /\ Unpassed(c) = {}
    BY DEF InsideMandate, ControlsPassed, Unpassed
<1> QED
    BY <1>1, <1>2, <1>3 DEF controlState

LEMMA ViolationIsOutside ==
    ASSUME NEW c, Shaped(c), Invalidity(c) = {}, Examined(c), conflictingEvidence(c, RelevantPriors(c)) = {},
           operatorViolation(c, RelevantPriors(c).relevant) # "none"
    PROVE  ~(InsideMandate(c) /\ UseLeft(c))
<1>1. SUFFICES ASSUME InsideMandate(c), UseLeft(c)
               PROVE  FALSE
    OBVIOUS
<1>2. ~MandateUnusable(c)
    BY <1>1, InsideMandateAllows
<1>3. ControlConflicts(c) = {}
    BY NoConductConflicts
<1>4. /\ ~(c.executionReceipt.executedAt >= c.mandate.expiresAt) /\ ~revocationEffective(c)
      /\ actionInScope(c.executionReceipt.action, c.mandate) /\ controlState(c) = "compliant"
    BY <1>1, <1>3, InsideMandateIsCompliant
<1>5. ~replayed(c, RelevantPriors(c).relevant)
    BY <1>1, UseCounted
<1> QED
    BY <1>2, <1>4, <1>5 DEF operatorViolation

LEMMA CompliantHasUse ==
    ASSUME NEW c, Shaped(c), evaluateCase(c).outcome \in {"principal", "model_vendor"}
    PROVE  UseLeft(c)
<1>1. Invalidity(c) = {} /\ Examined(c) /\ conflictingEvidence(c, RelevantPriors(c)) = {}
      /\ operatorViolation(c, RelevantPriors(c).relevant) = "none"
    BY BlamedIsAllowed, BlamedIsExamined
<1>2. ~replayed(c, RelevantPriors(c).relevant)
    BY <1>1 DEF operatorViolation
<1> QED
    BY <1>1, <1>2, UseCounted

LEMMA OperatorViolates ==
    ASSUME NEW c, evaluateCase(c).outcome = "operator"
    PROVE  operatorViolation(c, RelevantPriors(c).relevant) # "none"
<1>1. allowedOutcome("operator", CleanFacts(c))
    BY BlamedIsAllowed
<1>2. CleanFacts(c).operator_violation = operatorViolation(c, RelevantPriors(c).relevant)
    BY DEF CleanFacts, Facts
<1> QED
    BY <1>1, <1>2 DEF allowedOutcome

LEMMA OperatorIsOutside ==
    ASSUME NEW c, Shaped(c), evaluateCase(c).outcome = "operator"
    PROVE  /\ c.executionReceipt # None /\ Genuine(c, c.executionReceipt)
           /\ ~(InsideMandate(c) /\ UseLeft(c))
<1>1. Invalidity(c) = {} /\ Examined(c) /\ conflictingEvidence(c, RelevantPriors(c)) = {}
    BY BlamedIsAllowed, BlamedIsExamined
<1>2. c.executionReceipt # None /\ Genuine(c, c.executionReceipt)
    BY <1>1, GenuineIsAccepted DEF Examined, receiptTrusted
<1> QED
    BY <1>1, <1>2, OperatorViolates, ViolationIsOutside

----------------------------------------------------------------------------
(* The decision is the engine's, of the case submitted last.                  *)
Decided ==
    /\ decision = evaluateCase(case)
    /\ Shaped(case)

THEOREM DecidedAlways == Spec => []Decided
<1>1. Init => Decided
    BY DEF Init, Decided
<1>2. Decided /\ [Next]_vars => Decided'
    <2> SUFFICES ASSUME Decided, [Next]_vars
                 PROVE  Decided'
        OBVIOUS
    <2>1. ASSUME NEW c, Evaluate(c)
          PROVE  Decided'
        <3>1. case' = c /\ decision' = evaluateCase(c) /\ Shaped(c)
            BY <2>1 DEF Evaluate
        <3> QED
            BY ONLY <3>1 DEF Decided
    <2>2. ASSUME NEW anchors, Replay(anchors)
          PROVE  Decided'
        <3>1. case' = case /\ decision' = decision
            BY <2>2 DEF Replay
        <3> QED
            BY ONLY <3>1, Decided DEF Decided
    <2>3. CASE UNCHANGED vars
        BY ONLY <2>3, Decided DEF Decided, vars
    <2> QED
        BY <2>1, <2>2, <2>3 DEF Next
<1> QED
    BY <1>1, <1>2, PTL DEF Spec

(* One artifact that is forged, malformed or of the future, and nobody is blamed, *)
(* whatever the rest of the case and the rulebook (evaluateCaseInternal).       *)
THEOREM RejectedNeverBlames == Spec => []RejectedEvidenceBlamesNobody
<1>1. Decided => RejectedEvidenceBlamesNobody
    BY NothingRejected, RejectedIsInvalid DEF Decided, RejectedEvidenceBlamesNobody
<1> QED
    BY <1>1, DecidedAlways, PTL

(* No rulebook lays the loss on the principal or the vendor of an execution       *)
(* outside the mandate (allowedOutcome).                                       *)
THEOREM PrincipalOnlyInside == Spec => []PrincipalInsideMandate
<1>1. Decided => PrincipalInsideMandate
    BY CompliantIsInside DEF Decided, PrincipalInsideMandate
<1> QED
    BY <1>1, DecidedAlways, PTL

(* Nor of one that repeats an execution or uses the mandate up (replayed).         *)
THEOREM PrincipalOnlyWithinUse == Spec => []ExecutionsCounted
<1>1. Decided => ExecutionsCounted
    BY CompliantHasUse DEF Decided, ExecutionsCounted
<1> QED
    BY <1>1, DecidedAlways, PTL

(* And the operator answers for none that was inside it (operatorViolation): with  *)
(* the two theorems before, the parties' conditions exclude one another.        *)
THEOREM OperatorOnlyOutside == Spec => []OperatorOutsideMandate
<1>1. Decided => OperatorOutsideMandate
    BY OperatorIsOutside DEF Decided, OperatorOutsideMandate
<1> QED
    BY <1>1, DecidedAlways, PTL

(* The vendor is blamed only as the mandate's vendor, when its model and no other  *)
(* ran and a third party, contradicted by none, says it was the cause           *)
(* (causationState).                                                          *)
THEOREM VendorOnlyForItsModel == Spec => []VendorBlamedForItsModel
<1>1. Decided => VendorBlamedForItsModel
    BY VendorsModelFailed DEF Decided, VendorBlamedForItsModel
<1> QED
    BY <1>1, DecidedAlways, PTL

----------------------------------------------------------------------------
(* The events are the ones the receipt was signed over.                       *)
LEMMA AllocatedIsBlamed ==
    ASSUME NEW c, evaluateCase(c).disposition = "allocated"
    PROVE  evaluateCase(c).outcome # "unresolved"
BY DEF evaluateCase, evaluateCaseInternal, dispositionFor

LEMMA AllocatedIsRooted ==
    ASSUME NEW c, evaluateCase(c).disposition = "allocated"
    PROVE  c.executionReceipt.eventRootDigest = computeEventRootDigest(Events(c))
<1>1. verifyRuntimeGraph(c) = {}
    BY AllocatedIsBlamed, BlamedIsExamined, NoConductConflicts
<1>2. When(c.executionReceipt.eventRootDigest # computeEventRootDigest(Events(c)),
           "event_root_digest_mismatch") = {}
    BY <1>1 DEF verifyRuntimeGraph
<1> QED
    BY <1>2 DEF When

LEMMA RootNamesAtLeast ==
    ASSUME NEW S, NEW T, computeEventRootDigest(S) = computeEventRootDigest(T), NEW ref \in Refs(S)
    PROVE  ref \in Refs(T)
<1>1. PICK e \in S : e.ref = ref
    BY DEF Refs
<1>2. <<e.sequence, ref>> \in computeEventRootDigest(T)
    BY <1>1 DEF computeEventRootDigest
<1>3. PICK f \in T : <<f.sequence, f.ref>> = <<e.sequence, ref>>
    BY <1>2 DEF computeEventRootDigest
<1> QED
    BY <1>3 DEF Refs

LEMMA RootNamesEvents ==
    ASSUME NEW S, NEW T, computeEventRootDigest(S) = computeEventRootDigest(T)
    PROVE  Refs(S) = Refs(T)
<1>1. \A ref : ref \in Refs(S) <=> ref \in Refs(T)
    BY RootNamesAtLeast
<1> QED
    BY <1>1

(* Of two submissions with one receipt and different events at most one is         *)
(* allocated (computeEventRootDigest).                                         *)
THEOREM EventsBound == Spec => EventsAreBound
<1>1. ASSUME Decided, Decided', case'.executionReceipt = case.executionReceipt,
             decision.disposition = "allocated", decision'.disposition = "allocated"
      PROVE  Refs(Events(case')) = Refs(Events(case))
    <2>1. case.executionReceipt.eventRootDigest = computeEventRootDigest(Events(case))
        BY <1>1, AllocatedIsRooted DEF Decided
    <2>2. case'.executionReceipt.eventRootDigest = computeEventRootDigest(Events(case'))
        BY <1>1, AllocatedIsRooted DEF Decided
    <2> QED
        BY <1>1, <2>1, <2>2, RootNamesEvents
<1>2. Decided /\ Decided' =>
          [ /\ case'.executionReceipt = case.executionReceipt
            /\ Refs(Events(case')) # Refs(Events(case))
            => ~(decision.disposition = "allocated" /\ decision'.disposition = "allocated") ]_vars
    BY <1>1
<1> QED
    BY <1>2, DecidedAlways, PTL DEF EventsAreBound

----------------------------------------------------------------------------
(* The bundle of a case has its lists in order, and the engine does not mind.     *)
\* What is ahead of an index is what has a smaller key.
Keyed(n, key, ahead) ==
    /\ \A i \in 1 .. n : key[i] \in Int
    /\ \A i, j \in 1 .. n : key[i] = key[j] => i = j
    /\ \A i \in 1 .. n : ahead[i] = {j \in 1 .. n : key[j] < key[i]}

\* Each index has a place, and each place an index.
HavePlaces(n, ahead) ==
    /\ \A k \in 1 .. n : \E i \in 1 .. n : Cardinality(ahead[i]) = k - 1
    /\ \A i \in 1 .. n : Cardinality(ahead[i]) \in Nat /\ Cardinality(ahead[i]) + 1 \in 1 .. n
    /\ \A i, j \in 1 .. n : Cardinality(ahead[i]) = Cardinality(ahead[j]) => i = j

LEMMA Places ==
    ASSUME NEW n \in Nat, NEW key, NEW ahead, Keyed(n, key, ahead)
    PROVE  HavePlaces(n, ahead)
<1>0. /\ \A i \in 1 .. n : key[i] \in Int
      /\ \A i, j \in 1 .. n : key[i] = key[j] => i = j
      /\ \A i \in 1 .. n : ahead[i] = {j \in 1 .. n : key[j] < key[i]}
    BY DEF Keyed
<1>1. IsFiniteSet(1 .. n) /\ Cardinality(1 .. n) = n
    BY FS_Interval
<1>2. ASSUME NEW S \in SUBSET (1 .. n) PROVE IsFiniteSet(S) /\ Cardinality(S) \in Nat
    BY <1>1, FS_Subset, FS_CardinalityType
<1>3. ASSUME NEW S \in SUBSET (1 .. n), NEW x \in S PROVE Cardinality(S \ {x}) = Cardinality(S) - 1
    BY <1>2, FS_RemoveElement
<1>4. ASSUME NEW i \in 1 .. n PROVE Cardinality(ahead[i]) \in 0 .. n - 1
    <2>1. ahead[i] \subseteq (1 .. n) \ {i}
        BY <1>0
    <2>2. Cardinality((1 .. n) \ {i}) = n - 1 /\ IsFiniteSet((1 .. n) \ {i})
        BY <1>1, <1>2, <1>3
    <2>3. Cardinality(ahead[i]) <= n - 1 /\ Cardinality(ahead[i]) \in Nat
        BY <2>1, <2>2, <1>2, FS_Subset
    <2> QED
        BY <2>3
<1>5. ASSUME NEW i \in 1 .. n, NEW j \in 1 .. n, key[i] < key[j]
      PROVE  Cardinality(ahead[i]) < Cardinality(ahead[j])
    <2>1. i \in ahead[j] /\ ahead[i] \subseteq ahead[j] \ {i}
        BY <1>0, <1>5
    <2>2. ahead[j] \in SUBSET (1 .. n) /\ ahead[i] \in SUBSET (1 .. n)
        BY <1>0
    <2>3. Cardinality(ahead[i]) <= Cardinality(ahead[j] \ {i})
        BY <1>2, <2>1, <2>2, FS_Subset
    <2>4. Cardinality(ahead[j] \ {i}) = Cardinality(ahead[j]) - 1
        BY <1>3, <2>1, <2>2
    <2>5. Cardinality(ahead[j]) \in Nat /\ Cardinality(ahead[i]) \in Nat
        BY <1>2, <2>2
    <2> QED
        BY <2>3, <2>4, <2>5
<1>6. ASSUME NEW i \in 1 .. n, NEW j \in 1 .. n, Cardinality(ahead[i]) = Cardinality(ahead[j])
      PROVE  i = j
    <2>1. ~(key[i] < key[j]) /\ ~(key[j] < key[i])
        BY <1>4, <1>5, <1>6
    <2> QED
        BY <1>0, <2>1
<1> DEFINE rank == [i \in 1 .. n |-> Cardinality(ahead[i])]
<1>7. rank \in Injection(1 .. n, 0 .. n - 1)
    BY <1>4, <1>6 DEF Injection, IsInjective
<1>8. IsFiniteSet(0 .. n - 1) /\ Cardinality(0 .. n - 1) = n
    BY FS_Interval
<1>9. rank \in Surjection(1 .. n, 0 .. n - 1)
    BY <1>1, <1>7, <1>8, FS_Injection
<1>10. ASSUME NEW k \in 1 .. n PROVE \E i \in 1 .. n : Cardinality(ahead[i]) = k - 1
    <2>1. k - 1 \in 0 .. n - 1
        OBVIOUS
    <2> QED
        BY <1>9, <2>1 DEF Surjection
<1> QED
    BY <1>4, <1>6, <1>10 DEF HavePlaces

Permutes(p, n) ==
    /\ p \in [1 .. n -> 1 .. n]
    /\ \A i, j \in 1 .. n : p[i] = p[j] => i = j
    /\ \A i \in 1 .. n : \E k \in 1 .. n : p[k] = i

Rearranged(list, other) ==
    \E p : Permutes(p, Len(list)) /\ other = [k \in 1 .. Len(list) |-> list[p[k]]]

LEMMA PlacedIsRearranged ==
    ASSUME NEW list, list \in Seq(ToSet(list)),
           NEW key, \A i \in DOMAIN list : key[i] \in Int,
           \A i, j \in DOMAIN list : key[i] = key[j] => i = j,
           NEW ahead, \A i \in DOMAIN list : ahead[i] = {j \in DOMAIN list : key[j] < key[i]}
    PROVE  Rearranged(list, Placed(list, ahead))
<1> DEFINE n == Len(list)
           At(k) == CHOOSE i \in 1 .. n : Cardinality(ahead[i]) = k - 1
           p == [k \in 1 .. n |-> At(k)]
<1>1. n \in Nat /\ DOMAIN list = 1 .. n
    BY Z3
<1> HIDE DEF n
<1>2. /\ \A k \in 1 .. n : \E i \in 1 .. n : Cardinality(ahead[i]) = k - 1
      /\ \A i \in 1 .. n : Cardinality(ahead[i]) \in Nat /\ Cardinality(ahead[i]) + 1 \in 1 .. n
      /\ \A i, j \in 1 .. n : Cardinality(ahead[i]) = Cardinality(ahead[j]) => i = j
    <2>1. Keyed(n, key, ahead)
        BY <1>1 DEF Keyed
    <2>2. HavePlaces(n, ahead)
        BY ONLY <1>1, <2>1, Places
    <2> QED
        BY ONLY <2>2 DEF HavePlaces
<1>3. ASSUME NEW k \in 1 .. n PROVE At(k) \in 1 .. n /\ Cardinality(ahead[At(k)]) = k - 1
    BY ONLY <1>2
<1>4. Placed(list, ahead) = [k \in 1 .. n |-> list[At(k)]]
    BY ONLY <1>1 DEF Placed
<1> HIDE DEF At
<1>5. \A k \in 1 .. n : p[k] = At(k)
    OBVIOUS
<1>6. p \in [1 .. n -> 1 .. n]
    BY ONLY <1>3
<1> HIDE DEF p
<1>7. ASSUME NEW i \in 1 .. n, NEW j \in 1 .. n, p[i] = p[j] PROVE i = j
    <2>1. Cardinality(ahead[p[i]]) = i - 1 /\ Cardinality(ahead[p[j]]) = j - 1
        BY ONLY <1>3, <1>5
    <2> QED
        BY ONLY <1>7, <2>1, <1>1
<1>8. ASSUME NEW i \in 1 .. n PROVE \E k \in 1 .. n : p[k] = i
    <2> DEFINE k == Cardinality(ahead[i]) + 1
    <2>1. k \in 1 .. n
        BY ONLY <1>2
    <2>2. p[k] \in 1 .. n /\ Cardinality(ahead[p[k]]) = k - 1
        BY ONLY <1>3, <1>5, <2>1
    <2>3. Cardinality(ahead[i]) = k - 1
        BY ONLY <1>2
    <2>4. p[k] = i
        BY ONLY <1>2, <2>2, <2>3
    <2> QED
        BY <2>1, <2>4
<1>9. Permutes(p, n)
    BY <1>6, <1>7, <1>8 DEF Permutes
<1>10. Placed(list, ahead) = [k \in 1 .. n |-> list[p[k]]]
    BY <1>4, <1>5
<1> QED
    BY <1>9, <1>10 DEF Rearranged, n

LEMMA EventsAreRearranged ==
    ASSUME NEW list, list \in Seq(ToSet(list)), \A i \in DOMAIN list : list[i].sequence \in Int,
           \A i, j \in DOMAIN list : list[i].sequence = list[j].sequence => i = j
    PROVE  Rearranged(list, EventsInOrder(list))
<1> DEFINE key == [i \in DOMAIN list |-> list[i].sequence]
           ahead == [i \in DOMAIN list |-> {j \in DOMAIN list \ {i} : \/ EventBefore(list[j], list[i])
                                                                      \/ j < i /\ ~EventBefore(list[i], list[j])}]
<1>1. DOMAIN list \subseteq Nat
    BY Z3
<1>2. ASSUME NEW i \in DOMAIN list PROVE ahead[i] = {j \in DOMAIN list : key[j] < key[i]}
    <2>1. ASSUME NEW j \in DOMAIN list \ {i}
          PROVE  (EventBefore(list[j], list[i]) \/ (j < i /\ ~EventBefore(list[i], list[j])))
                     <=> list[j].sequence < list[i].sequence
        BY <1>1 DEF EventBefore
    <2>2. ~(list[i].sequence < list[i].sequence)
        OBVIOUS
    <2> QED
        BY <2>1, <2>2
<1>3. Rearranged(list, Placed(list, ahead))
    <2> HIDE DEF ahead
    <2> QED
        BY <1>2, PlacedIsRearranged
<1> QED
    BY <1>3 DEF EventsInOrder

LEMMA ArtifactsAreRearranged ==
    ASSUME NEW list, list \in Seq(ToSet(list)), \A i \in DOMAIN list : list[i].ref.id \in Int,
           \A i, j \in DOMAIN list : list[i].ref.id = list[j].ref.id => i = j
    PROVE  Rearranged(list, ArtifactsInOrder(list))
<1> DEFINE key == [i \in DOMAIN list |-> list[i].ref.id]
           ahead == [i \in DOMAIN list |-> {j \in DOMAIN list \ {i} : \/ ArtifactBefore(list[j], list[i])
                                                                      \/ j < i /\ ~ArtifactBefore(list[i], list[j])}]
<1>1. DOMAIN list \subseteq Nat
    BY Z3
<1>2. ASSUME NEW i \in DOMAIN list PROVE ahead[i] = {j \in DOMAIN list : key[j] < key[i]}
    <2>1. ASSUME NEW j \in DOMAIN list \ {i}
          PROVE  (ArtifactBefore(list[j], list[i]) \/ (j < i /\ ~ArtifactBefore(list[i], list[j])))
                     <=> list[j].ref.id < list[i].ref.id
        BY <1>1 DEF ArtifactBefore
    <2>2. ~(list[i].ref.id < list[i].ref.id)
        OBVIOUS
    <2> QED
        BY <2>1, <2>2
<1>3. Rearranged(list, Placed(list, ahead))
    <2> HIDE DEF ahead
    <2> QED
        BY <1>2, PlacedIsRearranged
<1> QED
    BY <1>3 DEF ArtifactsInOrder

\* A list the bundle takes: no object malformed, no identifier twice.
Bundled(list) ==
    /\ \A i \in DOMAIN list : list[i].proof # "malformed"
    /\ \A i, j \in DOMAIN list : i < j => list[i].ref.id # list[j].ref.id

LEMMA BundledParts ==
    ASSUME NEW S, NEW s \in Seq(S), NEW t \in Seq(S), Bundled(s \o t)
    PROVE  Bundled(s) /\ Bundled(t)
<1> DEFINE m == Len(s)
           n == Len(t)
           both == s \o t
<1>1. /\ both \in Seq(S) /\ Len(both) = m + n
      /\ \A i \in 1 .. m : both[i] = s[i]
      /\ \A i \in 1 .. n : both[m + i] = t[i]
    BY ConcatProperties
<1>2. m \in Nat /\ n \in Nat /\ DOMAIN s = 1 .. m /\ DOMAIN t = 1 .. n /\ DOMAIN both = 1 .. m + n
    BY <1>1, LenProperties
<1> HIDE DEF m, n, both
<1>3. Bundled(both)
    BY DEF both
<1>4. Bundled(s)
    <2>1. \A i \in 1 .. m : i \in DOMAIN both /\ both[i] = s[i]
        BY <1>1, <1>2
    <2> QED
        BY ONLY <1>2, <1>3, <2>1 DEF Bundled
<1>5. Bundled(t)
    <2>1. \A i \in 1 .. n : m + i \in DOMAIN both /\ both[m + i] = t[i]
        BY <1>1, <1>2
    <2>2. ASSUME NEW i \in 1 .. n PROVE t[i].proof # "malformed"
        BY ONLY <1>3, <2>1 DEF Bundled
    <2>3. ASSUME NEW i \in 1 .. n, NEW j \in 1 .. n, i < j PROVE t[i].ref.id # t[j].ref.id
        <3>1. m + i < m + j
            BY <1>2, <2>3
        <3>2. both[m + i].ref.id # both[m + j].ref.id
            BY ONLY <1>3, <2>1, <3>1 DEF Bundled
        <3> QED
            BY ONLY <2>1, <3>2
    <2> QED
        BY ONLY <1>2, <2>2, <2>3 DEF Bundled
<1> QED
    BY <1>4, <1>5

\* What is given or not, as a list.
LEMMA GivenIsList ==
    ASSUME NEW x, NEW S, Given(x) \subseteq S
    PROVE  SetToSeq(Given(x)) \in Seq(S)
<1> DEFINE T == Given(x)
           n == Cardinality(T)
<1>1. IsFiniteSet(T)
    BY FS_EmptySet, FS_Singleton DEF Given
<1> HIDE DEF T
<1>2. n \in Nat /\ ExistsBijection(1 .. n, T)
    BY <1>1, FS_CardinalityType
<1> HIDE DEF n
<1>3. PICK f \in Bijection(1 .. n, T) : TRUE
    BY <1>2 DEF ExistsBijection
<1>4. f \in [1 .. n -> T] /\ IsInjective(f)
    BY <1>3 DEF Bijection, Injection, IsInjective
<1>5. (CHOOSE g \in [1 .. n -> T] : IsInjective(g)) \in [1 .. n -> T]
    BY <1>4
<1>6. SetToSeq(T) \in [1 .. n -> T]
    BY <1>5 DEF SetToSeq, n
<1>7. SetToSeq(T) \in [1 .. n -> S]
    BY <1>6 DEF T
<1>8. SetToSeq(T) \in Seq(S)
    BY <1>2, <1>7, SeqDef
<1> QED
    BY <1>8 DEF T

LEMMA BundledLists ==
    ASSUME NEW c, Shaped(c), verifyEvidenceBundle(c)
    PROVE  Bundled(c.runtimeEvents) /\ Bundled(c.priorReceipts) /\ Bundled(c.causationAttestations)
<1> DEFINE S == Artifacts(c)
           p == <<c.policy, c.rulebook, c.trustSnapshot>>
           m == SetToSeq(Given(c.mandate))
           r == SetToSeq(Given(c.executionReceipt))
           i == SetToSeq(Given(c.incidentReport))
           d == SetToSeq(Given(c.priorDecision))
           events == c.runtimeEvents
           priors == c.priorReceipts
           heard == c.causationAttestations
<1>1. p \in Seq(S)
    BY DEF Artifacts
<1>2. m \in Seq(S) /\ r \in Seq(S) /\ i \in Seq(S) /\ d \in Seq(S)
    BY GivenIsList DEF Artifacts
<1>3. events \in Seq(S) /\ priors \in Seq(S) /\ heard \in Seq(S)
    <2>1. Events(c) \subseteq S /\ Priors(c) \subseteq S /\ Attestations(c) \subseteq S
        BY DEF Artifacts
    <2>2. events \in Seq(Events(c)) /\ priors \in Seq(Priors(c)) /\ heard \in Seq(Attestations(c))
        BY DEF Shaped
    <2> QED
        BY ONLY <2>1, <2>2
<1>4. Bundled(p \o m \o r \o i \o events \o priors \o heard \o d)
    BY DEF verifyEvidenceBundle, Objects, Bundled
<1> DEFINE upToReceipt == p \o m \o r
           upToIncident == upToReceipt \o i
           upToEvents == upToIncident \o events
           upToPriors == upToEvents \o priors
           upToHeard == upToPriors \o heard
<1> HIDE DEF S, p, m, r, i, d, events, priors, heard
<1>5. upToReceipt \in Seq(S)
    BY <1>1, <1>2, ConcatProperties
<1>6. upToIncident \in Seq(S)
    BY <1>2, <1>5, ConcatProperties
<1>7. upToEvents \in Seq(S)
    BY <1>3, <1>6, ConcatProperties
<1>8. upToPriors \in Seq(S)
    BY <1>3, <1>7, ConcatProperties
<1>9. upToHeard \in Seq(S)
    BY <1>3, <1>8, ConcatProperties
<1>10. Bundled(upToHeard \o d)
    BY <1>4
<1> HIDE DEF upToHeard
<1>11. Bundled(upToHeard)
    BY ONLY <1>2, <1>9, <1>10, BundledParts
<1>12. Bundled(upToPriors \o heard)
    BY <1>11 DEF upToHeard
<1> HIDE DEF upToPriors
<1>13. Bundled(upToPriors) /\ Bundled(heard)
    BY ONLY <1>3, <1>8, <1>12, BundledParts
<1>14. Bundled(upToEvents \o priors)
    BY <1>13 DEF upToPriors
<1> HIDE DEF upToEvents
<1>15. Bundled(upToEvents) /\ Bundled(priors)
    BY ONLY <1>3, <1>7, <1>14, BundledParts
<1>16. Bundled(upToIncident \o events)
    BY <1>15 DEF upToEvents
<1> HIDE DEF upToIncident
<1>17. Bundled(events)
    BY ONLY <1>3, <1>6, <1>16, BundledParts
<1> QED
    BY <1>13, <1>15, <1>17 DEF events, priors, heard

\* Lists of the same elements, none of them twice.
LEMMA RearrangedSame ==
    ASSUME NEW list, list \in Seq(ToSet(list)), NEW other, Rearranged(list, other)
    PROVE  /\ ToSet(other) = ToSet(list) /\ other \in Seq(ToSet(other))
           /\ Len(other) = Len(list) /\ (other = <<>> <=> list = <<>>)
<1> DEFINE n == Len(list)
           S == ToSet(list)
<1>1. n \in Nat /\ DOMAIN list = 1 .. n
    BY LenProperties
<1> HIDE DEF n
<1>2. PICK p : Permutes(p, n) /\ other = [k \in 1 .. n |-> list[p[k]]]
    BY DEF Rearranged, n
<1>3. /\ \A k \in 1 .. n : p[k] \in 1 .. n
      /\ \A i \in 1 .. n : \E k \in 1 .. n : p[k] = i
    BY ONLY <1>2 DEF Permutes
<1>4. DOMAIN other = 1 .. n /\ \A k \in 1 .. n : other[k] = list[p[k]]
    BY ONLY <1>2
<1>5. ToSet(other) = S
    <2>1. ASSUME NEW k \in 1 .. n PROVE other[k] \in S
        BY ONLY <1>1, <1>3, <1>4, <2>1 DEF ToSet
    <2>2. ASSUME NEW i \in 1 .. n PROVE list[i] \in ToSet(other)
        <3>1. PICK k \in 1 .. n : p[k] = i
            BY ONLY <1>3, <2>2
        <3>2. other[k] = list[i]
            BY ONLY <1>4, <3>1
        <3> QED
            BY ONLY <1>4, <3>1, <3>2 DEF ToSet
    <2>3. \A x : x \in ToSet(other) <=> \E k \in 1 .. n : x = other[k]
        BY ONLY <1>4 DEF ToSet
    <2>4. \A x : x \in S <=> \E i \in 1 .. n : x = list[i]
        BY ONLY <1>1 DEF ToSet
    <2> HIDE DEF S
    <2>5. \A x : x \in ToSet(other) <=> x \in S
        BY ONLY <2>1, <2>2, <2>3, <2>4
    <2> QED
        BY ONLY <2>5
<1>6. \A k \in 1 .. n : other[k] \in S
    BY ONLY <1>1, <1>3, <1>4 DEF ToSet
<1>7. other \in [1 .. n -> S]
    BY ONLY <1>2, <1>4, <1>6
<1>8. other \in Seq(S) /\ list \in Seq(S)
    BY <1>1, <1>7, SeqDef
<1>9. Len(other) = n
    BY <1>1, <1>4, <1>8, LenProperties
<1>10. list = <<>> <=> n = 0
    BY <1>8, EmptySeq DEF n
<1>11. other = <<>> <=> n = 0
    BY <1>8, <1>9, EmptySeq
<1> QED
    BY <1>5, <1>8, <1>9, <1>10, <1>11 DEF n

\* verifyRuntimeGraph: two events with one identifier or one place.
Repeated(events) ==
    \E i, j \in 1 .. Len(events) :
        i < j /\ (events[i].ref.id = events[j].ref.id \/ events[i].sequence = events[j].sequence)

\* Cases that differ in the order of their lists at most.
SameCase(c, d) ==
    /\ \A part \in CaseParts \ {"runtimeEvents", "priorReceipts", "causationAttestations"} : d[part] = c[part]
    /\ Events(d) = Events(c) /\ Priors(d) = Priors(c) /\ Attestations(d) = Attestations(c)
    /\ c.priorReceipts \in Seq(Priors(c)) /\ d.priorReceipts \in Seq(Priors(d))
    /\ d.runtimeEvents = <<>> <=> c.runtimeEvents = <<>>
    /\ Repeated(d.runtimeEvents) <=> Repeated(c.runtimeEvents)

LEMMA NotRepeated ==
    ASSUME NEW events, events \in Seq(ToSet(events)), NEW other, Rearranged(events, other),
           \A i, j \in DOMAIN events : events[i].ref.id = events[j].ref.id \/ events[i].sequence = events[j].sequence => i = j
    PROVE  ~Repeated(events) /\ ~Repeated(other)
<1> DEFINE n == Len(events)
<1>1. n \in Nat /\ DOMAIN events = 1 .. n
    BY LenProperties
<1>2. Len(other) = n
    BY RearrangedSame
<1> HIDE DEF n
<1>3. ~Repeated(events)
    BY <1>1 DEF Repeated, n
<1>4. PICK p : Permutes(p, n) /\ other = [k \in 1 .. n |-> events[p[k]]]
    BY DEF Rearranged, n
<1>5. ASSUME NEW i \in 1 .. n, NEW j \in 1 .. n, i < j,
             other[i].ref.id = other[j].ref.id \/ other[i].sequence = other[j].sequence
      PROVE  FALSE
    <2>1. other[i] = events[p[i]] /\ other[j] = events[p[j]] /\ p[i] \in 1 .. n /\ p[j] \in 1 .. n
        BY ONLY <1>4, <1>5 DEF Permutes
    <2>2. p[i] = p[j]
        BY <1>1, <1>5, <2>1
    <2>3. i = j
        BY ONLY <1>4, <2>2, i \in 1 .. n, j \in 1 .. n DEF Permutes
    <2> QED
        BY ONLY <1>1, <1>5, <2>3
<1>6. ~Repeated(other)
    BY <1>2, <1>5 DEF Repeated
<1> QED
    BY <1>3, <1>6

LEMMA BundledIsSame ==
    ASSUME NEW c, Shaped(c), verifyEvidenceBundle(c)
    PROVE  SameCase(c, Normalized(c))
<1> DEFINE d == Normalized(c)
           events == c.runtimeEvents
           priors == c.priorReceipts
           heard == c.causationAttestations
<1>1. /\ DOMAIN c = CaseParts
      /\ events \in Seq(ToSet(events)) /\ priors \in Seq(ToSet(priors)) /\ heard \in Seq(ToSet(heard))
      /\ Events(c) = ToSet(events) /\ Priors(c) = ToSet(priors) /\ Attestations(c) = ToSet(heard)
    BY DEF Shaped, Events, Priors, Attestations
<1>2. /\ \A part \in CaseParts \ {"runtimeEvents", "priorReceipts", "causationAttestations"} : d[part] = c[part]
      /\ d.runtimeEvents = EventsInOrder(events)
      /\ d.priorReceipts = ArtifactsInOrder(priors)
      /\ d.causationAttestations = ArtifactsInOrder(heard)
    BY <1>1 DEF Normalized, CaseParts
<1>3. Bundled(events) /\ Bundled(priors) /\ Bundled(heard)
    BY BundledLists
<1>4. \A list : list \in Seq(ToSet(list)) =>
          DOMAIN list \subseteq Nat /\ \A i \in DOMAIN list : list[i] \in ToSet(list)
    BY LenProperties DEF ToSet
<1>5. ASSUME NEW list, list \in Seq(ToSet(list)), Bundled(list), NEW i \in DOMAIN list, NEW j \in DOMAIN list,
             list[i].ref.id = list[j].ref.id
      PROVE  i = j
    BY <1>4, <1>5 DEF Bundled
<1>6. ASSUME NEW i \in DOMAIN events, NEW j \in DOMAIN events, events[i].sequence = events[j].sequence PROVE i = j
    <2>1. \A k, l \in DOMAIN events : k < l => events[k].sequence # events[l].sequence
        BY DEF verifyEvidenceBundle
    <2> QED
        BY <1>1, <1>4, <1>6, <2>1
<1>7. \A i \in DOMAIN events : events[i].sequence \in Int
    BY <1>1, <1>3, <1>4 DEF Shaped, Bundled
<1>8. /\ \A i \in DOMAIN priors : priors[i].ref.id \in Int
      /\ \A i \in DOMAIN heard : heard[i].ref.id \in Int
    BY <1>1, <1>3, <1>4 DEF Shaped, Bundled
<1> HIDE DEF events, priors, heard, d
<1>9. Rearranged(events, d.runtimeEvents)
    BY <1>1, <1>2, <1>6, <1>7, EventsAreRearranged
<1>10. Rearranged(priors, d.priorReceipts)
    <2>1. \A i, j \in DOMAIN priors : priors[i].ref.id = priors[j].ref.id => i = j
        BY <1>1, <1>3, <1>5
    <2> QED
        BY <1>1, <1>2, <1>8, <2>1, ArtifactsAreRearranged
<1>11. Rearranged(heard, d.causationAttestations)
    <2>1. \A i, j \in DOMAIN heard : heard[i].ref.id = heard[j].ref.id => i = j
        BY <1>1, <1>3, <1>5
    <2> QED
        BY <1>1, <1>2, <1>8, <2>1, ArtifactsAreRearranged
<1>12. ToSet(d.runtimeEvents) = ToSet(events) /\ (d.runtimeEvents = <<>> <=> events = <<>>)
    BY <1>1, <1>9, RearrangedSame
<1>13. ToSet(d.priorReceipts) = ToSet(priors) /\ d.priorReceipts \in Seq(ToSet(d.priorReceipts))
    BY <1>1, <1>10, RearrangedSame
<1>14. ToSet(d.causationAttestations) = ToSet(heard)
    BY <1>1, <1>11, RearrangedSame
<1>15. ~Repeated(d.runtimeEvents) /\ ~Repeated(events)
    BY <1>1, <1>3, <1>5, <1>6, <1>9, NotRepeated
<1>16. SameCase(c, d)
    BY <1>1, <1>2, <1>12, <1>13, <1>14, <1>15 DEF SameCase, Events, Priors, Attestations, events, priors
<1> QED
    BY <1>16 DEF d

----------------------------------------------------------------------------
(* The engine reads of its lists what they hold and what is in them twice.        *)
LEMMA SameParts ==
    ASSUME NEW c, NEW d, SameCase(c, d)
    PROVE  /\ d.caseId = c.caseId /\ d.asOf = c.asOf /\ d.pins = c.pins /\ d.policy = c.policy
           /\ d.rulebook = c.rulebook /\ d.trustSnapshot = c.trustSnapshot /\ d.mandate = c.mandate
           /\ d.executionReceipt = c.executionReceipt /\ d.incidentReport = c.incidentReport
           /\ d.priorDecision = c.priorDecision /\ d.appealId = c.appealId
           /\ Events(d) = Events(c) /\ Priors(d) = Priors(c) /\ Attestations(d) = Attestations(c)
    BY DEF SameCase, CaseParts

LEMMA SameTrust ==
    ASSUME NEW c, NEW d, SameCase(c, d)
    PROVE  /\ TrustPinned(d) <=> TrustPinned(c)
           /\ \A a : verifyArtifact(d, a) = verifyArtifact(c, a)
           /\ \A a : Accepted(d, a) <=> Accepted(c, a)
           /\ \A S : Rejected(d, S) = Rejected(c, S)
<1>1. TrustPinned(d) <=> TrustPinned(c)
    BY SameParts DEF TrustPinned
<1>2. \A a : verifyArtifact(d, a) = verifyArtifact(c, a)
    BY <1>1 DEF verifyArtifact
<1>3. \A a : Accepted(d, a) <=> Accepted(c, a)
    BY <1>2 DEF Accepted
<1>4. \A S : Rejected(d, S) = Rejected(c, S)
    BY <1>2 DEF Rejected
<1> QED
    BY <1>1, <1>2, <1>3, <1>4

LEMMA SamePolicy ==
    ASSUME NEW c, NEW d, SameCase(c, d)
    PROVE  /\ Invalidity(d) = Invalidity(c) /\ policyState(d) = policyState(c)
           /\ PriorDecisionConflicts(d) = PriorDecisionConflicts(c) /\ Supersedes(d) = Supersedes(c)
<1>1. checkPins(d) = checkPins(c) /\ TrustRejections(d) = TrustRejections(c)
    BY SameParts DEF checkPins, TrustRejections
<1>2. Rejections(d) = Rejections(c)
    BY SameParts, SameTrust DEF Rejections
<1>3. FutureDated(d) <=> FutureDated(c)
    BY SameParts DEF FutureDated
<1>4. (PolicyAccepted(d) <=> PolicyAccepted(c)) /\ (PolicyBroken(d) <=> PolicyBroken(c))
    BY SameParts, SameTrust DEF PolicyAccepted, PolicyBroken
<1>5. Invalidity(d) = Invalidity(c)
    BY <1>1, <1>2, <1>3, <1>4 DEF Invalidity, When
<1>6. policyState(d) = policyState(c)
    BY <1>4, SameParts DEF policyState
<1>7. PriorDecisionBound(d) <=> PriorDecisionBound(c)
    BY SameParts DEF PriorDecisionBound
<1>8. PriorDecisionConflicts(d) = PriorDecisionConflicts(c) /\ Supersedes(d) = Supersedes(c)
    BY <1>7, SameParts, SameTrust DEF PriorDecisionConflicts, Supersedes, When
<1> QED
    BY <1>5, <1>6, <1>8

\* verifyRuntimeGraph, of the events and the receipt.
GraphConflicts(repeated, events, receipt) ==
    When(repeated, "runtime_event_order_conflict")
        \cup When(\E e \in events : e.executionId # receipt.executionId, "runtime_execution_id_conflict")
        \cup When(\E e \in events : e.actionDigest # receipt.action /\ e.eventType # "mandate_revoked",
                  "runtime_action_digest_conflict")
        \cup When(\E e \in events : e.observedAt > receipt.executedAt /\ e.eventType # "rollback_completed",
                  "runtime_event_after_execution")
        \cup When(\E e \in events : \E parent \in e.parentEventIds :
                      \A f \in events : ~(f.ref.id = parent /\ EventBefore(f, e)),
                  "runtime_parent_missing_or_forward")
        \cup When(receipt.eventRootDigest # computeEventRootDigest(events), "event_root_digest_mismatch")

LEMMA SameEvents ==
    ASSUME NEW c, NEW d, SameCase(c, d)
    PROVE  /\ VerifiedEvents(d) = VerifiedEvents(c) /\ EventConflicts(d) = EventConflicts(c)
           /\ revocationEffective(d) <=> revocationEffective(c)
           /\ verifyRuntimeGraph(d) = verifyRuntimeGraph(c)
<1>1. VerifiedEvents(d) = VerifiedEvents(c)
    BY SameParts, SameTrust DEF VerifiedEvents
<1>2. \A e : RevocationBound(d, e) <=> RevocationBound(c, e)
    BY <1>1, SameParts DEF RevocationBound
<1>3. EventConflicts(d) = EventConflicts(c)
    BY <1>2, SameParts DEF EventConflicts, When
<1>4. revocationEffective(d) <=> revocationEffective(c)
    BY <1>1, SameParts DEF revocationEffective
<1>5. verifyRuntimeGraph(d) = verifyRuntimeGraph(c)
    <2>1. \A x : verifyRuntimeGraph(x) = GraphConflicts(Repeated(x.runtimeEvents), Events(x), x.executionReceipt)
        BY DEF verifyRuntimeGraph, Repeated, GraphConflicts
    <2>2. Repeated(d.runtimeEvents) = Repeated(c.runtimeEvents)
        BY DEF SameCase, Repeated
    <2>3. Events(d) = Events(c) /\ d.executionReceipt = c.executionReceipt
        BY SameParts
    <2> QED
        BY ONLY <2>1, <2>2, <2>3
<1> QED
    BY <1>1, <1>3, <1>4, <1>5

LEMMA SameControls ==
    ASSUME NEW c, NEW d, SameCase(c, d)
    PROVE  ControlConflicts(d) = ControlConflicts(c) /\ controlState(d) = controlState(c)
<1>1. \A k : ControlEvents(d, k) = ControlEvents(c, k)
    BY SameEvents DEF ControlEvents
<1>2. ControlConflicts(d) = ControlConflicts(c)
    BY <1>1, SameParts DEF ControlConflicts, When
<1>3. Unpassed(d) = Unpassed(c)
    BY SameParts DEF Unpassed
<1>4. controlState(d) = controlState(c)
    BY <1>2, <1>3, SameParts DEF controlState
<1> QED
    BY <1>2, <1>4

LEMMA SamePriors ==
    ASSUME NEW c, NEW d, SameCase(c, d)
    PROVE  /\ RelevantPriors(d).conflicts = {} <=> RelevantPriors(c).conflicts = {}
           /\ RelevantPriors(c).conflicts = {} => RelevantPriors(d).relevant = RelevantPriors(c).relevant
<1> DEFINE counted(x) == {p \in Priors(x) : Counts(x, p)}
<1>1. \A p : (PriorBound(d, p) <=> PriorBound(c, p)) /\ (Counts(d, p) <=> Counts(c, p))
    BY SameParts, SameTrust DEF PriorBound, Counts, verifiedPrior
<1>2. counted(d) = counted(c)
    BY <1>1, SameParts
<1>3. \A S : Fitting(d, S) <=> Fitting(c, S)
    BY <1>1, SameParts DEF Fitting, Fits
<1>4. /\ RelevantPriors(c).conflicts = {} => RelevantPriors(c).relevant = counted(c)
      /\ RelevantPriors(c).conflicts = {} <=> Fitting(c, counted(c))
    BY RelevantAre DEF SameCase
<1>5. /\ RelevantPriors(d).conflicts = {} => RelevantPriors(d).relevant = counted(d)
      /\ RelevantPriors(d).conflicts = {} <=> Fitting(d, counted(d))
    BY RelevantAre DEF SameCase
<1> HIDE DEF counted
<1> QED
    BY ONLY <1>2, <1>3, <1>4, <1>5

LEMMA SameAuthority ==
    ASSUME NEW c, NEW d, SameCase(c, d)
    PROVE  /\ receiptTrusted(d) <=> receiptTrusted(c)
           /\ mandateTrusted(d) <=> mandateTrusted(c)
           /\ incidentTrusted(d) <=> incidentTrusted(c)
           /\ Examined(d) <=> Examined(c)
           /\ authorityBindingsValid(d) <=> authorityBindingsValid(c)
           /\ MandateUnusable(d) <=> MandateUnusable(c)
<1>1. receiptTrusted(d) <=> receiptTrusted(c)
    BY SameParts, SameTrust DEF receiptTrusted
<1>2. mandateTrusted(d) <=> mandateTrusted(c)
    BY SameParts, SameTrust DEF mandateTrusted
<1>3. incidentTrusted(d) <=> incidentTrusted(c)
    BY SameParts, SameTrust DEF incidentTrusted
<1>4. Examined(d) <=> Examined(c)
    BY <1>1, SameParts DEF Examined
<1>5. authorityBindingsValid(d) <=> authorityBindingsValid(c)
    BY SameParts DEF authorityBindingsValid
<1>6. mandateRefsValid(d) <=> mandateRefsValid(c)
    BY <1>2, SameParts DEF mandateRefsValid
<1>7. MandateUnusable(d) <=> MandateUnusable(c)
    BY <1>5, <1>6, SameParts DEF MandateUnusable
<1> QED
    BY <1>1, <1>2, <1>3, <1>4, <1>5, <1>7

LEMMA SameViolation ==
    ASSUME NEW c, NEW d, SameCase(c, d), NEW relevant
    PROVE  /\ operatorViolation(d, relevant) = operatorViolation(c, relevant)
           /\ \A v : mandateState(d, v) = mandateState(c, v)
           /\ receiptState(d) = receiptState(c)
<1>1. replayed(d, relevant) <=> replayed(c, relevant)
    BY SameParts DEF replayed
<1>2. operatorViolation(d, relevant) = operatorViolation(c, relevant)
    BY <1>1, SameParts, SameAuthority, SameEvents, SameControls DEF operatorViolation
<1>3. \A v : mandateState(d, v) = mandateState(c, v)
    BY SameParts, SameAuthority DEF mandateState
<1>4. receiptState(d) = receiptState(c)
    BY SameParts, SameAuthority DEF receiptState
<1> QED
    BY <1>2, <1>3, <1>4

LEMMA SameHeard ==
    ASSUME NEW c, NEW d, SameCase(c, d)
    PROVE  /\ \A a : AttestationBound(d, a) <=> AttestationBound(c, a)
           /\ \A conclusion : Concluding(d, conclusion) = Concluding(c, conclusion)
           /\ causationState(d) = causationState(c)
           /\ modelProvenance(d) = modelProvenance(c)
           /\ \A outcome : allocationFor(outcome, d) = allocationFor(outcome, c)
<1>1. \A a : AttestationBound(d, a) <=> AttestationBound(c, a)
    BY SameParts DEF AttestationBound
<1>2. Heard(d) = Heard(c)
    BY <1>1, SameParts, SameTrust DEF Heard
<1>3. \A conclusion : Concluding(d, conclusion) = Concluding(c, conclusion)
    BY <1>2 DEF Concluding
<1>4. causationState(d) = causationState(c)
    BY <1>2, <1>3 DEF causationState
<1>5. ModelEvents(d) = ModelEvents(c)
    BY SameEvents DEF ModelEvents
<1>6. \A a : ProvenanceMatches(d, a) <=> ProvenanceMatches(c, a)
    BY <1>5, SameParts DEF ProvenanceMatches
<1>7. modelProvenance(d) = modelProvenance(c)
    BY <1>3, <1>4, <1>6, SameAuthority DEF modelProvenance
<1>8. Vendor(d) = Vendor(c)
    <2>1. Concluding(d, "sufficient") = Concluding(c, "sufficient")
        BY <1>3
    <2>2. (CHOOSE a \in Concluding(d, "sufficient") : TRUE) = (CHOOSE a \in Concluding(c, "sufficient") : TRUE)
        BY ONLY <2>1, Zenon
    <2> DEFINE one(x) == CHOOSE a \in Concluding(x, "sufficient") : TRUE
    <2>3. \A x : Vendor(x) = IF modelProvenance(x) = "matched" THEN one(x).subject ELSE None
        BY DEF Vendor
    <2> HIDE DEF one
    <2>4. one(d) = one(c)
        BY ONLY <2>2 DEF one
    <2> QED
        BY ONLY <1>7, <2>3, <2>4
<1>9. \A outcome : allocationFor(outcome, d) = allocationFor(outcome, c)
    BY <1>8, SameParts DEF allocationFor
<1> QED
    BY <1>1, <1>3, <1>4, <1>7, <1>9

LEMMA SameClosure ==
    ASSUME NEW c, NEW d, SameCase(c, d)
    PROVE  ClosureConflicts(d) = ClosureConflicts(c) /\ ClosureMissing(d) = ClosureMissing(c)
<1>1. Provided(d) = Provided(c)
    BY SameParts DEF Provided
<1>2. Verified(d) = Verified(c)
    <2>1. \A S : {a \in S : Accepted(d, a)} = {a \in S : Accepted(c, a)}
        BY SameTrust
    <2>2. /\ {e \in Events(d) : Accepted(d, e)} = {e \in Events(c) : Accepted(c, e)}
          /\ {p \in Priors(d) : Accepted(d, p)} = {p \in Priors(c) : Accepted(c, p)}
          /\ {a \in Attestations(d) : Accepted(d, a)} = {a \in Attestations(c) : Accepted(c, a)}
        BY ONLY <2>1, SameParts, SameCase(c, d)
    <2>3. /\ {p \in {d.policy} : Accepted(d, p)} = {p \in {c.policy} : Accepted(c, p)}
          /\ {r \in {d.rulebook} : Accepted(d, r)} = {r \in {c.rulebook} : Accepted(c, r)}
          /\ {m \in Given(d.mandate) : Accepted(d, m)} = {m \in Given(c.mandate) : Accepted(c, m)}
          /\ {r \in Given(d.executionReceipt) : Accepted(d, r)} = {r \in Given(c.executionReceipt) : Accepted(c, r)}
          /\ {p \in Given(d.priorDecision) : Accepted(d, p)} = {p \in Given(c.priorDecision) : Accepted(c, p)}
        BY ONLY <2>1, SameParts, SameCase(c, d)
    <2>4. (TrustPinned(d) <=> TrustPinned(c)) /\ d.trustSnapshot = c.trustSnapshot
        BY SameParts, SameTrust
    <2> QED
        BY ONLY <2>2, <2>3, <2>4 DEF Verified
<1>3. Cited(d) = Cited(c)
    BY SameParts DEF Cited
<1>4. \A ref : ContradictedRef(d, ref) <=> ContradictedRef(c, ref)
    BY <1>1 DEF ContradictedRef
<1> QED
    BY <1>2, <1>3, <1>4 DEF ClosureConflicts, ClosureMissing, When

LEMMA SameMissing ==
    ASSUME NEW c, NEW d, SameCase(c, d)
    PROVE  missingEvidence(d) = missingEvidence(c)
<1>1. d.runtimeEvents = <<>> <=> c.runtimeEvents = <<>>
    BY DEF SameCase
<1> QED
    BY <1>1, SameParts, SameAuthority, SameHeard, SameClosure DEF missingEvidence, When

\* The findings beside those of the search among the prior receipts.
LEMMA SameConflicts ==
    ASSUME NEW c, NEW d, SameCase(c, d), NEW found, NEW other,
           Examined(c) => found.conflicts = other.conflicts
    PROVE  /\ ConductConflicts(d, other) = ConductConflicts(c, found)
           /\ conflictingEvidence(d, other) = conflictingEvidence(c, found)
<1>1. ConductConflicts(d, other) = ConductConflicts(c, found)
    BY SameParts, SamePolicy, SameEvents, SameControls, SameAuthority DEF ConductConflicts, When
<1>2. /\ \A r \in Given(d.executionReceipt) : d.incidentReport.executionReceiptRef # r.ref
      <=> \A r \in Given(c.executionReceipt) : c.incidentReport.executionReceiptRef # r.ref
    BY SameParts
<1>3. (\E a \in Attestations(d) : ~AttestationBound(d, a)) <=> (\E a \in Attestations(c) : ~AttestationBound(c, a))
    BY SameParts, SameHeard
<1>4. causationState(d) = causationState(c) /\ ClosureConflicts(d) = ClosureConflicts(c)
    BY SameHeard, SameClosure
<1>5. incidentTrusted(d) <=> incidentTrusted(c)
    BY SameAuthority
<1>6. conflictingEvidence(d, other) = conflictingEvidence(c, found)
    BY ONLY <1>1, <1>2, <1>3, <1>4, <1>5 DEF conflictingEvidence, When
<1> QED
    BY <1>1, <1>6

----------------------------------------------------------------------------
(* The same decision, whatever the order.                                      *)
\* When the prior receipts do not fit together the case is conflicted, whatever counts.
LEMMA ConflictDecides ==
    ASSUME NEW c, Invalidity(c) = {}, Examined(c), RelevantPriors(c).conflicts # {}
    PROVE  guardedPolicyEvaluation(c, {}, CleanFacts(c)) = Unresolved("conflicting_evidence")
<1>1. RelevantPriors(c).conflicts \subseteq conflictingEvidence(c, RelevantPriors(c))
    BY DEF conflictingEvidence, ConductConflicts
<1>2. CleanFacts(c).evidence_state = evidenceState({}, conflictingEvidence(c, RelevantPriors(c)), missingEvidence(c))
    BY DEF CleanFacts, Facts
<1>3. CleanFacts(c).evidence_state = "contradictory"
    BY <1>1, <1>2 DEF evidenceState
<1> QED
    BY ONLY <1>3 DEF guardedPolicyEvaluation

\* What counts is read only when mandate and receipt are held against each other.
LEMMA SameFacts ==
    ASSUME NEW c, NEW d, SameCase(c, d),
           Examined(c) => RelevantPriors(c).conflicts = {}
    PROVE  CleanFacts(d) = CleanFacts(c)
<1> DEFINE found == RelevantPriors(c)
           other == RelevantPriors(d)
<1>1. Examined(c) => other.conflicts = found.conflicts /\ other.relevant = found.relevant
    BY SamePriors
<1>2. operatorViolation(d, other.relevant) = operatorViolation(c, found.relevant)
    <2>1. operatorViolation(d, other.relevant) = operatorViolation(c, other.relevant)
        BY SameViolation
    <2>2. ~Examined(c) => operatorViolation(c, other.relevant) = operatorViolation(c, found.relevant)
        BY DEF operatorViolation
    <2> QED
        BY <1>1, <2>1, <2>2
<1>3. /\ ConductConflicts(d, other) = ConductConflicts(c, found)
      /\ conflictingEvidence(d, other) = conflictingEvidence(c, found)
    BY <1>1, SameConflicts
<1> HIDE DEF found, other
<1>4. \A v, conflicts : executionState(d, v, conflicts) = executionState(c, v, conflicts)
    BY SameParts, SameAuthority DEF executionState
<1>5. /\ policyState(d) = policyState(c) /\ (TrustPinned(d) <=> TrustPinned(c))
      /\ (Examined(d) <=> Examined(c)) /\ controlState(d) = controlState(c)
    BY SamePolicy, SameTrust, SameAuthority, SameControls
<1>6. /\ \A v : mandateState(d, v) = mandateState(c, v)
      /\ receiptState(d) = receiptState(c)
    BY SameViolation
<1>7. /\ modelProvenance(d) = modelProvenance(c) /\ causationState(d) = causationState(c)
      /\ missingEvidence(d) = missingEvidence(c)
    BY SameHeard, SameMissing
<1>8. Facts(d, other, {}) = Facts(c, found, {})
    BY ONLY <1>2, <1>3, <1>4, <1>5, <1>6, <1>7 DEF Facts
<1> QED
    BY <1>8 DEF CleanFacts, found, other

LEMMA SameEvaluation ==
    ASSUME NEW c, NEW d, SameCase(c, d)
    PROVE  guardedPolicyEvaluation(d, Invalidity(d), Facts(d, RelevantPriors(d), Invalidity(d)))
               = guardedPolicyEvaluation(c, Invalidity(c), Facts(c, RelevantPriors(c), Invalidity(c)))
<1>1. Invalidity(d) = Invalidity(c) /\ d.rulebook = c.rulebook /\ (Examined(d) <=> Examined(c))
    BY SamePolicy, SameParts, SameAuthority
<1>2. CASE Invalidity(c) # {}
    <2>1. \A x, invalidity, facts : invalidity # {} =>
              guardedPolicyEvaluation(x, invalidity, facts) = Unresolved("invalid_evidence")
        BY DEF guardedPolicyEvaluation
    <2> QED
        BY ONLY <1>1, <1>2, <2>1
<1>3. CASE Invalidity(c) = {} /\ Examined(c) /\ RelevantPriors(c).conflicts # {}
    <2>1. RelevantPriors(d).conflicts # {}
        BY <1>3, SamePriors
    <2>2. guardedPolicyEvaluation(c, {}, CleanFacts(c)) = Unresolved("conflicting_evidence")
        BY <1>3, ConflictDecides
    <2>3. guardedPolicyEvaluation(d, {}, CleanFacts(d)) = Unresolved("conflicting_evidence")
        BY <1>1, <1>3, <2>1, ConflictDecides
    <2> QED
        BY ONLY <1>1, <1>3, <2>2, <2>3 DEF CleanFacts
<1>4. CASE Invalidity(c) = {} /\ (Examined(c) => RelevantPriors(c).conflicts = {})
    <2>1. CleanFacts(d) = CleanFacts(c)
        BY <1>4, SameFacts
    <2>2. \A facts : guardedPolicyEvaluation(d, {}, facts) = guardedPolicyEvaluation(c, {}, facts)
        BY ONLY <1>1 DEF guardedPolicyEvaluation
    <2> QED
        BY ONLY <1>1, <1>4, <2>1, <2>2 DEF CleanFacts
<1> QED
    BY ONLY <1>2, <1>3, <1>4

LEMMA SameDecision ==
    ASSUME NEW c, NEW d, SameCase(c, d)
    PROVE  /\ evaluateCase(d).outcome = evaluateCase(c).outcome
           /\ evaluateCase(d).reasonCode = evaluateCase(c).reasonCode
           /\ evaluateCase(d).disposition = evaluateCase(c).disposition
           /\ evaluateCase(d).allocation = evaluateCase(c).allocation
<1> DEFINE given(x) == guardedPolicyEvaluation(x, Invalidity(x), Facts(x, RelevantPriors(x), Invalidity(x)))
<1>1. given(d) = given(c)
    BY SameEvaluation
<1>2. \A x : Invalidity(x) \cup When(None # None, "invalid") = Invalidity(x)
    BY DEF When
<1>3. \A x : /\ evaluateCase(x).outcome = given(x).outcome
             /\ evaluateCase(x).reasonCode = given(x).reasonCode
             /\ evaluateCase(x).disposition = dispositionFor(given(x))
             /\ evaluateCase(x).allocation = allocationFor(given(x).outcome, x)
    BY <1>2 DEF evaluateCase, evaluateCaseInternal
<1>4. \A outcome : allocationFor(outcome, d) = allocationFor(outcome, c)
    BY SameHeard
<1> HIDE DEF given
<1> QED
    BY ONLY <1>1, <1>3, <1>4

\* Whatever is forced from outside, nobody is blamed.
LEMMA ForcedBlamesNobody ==
    ASSUME NEW c, NEW reason, reason # None
    PROVE  /\ evaluateCaseInternal(c, reason).outcome = "unresolved"
           /\ evaluateCaseInternal(c, reason).disposition = "invalid"
BY DEF evaluateCaseInternal, Unresolved

LEMMA ReplayedIsSame ==
    ASSUME NEW c, Shaped(c), NEW anchors \in Anchors
    PROVE  IF anchors = "matching" /\ verifyEvidenceBundle(c)
           THEN /\ evaluateBundle(c, anchors).outcome = evaluateCase(c).outcome
                /\ evaluateBundle(c, anchors).reasonCode = evaluateCase(c).reasonCode
                /\ evaluateBundle(c, anchors).disposition = evaluateCase(c).disposition
                /\ evaluateBundle(c, anchors).allocation = evaluateCase(c).allocation
           ELSE /\ evaluateBundle(c, anchors).outcome = "unresolved"
                /\ evaluateBundle(c, anchors).disposition = "invalid"
<1>1. CASE ~verifyEvidenceBundle(c)
    <2>1. evaluateBundle(c, anchors) = malformedDecision("ALB_BUNDLE_INVALID")
        BY <1>1 DEF evaluateBundle
    <2>2. \A reason : /\ malformedDecision(reason).outcome = "unresolved"
                      /\ malformedDecision(reason).disposition = "invalid"
        BY DEF malformedDecision
    <2> QED
        BY <1>1, <2>1, <2>2
<1>2. CASE verifyEvidenceBundle(c) /\ anchors = "matching"
    <2>1. evaluateBundle(c, anchors) = evaluateCase(Normalized(c))
        BY <1>2 DEF evaluateBundle, evaluateCase
    <2>2. SameCase(c, Normalized(c))
        BY <1>2, BundledIsSame
    <2> DEFINE d == Normalized(c)
    <2> HIDE DEF d
    <2>3. /\ evaluateCase(d).outcome = evaluateCase(c).outcome
          /\ evaluateCase(d).reasonCode = evaluateCase(c).reasonCode
          /\ evaluateCase(d).disposition = evaluateCase(c).disposition
          /\ evaluateCase(d).allocation = evaluateCase(c).allocation
        BY <2>2, SameDecision DEF d
    <2> QED
        BY ONLY <1>2, <2>1, <2>3 DEF d
<1>3. CASE verifyEvidenceBundle(c) /\ anchors # "matching"
    <2>1. PICK d, reason : /\ reason # None
                           /\ evaluateBundle(c, anchors) = evaluateCaseInternal(d, reason)
        <3>1. "ALB_TRUST_ANCHOR_REQUIRED" # None /\ "ALB_BUNDLE_ANCHOR_MISMATCH" # None
            BY NoneAssumption DEF ForcedReasons
        <3>2. CASE anchors = "none"
            BY ONLY <1>3, <3>1, <3>2 DEF evaluateBundle
        <3>3. CASE anchors # "none"
            <4> DEFINE d == IF anchors = "other_pins" THEN Mispinned(Normalized(c)) ELSE Normalized(c)
            <4>1. evaluateBundle(c, anchors) = evaluateCaseInternal(d, "ALB_BUNDLE_ANCHOR_MISMATCH")
                BY ONLY <1>3, <3>3 DEF evaluateBundle
            <4> QED
                BY ONLY <3>1, <4>1
        <3> QED
            BY ONLY <3>2, <3>3
    <2>2. /\ evaluateCaseInternal(d, reason).outcome = "unresolved"
          /\ evaluateCaseInternal(d, reason).disposition = "invalid"
        BY <2>1, ForcedBlamesNobody
    <2> QED
        BY ONLY <1>3, <2>1, <2>2
<1> QED
    BY ONLY <1>1, <1>2, <1>3

Replayed ==
    replay # None => \E anchors \in Anchors : replay = [anchors |-> anchors, decision |-> evaluateBundle(case, anchors)]

(* A replayed bundle gives the decision of its case, although the artifacts of a    *)
(* bundle lie in another order; under other anchors, or when the bundle does not    *)
(* verify, it blames nobody (verifyEvidenceBundle, evaluateBundle).             *)
THEOREM ReplayGivesTheDecision == Spec => []ReplayAgrees
<1>1. Init => Replayed
    BY DEF Init, Replayed
<1>2. Replayed /\ [Next]_vars => Replayed'
    <2> SUFFICES ASSUME Replayed, [Next]_vars
                 PROVE  Replayed'
        OBVIOUS
    <2>1. ASSUME NEW c, Evaluate(c)
          PROVE  Replayed'
        <3>1. replay' = None
            BY <2>1 DEF Evaluate
        <3> QED
            BY ONLY <3>1 DEF Replayed
    <2>2. ASSUME NEW anchors \in Anchors, Replay(anchors)
          PROVE  Replayed'
        <3>1. case' = case /\ replay' = [anchors |-> anchors, decision |-> evaluateBundle(case, anchors)]
            BY <2>2 DEF Replay
        <3> QED
            BY ONLY <3>1, anchors \in Anchors DEF Replayed
    <2>3. CASE UNCHANGED vars
        BY ONLY <2>3, Replayed DEF Replayed, vars
    <2> QED
        BY <2>1, <2>2, <2>3 DEF Next
<1>3. Decided /\ Replayed => ReplayAgrees
    <2> SUFFICES ASSUME Decided, Replayed, replay # None
                 PROVE  ReplayAgrees
        BY DEF ReplayAgrees
    <2>1. PICK anchors \in Anchors : replay = [anchors |-> anchors, decision |-> evaluateBundle(case, anchors)]
        BY DEF Replayed
    <2>2. replay.anchors = anchors /\ replay.decision = evaluateBundle(case, anchors)
        BY ONLY <2>1
    <2>3. Shaped(case) /\ decision = evaluateCase(case)
        BY DEF Decided
    <2> QED
        BY ONLY <2>2, <2>3, anchors \in Anchors, ReplayedIsSame DEF ReplayAgrees
<1> QED
    BY <1>1, <1>2, <1>3, DecidedAlways, PTL DEF Spec
=============================================================================
