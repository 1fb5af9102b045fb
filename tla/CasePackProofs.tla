---------------------------- MODULE CasePackProofs ----------------------------
(***************************************************************************)
(* What the CasePack verifier comes to.  A report is valid only if every step of  *)
(* the way to a source's signature was satisfied; that way leads, through the     *)
(* pins, the keys and the Merkle tree, to events the source recorded and signed   *)
(* for; and a pack that was changed is told from the one that was sealed.         *)
(***************************************************************************)
EXTENDS CasePackFlow, SequenceTheorems, FiniteSetTheorems, WellFoundedInduction, TLAPS

\* The worst of a set of statuses is one of them, and satisfied only if none of
\* them is worse (combineStatuses).
LEMMA Combined ==
    ASSUME NEW S \in SUBSET CASEPACK_STATUSES, NEW e
    PROVE  /\ S = {} => combineStatuses(S, e) = e
           /\ S # {} => combineStatuses(S, e) \in S
           /\ S # {} /\ combineStatuses(S, e) = "satisfied" => S \subseteq {"satisfied", "not_applicable"}
           /\ S # {} /\ combineStatuses(S, e) = "not_applicable" => S \subseteq {"not_applicable"}
<1> DEFINE Worst(s) == \A t \in S : STATUS_PRIORITY[t] <= STATUS_PRIORITY[s]
<1>1. CASE S = {}
  BY <1>1 DEF combineStatuses
<1>2. CASE S # {}
  <2>1. \E s \in S : Worst(s)
    <3>1. CASE "conflicting" \in S
      BY <3>1 DEF STATUS_PRIORITY, CASEPACK_STATUSES
    <3>2. CASE "conflicting" \notin S /\ "unsupported" \in S
      BY <3>2 DEF STATUS_PRIORITY, CASEPACK_STATUSES
    <3>3. CASE "conflicting" \notin S /\ "unsupported" \notin S /\ "missing" \in S
      BY <3>3 DEF STATUS_PRIORITY, CASEPACK_STATUSES
    <3>4. CASE S \subseteq {"not_applicable", "satisfied", "unknown"} /\ "unknown" \in S
      BY <3>4 DEF STATUS_PRIORITY
    <3>5. CASE S \subseteq {"not_applicable", "satisfied"}
      <4>1. CASE "satisfied" \in S
        BY <3>5, <4>1 DEF STATUS_PRIORITY
      <4>2. CASE S = {"not_applicable"}
        BY <4>2 DEF STATUS_PRIORITY
      <4> QED
        BY <3>5, <4>1, <4>2, <1>2
    <3> QED
      BY <3>1, <3>2, <3>3, <3>4, <3>5 DEF CASEPACK_STATUSES
  <2> DEFINE w == CHOOSE s \in S : Worst(s)
  <2>2. w \in S /\ Worst(w)
    BY <2>1
  <2>3. combineStatuses(S, e) = w
    BY <1>2 DEF combineStatuses
  <2>4. w = "satisfied" => S \subseteq {"satisfied", "not_applicable"}
    BY <2>2 DEF STATUS_PRIORITY, CASEPACK_STATUSES
  <2>5. w = "not_applicable" => S \subseteq {"not_applicable"}
    BY <2>2 DEF STATUS_PRIORITY, CASEPACK_STATUSES
  <2> QED
    BY <1>2, <2>2, <2>3, <2>4, <2>5
<1> QED
  BY <1>1, <1>2

\* Statuses that are not "not_applicable" combine to "satisfied" only if all are.
LEMMA RelevantCombined ==
    ASSUME NEW S \in SUBSET CASEPACK_STATUSES, NEW e, e # "not_applicable"
    PROVE  /\ combineStatuses(Relevant(S), e) # "not_applicable"
           /\ combineStatuses(Relevant(S), e) = "satisfied" => S \subseteq {"satisfied", "not_applicable"}
<1>1. Relevant(S) \in SUBSET CASEPACK_STATUSES /\ "not_applicable" \notin Relevant(S)
  BY DEF Relevant
<1> QED
  BY <1>1, Combined DEF Relevant

\* What the verifier says of the bytes, the outputs, the checkpoint and the
\* requirement of a well-formed pack is one of the six statuses.
LEMMA Statused ==
    ASSUME NEW pack, validateCasePackShape(pack), NEW envelope \in Envelopes(pack), NEW supplied,
           NEW requirement, NEW anchors
    PROVE  /\ RawStatus(envelope, supplied) \in CASEPACK_STATUSES \ {"not_applicable"}
           /\ verifyMappedOutputs(envelope, pack.nativeEvidenceBundle) \in CASEPACK_STATUSES
           /\ verifyCheckpointForEnvelope(envelope, requirement, pack, anchors) \in CASEPACK_STATUSES
<1>1. RawStatus(envelope, supplied) \in CASEPACK_STATUSES \ {"not_applicable"}
  BY DEF RawStatus, CASEPACK_STATUSES
<1>2. validateMappingTrace(envelope.mapping)
  BY DEF validateCasePackShape, Envelopes, validateProtocolEnvelope
<1> DEFINE steps == {envelope.mapping.steps[i].status : i \in DOMAIN envelope.mapping.steps}
<1>3. steps \in SUBSET CASEPACK_STATUSES
  BY <1>2 DEF validateMappingTrace
<1>4. Relevant(steps) \in SUBSET CASEPACK_STATUSES
  BY <1>3 DEF Relevant
<1>5. mappingStatus(envelope.mapping) \in CASEPACK_STATUSES
  <2>1. mappingStatus(envelope.mapping) = combineStatuses(Relevant(steps), "not_applicable")
    BY DEF mappingStatus
  <2> QED
    BY <1>4, <2>1, Combined DEF CASEPACK_STATUSES
<1>6. verifyMappedOutputs(envelope, pack.nativeEvidenceBundle) \in CASEPACK_STATUSES
  BY <1>5 DEF verifyMappedOutputs, CASEPACK_STATUSES
<1>7. ASSUME NEW c PROVE verifyCheckpointInclusion(envelope, c) \in CASEPACK_STATUSES
  BY DEF verifyCheckpointInclusion, CASEPACK_STATUSES
<1>8. ASSUME NEW c, NEW snapshot, NEW trust PROVE verifyCheckpointProof(c, snapshot, trust) \in CASEPACK_STATUSES
  BY DEF verifyCheckpointProof, CASEPACK_STATUSES
<1>9. verifyCheckpointForEnvelope(envelope, requirement, pack, anchors) \in CASEPACK_STATUSES
  BY <1>7, <1>8 DEF verifyCheckpointForEnvelope, CASEPACK_STATUSES
<1> QED
  BY <1>1, <1>6, <1>9

\* A requirement that is satisfied has only satisfied envelopes, and a report
\* is valid only when every requirement is satisfied (RequirementStatus, ReportOf).
LEMMA ValidIsCovered ==
    ASSUME NEW pack, NEW anchors, verifyMandateBoundCasePack(pack, anchors).valid = TRUE,
           NEW requirement \in Requirements(pack)
    PROVE  /\ validateCasePackShape(pack)
           /\ CoverageTrust(pack, anchors) = "satisfied"
           /\ RequirementStatus(requirement, pack, anchors, rawEvidenceMap(anchors.rawEvidence).bytes) = "satisfied"
           /\ \A envelope \in Matched(pack, requirement) :
                 /\ envelope \in Envelopes(pack)
                 /\ EnvelopeStatuses(envelope, requirement, pack, anchors, rawEvidenceMap(anchors.rawEvidence).bytes)
                        \subseteq {"satisfied", "not_applicable"}
<1> DEFINE raw == rawEvidenceMap(anchors.rawEvidence)
           supplied == raw.bytes
           statuses == Statuses(pack, anchors, raw)
           trust == CoverageTrust(pack, anchors)
           Status(r) == RequirementStatus(r, pack, anchors, supplied)
           all == {trust} \cup {Status(r) : r \in Requirements(pack)}
<1>1. validateCasePackShape(pack)
  BY DEF verifyMandateBoundCasePack, genericInvalidReport
<1>2. ReportOf(pack, statuses).valid = TRUE
  BY <1>1 DEF verifyMandateBoundCasePack
<1>3. statuses.coverageStatus = "satisfied"
  <2>1. "coverageStatus" \in DOMAIN statuses
    BY DEF Statuses
  <2>2. Holds(statuses)
    BY <1>2 DEF ReportOf
  <2> QED
    BY <2>1, <2>2 DEF Holds
<1>4. combineStatuses(Relevant(all), "unknown") = "satisfied"
  BY <1>3 DEF Statuses, CoverageStatus
<1>5. \A r : \A e \in Envelopes(pack) : EnvelopeStatuses(e, r, pack, anchors, supplied) \subseteq CASEPACK_STATUSES
  <2> SUFFICES ASSUME NEW r, NEW e \in Envelopes(pack)
               PROVE  EnvelopeStatuses(e, r, pack, anchors, supplied) \subseteq CASEPACK_STATUSES
    OBVIOUS
  <2>1. {RawStatus(e, supplied), verifyMappedOutputs(e, pack.nativeEvidenceBundle)} \in SUBSET CASEPACK_STATUSES
    BY <1>1, Statused
  <2>2. IntegrityOf(e, pack, supplied) \in CASEPACK_STATUSES
    BY <2>1, Combined DEF IntegrityOf
  <2>3. verifyCheckpointForEnvelope(e, r, pack, anchors) \in CASEPACK_STATUSES
    BY <1>1, Statused
  <2> QED
    BY <2>2, <2>3 DEF EnvelopeStatuses, CASEPACK_STATUSES
<1>6. ASSUME NEW r PROVE UNION {EnvelopeStatuses(e, r, pack, anchors, supplied) : e \in Matched(pack, r)} \in SUBSET CASEPACK_STATUSES
  BY <1>5 DEF Matched
<1>7. trust \in CASEPACK_STATUSES \ {"not_applicable"}
  BY DEF CoverageTrust, CASEPACK_STATUSES
<1>8. ASSUME NEW r PROVE Status(r) \in CASEPACK_STATUSES \ {"not_applicable"}
  <2> DEFINE these == UNION {EnvelopeStatuses(e, r, pack, anchors, supplied) : e \in Matched(pack, r)}
  <2>1. these \in SUBSET CASEPACK_STATUSES
    BY <1>6
  <2>2. Relevant(these) \in SUBSET CASEPACK_STATUSES /\ "not_applicable" \notin Relevant(these)
    BY <2>1 DEF Relevant
  <2>3. combineStatuses(Relevant(these), "satisfied") \in CASEPACK_STATUSES \ {"not_applicable"}
    BY <2>2, Combined DEF CASEPACK_STATUSES
  <2> QED
    BY <1>7, <2>3 DEF RequirementStatus, CASEPACK_STATUSES
<1>9. all \in SUBSET CASEPACK_STATUSES
  BY <1>7, <1>8
<1>10. all \subseteq {"satisfied", "not_applicable"}
  BY <1>4, <1>9, RelevantCombined
<1>11. trust = "satisfied" /\ Status(requirement) = "satisfied"
  BY <1>7, <1>8, <1>10
<1> DEFINE these == UNION {EnvelopeStatuses(e, requirement, pack, anchors, supplied) : e \in Matched(pack, requirement)}
<1>12. combineStatuses(Relevant(these), "satisfied") = "satisfied"
  BY <1>11 DEF RequirementStatus
<1>13. these \subseteq {"satisfied", "not_applicable"}
  <2>1. these \in SUBSET CASEPACK_STATUSES
    BY <1>6
  <2> QED
    BY <1>12, <2>1, RelevantCombined
<1>14. \A envelope \in Matched(pack, requirement) :
           /\ EnvelopeStatuses(envelope, requirement, pack, anchors, supplied) \subseteq these
           /\ envelope \in Envelopes(pack)
  BY DEF Matched
<1> QED
  BY <1>1, <1>11, <1>13, <1>14

\* The way of one envelope to the signature (verifyCheckpointForEnvelope).
Proved(envelope, requirement, pack, anchors, c) ==
    /\ c \in Named(pack, envelope.checkpointInclusion.checkpointId) /\ c.declaredGaps = <<>>
    /\ ~(c.issuedAt > anchors.asOf)
    /\ ~(anchors.asOf > c.issuedAt + requirement.maxCheckpointAgeSeconds)
    /\ verifyCheckpointInclusion(envelope, c) = "satisfied"
    /\ \E i \in DOMAIN c.proofs : ProvedBy(c, c.proofs[i], pack.externalTrustSnapshot)
    /\ ExternalTrust(pack, anchors) = "satisfied" /\ pack.externalTrustSnapshot # None

LEMMA ProofNeedsTrust ==
    ASSUME NEW c, NEW snapshot, NEW trust, verifyCheckpointProof(c, snapshot, trust) = "satisfied"
    PROVE  /\ \E i \in DOMAIN c.proofs : ProvedBy(c, c.proofs[i], snapshot)
           /\ trust = "satisfied" /\ snapshot # None
<1>1. snapshot # None
  BY DEF verifyCheckpointProof
<1>2. trust = "satisfied"
  BY DEF verifyCheckpointProof
<1>3. \E i \in DOMAIN c.proofs : ProvedBy(c, c.proofs[i], snapshot)
  BY DEF verifyCheckpointProof
<1> QED
  BY <1>1, <1>2, <1>3

LEMMA WayToSignature ==
    ASSUME NEW pack, NEW anchors, verifyMandateBoundCasePack(pack, anchors).valid = TRUE,
           NEW requirement \in Requirements(pack), requirement.checkpointRequirement = "required",
           NEW envelope \in Matched(pack, requirement)
    PROVE  /\ RawStatus(envelope, rawEvidenceMap(anchors.rawEvidence).bytes) = "satisfied"
           /\ envelope.upstreamValid
           /\ \E c : Proved(envelope, requirement, pack, anchors, c)
<1> DEFINE supplied == rawEvidenceMap(anchors.rawEvidence).bytes
           named == Named(pack, envelope.checkpointInclusion.checkpointId)
           checkpoint == CHOOSE c \in named : TRUE
           trust == ExternalTrust(pack, anchors)
           given == verifyCheckpointForEnvelope(envelope, requirement, pack, anchors)
<1>1. EnvelopeStatuses(envelope, requirement, pack, anchors, supplied) \subseteq {"satisfied", "not_applicable"}
      /\ validateCasePackShape(pack) /\ envelope \in Envelopes(pack)
  BY ValidIsCovered
<1>2. envelope.upstreamValid
  BY <1>1 DEF EnvelopeStatuses
<1>3. RawStatus(envelope, supplied) = "satisfied"
  <2> DEFINE both == {RawStatus(envelope, supplied), verifyMappedOutputs(envelope, pack.nativeEvidenceBundle)}
  <2>1. both \in SUBSET CASEPACK_STATUSES /\ RawStatus(envelope, supplied) # "not_applicable"
    BY <1>1, Statused
  <2>2. combineStatuses(both, "unknown") \in {"satisfied", "not_applicable"}
    BY <1>1 DEF EnvelopeStatuses, IntegrityOf
  <2>3. CASE combineStatuses(both, "unknown") = "satisfied"
    BY <2>1, <2>3, Combined
  <2>4. CASE combineStatuses(both, "unknown") = "not_applicable"
    BY <2>1, <2>4, Combined
  <2> QED
    BY <2>2, <2>3, <2>4
<1>4. given \in {"satisfied", "not_applicable"}
  BY <1>1 DEF EnvelopeStatuses
<1>5. /\ named # {} /\ checkpoint.declaredGaps = <<>>
      /\ ~(checkpoint.issuedAt > anchors.asOf)
      /\ ~(anchors.asOf > checkpoint.issuedAt + requirement.maxCheckpointAgeSeconds)
      /\ verifyCheckpointInclusion(envelope, checkpoint) = "satisfied"
      /\ verifyCheckpointProof(checkpoint, pack.externalTrustSnapshot, trust) = "satisfied"
  BY <1>4 DEF verifyCheckpointForEnvelope, verifyCheckpointInclusion, verifyCheckpointProof
<1>6. checkpoint \in named
  BY <1>5
<1>7. /\ \E i \in DOMAIN checkpoint.proofs : ProvedBy(checkpoint, checkpoint.proofs[i], pack.externalTrustSnapshot)
      /\ trust = "satisfied" /\ pack.externalTrustSnapshot # None
  BY <1>5, ProofNeedsTrust
<1>8. Proved(envelope, requirement, pack, anchors, checkpoint)
  BY <1>5, <1>6, <1>7 DEF Proved
<1> QED
  BY <1>2, <1>3, <1>8

LEMMA ValidMeansProved ==
    ASSUME NEW pack, NEW anchors, verifyMandateBoundCasePack(pack, anchors).valid = TRUE
    PROVE  ProvedAndIncluded(pack, anchors)
BY WayToSignature DEF ProvedAndIncluded, Proved

----------------------------------------------------------------------------
(* A digest is of its material, so what has the same digest is the same.          *)

\* Two objects of the same properties with the same digest differ at most in what
\* the digest leaves out (DigestHolds).
LEMMA SameMaterial ==
    ASSUME NEW x, NEW y, NEW names, NEW field \in names, NEW dropped, NEW kind, field \notin dropped,
           exactKeys(x, names), exactKeys(y, names),
           DigestHolds(kind, field, x, dropped), DigestHolds(kind, field, y, dropped)
    PROVE  x[field] = y[field] <=> Without(x, dropped) = Without(y, dropped)
<1>1. DOMAIN x = names /\ DOMAIN y = names
  BY DEF exactKeys
<1>2. ASSUME x[field] = y[field] PROVE Without(x, dropped) = Without(y, dropped)
  <2>1. Without(x, dropped \cup {field}) = Without(y, dropped \cup {field})
    BY <1>2 DEF DigestHolds, Digest
  <2>2. ASSUME NEW n \in names \ dropped PROVE x[n] = y[n]
    <3>1. CASE n = field
      BY <3>1, <1>2
    <3>2. CASE n # field
      <4>1. Without(x, dropped \cup {field})[n] = x[n] /\ Without(y, dropped \cup {field})[n] = y[n]
        BY <1>1, <3>2 DEF Without
      <4> QED
        BY <2>1, <4>1
    <3> QED
      BY <3>1, <3>2
  <2> QED
    BY <1>1, <2>2 DEF Without
<1>3. ASSUME Without(x, dropped) = Without(y, dropped) PROVE x[field] = y[field]
  <2>1. Without(x, dropped)[field] = x[field] /\ Without(y, dropped)[field] = y[field]
    BY <1>1 DEF Without
  <2> QED
    BY <1>3, <2>1
<1> QED
  BY <1>2, <1>3

LEMMA NothingDropped ==
    ASSUME NEW x, NEW names, exactKeys(x, names)
    PROVE  Without(x, {}) = x
BY DEF exactKeys, isPlainObject, Without

\* With nothing left out, the same digest means the same object.
LEMMA SameDigest ==
    ASSUME NEW x, NEW y, NEW names, NEW field \in names, NEW kind,
           exactKeys(x, names), exactKeys(y, names), DigestHolds(kind, field, x, {}), DigestHolds(kind, field, y, {})
    PROVE  x[field] = y[field] <=> x = y
<1>1. x[field] = y[field] <=> Without(x, {}) = Without(y, {})
  BY SameMaterial
<1>2. Without(x, {}) = x /\ Without(y, {}) = y
  BY NothingDropped
<1> QED
  BY <1>1, <1>2

ToldApart(values, id) == \A x, y \in values : x[id] = y[id] => x = y
ById(digests, values, id, field) ==
    digests = [n \in {x[id] : x \in values} |-> (CHOOSE x \in values : x[id] = n)[field]]
Reduced(values, less, dropped) == less = {Without(x, dropped) : x \in values}
Differing(was, is, id) == {u[id] : u \in (was \ is) \cup (is \ was)}

\* Of objects told apart by an identifier, the digests by identifier differ exactly
\* where the objects do (collectChanges).
LEMMA ChangesById ==
    ASSUME NEW before, NEW after, NEW old, NEW new, NEW id, NEW field, NEW dropped,
           ToldApart(before, id), ToldApart(after, id),
           \A x \in before, y \in after : x[field] = y[field] <=> Without(x, dropped) = Without(y, dropped),
           \A x \in before \cup after : Without(x, dropped)[id] = x[id],
           ById(old, before, id, field), ById(new, after, id, field),
           NEW was, Reduced(before, was, dropped), NEW is, Reduced(after, is, dropped)
    PROVE  collectChanges(old, new) = Differing(was, is, id)
<1>0. was = {Without(x, dropped) : x \in before} /\ is = {Without(x, dropped) : x \in after}
  BY DEF Reduced
<1>1. DOMAIN old = {x[id] : x \in before} /\ \A x \in before : old[x[id]] = x[field]
  <2>0. old = [n \in {x[id] : x \in before} |-> (CHOOSE x \in before : x[id] = n)[field]]
    BY DEF ById
  <2> SUFFICES ASSUME NEW x \in before PROVE old[x[id]] = x[field]
    BY <2>0
  <2>1. old[x[id]] = (CHOOSE y \in before : y[id] = x[id])[field]
    BY <2>0
  <2>2. (CHOOSE y \in before : y[id] = x[id]) = x
    BY DEF ToldApart
  <2> QED
    BY <2>1, <2>2
<1>2. DOMAIN new = {x[id] : x \in after} /\ \A x \in after : new[x[id]] = x[field]
  <2>0. new = [n \in {x[id] : x \in after} |-> (CHOOSE x \in after : x[id] = n)[field]]
    BY DEF ById
  <2> SUFFICES ASSUME NEW x \in after PROVE new[x[id]] = x[field]
    BY <2>0
  <2>1. new[x[id]] = (CHOOSE y \in after : y[id] = x[id])[field]
    BY <2>0
  <2>2. (CHOOSE y \in after : y[id] = x[id]) = x
    BY DEF ToldApart
  <2> QED
    BY <2>1, <2>2
<1> DEFINE differ == {u[id] : u \in (was \ is) \cup (is \ was)}
<1>3. ASSUME NEW n \in collectChanges(old, new) PROVE n \in differ
  <2>1. n \in DOMAIN old \cup DOMAIN new /\ ~(n \in DOMAIN old \cap DOMAIN new /\ old[n] = new[n])
    BY <1>3 DEF collectChanges
  <2>2. ASSUME NEW x \in before, x[id] = n PROVE n \in differ
    <3>1. ASSUME Without(x, dropped) \in is PROVE FALSE
      <4>1. PICK y \in after : Without(x, dropped) = Without(y, dropped)
        BY <1>0, <3>1
      <4>2. x[field] = y[field]
        BY <4>1
      <4>3. y[id] = n
        BY <2>2, <4>1
      <4> QED
        BY <1>1, <1>2, <2>1, <2>2, <4>2, <4>3
    <3>2. Without(x, dropped) \in was \ is /\ Without(x, dropped)[id] = n
      BY <1>0, <2>2, <3>1
    <3> QED
      BY <3>2
  <2>3. ASSUME NEW y \in after, y[id] = n PROVE n \in differ
    <3>1. ASSUME Without(y, dropped) \in was PROVE FALSE
      <4>1. PICK x \in before : Without(x, dropped) = Without(y, dropped)
        BY <1>0, <3>1
      <4>2. x[field] = y[field]
        BY <4>1
      <4>3. x[id] = n
        BY <2>3, <4>1
      <4> QED
        BY <1>1, <1>2, <2>1, <2>3, <4>2, <4>3
    <3>2. Without(y, dropped) \in is \ was /\ Without(y, dropped)[id] = n
      BY <1>0, <2>3, <3>1
    <3> QED
      BY <3>2
  <2> QED
    BY <1>1, <1>2, <2>1, <2>2, <2>3
<1>4. ASSUME NEW n \in differ PROVE n \in collectChanges(old, new)
  <2>1. PICK u \in (was \ is) \cup (is \ was) : u[id] = n
    OBVIOUS
  <2>2. CASE u \in was \ is
    <3>1. PICK x \in before : u = Without(x, dropped)
      BY <1>0, <2>2
    <3>2. x[id] = n
      BY <2>1, <3>1
    <3>3. ASSUME NEW y \in after, y[id] = n PROVE x[field] # y[field]
      BY <1>0, <2>2, <3>1, <3>3
    <3> QED
      BY <1>1, <1>2, <3>2, <3>3 DEF collectChanges
  <2>3. CASE u \in is \ was
    <3>1. PICK y \in after : u = Without(y, dropped)
      BY <1>0, <2>3
    <3>2. y[id] = n
      BY <2>1, <3>1
    <3>3. ASSUME NEW x \in before, x[id] = n PROVE x[field] # y[field]
      BY <1>0, <2>3, <3>1, <3>3
    <3> QED
      BY <1>1, <1>2, <3>2, <3>3 DEF collectChanges
  <2> QED
    BY <2>1, <2>2, <2>3
<1> QED
  BY <1>3, <1>4 DEF Differing

PackKeys == {"casePackId", "createdAt", "nativeEvidenceBundle", "protocolEvidence", "externalTrustSnapshot",
             "delegationContext", "coverageContract", "sourceCheckpoints", "casePackDigest"}
Sealed(pack) == exactKeys(pack, PackKeys) /\ DigestHolds("casepack", "casePackDigest", pack, {})

LEMMA SoundIsSealed == ASSUME NEW pack, validateCasePackShape(pack) PROVE Sealed(pack)
  BY DEF validateCasePackShape, Sealed, PackKeys

LEMMA SealedDiffer ==
    ASSUME NEW x, NEW y, Sealed(x), Sealed(y), x # y
    PROVE  x.casePackDigest # y.casePackDigest
<1>1. "casePackDigest" \in PackKeys
  BY DEF PackKeys
<1>2. x["casePackDigest"] = y["casePackDigest"] <=> x = y
  BY <1>1, SameDigest DEF Sealed
<1> QED
  BY <1>2

\* Packs are compared only when both have their shape (genericInvalidReport).
LEMMA ComparedAreSound ==
    ASSUME NEW pack, NEW anchors, comparablePack(verifyMandateBoundCasePack(pack, anchors))
    PROVE  validateCasePackShape(pack)
<1>1. genericInvalidReport.integrityStatus # "satisfied"
  BY DEF genericInvalidReport
<1> QED
  BY <1>1 DEF comparablePack, verifyMandateBoundCasePack

LEMMA ValidIsSound ==
    ASSUME NEW pack, NEW anchors, verifyMandateBoundCasePack(pack, anchors).valid = TRUE
    PROVE  validateCasePackShape(pack)
<1>1. genericInvalidReport.valid = FALSE
  BY DEF genericInvalidReport
<1> QED
  BY <1>1 DEF verifyMandateBoundCasePack

LEMMA SameContract ==
    ASSUME NEW c, NEW d, validateCoverageContract(c), validateCoverageContract(d)
    PROVE  c.contractDigest = d.contractDigest <=> c = d
<1> DEFINE names == {"policyDigest", "nativeBundleRootDigest", "validFrom", "validUntil", "requirements",
                     "contractDigest"}
<1>1. /\ exactKeys(c, names) /\ DigestHolds("coverage", "contractDigest", c, {})
      /\ exactKeys(d, names) /\ DigestHolds("coverage", "contractDigest", d, {})
  BY DEF validateCoverageContract
<1>2. "contractDigest" \in names
  OBVIOUS
<1> HIDE DEF names
<1>3. c["contractDigest"] = d["contractDigest"] <=> c = d
  BY <1>1, <1>2, SameDigest
<1> QED
  BY <1>3

LEMMA SameSnapshot ==
    ASSUME NEW c, NEW d, validateExternalTrust(c), validateExternalTrust(d)
    PROVE  c.snapshotDigest = d.snapshotDigest <=> c = d
<1> DEFINE names == {"issuedAt", "expiresAt", "keys", "snapshotDigest"}
<1>1. /\ exactKeys(c, names) /\ DigestHolds("trust", "snapshotDigest", c, {})
      /\ exactKeys(d, names) /\ DigestHolds("trust", "snapshotDigest", d, {})
  BY DEF validateExternalTrust
<1>2. "snapshotDigest" \in names
  OBVIOUS
<1> HIDE DEF names
<1>3. c["snapshotDigest"] = d["snapshotDigest"] <=> c = d
  BY <1>1, <1>2, SameDigest
<1> QED
  BY <1>3

\* The parts of two packs of their shape: the same digest, the same part.
LEMMA PartsByDigest ==
    ASSUME NEW p, NEW q, validateCasePackShape(p), validateCasePackShape(q)
    PROVE  /\ p.nativeEvidenceBundle.rootDigest = q.nativeEvidenceBundle.rootDigest
                  <=> p.nativeEvidenceBundle = q.nativeEvidenceBundle
           /\ p.coverageContract.contractDigest = q.coverageContract.contractDigest
                  <=> p.coverageContract = q.coverageContract
           /\ p.delegationContext.contextDigest = q.delegationContext.contextDigest
                  <=> p.delegationContext = q.delegationContext
           /\ SnapshotDigests(p) = SnapshotDigests(q) <=> p.externalTrustSnapshot = q.externalTrustSnapshot
<1>1. p.nativeEvidenceBundle.rootDigest = q.nativeEvidenceBundle.rootDigest
         <=> p.nativeEvidenceBundle = q.nativeEvidenceBundle
  <2> DEFINE b == p.nativeEvidenceBundle
             c == q.nativeEvidenceBundle
  <2>1. /\ b = [name \in {"entries", "rootDigest"} |-> b[name]] /\ b.rootDigest = Digest("bundle", b.entries)
        /\ c = [name \in {"entries", "rootDigest"} |-> c[name]] /\ c.rootDigest = Digest("bundle", c.entries)
    BY DEF validateCasePackShape, NativeBundleValid, exactKeys, isPlainObject
  <2> HIDE DEF b, c
  <2>2. ASSUME b.rootDigest = c.rootDigest PROVE b = c
    <3>1. b.entries = c.entries
      BY <2>1, <2>2 DEF Digest
    <3>2. \A name \in {"entries", "rootDigest"} : b[name] = c[name]
      BY <2>2, <3>1
    <3> QED
      BY <2>1, <3>2
  <2> QED
    BY <2>2 DEF b, c
<1>2. p.coverageContract.contractDigest = q.coverageContract.contractDigest <=> p.coverageContract = q.coverageContract
  <2>1. validateCoverageContract(p.coverageContract) /\ validateCoverageContract(q.coverageContract)
    BY DEF validateCasePackShape
  <2> QED
    BY <2>1, SameContract
<1>3. p.delegationContext.contextDigest = q.delegationContext.contextDigest <=> p.delegationContext = q.delegationContext
  <2> DEFINE names == {"principalId", "delegateId", "validFrom", "validUntil", "contextDigest"}
             c == p.delegationContext
             d == q.delegationContext
  <2>1. /\ exactKeys(c, names) /\ DigestHolds("delegation", "contextDigest", c, {})
        /\ exactKeys(d, names) /\ DigestHolds("delegation", "contextDigest", d, {})
    BY DEF validateCasePackShape, validateDelegationContext
  <2>2. "contextDigest" \in names
    OBVIOUS
  <2> HIDE DEF names, c, d
  <2>3. c["contextDigest"] = d["contextDigest"] <=> c = d
    BY <2>1, <2>2, SameDigest
  <2> QED
    BY <2>3 DEF c, d
<1>4. SnapshotDigests(p) = SnapshotDigests(q) <=> p.externalTrustSnapshot = q.externalTrustSnapshot
  <2> DEFINE s == p.externalTrustSnapshot
             t == q.externalTrustSnapshot
  <2>1. (s # None => validateExternalTrust(s)) /\ (t # None => validateExternalTrust(t))
    BY DEF validateCasePackShape
  <2>3. SnapshotDigests(p) = {u.snapshotDigest : u \in {s} \ {None}} /\ SnapshotDigests(q) = {u.snapshotDigest : u \in {t} \ {None}}
    BY DEF SnapshotDigests
  <2> HIDE DEF s, t
  <2>4. CASE s # None /\ t # None
    <3>1. s.snapshotDigest = t.snapshotDigest <=> s = t
      BY <2>1, <2>4, SameSnapshot
    <3>2. SnapshotDigests(p) = {s.snapshotDigest} /\ SnapshotDigests(q) = {t.snapshotDigest}
      BY <2>3, <2>4
    <3> QED
      BY <3>1, <3>2 DEF s, t
  <2>5. CASE s = None /\ t = None
    BY <2>3, <2>5 DEF s, t
  <2>6. CASE s = None /\ t # None
    BY <2>3, <2>6 DEF s, t
  <2>7. CASE s # None /\ t = None
    BY <2>3, <2>7 DEF s, t
  <2> QED
    BY <2>4, <2>5, <2>6, <2>7
<1> QED
  BY <1>1, <1>2, <1>3, <1>4

\* Its envelopes and its checkpoints, by identifier.
LEMMA EnvelopesByDigest ==
    ASSUME NEW p, NEW q, validateCasePackShape(p), validateCasePackShape(q)
    PROVE  collectChanges(EnvelopeDigests(p), EnvelopeDigests(q))
               = Differing(Envelopes(p), Envelopes(q), "envelopeId")
<1> DEFINE names == {"envelopeId", "sourceId", "eventClass", "capturedAt", "mediaType", "rawEvidence",
                     "upstreamValid", "mapping", "checkpointInclusion", "envelopeDigest"}
<1>1. \A e \in Envelopes(p) \cup Envelopes(q) :
          exactKeys(e, names) /\ DigestHolds("envelope", "envelopeDigest", e, {})
  BY DEF Envelopes, validateCasePackShape, validateProtocolEnvelope
<1>2. "envelopeDigest" \in names
  OBVIOUS
<1> HIDE DEF names
<1>3. \A e \in Envelopes(p) \cup Envelopes(q) : Without(e, {}) = e
  BY <1>1, NothingDropped
<1>4. \A x \in Envelopes(p), y \in Envelopes(q) : x["envelopeDigest"] = y["envelopeDigest"] <=> Without(x, {}) = Without(y, {})
  BY <1>1, <1>2, <1>3, SameDigest
<1>5. ToldApart(Envelopes(p), "envelopeId") /\ ToldApart(Envelopes(q), "envelopeId")
  BY DEF Envelopes, validateCasePackShape, DistinctBy, ToldApart
<1>6. /\ ById(EnvelopeDigests(p), Envelopes(p), "envelopeId", "envelopeDigest")
      /\ ById(EnvelopeDigests(q), Envelopes(q), "envelopeId", "envelopeDigest")
  BY DEF EnvelopeDigests, ById
<1>7. Reduced(Envelopes(p), Envelopes(p), {}) /\ Reduced(Envelopes(q), Envelopes(q), {})
  BY <1>3 DEF Reduced
<1>8. \A x \in Envelopes(p) \cup Envelopes(q) : Without(x, {})["envelopeId"] = x["envelopeId"]
  BY <1>3
<1>9. collectChanges(EnvelopeDigests(p), EnvelopeDigests(q))
          = Differing(Envelopes(p), Envelopes(q), "envelopeId")
  BY ONLY <1>4, <1>5, <1>6, <1>7, <1>8, ChangesById
<1> QED
  BY <1>9

Unsigned(pack) == {Without(c, {"proofs"}) : c \in Checkpoints(pack)}

LEMMA CheckpointsByDigest ==
    ASSUME NEW p, NEW q, validateCasePackShape(p), validateCasePackShape(q)
    PROVE  collectChanges(CheckpointDigests(p), CheckpointDigests(q))
               = Differing(Unsigned(p), Unsigned(q), "checkpointId")
<1> DEFINE names == {"checkpointId", "sourceId", "epoch", "issuedAt", "windowStart", "windowEnd",
                     "firstSequence", "lastSequence", "eventCount", "merkleRoot", "declaredGaps",
                     "checkpointDigest", "proofs"}
<1>1. \A c \in Checkpoints(p) \cup Checkpoints(q) :
          exactKeys(c, names) /\ DigestHolds("checkpoint", "checkpointDigest", c, {"proofs"})
  BY DEF Checkpoints, validateCasePackShape, validateCheckpoint
<1>2. "checkpointDigest" \in names /\ "checkpointId" \in names
  OBVIOUS
<1> HIDE DEF names
<1>3. \A c \in Checkpoints(p) \cup Checkpoints(q) : Without(c, {"proofs"})["checkpointId"] = c["checkpointId"]
  BY <1>1, <1>2 DEF exactKeys, Without
<1>4. \A x \in Checkpoints(p), y \in Checkpoints(q) :
          x["checkpointDigest"] = y["checkpointDigest"] <=> Without(x, {"proofs"}) = Without(y, {"proofs"})
  BY <1>1, <1>2, SameMaterial
<1>5. ToldApart(Checkpoints(p), "checkpointId") /\ ToldApart(Checkpoints(q), "checkpointId")
  BY DEF Checkpoints, validateCasePackShape, DistinctBy, ToldApart
<1>6. /\ ById(CheckpointDigests(p), Checkpoints(p), "checkpointId", "checkpointDigest")
      /\ ById(CheckpointDigests(q), Checkpoints(q), "checkpointId", "checkpointDigest")
  BY DEF CheckpointDigests, ById
<1>7. Reduced(Checkpoints(p), Unsigned(p), {"proofs"}) /\ Reduced(Checkpoints(q), Unsigned(q), {"proofs"})
  BY DEF Unsigned, Reduced
<1> QED
  BY ONLY <1>3, <1>4, <1>5, <1>6, <1>7, ChangesById

Told(before, after, diff) ==
    /\ diff.changed
    /\ diff.protocol_evidence = Differing(Envelopes(before), Envelopes(after), "envelopeId")
    /\ diff.source_checkpoint = Differing(Unsigned(before), Unsigned(after), "checkpointId")
    /\ diff.nativeBundleChanged <=> before.nativeEvidenceBundle # after.nativeEvidenceBundle
    /\ diff.coverageContractChanged <=> before.coverageContract # after.coverageContract
    /\ diff.delegationContextChanged <=> before.delegationContext # after.delegationContext
    /\ diff.externalTrustSnapshotChanged <=> before.externalTrustSnapshot # after.externalTrustSnapshot

\* Of two packs that can be compared, the difference names what differs.
LEMMA DifferenceIsTold ==
    ASSUME NEW p, NEW q, NEW anchors, NEW others, p # q,
           NEW diff, diff = diffMandateBoundCasePacks(p, anchors, q, others), diff.comparable
    PROVE  Told(p, q, diff)
<1> DEFINE both == /\ comparablePack(verifyMandateBoundCasePack(p, anchors))
                   /\ comparablePack(verifyMandateBoundCasePack(q, others))
<1>1. both
  BY DEF diffMandateBoundCasePacks
<1>2. /\ diff.changed <=> p.casePackDigest # q.casePackDigest
      /\ diff.protocol_evidence = collectChanges(EnvelopeDigests(p), EnvelopeDigests(q))
      /\ diff.source_checkpoint = collectChanges(CheckpointDigests(p), CheckpointDigests(q))
      /\ diff.nativeBundleChanged <=> p.nativeEvidenceBundle.rootDigest # q.nativeEvidenceBundle.rootDigest
      /\ diff.coverageContractChanged <=> p.coverageContract.contractDigest # q.coverageContract.contractDigest
      /\ diff.delegationContextChanged <=> p.delegationContext.contextDigest # q.delegationContext.contextDigest
      /\ diff.externalTrustSnapshotChanged <=> SnapshotDigests(p) # SnapshotDigests(q)
  BY <1>1 DEF diffMandateBoundCasePacks
<1>3. validateCasePackShape(p) /\ validateCasePackShape(q)
  BY <1>1, ComparedAreSound
<1>4. p.casePackDigest # q.casePackDigest
  BY <1>3, SoundIsSealed, SealedDiffer
<1> QED
  BY <1>2, <1>3, <1>4, PartsByDigest, EnvelopesByDigest, CheckpointsByDigest DEF Told

----------------------------------------------------------------------------
(* The passes of the verifier are functions of the length of what they go over.   *)
(* That each is there, and what it keeps, is proved over the least length at      *)
(* which it would fail.                                                          *)
LEMMA Least ==
  ASSUME NEW S \in SUBSET Nat, S # {}
  PROVE  \E m \in S : \A k \in S : m <= k
<1> DEFINE R == OpToRel(<, Nat)
<1>1. IsWellFoundedOn(R, Nat)
  BY NatLessThanWellFounded
<1>2. \A x, y \in Nat : y < x => <<y, x>> \in R
  BY DEF OpToRel
<1> HIDE DEF R
<1>3. \E x \in S : \A y \in S : ~ (<<y, x>> \in R)
  BY <1>1, WFMin
<1>4. PICK m \in S : \A y \in S : ~ (<<y, m>> \in R)
  BY <1>3
<1>5. ASSUME NEW k \in S PROVE m <= k
  <2>1. k \in Nat /\ m \in Nat
      OBVIOUS
  <2>2. ~ (<<k, m>> \in R)
      BY <1>4
  <2>3. k < m => <<k, m>> \in R
      BY <1>2, <2>1
  <2> QED
      BY <2>1, <2>2, <2>3
<1> QED
  BY <1>5

IsPower(f, n) == f = [k \in 0 .. n |-> IF k = 0 THEN 1 ELSE 2 * f[k - 1]]

LEMMA PowerExists ==
    ASSUME NEW n \in Nat
    PROVE  \E f : IsPower(f, n)
<1> DEFINE bad == {k \in Nat : ~ \E f : IsPower(f, k)}
<1>1. SUFFICES ASSUME bad # {} PROVE FALSE
  OBVIOUS
<1>2. PICK m \in bad : \A k \in bad : m <= k
  BY <1>1, Least
<1>3. CASE m = 0
  <2>1. IsPower([k \in 0 .. 0 |-> 1], 0)
    BY DEF IsPower
  <2> QED
    BY <1>2, <1>3, <2>1
<1>4. CASE m # 0
  <2>1. m - 1 \in Nat /\ m \in Nat /\ m - 1 \notin bad
    BY <1>2, <1>4
  <2>2. PICK f : IsPower(f, m - 1)
    BY <2>1
  <2> DEFINE g == [k \in 0 .. m |-> IF k = m THEN 2 * f[m - 1] ELSE f[k]]
  <2>3. \A k \in 0 .. (m - 1) : f[k] = IF k = 0 THEN 1 ELSE 2 * f[k - 1]
    BY <2>2, Zenon DEF IsPower
  <2>4. \A k \in 0 .. (m - 1) : g[k] = f[k]
    BY <2>1
  <2>5. \A k \in 0 .. m : g[k] = IF k = 0 THEN 1 ELSE 2 * g[k - 1]
    <3>1. TAKE k \in 0 .. m
    <3>2. CASE k = m
      BY <1>4, <2>1, <2>4, <3>2
    <3>3. CASE k # m
      <4>1. k \in 0 .. (m - 1) /\ (k = 0 \/ k - 1 \in 0 .. (m - 1))
        BY <2>1, <3>3
      <4> QED
        BY <2>3, <2>4, <4>1
    <3> QED
      BY <3>2, <3>3
  <2>6. g = [k \in 0 .. m |-> g[k]]
    OBVIOUS
  <2> HIDE DEF g
  <2>7. IsPower(g, m)
    BY <2>5, <2>6, Zenon DEF IsPower
  <2> QED
    BY <2>7
<1> QED
  BY <1>3, <1>4

LEMMA PowerSteps ==
    ASSUME NEW n \in Nat, NEW f, IsPower(f, n)
    PROVE  /\ f[0] = 1
           /\ \A k \in 1 .. n : f[k] = 2 * f[k - 1]
<1>1. \A k \in 0 .. n : f[k] = IF k = 0 THEN 1 ELSE 2 * f[k - 1]
  BY Zenon DEF IsPower
<1>2. \A k \in 1 .. n : k \in 0 .. n /\ k # 0
  OBVIOUS
<1> QED
  BY <1>1, <1>2

\* Two passes agree as far as both go.
LEMMA PowerLocal ==
    ASSUME NEW n \in Nat, NEW m \in Nat, n <= m, NEW f, NEW g, IsPower(f, n), IsPower(g, m)
    PROVE  f[n] = g[n]
<1> DEFINE bad == {k \in Nat : k <= n /\ f[k] # g[k]}
<1>1. SUFFICES ASSUME bad # {} PROVE FALSE
  OBVIOUS
<1>2. PICK k \in bad : \A j \in bad : k <= j
  BY <1>1, Least
<1>3. f[0] = 1 /\ g[0] = 1 /\ (\A j \in 1 .. n : f[j] = 2 * f[j - 1]) /\ (\A j \in 1 .. m : g[j] = 2 * g[j - 1])
  BY PowerSteps
<1>4. k # 0
  BY <1>2, <1>3
<1>5. k \in 1 .. n /\ k \in 1 .. m /\ k - 1 \in Nat /\ k - 1 <= n /\ k - 1 < k
  BY <1>2, <1>4
<1>6. f[k - 1] = g[k - 1]
  BY <1>2, <1>5
<1> QED
  BY <1>2, <1>3, <1>5, <1>6

LEMMA Pow2Steps ==
    /\ Pow2(0) = 1
    /\ \A n \in Nat : Pow2(n + 1) = 2 * Pow2(n) /\ Pow2(n) \in Nat \ {0}
<1> DEFINE F(n) == CHOOSE f : IsPower(f, n)
<1>1. \A n : Pow2(n) = F(n)[n]
  BY Zenon DEF Pow2, IsPower
<1>2. \A n \in Nat : IsPower(F(n), n)
  BY PowerExists, Zenon
<1> HIDE DEF F
<1>3. Pow2(0) = 1
  BY <1>1, <1>2, PowerSteps
<1>4. ASSUME NEW n \in Nat PROVE Pow2(n + 1) = 2 * Pow2(n)
  <2>1. IsPower(F(n), n) /\ IsPower(F(n + 1), n + 1) /\ n + 1 \in Nat /\ n <= n + 1
    BY <1>2
  <2>2. F(n)[n] = F(n + 1)[n]
    BY <2>1, PowerLocal
  <2>3. n + 1 \in 1 .. n + 1 /\ (n + 1) - 1 = n
    OBVIOUS
  <2>4. F(n + 1)[n + 1] = 2 * F(n + 1)[n]
    BY <2>1, <2>3, PowerSteps
  <2> QED
    BY <1>1, <2>2, <2>4
<1>5. ASSUME NEW n \in Nat PROVE Pow2(n) \in Nat \ {0}
  <2> DEFINE bad == {k \in Nat : Pow2(k) \notin Nat \ {0}}
  <2>1. SUFFICES ASSUME bad # {} PROVE FALSE
    OBVIOUS
  <2>2. PICK k \in bad : \A j \in bad : k <= j
    BY <2>1, Least
  <2>3. k # 0
    BY <1>3, <2>2
  <2>4. k - 1 \in Nat /\ k - 1 < k /\ (k - 1) + 1 = k
    BY <2>2, <2>3
  <2>5. Pow2(k - 1) \in Nat \ {0} /\ Pow2(k) = 2 * Pow2(k - 1)
    BY <1>4, <2>2, <2>4
  <2> QED
    BY <2>2, <2>5
<1> QED
  BY <1>3, <1>4, <1>5

\* A size is a power of two in one way.
LEMMA Pow2Injective ==
    ASSUME NEW m \in Nat, NEW n \in Nat, Pow2(m) = Pow2(n)
    PROVE  m = n
<1>1. ASSUME NEW a \in Nat, NEW d \in Nat PROVE Pow2(a) < Pow2(a + d + 1)
  <2> DEFINE bad == {k \in Nat : ~(Pow2(a) < Pow2(a + k + 1))}
  <2>1. SUFFICES ASSUME bad # {} PROVE FALSE
    OBVIOUS
  <2>2. PICK k \in bad : \A j \in bad : k <= j
    BY <2>1, Least
  <2>3. /\ Pow2(a) \in Nat \ {0} /\ Pow2(a + 1) = 2 * Pow2(a) /\ Pow2(a + k) \in Nat \ {0}
        /\ Pow2((a + k) + 1) = 2 * Pow2(a + k)
    BY <2>2, Pow2Steps
  <2>4. k # 0
    BY <2>2, <2>3
  <2>5. k - 1 \in Nat /\ k - 1 < k /\ a + (k - 1) + 1 = a + k /\ a + k + 1 = (a + k) + 1
    BY <2>2, <2>4
  <2>6. Pow2(a) < Pow2(a + k)
    BY <2>2, <2>5
  <2>7. Pow2(a) < Pow2(a + k + 1)
    BY <2>3, <2>5, <2>6
  <2> QED
    BY <2>2, <2>7
<1>2. CASE m < n
  <2>1. n - m - 1 \in Nat /\ m + (n - m - 1) + 1 = n
    BY <1>2
  <2>2. Pow2(m) < Pow2(n)
    BY <1>1, <2>1
  <2>3. Pow2(m) \in Nat
    BY Pow2Steps
  <2> QED
    BY <2>2, <2>3
<1>3. CASE n < m
  <2>1. m - n - 1 \in Nat /\ n + (m - n - 1) + 1 = m
    BY <1>3
  <2>2. Pow2(n) < Pow2(m)
    BY <1>1, <2>1
  <2>3. Pow2(m) \in Nat
    BY Pow2Steps
  <2> QED
    BY <2>2, <2>3
<1> QED
  BY <1>2, <1>3

IsUp(f, first, path, n) == f = [k \in 0 .. n |-> IF k = 0 THEN first ELSE Above(f[k - 1], path[k])]

LEMMA UpExists ==
    ASSUME NEW first, NEW path, NEW n \in Nat
    PROVE  \E f : IsUp(f, first, path, n)
<1> DEFINE bad == {k \in Nat : ~ \E f : IsUp(f, first, path, k)}
<1>1. SUFFICES ASSUME bad # {} PROVE FALSE
  OBVIOUS
<1>2. PICK m \in bad : \A k \in bad : m <= k
  BY <1>1, Least
<1>3. CASE m = 0
  <2>1. IsUp([k \in 0 .. 0 |-> first], first, path, 0)
    BY DEF IsUp
  <2> QED
    BY <1>2, <1>3, <2>1
<1>4. CASE m # 0
  <2>1. m - 1 \in Nat /\ m \in Nat /\ m - 1 \notin bad
    BY <1>2, <1>4
  <2>2. PICK f : IsUp(f, first, path, m - 1)
    BY <2>1
  <2> DEFINE g == [k \in 0 .. m |-> IF k = m THEN Above(f[m - 1], path[m]) ELSE f[k]]
  <2>3. \A k \in 0 .. (m - 1) : f[k] = IF k = 0 THEN first ELSE Above(f[k - 1], path[k])
    BY <2>2, Zenon DEF IsUp
  <2>4. \A k \in 0 .. (m - 1) : g[k] = f[k]
    BY <2>1
  <2>5. \A k \in 0 .. m : g[k] = IF k = 0 THEN first ELSE Above(g[k - 1], path[k])
    <3>1. TAKE k \in 0 .. m
    <3>2. CASE k = m
      BY <1>4, <2>1, <2>4, <3>2
    <3>3. CASE k # m
      <4>1. k \in 0 .. (m - 1) /\ (k = 0 \/ k - 1 \in 0 .. (m - 1))
        BY <2>1, <3>3
      <4> QED
        BY <2>3, <2>4, <4>1
    <3> QED
      BY <3>2, <3>3
  <2>6. g = [k \in 0 .. m |-> g[k]]
    OBVIOUS
  <2> HIDE DEF g
  <2>7. IsUp(g, first, path, m)
    BY <2>5, <2>6, Zenon DEF IsUp
  <2> QED
    BY <2>7
<1> QED
  BY <1>3, <1>4

IsLevel(f, leaves, n) == f = [k \in 0 .. n |-> IF k = 0 THEN leaves ELSE Paired(f[k - 1])]

LEMMA LevelExists ==
    ASSUME NEW leaves, NEW n \in Nat
    PROVE  \E f : IsLevel(f, leaves, n)
<1> DEFINE bad == {k \in Nat : ~ \E f : IsLevel(f, leaves, k)}
<1>1. SUFFICES ASSUME bad # {} PROVE FALSE
  OBVIOUS
<1>2. PICK m \in bad : \A k \in bad : m <= k
  BY <1>1, Least
<1>3. CASE m = 0
  <2>1. IsLevel([k \in 0 .. 0 |-> leaves], leaves, 0)
    BY DEF IsLevel
  <2> QED
    BY <1>2, <1>3, <2>1
<1>4. CASE m # 0
  <2>1. m - 1 \in Nat /\ m \in Nat /\ m - 1 \notin bad
    BY <1>2, <1>4
  <2>2. PICK f : IsLevel(f, leaves, m - 1)
    BY <2>1
  <2> DEFINE g == [k \in 0 .. m |-> IF k = m THEN Paired(f[m - 1]) ELSE f[k]]
  <2>3. \A k \in 0 .. (m - 1) : f[k] = IF k = 0 THEN leaves ELSE Paired(f[k - 1])
    BY <2>2, Zenon DEF IsLevel
  <2>4. \A k \in 0 .. (m - 1) : g[k] = f[k]
    BY <2>1
  <2>5. \A k \in 0 .. m : g[k] = IF k = 0 THEN leaves ELSE Paired(g[k - 1])
    <3>1. TAKE k \in 0 .. m
    <3>2. CASE k = m
      BY <1>4, <2>1, <2>4, <3>2
    <3>3. CASE k # m
      <4>1. k \in 0 .. (m - 1) /\ (k = 0 \/ k - 1 \in 0 .. (m - 1))
        BY <2>1, <3>3
      <4> QED
        BY <2>3, <2>4, <4>1
    <3> QED
      BY <3>2, <3>3
  <2>6. g = [k \in 0 .. m |-> g[k]]
    OBVIOUS
  <2> HIDE DEF g
  <2>7. IsLevel(g, leaves, m)
    BY <2>5, <2>6, Zenon DEF IsLevel
  <2> QED
    BY <2>7
<1> QED
  BY <1>3, <1>4

----------------------------------------------------------------------------
(* An inclusion proof of a tree's root is of the leaf at its index.               *)
IsList(s) == \E S : s \in Seq(S)

LEMMA ListOf ==
    ASSUME NEW n \in Nat, NEW f, f = [i \in 1 .. n |-> f[i]]
    PROVE  IsList(f) /\ Len(f) = n /\ DOMAIN f = 1 .. n
<1> DEFINE S == {f[i] : i \in 1 .. n}
<1>1. f \in [1 .. n -> S]
  OBVIOUS
<1>2. f \in Seq(S)
  BY <1>1, SeqDef
<1>3. DOMAIN f = 1 .. n
  BY <1>1
<1>4. Len(f) = n
  BY <1>2, <1>3, LenProperties
<1> QED
  BY <1>2, <1>3, <1>4 DEF IsList

LEMMA PairedLevel ==
    ASSUME NEW below, NEW n \in Nat, Len(below) = 2 * n
    PROVE  /\ IsList(Paired(below)) /\ Len(Paired(below)) = n
           /\ \A i \in 1 .. n : Paired(below)[i] = Node(below[2 * i - 1], below[2 * i])
<1>1. Len(below) \div 2 = n
  OBVIOUS
<1>2. Paired(below) = [i \in 1 .. n |-> Node(below[2 * i - 1], below[2 * i])]
  BY <1>1 DEF Paired
<1>3. \A i \in 1 .. n : Paired(below)[i] = Node(below[2 * i - 1], below[2 * i])
  BY <1>2
<1>4. Paired(below) = [i \in 1 .. n |-> Paired(below)[i]]
  BY <1>2
<1>5. IsList(Paired(below)) /\ Len(Paired(below)) = n
  BY <1>4, ListOf
<1> QED
  BY <1>3, <1>5

LEMMA UpSteps ==
    ASSUME NEW n \in Nat, NEW first, NEW path, NEW f, IsUp(f, first, path, n)
    PROVE  /\ f[0] = first
           /\ \A k \in 1 .. n : f[k] = Above(f[k - 1], path[k])
<1>1. \A k \in 0 .. n : f[k] = IF k = 0 THEN first ELSE Above(f[k - 1], path[k])
  BY Zenon DEF IsUp
<1>2. \A k \in 1 .. n : k \in 0 .. n /\ k # 0
  OBVIOUS
<1>3. 0 \in 0 .. n
  OBVIOUS
<1> QED
  BY <1>1, <1>2, <1>3

LEMMA LevelSteps ==
    ASSUME NEW n \in Nat, NEW leaves, NEW f, IsLevel(f, leaves, n)
    PROVE  /\ f[0] = leaves
           /\ \A k \in 1 .. n : f[k] = Paired(f[k - 1])
<1>1. \A k \in 0 .. n : f[k] = IF k = 0 THEN leaves ELSE Paired(f[k - 1])
  BY Zenon DEF IsLevel
<1>2. \A k \in 1 .. n : k \in 0 .. n /\ k # 0
  OBVIOUS
<1>3. 0 \in 0 .. n
  OBVIOUS
<1> QED
  BY <1>1, <1>2, <1>3

\* Each level is half as long as the one below it.
LEMMA LevelLengths ==
    ASSUME NEW h \in Nat, NEW leaves, Len(leaves) = Pow2(h), NEW level, IsLevel(level, leaves, h)
    PROVE  \A k \in 0 .. h : Len(level[k]) = Pow2(h - k)
<1> DEFINE bad == {k \in Nat : k <= h /\ Len(level[k]) # Pow2(h - k)}
<1>1. SUFFICES ASSUME bad # {} PROVE FALSE
  OBVIOUS
<1>2. PICK k \in bad : \A j \in bad : k <= j
  BY <1>1, Least
<1>3. CASE k = 0
  <2>1. level[0] = leaves /\ h - 0 = h
    BY LevelSteps
  <2> QED
    BY <1>2, <1>3, <2>1
<1>4. CASE k # 0
  <2>1. k \in 1 .. h /\ k - 1 \in Nat /\ k - 1 < k /\ k - 1 <= h /\ h - k \in Nat /\ h - (k - 1) = (h - k) + 1
    BY <1>2, <1>4
  <2>2. Len(level[k - 1]) = Pow2(h - (k - 1))
    BY <1>2, <2>1
  <2>3. Pow2((h - k) + 1) = 2 * Pow2(h - k) /\ Pow2(h - k) \in Nat
    BY <2>1, Pow2Steps
  <2>4. Len(level[k - 1]) = 2 * Pow2(h - k)
    BY <2>1, <2>2, <2>3
  <2>5. Len(Paired(level[k - 1])) = Pow2(h - k)
    BY <2>3, <2>4, PairedLevel
  <2>6. level[k] = Paired(level[k - 1])
    BY <2>1, LevelSteps
  <2> QED
    BY <1>2, <2>5, <2>6
<1> QED
  BY <1>3, <1>4

\* The index of a node stays in its level.
LEMMA UpIndex ==
    ASSUME NEW h \in Nat, NEW leaf, NEW idx \in Nat, idx < Pow2(h), NEW first, first = [hash |-> leaf, index |-> idx],
           NEW path, NEW up, IsUp(up, first, path, h)
    PROVE  \A k \in 0 .. h : up[k].index \in Nat /\ up[k].index < Pow2(h - k)
<1> DEFINE bad == {k \in Nat : k <= h /\ ~(up[k].index \in Nat /\ up[k].index < Pow2(h - k))}
<1>1. SUFFICES ASSUME bad # {} PROVE FALSE
  OBVIOUS
<1>2. PICK k \in bad : \A j \in bad : k <= j
  BY <1>1, Least
<1>3. CASE k = 0
  <2>1. up[0] = first /\ h - 0 = h
    BY UpSteps
  <2> QED
    BY <1>2, <1>3, <2>1
<1>4. CASE k # 0
  <2>1. k \in 1 .. h /\ k - 1 \in Nat /\ k - 1 < k /\ k - 1 <= h /\ h - k \in Nat /\ h - (k - 1) = (h - k) + 1
    BY <1>2, <1>4
  <2>2. up[k - 1].index \in Nat /\ up[k - 1].index < Pow2(h - (k - 1))
    BY <1>2, <2>1
  <2>3. Pow2((h - k) + 1) = 2 * Pow2(h - k) /\ Pow2(h - k) \in Nat
    BY <2>1, Pow2Steps
  <2>4. up[k].index = up[k - 1].index \div 2
    <3>1. up[k] = Above(up[k - 1], path[k])
      BY <2>1, UpSteps
    <3> QED
      BY <3>1 DEF Above
  <2>5. up[k - 1].index < 2 * Pow2(h - k)
    BY <2>1, <2>2, <2>3
  <2>6. up[k].index \in Nat /\ up[k].index < Pow2(h - k)
    BY <2>2, <2>3, <2>4, <2>5
  <2> QED
    BY <1>2, <2>6
<1> QED
  BY <1>3, <1>4

\* From the root down, the hash on the way is that of the tree's node.
LEMMA PathLeadsToLeaf ==
    ASSUME NEW h \in Nat, NEW leaves, Len(leaves) = Pow2(h), NEW level, IsLevel(level, leaves, h),
           NEW leaf, NEW idx \in Nat, idx < Pow2(h), NEW first, first = [hash |-> leaf, index |-> idx],
           NEW path, NEW up, IsUp(up, first, path, h), up[h].hash = level[h][1]
    PROVE  leaf = leaves[idx + 1]
<1> DEFINE bad == {j \in Nat : j <= h /\ up[h - j].hash # level[h - j][up[h - j].index + 1]}
<1>0. /\ \A k \in 0 .. h : up[k].index \in Nat /\ up[k].index < Pow2(h - k)
      /\ \A k \in 0 .. h : Len(level[k]) = Pow2(h - k)
  BY UpIndex, LevelLengths
<1>1. ASSUME bad # {} PROVE FALSE
  <2>1. PICK j \in bad : \A i \in bad : j <= i
    BY <1>1, Least
  <2>2. CASE j = 0
    <3>1. h - 0 = h /\ h - h = 0 /\ h \in 0 .. h
      OBVIOUS
    <3>2. up[h].index \in Nat /\ up[h].index < Pow2(0)
      BY <1>0, <3>1
    <3>3. up[h].index = 0
      <4>1. Pow2(0) = 1
        BY Pow2Steps
      <4> QED
        BY ONLY <3>2, <4>1
    <3> QED
      BY <2>1, <2>2, <3>1, <3>3
  <2>3. CASE j # 0
    <3> DEFINE k == h - j
    <3>1. /\ k \in Nat /\ k \in 0 .. h /\ k + 1 \in 0 .. h /\ k + 1 \in 1 .. h /\ j - 1 \in Nat /\ j - 1 < j
          /\ j - 1 <= h /\ h - (j - 1) = k + 1 /\ (k + 1) - 1 = k /\ h - k = j /\ h - (k + 1) = j - 1 /\ (j - 1) + 1 = j
      BY <2>1, <2>3
    <3>2. up[k].hash # level[k][up[k].index + 1]
      BY <2>1
    <3> HIDE DEF k
    <3>3. up[k + 1].hash = level[k + 1][up[k + 1].index + 1]
      BY <2>1, <3>1
    <3>4. up[k + 1] = Above(up[k], path[k + 1])
      BY <3>1, UpSteps
    <3>5. level[k + 1] = Paired(level[k])
      BY <3>1, LevelSteps
    <3> DEFINE i == up[k].index
               m == up[k + 1].index
               half == Pow2(j - 1)
    <3>6. i \in Nat /\ m \in Nat /\ m < half
      BY <1>0, <3>1
    <3>7. m = i \div 2
      BY <3>4 DEF Above
    <3>8. Pow2(j) = 2 * half /\ half \in Nat
      BY <3>1, Pow2Steps
    <3>9. Len(level[k]) = 2 * half
      BY <1>0, <3>1, <3>8
    <3> HIDE DEF i, m, half
    <3>10. m + 1 \in 1 .. half
      BY <3>6, <3>8
    <3>11. Paired(level[k])[m + 1] = Node(level[k][2 * (m + 1) - 1], level[k][2 * (m + 1)])
      BY <3>8, <3>9, <3>10, PairedLevel
    <3>12. up[k + 1].hash = Node(level[k][2 * (m + 1) - 1], level[k][2 * (m + 1)])
      BY <3>3, <3>5, <3>11 DEF m
    <3>13. CASE i % 2 = 0
      <4>1. 2 * (m + 1) - 1 = i + 1
        BY <3>6, <3>7, <3>13
      <4>2. up[k + 1].hash = Node(up[k].hash, path[k + 1])
        BY <3>4, <3>13 DEF Above, i
      <4>3. up[k].hash = level[k][2 * (m + 1) - 1]
        BY <3>12, <4>2 DEF Node, Digest
      <4> QED
        BY <3>2, <4>1, <4>3 DEF i
    <3>14. CASE i % 2 # 0
      <4>1. 2 * (m + 1) = i + 1
        BY <3>6, <3>7, <3>14
      <4>2. up[k + 1].hash = Node(path[k + 1], up[k].hash)
        BY <3>4, <3>14 DEF Above, i
      <4>3. up[k].hash = level[k][2 * (m + 1)]
        BY <3>12, <4>2 DEF Node, Digest
      <4> QED
        BY <3>2, <4>1, <4>3 DEF i
    <3> QED
      BY <3>13, <3>14
  <2> QED
    BY <2>2, <2>3
<1>2. up[0].hash = level[0][up[0].index + 1]
  <2>1. h <= h /\ h - h = 0
    OBVIOUS
  <2>2. ~(h <= h /\ up[h - h].hash # level[h - h][up[h - h].index + 1])
    BY <1>1
  <2> QED
    BY <2>1, <2>2
<1>3. up[0] = first /\ level[0] = leaves
  BY UpSteps, LevelSteps
<1> QED
  BY <1>2, <1>3

LEMMA RootIsUp ==
    ASSUME NEW leaf, NEW idx, NEW path, Len(path) \in Nat, NEW first, first = [hash |-> leaf, index |-> idx]
    PROVE  \E up : IsUp(up, first, path, Len(path)) /\ RootFrom(leaf, idx, path) = up[Len(path)].hash
<1> DEFINE F == CHOOSE f : IsUp(f, first, path, Len(path))
<1>1. RootFrom(leaf, idx, path) = F[Len(path)].hash
  BY Zenon DEF RootFrom, IsUp
<1>2. IsUp(F, first, path, Len(path))
  BY UpExists
<1> QED
  BY <1>1, <1>2

LEMMA RootIsLevel ==
    ASSUME NEW leaves, NEW h \in Nat, h \in 0 .. Len(leaves), Len(leaves) = Pow2(h)
    PROVE  \E level : /\ IsLevel(level, leaves, h)
                      /\ Levels(leaves)[Height(Len(leaves))][1] = level[h][1]
<1>1. Height(Len(leaves)) = h
  <2> DEFINE n == Len(leaves)
             H == CHOOSE k \in 0 .. n : Pow2(k) = n
  <2>1. \E k \in 0 .. n : Pow2(k) = n
    OBVIOUS
  <2>2. H \in 0 .. n /\ Pow2(H) = n
    BY <2>1
  <2>3. H \in Nat
    BY <2>2
  <2>4. H = h
    BY <2>2, <2>3, Pow2Injective
  <2> QED
    BY <2>4 DEF Height
<1> DEFINE F == CHOOSE f : IsLevel(f, leaves, h)
<1>2. Levels(leaves) = F
  <2>1. Levels(leaves) = CHOOSE f : IsLevel(f, leaves, Height(Len(leaves)))
    BY Zenon DEF Levels, IsLevel
  <2> QED
    BY <1>1, <2>1
<1>3. IsLevel(F, leaves, h)
  BY LevelExists
<1> QED
  BY <1>1, <1>2, <1>3

\* What an inclusion proof shows to be under the root of a tree is its leaf there
\* (verifyCheckpointInclusion).
LEMMA RootIncludesLeaf ==
    ASSUME NEW leaves, NEW h \in Nat, h \in 0 .. Len(leaves), Len(leaves) = Pow2(h),
           NEW path, Len(path) \in Nat, Len(leaves) = Pow2(Len(path)),
           NEW idx \in Nat, idx < Len(leaves), NEW leaf,
           RootFrom(leaf, idx, path) = Levels(leaves)[Height(Len(leaves))][1]
    PROVE  leaf = leaves[idx + 1]
<1> DEFINE first == [hash |-> leaf, index |-> idx]
<1>1. Len(path) = h
  BY Pow2Injective
<1>2. PICK up : IsUp(up, first, path, h) /\ RootFrom(leaf, idx, path) = up[h].hash
  BY <1>1, RootIsUp
<1>3. PICK level : IsLevel(level, leaves, h) /\ Levels(leaves)[Height(Len(leaves))][1] = level[h][1]
  BY RootIsLevel
<1>4. first = [hash |-> leaf, index |-> idx]
  OBVIOUS
<1> HIDE DEF first
<1>5. up[h].hash = level[h][1]
  BY <1>2, <1>3
<1> QED
  BY ONLY <1>2, <1>3, <1>4, <1>5, h \in Nat, Len(leaves) = Pow2(h), idx \in Nat, idx < Len(leaves), PathLeadsToLeaf

----------------------------------------------------------------------------
(* The raw evidence the verifier looks at is what the caller supplied.             *)
LEMMA TakeStep ==
    ASSUME NEW taken, "bytes" \in DOMAIN taken, NEW item, NEW next, next = Take(taken, item)
    PROVE  /\ "bytes" \in DOMAIN next
           /\ \/ next.bytes = taken.bytes
              \/ next.bytes = With(taken.bytes, item.referenceId, item.bytes)
<1> DEFINE total == taken.total + Len(item.bytes)
           known == Len(item.bytes) > MaxRawBytes \/ item.referenceId \in DOMAIN taken.bytes
           refused == With(taken, "ok", FALSE)
           full == With(With(taken, "ok", FALSE), "full", TRUE)
           more == With(With(taken, "total", total), "bytes", With(taken.bytes, item.referenceId, item.bytes))
<1>1. "bytes" \in DOMAIN refused /\ refused.bytes = taken.bytes
  BY DEF With
<1>2. "bytes" \in DOMAIN full /\ full.bytes = taken.bytes
  BY DEF With
<1>3. "bytes" \in DOMAIN more /\ more.bytes = With(taken.bytes, item.referenceId, item.bytes)
  BY DEF With
<1>4. next \in {taken, refused, full, more}
  BY DEF Take
<1> HIDE DEF refused, full, more
<1> QED
  BY <1>1, <1>2, <1>3, <1>4

IsTaken(f, values, n) == f = [k \in 0 .. n |-> IF k = 0 THEN NothingTaken ELSE Take(f[k - 1], values[k])]

LEMMA TakenExists ==
    ASSUME NEW values, NEW n \in Nat
    PROVE  \E f : IsTaken(f, values, n)
<1> DEFINE bad == {k \in Nat : ~ \E f : IsTaken(f, values, k)}
<1>1. SUFFICES ASSUME bad # {} PROVE FALSE
  OBVIOUS
<1>2. PICK m \in bad : \A k \in bad : m <= k
  BY <1>1, Least
<1>3. CASE m = 0
  <2>1. IsTaken([k \in 0 .. 0 |-> NothingTaken], values, 0)
    BY DEF IsTaken
  <2> QED
    BY <1>2, <1>3, <2>1
<1>4. CASE m # 0
  <2>1. m - 1 \in Nat /\ m \in Nat /\ m - 1 \notin bad
    BY <1>2, <1>4
  <2>2. PICK f : IsTaken(f, values, m - 1)
    BY <2>1
  <2> DEFINE g == [k \in 0 .. m |-> IF k = m THEN Take(f[m - 1], values[m]) ELSE f[k]]
  <2>3. \A k \in 0 .. (m - 1) : f[k] = IF k = 0 THEN NothingTaken ELSE Take(f[k - 1], values[k])
    BY <2>2, Zenon DEF IsTaken
  <2>4. \A k \in 0 .. (m - 1) : g[k] = f[k]
    BY <2>1
  <2>5. \A k \in 0 .. m : g[k] = IF k = 0 THEN NothingTaken ELSE Take(g[k - 1], values[k])
    <3>1. TAKE k \in 0 .. m
    <3>2. CASE k = m
      BY <1>4, <2>1, <2>4, <3>2
    <3>3. CASE k # m
      <4>1. k \in 0 .. (m - 1) /\ (k = 0 \/ k - 1 \in 0 .. (m - 1))
        BY <2>1, <3>3
      <4> QED
        BY <2>3, <2>4, <4>1
    <3> QED
      BY <3>2, <3>3
  <2>6. g = [k \in 0 .. m |-> g[k]]
    OBVIOUS
  <2> HIDE DEF g
  <2>7. IsTaken(g, values, m)
    BY <2>5, <2>6, Zenon DEF IsTaken
  <2> QED
    BY <2>7
<1> QED
  BY <1>3, <1>4

LEMMA TakenSteps ==
    ASSUME NEW n \in Nat, NEW values, NEW f, IsTaken(f, values, n)
    PROVE  /\ f[0] = NothingTaken
           /\ \A k \in 1 .. n : f[k] = Take(f[k - 1], values[k])
<1>1. \A k \in 0 .. n : f[k] = IF k = 0 THEN NothingTaken ELSE Take(f[k - 1], values[k])
  BY Zenon DEF IsTaken
<1>2. \A k \in 1 .. n : k \in 0 .. n /\ k # 0
  OBVIOUS
<1>3. 0 \in 0 .. n
  OBVIOUS
<1> QED
  BY <1>1, <1>2, <1>3

From(bytes, values, n) ==
    \A id \in DOMAIN bytes : \E i \in 1 .. n : values[i].referenceId = id /\ values[i].bytes = bytes[id]

LEMMA TakenFrom ==
    ASSUME NEW n \in Nat, NEW values, NEW f, IsTaken(f, values, n)
    PROVE  From(f[n].bytes, values, n)
<1> DEFINE bad == {k \in Nat : k <= n /\ ~("bytes" \in DOMAIN f[k] /\ From(f[k].bytes, values, k))}
<1>1. ASSUME bad # {} PROVE FALSE
  <2>1. PICK k \in bad : \A j \in bad : k <= j
    BY <1>1, Least
  <2>2. CASE k = 0
    <3>1. f[0] = NothingTaken
      BY TakenSteps
    <3>2. "bytes" \in DOMAIN NothingTaken /\ NothingTaken.bytes = <<>>
      BY DEF NothingTaken
    <3>3. From(<<>>, values, 0)
      BY DEF From
    <3> QED
      BY <2>1, <2>2, <3>1, <3>2, <3>3
  <2>3. CASE k # 0
    <3>1. k \in 1 .. n /\ k - 1 \in Nat /\ k - 1 < k /\ k - 1 <= n
      BY <2>1, <2>3
    <3>2. "bytes" \in DOMAIN f[k - 1] /\ From(f[k - 1].bytes, values, k - 1)
      BY <2>1, <3>1
    <3>3. f[k] = Take(f[k - 1], values[k])
      BY <3>1, TakenSteps
    <3>4. /\ "bytes" \in DOMAIN f[k]
          /\ \/ f[k].bytes = f[k - 1].bytes
             \/ f[k].bytes = With(f[k - 1].bytes, values[k].referenceId, values[k].bytes)
      <4> DEFINE was == f[k - 1]
                 is == f[k]
                 item == values[k]
      <4>1. "bytes" \in DOMAIN was /\ is = Take(was, item)
        BY <3>2, <3>3
      <4> HIDE DEF was, is, item
      <4>2. "bytes" \in DOMAIN is /\ (is.bytes = was.bytes \/ is.bytes = With(was.bytes, item.referenceId, item.bytes))
        BY ONLY <4>1, TakeStep
      <4> QED
        BY <4>2 DEF was, is, item
    <3>5. From(f[k - 1].bytes, values, k)
      BY <3>1, <3>2 DEF From
    <3>6. From(With(f[k - 1].bytes, values[k].referenceId, values[k].bytes), values, k)
      <4> DEFINE old == f[k - 1].bytes
                 new == With(old, values[k].referenceId, values[k].bytes)
      <4> SUFFICES ASSUME NEW id \in DOMAIN new
                   PROVE  \E i \in 1 .. k : values[i].referenceId = id /\ values[i].bytes = new[id]
        BY DEF From
      <4>1. CASE id = values[k].referenceId
        <5>1. new[id] = values[k].bytes /\ k \in 1 .. k
          BY <3>1, <4>1 DEF With
        <5> QED
          BY <4>1, <5>1
      <4>2. CASE id # values[k].referenceId
        <5>1. id \in DOMAIN old /\ new[id] = old[id]
          BY <4>2 DEF With
        <5> QED
          BY <3>5, <5>1 DEF From
      <4> QED
        BY <4>1, <4>2
    <3> QED
      BY <2>1, <3>4, <3>5, <3>6
  <2> QED
    BY <2>2, <2>3
<1> QED
  BY <1>1

\* Of each reference it maps, the bytes are those of an item of the caller's
\* (rawEvidenceMap).
LEMMA SuppliedByCaller ==
    ASSUME NEW values, isArray(values), NEW id \in DOMAIN rawEvidenceMap(values).bytes
    PROVE  \E item \in Range(values) : item.referenceId = id /\ item.bytes = rawEvidenceMap(values).bytes[id]
<1> DEFINE n == Len(values)
           F == CHOOSE f : IsTaken(f, values, n)
<1>1. n \in Nat /\ DOMAIN values = 1 .. n
  BY DEF isArray
<1>2. rawEvidenceMap(values) = IF n > MaxRawReferences THEN [bytes |-> <<>>, ok |-> FALSE] ELSE F[n]
  BY Zenon DEF rawEvidenceMap, IsTaken
<1>3. IsTaken(F, values, n)
  BY <1>1, TakenExists
<1>4. From(F[n].bytes, values, n)
  BY <1>1, <1>3, TakenFrom
<1>5. From(<<>>, values, n)
  BY DEF From
<1> HIDE DEF F, n
<1>6. From(rawEvidenceMap(values).bytes, values, n)
  <2>1. CASE n > MaxRawReferences
    BY <1>2, <1>5, <2>1
  <2>2. CASE ~(n > MaxRawReferences)
    BY <1>2, <1>4, <2>2
  <2> QED
    BY <2>1, <2>2
<1>7. PICK i \in 1 .. n : values[i].referenceId = id /\ values[i].bytes = rawEvidenceMap(values).bytes[id]
  BY <1>6 DEF From
<1>8. values[i] \in Range(values)
  BY <1>1 DEF Range
<1> QED
  BY <1>7, <1>8

----------------------------------------------------------------------------
(* The inductive invariant: what the sources issued is sealed, is of a tree of their *)
(* events and is signed by their keys; the pack that is held bears no other        *)
(* signature of theirs; the verdict is of that pack.                             *)
Event == [id : EventIds, bytes : {ContentOf(history, id) : history \in Histories, id \in EventIds}, at : Nat]

CheckpointMaterial == {"checkpointId", "sourceId", "epoch", "issuedAt", "windowStart", "windowEnd",
                       "firstSequence", "lastSequence", "eventCount", "merkleRoot", "declaredGaps"}
CheckpointKeys == CheckpointMaterial \cup {"checkpointDigest", "proofs"}

Issued(i) ==
    LET c == i.checkpoint
        n == Len(i.events)
    IN  /\ i.events \in Seq(Event)
        /\ c.sourceId \in Sources /\ c.issuedAt \in Nat /\ c.firstSequence \in Nat /\ c.eventCount = n
        /\ \E h \in 0 .. n : Pow2(h) = n
        /\ c.merkleRoot = Levels(Leaves(c.sourceId, i.events, c.firstSequence))[Height(n)][1]
        /\ exactKeys(c, CheckpointKeys) /\ DigestHolds("checkpoint", "checkpointDigest", c, {"proofs"})
        /\ \A k \in DOMAIN c.proofs : c.proofs[k].signature = <<KeyOf[c.sourceId], c.checkpointDigest>>

IssuedInv == IsFiniteSet(issued) /\ \A i \in issued : Issued(i)

AgreedIn(pack) ==
    \E terms \in Terms : pack.coverageContract = terms.contract /\ pack.externalTrustSnapshot = terms.snapshot

Anchored(anchors) ==
    /\ anchors.asOf \in Nat /\ isArray(anchors.rawEvidence)
    /\ anchors.coverageContractDigest \in {None, built.coverageContract.contractDigest}
    /\ anchors.externalTrustSnapshotDigest \in {None} \cup SnapshotDigests(built)

VerdictInv ==
    verdict # None =>
        /\ Anchored(verdict.anchors)
        /\ verdict.report = verifyMandateBoundCasePack(held, verdict.anchors)
        /\ verdict.diff = diffMandateBoundCasePacks(built, verdict.anchors, held, verdict.anchors)

IInv ==
    /\ now \in Nat /\ recorded \in [Sources \X Histories -> Seq(Event)]
    /\ IssuedInv
    /\ built # None => Sealed(built) /\ AgreedIn(built)
    /\ held # None => Unforged(held)
    /\ built = None => held = None
    /\ held = None => verdict = None
    /\ VerdictInv

\* What is sealed has its keys, its digest and its material.
LEMMA SealedCheckpoint ==
    ASSUME NEW material, exactKeys(material, CheckpointMaterial), NEW first, NEW proofs,
           NEW c, c = With(sealSourceCheckpoint(material, first), "proofs", proofs)
    PROVE  /\ exactKeys(c, CheckpointKeys) /\ DigestHolds("checkpoint", "checkpointDigest", c, {"proofs"})
           /\ \A name \in CheckpointMaterial : c[name] = material[name]
           /\ c.proofs = proofs
           /\ c.checkpointDigest = sealSourceCheckpoint(material, first).checkpointDigest
<1>1. DOMAIN material = CheckpointMaterial /\ material = [name \in CheckpointMaterial |-> material[name]]
  BY DEF exactKeys, isPlainObject
<1>2. "proofs" \notin CheckpointMaterial /\ "checkpointDigest" \notin CheckpointMaterial
  BY DEF CheckpointMaterial
<1> DEFINE sealed == Seal("checkpoint", "checkpointDigest", material)
           unsigned == sealSourceCheckpoint(material, first)
<1>3. sealed = [name \in CheckpointMaterial \cup {"checkpointDigest"} |->
                   IF name = "checkpointDigest" THEN Digest("checkpoint", material) ELSE material[name]]
  BY <1>1 DEF Seal, With
<1>4. unsigned = [name \in CheckpointKeys |->
                     IF name = "proofs" THEN first ELSE IF name = "checkpointDigest" THEN Digest("checkpoint", material)
                     ELSE material[name]]
  BY <1>2, <1>3 DEF sealSourceCheckpoint, With, CheckpointKeys
<1>5. c = [name \in CheckpointKeys |->
              IF name = "proofs" THEN proofs ELSE IF name = "checkpointDigest" THEN Digest("checkpoint", material)
              ELSE material[name]]
  BY <1>2, <1>4 DEF With, CheckpointKeys
<1>6. Without(c, {"proofs", "checkpointDigest"}) = material
  <2>1. CheckpointKeys \ {"proofs", "checkpointDigest"} = CheckpointMaterial
    BY <1>2 DEF CheckpointKeys
  <2>2. DOMAIN c = CheckpointKeys
    BY <1>5
  <2>3. \A name \in CheckpointMaterial : c[name] = material[name]
    BY <1>2, <1>5 DEF CheckpointKeys
  <2> QED
    BY <1>1, <2>1, <2>2, <2>3 DEF Without
<1>7. c.checkpointDigest = Digest("checkpoint", material) /\ c.proofs = proofs
      /\ unsigned.checkpointDigest = Digest("checkpoint", material)
  BY <1>4, <1>5 DEF CheckpointKeys
<1>8. exactKeys(c, CheckpointKeys)
  BY <1>5 DEF exactKeys, isPlainObject
<1>9. \A name \in CheckpointMaterial : c[name] = material[name]
  BY <1>2, <1>5 DEF CheckpointKeys
<1>10. {"proofs"} \cup {"checkpointDigest"} = {"proofs", "checkpointDigest"}
  OBVIOUS
<1> QED
  BY <1>6, <1>7, <1>8, <1>9, <1>10 DEF DigestHolds

LEMMA SealedPack ==
    ASSUME NEW material, exactKeys(material, PackKeys \ {"casePackDigest"}),
           NEW pack, pack = createMandateBoundCasePack(material)
    PROVE  Sealed(pack) /\ \A name \in PackKeys \ {"casePackDigest"} : pack[name] = material[name]
<1> DEFINE names == PackKeys \ {"casePackDigest"}
<1>1. DOMAIN material = names /\ material = [name \in names |-> material[name]]
  BY DEF exactKeys, isPlainObject
<1>2. names \cup {"casePackDigest"} = PackKeys
  BY DEF PackKeys
<1>3. pack = [name \in PackKeys |-> IF name = "casePackDigest" THEN Digest("casepack", material) ELSE material[name]]
  BY <1>1, <1>2 DEF createMandateBoundCasePack, Seal, With
<1>4. \A name \in names : pack[name] = material[name]
  BY <1>3
<1>5. Without(pack, {} \cup {"casePackDigest"}) = material
  BY <1>1, <1>3, <1>4 DEF Without
<1>6. pack.casePackDigest = Digest("casepack", material)
  BY <1>2, <1>3
<1>7. exactKeys(pack, PackKeys)
  BY <1>3 DEF exactKeys, isPlainObject
<1> QED
  BY <1>4, <1>5, <1>6, <1>7 DEF Sealed, DigestHolds

----------------------------------------------------------------------------
(* What a valid report relies on was agreed on, recorded and signed.              *)
\* The leaf an inclusion proof is about.
LEMMA IncludedLeaf ==
    ASSUME NEW envelope, NEW c, verifyCheckpointInclusion(envelope, c) = "satisfied",
           envelope.checkpointInclusion # None => validateCheckpointInclusion(envelope.checkpointInclusion),
           NEW events, events \in Seq(Event), c.eventCount = Len(events), c.firstSequence \in Nat,
           \E h \in 0 .. Len(events) : Pow2(h) = Len(events),
           c.merkleRoot = Levels(Leaves(c.sourceId, events, c.firstSequence))[Height(Len(events))][1]
    PROVE  /\ c.sourceId = envelope.sourceId
           /\ \E k \in DOMAIN events :
                 /\ envelope.checkpointInclusion.sequence = c.firstSequence + k - 1
                 /\ events[k].id = envelope.envelopeId
                 /\ DigestOfBytes(events[k].bytes) = envelope.rawEvidence.digest
<1> DEFINE inclusion == envelope.checkpointInclusion
           path == inclusion.auditPath
           idx == inclusion.leafIndex
           n == Len(events)
           leaf == computeSourceEvidenceLeaf(envelope, inclusion.sequence)
           leaves == Leaves(c.sourceId, events, c.firstSequence)
<1>1. /\ inclusion # None /\ c.sourceId = envelope.sourceId
      /\ inclusion.treeSize = c.eventCount /\ idx < inclusion.treeSize
      /\ inclusion.sequence = c.firstSequence + idx
      /\ inclusion.treeSize = Pow2(Len(path))
      /\ RootFrom(leaf, idx, path) = c.merkleRoot
  BY DEF verifyCheckpointInclusion
<1>2. idx \in Nat /\ Len(path) \in Nat
  <2>1. validateCheckpointInclusion(inclusion)
    BY <1>1
  <2>2. idx \in 0 .. MaxTreeSize - 1 /\ isArray(path)
    BY <2>1 DEF validateCheckpointInclusion
  <2> QED
    BY <2>2, CasePackLimits DEF isArray
<1>3. n \in Nat /\ DOMAIN events = 1 .. n /\ idx < n /\ n = Pow2(Len(path))
  <2>1. n \in Nat /\ DOMAIN events = 1 .. n
    BY LenProperties
  <2>2. c.eventCount = n
    OBVIOUS
  <2> HIDE DEF n, idx, path
  <2>3. idx < n /\ n = Pow2(Len(path))
    BY <1>1, <2>2
  <2> QED
    BY <2>1, <2>3
<1>4. Len(leaves) = n /\ \A i \in 1 .. n : leaves[i] = Leaf(c.sourceId, events[i], c.firstSequence + i - 1)
  <2>1. leaves = [i \in 1 .. n |-> Leaf(c.sourceId, events[i], c.firstSequence + i - 1)]
    BY DEF Leaves
  <2>2. \A i \in 1 .. n : leaves[i] = Leaf(c.sourceId, events[i], c.firstSequence + i - 1)
    BY <2>1
  <2>3. leaves = [i \in 1 .. n |-> leaves[i]]
    BY <2>1
  <2> HIDE DEF leaves
  <2>4. Len(leaves) = n
    BY <1>3, <2>3, ListOf
  <2> QED
    BY <2>2, <2>4
<1>5. PICK h \in 0 .. n : Pow2(h) = n
  OBVIOUS
<1>6. RootFrom(leaf, idx, path) = Levels(leaves)[Height(Len(leaves))][1]
  BY <1>1, <1>4
<1>7. h \in Nat
  BY <1>3, <1>5
<1> HIDE DEF leaf, leaves, idx, path, n
<1>8. leaf = leaves[idx + 1]
  BY ONLY <1>2, <1>3, <1>4, <1>5, <1>6, <1>7, RootIncludesLeaf
<1> DEFINE k == idx + 1
<1>9. k \in 1 .. n
  BY <1>2, <1>3
<1>10. computeSourceEvidenceLeaf(envelope, inclusion.sequence) = Leaf(c.sourceId, events[k], c.firstSequence + k - 1)
  BY <1>4, <1>8, <1>9 DEF leaf
<1>11. events[k].id = envelope.envelopeId /\ DigestOfBytes(events[k].bytes) = envelope.rawEvidence.digest
  BY <1>10 DEF computeSourceEvidenceLeaf, Leaf, Digest
<1>12. inclusion.sequence = c.firstSequence + k - 1
  BY <1>1, <1>2 DEF idx
<1> QED
  BY <1>1, <1>3, <1>9, <1>11, <1>12

CommittedBy(envelope, requirement) ==
    \E i \in issued :
        /\ i.checkpoint.sourceId = envelope.sourceId /\ i.checkpoint.declaredGaps = <<>>
        /\ i.checkpoint.issuedAt <= verdict.anchors.asOf
        /\ verdict.anchors.asOf <= i.checkpoint.issuedAt + requirement.maxCheckpointAgeSeconds
        /\ \E k \in DOMAIN i.events, s \in Range(verdict.anchors.rawEvidence) :
              /\ envelope.checkpointInclusion.sequence = i.checkpoint.firstSequence + k - 1
              /\ i.events[k].id = envelope.envelopeId
              /\ s.referenceId = envelope.rawEvidence.reference.referenceId
              /\ s.bytes = i.events[k].bytes

\* What was pinned is what was agreed on.
LEMMA PinnedContract ==
    ASSUME IInv, verdict # None, verdict.report.valid = TRUE, NEW requirement \in Requirements(held)
    PROVE  requirement.sourceId \in Sources
<1> DEFINE anchors == verdict.anchors
           c == held.coverageContract
           d == built.coverageContract
<1>1. held # None /\ built # None /\ Anchored(anchors) /\ verifyMandateBoundCasePack(held, anchors).valid = TRUE
  BY DEF IInv, VerdictInv
<1>2. validateCasePackShape(held) /\ CoverageTrust(held, anchors) = "satisfied"
  BY <1>1, ValidIsCovered
<1>3. anchors.coverageContractDigest # None /\ c.contractDigest = anchors.coverageContractDigest
  BY <1>2 DEF CoverageTrust
<1>4. c.contractDigest = d.contractDigest
  BY <1>1, <1>3 DEF Anchored
<1>5. PICK terms \in Terms : d = terms.contract
  BY <1>1 DEF IInv, AgreedIn
<1>6. validateCoverageContract(c) /\ validateCoverageContract(d)
  BY <1>2, <1>5, CasePackTerms DEF validateCasePackShape
<1>7. c = d
  BY <1>4, <1>6, SameContract
<1>8. \A i \in DOMAIN d.requirements : d.requirements[i].sourceId \in Sources
  BY <1>5, CasePackTerms
<1> QED
  BY <1>7, <1>8 DEF Requirements

LEMMA PinnedSnapshot ==
    ASSUME IInv, verdict # None, verdict.report.valid = TRUE,
           ExternalTrust(held, verdict.anchors) = "satisfied", held.externalTrustSnapshot # None,
           NEW k \in DOMAIN held.externalTrustSnapshot.keys,
           held.externalTrustSnapshot.keys[k].sourceId \in Sources
    PROVE  held.externalTrustSnapshot.keys[k].publicJwk = KeyOf[held.externalTrustSnapshot.keys[k].sourceId]
<1> DEFINE anchors == verdict.anchors
           s == held.externalTrustSnapshot
           t == built.externalTrustSnapshot
<1>1. held # None /\ built # None /\ Anchored(anchors) /\ verifyMandateBoundCasePack(held, anchors).valid = TRUE
  BY DEF IInv, VerdictInv
<1>2. validateCasePackShape(held)
  BY <1>1, ValidIsSound
<1>3. anchors.externalTrustSnapshotDigest # None /\ s.snapshotDigest = anchors.externalTrustSnapshotDigest
  BY DEF ExternalTrust
<1>4. t # None /\ s.snapshotDigest = t.snapshotDigest
  BY <1>1, <1>3 DEF Anchored, SnapshotDigests
<1>5. PICK terms \in Terms : t = terms.snapshot
  BY <1>1 DEF IInv, AgreedIn
<1>6. validateExternalTrust(s) /\ validateExternalTrust(t)
  BY <1>2, <1>4, <1>5, CasePackTerms DEF validateCasePackShape
<1>7. s = t
  BY <1>4, <1>6, SameSnapshot
<1>8. \A i \in DOMAIN t.keys : t.keys[i].sourceId \in Sources => t.keys[i].publicJwk = KeyOf[t.keys[i].sourceId]
  BY <1>4, <1>5, CasePackTerms
<1> QED
  BY <1>7, <1>8

\* The source signed the checkpoint the envelope relies on: it issued that one.
LEMMA SignedIsIssued ==
    ASSUME IInv, verdict # None, verdict.report.valid = TRUE, NEW c \in Checkpoints(held), c.sourceId \in Sources,
           ExternalTrust(held, verdict.anchors) = "satisfied", held.externalTrustSnapshot # None,
           \E j \in DOMAIN c.proofs : ProvedBy(c, c.proofs[j], held.externalTrustSnapshot)
    PROVE  \E i \in issued : \A name \in CheckpointMaterial : c[name] = i.checkpoint[name]
<1>1. PICK j \in DOMAIN c.proofs : ProvedBy(c, c.proofs[j], held.externalTrustSnapshot)
  OBVIOUS
<1> DEFINE keys == held.externalTrustSnapshot.keys
           signature == c.proofs[j].signature
<1>2. PICK k \in DOMAIN keys : keys[k].sourceId = c.sourceId /\ signature = <<keys[k].publicJwk, c.checkpointDigest>>
  BY <1>1 DEF ProvedBy
<1>3. keys[k].publicJwk = KeyOf[c.sourceId]
  BY <1>2, PinnedSnapshot
<1>4. signature = <<KeyOf[c.sourceId], c.checkpointDigest>>
  BY <1>2, <1>3
<1>5. Unforged(held)
  BY DEF IInv
<1>6. signature \in Signed
  <2>1. signature[1] = KeyOf[c.sourceId]
    BY <1>4
  <2> QED
    BY <1>5, <2>1 DEF Unforged
<1>7. PICK i \in issued : signature = <<KeyOf[i.checkpoint.sourceId], i.checkpoint.checkpointDigest>>
  BY <1>6 DEF Signed
<1> DEFINE d == i.checkpoint
<1>8. c.checkpointDigest = d.checkpointDigest
  BY <1>4, <1>7
<1>9. exactKeys(d, CheckpointKeys) /\ DigestHolds("checkpoint", "checkpointDigest", d, {"proofs"})
  BY DEF IInv, IssuedInv, Issued
<1>10. exactKeys(c, CheckpointKeys) /\ DigestHolds("checkpoint", "checkpointDigest", c, {"proofs"})
  <2>1. validateCasePackShape(held)
    <3>1. verifyMandateBoundCasePack(held, verdict.anchors).valid = TRUE
      BY DEF IInv, VerdictInv
    <3> QED
      BY <3>1, ValidIsSound
  <2>2. validateCheckpoint(c)
    BY <2>1 DEF validateCasePackShape, Checkpoints
  <2>3. CheckpointKeys = {"checkpointId", "sourceId", "epoch", "issuedAt", "windowStart", "windowEnd",
                          "firstSequence", "lastSequence", "eventCount", "merkleRoot", "declaredGaps",
                          "checkpointDigest", "proofs"}
    BY DEF CheckpointKeys, CheckpointMaterial
  <2> QED
    BY <2>2, <2>3 DEF validateCheckpoint
<1> HIDE DEF d
<1>11. Without(c, {"proofs"}) = Without(d, {"proofs"})
  <2>1. "checkpointDigest" \in CheckpointKeys /\ "checkpointDigest" \notin {"proofs"}
    BY DEF CheckpointKeys
  <2>2. c["checkpointDigest"] = d["checkpointDigest"]
    BY <1>8
  <2> QED
    BY ONLY <1>9, <1>10, <2>1, <2>2, SameMaterial
<1>12. ASSUME NEW name \in CheckpointMaterial PROVE c[name] = d[name]
  <2>1. name \in CheckpointKeys \ {"proofs"}
    BY DEF CheckpointKeys, CheckpointMaterial
  <2>2. DOMAIN c = CheckpointKeys /\ DOMAIN d = CheckpointKeys
    BY <1>9, <1>10 DEF exactKeys
  <2>3. Without(c, {"proofs"})[name] = c[name] /\ Without(d, {"proofs"})[name] = d[name]
    BY <2>1, <2>2 DEF Without
  <2> QED
    BY <1>11, <2>3
<1> QED
  BY <1>12 DEF d

LEMMA EnvelopeIsCommitted ==
    ASSUME IInv, verdict # None, verdict.report.valid = TRUE, NEW requirement \in Requirements(held),
           requirement.checkpointRequirement = "required", NEW envelope \in Matched(held, requirement)
    PROVE  CommittedBy(envelope, requirement)
<1> DEFINE anchors == verdict.anchors
           inclusion == envelope.checkpointInclusion
           supplied == rawEvidenceMap(anchors.rawEvidence).bytes
           id == envelope.rawEvidence.reference.referenceId
<1>1. Anchored(anchors) /\ verifyMandateBoundCasePack(held, anchors).valid = TRUE
  BY DEF IInv, VerdictInv
<1>2. validateCasePackShape(held) /\ envelope \in Envelopes(held) /\ envelope.sourceId = requirement.sourceId
  BY <1>1, ValidIsCovered DEF Matched, Matches
<1>3. RawStatus(envelope, supplied) = "satisfied" /\ \E c : Proved(envelope, requirement, held, anchors, c)
  BY <1>1, WayToSignature
<1>4. PICK c : Proved(envelope, requirement, held, anchors, c)
  BY <1>3
<1>5. /\ c \in Checkpoints(held) /\ c.declaredGaps = <<>> /\ ~(c.issuedAt > anchors.asOf)
      /\ ~(anchors.asOf > c.issuedAt + requirement.maxCheckpointAgeSeconds)
      /\ verifyCheckpointInclusion(envelope, c) = "satisfied"
      /\ \E j \in DOMAIN c.proofs : ProvedBy(c, c.proofs[j], held.externalTrustSnapshot)
      /\ ExternalTrust(held, anchors) = "satisfied" /\ held.externalTrustSnapshot # None
  BY <1>4 DEF Proved, Named
<1>6. c.sourceId = envelope.sourceId
  BY <1>5 DEF verifyCheckpointInclusion
<1>7. c.sourceId \in Sources
  BY <1>2, <1>6, PinnedContract
<1>8. PICK i \in issued : \A name \in CheckpointMaterial : c[name] = i.checkpoint[name]
  BY <1>5, <1>7, SignedIsIssued
<1> DEFINE d == i.checkpoint
<1>9. /\ c.sourceId = d.sourceId /\ c.issuedAt = d.issuedAt /\ c.firstSequence = d.firstSequence
      /\ c.eventCount = d.eventCount /\ c.merkleRoot = d.merkleRoot /\ c.declaredGaps = d.declaredGaps
  BY <1>8 DEF CheckpointMaterial
<1>10. Issued(i)
  BY DEF IInv, IssuedInv
<1>11. /\ i.events \in Seq(Event) /\ c.eventCount = Len(i.events) /\ c.firstSequence \in Nat /\ c.issuedAt \in Nat
       /\ \E h \in 0 .. Len(i.events) : Pow2(h) = Len(i.events)
       /\ c.merkleRoot = Levels(Leaves(c.sourceId, i.events, c.firstSequence))[Height(Len(i.events))][1]
  BY <1>9, <1>10 DEF Issued
<1>12. inclusion # None => validateCheckpointInclusion(inclusion)
  BY <1>2 DEF validateCasePackShape, validateProtocolEnvelope, Envelopes
<1>13. PICK k \in DOMAIN i.events : /\ inclusion.sequence = c.firstSequence + k - 1
                                    /\ i.events[k].id = envelope.envelopeId
                                    /\ DigestOfBytes(i.events[k].bytes) = envelope.rawEvidence.digest
  BY <1>5, <1>11, <1>12, IncludedLeaf
<1>14. id \in DOMAIN supplied /\ DigestOfBytes(supplied[id]) = envelope.rawEvidence.digest
  BY <1>3 DEF RawStatus
<1>15. supplied[id] = i.events[k].bytes
  BY <1>13, <1>14 DEF DigestOfBytes, Digest
<1>16. PICK item \in Range(anchors.rawEvidence) : item.referenceId = id /\ item.bytes = supplied[id]
  BY <1>1, <1>14, SuppliedByCaller DEF Anchored
<1>17. c.issuedAt <= anchors.asOf /\ anchors.asOf <= c.issuedAt + requirement.maxCheckpointAgeSeconds
  <2>1. requirement.maxCheckpointAgeSeconds \in Nat
    BY <1>2 DEF validateCasePackShape, validateCoverageContract, validateCoverageRequirement, Requirements
  <2>2. anchors.asOf \in Nat
    BY <1>1 DEF Anchored
  <2> QED
    BY <1>5, <1>11, <2>1, <2>2
<1> QED
  BY <1>5, <1>6, <1>9, <1>13, <1>15, <1>16, <1>17 DEF CommittedBy

\* A requirement that is satisfied has as many envelopes as it asks for.
LEMMA EnoughEnvelopes ==
    ASSUME IInv, verdict # None, verdict.report.valid = TRUE, NEW requirement \in Requirements(held)
    PROVE  Cardinality(Matched(held, requirement)) >= requirement.minEnvelopes
<1> DEFINE anchors == verdict.anchors
           list == held.protocolEvidence
<1>1. verifyMandateBoundCasePack(held, anchors).valid = TRUE
  BY DEF IInv, VerdictInv
<1>2. /\ validateCasePackShape(held) /\ CoverageTrust(held, anchors) = "satisfied"
      /\ RequirementStatus(requirement, held, anchors, rawEvidenceMap(anchors.rawEvidence).bytes) = "satisfied"
  BY <1>1, ValidIsCovered
<1>3. ~(Cardinality(Matched(held, requirement)) < requirement.minEnvelopes)
  BY <1>2 DEF RequirementStatus
<1>4. requirement.minEnvelopes \in Nat
  BY <1>2 DEF validateCasePackShape, validateCoverageContract, validateCoverageRequirement, Requirements
<1>5. IsFiniteSet(Envelopes(held))
  <2>1. isArray(list)
    BY <1>2 DEF validateCasePackShape
  <2>2. Len(list) \in Nat /\ DOMAIN list = 1 .. Len(list)
    BY <2>1, LenProperties DEF isArray
  <2>3. IsFiniteSet(DOMAIN list)
    BY <2>2, FS_Interval
  <2>4. list \in Surjection(DOMAIN list, Envelopes(held))
    <3>1. list \in [DOMAIN list -> Envelopes(held)]
      BY <2>1 DEF Envelopes, isArray
    <3> QED
      BY <3>1 DEF Surjection, Envelopes
  <2> QED
    BY <2>3, <2>4, FS_Surjection
<1>6. Cardinality(Matched(held, requirement)) \in Nat
  <2>1. Matched(held, requirement) \subseteq Envelopes(held)
    BY DEF Matched
  <2> QED
    BY <1>5, <2>1, FS_Subset, FS_CardinalityType
<1> QED
  BY <1>3, <1>4, <1>6

LEMMA ValidIsCommitted == IInv => CommittedBySource
<1> SUFFICES ASSUME IInv, verdict # None /\ verdict.report.valid,
                    NEW requirement \in Requirements(held), requirement.checkpointRequirement = "required"
             PROVE  /\ Cardinality(Matched(held, requirement)) >= requirement.minEnvelopes
                    /\ \A envelope \in Matched(held, requirement) : CommittedBy(envelope, requirement)
  BY DEF CommittedBySource, CommittedBy
<1>1. verdict.report.valid = TRUE
  OBVIOUS
<1> QED
  BY <1>1, EnoughEnvelopes, EnvelopeIsCommitted

----------------------------------------------------------------------------
(* Every step keeps the invariant.                                          *)
LEMMA Initially == Init => IInv
<1> SUFFICES ASSUME Init PROVE IInv
  OBVIOUS
<1>1. recorded \in [Sources \X Histories -> Seq(Event)]
  BY EmptySeq DEF Init
<1>2. IsFiniteSet(issued)
  BY FS_EmptySet DEF Init
<1> QED
  BY <1>1, <1>2 DEF Init, IInv, IssuedInv, VerdictInv

LEMMA RecordKeeps ==
    ASSUME IInv, NEW log \in DOMAIN recorded, NEW id \in EventIds, Record(log, id)
    PROVE  IInv'
<1> DEFINE event == [id |-> id, bytes |-> ContentOf(log[2], id), at |-> now]
<1>1. now \in Nat /\ recorded \in [Sources \X Histories -> Seq(Event)] /\ log \in Sources \X Histories
  BY DEF IInv
<1>2. event \in Event
  BY <1>1 DEF Event
<1>3. recorded[log] \in Seq(Event)
  BY <1>1
<1> DEFINE more == Append(recorded[log], event)
<1>4. more \in Seq(Event)
  BY <1>2, <1>3, AppendProperties
<1>5. recorded' = [recorded EXCEPT ![log] = more]
  BY DEF Record
<1> HIDE DEF more
<1>6. recorded' \in [Sources \X Histories -> Seq(Event)]
  BY <1>1, <1>4, <1>5
<1>7. now' \in Nat
  BY <1>1 DEF Record
<1>8. built = None /\ UNCHANGED <<issued, built, held, verdict>>
  BY DEF Record
<1>9. held = None /\ verdict = None
  BY <1>8 DEF IInv
<1>10. IssuedInv'
  BY <1>8 DEF IInv, IssuedInv, Issued
<1> QED
  BY <1>6, <1>7, <1>8, <1>9, <1>10 DEF IInv, VerdictInv

\* A checkpoint that a source issues is of events it recorded.
LEMMA NewIsIssued ==
    ASSUME IInv, NEW log \in DOMAIN recorded,
           NEW first \in DOMAIN recorded[log], NEW last \in DOMAIN recorded[log], first <= last, NEW gaps, NEW number,
           NEW events, events = SubSeq(recorded[log], first, last),
           \E h \in 0 .. Len(events) : Pow2(h) = Len(events),
           NEW material, material =
               [checkpointId |-> number, sourceId |-> log[1], epoch |-> "epoch",
                issuedAt |-> now, windowStart |-> 0, windowEnd |-> now,
                firstSequence |-> first - 1, lastSequence |-> last - 1, eventCount |-> Len(events),
                merkleRoot |-> Levels(Leaves(log[1], events, first - 1))[Height(Len(events))][1],
                declaredGaps |-> gaps],
           NEW unsigned, unsigned = sealSourceCheckpoint(material, <<>>),
           NEW checkpoint, checkpoint = With(unsigned, "proofs",
                                             <<createSourceCheckpointProof(unsigned, KeyOf[log[1]], log[1])>>)
    PROVE  Issued([checkpoint |-> checkpoint, events |-> events])
<1> DEFINE proof == createSourceCheckpointProof(unsigned, KeyOf[log[1]], log[1])
<1>1. now \in Nat /\ recorded[log] \in Seq(Event) /\ log[1] \in Sources
  BY DEF IInv
<1>2. first \in Nat \ {0} /\ last \in Nat \ {0} /\ \A i \in first .. last : recorded[log][i] \in Event
  BY <1>1, LenProperties, ElementOfSeq
<1>3. events \in Seq(Event)
  BY <1>2, SubSeqProperties
<1>4. exactKeys(material, CheckpointMaterial)
  BY DEF exactKeys, isPlainObject, CheckpointMaterial
<1> DEFINE proofs == <<proof>>
<1>5. unsigned = sealSourceCheckpoint(material, <<>>) /\ checkpoint = With(sealSourceCheckpoint(material, <<>>), "proofs", proofs)
  OBVIOUS
<1> HIDE DEF proofs
<1>6. /\ exactKeys(checkpoint, CheckpointKeys) /\ DigestHolds("checkpoint", "checkpointDigest", checkpoint, {"proofs"})
      /\ \A name \in CheckpointMaterial : checkpoint[name] = material[name]
      /\ checkpoint.proofs = proofs /\ checkpoint.checkpointDigest = unsigned.checkpointDigest
  <2>1. /\ exactKeys(checkpoint, CheckpointKeys) /\ DigestHolds("checkpoint", "checkpointDigest", checkpoint, {"proofs"})
        /\ \A name \in CheckpointMaterial : checkpoint[name] = material[name]
        /\ checkpoint.proofs = proofs
        /\ checkpoint.checkpointDigest = sealSourceCheckpoint(material, <<>>).checkpointDigest
    BY ONLY <1>4, <1>5, SealedCheckpoint
  <2> QED
    BY ONLY <1>5, <2>1
<1>7. /\ checkpoint.sourceId = log[1] /\ checkpoint.issuedAt = now /\ checkpoint.firstSequence = first - 1
      /\ checkpoint.eventCount = Len(events)
      /\ checkpoint.merkleRoot = Levels(Leaves(log[1], events, first - 1))[Height(Len(events))][1]
  BY <1>6 DEF CheckpointMaterial
<1>8. \A k \in DOMAIN checkpoint.proofs : checkpoint.proofs[k].signature = <<KeyOf[log[1]], checkpoint.checkpointDigest>>
  <2>1. proof.signature = <<KeyOf[log[1]], unsigned.checkpointDigest>>
    BY DEF createSourceCheckpointProof
  <2> HIDE DEF proof
  <2>2. \A k \in DOMAIN proofs : proofs[k] = proof
    BY DEF proofs
  <2> QED
    BY ONLY <1>6, <2>1, <2>2
<1>9. first - 1 \in Nat
  BY <1>2
<1> DEFINE new == [checkpoint |-> checkpoint, events |-> events]
<1>10. new.checkpoint = checkpoint /\ new.events = events
  OBVIOUS
<1>11. \E h \in 0 .. Len(events) : Pow2(h) = Len(events)
  OBVIOUS
<1> HIDE DEF new
<1>12. Issued(new)
  BY ONLY <1>1, <1>3, <1>6, <1>7, <1>8, <1>9, <1>10, <1>11 DEF Issued
<1> QED
  BY <1>12 DEF new

LEMMA IssueKeeps ==
    ASSUME IInv, NEW log \in DOMAIN recorded,
           NEW first \in DOMAIN recorded[log], NEW last \in DOMAIN recorded[log], first <= last,
           NEW gaps, Issue(log, first, last, gaps)
    PROVE  IInv'
<1> DEFINE events == SubSeq(recorded[log], first, last)
           number == Cardinality(issued) + 1
           material == [checkpointId |-> number, sourceId |-> log[1], epoch |-> "epoch",
                        issuedAt |-> now, windowStart |-> 0, windowEnd |-> now,
                        firstSequence |-> first - 1, lastSequence |-> last - 1, eventCount |-> Len(events),
                        merkleRoot |-> Levels(Leaves(log[1], events, first - 1))[Height(Len(events))][1],
                        declaredGaps |-> gaps]
           unsigned == sealSourceCheckpoint(material, <<>>)
           checkpoint == With(unsigned, "proofs", <<createSourceCheckpointProof(unsigned, KeyOf[log[1]], log[1])>>)
           new == [checkpoint |-> checkpoint, events |-> events]
<1>1. /\ issued' = issued \cup {new} /\ \E h \in 0 .. Len(events) : Pow2(h) = Len(events)
      /\ built = None /\ UNCHANGED <<now, recorded, built, held, verdict>>
  BY DEF Issue
<1>2. Issued(new)
  <2> HIDE DEF number
  <2> QED
    BY <1>1, NewIsIssued
<1> HIDE DEF new
<1>3. IsFiniteSet(issued')
  BY <1>1, FS_AddElement DEF IInv, IssuedInv
<1>4. IssuedInv'
  <2>1. \A i \in issued' : Issued(i)
    BY <1>1, <1>2 DEF IInv, IssuedInv
  <2> QED
    BY <1>3, <2>1 DEF IssuedInv, Issued
<1>5. held = None /\ verdict = None
  BY <1>1 DEF IInv
<1> QED
  BY <1>1, <1>4, <1>5 DEF IInv, VerdictInv

\* The sequence of the members of a finite set has no others.
LEMMA ListedMembers ==
    ASSUME NEW S, IsFiniteSet(S)
    PROVE  \A k \in DOMAIN SetToSeq(S) : SetToSeq(S)[k] \in S
<1> DEFINE n == Cardinality(S)
<1>1. ExistsBijection(1 .. n, S)
  BY FS_CardinalityType
<1> HIDE DEF n
<1>2. PICK f \in Bijection(1 .. n, S) : TRUE
  BY <1>1 DEF ExistsBijection
<1>3. f \in [1 .. n -> S] /\ IsInjective(f)
  BY <1>2 DEF Bijection, Injection, IsInjective
<1>4. (CHOOSE g \in [1 .. n -> S] : IsInjective(g)) \in [1 .. n -> S]
  BY <1>3
<1>5. SetToSeq(S) \in [1 .. n -> S]
  BY <1>4 DEF SetToSeq, n
<1> QED
  BY <1>5

LEMMA BuildKeeps ==
    ASSUME IInv, NEW captured, NEW terms \in Terms, Build(captured, terms.contract, terms.snapshot)
    PROVE  IInv'
<1> DEFINE evidence == SetToSeq({EnvelopeOf(c[1], c[2], issued) : c \in captured})
           signed == {i.checkpoint : i \in issued}
           list == SetToSeq(signed)
           material == [casePackId |-> "case", createdAt |-> now, nativeEvidenceBundle |-> Bundle,
                        protocolEvidence |-> evidence, externalTrustSnapshot |-> terms.snapshot,
                        delegationContext |-> Delegation, coverageContract |-> terms.contract,
                        sourceCheckpoints |-> list]
<1>1. /\ built' = createMandateBoundCasePack(material) /\ held' = built'
      /\ built = None /\ UNCHANGED <<now, recorded, issued, verdict>>
  BY DEF Build
<1>2. \A k \in DOMAIN list : list[k] \in signed
  <2> DEFINE f == [i \in issued |-> i.checkpoint]
  <2>1. f \in Surjection(issued, signed)
    BY DEF Surjection
  <2>2. IsFiniteSet(signed)
    BY <2>1, FS_Surjection DEF IInv, IssuedInv
  <2> QED
    BY <2>2, ListedMembers
<1> HIDE DEF evidence, list
<1>3. /\ exactKeys(material, PackKeys \ {"casePackDigest"})
      /\ material.coverageContract = terms.contract /\ material.externalTrustSnapshot = terms.snapshot
      /\ material.sourceCheckpoints = list
  <2>1. PackKeys \ {"casePackDigest"} =
            {"casePackId", "createdAt", "nativeEvidenceBundle", "protocolEvidence", "externalTrustSnapshot",
             "delegationContext", "coverageContract", "sourceCheckpoints"}
    BY DEF PackKeys
  <2> QED
    BY <2>1 DEF exactKeys, isPlainObject
<1> HIDE DEF material
<1>4. Sealed(built') /\ \A name \in PackKeys \ {"casePackDigest"} : built'[name] = material[name]
  BY <1>1, <1>3, SealedPack
<1>5. /\ built'.coverageContract = terms.contract /\ built'.externalTrustSnapshot = terms.snapshot
      /\ built'.sourceCheckpoints = list
  BY <1>3, <1>4 DEF PackKeys
<1>6. AgreedIn(built')
  BY <1>5 DEF AgreedIn
<1>7. Unforged(built')
  <2> SUFFICES ASSUME NEW c \in Checkpoints(built'), NEW j \in DOMAIN c.proofs PROVE c.proofs[j].signature \in Signed
    BY DEF Unforged
  <2>1. PICK k \in DOMAIN list : c = list[k]
    BY <1>5 DEF Checkpoints
  <2>2. PICK i \in issued : c = i.checkpoint
    BY <1>2, <2>1
  <2>3. Issued(i)
    BY DEF IInv, IssuedInv
  <2>4. c.proofs[j].signature = <<KeyOf[c.sourceId], c.checkpointDigest>>
    BY <2>2, <2>3 DEF Issued
  <2> QED
    BY <2>2, <2>4 DEF Signed
<1>8. Sealed(built)' /\ AgreedIn(built)' /\ Unforged(held)'
  <2>1. Unforged(held)'
    BY <1>1, <1>7 DEF Unforged, Signed, Checkpoints
  <2> QED
    BY <1>4, <1>6, <2>1 DEF Sealed, AgreedIn
<1>9. IssuedInv'
  BY <1>1 DEF IInv, IssuedInv, Issued
<1>10. verdict = None /\ verdict' = None
  BY <1>1 DEF IInv
<1> QED
  BY <1>1, <1>8, <1>9, <1>10 DEF IInv, VerdictInv

LEMMA AlterKeeps == ASSUME IInv, Alter PROVE IInv'
<1>1. /\ built # None /\ held # None /\ verdict = None /\ Unforged(held')
      /\ UNCHANGED <<now, recorded, issued, built, verdict>>
  BY DEF Alter
<1>2. Unforged(held)'
  BY <1>1 DEF Unforged, Signed, Checkpoints
<1>3. IssuedInv'
  BY <1>1 DEF IInv, IssuedInv, Issued
<1>4. (Sealed(built) /\ AgreedIn(built))'
  BY <1>1 DEF IInv, AgreedIn
<1> QED
  BY <1>1, <1>2, <1>3, <1>4 DEF IInv, VerdictInv

LEMMA VerifyKeeps ==
    ASSUME IInv, NEW asOf \in now .. MaxTime + 1, held # None,
           NEW contractPin \in {None, built.coverageContract.contractDigest},
           NEW snapshotPin \in {None} \cup SnapshotDigests(built), NEW raw, Verify(asOf, contractPin, snapshotPin, raw)
    PROVE  IInv'
<1> DEFINE anchors == [asOf |-> asOf, coveragePolicyDigest |-> built.coverageContract.policyDigest,
                       coverageContractDigest |-> contractPin, externalTrustSnapshotDigest |-> snapshotPin,
                       rawEvidence |-> raw]
           report == verifyMandateBoundCasePack(held, anchors)
           diff == diffMandateBoundCasePacks(built, anchors, held, anchors)
<1>1. /\ isArray(raw) /\ verdict' = [anchors |-> anchors, report |-> report, diff |-> diff]
      /\ UNCHANGED <<now, recorded, issued, built, held>>
  BY DEF Verify
<1>2. asOf \in Nat
  BY CasePackTerms DEF IInv
<1>3. Anchored(anchors)
  BY <1>1, <1>2 DEF Anchored
<1> HIDE DEF anchors
<1>4. verdict'.anchors = anchors /\ verdict'.report = report /\ verdict'.diff = diff
  BY <1>1
<1>5. Anchored(verdict.anchors)'
  BY <1>1, <1>3, <1>4 DEF Anchored
<1>6. VerdictInv'
  BY <1>1, <1>4, <1>5 DEF VerdictInv
<1>7. IssuedInv' /\ (held # None => Unforged(held))' /\ (built # None => Sealed(built) /\ AgreedIn(built))'
  BY <1>1 DEF IInv, IssuedInv, Issued, Unforged, Signed, AgreedIn
<1> QED
  BY <1>1, <1>6, <1>7 DEF IInv

LEMMA Inductive == IInv /\ [Next]_vars => IInv'
<1> SUFFICES ASSUME IInv, [Next]_vars PROVE IInv'
  OBVIOUS
<1>1. ASSUME NEW log \in DOMAIN recorded, NEW id \in EventIds, Record(log, id) PROVE IInv'
  BY <1>1, RecordKeeps
<1>2. ASSUME NEW log \in DOMAIN recorded, NEW first \in DOMAIN recorded[log], NEW last \in DOMAIN recorded[log],
             NEW gaps, first <= last, Issue(log, first, last, gaps)
      PROVE  IInv'
  BY <1>2, IssueKeeps
<1>3. ASSUME NEW captured, NEW terms \in Terms, Build(captured, terms.contract, terms.snapshot) PROVE IInv'
  BY <1>3, BuildKeeps
<1>4. CASE Alter
  BY <1>4, AlterKeeps
<1>5. ASSUME NEW asOf \in now .. MaxTime + 1, held # None,
             NEW contractPin \in {None, built.coverageContract.contractDigest},
             NEW snapshotPin \in {None} \cup SnapshotDigests(built), NEW raw, Verify(asOf, contractPin, snapshotPin, raw)
      PROVE  IInv'
  BY <1>5, VerifyKeeps
<1>6. CASE UNCHANGED vars
  <2>1. UNCHANGED <<now, recorded, issued, built, held, verdict>>
    BY <1>6 DEF vars
  <2>2. IssuedInv' /\ VerdictInv' /\ (held # None => Unforged(held))' /\ (built # None => Sealed(built) /\ AgreedIn(built))'
    BY <2>1 DEF IInv, IssuedInv, Issued, VerdictInv, Anchored, Unforged, Signed, AgreedIn
  <2> QED
    BY <2>1, <2>2 DEF IInv
<1> QED
  BY <1>1, <1>2, <1>3, <1>4, <1>5, <1>6 DEF Next

\* The pack that is verified against the one that was sealed.
LEMMA ChangeIsTold == IInv => EveryChangeIsTold
<1> SUFFICES ASSUME IInv, verdict # None, held # built
             PROVE  /\ verdict.report.valid => held.casePackDigest # built.casePackDigest
                    /\ verdict.diff.comparable => Told(built, held, verdict.diff)
  BY DEF EveryChangeIsTold, Told, Differing, Unsigned
<1> DEFINE anchors == verdict.anchors
<1>1. /\ built # None /\ Sealed(built)
      /\ verdict.report = verifyMandateBoundCasePack(held, anchors)
      /\ verdict.diff = diffMandateBoundCasePacks(built, anchors, held, anchors)
  BY DEF IInv, VerdictInv
<1>2. ASSUME verdict.report.valid PROVE held.casePackDigest # built.casePackDigest
  <2>1. verifyMandateBoundCasePack(held, anchors).valid = TRUE
    BY <1>1, <1>2
  <2>2. Sealed(held)
    BY <2>1, ValidIsSound, SoundIsSealed
  <2> QED
    BY <1>1, <2>2, SealedDiffer
<1>3. ASSUME verdict.diff.comparable PROVE Told(built, held, verdict.diff)
  BY <1>1, <1>3, DifferenceIsTold
<1> QED
  BY <1>2, <1>3

\* However the pack was made or changed, a valid report rests on a proof by a key
\* of the source for every envelope that a requirement with a checkpoint counts.
THEOREM ValidRestsOnProofs == Spec => []ValidIsProved
<1>1. Spec => []IInv
  BY Initially, Inductive, PTL DEF Spec
<1>2. IInv => ValidIsProved
  BY ValidMeansProved DEF IInv, VerdictInv, ValidIsProved
<1> QED
  BY <1>1, <1>2, PTL

\* What a valid report says of the world outside the pack: for a requirement with a
\* checkpoint, enough events that the source itself recorded and signed for, each
\* at its sequence and with the bytes the caller has, whoever carried the pack.
THEOREM ValidIsCommittedBySource == Spec => []CommittedBySource
<1>1. Spec => []IInv
  BY Initially, Inductive, PTL DEF Spec
<1> QED
  BY <1>1, ValidIsCommitted, PTL

\* A pack that was changed on its way is told from the one that was sealed: by its
\* digest when it is valid, and by every part that differs when it can be compared.
THEOREM ChangesAreTold == Spec => []EveryChangeIsTold
<1>1. Spec => []IInv
  BY Initially, Inductive, PTL DEF Spec
<1> QED
  BY <1>1, ChangeIsTold, PTL
=============================================================================
