------------------------------- MODULE CasePack -------------------------------
(***************************************************************************)
(* CasePacks of src/casepack/: protocol evidence around a native bundle, under   *)
(* a coverage contract, with signed checkpoints of what the sources recorded.    *)
(* The constructors that seal them, the closed shape, and the verifier.          *)
(*                                                                         *)
(* A digest is the term it was computed from.  Instants are seconds, bytes a     *)
(* sequence, paths of the bundle their rank in code-unit order.  A missing       *)
(* optional property is None.                                                  *)
(***************************************************************************)
EXTENDS Naturals, Sequences, FiniteSets, SequencesExt

CONSTANTS None,
          MaxRawReferences, MaxRawBytes, MaxTotalRawBytes,   \* of what the caller supplies
          MaxTreeSize                                        \* 4096 events under one checkpoint

ASSUME CasePackLimits == MaxTreeSize \in Nat \ {0}

Digest(kind, x) == <<kind, x>>
DigestOfBytes(bytes) == Digest("bytes", bytes)
Without(value, names) == [name \in DOMAIN value \ names |-> value[name]]
With(value, name, x) == [n \in DOMAIN value \cup {name} |-> IF n = name THEN x ELSE value[n]]

----------------------------------------------------------------------------
(* Sealing.                                                                *)
Seal(kind, field, value) == With(value, field, Digest(kind, value))

sealDeterministicMappingTrace(value) == Seal("mapping", "traceDigest", value)
sealProtocolEvidenceEnvelope(value)  == Seal("envelope", "envelopeDigest", value)
sealExternalTrustSnapshot(value)     == Seal("trust", "snapshotDigest", value)
sealDelegationContext(value)         == Seal("delegation", "contextDigest", value)
sealEvidenceCoverageContract(value)  == Seal("coverage", "contractDigest", value)
createMandateBoundCasePack(value)    == Seal("casepack", "casePackDigest", value)

\* The proofs are of the digest, so they are no part of it.
sealSourceCheckpoint(value, proofs) == With(Seal("checkpoint", "checkpointDigest", value), "proofs", proofs)

createSourceCheckpointProof(checkpoint, key, keyId) ==
    [keyId |-> keyId, signedDigest |-> checkpoint.checkpointDigest,
     signature |-> <<key, checkpoint.checkpointDigest>>]

\* Mutant: an envelope's digest leaves out whether its protocol accepted it.
HoldsForEitherUpstream(kind, field, value, names) ==
    LET material == Without(value, names \cup {field})
    IN  IF kind = "envelope" THEN \E b \in BOOLEAN : value[field] = Digest(kind, [material EXCEPT !.upstreamValid = b])
        ELSE value[field] = Digest(kind, material)

DigestHolds(kind, field, value, names) == value[field] = Digest(kind, Without(value, names \cup {field}))

----------------------------------------------------------------------------
(* The closed shape, of values whose fields have their types.                  *)
CASEPACK_STATUSES == {"not_applicable", "satisfied", "unknown", "missing", "unsupported", "conflicting"}

\* An object, with these properties and no other.
isPlainObject(value) == value = [name \in DOMAIN value |-> value[name]]
exactKeys(value, names) == isPlainObject(value) /\ DOMAIN value = names
isArray(value) == value \in Seq(Range(value))

DistinctBy(values, names) ==
    \A i, j \in DOMAIN values : (\A name \in names : values[i][name] = values[j][name]) => i = j

validateRawReference(reference, digest) ==
    reference.kind = "content_addressed" => reference.value = digest

validateMappingTrace(mapping) ==
    /\ mapping.outputArtifacts # <<>> /\ mapping.steps # <<>>
    /\ \A i \in 2 .. Len(mapping.outputArtifacts) :
          mapping.outputArtifacts[i - 1].path < mapping.outputArtifacts[i].path
    /\ DistinctBy(mapping.steps, {"ruleId"})
    /\ \A i \in DOMAIN mapping.steps : mapping.steps[i].status \in CASEPACK_STATUSES
    /\ DigestHolds("mapping", "traceDigest", mapping, {})

Pow2(n) == LET power[k \in 0 .. n] == IF k = 0 THEN 1 ELSE 2 * power[k - 1] IN power[n]

\* The path may be as long as the height of the largest tree.
validateCheckpointInclusion(inclusion) ==
    /\ inclusion.leafIndex \in 0 .. MaxTreeSize - 1 /\ inclusion.treeSize \in 1 .. MaxTreeSize
    /\ isArray(inclusion.auditPath) /\ Pow2(Len(inclusion.auditPath)) <= MaxTreeSize

validateProtocolEnvelope(envelope) ==
    /\ exactKeys(envelope, {"envelopeId", "sourceId", "eventClass", "capturedAt", "mediaType", "rawEvidence",
                            "upstreamValid", "mapping", "checkpointInclusion", "envelopeDigest"})
    /\ envelope.rawEvidence.byteLength <= MaxRawBytes
    /\ validateRawReference(envelope.rawEvidence.reference, envelope.rawEvidence.digest)
    /\ validateMappingTrace(envelope.mapping)
    /\ envelope.checkpointInclusion # None => validateCheckpointInclusion(envelope.checkpointInclusion)
    /\ DigestHolds("envelope", "envelopeDigest", envelope, {})

validateExternalTrust(snapshot) ==
    /\ exactKeys(snapshot, {"issuedAt", "expiresAt", "keys", "snapshotDigest"})
    /\ snapshot.issuedAt < snapshot.expiresAt
    /\ DistinctBy(snapshot.keys, {"keyId"})
    /\ \A i \in DOMAIN snapshot.keys : snapshot.keys[i].validFrom < snapshot.keys[i].validUntil
    /\ DigestHolds("trust", "snapshotDigest", snapshot, {})

validateDelegationContext(delegation) ==
    /\ exactKeys(delegation, {"principalId", "delegateId", "validFrom", "validUntil", "contextDigest"})
    /\ delegation.principalId # delegation.delegateId
    /\ delegation.validFrom < delegation.validUntil
    /\ DigestHolds("delegation", "contextDigest", delegation, {})

validateCoverageRequirement(requirement) ==
    /\ requirement.minEnvelopes \in Nat \ {0}
    /\ requirement.windowStart <= requirement.windowEnd
    /\ IF requirement.checkpointRequirement = "not_applicable" THEN requirement.maxCheckpointAgeSeconds = None
       ELSE requirement.maxCheckpointAgeSeconds \in Nat

validateCoverageContract(contract) ==
    /\ exactKeys(contract, {"policyDigest", "nativeBundleRootDigest", "validFrom", "validUntil", "requirements",
                            "contractDigest"})
    /\ contract.validFrom < contract.validUntil
    /\ contract.requirements # <<>>
    /\ \A i \in DOMAIN contract.requirements : validateCoverageRequirement(contract.requirements[i])
    /\ DistinctBy(contract.requirements, {"requirementId"})
    /\ DistinctBy(contract.requirements, {"sourceId", "eventClass"})
    /\ DigestHolds("coverage", "contractDigest", contract, {})

validateCheckpoint(checkpoint) ==
    LET gaps == checkpoint.declaredGaps
    IN  /\ exactKeys(checkpoint, {"checkpointId", "sourceId", "epoch", "issuedAt", "windowStart", "windowEnd",
                                  "firstSequence", "lastSequence", "eventCount", "merkleRoot", "declaredGaps",
                                  "checkpointDigest", "proofs"})
        /\ checkpoint.windowStart <= checkpoint.windowEnd
        /\ checkpoint.eventCount \in 1 .. MaxTreeSize
        /\ checkpoint.lastSequence + 1 = checkpoint.firstSequence + checkpoint.eventCount
        /\ \A i \in DOMAIN gaps : gaps[i].fromSequence <= gaps[i].toSequence
        /\ \A i \in 2 .. Len(gaps) : gaps[i].fromSequence > gaps[i - 1].toSequence
        /\ DistinctBy(checkpoint.proofs, {"keyId"})
        /\ \A i \in DOMAIN checkpoint.proofs : checkpoint.proofs[i].signedDigest = checkpoint.checkpointDigest
        /\ DigestHolds("checkpoint", "checkpointDigest", checkpoint, {"proofs"})

\* The verifier of the native bundle, a component of its own: its root is that of its entries.
NativeBundleValid(bundle) ==
    exactKeys(bundle, {"entries", "rootDigest"}) /\ bundle.rootDigest = Digest("bundle", bundle.entries)

validateCasePackShape(pack) ==
    /\ exactKeys(pack, {"casePackId", "createdAt", "nativeEvidenceBundle", "protocolEvidence", "externalTrustSnapshot",
                        "delegationContext", "coverageContract", "sourceCheckpoints", "casePackDigest"})
    /\ NativeBundleValid(pack.nativeEvidenceBundle)
    /\ isArray(pack.protocolEvidence) /\ pack.protocolEvidence # <<>>
    /\ \A i \in DOMAIN pack.protocolEvidence : validateProtocolEnvelope(pack.protocolEvidence[i])
    /\ DistinctBy(pack.protocolEvidence, {"envelopeId"})
    /\ DistinctBy([i \in DOMAIN pack.protocolEvidence |-> pack.protocolEvidence[i].rawEvidence.reference], {"referenceId"})
    /\ pack.externalTrustSnapshot # None => validateExternalTrust(pack.externalTrustSnapshot)
    /\ validateDelegationContext(pack.delegationContext)
    /\ validateCoverageContract(pack.coverageContract)
    /\ \A i \in DOMAIN pack.sourceCheckpoints : validateCheckpoint(pack.sourceCheckpoints[i])
    /\ DistinctBy(pack.sourceCheckpoints, {"checkpointId"})
    /\ DigestHolds("casepack", "casePackDigest", pack, {})

----------------------------------------------------------------------------
(* Statuses.                                                               *)
\* Mutant: what is missing counts for less than what is satisfied.
PriorityOfSatisfied == [not_applicable |-> 0, missing |-> 1, unknown |-> 2,
                        satisfied |-> 3, unsupported |-> 4, conflicting |-> 5]

STATUS_PRIORITY == [not_applicable |-> 0, satisfied |-> 1, unknown |-> 2,
                    missing |-> 3, unsupported |-> 4, conflicting |-> 5]

\* The worst of a set of statuses.
combineStatuses(values, empty) ==
    IF values = {} THEN empty
    ELSE CHOOSE s \in values : \A t \in values : STATUS_PRIORITY[t] <= STATUS_PRIORITY[s]

Relevant(values) == values \ {"not_applicable"}

Envelopes(pack)   == {pack.protocolEvidence[i] : i \in DOMAIN pack.protocolEvidence}
Checkpoints(pack) == {pack.sourceCheckpoints[i] : i \in DOMAIN pack.sourceCheckpoints}
Requirements(pack) == {pack.coverageContract.requirements[i] : i \in DOMAIN pack.coverageContract.requirements}

\* What the caller supplies, up to the first item past the total: [bytes, ok]
\* with bytes a function on reference identifiers.
NothingTaken == [bytes |-> <<>>, total |-> 0, ok |-> TRUE, full |-> FALSE]

Take(taken, item) ==
    LET total == taken.total + Len(item.bytes)
    IN  IF taken.full THEN taken
        ELSE IF Len(item.bytes) > MaxRawBytes \/ item.referenceId \in DOMAIN taken.bytes THEN With(taken, "ok", FALSE)
        ELSE IF total > MaxTotalRawBytes THEN With(With(taken, "ok", FALSE), "full", TRUE)
        ELSE With(With(taken, "total", total), "bytes", With(taken.bytes, item.referenceId, item.bytes))

rawEvidenceMap(values) ==
    LET taken[k \in 0 .. Len(values)] == IF k = 0 THEN NothingTaken ELSE Take(taken[k - 1], values[k])
    IN  IF Len(values) > MaxRawReferences THEN [bytes |-> <<>>, ok |-> FALSE] ELSE taken[Len(values)]

RawStatus(envelope, supplied) ==
    LET raw == envelope.rawEvidence
        id  == raw.reference.referenceId
    IN  IF id \notin DOMAIN supplied THEN "unknown"
        ELSE IF Len(supplied[id]) = raw.byteLength /\ DigestOfBytes(supplied[id]) = raw.digest THEN "satisfied"
        ELSE "conflicting"

mappingStatus(mapping) ==
    combineStatuses(Relevant({mapping.steps[i].status : i \in DOMAIN mapping.steps}), "not_applicable")

\* The first mapped artifact that the bundle does not have decides.
verifyMappedOutputs(envelope, bundle) ==
    LET outputs == envelope.mapping.outputArtifacts
        Absent(o) == o.path \notin DOMAIN bundle.entries
        Held(o)   == ~Absent(o) /\ bundle.entries[o.path] = o.digest
        bad       == {i \in DOMAIN outputs : ~Held(outputs[i])}
        first     == CHOOSE i \in bad : \A k \in bad : i <= k
    IN  IF envelope.mapping.inputDigest # envelope.rawEvidence.digest THEN "conflicting"
        ELSE IF bad = {} THEN mappingStatus(envelope.mapping)
        ELSE IF Absent(outputs[first]) THEN "missing" ELSE "conflicting"

IntegrityOf(envelope, pack, supplied) ==
    combineStatuses({RawStatus(envelope, supplied), verifyMappedOutputs(envelope, pack.nativeEvidenceBundle)}, "unknown")

----------------------------------------------------------------------------
(* Checkpoints.                                                            *)
InWindow(t, from, to) == from <= t /\ t < to

\* Mutant: any key of the snapshot speaks for any source.
ProvedByAnyKey(checkpoint, proof, snapshot) ==
    \E i \in DOMAIN snapshot.keys :
        LET key == snapshot.keys[i]
        IN  /\ key.keyId = proof.keyId
            /\ InWindow(checkpoint.issuedAt, key.validFrom, key.validUntil)
            /\ proof.signature = <<key.publicJwk, checkpoint.checkpointDigest>>

\* A proof counts when a key of the source, valid when the checkpoint was issued, made it.
ProvedBy(checkpoint, proof, snapshot) ==
    \E i \in DOMAIN snapshot.keys :
        LET key == snapshot.keys[i]
        IN  /\ key.keyId = proof.keyId /\ key.sourceId = checkpoint.sourceId
            /\ InWindow(checkpoint.issuedAt, key.validFrom, key.validUntil)
            /\ proof.signature = <<key.publicJwk, checkpoint.checkpointDigest>>

verifyCheckpointProof(checkpoint, snapshot, trust) ==
    IF checkpoint.proofs = <<>> \/ snapshot = None THEN "missing"
    ELSE IF trust # "satisfied" THEN "unknown"
    ELSE IF \E i \in DOMAIN checkpoint.proofs : ProvedBy(checkpoint, checkpoint.proofs[i], snapshot) THEN "satisfied"
    ELSE "conflicting"

computeSourceEvidenceLeaf(envelope, sequence) ==
    Digest("leaf", <<envelope.envelopeId, envelope.sourceId, sequence, envelope.rawEvidence.digest>>)

Node(left, right) == Digest("node", <<left, right>>)

\* A node and its index, with its sibling: their parent.
Above(at, sibling) ==
    [hash  |-> IF at.index % 2 = 0 THEN Node(at.hash, sibling) ELSE Node(sibling, at.hash),
     index |-> at.index \div 2]

RootFrom(leaf, leafIndex, auditPath) ==
    LET up[k \in 0 .. Len(auditPath)] ==
          IF k = 0 THEN [hash |-> leaf, index |-> leafIndex] ELSE Above(up[k - 1], auditPath[k])
    IN  up[Len(auditPath)].hash

verifyCheckpointInclusion(envelope, checkpoint) ==
    LET inclusion == envelope.checkpointInclusion
    IN  IF inclusion = None THEN "missing"
        ELSE IF /\ inclusion.checkpointId = checkpoint.checkpointId
                /\ checkpoint.sourceId = envelope.sourceId
                /\ ~(envelope.capturedAt < checkpoint.windowStart) /\ ~(envelope.capturedAt > checkpoint.windowEnd)
                /\ inclusion.treeSize = checkpoint.eventCount
                /\ inclusion.leafIndex < inclusion.treeSize
                /\ inclusion.sequence = checkpoint.firstSequence + inclusion.leafIndex
                /\ ~(inclusion.sequence > checkpoint.lastSequence)
                /\ inclusion.treeSize = Pow2(Len(inclusion.auditPath))
                /\ RootFrom(computeSourceEvidenceLeaf(envelope, inclusion.sequence),
                            inclusion.leafIndex, inclusion.auditPath) = checkpoint.merkleRoot THEN "satisfied"
        ELSE "conflicting"

\* Sources with two roots for one epoch, last sequence and end of window.
checkpointConflicts(pack) ==
    {c.sourceId : c \in {c \in Checkpoints(pack) : \E d \in Checkpoints(pack) :
        /\ <<d.sourceId, d.epoch, d.lastSequence, d.windowEnd>> = <<c.sourceId, c.epoch, c.lastSequence, c.windowEnd>>
        /\ d.merkleRoot # c.merkleRoot}}

----------------------------------------------------------------------------
(* Verification under the caller's anchors: the instant, the digests it pins    *)
(* (None when malformed or not given) and the raw evidence it has.              *)
CoverageTrust(pack, anchors) ==
    LET contract == pack.coverageContract
    IN  IF anchors.coveragePolicyDigest = None \/ anchors.coverageContractDigest = None THEN "unknown"
        ELSE IF \/ contract.contractDigest # anchors.coverageContractDigest
                \/ contract.policyDigest # anchors.coveragePolicyDigest
                \/ contract.nativeBundleRootDigest # pack.nativeEvidenceBundle.rootDigest THEN "conflicting"
        ELSE IF ~InWindow(anchors.asOf, contract.validFrom, contract.validUntil) THEN "missing"
        ELSE "satisfied"

ExternalTrust(pack, anchors) ==
    LET snapshot == pack.externalTrustSnapshot
    IN  IF snapshot = None THEN "not_applicable"
        ELSE IF anchors.externalTrustSnapshotDigest = None THEN "unknown"
        ELSE IF snapshot.snapshotDigest # anchors.externalTrustSnapshotDigest THEN "conflicting"
        ELSE IF ~InWindow(anchors.asOf, snapshot.issuedAt, snapshot.expiresAt) THEN "missing"
        ELSE "satisfied"

Delegated(pack, anchors) ==
    IF InWindow(anchors.asOf, pack.delegationContext.validFrom, pack.delegationContext.validUntil)
    THEN "satisfied" ELSE "missing"

Named(pack, id) == {c \in Checkpoints(pack) : c.checkpointId = id}

verifyCheckpointForEnvelope(envelope, requirement, pack, anchors) ==
    LET wanted    == requirement.checkpointRequirement
        inclusion == envelope.checkpointInclusion
        checkpoint == CHOOSE c \in Named(pack, inclusion.checkpointId) : TRUE
        included  == verifyCheckpointInclusion(envelope, checkpoint)
        proved    == verifyCheckpointProof(checkpoint, pack.externalTrustSnapshot, ExternalTrust(pack, anchors))
    IN  IF wanted = "not_applicable" THEN "not_applicable"
        ELSE IF requirement.sourceId \in checkpointConflicts(pack) THEN "conflicting"
        ELSE IF inclusion = None THEN IF wanted = "required" THEN "missing" ELSE "not_applicable"
        ELSE IF \/ Named(pack, inclusion.checkpointId) = {}
                \/ checkpoint.declaredGaps # <<>>
                \/ checkpoint.issuedAt > anchors.asOf
                \/ anchors.asOf > checkpoint.issuedAt + requirement.maxCheckpointAgeSeconds THEN "missing"
        ELSE IF included # "satisfied" THEN included
        ELSE IF wanted = "optional" /\ proved = "missing" THEN "satisfied"
        ELSE proved

Matches(envelope, requirement) ==
    /\ envelope.sourceId = requirement.sourceId /\ envelope.eventClass = requirement.eventClass
    /\ envelope.mediaType \in requirement.mediaTypes
    /\ requirement.windowStart <= envelope.capturedAt /\ envelope.capturedAt <= requirement.windowEnd

Matched(pack, requirement) == {e \in Envelopes(pack) : Matches(e, requirement)}

EnvelopeStatuses(envelope, requirement, pack, anchors, supplied) ==
    {IntegrityOf(envelope, pack, supplied), verifyCheckpointForEnvelope(envelope, requirement, pack, anchors)}
    \cup (IF envelope.upstreamValid THEN {} ELSE {"missing"})

RequirementStatus(requirement, pack, anchors, supplied) ==
    LET matched == Matched(pack, requirement)
    IN  IF CoverageTrust(pack, anchors) # "satisfied" THEN CoverageTrust(pack, anchors)
        ELSE IF requirement.sourceId \in checkpointConflicts(pack) THEN "conflicting"
        ELSE IF Cardinality(matched) < requirement.minEnvelopes THEN "missing"
        ELSE combineStatuses(Relevant(UNION {EnvelopeStatuses(e, requirement, pack, anchors, supplied) : e \in matched}),
                             "satisfied")

CoverageStatus(pack, anchors, supplied) ==
    combineStatuses(Relevant({CoverageTrust(pack, anchors)}
                             \cup {RequirementStatus(r, pack, anchors, supplied) : r \in Requirements(pack)}), "unknown")

CoverageOf(envelope, pack, anchors, supplied) ==
    combineStatuses({RequirementStatus(r, pack, anchors, supplied) :
                        r \in {r \in Requirements(pack) : Matches(envelope, r)}}, "missing")

EvidenceEligible(envelope, pack, anchors, supplied) ==
    /\ IntegrityOf(envelope, pack, supplied) = "satisfied" /\ envelope.upstreamValid
    /\ CoverageOf(envelope, pack, anchors, supplied) = "satisfied"
    /\ Delegated(pack, anchors) = "satisfied"

genericInvalidReport ==
    [valid |-> FALSE, casePackDigest |-> None, integrityStatus |-> "conflicting", coverageStatus |-> "unknown",
     upstreamValidStatus |-> "unknown", evidenceEligibilityStatus |-> "missing", externalTrustStatus |-> "unknown",
     delegationStatus |-> "unknown"]

IntegrityStatus(pack, raw) ==
    combineStatuses({IntegrityOf(e, pack, raw.bytes) : e \in Envelopes(pack)}
                    \cup {IF raw.ok THEN "satisfied" ELSE "conflicting"}, "unknown")

AllSatisfied(condition) == IF condition THEN "satisfied" ELSE "missing"

Statuses(pack, anchors, raw) ==
    [integrityStatus     |-> IntegrityStatus(pack, raw),
     coverageStatus      |-> CoverageStatus(pack, anchors, raw.bytes),
     upstreamValidStatus |-> AllSatisfied(\A e \in Envelopes(pack) : e.upstreamValid),
     evidenceEligibilityStatus |->
         AllSatisfied(\A e \in Envelopes(pack) : EvidenceEligible(e, pack, anchors, raw.bytes)),
     externalTrustStatus |-> ExternalTrust(pack, anchors),
     delegationStatus    |-> Delegated(pack, anchors)]

Holds(statuses) ==
    \A name \in DOMAIN statuses :
        \/ statuses[name] = "satisfied"
        \/ name = "externalTrustStatus" /\ statuses[name] = "not_applicable"

ReportOf(pack, statuses) ==
    [name \in DOMAIN statuses \cup {"casePackDigest", "valid"} |->
        CASE name = "casePackDigest" -> pack.casePackDigest
          [] name = "valid" -> Holds(statuses)
          [] OTHER -> statuses[name]]

verifyMandateBoundCasePack(pack, anchors) ==
    IF validateCasePackShape(pack) THEN ReportOf(pack, Statuses(pack, anchors, rawEvidenceMap(anchors.rawEvidence)))
    ELSE genericInvalidReport

----------------------------------------------------------------------------
(* src/casepack-tools.ts: what differs between two packs of sound integrity.     *)
comparablePack(report) == report.integrityStatus = "satisfied" /\ report.casePackDigest # None

collectChanges(before, after) ==
    {id \in DOMAIN before \cup DOMAIN after :
        ~(id \in DOMAIN before \cap DOMAIN after /\ before[id] = after[id])}

EnvelopeDigests(pack) ==
    [id \in {e.envelopeId : e \in Envelopes(pack)} |->
        (CHOOSE e \in Envelopes(pack) : e.envelopeId = id).envelopeDigest]

CheckpointDigests(pack) ==
    [id \in {c.checkpointId : c \in Checkpoints(pack)} |->
        (CHOOSE c \in Checkpoints(pack) : c.checkpointId = id).checkpointDigest]

SnapshotDigests(pack) == {s.snapshotDigest : s \in {pack.externalTrustSnapshot} \ {None}}   \* of one or none

diffMandateBoundCasePacks(before, beforeAnchors, after, afterAnchors) ==
    LET was == verifyMandateBoundCasePack(before, beforeAnchors)
        is  == verifyMandateBoundCasePack(after, afterAnchors)
        comparable == comparablePack(was) /\ comparablePack(is)
        Differs(x, y)    == comparable /\ x # y
        Changes(old, new) == IF comparable THEN collectChanges(old, new) ELSE {}
    IN  [comparable    |-> comparable,
         statusChanged |-> Without(was, {"casePackDigest"}) # Without(is, {"casePackDigest"}),
         changed       |-> Differs(before.casePackDigest, after.casePackDigest),
         nativeBundleChanged      |-> Differs(before.nativeEvidenceBundle.rootDigest, after.nativeEvidenceBundle.rootDigest),
         coverageContractChanged  |-> Differs(before.coverageContract.contractDigest, after.coverageContract.contractDigest),
         delegationContextChanged |-> Differs(before.delegationContext.contextDigest, after.delegationContext.contextDigest),
         externalTrustSnapshotChanged |-> Differs(SnapshotDigests(before), SnapshotDigests(after)),
         protocol_evidence |-> Changes(EnvelopeDigests(before), EnvelopeDigests(after)),
         source_checkpoint |-> Changes(CheckpointDigests(before), CheckpointDigests(after))]
=============================================================================
