------------------------------ MODULE MCCasePack ------------------------------
(***************************************************************************)
(* One source with two histories, up to two events and their checkpoints; what a *)
(* carrier may make of a pack; callers with all, some or other raw evidence.     *)
(***************************************************************************)
EXTENDS CasePackFlow

MCContentOf(history, id) == IF history = 1 THEN <<"event", id>> ELSE <<"other", id, id>>

MCBundle == [entries |-> [path \in {1} |-> "artifact"], rootDigest |-> Digest("bundle", [path \in {1} |-> "artifact"])]

MCDelegation ==
    sealDelegationContext([principalId |-> "principal", delegateId |-> "agent", validFrom |-> 0, validUntil |-> MaxTime + 1])

Requirement(wanted, min, age) ==
    [requirementId |-> "r", sourceId |-> "shop", eventClass |-> "payment", mediaTypes |-> {"json"},
     windowStart |-> 0, windowEnd |-> MaxTime, minEnvelopes |-> min, checkpointRequirement |-> wanted,
     maxCheckpointAgeSeconds |-> age]

Contract(requirement, validUntil) ==
    sealEvidenceCoverageContract([validFrom |-> 0, validUntil |-> validUntil, policyDigest |-> "policy",
                                  nativeBundleRootDigest |-> MCBundle.rootDigest, requirements |-> <<requirement>>])

Strict == Contract(Requirement("required", 1, 1), MaxTime + 1)

MCKeyOf == [source \in {"shop", "bank"} |-> <<"key", source>>]

SourceKey(source) == [keyId |-> source, sourceId |-> source, publicJwk |-> MCKeyOf[source],
                      validFrom |-> 0, validUntil |-> MaxTime + 1]
Snapshot == sealExternalTrustSnapshot([issuedAt |-> 0, expiresAt |-> MaxTime + 2,
                                       keys |-> <<SourceKey("bank"), SourceKey("shop")>>])

Optional == Contract(Requirement("optional", 1, 0), MaxTime)
MCTerms == {[contract |-> Strict, snapshot |-> Snapshot],
            [contract |-> Contract(Requirement("required", 2, MaxTime), MaxTime + 1), snapshot |-> Snapshot],
            [contract |-> Optional, snapshot |-> Snapshot], [contract |-> Optional, snapshot |-> None]}

----------------------------------------------------------------------------
(* What may arrive.                                                         *)
ResealPack(pack) == createMandateBoundCasePack(Without(pack, {"casePackDigest"}))

Envelope(e)  == sealProtocolEvidenceEnvelope(Without(e, {"envelopeDigest"}))
First(pack, e) == [pack EXCEPT !.protocolEvidence[1] = e]

OtherBytes == DigestOfBytes(<<"made up">>)

EnvelopeEdits(e) ==
    {[e EXCEPT !.upstreamValid = FALSE], [e EXCEPT !.capturedAt = MaxTime + 1], [e EXCEPT !.sourceId = "bank"],
     [e EXCEPT !.rawEvidence.byteLength = 7], [e EXCEPT !.rawEvidence.digest = OtherBytes],
     [e EXCEPT !.rawEvidence.digest = OtherBytes, !.rawEvidence.reference.value = OtherBytes,
               !.mapping = sealDeterministicMappingTrace([Without(@, {"traceDigest"}) EXCEPT !.inputDigest = OtherBytes])],
     [e EXCEPT !.mapping.steps[1].status = "unsupported"],
     [e EXCEPT !.mapping = sealDeterministicMappingTrace([Without(@, {"traceDigest"}) EXCEPT !.steps[1].status = "unsupported"])]}
    \cup (IF e.checkpointInclusion = None THEN {}
          ELSE {[e EXCEPT !.checkpointInclusion = None],
                [e EXCEPT !.checkpointInclusion.sequence = @ + 1],
                [e EXCEPT !.checkpointInclusion.leafIndex = 1 - @],
                [e EXCEPT !.checkpointInclusion.treeSize = @ * 2,
                          !.checkpointInclusion.auditPath = Append(@, OtherBytes)]})

\* A checkpoint of the shop made for this envelope alone, signed with the bank's key.
Made(e) ==
    LET unsigned == sealSourceCheckpoint(
            [checkpointId |-> 9, sourceId |-> e.sourceId, epoch |-> "epoch", issuedAt |-> MaxTime - 1, windowStart |-> 0,
             windowEnd |-> MaxTime, firstSequence |-> 0, lastSequence |-> 0, eventCount |-> 1,
             merkleRoot |-> computeSourceEvidenceLeaf(e, 0), declaredGaps |-> <<>>], <<>>)
    IN  [unsigned EXCEPT !.proofs = <<createSourceCheckpointProof(unsigned, MCKeyOf["bank"], "bank")>>]

PackEdits(pack) ==
    LET e == pack.protocolEvidence[1]
    IN  {First(pack, Envelope(edited)) : edited \in EnvelopeEdits(e)}
        \cup {First(pack, [e EXCEPT !.upstreamValid = FALSE])}
        \cup {[First(pack, Envelope([e EXCEPT !.checkpointInclusion =
                   [checkpointId |-> 9, sequence |-> 0, leafIndex |-> 0, treeSize |-> 1, auditPath |-> <<>>]]))
               EXCEPT !.sourceCheckpoints = Append(@, Made(e))],
              [pack EXCEPT !.protocolEvidence = Tail(@)], [pack EXCEPT !.createdAt = MaxTime],
              [pack EXCEPT !.nativeEvidenceBundle.entries[1] = "changed"],
              [pack EXCEPT !.delegationContext.validUntil = MaxTime + 2],
              [pack EXCEPT !.coverageContract = Contract(Requirement("not_applicable", 1, None), MaxTime + 1)],
              [pack EXCEPT !.coverageContract.requirements[1].minEnvelopes = 0],
              [pack EXCEPT !.externalTrustSnapshot = None]}
        \cup {[pack EXCEPT !.sourceCheckpoints = <<>>],
                    [pack EXCEPT !.sourceCheckpoints[1].proofs = <<>>],
                    [pack EXCEPT !.sourceCheckpoints[1].declaredGaps = <<>>],
                    [pack EXCEPT !.sourceCheckpoints[1].issuedAt = MaxTime - 1],
                    [pack EXCEPT !.sourceCheckpoints[1] = [sealSourceCheckpoint(
                        [Without(@, {"checkpointDigest", "proofs"}) EXCEPT !.declaredGaps = <<>>], <<>>)
                        EXCEPT !.proofs = pack.sourceCheckpoints[1].proofs]]}

MCEdits(pack) ==
    IF \/ pack.coverageContract # Strict \/ pack.externalTrustSnapshot = None
       \/ Len(pack.sourceCheckpoints) # 1 \/ pack.protocolEvidence[1].checkpointInclusion = None THEN {}
    ELSE (PackEdits(pack) \cup {ResealPack(edited) : edited \in PackEdits(pack)}) \ {pack}

\* The bytes that were recorded, none of them, or those of the made up event.
MCSupplies(pack) ==
    LET ids == [i \in DOMAIN pack.protocolEvidence |-> pack.protocolEvidence[i].envelopeId]
        Given(Bytes(_)) == [i \in DOMAIN ids |-> [referenceId |-> ids[i], bytes |-> Bytes(ids[i])]]
    IN  {Given(LAMBDA id : MCContentOf(1, id)), Given(LAMBDA id : MCContentOf(2, id)), Given(LAMBDA id : <<"made up">>)}
=============================================================================
