----------------------------- MODULE CasePackFlow -----------------------------
(***************************************************************************)
(* The life of a CasePack.  Sources record events and sign checkpoints of them,  *)
(* perhaps of two histories at once; a collector seals what it captured; the     *)
(* pack may be changed on its way and sealed again; a caller that retained the    *)
(* digests of the contract and of the trust snapshot verifies what arrives.      *)
(* Recording, signing and collecting are the work of programs outside src/.      *)
(***************************************************************************)
EXTENDS CasePack

CONSTANTS Sources, Histories,     \* a source may keep several histories
          KeyOf,                  \* source -> the key it signs with
          EventIds, ContentOf(_, _),   \* the bytes of an event in a history of its source
          Terms,                  \* [contract, snapshot], sealed, the snapshot or None
          Bundle, Delegation,     \* the native bundle and the delegation context
          Edits(_),               \* packs that may arrive instead of this one
          Supplies(_),            \* raw evidence a caller may have for a pack
          MaxTime, MaxIssued      \* bounds of the clock and of the checkpoints

\* What the parties agreed on is sealed and is about the sources and their keys.
ASSUME CasePackTerms ==
    /\ MaxTime \in Nat /\ MaxIssued \in Nat
    /\ \A terms \in Terms :
          /\ validateCoverageContract(terms.contract)
          /\ \A i \in DOMAIN terms.contract.requirements : terms.contract.requirements[i].sourceId \in Sources
          /\ terms.snapshot # None =>
                /\ validateExternalTrust(terms.snapshot)
                /\ \A i \in DOMAIN terms.snapshot.keys :
                      LET key == terms.snapshot.keys[i] IN key.sourceId \in Sources => key.publicJwk = KeyOf[key.sourceId]

VARIABLES now,
          recorded,   \* <<source, history>> -> sequence of [id, bytes, at]
          issued,     \* set of [checkpoint, events]: what the sources' keys signed
          built,      \* the pack as the collector sealed it, None before
          held,       \* the pack that arrives
          verdict     \* [anchors, report, diff] of the caller, None before

vars == <<now, recorded, issued, built, held, verdict>>

Init ==
    /\ now = 0
    /\ recorded = [log \in Sources \X Histories |-> <<>>]
    /\ issued = {}
    /\ built = None /\ held = None /\ verdict = None

----------------------------------------------------------------------------
(* The sources.                                                            *)
Leaf(source, event, sequence) ==
    computeSourceEvidenceLeaf([envelopeId |-> event.id, sourceId |-> source,
                               rawEvidence |-> [digest |-> DigestOfBytes(event.bytes)]], sequence)

\* The perfect tree over a number of events that is a power of two, level by level.
Leaves(source, events, first) == [i \in 1 .. Len(events) |-> Leaf(source, events[i], first + i - 1)]
Height(n) == CHOOSE h \in 0 .. n : Pow2(h) = n
Paired(below) == [i \in 1 .. Len(below) \div 2 |-> Node(below[2 * i - 1], below[2 * i])]

Levels(leaves) ==
    LET level[k \in 0 .. Height(Len(leaves))] == IF k = 0 THEN leaves ELSE Paired(level[k - 1]) IN level

Record(log, id) ==
    /\ built = None /\ now < MaxTime
    /\ \A i \in DOMAIN recorded[log] : recorded[log][i].id # id
    /\ recorded' = [recorded EXCEPT ![log] = Append(@, [id |-> id, bytes |-> ContentOf(log[2], id), at |-> now])]
    /\ now' = now + 1
    /\ UNCHANGED <<issued, built, held, verdict>>

\* A checkpoint of the events first .. last of one history, with a gap or none.
Issue(log, first, last, gaps) ==
    LET source == log[1]
        events == SubSeq(recorded[log], first, last)
        unsigned == sealSourceCheckpoint(
            [checkpointId |-> Cardinality(issued) + 1, sourceId |-> source, epoch |-> "epoch",
             issuedAt |-> now, windowStart |-> 0, windowEnd |-> now,
             firstSequence |-> first - 1, lastSequence |-> last - 1, eventCount |-> Len(events),
             merkleRoot |-> Levels(Leaves(source, events, first - 1))[Height(Len(events))][1],
             declaredGaps |-> gaps], <<>>)
        checkpoint == With(unsigned, "proofs", <<createSourceCheckpointProof(unsigned, KeyOf[source], source)>>)
    IN  /\ built = None /\ Cardinality(issued) < MaxIssued
        /\ \E h \in 0 .. Len(events) : Pow2(h) = Len(events)
        /\ issued' = issued \cup {[checkpoint |-> checkpoint, events |-> events]}
        /\ UNCHANGED <<now, recorded, built, held, verdict>>

----------------------------------------------------------------------------
(* The collector.                                                          *)
\* Where a signed checkpoint has this event, its inclusion proof; None elsewhere.
InclusionOf(source, event, chosen) ==
    LET having == {i \in chosen : i.checkpoint.sourceId = source /\ event \in {i.events[k] : k \in DOMAIN i.events}}
        i      == CHOOSE i \in having : TRUE
        leaf   == (CHOOSE k \in DOMAIN i.events : i.events[k] = event) - 1
        tree   == Levels(Leaves(source, i.events, i.checkpoint.firstSequence))
        Sibling(k) == LET at == leaf \div Pow2(k) IN tree[k][IF at % 2 = 0 THEN at + 2 ELSE at]
    IN  IF having = {} THEN None
        ELSE [checkpointId |-> i.checkpoint.checkpointId, sequence |-> i.checkpoint.firstSequence + leaf,
              leafIndex |-> leaf, treeSize |-> Len(i.events),
              auditPath |-> [k \in 1 .. Height(Len(i.events)) |-> Sibling(k - 1)]]

EnvelopeOf(source, event, chosen) ==
    LET digest == DigestOfBytes(event.bytes)
    IN  sealProtocolEvidenceEnvelope(
            [envelopeId |-> event.id, sourceId |-> source, eventClass |-> "payment", capturedAt |-> event.at,
             mediaType |-> "json", upstreamValid |-> TRUE,
             rawEvidence |-> [digest |-> digest, byteLength |-> Len(event.bytes),
                              reference |-> [referenceId |-> event.id, kind |-> "content_addressed", value |-> digest]],
             mapping |-> sealDeterministicMappingTrace(
                            [inputDigest |-> digest,
                             outputArtifacts |-> [k \in 1 .. 1 |-> [path |-> 1, digest |-> Bundle.entries[1]]],
                             steps |-> <<[ruleId |-> "rule", status |-> "satisfied"]>>]),
             checkpointInclusion |-> InclusionOf(source, event, chosen)])

\* Captured is a set of <<source, event>>.
Build(captured, contract, snapshot) ==
    /\ built = None /\ captured # {}
    /\ \A c, d \in captured : c[2].id = d[2].id => c = d
    /\ built' = createMandateBoundCasePack(
           [casePackId |-> "case", createdAt |-> now, nativeEvidenceBundle |-> Bundle,
            protocolEvidence |-> SetToSeq({EnvelopeOf(c[1], c[2], issued) : c \in captured}),
            externalTrustSnapshot |-> snapshot, delegationContext |-> Delegation, coverageContract |-> contract,
            sourceCheckpoints |-> SetToSeq({i.checkpoint : i \in issued})])
    /\ held' = built'
    /\ UNCHANGED <<now, recorded, issued, verdict>>

----------------------------------------------------------------------------
(* The carrier, once, and the caller.                                       *)
\* Nobody but a source signs with its key, and then a checkpoint it issued.
Signed == {<<KeyOf[i.checkpoint.sourceId], i.checkpoint.checkpointDigest>> : i \in issued}
Unforged(pack) ==
    \A c \in Checkpoints(pack) : \A j \in DOMAIN c.proofs :
        c.proofs[j].signature \in Signed \/ \A source \in Sources : c.proofs[j].signature[1] # KeyOf[source]

Alter ==
    /\ built # None /\ held = built /\ verdict = None
    /\ held' \in {pack \in Edits(built) : Unforged(pack)}
    /\ UNCHANGED <<now, recorded, issued, built, verdict>>

\* The caller retained the contract and the snapshot that were sealed, or has no pin.
Verify(asOf, contractPin, snapshotPin, raw) ==
    LET anchors == [asOf |-> asOf, coveragePolicyDigest |-> built.coverageContract.policyDigest,
                    coverageContractDigest |-> contractPin, externalTrustSnapshotDigest |-> snapshotPin,
                    rawEvidence |-> raw]
    IN  /\ held # None /\ verdict = None /\ isArray(raw)
        /\ verdict' = [anchors |-> anchors, report |-> verifyMandateBoundCasePack(held, anchors),
                       diff |-> diffMandateBoundCasePacks(built, anchors, held, anchors)]
        /\ UNCHANGED <<now, recorded, issued, built, held>>

Captures == UNION {{<<log[1], recorded[log][i]>> : i \in DOMAIN recorded[log]} : log \in DOMAIN recorded}

Next ==
    \/ \E log \in DOMAIN recorded, id \in EventIds : Record(log, id)
    \/ \E log \in DOMAIN recorded : \E first, last \in DOMAIN recorded[log],
          gaps \in {<<>>, <<[fromSequence |-> 0, toSequence |-> 0]>>} : first <= last /\ Issue(log, first, last, gaps)
    \/ \E captured \in SUBSET Captures, terms \in Terms :
          Build(captured, terms.contract, terms.snapshot)
    \/ Alter
    \/ \E asOf \in now .. MaxTime + 1 : held # None /\
          \E contractPin \in {None, built.coverageContract.contractDigest},
             snapshotPin \in {None} \cup SnapshotDigests(built), raw \in Supplies(held) :
                Verify(asOf, contractPin, snapshotPin, raw)

Spec == Init /\ [][Next]_vars

----------------------------------------------------------------------------
\* Whoever carries the pack and seals it again, a valid report means that the
\* source itself signed for each envelope a requirement with a checkpoint counts:
\* at that sequence, with the bytes the caller has, in a checkpoint without gaps
\* that was not too old (verifyCheckpointForEnvelope and all it relies on).
CommittedBySource ==
    verdict # None /\ verdict.report.valid =>
        \A requirement \in {r \in Requirements(held) : r.checkpointRequirement = "required"} :
            LET matched == Matched(held, requirement)
                Committed(envelope) ==
                    \E i \in issued :
                        /\ i.checkpoint.sourceId = envelope.sourceId /\ i.checkpoint.declaredGaps = <<>>
                        /\ i.checkpoint.issuedAt <= verdict.anchors.asOf
                        /\ verdict.anchors.asOf <= i.checkpoint.issuedAt + requirement.maxCheckpointAgeSeconds
                        /\ \E k \in DOMAIN i.events, s \in Range(verdict.anchors.rawEvidence) :
                              /\ envelope.checkpointInclusion.sequence = i.checkpoint.firstSequence + k - 1
                              /\ i.events[k].id = envelope.envelopeId
                              /\ s.referenceId = envelope.rawEvidence.reference.referenceId
                              /\ s.bytes = i.events[k].bytes
            IN  /\ Cardinality(matched) >= requirement.minEnvelopes
                /\ \A envelope \in matched : Committed(envelope)

\* For each envelope that a requirement with a checkpoint counts: the very bytes,
\* and a checkpoint without gaps, issued in time, that includes it and bears a
\* proof by a key of its source.
ProvedAndIncluded(pack, anchors) ==
    \A requirement \in {r \in Requirements(pack) : r.checkpointRequirement = "required"} :
        \A envelope \in Matched(pack, requirement) :
            /\ RawStatus(envelope, rawEvidenceMap(anchors.rawEvidence).bytes) = "satisfied"
            /\ envelope.upstreamValid
            /\ \E c \in Named(pack, envelope.checkpointInclusion.checkpointId) :
                  /\ c.declaredGaps = <<>>
                  /\ ~(c.issuedAt > anchors.asOf) /\ ~(anchors.asOf > c.issuedAt + requirement.maxCheckpointAgeSeconds)
                  /\ verifyCheckpointInclusion(envelope, c) = "satisfied"
                  /\ \E i \in DOMAIN c.proofs : ProvedBy(c, c.proofs[i], pack.externalTrustSnapshot)

\* What a valid report rests on in the pack alone, whatever carried it there: no
\* early return of validateCasePackShape or verifyCheckpointForEnvelope, and no
\* status drowned by combineStatuses, lets a report be valid without it.
ValidIsProved == verdict # None /\ verdict.report.valid => ProvedAndIncluded(held, verdict.anchors)

\* A pack that is not the one that was sealed is never taken for it: its digest
\* differs, or it is not valid, and when the two can be compared the difference
\* names every part that changed (all but the signatures of a checkpoint).
EveryChangeIsTold ==
    verdict # None /\ held # built =>
        LET diff == verdict.diff
            Unsigned(pack) == {Without(c, {"proofs"}) : c \in Checkpoints(pack)}
            Changed(before, after, id) == {x[id] : x \in (before \ after) \cup (after \ before)}
        IN  /\ verdict.report.valid => held.casePackDigest # built.casePackDigest
            /\ diff.comparable =>
                  /\ diff.changed
                  /\ diff.protocol_evidence = Changed(Envelopes(built), Envelopes(held), "envelopeId")
                  /\ diff.source_checkpoint = Changed(Unsigned(built), Unsigned(held), "checkpointId")
                  /\ diff.nativeBundleChanged <=> built.nativeEvidenceBundle # held.nativeEvidenceBundle
                  /\ diff.coverageContractChanged <=> built.coverageContract # held.coverageContract
                  /\ diff.delegationContextChanged <=> built.delegationContext # held.delegationContext
                  /\ diff.externalTrustSnapshotChanged <=> built.externalTrustSnapshot # held.externalTrustSnapshot
=============================================================================
