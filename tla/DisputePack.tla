----------------------------- MODULE DisputePack -----------------------------
(***************************************************************************)
(* AP2 Evidence Packs of src/ap2-dispute.ts: the sources of a dispute, the      *)
(* caller's plan, the history of the checkout and the revocation reports, under *)
(* one digest that a reviewer retains apart from the pack.  Copies of a pack     *)
(* travel; verification recomputes everything in the copy it is given.          *)
(***************************************************************************)
EXTENDS DisputeEvidence

CONSTANTS Histories,      \* dispute -> set of [versions, revocations] sealed with it
          CreationTimes,  \* instants a caller says a pack was made at
          Edits(_)        \* packs a copy of this pack may have become

\* Records have their fields, and the order of records is that of numbers: instants,
\* and the places of the ids.
AreRecords(list, fields, id, at) ==
    /\ list \in Seq(Range(list))
    /\ \A r \in Range(list) : fields \subseteq DOMAIN r /\ r[id] \in Int /\ r[at] \in Int

VersionFields    == {"versionId", "observedAt", "checkoutJwt"}
RevocationFields == {"recordId", "mandateKind", "checkedAt", "reportedStatus"}

ASSUME HistoriesAssumption ==
    /\ DOMAIN Cases \subseteq DOMAIN Histories
    /\ \A d \in DOMAIN Histories : \A history \in Histories[d] :
          /\ AreRecords(history.versions, VersionFields, "versionId", "observedAt")
          /\ AreRecords(history.revocations, RevocationFields, "recordId", "checkedAt")

Mandates == {"checkout_mandate", "payment_mandate"}

----------------------------------------------------------------------------
(* Sealing.  A version is [versionId, sourceId, observedAt, checkoutJwt], a      *)
(* revocation [recordId, mandateKind, sourceId, checkedAt, reportedStatus,        *)
(* snapshot]; sealed ones also store the digest of the JWT or of the snapshot.    *)
\* Mutant: the revocation reports are left out of the digest.
MaterialWithoutReports(pack) ==
    <<"pack", [name \in DOMAIN pack \ {"packDigest", "revocations"} |-> pack[name]]>>

packMaterial(pack) == <<"pack", [name \in DOMAIN pack \ {"packDigest"} |-> pack[name]]>>

DistinctIn(values, id) == \A i, j \in DOMAIN values : values[i][id] = values[j][id] => i = j

\* sort is stable: each element has its place after the ones ahead of it.
Placed(list, ahead) == [k \in DOMAIN list |-> list[CHOOSE i \in DOMAIN list : Cardinality(ahead[i]) = k - 1]]

\* id, at, digest and content are the names of fields of a record.
Earlier(a, b, at, id) == a[at] < b[at] \/ (a[at] = b[at] /\ a[id] < b[id])

InOrder(list, at, id) ==
    Placed(list, [i \in DOMAIN list |-> {j \in DOMAIN list : Earlier(list[j], list[i], at, id)}])

WithDigest(record, digest, content) == Override(record, [name \in {digest} |-> Digest(record[content])])

\* None for a history that the code throws on: otherwise the records, each with
\* the digest of its content, in the order of their times and then of their ids.
Materialized(values, sources, asOf, id, at, digest, content) ==
    IF /\ values # <<>> /\ DistinctIn(values, id)
       /\ \A v \in Range(values) : /\ v.sourceId \in {s.sourceId : s \in Range(sources)}
                                   /\ v[at] <= asOf + RetrievalSkew
    THEN InOrder([i \in 1 .. Len(values) |-> WithDigest(values[i], digest, content)], at, id)
    ELSE None

materializeCheckoutVersions(values, sources, asOf) ==
    Materialized(values, sources, asOf, "versionId", "observedAt", "checkoutJwtDigest", "checkoutJwt")

ReportedStatuses == {"not_revoked", "revoked", "unknown"}

materializeRevocations(values, sources, asOf) ==
    IF \A v \in Range(values) : v.mandateKind \in Mandates /\ v.reportedStatus \in ReportedStatuses
    THEN Materialized(values, sources, asOf, "recordId", "checkedAt", "snapshotDigest", "snapshot")
    ELSE None

Position(id) == CHOOSE i \in DOMAIN Retrievers : Retrievers[i] = id

BySourceId(sources) ==
    Placed(sources, [i \in DOMAIN sources |->
        {j \in DOMAIN sources : Position(sources[j].sourceId) < Position(sources[i].sourceId)}])

\* The pack, or None when packing throws.
packAp2DisputeEvidence(input, history, createdAt) ==
    LET sources     == BySourceId(input.sources)
        versions    == materializeCheckoutVersions(history.versions, sources, input.asOf)
        revocations == materializeRevocations(history.revocations, sources, input.asOf)
        material    == [transactionId |-> input.transactionId, asOf |-> input.asOf, createdAt |-> createdAt,
                        plan |-> input.plan, sources |-> sources,
                        checkoutVersions |-> versions, revocations |-> revocations]
    IN  IF \/ createdAt > input.asOf + RetrievalSkew
           \/ assembleAp2DisputeEvidence(input) = Thrown
           \/ versions = None \/ revocations = None
        THEN None
        ELSE Override(material, [packDigest |-> Digest(packMaterial(material))])

----------------------------------------------------------------------------
PackFields == {"transactionId", "asOf", "createdAt", "plan", "sources", "checkoutVersions", "revocations", "packDigest"}

\* Exactly the fields of a pack; what they hold has its types.
assertPackShape(pack) ==
    /\ DOMAIN pack = PackFields /\ pack = [name \in PackFields |-> pack[name]]
    /\ pack.createdAt <= pack.asOf + RetrievalSkew

PackIssue(code) == makeIssue(code, "pack", "invalid", {})

invalidPackReport ==
    [status |-> "unresolved", packDigest |-> None, anchorMatched |-> FALSE, digestValid |-> FALSE,
     checkoutVersionBinding |-> "missing", reportedRevocationState |-> "unknown",
     resolution |-> None, issues |-> {PackIssue("AP2_PACK_SHAPE_INVALID")}]

\* The digest each stored record carries against the one computed from its bytes.
StoredDigestsHold(computed, stored, id, digest) ==
    \A c \in Range(computed) : \E s \in Range(stored) : s[id] = c[id] /\ s[digest] = c[digest]

\* Mutant: one mandate's report is taken for both.
StateOfAnyReport(revocations, digestsHold) ==
    LET reported == {r.reportedStatus : r \in Range(revocations)}
    IN  IF "revoked" \in reported THEN "revoked"
        ELSE IF "unknown" \in reported \/ reported = {} \/ ~digestsHold THEN "unknown" ELSE "not_revoked"

RevocationState(revocations, digestsHold) ==
    LET reported == {r.reportedStatus : r \in Range(revocations)}
    IN  IF "revoked" \in reported THEN "revoked"
        ELSE IF "unknown" \in reported \/ {r.mandateKind : r \in Range(revocations)} # Mandates \/ ~digestsHold
             THEN "unknown"
        ELSE "not_revoked"

\* The report on a pack whose evidence is assembled anew to recomputed.  A throw
\* while that goes on leaves what was not reached empty.
PackReport(pack, expectedPackDigest, recomputed) ==
    LET digestValid   == Digest(packMaterial(pack)) = pack.packDigest
        anchorMatched == expectedPackDigest = pack.packDigest
        versions      == IF recomputed = Thrown THEN None
                         ELSE materializeCheckoutVersions(pack.checkoutVersions, pack.sources, pack.asOf)
        revocations   == IF versions = None THEN None
                         ELSE materializeRevocations(pack.revocations, pack.sources, pack.asOf)
        known(list)   == IF list = None THEN <<>> ELSE list
        pinned        == pack.plan.checkoutMandate.expectedCheckoutJwt
        binding       == IF pinned = Undefined \/ versions = None THEN "missing"
                         ELSE IF \E v \in Range(versions) : v.checkoutJwt = pinned THEN "matched"
                         ELSE "conflicting"
        versionsHold    == StoredDigestsHold(known(versions), pack.checkoutVersions,
                                             "versionId", "checkoutJwtDigest")
        revocationsHold == StoredDigestsHold(known(revocations), pack.revocations,
                                             "recordId", "snapshotDigest")
        state  == RevocationState(known(revocations), revocations # None /\ revocationsHold)
        issues == When(~digestValid, PackIssue("AP2_PACK_DIGEST_MISMATCH"))
                  \cup When(~anchorMatched, PackIssue("AP2_PACK_TRUST_ANCHOR_MISMATCH"))
                  \cup When(revocations = None, PackIssue("AP2_PACK_CONTENT_INVALID"))
                  \cup When(~versionsHold, PackIssue("AP2_CHECKOUT_VERSION_DIGEST_MISMATCH"))
                  \cup When(~revocationsHold, PackIssue("AP2_REVOCATION_SNAPSHOT_DIGEST_MISMATCH"))
                  \cup When(binding # "matched", PackIssue("AP2_CHECKOUT_VERSION_MISSING_OR_CONFLICT"))
                  \cup When(state # "not_revoked", PackIssue("AP2_REPORTED_REVOCATION"))
                  \cup When(recomputed.status # "evidence_verified", PackIssue("AP2_PACK_RESOLUTION_UNRESOLVED"))
    IN  IF ~assertPackShape(pack) THEN invalidPackReport
        ELSE [status |-> IF /\ digestValid /\ anchorMatched /\ recomputed.status = "evidence_verified"
                            /\ binding = "matched" /\ state = "not_revoked" /\ issues = {}
                         THEN "verified" ELSE "unresolved",
              packDigest |-> pack.packDigest, anchorMatched |-> anchorMatched, digestValid |-> digestValid,
              checkoutVersionBinding |-> binding, reportedRevocationState |-> state,
              resolution |-> IF recomputed = Thrown THEN None ELSE recomputed, issues |-> issues]

verifyAp2DisputeEvidencePack(pack, expectedPackDigest) ==
    PackReport(pack, expectedPackDigest, assembleAp2DisputeEvidence(pack))

----------------------------------------------------------------------------
(* Reconciliation: does the payment match the checkout?  Only what the same      *)
(* pack verified is compared.                                                   *)
compareState(left, right) ==
    IF ~IsString(left) \/ ~IsString(right) THEN "not_comparable"
    ELSE IF left = right THEN "matched" ELSE "mismatched"

\* The one total a Checkout states, Undefined when it states none or several.
TotalOf(checkout) ==
    LET items  == Items(Field(checkout, "totals"))
        totals == {i \in DOMAIN items : Field(items[i], "type") = Str("total")}
    IN  IF Cardinality(totals) = 1 THEN Field(items[CHOOSE i \in totals : TRUE], "amount") ELSE Undefined

\* Three states; Undefined claims compare with nothing.
reconcileVerifiedClaims(checkout, payment) ==
    LET currency == compareState(Field(Field(payment, "payment_amount"), "currency"), Field(checkout, "currency"))
        paid     == Field(Field(payment, "payment_amount"), "amount")
        total    == TotalOf(checkout)
    IN  [payee    |-> compareState(Field(Field(payment, "payee"), "id"), Field(Field(checkout, "merchant"), "id")),
         currency |-> currency,
         amount   |-> IF currency # "matched" \/ ~IsNumber(total) \/ ~IsNumber(paid) THEN "not_comparable"
                      ELSE IF total = paid THEN "matched" ELSE "mismatched"]

Reconciled(report) ==
    LET verified == /\ report.digestValid /\ report.anchorMatched
                    /\ report.resolution # None /\ report.resolution.status = "evidence_verified"
        checks   == IF verified
                    THEN reconcileVerifiedClaims(report.resolution.checkoutJwt.value.claims,
                                                 report.resolution.selected["payment_mandate"].value.claims)
                    ELSE reconcileVerifiedClaims(Undefined, Undefined)
        states   == {checks.payee, checks.currency, checks.amount}
    IN  [checks  |-> checks,
         summary |-> IF "mismatched" \in states THEN "inconsistent"
                     ELSE IF states = {"matched"} THEN "consistent" ELSE "not_comparable"]

reconcileAp2DisputeEvidencePack(pack, expectedPackDigest) ==
    Reconciled(verifyAp2DisputeEvidencePack(pack, expectedPackDigest))

\* One item of a batch: the report against the status recorded before.
verifyAp2DisputeEvidencePacks(pack, expectedPackDigest, previousStatus) ==
    LET Status(report) == IF report.packDigest = None THEN "invalid" ELSE report.status
        Item(report) == [report |-> report, status |-> Status(report),
                         statusChanged |-> previousStatus # None /\ Status(report) # previousStatus]
    IN  Item(verifyAp2DisputeEvidencePack(pack, expectedPackDigest))

----------------------------------------------------------------------------
VARIABLES retained,   \* [pack, status] as sealed, None before; the reviewer keeps its digest
          held,       \* the copy of the pack at hand
          review      \* the last batch item and reconciliation of that copy

packVars == <<retained, held, review>>
vars     == <<dispute, settled, gathered, retained, held, review>>

Init == EvidenceInit /\ retained = None /\ held = None /\ review = None

\* The sources that answered, what the caller adds, and a first verification.
Pack ==
    /\ gathered # None /\ held = None
    /\ \E history \in Histories[dispute], createdAt \in CreationTimes :
          held' = packAp2DisputeEvidence(InputOf(dispute, gathered.sources), history, createdAt)
    /\ held' # None
    /\ retained' = [pack |-> held', status |-> verifyAp2DisputeEvidencePack(held', held'.packDigest).status]
    /\ UNCHANGED <<dispute, settled, gathered, review>>

\* The copy is changed on its way, or another pack takes its place; once is
\* enough, as Edits may be as large as one likes.
Travel ==
    /\ held # None /\ held = retained.pack /\ review = None
    /\ held' \in Edits(held)
    /\ UNCHANGED <<dispute, settled, gathered, retained, review>>

Review ==
    /\ held # None /\ review = None
    /\ review' = [item |-> verifyAp2DisputeEvidencePacks(held, retained.pack.packDigest, retained.status),
                  reconciliation |-> reconcileAp2DisputeEvidencePack(held, retained.pack.packDigest)]
    /\ UNCHANGED <<dispute, settled, gathered, retained, held>>

Next ==
    \/ (\E id \in Ids : Settle(id)) /\ UNCHANGED packVars
    \/ resolveAp2DisputeEvidence /\ UNCHANGED packVars
    \/ Pack
    \/ Travel
    \/ Review

\* The event loop runs what every retriever answered; no timer makes one answer.
Spec == Init /\ [][Next]_vars /\ WF_vars(resolveAp2DisputeEvidence /\ UNCHANGED packVars)
=============================================================================
