-------------------------- MODULE DisputeProperties --------------------------
(***************************************************************************)
(* What a verified dispute means.  Nothing here looks at how src/ap2-dispute.ts *)
(* decides: the properties read the tokens as they were signed, whatever part    *)
(* of them was presented, and search for what the code computes.               *)
(***************************************************************************)
EXTENDS DisputePack

CONSTANTS SignedClaims(_),   \* the claims of a segment, as they were signed
          SignedPayload(_)   \* its payload, as it was signed

----------------------------------------------------------------------------
(* What is offered.  A plan has its fields, and a response breaks no shape that a  *)
(* retriever's must have.                                                      *)
OfferedArtifacts ==
    UNION {Range(response[3]) :
             response \in {answer \in UNION {UNION Range(Cases[d].offers) : d \in DOMAIN Cases} :
                             answer[1] = "response"}}

PlanHolds(plan) ==
    {"issuerKeySnapshot", "expectedNonce", "expectedCheckoutJwt", "expectedOpenCheckoutHash", "expectedMerchant"}
        \subseteq DOMAIN plan

ASSUME OffersAssumption ==
    /\ \A d \in DOMAIN Cases :
          /\ DOMAIN Cases[d].offers = Ids
          /\ Cases[d].transactionId # Undefined
          /\ PlanHolds(Cases[d].plan.checkoutMandate) /\ PlanHolds(Cases[d].plan.paymentMandate)
          /\ \A id \in Ids : \A answer \in Cases[d].offers[id] :
                answer \notin {Null, Rejected} => answer[1] = "response"
    /\ \A artifact \in OfferedArtifacts :
          /\ artifact.kind \in AP2_DISPUTE_ARTIFACT_KINDS
          /\ artifact.token[1] = "chain" => artifact.token[2] \in Seq(Range(artifact.token[2]))

\* Strings, numbers and keys: nothing in them can be withheld.
Atom(v) == v[1] \notin {"undefined", "array", "object"}

SaidBy(shown, signed) == \A name \in DOMAIN shown[2] : Atom(shown[2][name]) => Field(signed, name) = shown[2][name]

\* What is shown of a term stands in it where it was signed, Inner says so of each
\* part, and nothing else was signed unless a part is reported withheld.  Only the
\* array delegate_payload reports none.
InPlace(shown, signed, Inner(_, _)) ==
    /\ ~IsObject(shown) /\ ~IsArray(shown) => signed = shown
    /\ IsObject(shown) =>
          /\ IsObject(signed)
          /\ \A name \in DOMAIN shown[2] :
                \/ name = "delegate_payload" /\ IsArray(shown[2][name])
                \/ Inner(shown[2][name], Field(signed, name))
          /\ Withheld(shown) > 0 \/ DOMAIN signed[2] \subseteq DOMAIN shown[2]
    /\ IsArray(shown) =>
          /\ IsArray(signed)
          /\ \A entry \in Range(shown[2]) : \E meant \in Range(signed[2]) : Inner(entry, meant)
          /\ \/ Withheld(shown) > 0
             \/ /\ DOMAIN signed[2] = DOMAIN shown[2]
                /\ \A i \in DOMAIN shown[2] : Inner(shown[2][i], signed[2][i])

\* From the id of an acceptable item, through its requirement and its constraint, to
\* the payload.
LeafInPlace(shown, signed)        == ~IsObject(shown) /\ ~IsArray(shown) => signed = shown
ItemInPlace(shown, signed)        == InPlace(shown, signed, LeafInPlace)
ItemsInPlace(shown, signed)       == InPlace(shown, signed, ItemInPlace)
EntryInPlace(shown, signed)       == InPlace(shown, signed, ItemsInPlace)
EntriesInPlace(shown, signed)     == InPlace(shown, signed, EntryInPlace)
ConstraintInPlace(shown, signed)  == InPlace(shown, signed, EntriesInPlace)
ConstraintsInPlace(shown, signed) == InPlace(shown, signed, ConstraintInPlace)
PayloadInPlace(shown, signed)     == InPlace(shown, signed, ConstraintsInPlace)

ChainsOffered == {artifact.token[2] : artifact \in {a \in OfferedArtifacts : a.token[1] = "chain"}}

\* What a segment shows is what it was signed with: disclosures only put in its
\* place what their digests stand for.
ASSUME ShownAsSigned ==
    \A segments \in ChainsOffered : \A segment \in Range(segments) :
        LET Shown(resolution, payload) ==
              /\ IsObject(resolution.claims) /\ SaidBy(resolution.claims, SignedClaims(segment))
              /\ payload # Undefined => PayloadInPlace(payload, SignedPayload(segment))
        IN  Resolve(segment).ok => Shown(Resolve(segment), Payload(Resolve(segment)))

----------------------------------------------------------------------------
IdsAllowed(constraint) == {Field(entry, "id") : entry \in Entries(constraint, "allowed")}

Shared(share, places) == FoldSet(LAMBDA place, sum : sum + share[place], 0, places)
Bought(lines, id) == Shared([i \in DOMAIN lines |-> lines[i].quantity], {i \in DOMAIN lines : lines[i].id = id})
Takes(requirement, id) == requirement.acceptable = {} \/ id \in requirement.acceptable

\* Some hand-out of the cart gives each requirement its quantity of what it accepts.
HandedOut(requirements, lines) ==
    LET skus == {lines[i].id : i \in DOMAIN lines}
        most == Max({lines[i].quantity : i \in DOMAIN lines} \cup {0})
    IN  \E share \in [(DOMAIN requirements) \X skus -> 0 .. most] :
          /\ \A i \in DOMAIN requirements : requirements[i].quantity = Shared(share, {i} \X skus)
          /\ \A id \in skus : Bought(lines, id) = Shared(share, (DOMAIN requirements) \X {id})
          /\ \A i \in DOMAIN requirements, id \in skus : share[<<i, id>>] > 0 => Takes(requirements[i], id)

\* What carries every unit of a network is a hand-out: the bounded maximum flow is one.
ASSUME FullFlowIsHandedOut ==
    \A segments \in ChainsOffered : \A i, n \in DOMAIN segments :
        LET HandsOut(open, closed) ==
              \A constraint \in Entries(open, "constraints") :
                 Type(constraint) = Str("checkout.line_items") /\ verifyLineItemsConstraint(constraint, closed) =>
                    HandedOut(RequirementsOf(constraint), LinesOf(closed))
        IN  HandsOut(Payload(Resolve(segments[i])), Payload(Resolve(segments[n])))

\* Is this constraint, as it was signed, kept by the closed mandate?
Kept(constraint, closed, openHash) ==
    LET amount == Field(closed, "payment_amount")
        Limit(name) == Field(constraint, name)
    IN  CASE Type(constraint)[2] = "checkout.line_items" ->
                HandedOut(RequirementsOf(constraint), LinesOf(closed))
          [] Type(constraint)[2] = "checkout.allowed_merchants" ->
                Field(Field(CheckoutClaims(closed), "merchant"), "id") \in IdsAllowed(constraint)
          [] Type(constraint)[2] = "payment.reference" ->
                openHash # Undefined /\ Field(constraint, "conditional_transaction_id") = openHash
          [] Type(constraint)[2] = "payment.amount_range" ->
                /\ Field(amount, "currency") = Limit("currency")
                /\ Limit("min") # Undefined => Limit("min")[2] <= Field(amount, "amount")[2]
                /\ Field(amount, "amount")[2] <= Limit("max")[2]
          [] Type(constraint)[2] = "payment.allowed_payees" ->
                Field(Field(closed, "payee"), "id") \in IdsAllowed(constraint)
          [] Type(constraint)[2] = "payment.allowed_payment_instruments" ->
                Field(Field(closed, "payment_instrument"), "id") \in IdsAllowed(constraint)
          [] Type(constraint)[2] = "payment.allowed_pisps" ->
                \E allowed \in Entries(constraint, "allowed") : \A name \in PispNames :
                    Field(allowed, name) = Field(Field(closed, "pisp"), name)
          [] OTHER -> FALSE

Closed(token) == SignedPayload(Last(token[2]))

\* What the resolver selects, looked at when it returns: nothing changes it later.
Returned  == gathered # None /\ held = None
Selection == LET SelectedBy(resolution) == IF resolution = Thrown THEN <<>> ELSE resolution.selected
             IN  IF Returned THEN SelectedBy(Resolution) ELSE <<>>
PlanFor(kind) == Cases[dispute].plan[IF kind = "checkout_mandate" THEN "checkoutMandate" ELSE "paymentMandate"]

\* The one token of a kind that these sources have.
TokenIn(sources, kind) ==
    (CHOOSE artifact \in UNION {Range(source.artifacts) : source \in Range(sources)} : artifact.kind = kind).token

----------------------------------------------------------------------------
KeptBy(token, openHash) ==
    \A i \in 1 .. (Len(token[2]) - 1) : \A constraint \in Entries(SignedPayload(token[2][i]), "constraints") :
        Kept(constraint, Closed(token), openHash)

\* The open checkout mandate a payment may refer to: the selected one, or without one
\* what the plan says.
OpenCheckoutHash(selected) ==
    IF "checkout_mandate" \in DOMAIN selected THEN computeAp2OpenMandateHash(selected["checkout_mandate"].token)
    ELSE PlanFor("payment_mandate").expectedOpenCheckoutHash

\* Every constraint an open mandate was signed with, shown or withheld, is kept
\* by the closed mandate the resolver selects (verifyConstraints, and the
\* withheld-disclosure checks on which it relies).
ConstraintsAsSigned ==
    LET KeptAll(selected) ==
          \A kind \in Mandates \cap DOMAIN selected : KeptBy(selected[kind].token, OpenCheckoutHash(selected))
    IN  KeptAll(Selection)

\* Authority is handed on: the pinned issuer signed the first segment, and each
\* later one was signed by the key the payload before it confirms, names what it
\* follows, and has not expired; the last one answers this verifier's nonce and
\* shows no key to hand on to (verifyAp2MandateChain).
DelegatedByConfirmedKeys ==
    LET Delegated(selected) ==
          \A kind \in Mandates \cap DOMAIN selected :
          LET token    == selected[kind].token
              segments == token[2]
              plan     == PlanFor(kind)
              payload  == Evaluated([i \in DOMAIN segments |-> SignedPayload(segments[i])])
              Claim(i, name) == Field(SignedClaims(segments[i]), name)
          IN  /\ segments[1].jwt.key = plan.issuerKeySnapshot.jwk.point
              /\ \A i \in DOMAIN segments :
                    Field(payload[i], "exp") # Undefined
                    /\ Seconds(Cases[dispute].asOf) < Field(payload[i], "exp")[2]
              /\ \A i \in 2 .. Len(segments) :
                    /\ segments[i].jwt.key = cnfJwkFromPayload(payload[i - 1]).point
                    /\ \/ Claim(i, "sd_hash") = Digest(Presentation(segments[i - 1]))
                       \/ Claim(i, "issuer_jwt_hash") = Digest(Compact(segments[i - 1].jwt))
              /\ Len(segments) > 1 => Claim(Len(segments), "nonce") = Str(plan.expectedNonce)
              /\ cnfJwkFromPayload(Payload(Resolve(Last(segments)))) = None
    IN  Delegated(Selection)

\* A dispute is verified only when every retriever answered with something, no
\* two sources differ on a kind, and the four artifacts and the merchant's JWT
\* are about the one transaction: each receipt names the mandate of its family.
VerifiedIsOneTransaction ==
    Returned /\ Resolution.status = "evidence_verified" =>
        LET given == UNION {Range(source.artifacts) : source \in Range(gathered.sources)}
            Token(kind) == TokenIn(gathered.sources, kind)
            Bound(receipt, mandate) ==
                Field(Token(receipt)[2].claims, "reference") = Digest(Compact(Last(Token(mandate)[2]).jwt))
            checkout == Field(Closed(Token("checkout_mandate")), "checkout_jwt")
        IN  /\ \A attempt \in gathered.attempts : attempt.status = "provided"
            /\ \A a, b \in given : a.kind = b.kind => a.token = b.token
            /\ Digest(checkout) = Cases[dispute].transactionId
            /\ Field(Closed(Token("payment_mandate")), "transaction_id") = Cases[dispute].transactionId
            /\ checkout[2].key = Cases[dispute].plan.checkoutJwt.merchantKeySnapshot.jwk.point
            /\ Bound("checkout_receipt", "checkout_mandate")
            /\ Bound("payment_receipt", "payment_mandate")

\* The order in which retrievers settle, or in which a caller lists the sources,
\* changes nothing in the resolution (Promise.all over the sorted retrievers).
AnyOrder ==
    LET arrived == Evaluated([i \in DOMAIN settled |-> Answered(settled[i][1], settled[i][2])])
    IN  Returned => Resolution = assembleInternal(InputOf(dispute, SourcesIn(arrived)), AttemptsIn(arrived))

\* Once every retriever has answered or failed, the resolution comes; before, a
\* retriever that never settles may hold it back for ever (no timer bounds it).
ResolvesOnceAllAnswer == (Waiting = {}) ~> (gathered # None)

\* A copy that is not the pack the retained digest was taken of is never
\* verified nor reconciled, and the batch says that the status has changed.
OnlyTheRetainedPack ==
    review # None /\ held # retained.pack =>
        /\ review.item.status # "verified"
        /\ retained.status = "verified" => review.item.statusChanged
        /\ review.reconciliation.summary = "not_comparable"

\* A pack is verified only with both mandates reported unrevoked, and the payment
\* is called consistent only when the agent signed for the total, the currency
\* and the merchant that the merchant signed for.
ReviewedAsSigned ==
    review # None =>
        LET checkout == Field(Closed(TokenIn(held.sources, "checkout_mandate")), "checkout_jwt")
            payment  == Closed(TokenIn(held.sources, "payment_mandate"))
            paid     == Field(payment, "payment_amount")
        IN  /\ review.item.status = "verified" =>
                  /\ \A r \in Range(held.revocations) : r.reportedStatus = "not_revoked"
                  /\ \A kind \in Mandates : \E r \in Range(held.revocations) : r.mandateKind = kind
                  /\ \E v \in Range(held.checkoutVersions) : v.checkoutJwt = checkout
            /\ review.reconciliation.summary = "consistent" =>
                  /\ \E total \in Entries(checkout[2].claims, "totals") :
                        Field(total, "type") = Str("total") /\ Field(total, "amount") = Field(paid, "amount")
                  /\ Field(paid, "currency") = Field(checkout[2].claims, "currency")
                  /\ Field(Field(payment, "payee"), "id") = Field(Field(checkout[2].claims, "merchant"), "id")
=============================================================================
