------------------------------ MODULE MCDispute ------------------------------
(***************************************************************************)
(* One purchase, and what may differ from it: who signed what, for whom, until  *)
(* when, what the user's constraints say, and how much of them is presented.    *)
(* A dispute is the honest purchase with the edits its name stands for.         *)
(***************************************************************************)
EXTENDS DisputeProperties, SdJwt, BoundedFlow, SignedTerms

Now  == 1000
AsOf == Now * Second

Text(fields) == Obj([name \in DOMAIN fields |-> Str(fields[name])])
Optional(name, v) == IF v = None THEN <<>> ELSE name :> v

Key(point)  == [point |-> point, crv |-> "P-256", kid |-> point]
Source32(s) == Digest(Str(s))
Snapshot(point) ==
    [kid |-> point, jwk |-> Key(point), sourceDigest |-> Source32(point), capturedAt |-> AsOf - 5000,
     validUntil |-> AsOf, validFrom |-> AsOf, invalidFrom |-> AsOf + 1]
Jwt(point, kid, typ, claims) ==
    [header |-> [alg |-> "ES256", kid |-> kid, typ |-> typ, others |-> {}], claims |-> claims, key |-> point]

----------------------------------------------------------------------------
(* Selective disclosure: every constraint, requirement and acceptable item is    *)
(* an array element of its own disclosure, named by its salt.                    *)
Sd(salt, v) == Placeholder([salt |-> salt, name |-> None, value |-> v])
Listed(name, values) == Arr([i \in DOMAIN values |-> Sd(name \o ToString(i), values[i])])

Constraint(type, fields) == Obj([type |-> Str(type)] @@ fields)

Requirements(list) ==
    Constraint("checkout.line_items",
        [items |-> Listed("requirement",
            [i \in DOMAIN list |-> Obj([id |-> Str("r"), quantity |-> Num(list[i].quantity),
                acceptable_items |-> Listed("item" \o ToString(i) \o "-",
                    [k \in DOMAIN list[i].items |-> Text([id |-> list[i].items[k], title |-> "thing"])])])])])

AllowedIds(type, ids) == Constraint(type, [allowed |-> Listed("allowed", [i \in DOMAIN ids |-> Text([id |-> ids[i]])])])

\* The lower end of the range is a field the presenter may keep to itself.
AmountRange(min, max) ==
    Constraint("payment.amount_range",
        [currency |-> Str("USD"), max |-> Num(max),
         _sd |-> Arr(<<Digest(Exact([salt |-> "min", name |-> "min", value |-> Num(min)]))>>)])

RECURSIVE Presented(_, _)
Presented(v, hidden) ==
    CASE v[1] = "digest" /\ v[2][1] = "exact" ->
            IF v[2][2].salt \in hidden THEN {} ELSE {v[2][2]} \cup Presented(v[2][2].value, hidden)
      [] IsArray(v)  -> UNION {Presented(v[2][i], hidden) : i \in DOMAIN v[2]}
      [] IsObject(v) -> UNION {Presented(v[2][name], hidden) : name \in DOMAIN v[2]}
      [] OTHER -> {}

----------------------------------------------------------------------------
(* A mandate: an open payload the user signs, one the agent adds when there are   *)
(* three segments, and the closed one.                                          *)
Honest ==
    [rootKey |-> "user", rootKid |-> "user", rootTyp |-> "dc+sd-jwt", rootIss |-> "wallet", openVct |-> None,
     openExp |-> Now + 1, cnf |-> "agent", sdAlg |-> None, hidden |-> {}, added |-> <<>>, middle |-> FALSE,
     middleKey |-> "agent", fixed |-> <<>>, hopKey |-> "agent", hopTyp |-> "kb+sd-jwt", bind |-> {"sd_hash"},
     bound |-> "previous", iat |-> Now, aud |-> "verifier", nonce |-> "n1", closedCnf |-> None,
     closedVct |-> None, closedExp |-> Now + 1, direct |-> FALSE, spare |-> FALSE]

Segment(jwt, hidden, added) ==
    [jwt |-> jwt, disclosures |-> FoldSet(LAMBDA d, list : Append(list, d), <<>>, Presented(jwt.claims, hidden)) \o added]

Payloads(list) == [delegate_payload |-> Listed("payload", list)]

Hop(m, kid, point, typ, previous, payload) ==
    LET hash(name) == CASE m.bound # "previous" -> Source32("other")
                        [] name = "sd_hash"     -> Digest(Presentation(previous))
                        [] OTHER                -> Digest(Compact(previous.jwt))
        claims == [aud |-> Str(m.aud), nonce |-> Str(m.nonce)] @@ [name \in m.bind |-> hash(name)]
                  @@ Optional("iat", IF m.iat = None THEN None ELSE Num(m.iat)) @@ Payloads(<<payload>>)
    IN  Segment(Jwt(point, kid, typ, Obj(claims)), {}, <<>>)

ChainOf(m, family, constraints, closed) ==
    LET confirm(point) == Optional("cnf", IF point = None THEN None ELSE Obj([jwk |-> Jwk(Key(point))]))
        expires(t) == Optional("exp", IF t = None THEN None ELSE Num(t))
        open(point) == Obj([vct |-> Str(IF m.openVct = None THEN "mandate." \o family \o ".open.1" ELSE m.openVct),
                            constraints |-> Listed("constraint", constraints)]
                           @@ m.fixed @@ confirm(point) @@ expires(m.openExp))
        payload == Obj([vct |-> Str(IF m.closedVct = None THEN "mandate." \o family \o ".1" ELSE m.closedVct)]
                       @@ closed @@ confirm(m.closedCnf) @@ expires(m.closedExp))
        root(v) == Segment(Jwt(m.rootKey, m.rootKid, m.rootTyp,
                               Obj([iss |-> Str(m.rootIss)] @@ Payloads(IF m.spare THEN <<Str("spare"), v>> ELSE <<v>>)
                                   @@ Optional("_sd_alg", IF m.sdAlg = None THEN None ELSE Str(m.sdAlg)))),
                           m.hidden, m.added)
        closing(segments, kid) ==
            Chain(Append(segments, Hop(m, kid, m.hopKey, m.hopTyp, Last(segments), payload)))
        follow(first) ==
            IF m.middle THEN closing(<<first, Hop(m, m.cnf, m.middleKey, "kb+sd-jwt+kb", first, open("second"))>>, "second")
            ELSE closing(<<first>>, m.cnf)
    IN  IF m.direct THEN Chain(<<root(payload)>>) ELSE follow(root(open(m.cnf)))

----------------------------------------------------------------------------
(* The purchase: a cart, its merchant and price, the two mandates, two receipts.  *)
Purchase ==
    [cart |-> <<[id |-> "a", quantity |-> 1], [id |-> "b", quantity |-> 1]>>, total |-> 10, currency |-> "USD",
     merchant |-> "m1", checkoutKey |-> "merchant", checkoutExp |-> Now + 1, status |-> "completed",
     requirements |-> <<[items |-> <<"a", "b">>, quantity |-> 1], [items |-> <<"a">>, quantity |-> 1]>>,
     merchants |-> <<"m1", "m2">>, min |-> 5, max |-> 20, payees |-> <<"m1">>, extra |-> <<>>, reference |-> "open",
     amount |-> 10, paid |-> "USD", payee |-> "m1", instrument |-> "card", pisp |-> None, hash |-> "own", tx |-> "own",
     c |-> Honest, p |-> Honest,
     receiptKey |-> "merchant", receiptIss |-> "shop", receiptIat |-> Now, refers |-> "own", outcome |-> "Success",
     order |-> TRUE, confirmation |-> TRUE, snapshot |-> Snapshot("user"), plan |-> "pinned", alg |-> {"ES256"}]

CheckoutJwt(w) ==
    Jwt(w.checkoutKey, "merchant", None,
        Obj([id |-> Str("checkout"), iss |-> Str("shop"), exp |-> Num(w.checkoutExp), status |-> Str(w.status),
             currency |-> Str(w.currency), links |-> Arr(<<>>),
             totals |-> Arr(<<Obj([type |-> Str("total"), amount |-> Num(w.total)])>>),
             merchant |-> Text([id |-> w.merchant, name |-> "shop"]),
             line_items |-> Arr([i \in DOMAIN w.cart |->
                 Obj([id |-> Str("line"), item |-> Text([id |-> w.cart[i].id, title |-> "thing"]),
                      quantity |-> Num(w.cart[i].quantity), totals |-> Arr(<<>>)])])]))

CheckoutMandate(w) ==
    ChainOf(w.c, "checkout", <<Requirements(w.requirements), AllowedIds("checkout.allowed_merchants", w.merchants)>>,
            [checkout_jwt |-> Compact(CheckoutJwt(w)),
             checkout_hash |-> IF w.hash = "own" THEN Digest(Compact(CheckoutJwt(w))) ELSE Source32("other")])

Pisp(name)    == Text([legal_name |-> name, brand_name |-> name, domain_name |-> "pay.example"])
Pisps(names)  == Constraint("payment.allowed_pisps", [allowed |-> Listed("pisp", [i \in DOMAIN names |-> Pisp(names[i])])])

PaymentMandate(w) ==
    ChainOf(w.p, "payment",
            <<Constraint("payment.reference",
                  [conditional_transaction_id |-> IF w.reference = "open" THEN computeAp2OpenMandateHash(CheckoutMandate(w))
                                                  ELSE Source32("other")]),
              AmountRange(w.min, w.max), AllowedIds("payment.allowed_payees", w.payees)>> \o w.extra,
            [transaction_id |-> IF w.tx = "own" THEN Digest(Compact(CheckoutJwt(w))) ELSE Source32("other"),
             payee |-> Text([id |-> w.payee]), payment_instrument |-> Text([id |-> w.instrument]),
             payment_amount |-> Obj([amount |-> Num(w.amount), currency |-> Str(w.paid)])]
            @@ Optional("pisp", IF w.pisp = None THEN None ELSE Pisp(w.pisp)))

Receipt(w, mandate, kind) ==
    LET names == CASE kind = "payment" -> {"payment_id"} \cup
                        (IF w.confirmation THEN {"psp_confirmation_id", "network_confirmation_id"} ELSE {})
                   [] w.order -> {"order_id"}
                   [] OTHER -> {}
        errors == IF w.outcome = "Error" THEN {"error", "error_description"} ELSE {}
    IN  Compact(Jwt(w.receiptKey, "merchant", None,
            Obj([iss |-> Str(w.receiptIss), iat |-> Num(w.receiptIat), status |-> Str(w.outcome),
                 reference |-> IF w.refers = "own" THEN computeAp2MandateReference(mandate) ELSE Source32("other")]
                @@ [name \in names \cup errors |-> Str("x")])))

PlanOf(w) ==
    LET merchant == Snapshot("merchant")
        mandate  == [issuerKeySnapshot |-> w.snapshot, expectedIssuerKeySourceDigest |-> Source32("user"),
                     expectedIssuer |-> "wallet", expectedAudience |-> "verifier", expectedNonce |-> "n1",
                     expectedAgentJwk |-> Key("agent"), requireKeyBinding |-> w.plan # "open",
                     allowedAlgorithms |-> w.alg, expectedOpenCheckoutHash |-> Undefined,
                     expectedMerchant |-> IF w.plan # "open" THEN Text([id |-> "m1"]) ELSE Undefined,
                     expectedCheckoutJwt |-> Undefined]
        receipt  == [issuerKeySnapshot |-> merchant, expectedIssuerKeySourceDigest |-> Source32("merchant"),
                     expectedIssuer |-> "shop", allowedAlgorithms |-> {"ES256"}]
    IN  [checkoutMandate |-> [mandate EXCEPT !.expectedCheckoutJwt = Compact(CheckoutJwt(w))],
         paymentMandate  |-> [mandate EXCEPT !.expectedOpenCheckoutHash =
                                  IF w.plan = "hash" THEN computeAp2OpenMandateHash(CheckoutMandate(w)) ELSE @],
         checkoutReceipt |-> receipt, paymentReceipt |-> receipt,
         checkoutJwt     |-> [merchantKeySnapshot |-> merchant, expectedMerchantKeySourceDigest |-> Source32("merchant"),
                              allowedAlgorithms |-> {"ES256"}, expectedIssuer |-> "shop"]]

----------------------------------------------------------------------------
(* The disputes.                                                              *)
Decoy == [salt |-> "decoy", name |-> None, value |-> Str("decoy")]

MandateEdits(m) == <<
    [m EXCEPT !.rootKey = "other"], [m EXCEPT !.rootKid = "other"], [m EXCEPT !.rootTyp = "jwt"],
    [m EXCEPT !.rootIss = "other"], [m EXCEPT !.openVct = "mandate.other"], [m EXCEPT !.openExp = None],
    [m EXCEPT !.openExp = Now], [m EXCEPT !.cnf = None], [m EXCEPT !.cnf = "other"],
    [m EXCEPT !.sdAlg = "sha-512"], [m EXCEPT !.added = <<Decoy>>],
    [m EXCEPT !.hidden = {"payload1"}], [m EXCEPT !.hidden = {"constraint1"}],
    [m EXCEPT !.hidden = {"constraint2"}], [m EXCEPT !.hidden = {"allowed1"}],
    [m EXCEPT !.hidden = {"min", "requirement1"}], [m EXCEPT !.hidden = {"item1-1"}],
    [m EXCEPT !.hidden = {"item1-2"}], [m EXCEPT !.hidden = {"item2-1"}],
    [m EXCEPT !.hopKey = "other"], [m EXCEPT !.hopTyp = "kb+sd-jwt+kb"],
    [m EXCEPT !.bind = {"issuer_jwt_hash"}], [m EXCEPT !.bind = {"sd_hash", "issuer_jwt_hash"}],
    [m EXCEPT !.bound = "other"], [m EXCEPT !.iat = None], [m EXCEPT !.iat = Now + ClockSkew + 1],
    [m EXCEPT !.iat = Now + ClockSkew], [m EXCEPT !.aud = "other"], [m EXCEPT !.nonce = "n2"],
    [m EXCEPT !.closedCnf = "second"], [m EXCEPT !.closedVct = "mandate.other"],
    [m EXCEPT !.closedExp = None], [m EXCEPT !.closedExp = Now],
    [m EXCEPT !.middle = TRUE, !.hopKey = "second"], [m EXCEPT !.middle = TRUE],
    [m EXCEPT !.middle = TRUE, !.hopKey = "second", !.middleKey = "other"],
    [m EXCEPT !.fixed = [payee |-> Text([id |-> "m2"])]],
    [m EXCEPT !.direct = TRUE], [m EXCEPT !.direct = TRUE, !.rootKey = "agent"],
    [m EXCEPT !.spare = TRUE], [m EXCEPT !.spare = TRUE, !.hidden = {"payload1"}]>>

PurchaseEdits(w) == <<
    [w EXCEPT !.cart = <<[id |-> "a", quantity |-> 2]>>],
    [w EXCEPT !.cart = <<[id |-> "b", quantity |-> 2]>>],
    [w EXCEPT !.cart = <<[id |-> "a", quantity |-> 1]>>],
    [w EXCEPT !.cart = <<[id |-> "a", quantity |-> 1], [id |-> "c", quantity |-> 1]>>],
    [w EXCEPT !.requirements = <<[items |-> <<"b">>, quantity |-> 1], [items |-> <<"a", "b">>, quantity |-> 1]>>],
    [w EXCEPT !.cart = <<[id |-> "c", quantity |-> 1], [id |-> "a", quantity |-> 1]>>,
                     !.requirements = <<[items |-> <<>>, quantity |-> 1], [items |-> <<"a">>, quantity |-> 1]>>],
    [w EXCEPT !.cart = <<[id |-> "c", quantity |-> 1], [id |-> "a", quantity |-> 1]>>,
                     !.requirements = <<[items |-> <<"b">>, quantity |-> 1], [items |-> <<"a">>, quantity |-> 1]>>,
                     !.c.hidden = {"item1-1"}],
    [w EXCEPT !.merchant = "m2", !.payee = "m2", !.payees = <<"m2">>],
    [w EXCEPT !.merchant = "m3", !.plan = "open"],
    [w EXCEPT !.checkoutKey = "other"], [w EXCEPT !.checkoutExp = Now],
    [w EXCEPT !.status = "paid"], [w EXCEPT !.hash = "other"], [w EXCEPT !.tx = "other"],
    [w EXCEPT !.reference = "other"], [w EXCEPT !.amount = 4], [w EXCEPT !.amount = 21],
    [w EXCEPT !.amount = 4, !.p.hidden = {"min"}], [w EXCEPT !.amount = 20],
    [w EXCEPT !.paid = "EUR"], [w EXCEPT !.payee = "m2"], [w EXCEPT !.min = 30],
    [w EXCEPT !.extra = <<AllowedIds("payment.allowed_payment_instruments", <<"card">>)>>],
    [w EXCEPT !.extra = <<AllowedIds("payment.allowed_payment_instruments", <<"bank">>)>>],
    [w EXCEPT !.extra = <<AllowedIds("payment.allowed_payment_instruments", <<"bank">>)>>,
                     !.p.hidden = {"constraint4"}],
    [w EXCEPT !.extra = <<Constraint("payment.allowed_pisps", [allowed |-> Arr(<<>>)])>>],
    [w EXCEPT !.extra = <<Constraint("payment.budget", [max |-> Num(10)])>>],
    [w EXCEPT !.receiptKey = "other"], [w EXCEPT !.receiptIss = "other"],
    [w EXCEPT !.receiptIat = Now + ClockSkew + 1], [w EXCEPT !.refers = "other"],
    [w EXCEPT !.outcome = "Error"],
    [w EXCEPT !.outcome = "Error", !.order = FALSE, !.confirmation = FALSE],
    [w EXCEPT !.order = FALSE], [w EXCEPT !.confirmation = FALSE],
    [w EXCEPT !.snapshot.validUntil = AsOf - 1], [w EXCEPT !.snapshot.capturedAt = AsOf + 1],
    [w EXCEPT !.snapshot.validFrom = AsOf + 1], [w EXCEPT !.snapshot.invalidFrom = AsOf],
    [w EXCEPT !.snapshot.sourceDigest = Source32("other")], [w EXCEPT !.alg = {"ES384"}],
    [w EXCEPT !.snapshot.capturedAt = AsOf, !.snapshot.validUntil = AsOf - 1],
    [w EXCEPT !.c.direct = TRUE, !.p.direct = TRUE, !.plan = "open"],
    [w EXCEPT !.pisp = "p1", !.extra = <<Pisps(<<"p2", "p1">>)>>],
    [w EXCEPT !.pisp = "p1", !.extra = <<Pisps(<<"p2", "p1">>)>>, !.p.hidden = {"pisp1"}],
    [w EXCEPT !.pisp = "p1", !.extra = <<Pisps(<<"p2", "p1">>)>>, !.p.hidden = {"pisp2"}],
    [w EXCEPT !.pisp = "p3", !.extra = <<Pisps(<<"p2", "p1">>)>>], [w EXCEPT !.extra = <<Pisps(<<"p1">>)>>],
    [w EXCEPT !.plan = "hash"], [w EXCEPT !.plan = "hash", !.c.closedExp = Now],
    [w EXCEPT !.plan = "hash", !.c.closedExp = Now, !.reference = "other"]>>

\* 1 is the honest purchase, asked of retrievers that may answer anything; in
\* the others they answer with what they hold.
Purchases ==
    LET Edited(w, edits) == <<w, w>> \o PurchaseEdits(w) \o [i \in DOMAIN edits |-> [w EXCEPT !.c = edits[i]]]
                            \o [i \in DOMAIN edits |-> [w EXCEPT !.p = edits[i]]]
    IN  Edited(Purchase, MandateEdits(Honest))

MCRetrievers == <<"agent", "merchant", "network">>
MCRoleOf     == [agent |-> "shopping_agent", merchant |-> "merchant", network |-> "network"]

Artifact(kind, token) == [kind |-> kind, token |-> token]

CheckoutArtifacts(w) ==
    LET With(mandate) == <<Artifact("checkout_mandate", mandate),
                           Artifact("checkout_receipt", Receipt(w, mandate, "checkout"))>>
    IN  With(CheckoutMandate(w))
PaymentArtifacts(w) ==
    LET With(mandate) == <<Artifact("payment_mandate", mandate),
                           Artifact("payment_receipt", Receipt(w, mandate, "payment"))>>
    IN  With(PaymentMandate(w))

Held(checkout, payment) == [agent    |-> {Response(AsOf, checkout \o payment)},
                            merchant |-> {Response(AsOf, checkout)},
                            network  |-> {Response(AsOf, payment)}]

OtherCheckout == CheckoutArtifacts([Purchase EXCEPT !.total = 11])

Anything(checkout, payment) ==
    LET honest == Held(checkout, payment)
    IN  [agent    |-> honest.agent \cup {Null, Rejected, Response(AsOf, checkout),
                                       Response(AsOf + RetrievalSkew, payment),
                                       Response(AsOf + RetrievalSkew + 1, checkout)},
         merchant |-> honest.merchant \cup {Null, Response(AsOf, OtherCheckout), Response(AsOf, payment),
                                          Response(AsOf, checkout \o checkout)},
         network  |-> honest.network \cup {Rejected, Response(AsOf, <<>>)}]

MCCases ==
    LET Offers(i, checkout, payment) == IF i = 1 THEN Anything(checkout, payment) ELSE Held(checkout, payment)
        CaseOf(i, w) == [transactionId |-> Digest(Compact(CheckoutJwt(w))), asOf |-> AsOf, plan |-> PlanOf(w),
                         offers |-> Offers(i, CheckoutArtifacts(w), PaymentArtifacts(w))]
        All(purchases) == [i \in DOMAIN purchases |-> CaseOf(i, purchases[i])]
    IN  All(Purchases)

----------------------------------------------------------------------------
(* Histories sealed with a dispute, and what may become of a sealed pack.        *)
Version(id, source, at, jwt) == [versionId |-> id, sourceId |-> source, observedAt |-> at, checkoutJwt |-> jwt]
Revocation(id, kind, at, status) ==
    [recordId |-> id, mandateKind |-> kind, sourceId |-> "network", checkedAt |-> at, reportedStatus |-> status,
     snapshot |-> <<"report", id, status>>]

Unrevoked == <<Revocation(1, "checkout_mandate", AsOf, "not_revoked"), Revocation(2, "payment_mandate", AsOf, "not_revoked")>>

History(w) == [versions |-> <<Version(1, "merchant", AsOf, Compact(CheckoutJwt(w)))>>, revocations |-> Unrevoked]

OtherVersion == Version(2, "agent", AsOf - 5, Compact(CheckoutJwt([Purchase EXCEPT !.total = 11])))
Revoked      == Revocation(3, "payment_mandate", AsOf + RetrievalSkew, "revoked")

HistoriesOfHonest ==
    LET h == History(Purchase)
    IN  {h, [h EXCEPT !.versions = Append(@, OtherVersion)], [h EXCEPT !.versions = <<OtherVersion>>],
         [h EXCEPT !.revocations = Append(@, Revoked)],
         [h EXCEPT !.revocations = Append(@, Revocation(3, "checkout_mandate", AsOf - 5, "unknown"))],
         [h EXCEPT !.revocations = <<Head(@)>>], [h EXCEPT !.revocations = <<>>],
         [h EXCEPT !.versions[1].sourceId = "stranger"], [h EXCEPT !.revocations[1].recordId = 2],
         [h EXCEPT !.revocations[1].checkedAt = AsOf + RetrievalSkew + 1]}

MCHistories ==
    LET All(purchases) == [i \in DOMAIN purchases |->
                             CASE i = 2 -> HistoriesOfHonest
                               [] i \in {3, 20, 34} -> {History(purchases[i])}
                               [] OTHER -> {}]
    IN  All(Purchases)

Sealed(pack) == [pack EXCEPT !.packDigest = Digest(packMaterial(pack))]

\* Alterations by whoever carries the pack, who may seal it again.
Hushed(pack) ==
    {[pack EXCEPT !.revocations = SelectSeq(@, LAMBDA r : r.recordId # 3)],
     [pack EXCEPT !.revocations = [i \in DOMAIN @ |-> [@[i] EXCEPT !.reportedStatus = "not_revoked"]]]}

Altered(pack) ==
    {[pack EXCEPT !.revocations[1].snapshot = <<"report", 1, "unknown">>],
     [pack EXCEPT !.checkoutVersions[1].checkoutJwt = OtherVersion.checkoutJwt],
     [pack EXCEPT !.checkoutVersions[1].observedAt = AsOf + RetrievalSkew + 1],
     [pack EXCEPT !.sources = SelectSeq(@, LAMBDA s : s.sourceId # "network")],
     [pack EXCEPT !.sources = SelectSeq(@, LAMBDA s : s.sourceId # "agent")],
     [pack EXCEPT !.sources[2].retrievedAt = AsOf - 1],
     [pack EXCEPT !.sources[2].artifacts[2].token = OtherCheckout[2].token],
     [pack EXCEPT !.plan.checkoutMandate.expectedMerchant = Undefined],
     [pack EXCEPT !.plan.checkoutMandate.expectedCheckoutJwt = Undefined],
     [pack EXCEPT !.transactionId = Source32("other")], [pack EXCEPT !.asOf = AsOf - 1],
     [pack EXCEPT !.createdAt = AsOf + RetrievalSkew], [pack EXCEPT !.createdAt = AsOf + RetrievalSkew + 1]}

Resealed(packs) == packs \cup {Sealed(pack) : pack \in packs}

MCEdits(pack) ==
    CASE pack.transactionId # Digest(Compact(CheckoutJwt(Purchase))) -> {}
      [] {r.reportedStatus : r \in Range(pack.revocations)} = {"not_revoked", "revoked"} -> Resealed(Hushed(pack))
      [] Len(pack.checkoutVersions) = 1 /\ Len(pack.revocations) = 2 ->
            Resealed(Altered(pack)) \cup {[pack EXCEPT !.packDigest = Source32("other")],
                                       [name \in PackFields \ {"revocations"} |-> pack[name]]}
      [] OTHER -> {}

----------------------------------------------------------------------------
\* The other way round than FullFlowIsHandedOut: a cart of safe quantities that some
\* hand-out serves is not refused, so no augmenting path of its flow is missed.
ASSUME HandedOutIsNotRefused ==
    \A segments \in ChainsOffered : \A i, n \in DOMAIN segments :
        LET Safe(entries) == Bounded(entries) /\ QuantityOf(entries) <= MaxSafeInteger
            NotRefused(open, closed) ==
              \A constraint \in Entries(open, "constraints") :
                 /\ Type(constraint) = Str("checkout.line_items")
                 /\ LineItemsWellFormed(constraint, closed)
                 /\ Safe(RequirementsOf(constraint)) /\ Safe(LinesOf(closed))
                 /\ HandedOut(RequirementsOf(constraint), LinesOf(closed))
                 => verifyLineItemsConstraint(constraint, closed)
        IN  NotRefused(Payload(Resolve(segments[i])), Payload(Resolve(segments[n])))
=============================================================================
