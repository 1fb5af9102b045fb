------------------------------ MODULE Receipts ------------------------------
(***************************************************************************)
(* AP2 receipts (src/ucp-ap2/receipt.ts) and the merchant-signed Checkout JWT  *)
(* (checkout-jwt.ts): single JWTs, judged under a pinned key snapshot.         *)
(***************************************************************************)
EXTENDS MandateChain

IsDigest(v) == v[1] = "digest"

AllAbsent(claims, names)  == \A name \in names : ~Given(claims, name)
AllStrings(claims, names) == \A name \in names : IsString(Field(claims, name))

\* What each outcome must say and must not say, for each kind of receipt.
validateReceiptClaims(claims, kind, now) ==
    LET iat == Field(claims, "iat")
    IN  /\ IsString(Field(claims, "iss"))
        /\ IsNumber(iat) /\ iat[2] \in 0 .. (now + ClockSkew)
        /\ Field(claims, "status") \in {Str("Success"), Str("Error")}
        /\ IsDigest(Field(claims, "reference"))
        /\ IF Field(claims, "status") = Str("Error")
           THEN /\ AllStrings(claims, {"error", "error_description"})
                /\ AllAbsent(claims, {"order_id", "psp_confirmation_id", "network_confirmation_id"})
           ELSE /\ AllAbsent(claims, {"error", "error_description"})
                /\ kind = "checkout_receipt" => AllStrings(claims, {"order_id"})
                /\ kind = "payment_receipt" =>
                      AllStrings(claims, {"psp_confirmation_id", "network_confirmation_id"})
        /\ kind = "payment_receipt" => AllStrings(claims, {"payment_id"})

\* The signature of a JWT under the one key its plan pins.
SignedUnder(jwt, snapshot, allowed) ==
    verifyParsedJwtSignature(jwt, snapshot.jwk, allowed, snapshot.kid, "issuer")

\* mandate: the token the receipt must refer to, None when there is none.
verifyAp2Receipt(token, kind, plan, mandate, asOf) ==
    LET jwt       == token[2]
        now       == Seconds(asOf)
        reference == Field(jwt.claims, "reference")
        snapshot  == checkKeySnapshot(plan.issuerKeySnapshot, plan.expectedIssuerKeySourceDigest, asOf)
        signature == When(~SignedUnder(jwt, plan.issuerKeySnapshot, plan.allowedAlgorithms),
                          upstreamIssue("AP2_RECEIPT_SIGNATURE_INVALID"))
    IN  IF token[1] # "compact" THEN finish(None, {upstreamIssue("AP2_RECEIPT_INVALID")})
        ELSE IF ~validateReceiptClaims(jwt.claims, kind, now) THEN
            finish(None, snapshot \cup signature \cup {upstreamIssue("AP2_RECEIPT_CLAIMS_INVALID")})
        ELSE finish([claims |-> jwt.claims, reference |-> reference],
                    snapshot \cup signature
                    \cup When(Field(jwt.claims, "iss") # Str(plan.expectedIssuer),
                              upstreamIssue("AP2_RECEIPT_ISSUER_MISMATCH"))
                    \cup When(mandate = None, eligibilityIssue("AP2_RECEIPT_REFERENCE_UNANCHORED"))
                    \cup When(mandate # None /\ reference # computeAp2MandateReference(mandate),
                              upstreamIssue("AP2_RECEIPT_REFERENCE_MISMATCH")))

----------------------------------------------------------------------------
CheckoutStatuses == {Str(s) : s \in {"incomplete", "requires_escalation", "ready_for_complete",
                                     "complete_in_progress", "completed", "canceled"}}

ShortList(v) == IsArray(v) /\ Len(v[2]) <= MaxLineItems

validateCheckoutTotals(totals) ==
    ShortList(totals) /\ \A total \in Range(Items(totals)) :
                            IsString(Field(total, "type")) /\ IsNumber(Field(total, "amount"))

LineItemIsValid(line) ==
    /\ IsString(Field(line, "id"))
    /\ AllStrings(Field(line, "item"), {"id", "title"})
    /\ IsNumber(Field(line, "quantity")) /\ Field(line, "quantity")[2] >= 1
    /\ validateCheckoutTotals(Field(line, "totals"))

validateAp2CheckoutClaims(claims) ==
    /\ AllStrings(claims, {"id", "currency"})
    /\ ShortList(Field(claims, "line_items")) /\ ShortList(Field(claims, "links"))
    /\ \A line \in Entries(claims, "line_items") : LineItemIsValid(line)
    /\ Field(claims, "status") \in CheckoutStatuses
    /\ validateCheckoutTotals(Field(claims, "totals"))
    /\ \A link \in Entries(claims, "links") : AllStrings(link, {"type", "url"})
    /\ Given(claims, "merchant") => AllStrings(Field(claims, "merchant"), {"id", "name"})

\* Every check runs, and every one that fails leaves its issue.
verifyAp2CheckoutJwt(token, plan, asOf) ==
    LET jwt      == token[2]
        snapshot == checkKeySnapshot(plan.merchantKeySnapshot, plan.expectedMerchantKeySourceDigest, asOf)
    IN  IF token[1] # "compact" THEN finish(None, {upstreamIssue("AP2_CHECKOUT_JWT_INVALID")})
        ELSE finish([claims |-> jwt.claims],
                    snapshot
                    \cup When(~SignedUnder(jwt, plan.merchantKeySnapshot, plan.allowedAlgorithms),
                              upstreamIssue("AP2_CHECKOUT_JWT_SIGNATURE_INVALID"))
                    \cup When(plan.expectedIssuer # None /\ Field(jwt.claims, "iss") # Str(plan.expectedIssuer),
                              upstreamIssue("AP2_CHECKOUT_JWT_ISSUER_MISMATCH"))
                    \cup When(~TimesHold(jwt.claims, Seconds(asOf)), upstreamIssue("AP2_CHECKOUT_JWT_TIME_INVALID"))
                    \cup When(~validateAp2CheckoutClaims(jwt.claims), upstreamIssue("AP2_CHECKOUT_SCHEMA_INVALID")))
=============================================================================
