---------------------------- MODULE MandateChain ----------------------------
(***************************************************************************)
(* verifyAp2MandateChain of src/ucp-ap2/mandate-chain.ts: a closed mandate     *)
(* signed directly by its issuer, or a chain in which each hop is signed by     *)
(* the key the hop before it confirms.  Options hold what the caller owns:      *)
(* issuer, keys, audience, nonce and the values the mandate must be bound to.   *)
(***************************************************************************)
EXTENDS MandateConstraints

CONSTANTS Resolve(_),    \* resolveAp2SegmentClaims: [claims, ok] of a segment
          Canonical(_)   \* canonicalize, a recursion over terms as the other is

RootTypes         == {None, "dc+sd-jwt", "example+sd-jwt"}
TerminalTypes     == {"kb+sd-jwt", "kb-sd-jwt"}
IntermediateTypes == {"kb+sd-jwt+kb", "kb-sd-jwt+kb"}

InheritanceExclusions == {"vct", "constraints", "cnf", "iat", "exp", "nbf", "iss"}

\* The key a payload confirms, None when it confirms none; a confirmation without
\* a key throws.
CnfHolds(payload) == Given(payload, "cnf") => Field(Field(payload, "cnf"), "jwk")[1] = "jwk"

cnfJwkFromPayload(payload) ==
    IF Given(payload, "cnf") THEN Field(Field(payload, "cnf"), "jwk")[2] ELSE None

Resolutions(segments) == Evaluated([i \in DOMAIN segments |-> Resolve(segments[i])])
Payload(resolution)   == effectiveDelegatePayload(resolution.claims)

----------------------------------------------------------------------------
\* Mutant: the hash of what was presented is there, and is compared with nothing.
BoundToJwt(claims, previous) ==
    /\ Cardinality({name \in {"sd_hash", "issuer_jwt_hash"} : Given(claims, name)}) = 1
    /\ Given(claims, "issuer_jwt_hash") => Field(claims, "issuer_jwt_hash") = Digest(Compact(previous.jwt))

\* The hash by which a hop binds itself to the one before: all it presented,
\* or its signed JWT alone.
BoundTo(claims, previous) ==
    LET hashes == {name \in {"sd_hash", "issuer_jwt_hash"} : Given(claims, name)}
    IN  /\ Cardinality(hashes) = 1
        /\ Given(claims, "sd_hash") => Field(claims, "sd_hash") = Digest(Presentation(previous))
        /\ Given(claims, "issuer_jwt_hash") => Field(claims, "issuer_jwt_hash") = Digest(Compact(previous.jwt))

\* What does not throw for the hop at position i, when the segments resolve so.
HopAccepted(segments, resolved, i, options, allowed, now) ==
    LET current  == segments[i]
        isLast   == i = Len(segments)
        claims   == resolved[i].claims
        payload  == Payload(resolved[i])
        signer   == cnfJwkFromPayload(Payload(resolved[i - 1]))
        confirms == cnfJwkFromPayload(payload)
    IN  /\ current.jwt.header.typ \in (IF isLast THEN TerminalTypes ELSE IntermediateTypes)
        /\ signer # None
        /\ verifyParsedJwtSignature(current.jwt, signer, allowed, signer.kid, "key-binding")
        /\ resolved[i].ok
        /\ BoundTo(claims, segments[i - 1])
        /\ Given(claims, "iat") /\ TimesHold(claims, now)
        /\ IsString(Field(claims, "aud")) /\ IsString(Field(claims, "nonce"))
        /\ isLast => /\ Field(claims, "aud") = Str(options.expectedAudience)
                     /\ Field(claims, "nonce") = Str(options.expectedNonce)
        /\ payload # Undefined
        /\ TimesHold(payload, now)
        /\ CnfHolds(payload)
        /\ isLast <=> confirms = None

RootAccepted(root, resolution, options, allowed, now) ==
    /\ root.jwt.header.typ \in RootTypes
    /\ verifyParsedJwtSignature(root.jwt, options.issuerKeySnapshot.jwk, allowed,
                                options.issuerKeySnapshot.kid, "issuer")
    /\ resolution.ok
    /\ Payload(resolution) # Undefined
    /\ TimesHold(Payload(resolution), now)
    /\ CnfHolds(Payload(resolution))

\* A chain with hops must say whom it is for; a single segment must be closed.
ChainAccepted(segments, resolved, options, allowed, now) ==
    LET confirmed == cnfJwkFromPayload(Payload(resolved[1]))
    IN  /\ RootAccepted(segments[1], resolved[1], options, allowed, now)
        /\ IF Len(segments) > 1
           THEN /\ options.expectedAudience # None /\ options.expectedNonce # None
                /\ confirmed # None
                /\ options.expectedAgentJwk # None =>
                      publicJwkIdentity(confirmed) = publicJwkIdentity(options.expectedAgentJwk)
                /\ \A i \in 2 .. Len(segments) : HopAccepted(segments, resolved, i, options, allowed, now)
           ELSE ~options.requireKeyBinding /\ confirmed = None

----------------------------------------------------------------------------
\* Every claim an open mandate fixes must be in the closed one as it was.
verifyAp2OpenInheritance(open, closed, options) ==
    LET openVct == IF options.expectedVct = CheckoutVct THEN "mandate.checkout.open.1" ELSE "mandate.payment.open.1"
    IN  When(Field(open, "vct") # Str(openVct), upstreamIssue("AP2_DELEGATION_VCT_MISMATCH"))
        \cup When(\E name \in DOMAIN open[2] \ InheritanceExclusions :
                      Canonical(Field(closed, name)) # Canonical(Field(open, name)),
                  upstreamIssue("AP2_DELEGATED_CLAIM_MISMATCH"))
        \cup verifyConstraints(open, options, closed, TRUE)

HasId(o) == IsString(Field(o, "id"))

PaymentSchemaHolds(claims) ==
    /\ IsString(Field(claims, "transaction_id"))
    /\ HasId(Field(claims, "payee")) /\ HasId(Field(claims, "payment_instrument"))
    /\ IsNumber(Field(Field(claims, "payment_amount"), "amount"))
    /\ IsString(Field(Field(claims, "payment_amount"), "currency"))

Differs(expected, value) == expected # Undefined /\ value # expected

\* The Checkout JWT in the mandate and its hash belong together, and are the ones
\* the caller expects.
CheckoutBindingIssues(claims, options) ==
    LET jwt   == Field(claims, "checkout_jwt")
        hash  == Field(claims, "checkout_hash")
        bound == IsString(jwt) /\ IsString(hash)
    IN  When(~bound, upstreamIssue("AP2_CHECKOUT_BINDING_MISSING"))
        \cup When(bound /\ hash # Digest(jwt), upstreamIssue("AP2_CHECKOUT_HASH_MISMATCH"))
        \cup When(bound /\ Differs(options.expectedCheckoutJwt, jwt), upstreamIssue("AP2_CHECKOUT_JWT_MISMATCH"))
        \cup When(bound /\ Differs(options.expectedCheckoutHash, hash),
                  upstreamIssue("AP2_EXPECTED_CHECKOUT_HASH_MISMATCH"))

verifyAp2ClosedMandateClaims(claims, options) ==
    When(Given(claims, "iss") /\ Field(claims, "iss") # Str(options.expectedIssuer),
         upstreamIssue("AP2_ISSUER_MISMATCH"))
    \cup When(Field(claims, "vct") # Str(options.expectedVct), upstreamIssue("AP2_VCT_MISMATCH"))
    \cup (IF options.expectedVct = CheckoutVct THEN CheckoutBindingIssues(claims, options)
          ELSE IF options.expectedVct = PaymentVct THEN
              When(~PaymentSchemaHolds(claims), upstreamIssue("AP2_PAYMENT_MANDATE_SCHEMA_INVALID"))
              \cup When(Differs(options.expectedCheckoutHash, Field(claims, "transaction_id")),
                        upstreamIssue("AP2_PAYMENT_CHECKOUT_BINDING_MISMATCH"))
          ELSE {upstreamIssue("AP2_CLOSED_MANDATE_TYPE_UNSUPPORTED")})

----------------------------------------------------------------------------
\* What throws ends in one issue; the issues that came before it change nothing
\* in the verdict and are left out.
ChainReport(token, resolved, options) ==
    LET now      == Seconds(options.asOf)
        segments == token[2]
        payloads == Evaluated([i \in DOMAIN segments |-> Payload(resolved[i])])
        opened   == {payloads[i] : i \in 1 .. (Len(segments) - 1)}
        root     == resolved[1].claims
        issues   ==
            When(Given(root, "iss") /\ Field(root, "iss") # Str(options.expectedIssuer),
                 upstreamIssue("AP2_ISSUER_MISMATCH"))
            \cup (UNION {verifyExpiryClaims(payload, now) : payload \in Range(payloads)})
            \cup (UNION {verifyAp2OpenInheritance(open, Last(payloads), options) : open \in opened})
            \cup verifyAp2ClosedMandateClaims(Last(payloads), options)
        snapshot == checkKeySnapshot(options.issuerKeySnapshot, options.expectedIssuerKeySourceDigest, options.asOf)
    IN  IF ~ChainParses(token) \/ ~ChainAccepted(segments, resolved, options, options.allowedAlgorithms, now)
        THEN finish(None, snapshot \cup {upstreamIssue("AP2_MANDATE_CHAIN_INVALID")})
        ELSE finish([claims |-> Last(payloads), chainDepth |-> Len(segments),
                     terminalCompactJws |-> Last(segments).jwt], snapshot \cup issues)

verifyAp2MandateChain(token, options) == ChainReport(token, Resolutions(token[2]), options)

\* computeAp2MandateReference and computeAp2OpenMandateHash, for tokens that parse.
computeAp2MandateReference(token) == Digest(Compact(Last(token[2]).jwt))
computeAp2OpenMandateHash(token)  == Digest(Presentation(token[2][1]))
=============================================================================
