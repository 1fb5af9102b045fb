------------------------------- MODULE Jose -------------------------------
(***************************************************************************)
(* Keys, protected headers and signatures of src/ucp-ap2/jwk.ts, and the      *)
(* verdict every verifier of that directory returns (primitives.ts).          *)
(* A key is [point, crv, kid]; kid may be None.  Malformed JWK members, raw    *)
(* signature lengths and base64url are refused before any of this applies.    *)
(***************************************************************************)
EXTENDS JwtTerms

\* Instants are milliseconds, JWT claims are seconds.
Second       == 1000
Seconds(t)   == t \div Second
ClockSkew    == 60

upstreamIssue(code)    == <<code, "upstream_validity">>
eligibilityIssue(code) == <<code, "evidence_eligibility">>

\* The issue, if the condition holds.
When(condition, issue) == IF condition THEN {issue} ELSE {}

Impacts(issues) == {issue[2] : issue \in issues}

finish(value, issues) ==
    LET valid == "upstream_validity" \notin Impacts(issues)
    IN  [upstreamValid    |-> valid,
         evidenceEligible |-> valid /\ "evidence_eligibility" \notin Impacts(issues),
         value            |-> IF valid THEN value ELSE None,
         issues           |-> issues]

----------------------------------------------------------------------------
CurveOf == [ES256 |-> "P-256", ES384 |-> "P-384", ES512 |-> "P-521"]

DefaultAlgorithms == {"ES256"}

\* header.others: the parameters besides alg, kid, typ and cty.
validateJoseProtectedHeader(header, allowed, mode) ==
    /\ header.alg \in DOMAIN CurveOf \cap allowed
    /\ header.others = {}
    /\ mode = "merchant" => header.typ = None
    /\ mode # "key-binding" => header.kid # None

validateEcJwk(key, alg, expectedKid) ==
    /\ key.crv = CurveOf[alg]
    /\ expectedKid # None /\ key.kid # None => key.kid = expectedKid

verifyParsedJwtSignature(jwt, key, allowed, expectedKid, mode) ==
    /\ validateJoseProtectedHeader(jwt.header, allowed, mode)
    /\ expectedKid # None => jwt.header.kid = expectedKid
    /\ validateEcJwk(key, jwt.header.alg, expectedKid)
    /\ jwt.key = key.point

publicJwkIdentity(key) == <<key.point, key.crv>>

----------------------------------------------------------------------------
(* A snapshot is [kid, jwk, sourceDigest, capturedAt, validUntil, validFrom,     *)
(* invalidFrom]; the last two may be None.                                    *)
checkKeySnapshot(snapshot, expectedDigest, asOf) ==
    When(snapshot.sourceDigest # expectedDigest, eligibilityIssue("INTEROP_KEY_SOURCE_PIN_MISMATCH"))
    \cup When(snapshot.capturedAt > snapshot.validUntil, upstreamIssue("INTEROP_KEY_SNAPSHOT_WINDOW_INVALID"))
    \cup When(snapshot.capturedAt > asOf, eligibilityIssue("INTEROP_KEY_SNAPSHOT_FROM_FUTURE"))
    \cup When(asOf > snapshot.validUntil, eligibilityIssue("INTEROP_KEY_SNAPSHOT_STALE"))
    \cup When(snapshot.validFrom # None /\ asOf < snapshot.validFrom, eligibilityIssue("INTEROP_KEY_NOT_YET_VALID"))
    \cup When(snapshot.invalidFrom # None /\ asOf >= snapshot.invalidFrom, eligibilityIssue("INTEROP_KEY_INVALIDATED"))

----------------------------------------------------------------------------
(* Time claims: numbers of seconds, none of them negative.                    *)
Given(claims, name) == Field(claims, name) # Undefined

\* verifyAp2ChainTimeClaims, which throws, and the checks of a Checkout JWT.
TimesHold(claims, now) ==
    /\ \A name \in {"iat", "nbf", "exp"} :
          Given(claims, name) => IsNumber(Field(claims, name)) /\ Field(claims, name)[2] >= 0
    /\ Given(claims, "iat") => Field(claims, "iat")[2] <= now + ClockSkew
    /\ Given(claims, "nbf") => Field(claims, "nbf")[2] <= now
    /\ Given(claims, "exp") => now < Field(claims, "exp")[2]

\* verifyExpiryClaims, which reports: without an expiry nothing lasts as evidence.
verifyExpiryClaims(claims, now) ==
    LET At(name)        == Field(claims, name)[2]
        Malformed(name) == ~IsNumber(Field(claims, name)) \/ At(name) < 0
    IN  When(~Given(claims, "exp"), eligibilityIssue("AP2_EXPIRY_MISSING"))
        \cup When(Given(claims, "exp") /\ (Malformed("exp") \/ now >= At("exp")), upstreamIssue("AP2_TOKEN_EXPIRED"))
        \cup When(Given(claims, "nbf") /\ (Malformed("nbf") \/ now < At("nbf")), upstreamIssue("AP2_TOKEN_NOT_YET_VALID"))
        \cup When(Given(claims, "iat") /\ (Malformed("iat") \/ At("iat") > now + ClockSkew),
                  upstreamIssue("AP2_IAT_IN_FUTURE"))
=============================================================================
