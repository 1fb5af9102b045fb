------------------------------ MODULE JwtTerms ------------------------------
(***************************************************************************)
(* Compact JWTs and selectively disclosed SD-JWTs as terms (the parsing half   *)
(* of src/ucp-ap2/jwt-parse.ts and mandate-chain.ts).  JSON is a tagged tuple;   *)
(* SHA-256 and base64url are injective, so the digest of a term carries the     *)
(* term itself.  A signature is the name of the key that made it.               *)
(***************************************************************************)
EXTENDS Integers, Sequences, SequencesExt, FiniteSetsExt, TLC

CONSTANTS None,
          MaxLineItems   \* 128: entries of a cart, of a constraint, of the lists of a Checkout

Undefined    == <<"undefined">>
Str(s)       == <<"string", s>>
Num(n)       == <<"number", n>>
Jwk(key)     == <<"jwk", key>>
Arr(items)   == <<"array", items, 0>>
Obj(fields)  == <<"object", fields, 0>>

\* Three kinds of strings whose content matters: a compact JWT, a disclosure
\* written out, and the digest of one of these or of a presented segment.
Compact(jwt) == <<"compact", jwt>>
Exact(d)     == <<"exact", d>>
Digest(term) == <<"digest", term>>

IsString(v) == v[1] \in {"string", "digest", "compact", "exact"}
IsNumber(v) == v[1] = "number"
IsArray(v)  == v[1] = "array"
IsObject(v) == v[1] = "object"

\* What an array or an object dropped because its disclosure was not presented.
Withheld(v) == IF IsArray(v) \/ IsObject(v) THEN v[3] ELSE 0

Items(v) == IF IsArray(v) THEN v[2] ELSE <<>>

\* The same list; TLC evaluates it once, and a function at each application.
Evaluated(list) == list \o <<>>

\* An object literal that spreads base and then sets the fields of f.
Override(base, f) ==
    [name \in DOMAIN f \cup DOMAIN base |-> IF name \in DOMAIN f THEN f[name] ELSE base[name]]

Field(o, name) == IF IsObject(o) /\ name \in DOMAIN o[2] THEN o[2][name] ELSE Undefined

Has(o, name) == name \in DOMAIN o[2]

----------------------------------------------------------------------------
(* A JWT is [header, claims, key]; a disclosure is [salt, name, value], with no  *)
(* name when it stands for an array element; a segment is [jwt, disclosures].  *)
(* A token is a chain of segments, one compact JWT, or neither.               *)
Chain(segments) == <<"chain", segments>>
Garbage         == <<"garbage">>

Presentation(segment) == <<"presentation", segment.jwt, segment.disclosures>>

Placeholder(d) == Obj("..." :> Digest(Exact(d)))

IsPlaceholder(v) == IsObject(v) /\ DOMAIN v[2] = {"..."} /\ IsString(v[2]["..."])

\* The segments of a chain of SHA-256 SD-JWTs that ends in a separator.
ChainParses(token) ==
    /\ token[1] = "chain"
    /\ token[2] # <<>>
    /\ \A i \in DOMAIN token[2] :
          Field(token[2][i].jwt.claims, "_sd_alg") \in {Undefined, Str("sha-256")}

\* The one payload a segment may disclose.
effectiveDelegatePayload(claims) ==
    LET payloads == Items(Field(claims, "delegate_payload"))
    IN  IF Len(payloads) = 1 /\ IsObject(payloads[1]) THEN payloads[1] ELSE Undefined
=============================================================================
