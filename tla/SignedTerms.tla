---------------------------- MODULE SignedTerms ----------------------------
(***************************************************************************)
(* What a segment was signed with, every disclosure in its place, whatever      *)
(* part of it is presented: the digest of a term tells the term.  Only the      *)
(* choice among the payloads a segment may delegate is the presenter's.         *)
(***************************************************************************)
EXTENDS JwtTerms

Hides(v) == v[1] = "digest" /\ v[2][1] = "exact"

HiddenIn(o) == {digest[2][2] : digest \in {d \in Range(Items(Field(o, "_sd"))) : Hides(d)}}

\* A field in the open or behind a digest; of two behind digests the one given.
SignedField(o, name, given) ==
    LET named == {d \in HiddenIn(o) : d.name = name}
    IN  IF Field(o, name) # Undefined \/ named = {} THEN Field(o, name)
        ELSE IF named \cap given # {} THEN (CHOOSE d \in named \cap given : TRUE).value
        ELSE (CHOOSE d \in named : TRUE).value

RECURSIVE Opened(_, _)
Opened(v, given) ==
    LET Element(e) == IF IsPlaceholder(e) /\ Hides(e[2]["..."]) THEN e[2]["..."][2][2].value ELSE e
    IN  IF IsArray(v) THEN Arr([i \in DOMAIN v[2] |-> Opened(Element(v[2][i]), given)] @@ <<>>)
        ELSE IF IsObject(v)
        THEN Obj([name \in (DOMAIN v[2] \ {"_sd"}) \cup {d.name : d \in HiddenIn(v)} |->
                     Opened(SignedField(v, name, given), given)])
        ELSE v

OpenedClaims(segment) == Opened(segment.jwt.claims, Range(segment.disclosures))

\* The payload that is shown, with what is withheld inside it.
OpenedPayload(segment) ==
    LET given    == Range(segment.disclosures)
        Meant(e) == {d \in given : e \in {Placeholder(d), Digest(Exact(d)), Exact(d)}}
        shown    == SelectSeq(Items(SignedField(segment.jwt.claims, "delegate_payload", given)),
                              LAMBDA e : ~IsPlaceholder(e) \/ Meant(e) # {})
    IN  IF Len(shown) # 1 THEN Undefined
        ELSE IF Meant(shown[1]) = {} THEN Opened(shown[1], given)
        ELSE Opened((CHOOSE d \in Meant(shown[1]) : TRUE).value, given)
=============================================================================
