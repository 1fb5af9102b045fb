------------------------------- MODULE SdJwt -------------------------------
(***************************************************************************)
(* Canonical JSON and the claims a segment discloses: the recursions of         *)
(* src/canonical.ts and of resolveAp2SegmentClaims in                         *)
(* src/ucp-ap2/mandate-chain.ts over the terms of JwtTerms.                    *)
(***************************************************************************)
EXTENDS JwtTerms

\* The same function; TLC evaluates a table once, and a function at each application.
Table(f) == f @@ <<>>

\* canonicalize: what is left of a value when the record of withheld parts is put aside.
RECURSIVE canonicalize(_)
canonicalize(v) ==
    CASE IsArray(v)  -> Arr([i \in DOMAIN v[2] |-> canonicalize(v[2][i])])
      [] IsObject(v) -> Obj([name \in DOMAIN v[2] |-> canonicalize(v[2][name])])
      [] OTHER       -> v

(***************************************************************************)
(* resolveAp2SegmentClaims.  Each resolution is [value, used, ok]: the value,  *)
(* the disclosures it refers to in order, and whether nothing threw.          *)
(***************************************************************************)
Unused(v) == [value |-> v, used |-> <<>>, ok |-> TRUE]

Used(resolutions) == FlattenSeq([i \in DOMAIN resolutions |-> resolutions[i].used])

RECURSIVE Walk(_, _, _)

\* The disclosure an array element stands for: by its placeholder, and in a
\* delegate payload by its digest or its text.
Disclosed(item, inDelegate, given) ==
    {d \in given : \/ item = Placeholder(d)
                   \/ inDelegate /\ item \in {Digest(Exact(d)), Exact(d)}}

WalkArray(v, inDelegate, given) ==
    LET Hidden(item) == IsPlaceholder(item) /\ Disclosed(item, inDelegate, given) = {}
        shown == SelectSeq(v[2], LAMBDA item : ~Hidden(item))
        Entry(item) ==
            IF Disclosed(item, inDelegate, given) = {} THEN Walk(item, FALSE, given)
            ELSE LET d == CHOOSE d \in Disclosed(item, inDelegate, given) : TRUE
                     r == Walk(d.value, FALSE, given)
                 IN  [value |-> r.value, used |-> <<d>> \o r.used,
                      ok |-> r.ok /\ (IsPlaceholder(item) => d.name = None)]
        entries == Table([i \in DOMAIN shown |-> Entry(shown[i])])
    IN  [value |-> <<"array", Table([i \in DOMAIN entries |-> entries[i].value]),
                     IF inDelegate THEN 0 ELSE Len(v[2]) - Len(shown)>>,
         used  |-> Used(entries),
         ok    |-> \A i \in DOMAIN entries : entries[i].ok]

WalkObject(v, given) ==
    LET names   == DOMAIN v[2] \ {"_sd"}
        plain   == Table([name \in names |-> Walk(v[2][name], name = "delegate_payload", given)])
        digests == Items(Field(v, "_sd"))
        shown   == SelectSeq(digests, LAMBDA digest : \E d \in given : digest = Digest(Exact(d)))
        Of(digest) == CHOOSE d \in given : digest = Digest(Exact(d))
        open    == Table([i \in DOMAIN shown |->
                      LET d == Of(shown[i]) IN Walk(d.value, d.name = "delegate_payload", given)])
        fields  == [name \in names |-> plain[name].value]
                   @@ [name \in {Of(shown[i]).name : i \in DOMAIN shown} |->
                         open[CHOOSE i \in DOMAIN shown : Of(shown[i]).name = name].value]
    IN  [value |-> <<"object", fields, Len(digests) - Len(shown)>>,
         used  |-> FoldSet(LAMBDA name, used : used \o plain[name].used, <<>>, names)
                   \o FlattenSeq([i \in DOMAIN shown |-> <<Of(shown[i])>> \o open[i].used]),
         ok    |-> /\ "..." \notin names
                   /\ Has(v, "_sd") => /\ IsArray(v[2]["_sd"])
                                       /\ \A i \in DOMAIN digests : IsString(digests[i])
                                       /\ IsInjective(digests)
                   /\ \A name \in names : plain[name].ok
                   /\ \A i \in DOMAIN shown :
                         LET d == Of(shown[i]) IN
                         /\ d.name # None /\ d.name \notin names \cup {"__proto__", "constructor"}
                         /\ \A j \in 1 .. (i - 1) : Of(shown[j]).name # d.name
                         /\ open[i].ok]

Walk(v, inDelegate, given) ==
    CASE IsArray(v)  -> WalkArray(v, inDelegate, given)
      [] IsObject(v) -> WalkObject(v, given)
      [] OTHER       -> Unused(v)

\* No disclosure comes twice, is referred to twice, or is referred to nowhere.
resolveAp2SegmentClaims(segment) ==
    LET Checked(r) ==
          [claims |-> r.value,
           ok     |-> /\ IsInjective(segment.disclosures)
                      /\ r.ok /\ IsObject(r.value)
                      /\ IsInjective(r.used)
                      /\ Len(r.used) = Len(segment.disclosures)]
    IN  Checked(Walk(segment.jwt.claims, FALSE, Range(segment.disclosures)))
=============================================================================
