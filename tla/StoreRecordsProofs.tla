------------------------- MODULE StoreRecordsProofs -------------------------
(***************************************************************************)
(* The two judges of a history, the guards of the live store and the verifier  *)
(* of a file, for any payloads and any length: what each looks at is the same    *)
(* (Agrees), so that a history the guards let grow record by record (Lawful) is  *)
(* one the verifier accepts and the other way round.                         *)
(*                                                                          *)
(* The verifier is a recursive function over the lines.  That it exists and     *)
(* what it yields is proved over the least length at which it would fail        *)
(* (Least).  What does not depend on the shape of a value is kept opaque: a      *)
(* verdict, an issue, a sequence of events.                                   *)
(***************************************************************************)
EXTENDS StoreRecords, SequenceTheorems, WellFoundedInduction, TLAPS

----------------------------------------------------------------------------
(* The passes over a history are functions of its length.                   *)
IsSequence(s) == \E S : s \in Seq(S)

LEMMA EmptySequence == IsSequence(<< >>)
<1>. << >> \in Seq({})
    OBVIOUS
<1>. QED
    BY DEF IsSequence

LEMMA Least ==
    ASSUME NEW S \in SUBSET Nat, S # {}
    PROVE  \E m \in S : \A k \in S : m <= k
<1> DEFINE R == OpToRel(<, Nat)
<1>1. IsWellFoundedOn(R, Nat)
    BY NatLessThanWellFounded
<1>2. \A x, y \in Nat : y < x => <<y, x>> \in R
    BY DEF OpToRel
<1> HIDE DEF R
<1>3. \E x \in S : \A y \in S : ~ (<<y, x>> \in R)
    BY <1>1, WFMin
<1>4. PICK m \in S : \A y \in S : ~ (<<y, m>> \in R)
    BY <1>3
<1>5. ASSUME NEW k \in S PROVE m <= k
    <2>1. k \in Nat /\ m \in Nat
        OBVIOUS
    <2>2. ~ (<<k, m>> \in R)
        BY <1>4
    <2>3. k < m => <<k, m>> \in R
        BY <1>2, <2>1
    <2>. QED
        BY <2>1, <2>2, <2>3
<1>. QED
    BY <1>5

\* f keeps what the pass over s has seen after each of its first n lines.
IsScan(f, s, n) ==
    f = [m \in 0 .. n |-> IF m = 0 THEN NoHistory ELSE VerifyLine(f[m - 1], s[m])]

LEMMA ScanExists ==
    ASSUME NEW s, NEW n \in Nat
    PROVE  \E f : IsScan(f, s, n)
<1>. DEFINE bad == {k \in Nat : ~ \E f : IsScan(f, s, k)}
<1>1. SUFFICES ASSUME bad # {} PROVE FALSE
    OBVIOUS
<1>2. PICK m \in bad : \A k \in bad : m <= k
    BY <1>1, Least
<1>3. CASE m = 0
    <2>1. IsScan([k \in 0 .. 0 |-> NoHistory], s, 0)
        BY DEF IsScan
    <2>. QED
        BY <1>2, <1>3, <2>1
<1>4. CASE m # 0
    <2>1. m - 1 \in Nat /\ m \in Nat /\ m - 1 \notin bad
        BY <1>2, <1>4
    <2>2. PICK f : IsScan(f, s, m - 1)
        BY <2>1
    <2>. DEFINE g == [k \in 0 .. m |-> IF k = m THEN VerifyLine(f[m - 1], s[m]) ELSE f[k]]
    <2>3. \A k \in 0 .. (m - 1) : f[k] = IF k = 0 THEN NoHistory ELSE VerifyLine(f[k - 1], s[k])
        BY <2>2, Zenon DEF IsScan
    <2>4. \A k \in 0 .. (m - 1) : g[k] = f[k]
        BY <2>1
    <2>5. \A k \in 0 .. m : g[k] = IF k = 0 THEN NoHistory ELSE VerifyLine(g[k - 1], s[k])
        <3>1. TAKE k \in 0 .. m
        <3>2. CASE k = m
            BY <1>4, <2>1, <2>4, <3>2
        <3>3. CASE k # m
            <4>1. k \in 0 .. (m - 1) /\ (k = 0 \/ k - 1 \in 0 .. (m - 1))
                BY <2>1, <3>3
            <4>. QED
                BY <2>3, <2>4, <4>1
        <3>. QED
            BY <3>2, <3>3
    <2>6. g = [k \in 0 .. m |-> g[k]]
        OBVIOUS
    <2>. HIDE DEF g
    <2>7. IsScan(g, s, m)
        BY <2>5, <2>6, Zenon DEF IsScan
    <2>. QED
        BY <2>7
<1>. QED
    BY <1>3, <1>4

LEMMA ScanLocal ==
    ASSUME NEW s, NEW t, NEW n \in Nat, NEW m \in Nat, n <= m, NEW f, NEW g,
           IsScan(f, s, n), IsScan(g, t, m), \A i \in 1 .. n : s[i] = t[i]
    PROVE  f[n] = g[n]
<1>. DEFINE bad == {k \in Nat : k <= n /\ f[k] # g[k]}
<1>1. SUFFICES ASSUME bad # {} PROVE FALSE
    OBVIOUS
<1>2. PICK k \in bad : \A j \in bad : k <= j
    BY <1>1, Least
<1>3. \A j \in 0 .. n : f[j] = IF j = 0 THEN NoHistory ELSE VerifyLine(f[j - 1], s[j])
    BY Zenon DEF IsScan
<1>4. \A j \in 0 .. m : g[j] = IF j = 0 THEN NoHistory ELSE VerifyLine(g[j - 1], t[j])
    BY Zenon DEF IsScan
<1>5. k \in 0 .. n /\ k \in 0 .. m
    BY <1>2
<1>6. k # 0
    BY <1>2, <1>3, <1>4, <1>5
<1>7. k - 1 \in Nat /\ k - 1 <= n /\ k \in 1 .. n
    BY <1>5, <1>6
<1>8. f[k - 1] = g[k - 1]
    BY <1>2, <1>7
<1>. QED
    BY <1>2, <1>3, <1>4, <1>5, <1>6, <1>7, <1>8

LEMMA ScanFirst ==
    ASSUME NEW s, NEW f, IsScan(f, s, 0)
    PROVE  f[0] = NoHistory
    BY DEF IsScan

LEMMA ScanStep ==
    ASSUME NEW s, IsSequence(s), NEW e
    PROVE  /\ Scan(<<>>) = NoHistory
           /\ Scan(Append(s, e)) = VerifyLine(Scan(s), e)
<1>. DEFINE F(t) == CHOOSE f : IsScan(f, t, Len(t))
<1>1. \A t : Scan(t) = F(t)[Len(t)]
    BY Zenon DEF Scan, IsScan
<1>2. \A t : Len(t) \in Nat => IsScan(F(t), t, Len(t))
    BY ScanExists, Zenon
<1>. HIDE DEF F
<1>3. Scan(<<>>) = NoHistory
    <2>1. Len(<<>>) = 0
        OBVIOUS
    <2>2. IsScan(F(<<>>), <<>>, 0)
        BY <1>2, <2>1
    <2>3. F(<<>>)[0] = NoHistory
        BY <2>2, ScanFirst
    <2>. QED
        BY <1>1, <2>1, <2>3
<1>4. Scan(Append(s, e)) = VerifyLine(Scan(s), e)
    <2>. DEFINE n == Len(s)
                t == Append(s, e)
    <2>1. /\ n \in Nat /\ Len(t) = n + 1 /\ t[n + 1] = e
          /\ \A i \in 1 .. n : s[i] = t[i]
        BY DEF IsSequence
    <2>. HIDE DEF n, t
    <2>2. IsScan(F(s), s, n) /\ IsScan(F(t), t, n + 1)
        BY <1>2, <2>1 DEF n
    <2>3. F(s)[n] = F(t)[n]
        BY <2>1, <2>2, ScanLocal
    <2>4. F(t)[n + 1] = VerifyLine(F(t)[n], e)
        <3>1. \A j \in 0 .. (n + 1) : F(t)[j] = IF j = 0 THEN NoHistory ELSE VerifyLine(F(t)[j - 1], t[j])
            BY <2>2, Zenon DEF IsScan
        <3>2. n + 1 \in 0 .. (n + 1) /\ n + 1 # 0 /\ (n + 1) - 1 = n
            BY <2>1
        <3>. QED
            BY <2>1, <3>1, <3>2
    <2>5. Scan(t) = F(t)[n + 1] /\ Scan(s) = F(s)[n]
        BY <1>1, <2>1 DEF n
    <2>. QED
        BY <2>3, <2>4, <2>5 DEF t
<1>. QED
    BY <1>3, <1>4

\* f holds the events of appeal a in each of the first n records of s.
IsEvents(f, a, s, n) ==
    f = [m \in 0 .. n |-> IF m = 0 THEN NoEvents ELSE AddEvent(f[m - 1], s[m], a)]

LEMMA EventsExist ==
    ASSUME NEW a, NEW s, NEW n \in Nat
    PROVE  \E f : IsEvents(f, a, s, n)
<1>. DEFINE bad == {k \in Nat : ~ \E f : IsEvents(f, a, s, k)}
<1>1. SUFFICES ASSUME bad # {} PROVE FALSE
    OBVIOUS
<1>2. PICK m \in bad : \A k \in bad : m <= k
    BY <1>1, Least
<1>3. CASE m = 0
    <2>1. IsEvents([k \in 0 .. 0 |-> NoEvents], a, s, 0)
        BY DEF IsEvents
    <2>. QED
        BY <1>2, <1>3, <2>1
<1>4. CASE m # 0
    <2>1. m - 1 \in Nat /\ m \in Nat /\ m - 1 \notin bad
        BY <1>2, <1>4
    <2>2. PICK f : IsEvents(f, a, s, m - 1)
        BY <2>1
    <2>. DEFINE g == [k \in 0 .. m |-> IF k = m THEN AddEvent(f[m - 1], s[m], a) ELSE f[k]]
    <2>3. \A k \in 0 .. (m - 1) : f[k] = IF k = 0 THEN NoEvents ELSE AddEvent(f[k - 1], s[k], a)
        BY <2>2, Zenon DEF IsEvents
    <2>4. \A k \in 0 .. (m - 1) : g[k] = f[k]
        BY <2>1
    <2>5. \A k \in 0 .. m : g[k] = IF k = 0 THEN NoEvents ELSE AddEvent(g[k - 1], s[k], a)
        <3>1. TAKE k \in 0 .. m
        <3>2. CASE k = m
            BY <1>4, <2>1, <2>4, <3>2
        <3>3. CASE k # m
            <4>1. k \in 0 .. (m - 1) /\ (k = 0 \/ k - 1 \in 0 .. (m - 1))
                BY <2>1, <3>3
            <4>. QED
                BY <2>3, <2>4, <4>1
        <3>. QED
            BY <3>2, <3>3
    <2>6. g = [k \in 0 .. m |-> g[k]]
        OBVIOUS
    <2>. HIDE DEF g
    <2>7. IsEvents(g, a, s, m)
        BY <2>5, <2>6, Zenon DEF IsEvents
    <2>. QED
        BY <2>7
<1>. QED
    BY <1>3, <1>4

LEMMA EventsLocal ==
    ASSUME NEW a, NEW s, NEW t, NEW n \in Nat, NEW m \in Nat, n <= m, NEW f, NEW g,
           IsEvents(f, a, s, n), IsEvents(g, a, t, m), \A i \in 1 .. n : s[i] = t[i]
    PROVE  f[n] = g[n]
<1>. DEFINE bad == {k \in Nat : k <= n /\ f[k] # g[k]}
<1>1. SUFFICES ASSUME bad # {} PROVE FALSE
    OBVIOUS
<1>2. PICK k \in bad : \A j \in bad : k <= j
    BY <1>1, Least
<1>3. \A j \in 0 .. n : f[j] = IF j = 0 THEN NoEvents ELSE AddEvent(f[j - 1], s[j], a)
    BY Zenon DEF IsEvents
<1>4. \A j \in 0 .. m : g[j] = IF j = 0 THEN NoEvents ELSE AddEvent(g[j - 1], t[j], a)
    BY Zenon DEF IsEvents
<1>5. k \in 0 .. n /\ k \in 0 .. m
    BY <1>2
<1>6. k # 0
    BY <1>2, <1>3, <1>4, <1>5
<1>7. k - 1 \in Nat /\ k - 1 <= n /\ k \in 1 .. n
    BY <1>5, <1>6
<1>8. f[k - 1] = g[k - 1]
    BY <1>2, <1>7
<1>. QED
    BY <1>2, <1>3, <1>4, <1>5, <1>6, <1>7, <1>8

LEMMA EventsFirst ==
    ASSUME NEW a, NEW s, NEW f, IsEvents(f, a, s, 0)
    PROVE  f[0] = NoEvents
    BY DEF IsEvents

LEMMA AppealOfStep ==
    ASSUME NEW a, NEW s, IsSequence(s), NEW e
    PROVE  /\ AppealOf(<<>>, a) = NoEvents
           /\ AppealOf(Append(s, e), a) = AddEvent(AppealOf(s, a), e, a)
<1>. DEFINE F(t) == CHOOSE f : IsEvents(f, a, t, Len(t))
<1>1. \A t : AppealOf(t, a) = F(t)[Len(t)]
    BY Zenon DEF AppealOf, IsEvents
<1>2. \A t : Len(t) \in Nat => IsEvents(F(t), a, t, Len(t))
    BY EventsExist, Zenon
<1>. HIDE DEF F
<1>3. AppealOf(<<>>, a) = NoEvents
    <2>1. Len(<<>>) = 0
        OBVIOUS
    <2>2. IsEvents(F(<<>>), a, <<>>, 0)
        BY <1>2, <2>1
    <2>3. F(<<>>)[0] = NoEvents
        BY <2>2, EventsFirst
    <2>. QED
        BY <1>1, <2>1, <2>3
<1>4. AppealOf(Append(s, e), a) = AddEvent(AppealOf(s, a), e, a)
    <2>. DEFINE n == Len(s)
                t == Append(s, e)
    <2>1. /\ n \in Nat /\ Len(t) = n + 1 /\ t[n + 1] = e
          /\ \A i \in 1 .. n : s[i] = t[i]
        BY DEF IsSequence
    <2>. HIDE DEF n, t
    <2>2. IsEvents(F(s), a, s, n) /\ IsEvents(F(t), a, t, n + 1)
        BY <1>2, <2>1 DEF n
    <2>3. F(s)[n] = F(t)[n]
        BY <2>1, <2>2, EventsLocal
    <2>4. F(t)[n + 1] = AddEvent(F(t)[n], e, a)
        <3>1. \A j \in 0 .. (n + 1) : F(t)[j] = IF j = 0 THEN NoEvents ELSE AddEvent(F(t)[j - 1], t[j], a)
            BY <2>2, Zenon DEF IsEvents
        <3>2. n + 1 \in 0 .. (n + 1) /\ n + 1 # 0 /\ (n + 1) - 1 = n
            BY <2>1
        <3>. QED
            BY <2>1, <3>1, <3>2
    <2>5. AppealOf(t, a) = F(t)[n + 1] /\ AppealOf(s, a) = F(s)[n]
        BY <1>1, <2>1 DEF n
    <2>. QED
        BY <2>3, <2>4, <2>5 DEF t
<1>. QED
    BY <1>3, <1>4

----------------------------------------------------------------------------
(* A verdict is ok when no check of it fails: the guards, conjunct by conjunct.*)
LEMMA VerdictOk ==
    ASSUME NEW checks, DOMAIN checks \subseteq Nat,
           \A n \in DOMAIN checks : checks[n][2] => checks[n][1] # "ok"
    PROVE  Verdict(checks) = "ok" <=> \A n \in DOMAIN checks : ~ checks[n][2]
<1>. DEFINE failed == Failed(checks)
<1>1. failed \in SUBSET Nat
    BY DEF Failed
<1>2. CASE failed = {}
    BY <1>2 DEF Verdict, Failed
<1>3. CASE failed # {}
    <2>1. \E m \in failed : \A k \in failed : m <= k
        BY <1>1, <1>3, Least
    <2>2. Min(failed) \in failed
        BY <2>1 DEF Min
    <2>3. Verdict(checks) = checks[Min(failed)][1]
        BY <1>3, Zenon DEF Verdict
    <2>. QED
        BY <2>2, <2>3 DEF Failed
<1>. QED
    BY <1>2, <1>3

LEMMA PutOk ==
    ASSUME NEW h, NEW d
    PROVE  PutVerdict(h, d) = "ok" <=>
              /\ payloadIsValid("decision", d)
              /\ ~ \E e \in DecisionsOf(h) : e.artifactId = d.artifactId
              /\ ~ SupersessionRefused(DecisionsOf(h), AppealOf(h, d.appealId), d)
<1>. DEFINE checks == <<
            <<"ALB_STORE_ARTIFACT_INVALID", ~payloadIsValid("decision", d)>>,
            <<"replay",                     d \in DecisionsOf(h)>>,
            <<"ALB_STORE_CONFLICT",         \E e \in DecisionsOf(h) : e.artifactId = d.artifactId>>,
            <<"ALB_STORE_SUPERSESSION",
                SupersessionRefused(DecisionsOf(h), AppealOf(h, d.appealId), d)>> >>
<1>1. PutVerdict(h, d) = Verdict(checks)
    BY DEF PutVerdict
<1>2. DOMAIN checks = 1 .. 4
    OBVIOUS
<1>3. /\ checks[1][1] = "ALB_STORE_ARTIFACT_INVALID" /\ checks[2][1] = "replay"
      /\ checks[3][1] = "ALB_STORE_CONFLICT" /\ checks[4][1] = "ALB_STORE_SUPERSESSION"
    OBVIOUS
<1>4. /\ checks[1][2] = ~payloadIsValid("decision", d)
      /\ checks[2][2] = (d \in DecisionsOf(h))
      /\ checks[3][2] = \E e \in DecisionsOf(h) : e.artifactId = d.artifactId
      /\ checks[4][2] = SupersessionRefused(DecisionsOf(h), AppealOf(h, d.appealId), d)
    OBVIOUS
<1>. HIDE DEF checks
<1>5. Verdict(checks) = "ok" <=> \A n \in 1 .. 4 : ~ checks[n][2]
    BY <1>2, <1>3, VerdictOk
<1>6. Verdict(checks) = "ok" <=> ~ checks[1][2] /\ ~ checks[2][2] /\ ~ checks[3][2] /\ ~ checks[4][2]
    BY <1>5
<1>7. d \in DecisionsOf(h) => \E e \in DecisionsOf(h) : e.artifactId = d.artifactId
    OBVIOUS
<1>. QED
    BY <1>1, <1>4, <1>6, <1>7

LEMMA EventOk ==
    ASSUME NEW D, NEW contested, NEW existing, NEW prior, NEW e
    PROVE  EventVerdict(D, contested, existing, prior, e) = "ok" <=>
              /\ payloadIsValid("appeal_event", e)
              /\ contested # {}
              /\ prior = {}
              /\ assertAppealPolicyAllows(The(contested), existing, e) = "ok"
              /\ AppendVerdict(existing, e) = "ok"
              /\ ~ ReversalRefused(D, e)
<1>. DEFINE allowed == assertAppealPolicyAllows(The(contested), existing, e)
            appended == AppendVerdict(existing, e)
            checks == <<
            <<"replay",                 e \in prior>>,
            <<"ALB_STORE_CONFLICT",     prior # {}>>,
            Callee(allowed),
            Callee(appended),
            <<"ALB_STORE_SUPERSESSION", ReversalRefused(D, e)>> >>
<1>1. EventVerdict(D, contested, existing, prior, e) =
          IF ~payloadIsValid("appeal_event", e) THEN "ALB_STORE_ARTIFACT_INVALID"
          ELSE IF contested = {} THEN "ALB_STORE_DECISION_NOT_FOUND" ELSE Verdict(checks)
    BY DEF EventVerdict
<1>. HIDE DEF allowed, appended
<1>2. DOMAIN checks = {1, 2, 3, 4, 5}
    OBVIOUS
<1>3. /\ checks[1][1] = "replay" /\ checks[2][1] = "ALB_STORE_CONFLICT"
      /\ checks[3][1] = allowed /\ checks[4][1] = appended /\ checks[5][1] = "ALB_STORE_SUPERSESSION"
    BY DEF Callee
<1>4. /\ checks[1][2] = (e \in prior) /\ checks[2][2] = (prior # {})
      /\ checks[3][2] = (allowed # "ok") /\ checks[4][2] = (appended # "ok")
      /\ checks[5][2] = ReversalRefused(D, e)
    BY DEF Callee
<1>. HIDE DEF checks
<1>5. \A n \in DOMAIN checks : checks[n][2] => checks[n][1] # "ok"
    BY <1>2, <1>3, <1>4
<1>6. Verdict(checks) = "ok" <=> \A n \in DOMAIN checks : ~ checks[n][2]
    BY <1>2, <1>5, VerdictOk
<1>7. Verdict(checks) = "ok" <=>
          ~ checks[1][2] /\ ~ checks[2][2] /\ ~ checks[3][2] /\ ~ checks[4][2] /\ ~ checks[5][2]
    BY <1>2, <1>6
<1>. QED
    BY <1>1, <1>4, <1>7 DEF allowed, appended

Contested(decisions, decisionId) == {d \in decisions : d.artifactId = decisionId}

LEMMA EventVerified ==
    ASSUME NEW seen, NEW r, NEW e, NEW contested, NEW existing,
           e = r.payload, r.entityId = e.appealId, r.recordId = RecordId("appeal_event", e),
           contested = Contested(seen.decisions, e.decisionId),
           existing = AcceptedEvents(seen.appeals, e.appealId)
    PROVE  EventIssues(seen, r) = {} <=>
              /\ contested # {}
              /\ assertAppealPolicyAllows(The(contested), existing, e) = "ok"
              /\ AppendVerdict(existing, e) = "ok"
              /\ ~ ReversalRefused(seen.decisions, e)
<1>. DEFINE unbound  == \/ r.entityId # e.appealId
                        \/ r.recordId # RecordId("appeal_event", e)
            allowed == assertAppealPolicyAllows(The(contested), existing, e)
            appended == AppendVerdict(existing, e)
            checks == << Callee(allowed), Callee(appended),
                         <<"ALB_STORE_SUPERSESSION", ~unbound /\ ReversalRefused(seen.decisions, e)>> >>
<1>1. EventIssues(seen, r) = Issue("ALB_STORE_APPEAL_BINDING", unbound)
          \cup ((IF contested = {} THEN {"ALB_STORE_DECISION_NOT_FOUND"} ELSE {Verdict(checks)}) \ {"ok"})
    BY Zenon DEF EventIssues, Contested
<1>2. ~ unbound
    OBVIOUS
<1>. HIDE DEF allowed, appended, unbound
<1>3. DOMAIN checks = {1, 2, 3}
    OBVIOUS
<1>4. /\ checks[1][1] = allowed /\ checks[2][1] = appended /\ checks[3][1] = "ALB_STORE_SUPERSESSION"
      /\ checks[1][2] = (allowed # "ok") /\ checks[2][2] = (appended # "ok")
      /\ checks[3][2] = (~unbound /\ ReversalRefused(seen.decisions, e))
    BY DEF Callee
<1>. HIDE DEF checks
<1>5. \A n \in DOMAIN checks : checks[n][2] => checks[n][1] # "ok"
    BY <1>3, <1>4
<1>6. Verdict(checks) = "ok" <=> \A n \in DOMAIN checks : ~ checks[n][2]
    BY <1>3, <1>5, VerdictOk
<1>7. Verdict(checks) = "ok" <=> ~ checks[1][2] /\ ~ checks[2][2] /\ ~ checks[3][2]
    BY <1>3, <1>6
<1>8. EventIssues(seen, r) = {} <=> contested # {} /\ Verdict(checks) = "ok"
    BY <1>1, <1>2 DEF Issue
<1>. QED
    BY <1>2, <1>4, <1>7, <1>8 DEF allowed, appended

----------------------------------------------------------------------------
(* Records and lines.                                                       *)
LEMMA DigestInjective ==
    ASSUME NEW x, NEW y, Sha256(x) = Sha256(y)
    PROVE  x = y
    BY DEF Sha256

HeadHash(h) == IF h = <<>> THEN None ELSE h[Len(h)].recordHash

LEMMA NextRecord ==
    ASSUME NEW h, NEW t \in {"decision", "appeal_event"}, NEW p, NEW r, r = nextRecord(h, t, p)
    PROVE  /\ isRecord(r)
           /\ r.sequence = Len(h) + 1
           /\ r.previousHash = HeadHash(h)
           /\ r.recordType = t
           /\ r.recordId = RecordId(t, p)
           /\ r.entityId = EntityId(t, p)
           /\ r.payload = p
           /\ r.recordHash = storeRecordHash(recordBody(r))
<1>1. /\ r.sequence = Len(h) + 1 /\ r.previousHash = HeadHash(h) /\ r.recordType = t
      /\ r.recordId = RecordId(t, p) /\ r.entityId = EntityId(t, p) /\ r.payload = p
    BY DEF nextRecord, HeadHash
<1>2. r.recordHash = storeRecordHash(recordBody(r))
    BY <1>1, Zenon DEF nextRecord, recordBody, HeadHash
<1>3. isRecord(r)
    BY <1>1 DEF isRecord, Garbage
<1>. QED
    BY <1>1, <1>2, <1>3

\* The identifiers after a record: its own now stands for its hash alone.
IdsAfter(ids, r) == {p \in ids : p[1] # r.recordId} \cup {<<r.recordId, r.recordHash>>}

LEMMA LineFields ==
    ASSUME NEW seen, NEW r, isRecord(r), NEW next, next = VerifyLine(seen, r)
    PROVE  /\ next.length = seen.length + 1
           /\ next.previousHash = r.recordHash
           /\ next.ids = IdsAfter(seen.ids, r)
           /\ next.parents = IF r.previousHash = None THEN seen.parents ELSE Append(seen.parents, r.previousHash)
           /\ next.decisions = IF TransitionIssues(seen, r) = {} /\ r.recordType = "decision"
                               THEN seen.decisions \cup {r.payload} ELSE seen.decisions
           /\ next.appeals = IF TransitionIssues(seen, r) = {} /\ r.recordType = "appeal_event"
                             THEN Accept(seen.appeals, r.payload) ELSE seen.appeals
    BY DEF VerifyLine, VerifyRecord, IdsAfter

LEMMA LineIssues ==
    ASSUME NEW seen, NEW r, isRecord(r)
    PROVE  VerifyLine(seen, r).issues = {} <=>
               /\ seen.issues = {}
               /\ TransitionIssues(seen, r) = {}
               /\ r.sequence = seen.length + 1
               /\ r.previousHash = seen.previousHash
               /\ r.recordHash = storeRecordHash(recordBody(r))
               /\ \A p \in seen.ids : p[1] # r.recordId
<1>. DEFINE transition == TransitionIssues(seen, r)
            reuse == {p[2] : p \in {q \in seen.ids : q[1] = r.recordId}}
<1>1. VerifyLine(seen, r) = VerifyRecord(seen, r, transition, reuse)
    BY DEF VerifyLine
<1>2. reuse = {} <=> \A p \in seen.ids : p[1] # r.recordId
    OBVIOUS
<1>. HIDE DEF transition, reuse
<1>3. VerifyRecord(seen, r, transition, reuse).issues = seen.issues \cup transition
         \cup Issue("ALB_STORE_SEQUENCE", r.sequence # seen.length + 1)
         \cup Issue("ALB_STORE_CHAIN", r.previousHash # seen.previousHash)
         \cup Issue("ALB_STORE_HASH", r.recordHash # storeRecordHash(recordBody(r)))
         \cup Issue("ALB_STORE_EQUIVOCATION", reuse \ {r.recordHash} # {})
         \cup Issue("ALB_STORE_DUPLICATE", r.recordHash \in reuse)
    BY DEF VerifyRecord
<1>4. (reuse \ {r.recordHash} = {} /\ r.recordHash \notin reuse) <=> reuse = {}
    OBVIOUS
<1>5. VerifyRecord(seen, r, transition, reuse).issues = {} <=>
                 /\ seen.issues = {}
                 /\ transition = {}
                 /\ r.sequence = seen.length + 1
                 /\ r.previousHash = seen.previousHash
                 /\ r.recordHash = storeRecordHash(recordBody(r))
                 /\ reuse = {}
    BY <1>3, <1>4 DEF Issue
<1>. QED
    BY <1>1, <1>2, <1>5 DEF transition

----------------------------------------------------------------------------
(* One step: with the same past, both judges say the same of the next record.*)
LEMMA Judges ==
    ASSUME NEW h, NEW seen, NEW t \in {"decision", "appeal_event"}, NEW p, NEW r, r = nextRecord(h, t, p),
           seen.issues = {}, seen.length = Len(h), seen.previousHash = HeadHash(h),
           seen.decisions = DecisionsOf(h),
           \A a : AcceptedEvents(seen.appeals, a) = AppealOf(h, a),
           \A i \in 1 .. Len(h) : \E q \in seen.ids : q[1] = h[i].recordId,
           \A q \in seen.ids : \E i \in 1 .. Len(h) : q[1] = h[i].recordId,
           \A i \in 1 .. Len(h) : h[i].recordId = RecordId(h[i].recordType, h[i].payload)
    PROVE  VerifyLine(seen, r).issues = {} <=> StoreVerdict(h, t, p) = "ok"
<1>1. /\ isRecord(r) /\ r.sequence = Len(h) + 1 /\ r.previousHash = HeadHash(h) /\ r.recordType = t
      /\ r.recordId = RecordId(t, p) /\ r.entityId = EntityId(t, p) /\ r.payload = p
      /\ r.recordHash = storeRecordHash(recordBody(r))
    BY NextRecord
<1>2. VerifyLine(seen, r).issues = {} <=>
          TransitionIssues(seen, r) = {} /\ \A q \in seen.ids : q[1] # r.recordId
    <2>1. /\ seen.issues = {} /\ r.sequence = seen.length + 1 /\ r.previousHash = seen.previousHash
          /\ r.recordHash = storeRecordHash(recordBody(r)) /\ isRecord(r)
        BY <1>1
    <2>2. (\A q \in seen.ids : q[1] # r.recordId) <=> ~ \E q \in seen.ids : q[1] = r.recordId
        OBVIOUS
    <2>. QED
        BY <2>1, LineIssues
<1>. DEFINE unused == \A i \in 1 .. Len(h) : h[i].recordId # r.recordId
<1>3. unused <=> \A q \in seen.ids : q[1] # r.recordId
    OBVIOUS
<1>4. CASE t = "decision"
    <2>1. TransitionIssues(seen, r) = IF ~payloadIsValid("decision", p) THEN {"ALB_STORE_ARTIFACT"} ELSE DecisionIssues(seen, r)
        BY <1>1, <1>4 DEF TransitionIssues
    <2>2. DecisionIssues(seen, r) = {} <=>
              /\ ~ \E d \in DecisionsOf(h) : d.artifactId = p.artifactId
              /\ ~ SupersessionRefused(DecisionsOf(h), AppealOf(h, p.appealId), p)
        <3>1. r.entityId = p.artifactId /\ r.recordId = RecordId("decision", p)
            BY <1>1, <1>4 DEF EntityId
        <3>2. DecisionIssues(seen, r) = Issue("ALB_STORE_DECISION_BINDING", \E d \in DecisionsOf(h) : d.artifactId = p.artifactId)
                  \cup Issue("ALB_STORE_SUPERSESSION", SupersessionRefused(DecisionsOf(h), AppealOf(h, p.appealId), p))
            BY <3>1, <1>1 DEF DecisionIssues
        <3>. QED
            BY <3>2 DEF Issue
    <2>3. (~ \E d \in DecisionsOf(h) : d.artifactId = p.artifactId) => unused
        <3>1. ASSUME NEW i \in 1 .. Len(h), h[i].recordId = r.recordId
              PROVE  \E d \in DecisionsOf(h) : d.artifactId = p.artifactId
            <4>1. h[i].recordType = "decision" /\ h[i].payload.artifactId = p.artifactId
                BY <1>1, <1>4, <3>1 DEF RecordId
            <4>. QED
                BY <4>1 DEF DecisionsOf
        <3>. QED
            BY <3>1
    <2>4. StoreVerdict(h, t, p) = PutVerdict(h, p)
        BY <1>4 DEF StoreVerdict
    <2>. HIDE DEF unused
    <2>. QED
        BY <1>2, <1>3, <2>1, <2>2, <2>3, <2>4, PutOk
<1>5. CASE t = "appeal_event"
    <2>. DEFINE contested == Contested(DecisionsOf(h), p.decisionId)
                prior == {h[i].payload : i \in {j \in 1 .. Len(h) : h[j].recordId = RecordId("appeal_event", p)}}
    <2>1. TransitionIssues(seen, r) = IF ~payloadIsValid("appeal_event", p) THEN {"ALB_STORE_ARTIFACT"} ELSE EventIssues(seen, r)
        BY <1>1, <1>5 DEF TransitionIssues
    <2>2. EventIssues(seen, r) = {} <=>
              /\ contested # {}
              /\ assertAppealPolicyAllows(The(contested), AppealOf(h, p.appealId), p) = "ok"
              /\ AppendVerdict(AppealOf(h, p.appealId), p) = "ok"
              /\ ~ ReversalRefused(DecisionsOf(h), p)
        <3>1. p = r.payload /\ r.entityId = p.appealId /\ r.recordId = RecordId("appeal_event", p)
            BY <1>1, <1>5 DEF EntityId
        <3>2. contested = Contested(seen.decisions, p.decisionId)
            OBVIOUS
        <3>3. AppealOf(h, p.appealId) = AcceptedEvents(seen.appeals, p.appealId)
            OBVIOUS
        <3>. HIDE DEF contested, prior, unused
        <3>4. EventIssues(seen, r) = {} <=>
                  /\ contested # {}
                  /\ assertAppealPolicyAllows(The(contested), AppealOf(h, p.appealId), p) = "ok"
                  /\ AppendVerdict(AppealOf(h, p.appealId), p) = "ok"
                  /\ ~ ReversalRefused(seen.decisions, p)
            BY ONLY <3>1, <3>2, <3>3, EventVerified
        <3>. QED
            BY <3>4
    <2>3. prior = {} <=> unused
        <3>1. \A i \in 1 .. Len(h) : h[i].recordId = r.recordId => h[i].payload \in prior
            BY <1>1, <1>5
        <3>2. \A x \in prior : \E i \in 1 .. Len(h) : h[i].recordId = r.recordId
            BY <1>1, <1>5
        <3>. QED
            BY <3>1, <3>2
    <2>4. StoreVerdict(h, t, p) = EventVerdict(DecisionsOf(h), contested, AppealOf(h, p.appealId), prior, p)
        BY <1>5, Zenon DEF StoreVerdict, AppealVerdict, Contested
    <2>. HIDE DEF unused, contested, prior
    <2>. QED
        <3>1. EventVerdict(DecisionsOf(h), contested, AppealOf(h, p.appealId), prior, p) = "ok" <=>
                  /\ payloadIsValid("appeal_event", p)
                  /\ contested # {}
                  /\ prior = {}
                  /\ assertAppealPolicyAllows(The(contested), AppealOf(h, p.appealId), p) = "ok"
                  /\ AppendVerdict(AppealOf(h, p.appealId), p) = "ok"
                  /\ ~ ReversalRefused(DecisionsOf(h), p)
            BY EventOk
        <3>. QED
            BY <1>2, <1>3, <2>1, <2>2, <2>3, <2>4, <3>1
<1>. QED
    BY <1>4, <1>5

\* Every record of h is in its place: the chain of sequences and hashes.
Chained(h) ==
    \A i \in 1 .. Len(h) :
        /\ isRecord(h[i])
        /\ h[i].sequence = i
        /\ h[i].previousHash = IF i = 1 THEN None ELSE h[i - 1].recordHash
        /\ h[i].recordHash = storeRecordHash(recordBody(h[i]))

\* Every record of h is filed under the identifiers of its payload.
Filed(h) ==
    \A i \in 1 .. Len(h) :
        /\ h[i].recordType \in {"decision", "appeal_event"}
        /\ h[i].recordId = RecordId(h[i].recordType, h[i].payload)
        /\ h[i].entityId = EntityId(h[i].recordType, h[i].payload)

\* The parents seen are hashes of records before the last, none named twice.
ParentsSeen(h, parents) ==
    /\ IsSequence(parents)
    /\ \A m, n \in 1 .. Len(parents) : parents[m] = parents[n] => m = n
    /\ \A n \in 1 .. Len(parents) : \E i \in 1 .. (Len(h) - 1) : parents[n] = h[i].recordHash

\* What the verifier has seen of h is what the live store has indexed of it.
SeenAll(h, seen) ==
    /\ seen.issues = {}
    /\ seen.length = Len(h)
    /\ seen.previousHash = HeadHash(h)
    /\ seen.decisions = DecisionsOf(h)
    /\ \A a : AcceptedEvents(seen.appeals, a) = AppealOf(h, a)
    /\ \A i \in 1 .. Len(h) : \E q \in seen.ids : q[1] = h[i].recordId
    /\ \A q \in seen.ids : \E i \in 1 .. Len(h) : q[1] = h[i].recordId

Agrees(h) ==
    /\ IsSequence(h)
    /\ Chained(h)
    /\ Filed(h)
    /\ SeenAll(h, Scan(h))
    /\ ParentsSeen(h, Scan(h).parents)

----------------------------------------------------------------------------
(* What the verifier has kept follows the history, record by record.        *)
LEMMA LongerByOne ==
    ASSUME NEW s, IsSequence(s), NEW e
    PROVE  /\ IsSequence(Append(s, e))
           /\ Len(s) \in Nat
           /\ Len(Append(s, e)) = Len(s) + 1
           /\ \A i \in 1 .. Len(s) : Append(s, e)[i] = s[i]
           /\ Append(s, e)[Len(s) + 1] = e
<1>1. PICK S : s \in Seq(S)
    BY DEF IsSequence
<1>. DEFINE T == S \cup {e}
<1>2. s \in Seq(T) /\ e \in T
    BY <1>1
<1>3. Append(s, e) \in Seq(T)
    BY <1>2
<1>. QED
    BY <1>2, <1>3 DEF IsSequence

LEMMA DecisionsOfStep ==
    ASSUME NEW h, IsSequence(h), NEW r
    PROVE  DecisionsOf(Append(h, r)) =
              IF r.recordType = "decision" THEN DecisionsOf(h) \cup {r.payload} ELSE DecisionsOf(h)
<1>. DEFINE g == Append(h, r)
            n == Len(h)
<1>1. n \in Nat /\ Len(g) = n + 1 /\ g[n + 1] = r /\ \A i \in 1 .. n : g[i] = h[i]
    BY LongerByOne
<1>. HIDE DEF g, n
<1>2. \A d : d \in DecisionsOf(g) <=> \E i \in 1 .. (n + 1) : g[i].recordType = "decision" /\ d = g[i].payload
    BY <1>1 DEF DecisionsOf
<1>3. \A d : d \in DecisionsOf(h) <=> \E i \in 1 .. n : h[i].recordType = "decision" /\ d = h[i].payload
    BY DEF DecisionsOf, n
<1>4. ASSUME NEW d PROVE d \in DecisionsOf(g) <=> d \in DecisionsOf(h) \/ (r.recordType = "decision" /\ d = r.payload)
    <2>1. \A i \in 1 .. (n + 1) : i \in 1 .. n \/ i = n + 1
        BY <1>1
    <2>2. n + 1 \in 1 .. (n + 1) /\ \A i \in 1 .. n : i \in 1 .. (n + 1)
        BY <1>1
    <2>. QED
        BY <1>1, <1>2, <1>3, <2>1, <2>2
<1>. QED
    BY <1>4 DEF g

LEMMA AcceptStep ==
    ASSUME NEW appeals, NEW e, NEW a
    PROVE  AcceptedEvents(Accept(appeals, e), a) =
              IF a = e.appealId THEN Append(AcceptedEvents(appeals, a), e) ELSE AcceptedEvents(appeals, a)
<1>. DEFINE added(b) == Append(AcceptedEvents(appeals, b), e)
<1>1. Accept(appeals, e) =
          [b \in DOMAIN appeals \cup {e.appealId} |-> IF b = e.appealId THEN added(b) ELSE appeals[b]]
    BY Zenon DEF Accept
<1>. HIDE DEF added
<1>2. AcceptedEvents(Accept(appeals, e), a) = IF a = e.appealId THEN added(a) ELSE AcceptedEvents(appeals, a)
    BY <1>1 DEF AcceptedEvents
<1>. QED
    BY <1>2 DEF added

LEMMA ChainedStep ==
    ASSUME NEW h, IsSequence(h), Chained(h), NEW r,
           isRecord(r), r.sequence = Len(h) + 1, r.previousHash = HeadHash(h),
           r.recordHash = storeRecordHash(recordBody(r))
    PROVE  Chained(Append(h, r))
<1>. DEFINE g == Append(h, r)
            n == Len(h)
<1>1. n \in Nat /\ Len(g) = n + 1 /\ g[n + 1] = r /\ \A i \in 1 .. n : g[i] = h[i]
    BY LongerByOne
<1>2. r.previousHash = IF n + 1 = 1 THEN None ELSE h[n].recordHash
    <2>1. h = <<>> <=> n = 0
        BY EmptySeq DEF IsSequence
    <2>. QED
        BY <1>1, <2>1 DEF HeadHash
<1>3. r.sequence = n + 1
    OBVIOUS
<1>4. \A i \in 1 .. n : /\ isRecord(h[i]) /\ h[i].sequence = i
                        /\ h[i].previousHash = IF i = 1 THEN None ELSE h[i - 1].recordHash
                        /\ h[i].recordHash = storeRecordHash(recordBody(h[i]))
    BY DEF Chained
<1>. HIDE DEF g, n
<1>5. ASSUME NEW i \in 1 .. (n + 1)
      PROVE  /\ isRecord(g[i]) /\ g[i].sequence = i
             /\ g[i].previousHash = IF i = 1 THEN None ELSE g[i - 1].recordHash
             /\ g[i].recordHash = storeRecordHash(recordBody(g[i]))
    <2>1. i = 1 \/ i - 1 \in 1 .. n
        BY <1>1
    <2>2. CASE i = n + 1
        <3>1. g[i] = r /\ (i = 1 \/ g[i - 1] = h[n])
            BY <1>1, <2>1, <2>2
        <3>. QED
            BY <1>2, <1>3, <2>2, <3>1
    <2>3. CASE i # n + 1
        <3>1. i \in 1 .. n /\ g[i] = h[i] /\ (i = 1 \/ g[i - 1] = h[i - 1])
            BY <1>1, <2>1, <2>3
        <3>. QED
            BY <1>4, <3>1
    <2>. QED
        BY <2>2, <2>3
<1>. QED
    BY <1>1, <1>5 DEF Chained, g

LEMMA FiledStep ==
    ASSUME NEW h, IsSequence(h), Filed(h), NEW r, r.recordType \in {"decision", "appeal_event"},
           r.recordId = RecordId(r.recordType, r.payload), r.entityId = EntityId(r.recordType, r.payload)
    PROVE  Filed(Append(h, r))
<1>. DEFINE g == Append(h, r)
            n == Len(h)
<1>1. n \in Nat /\ Len(g) = n + 1 /\ g[n + 1] = r /\ \A i \in 1 .. n : g[i] = h[i]
    BY LongerByOne
<1>2. \A i \in 1 .. n : /\ h[i].recordType \in {"decision", "appeal_event"}
                        /\ h[i].recordId = RecordId(h[i].recordType, h[i].payload)
                        /\ h[i].entityId = EntityId(h[i].recordType, h[i].payload)
    BY DEF Filed
<1>. HIDE DEF g, n
<1>3. \A i \in 1 .. (n + 1) : (i \in 1 .. n /\ g[i] = h[i]) \/ g[i] = r
    BY <1>1
<1>. QED
    BY <1>1, <1>2, <1>3 DEF Filed, g

LEMMA HashesDiffer ==
    ASSUME NEW h, Chained(h), NEW i \in 1 .. Len(h), NEW j \in 1 .. Len(h), h[i].recordHash = h[j].recordHash
    PROVE  i = j
<1>1. /\ h[i].recordHash = Sha256(recordBody(h[i])) /\ h[i].sequence = i
      /\ h[j].recordHash = Sha256(recordBody(h[j])) /\ h[j].sequence = j
    BY DEF Chained, storeRecordHash
<1>2. recordBody(h[i]) = recordBody(h[j])
    BY <1>1, DigestInjective
<1>3. recordBody(h[i]).sequence = h[i].sequence /\ recordBody(h[j]).sequence = h[j].sequence
    BY DEF recordBody
<1>. QED
    BY <1>1, <1>2, <1>3

LEMMA ParentsStep ==
    ASSUME NEW h, IsSequence(h), Chained(h), NEW r, NEW parents, NEW next, ParentsSeen(h, parents),
           r.previousHash = HeadHash(h),
           next = IF r.previousHash = None THEN parents ELSE Append(parents, r.previousHash)
    PROVE  ParentsSeen(Append(h, r), next)
<1>. DEFINE g == Append(h, r)
            n == Len(h)
            k == Len(parents)
<1>1. n \in Nat /\ Len(g) = n + 1 /\ \A i \in 1 .. n : g[i] = h[i]
    BY LongerByOne
<1>2. \A m \in 1 .. k : \E i \in 1 .. (n - 1) : parents[m] = h[i].recordHash
    BY DEF ParentsSeen
<1>3. k \in Nat /\ IsSequence(parents) /\ \A m, l \in 1 .. k : parents[m] = parents[l] => m = l
    BY LongerByOne DEF ParentsSeen
<1>4. CASE r.previousHash = None
    <2>1. next = parents
        BY <1>4
    <2>2. \A m \in 1 .. k : \E i \in 1 .. n : parents[m] = g[i].recordHash
        BY <1>1, <1>2
    <2>. QED
        BY <1>1, <1>3, <2>1, <2>2 DEF ParentsSeen
<1>5. CASE r.previousHash # None
    <2>1. n # 0
        BY <1>5, EmptySeq DEF HeadHash, IsSequence
    <2>2. r.previousHash = h[n].recordHash /\ n \in 1 .. n
        BY <1>1, <2>1, EmptySeq DEF HeadHash, IsSequence
    <2>3. /\ IsSequence(next) /\ Len(next) = k + 1 /\ next[k + 1] = h[n].recordHash
          /\ \A m \in 1 .. k : next[m] = parents[m]
        BY <1>3, <1>5, <2>2, LongerByOne
    <2>. HIDE DEF g, n, k
    <2>4. \A m \in 1 .. k : \E i \in 1 .. n : next[m] = h[i].recordHash /\ i # n
        <3>1. \A i \in 1 .. (n - 1) : i \in 1 .. n /\ i # n
            BY <1>1
        <3>2. ASSUME NEW m \in 1 .. k PROVE \E i \in 1 .. n : next[m] = h[i].recordHash /\ i # n
            <4>1. PICK i \in 1 .. (n - 1) : parents[m] = h[i].recordHash
                BY <1>2
            <4>. QED
                BY <2>3, <3>1, <4>1
        <3>. QED
            BY <3>2
    <2>5. \A m \in 1 .. k : next[m] # next[k + 1]
        BY <1>1, <2>2, <2>3, <2>4, HashesDiffer DEF n
    <2>6. \A m \in 1 .. (k + 1) : m \in 1 .. k \/ m = k + 1
        BY <1>3
    <2>7. \A m \in 1 .. (k + 1) : \E i \in 1 .. n : next[m] = g[i].recordHash
        BY <1>1, <2>2, <2>3, <2>4, <2>6
    <2>8. \A m, l \in 1 .. (k + 1) : next[m] = next[l] => m = l
        BY <1>3, <2>3, <2>5, <2>6
    <2>. QED
        BY <1>1, <2>3, <2>7, <2>8 DEF ParentsSeen, g
<1>. QED
    BY <1>4, <1>5

LEMMA AgreesEmpty == Agrees(<<>>)
<1>1. IsSequence(<<>>) /\ Len(<<>>) = 0 /\ 1 .. 0 = {}
    BY DEF IsSequence
<1>2. Scan(<<>>) = NoHistory /\ \A a : AppealOf(<<>>, a) = NoEvents
    BY <1>1, ScanStep, AppealOfStep
<1>3. /\ NoHistory.issues = {} /\ NoHistory.length = 0 /\ NoHistory.previousHash = None
      /\ NoHistory.decisions = {} /\ NoHistory.ids = {} /\ NoHistory.parents = <<>> /\ NoHistory.appeals = <<>>
    BY DEF NoHistory
<1>4. \A a : AcceptedEvents(<<>>, a) = NoEvents
    BY DEF AcceptedEvents
<1>5. Chained(<<>>) /\ Filed(<<>>) /\ ParentsSeen(<<>>, <<>>)
    BY <1>1 DEF Chained, Filed, ParentsSeen
<1>6. DecisionsOf(<<>>) = {} /\ HeadHash(<<>>) = None
    BY <1>1 DEF DecisionsOf, HeadHash
<1>7. SeenAll(<<>>, NoHistory)
    BY <1>1, <1>2, <1>3, <1>4, <1>6 DEF SeenAll
<1>. QED
    BY <1>1, <1>2, <1>3, <1>5, <1>7 DEF Agrees

LEMMA AgreesStep ==
    ASSUME NEW h, Agrees(h), NEW t \in {"decision", "appeal_event"}, NEW p, StoreVerdict(h, t, p) = "ok"
    PROVE  Agrees(Append(h, nextRecord(h, t, p)))
<1>. SUFFICES ASSUME NEW r, NEW g, NEW n, NEW seen, NEW next,
                     r = nextRecord(h, t, p), g = Append(h, r), n = Len(h), seen = Scan(h), next = Scan(g)
              PROVE  Agrees(g)
    OBVIOUS
<1>1. IsSequence(h) /\ Chained(h) /\ Filed(h) /\ SeenAll(h, seen) /\ ParentsSeen(h, seen.parents)
    BY DEF Agrees
<1>2. /\ isRecord(r) /\ r.sequence = n + 1 /\ r.previousHash = HeadHash(h) /\ r.recordType = t
      /\ r.recordId = RecordId(t, p) /\ r.entityId = EntityId(t, p) /\ r.payload = p
      /\ r.recordHash = storeRecordHash(recordBody(r))
    BY ONLY NextRecord, r = nextRecord(h, t, p), n = Len(h)
<1>3. n \in Nat /\ Len(g) = n + 1 /\ g[n + 1] = r /\ \A i \in 1 .. n : g[i] = h[i]
    BY <1>1, LongerByOne
<1>4. next = VerifyLine(seen, r)
    BY <1>1, ScanStep
<1>5. \A i \in 1 .. n : h[i].recordId = RecordId(h[i].recordType, h[i].payload)
    BY <1>1 DEF Filed
<1>6. DecisionsOf(g) = IF t = "decision" THEN DecisionsOf(h) \cup {p} ELSE DecisionsOf(h)
    BY <1>1, <1>2, DecisionsOfStep
<1>7. \A a : AppealOf(g, a) = AddEvent(AppealOf(h, a), r, a)
    BY <1>1, AppealOfStep
<1>8. IsSequence(g) /\ Chained(g) /\ Filed(g)
    BY <1>1, <1>2, LongerByOne, ChainedStep, FiledStep
<1>9. HeadHash(g) = r.recordHash
    BY <1>3, <1>8, EmptySeq DEF HeadHash, IsSequence
<1>10. next.issues = {}
    <2>1. /\ seen.issues = {} /\ seen.length = Len(h) /\ seen.previousHash = HeadHash(h)
          /\ seen.decisions = DecisionsOf(h)
          /\ \A a : AcceptedEvents(seen.appeals, a) = AppealOf(h, a)
          /\ \A i \in 1 .. Len(h) : \E q \in seen.ids : q[1] = h[i].recordId
          /\ \A q \in seen.ids : \E i \in 1 .. Len(h) : q[1] = h[i].recordId
          /\ \A i \in 1 .. Len(h) : h[i].recordId = RecordId(h[i].recordType, h[i].payload)
        BY <1>1, <1>5 DEF SeenAll
    <2>2. VerifyLine(seen, r).issues = {}
        BY ONLY <2>1, t \in {"decision", "appeal_event"}, r = nextRecord(h, t, p), StoreVerdict(h, t, p) = "ok", Judges
    <2>. QED
        BY <1>4, <2>2
<1>11. TransitionIssues(seen, r) = {}
    BY <1>2, <1>4, <1>10, LineIssues
<1>12. /\ next.length = n + 1
       /\ next.previousHash = r.recordHash
       /\ next.ids = IdsAfter(seen.ids, r)
       /\ next.parents = IF r.previousHash = None THEN seen.parents ELSE Append(seen.parents, r.previousHash)
       /\ next.decisions = IF t = "decision" THEN seen.decisions \cup {p} ELSE seen.decisions
       /\ next.appeals = IF t = "appeal_event" THEN Accept(seen.appeals, p) ELSE seen.appeals
    <2>1. seen.length = n /\ isRecord(r)
        BY <1>1, <1>2 DEF SeenAll
    <2>2. r.recordType = t /\ r.payload = p
        BY <1>2
    <2>. QED
        BY ONLY <1>4, <1>11, <2>1, <2>2, LineFields
<1>13. next.decisions = DecisionsOf(g)
    BY <1>1, <1>6, <1>12 DEF SeenAll
<1>14. ASSUME NEW a PROVE AcceptedEvents(next.appeals, a) = AppealOf(g, a)
    <2>1. AcceptedEvents(seen.appeals, a) = AppealOf(h, a)
        BY <1>1 DEF SeenAll
    <2>2. CASE t = "decision"
        BY <1>2, <1>7, <1>12, <2>1, <2>2 DEF AddEvent
    <2>3. CASE t = "appeal_event"
        <3>1. r.entityId = p.appealId
            BY <1>2, <2>3 DEF EntityId
        <3>2. AcceptedEvents(next.appeals, a) = IF a = p.appealId THEN Append(AppealOf(h, a), p) ELSE AppealOf(h, a)
            <4>1. next.appeals = Accept(seen.appeals, p)
                BY <1>12, <2>3
            <4>. QED
                <5>1. AcceptedEvents(Accept(seen.appeals, p), a) =
                          IF a = p.appealId THEN Append(AcceptedEvents(seen.appeals, a), p)
                          ELSE AcceptedEvents(seen.appeals, a)
                    BY ONLY AcceptStep
                <5>. QED
                    BY ONLY <2>1, <4>1, <5>1
        <3>3. AppealOf(g, a) = IF a = p.appealId THEN Append(AppealOf(h, a), p) ELSE AppealOf(h, a)
            BY <1>2, <1>7, <2>3, <3>1 DEF AddEvent
        <3>. QED
            BY <3>2, <3>3
    <2>. QED
        BY <2>2, <2>3
<1>15. ASSUME NEW i \in 1 .. (n + 1) PROVE \E q \in next.ids : q[1] = g[i].recordId
    <2>1. <<r.recordId, r.recordHash>> \in next.ids /\ <<r.recordId, r.recordHash>>[1] = r.recordId
        BY <1>12 DEF IdsAfter
    <2>2. CASE g[i].recordId = r.recordId
        BY <2>1, <2>2
    <2>3. CASE g[i].recordId # r.recordId
        <3>1. i \in 1 .. n /\ g[i] = h[i]
            BY <1>3, <2>3
        <3>2. PICK q \in seen.ids : q[1] = h[i].recordId
            BY <1>1, <3>1 DEF SeenAll
        <3>3. q \in next.ids
            BY <1>12, <2>3, <3>1, <3>2 DEF IdsAfter
        <3>. QED
            BY <3>1, <3>2, <3>3
    <2>. QED
        BY <2>2, <2>3
<1>16. ASSUME NEW q \in next.ids PROVE \E i \in 1 .. (n + 1) : q[1] = g[i].recordId
    <2>1. CASE q \in seen.ids
        <3>1. PICK i \in 1 .. n : q[1] = h[i].recordId
            BY <1>1, <2>1 DEF SeenAll
        <3>. QED
            BY <1>3, <3>1
    <2>2. CASE q = <<r.recordId, r.recordHash>>
        BY <1>3, <2>2
    <2>. QED
        BY <1>12, <2>1, <2>2 DEF IdsAfter
<1>17. SeenAll(g, next)
    BY <1>3, <1>9, <1>10, <1>12, <1>13, <1>14, <1>15, <1>16 DEF SeenAll
<1>18. ParentsSeen(g, next.parents)
    BY <1>1, <1>2, <1>12, ParentsStep
<1>. QED
    BY <1>8, <1>17, <1>18 DEF Agrees

----------------------------------------------------------------------------
(* Histories and their beginnings.                                          *)
LEMMA PrefixWhole ==
    ASSUME NEW s, IsSequence(s)
    PROVE  Len(s) \in Nat /\ SubSeq(s, 1, 0) = <<>> /\ SubSeq(s, 1, Len(s)) = s
<1>1. PICK S : s \in Seq(S)
    BY DEF IsSequence
<1>. QED
    BY <1>1

LEMMA PrefixOf ==
    ASSUME NEW s, IsSequence(s), NEW n \in 0 .. Len(s), NEW p, p = SubSeq(s, 1, n)
    PROVE  /\ IsSequence(p)
           /\ Len(p) = n
           /\ \A i \in 1 .. n : p[i] = s[i]
<1>1. PICK S : s \in Seq(S)
    BY DEF IsSequence
<1>2. p \in Seq(S) /\ Len(p) = n /\ \A i \in 1 .. n : p[i] = s[i]
    BY <1>1
<1>. QED
    BY <1>2 DEF IsSequence

LEMMA PrefixLonger ==
    ASSUME NEW s, IsSequence(s), NEW n \in 1 .. Len(s)
    PROVE  SubSeq(s, 1, n) = Append(SubSeq(s, 1, n - 1), s[n])
<1>1. PICK S : s \in Seq(S)
    BY DEF IsSequence
<1>. QED
    BY <1>1

LEMMA PrefixOfPrefix ==
    ASSUME NEW s, IsSequence(s), NEW n \in 0 .. Len(s), NEW m \in 0 .. n
    PROVE  SubSeq(SubSeq(s, 1, n), 1, m) = SubSeq(s, 1, m)
<1>1. PICK S : s \in Seq(S)
    BY DEF IsSequence
<1>. QED
    BY <1>1

LEMMA PrefixOfLonger ==
    ASSUME NEW s, IsSequence(s), NEW e, NEW m \in 0 .. Len(s)
    PROVE  SubSeq(Append(s, e), 1, m) = SubSeq(s, 1, m)
<1>1. PICK S : s \in Seq(S)
    BY DEF IsSequence
<1>. DEFINE T == S \cup {e}
<1>2. s \in Seq(T) /\ e \in T
    BY <1>1
<1>. HIDE DEF T
<1>. QED
    BY <1>2

\* h is a history the guards let callers build: every record is the next one
\* of the records before it, for a payload the guards accepted there.
LawfulAt(h, n) ==
    /\ h[n].recordType \in {"decision", "appeal_event"}
    /\ h[n] = nextRecord(SubSeq(h, 1, n - 1), h[n].recordType, h[n].payload)
    /\ StoreVerdict(SubSeq(h, 1, n - 1), h[n].recordType, h[n].payload) = "ok"

Lawful(h) == IsSequence(h) /\ \A n \in 1 .. Len(h) : LawfulAt(h, n)

LEMMA LawfulEmpty == Lawful(<<>>)
    BY DEF Lawful, IsSequence

LEMMA LawfulPrefix ==
    ASSUME NEW h, Lawful(h), NEW n \in 0 .. Len(h)
    PROVE  Lawful(SubSeq(h, 1, n))
<1>. SUFFICES ASSUME NEW g, g = SubSeq(h, 1, n) PROVE Lawful(g)
    OBVIOUS
<1>1. IsSequence(h) /\ Len(h) \in Nat /\ \A i \in 1 .. Len(h) : LawfulAt(h, i)
    BY PrefixWhole DEF Lawful
<1>2. IsSequence(g) /\ Len(g) = n /\ \A i \in 1 .. n : g[i] = h[i]
    <2>1. IsSequence(h)
        BY <1>1
    <2>. QED
        BY ONLY <2>1, g = SubSeq(h, 1, n), PrefixOf
<1>3. ASSUME NEW i \in 1 .. n PROVE LawfulAt(g, i)
    <2>1. i - 1 \in 0 .. n
        OBVIOUS
    <2>2. SubSeq(g, 1, i - 1) = SubSeq(h, 1, i - 1)
        BY ONLY <1>1, <2>1, n \in 0 .. Len(h), g = SubSeq(h, 1, n), PrefixOfPrefix
    <2>3. LawfulAt(h, i) /\ g[i] = h[i]
        BY <1>1, <1>2
    <2>. QED
        BY ONLY <2>2, <2>3 DEF LawfulAt
<1>. QED
    BY ONLY <1>2, <1>3 DEF Lawful

LEMMA LawfulStep ==
    ASSUME NEW h, Lawful(h), NEW t \in {"decision", "appeal_event"}, NEW p, StoreVerdict(h, t, p) = "ok"
    PROVE  Lawful(Append(h, nextRecord(h, t, p)))
<1>. SUFFICES ASSUME NEW r, NEW g, NEW n, r = nextRecord(h, t, p), g = Append(h, r), n = Len(h)
              PROVE  Lawful(g)
    OBVIOUS
<1>1. IsSequence(h) /\ n \in Nat
    BY LongerByOne DEF Lawful
<1>2. IsSequence(g) /\ Len(g) = n + 1 /\ g[n + 1] = r /\ \A i \in 1 .. n : g[i] = h[i]
    BY <1>1, LongerByOne
<1>3. r.recordType = t /\ r.payload = p
    BY ONLY r = nextRecord(h, t, p) DEF nextRecord
<1>4. ASSUME NEW m \in 0 .. n PROVE SubSeq(g, 1, m) = SubSeq(h, 1, m)
    BY ONLY <1>1, <1>4, g = Append(h, r), n = Len(h), PrefixOfLonger
<1>5. SubSeq(g, 1, n) = h
    BY <1>1, <1>4, PrefixWhole
<1>6. \A i \in 1 .. n : LawfulAt(h, i)
    BY DEF Lawful
<1>7. ASSUME NEW i \in 1 .. (n + 1) PROVE LawfulAt(g, i)
    <2>1. CASE i = n + 1
        <3>1. SubSeq(g, 1, i - 1) = h /\ g[i] = r
            BY <1>1, <1>2, <1>5, <2>1
        <3>. QED
            BY <1>3, <3>1 DEF LawfulAt
    <2>2. CASE i # n + 1
        <3>1. i \in 1 .. n /\ i - 1 \in 0 .. n
            BY <1>1, <2>2
        <3>2. g[i] = h[i] /\ SubSeq(g, 1, i - 1) = SubSeq(h, 1, i - 1) /\ LawfulAt(h, i)
            BY <1>2, <1>4, <1>6, <3>1
        <3>. QED
            BY ONLY <3>2 DEF LawfulAt
    <2>. QED
        BY <2>1, <2>2
<1>. QED
    BY <1>2, <1>7 DEF Lawful

----------------------------------------------------------------------------
(* A lawful history verifies.                                               *)
LEMMA LawfulAgrees ==
    ASSUME NEW h, Lawful(h)
    PROVE  Agrees(h)
<1>. DEFINE bad == {k \in Nat : k <= Len(h) /\ ~ Agrees(SubSeq(h, 1, k))}
<1>1. IsSequence(h) /\ Len(h) \in Nat /\ SubSeq(h, 1, 0) = <<>> /\ SubSeq(h, 1, Len(h)) = h
    BY PrefixWhole DEF Lawful
<1>2. ASSUME bad # {} PROVE FALSE
    <2>1. PICK k \in bad : \A j \in bad : k <= j
        BY <1>2, Least
    <2>2. k # 0
        BY <1>1, <2>1, AgreesEmpty
    <2>3. k \in 1 .. Len(h) /\ Agrees(SubSeq(h, 1, k - 1))
        BY <1>1, <2>1, <2>2
    <2>4. SubSeq(h, 1, k) = Append(SubSeq(h, 1, k - 1), h[k])
        BY <1>1, <2>3, PrefixLonger
    <2>5. LawfulAt(h, k)
        BY <2>3 DEF Lawful
    <2>6. Agrees(SubSeq(h, 1, k))
        BY ONLY <2>3, <2>4, <2>5, AgreesStep DEF LawfulAt
    <2>. QED
        BY <2>1, <2>6
<1>. QED
    <2>1. Len(h) \notin bad
        BY <1>2
    <2>2. Agrees(SubSeq(h, 1, Len(h)))
        BY <1>1, <2>1
    <2>3. SubSeq(h, 1, Len(h)) = h
        BY <1>1
    <2>. QED
        BY ONLY <2>2, <2>3

LEMMA Conclusion ==
    ASSUME NEW seen
    PROVE  Concluded(seen, {}).valid <=> seen.issues = {} /\ IsInjective(seen.parents)
<1>1. Completeness(seen.length, seen.previousHash, {}) = "unproven"
    BY DEF Completeness
<1>2. Concluded(seen, {}).valid = (seen.issues \cup Issue("ALB_STORE_FORK", ~IsInjective(seen.parents))
                                       \cup Issue("ALB_STORE_CHECKPOINT", FALSE) = {})
    BY <1>1 DEF Concluded, Verification
<1>. QED
    BY <1>2 DEF Issue

LEMMA AgreesVerifies ==
    ASSUME NEW h, Agrees(h)
    PROVE  verifyStoreRecords(h, {}).valid
<1>1. Scan(h).issues = {} /\ ParentsSeen(h, Scan(h).parents)
    BY DEF Agrees, SeenAll
<1>2. IsInjective(Scan(h).parents)
    <2>1. DOMAIN Scan(h).parents = 1 .. Len(Scan(h).parents)
        BY <1>1 DEF ParentsSeen, IsSequence
    <2>. QED
        BY <1>1, <2>1 DEF ParentsSeen, IsInjective
<1>. QED
    BY <1>1, <1>2, Conclusion DEF verifyStoreRecords

LEMMA AgreesJudges ==
    ASSUME NEW h, Agrees(h), NEW t \in {"decision", "appeal_event"}, NEW p, NEW r, r = nextRecord(h, t, p)
    PROVE  VerifyLine(Scan(h), r).issues = {} <=> StoreVerdict(h, t, p) = "ok"
<1>. SUFFICES ASSUME NEW seen, seen = Scan(h)
              PROVE  VerifyLine(seen, r).issues = {} <=> StoreVerdict(h, t, p) = "ok"
    OBVIOUS
<1>1. /\ seen.issues = {} /\ seen.length = Len(h) /\ seen.previousHash = HeadHash(h)
      /\ seen.decisions = DecisionsOf(h)
      /\ \A a : AcceptedEvents(seen.appeals, a) = AppealOf(h, a)
      /\ \A i \in 1 .. Len(h) : \E q \in seen.ids : q[1] = h[i].recordId
      /\ \A q \in seen.ids : \E i \in 1 .. Len(h) : q[1] = h[i].recordId
      /\ \A i \in 1 .. Len(h) : h[i].recordId = RecordId(h[i].recordType, h[i].payload)
    BY DEF Agrees, SeenAll, Filed
<1>. QED
    BY ONLY <1>1, r = nextRecord(h, t, p), Judges

\* The two judges agree: after any history the guards built, they accept one
\* more payload exactly when the verifier accepts the history with its record.
LEMMA JudgesAgree ==
    ASSUME NEW h, Lawful(h), NEW t \in {"decision", "appeal_event"}, NEW p
    PROVE  StoreVerdict(h, t, p) = "ok" <=> verifyStoreRecords(Append(h, nextRecord(h, t, p)), {}).valid
<1>1. Agrees(h) /\ IsSequence(h)
    BY LawfulAgrees DEF Lawful
<1>. SUFFICES ASSUME NEW g, NEW r, r = nextRecord(h, t, p), g = Append(h, r)
              PROVE  StoreVerdict(h, t, p) = "ok" <=> verifyStoreRecords(g, {}).valid
    OBVIOUS
<1>2. ASSUME StoreVerdict(h, t, p) = "ok" PROVE verifyStoreRecords(g, {}).valid
    <2>1. Agrees(g)
        BY <1>1, <1>2, AgreesStep
    <2>. QED
        BY <2>1, AgreesVerifies
<1>3. ASSUME verifyStoreRecords(g, {}).valid PROVE StoreVerdict(h, t, p) = "ok"
    <2>1. Scan(g) = VerifyLine(Scan(h), r)
        BY <1>1, ScanStep
    <2>2. Scan(g).issues = {}
        BY <1>3, Conclusion DEF verifyStoreRecords
    <2>. QED
        BY <1>1, <2>1, <2>2, AgreesJudges
<1>. QED
    BY <1>2, <1>3

----------------------------------------------------------------------------
(* A history that verifies is lawful.                                       *)
\* An issue found stays found.
LEMMA LineKeepsIssues ==
    ASSUME NEW seen, NEW e, VerifyLine(seen, e).issues = {}
    PROVE  isRecord(e) /\ seen.issues = {}
<1>1. isRecord(e)
    <2>1. ASSUME ~isRecord(e) PROVE "ALB_STORE_RECORD" \in VerifyLine(seen, e).issues
        BY <2>1 DEF VerifyLine
    <2>. QED
        BY <2>1
<1>. QED
    BY <1>1, LineIssues

\* If nothing was found, the records are chained.
Followed(h, seen) ==
    seen.issues = {} => Chained(h) /\ seen.length = Len(h) /\ seen.previousHash = HeadHash(h)

LEMMA FollowedStep ==
    ASSUME NEW h, IsSequence(h), NEW seen, Followed(h, seen), NEW r, NEW g, g = Append(h, r)
    PROVE  Followed(g, VerifyLine(seen, r))
<1>1. SUFFICES ASSUME NEW next, next = VerifyLine(seen, r), next.issues = {}
               PROVE  Chained(g) /\ next.length = Len(g) /\ next.previousHash = HeadHash(g)
    BY DEF Followed
<1>2. isRecord(r) /\ seen.issues = {}
    BY <1>1, LineKeepsIssues
<1>3. Chained(h) /\ seen.length = Len(h) /\ seen.previousHash = HeadHash(h)
    BY <1>2 DEF Followed
<1>4. /\ r.sequence = seen.length + 1 /\ r.previousHash = seen.previousHash
      /\ r.recordHash = storeRecordHash(recordBody(r))
    BY <1>1, <1>2, LineIssues
<1>5. Chained(g)
    BY <1>2, <1>3, <1>4, ChainedStep
<1>6. next.length = seen.length + 1 /\ next.previousHash = r.recordHash
    BY <1>1, <1>2, LineFields
<1>7. Len(g) = Len(h) + 1 /\ g[Len(h) + 1] = r /\ IsSequence(g) /\ Len(h) \in Nat
    BY LongerByOne
<1>8. HeadHash(g) = r.recordHash
    BY <1>7, EmptySeq DEF HeadHash, IsSequence
<1>. QED
    BY <1>3, <1>5, <1>6, <1>7, <1>8

LEMMA VerifiedIsChained ==
    ASSUME NEW lines, IsSequence(lines), Scan(lines).issues = {}
    PROVE  Chained(lines)
<1>. DEFINE pre(k) == SubSeq(lines, 1, k)
            bad == {k \in Nat : k <= Len(lines) /\ ~ Followed(pre(k), Scan(pre(k)))}
<1>1. Len(lines) \in Nat /\ pre(0) = <<>> /\ pre(Len(lines)) = lines
    BY PrefixWhole
<1>2. Followed(<<>>, Scan(<<>>))
    <2>1. Agrees(<<>>)
        BY AgreesEmpty
    <2>. QED
        BY <2>1 DEF Agrees, SeenAll, Followed
<1>3. ASSUME bad # {} PROVE FALSE
    <2>1. PICK k \in bad : \A j \in bad : k <= j
        BY <1>3, Least
    <2>2. k # 0
        BY <1>1, <1>2, <2>1
    <2>3. k \in 1 .. Len(lines) /\ Followed(pre(k - 1), Scan(pre(k - 1)))
        BY <1>1, <2>1, <2>2
    <2>4. pre(k) = Append(pre(k - 1), lines[k])
        BY <1>1, <2>3, PrefixLonger
    <2>5. IsSequence(pre(k - 1))
        <3>1. k - 1 \in 0 .. Len(lines)
            BY <1>1, <2>3
        <3>. QED
            BY <3>1, PrefixOf
    <2>. HIDE DEF pre
    <2>6. Scan(pre(k)) = VerifyLine(Scan(pre(k - 1)), lines[k])
        BY <2>4, <2>5, ScanStep
    <2>7. Followed(pre(k), Scan(pre(k)))
        BY ONLY <2>3, <2>4, <2>5, <2>6, FollowedStep
    <2>. QED
        BY <2>1, <2>7
<1>4. Len(lines) \notin bad
    BY <1>3
<1>5. Followed(pre(Len(lines)), Scan(pre(Len(lines))))
    BY <1>1, <1>4
<1>6. pre(Len(lines)) = lines
    BY <1>1
<1>. HIDE DEF pre
<1>7. Followed(lines, Scan(lines))
    BY ONLY <1>5, <1>6
<1>. QED
    BY <1>7 DEF Followed

\* A line the file format lets through has the fields of a record.
IsRecordLine(r) ==
    /\ r = [sequence |-> r.sequence, previousHash |-> r.previousHash, recordType |-> r.recordType,
            recordId |-> r.recordId, entityId |-> r.entityId, payload |-> r.payload, recordHash |-> r.recordHash]
    /\ r.recordType \in {"decision", "appeal_event"}

LEMMA AcceptedIsBound ==
    ASSUME NEW seen, NEW r, r.recordType \in {"decision", "appeal_event"}, TransitionIssues(seen, r) = {}
    PROVE  /\ r.recordId = RecordId(r.recordType, r.payload)
           /\ r.entityId = EntityId(r.recordType, r.payload)
<1>1. CASE r.recordType = "decision"
    <2>1. DecisionIssues(seen, r) = {}
        BY <1>1 DEF TransitionIssues
    <2>2. r.entityId = r.payload.artifactId /\ r.recordId = RecordId("decision", r.payload)
        BY <2>1 DEF DecisionIssues, Issue
    <2>. QED
        BY <1>1, <2>2 DEF EntityId
<1>2. CASE r.recordType = "appeal_event"
    <2>1. EventIssues(seen, r) = {}
        BY <1>2 DEF TransitionIssues
    <2>. DEFINE unbound == \/ r.entityId # r.payload.appealId
                           \/ r.recordId # RecordId("appeal_event", r.payload)
    <2>2. Issue("ALB_STORE_APPEAL_BINDING", unbound) \subseteq EventIssues(seen, r)
        BY Zenon DEF EventIssues
    <2>3. ~ unbound
        BY <2>1, <2>2 DEF Issue
    <2>. QED
        BY <1>2, <2>3 DEF EntityId
<1>. QED
    BY <1>1, <1>2

LEMMA NextRecordIs ==
    ASSUME NEW h, NEW r, IsRecordLine(r), r.sequence = Len(h) + 1, r.previousHash = HeadHash(h),
           r.recordId = RecordId(r.recordType, r.payload), r.entityId = EntityId(r.recordType, r.payload),
           r.recordHash = storeRecordHash(recordBody(r))
    PROVE  r = nextRecord(h, r.recordType, r.payload)
<1>. DEFINE body == [sequence |-> Len(h) + 1, previousHash |-> HeadHash(h), recordType |-> r.recordType,
                     recordId |-> RecordId(r.recordType, r.payload),
                     entityId |-> EntityId(r.recordType, r.payload), payload |-> r.payload]
<1>1. recordBody(r) = body
    BY DEF recordBody
<1>2. nextRecord(h, r.recordType, r.payload) =
          [sequence |-> Len(h) + 1, previousHash |-> HeadHash(h), recordType |-> r.recordType,
           recordId |-> RecordId(r.recordType, r.payload), entityId |-> EntityId(r.recordType, r.payload),
           payload |-> r.payload, recordHash |-> storeRecordHash(body)]
    BY DEF nextRecord, HeadHash
<1>3. r = [sequence |-> r.sequence, previousHash |-> r.previousHash, recordType |-> r.recordType,
           recordId |-> r.recordId, entityId |-> r.entityId, payload |-> r.payload, recordHash |-> r.recordHash]
    BY DEF IsRecordLine
<1>. HIDE DEF body
<1>. QED
    BY <1>1, <1>2, <1>3, Zenon

LEMMA VerifiedStep ==
    ASSUME NEW h, Lawful(h), NEW r, IsRecordLine(r), NEW seen, seen = Scan(h), VerifyLine(seen, r).issues = {}
    PROVE  Lawful(Append(h, r))
<1>1. Agrees(h) /\ isRecord(r)
    BY LawfulAgrees, LineKeepsIssues
<1>2. seen.length = Len(h) /\ seen.previousHash = HeadHash(h)
    BY <1>1 DEF Agrees, SeenAll
<1>3. /\ r.sequence = Len(h) + 1 /\ r.previousHash = HeadHash(h)
      /\ r.recordHash = storeRecordHash(recordBody(r)) /\ TransitionIssues(seen, r) = {}
    <2>1. /\ r.sequence = seen.length + 1 /\ r.previousHash = seen.previousHash
          /\ r.recordHash = storeRecordHash(recordBody(r)) /\ TransitionIssues(seen, r) = {}
        BY <1>1, LineIssues
    <2>. QED
        BY ONLY <1>2, <2>1
<1>4. r.recordType \in {"decision", "appeal_event"}
    BY DEF IsRecordLine
<1>5. r.recordId = RecordId(r.recordType, r.payload) /\ r.entityId = EntityId(r.recordType, r.payload)
    BY <1>3, <1>4, AcceptedIsBound
<1>6. r = nextRecord(h, r.recordType, r.payload)
    BY <1>3, <1>5, NextRecordIs
<1>7. StoreVerdict(h, r.recordType, r.payload) = "ok"
    BY <1>1, <1>4, <1>6, AgreesJudges
<1>. QED
    BY <1>4, <1>6, <1>7, LawfulStep

\* What verifies could have been built: every line of a file the verifier
\* accepts was, where it stands, the next record for a payload the guards of
\* the live store accept.
THEOREM VerifiedIsLawful ==
    ASSUME NEW lines, IsSequence(lines), \A i \in 1 .. Len(lines) : isRecord(lines[i]) => IsRecordLine(lines[i]),
           verifyStoreRecords(lines, {}).valid
    PROVE  Lawful(lines)
<1>. DEFINE pre(k) == SubSeq(lines, 1, k)
            bad == {k \in Nat : k <= Len(lines) /\ ~ (Scan(pre(k)).issues = {} => Lawful(pre(k)))}
<1>1. Len(lines) \in Nat /\ pre(0) = <<>> /\ pre(Len(lines)) = lines
    BY PrefixWhole
<1>2. ASSUME bad # {} PROVE FALSE
    <2>1. PICK k \in bad : \A j \in bad : k <= j
        BY <1>2, Least
    <2>2. k # 0
        BY <1>1, <2>1, LawfulEmpty
    <2>3. k \in 1 .. Len(lines) /\ (Scan(pre(k - 1)).issues = {} => Lawful(pre(k - 1)))
        BY <1>1, <2>1, <2>2
    <2>4. pre(k) = Append(pre(k - 1), lines[k])
        BY <1>1, <2>3, PrefixLonger
    <2>5. IsSequence(pre(k - 1))
        <3>1. k - 1 \in 0 .. Len(lines)
            BY <1>1, <2>3
        <3>. QED
            BY <3>1, PrefixOf
    <2>. HIDE DEF pre
    <2>6. Scan(pre(k)) = VerifyLine(Scan(pre(k - 1)), lines[k])
        BY <2>4, <2>5, ScanStep
    <2>7. ASSUME Scan(pre(k)).issues = {} PROVE Lawful(pre(k))
        <3>1. isRecord(lines[k]) /\ Scan(pre(k - 1)).issues = {}
            BY <2>6, <2>7, LineKeepsIssues
        <3>2. IsRecordLine(lines[k]) /\ Lawful(pre(k - 1))
            BY <2>3, <3>1
        <3>. QED
            BY ONLY <2>4, <2>6, <2>7, <3>2, VerifiedStep
    <2>. QED
        BY <2>1, <2>7
<1>3. Scan(lines).issues = {}
    BY Conclusion DEF verifyStoreRecords
<1>4. Len(lines) \notin bad
    BY <1>2
<1>5. Scan(pre(Len(lines))).issues = {} => Lawful(pre(Len(lines)))
    BY <1>1, <1>4
<1>6. pre(Len(lines)) = lines
    BY <1>1
<1>. HIDE DEF pre
<1>. QED
    BY ONLY <1>3, <1>5, <1>6

----------------------------------------------------------------------------
(* A call answered without a record.                                         *)
LEMMA VerdictIs ==
    ASSUME NEW checks, DOMAIN checks \subseteq Nat, Verdict(checks) # "ok"
    PROVE  \E n \in DOMAIN checks : checks[n][2] /\ checks[n][1] = Verdict(checks)
<1>. DEFINE failed == Failed(checks)
<1>1. failed \in SUBSET Nat
    BY DEF Failed
<1>2. failed # {}
    BY DEF Verdict, Failed
<1>3. \E m \in failed : \A k \in failed : m <= k
    BY <1>1, <1>2, Least
<1>4. Min(failed) \in failed
    BY <1>3 DEF Min
<1>5. Verdict(checks) = checks[Min(failed)][1]
    BY <1>2, Zenon DEF Verdict
<1>. QED
    BY <1>4, <1>5 DEF Failed

\* The codes the guards of an appeal can throw, and those of the store itself.
AppealCodes ==
    {"ok", "ALB_APPEAL_BINDING", "ALB_APPEAL_SEQUENCE", "ALB_APPEAL_EQUIVOCATION", "ALB_APPEAL_DUPLICATE",
     "ALB_APPEAL_GENESIS", "ALB_APPEAL_CHAIN", "ALB_APPEAL_TERMINAL", "ALB_APPEAL_EVIDENCE",
     "ALB_APPEAL_SUPERSESSION", "ALB_APPEAL_FORK", "ALB_APPEAL_CONFLICT", "ALB_APPEAL_EVENT_CAP",
     "ALB_APPEAL_REVIEWER_UNAUTHORIZED"}

StoreCodes ==
    {"ALB_STORE_ARTIFACT_INVALID", "ALB_STORE_CONFLICT", "ALB_STORE_SUPERSESSION", "ALB_STORE_DECISION_NOT_FOUND"}

LEMMA VerdictAmong ==
    ASSUME NEW checks, DOMAIN checks \subseteq Nat, NEW codes, "ok" \in codes,
           \A n \in DOMAIN checks : checks[n][1] \in codes
    PROVE  Verdict(checks) \in codes
<1>1. CASE Verdict(checks) = "ok"
    BY <1>1
<1>2. CASE Verdict(checks) # "ok"
    BY <1>2, VerdictIs
<1>. QED
    BY <1>1, <1>2

LEMMA PolicyCodes ==
    ASSUME NEW d, NEW existing, NEW e
    PROVE  assertAppealPolicyAllows(d, existing, e) \in AppealCodes
<1>. DEFINE checks == <<
        <<"ALB_APPEAL_EVENT_CAP", Len(existing) >= d.maxAppealEvents>>,
        <<"ALB_APPEAL_REVIEWER_UNAUTHORIZED",
            /\ e.eventType \in REVIEWER_EVENTS
            /\ \/ e.actor.role # "reviewer"
               \/ e.actor.id \notin d.reviewerIds>> >>
<1>1. assertAppealPolicyAllows(d, existing, e) = Verdict(checks)
    BY DEF assertAppealPolicyAllows
<1>2. /\ DOMAIN checks = {1, 2} /\ checks[1][1] = "ALB_APPEAL_EVENT_CAP"
      /\ checks[2][1] = "ALB_APPEAL_REVIEWER_UNAUTHORIZED"
    OBVIOUS
<1>. HIDE DEF checks
<1>3. "ok" \in AppealCodes /\ DOMAIN checks \subseteq Nat /\ \A n \in DOMAIN checks : checks[n][1] \in AppealCodes
    BY <1>2 DEF AppealCodes
<1>. QED
    BY <1>1, <1>3, VerdictAmong

LEMMA NineInSequence ==
    ASSUME NEW a, NEW b, NEW c, NEW d, NEW e, NEW f, NEW g, NEW h, NEW k
    PROVE  IsSequence(<<a, b, c, d, e, f, g, h, k>>)
<1>1. <<a, b, c, d, e, f, g, h, k>> \in Seq({a, b, c, d, e, f, g, h, k})
    OBVIOUS
<1>. QED
    BY <1>1, Zenon DEF IsSequence

LEMMA ChecksCodes ==
    ASSUME NEW events, NEW i
    PROVE  /\ IsSequence(ChecksAt(events, i))
           /\ \A n \in DOMAIN ChecksAt(events, i) : ChecksAt(events, i)[n][1] \in AppealCodes \ {"ok"}
<1>1. DOMAIN ChecksAt(events, i) = 1 .. 9
    BY DEF ChecksAt
<1>2. \A n \in 1 .. 9 : ChecksAt(events, i)[n][1] \in AppealCodes \ {"ok"}
    BY DEF ChecksAt, AppealCodes
<1>3. IsSequence(ChecksAt(events, i))
    BY NineInSequence DEF ChecksAt
<1>. QED
    BY <1>1, <1>2, <1>3

LEMMA CandidateCodes ==
    ASSUME NEW candidate
    PROVE  CandidateVerdict(candidate) \in AppealCodes
<1>. SUFFICES ASSUME NEW before, before = ChecksAt(candidate, Len(candidate)),
                     NEW checks, checks = Append(before, <<"ALB_APPEAL_FORK", Forked(candidate)>>)
              PROVE  Verdict(checks) \in AppealCodes
    BY DEF CandidateVerdict
<1>1. IsSequence(before) /\ \A n \in DOMAIN before : before[n][1] \in AppealCodes
    BY ChecksCodes
<1>2. /\ IsSequence(checks) /\ Len(checks) = Len(before) + 1 /\ Len(before) \in Nat
      /\ checks[Len(before) + 1] = <<"ALB_APPEAL_FORK", Forked(candidate)>>
      /\ \A n \in 1 .. Len(before) : checks[n] = before[n]
    BY <1>1, LongerByOne
<1>3. DOMAIN before = 1 .. Len(before) /\ DOMAIN checks = 1 .. Len(checks)
    BY <1>1, <1>2 DEF IsSequence
<1>4. checks[Len(before) + 1][1] \in AppealCodes /\ "ok" \in AppealCodes
    BY <1>2 DEF AppealCodes
<1>5. DOMAIN checks \subseteq Nat /\ \A n \in DOMAIN checks : checks[n][1] \in AppealCodes
    BY <1>1, <1>2, <1>3, <1>4
<1>. QED
    BY ONLY <1>4, <1>5, VerdictAmong

LEMMA AppendCodes ==
    ASSUME NEW existing, NEW e
    PROVE  AppendVerdict(existing, e) \in AppealCodes
<1>. "ok" \in AppealCodes
    BY DEF AppealCodes
<1>1. GenesisVerdict(e) \in AppealCodes
    <2>. DEFINE checks == << <<"ALB_APPEAL_GENESIS", \/ e.sequence # 1
                                                     \/ e.eventType # "filed"
                                                     \/ e.previousEventDigest # None>> >>
    <2>1. GenesisVerdict(e) = Verdict(checks)
        BY DEF GenesisVerdict
    <2>2. DOMAIN checks = {1} /\ checks[1][1] \in AppealCodes
        BY DEF AppealCodes
    <2>. HIDE DEF checks
    <2>. QED
        BY <2>1, <2>2, VerdictAmong
<1>2. ASSUME NEW conflicted PROVE ExtensionVerdict(existing, e, conflicted) \in AppealCodes
    <2>. DEFINE candidate == CandidateVerdict(Append(existing, e))
                checks == <<
        <<"ALB_APPEAL_CONFLICT",  conflicted>>,
        <<"ALB_APPEAL_TERMINAL",  statusFor(existing, conflicted) # "open">>,
        <<"ALB_APPEAL_BINDING",   \/ e.appealId # existing[1].appealId
                                  \/ e.decisionId # existing[1].decisionId>>,
        <<"ALB_APPEAL_FORK",      \/ e.sequence # Len(existing) + 1
                                  \/ e.previousEventDigest
                                        # appealEventDigest(existing[Len(existing)])>>,
        <<"ALB_APPEAL_DUPLICATE", \E i \in 1 .. Len(existing) :
                                      existing[i].artifactId = e.artifactId>>,
        Callee(candidate) >>
    <2>1. ExtensionVerdict(existing, e, conflicted) = Verdict(checks)
        BY DEF ExtensionVerdict
    <2>2. candidate \in AppealCodes
        BY CandidateCodes
    <2>. HIDE DEF candidate
    <2>3. /\ DOMAIN checks = {1, 2, 3, 4, 5, 6} /\ checks[1][1] \in AppealCodes /\ checks[2][1] \in AppealCodes
          /\ checks[3][1] \in AppealCodes /\ checks[4][1] \in AppealCodes /\ checks[5][1] \in AppealCodes
          /\ checks[6][1] = candidate
        BY DEF Callee, AppealCodes
    <2>. HIDE DEF checks
    <2>4. DOMAIN checks \subseteq Nat /\ \A n \in DOMAIN checks : checks[n][1] \in AppealCodes
        BY <2>2, <2>3
    <2>. QED
        BY <2>1, <2>4, VerdictAmong
<1>. QED
    BY <1>1, <1>2, Zenon DEF AppendVerdict

\* What the guards of the store can answer.
LEMMA GuardCodes ==
    ASSUME NEW h, NEW t, NEW p
    PROVE  StoreVerdict(h, t, p) \in {"replay"} \cup AppealCodes \cup StoreCodes
<1>. DEFINE codes == {"replay"} \cup AppealCodes \cup StoreCodes
<1>1. /\ "ok" \in codes /\ "replay" \in codes /\ "ALB_STORE_ARTIFACT_INVALID" \in codes
      /\ "ALB_STORE_CONFLICT" \in codes /\ "ALB_STORE_SUPERSESSION" \in codes
      /\ "ALB_STORE_DECISION_NOT_FOUND" \in codes /\ AppealCodes \subseteq codes
    BY DEF AppealCodes, StoreCodes
<1>. HIDE DEF codes
<1>2. PutVerdict(h, p) \in codes
    <2>. DEFINE checks == <<
            <<"ALB_STORE_ARTIFACT_INVALID", ~payloadIsValid("decision", p)>>,
            <<"replay",                     p \in DecisionsOf(h)>>,
            <<"ALB_STORE_CONFLICT",         \E e \in DecisionsOf(h) : e.artifactId = p.artifactId>>,
            <<"ALB_STORE_SUPERSESSION",
                SupersessionRefused(DecisionsOf(h), AppealOf(h, p.appealId), p)>> >>
    <2>1. PutVerdict(h, p) = Verdict(checks)
        BY Zenon DEF PutVerdict
    <2>2. /\ DOMAIN checks = {1, 2, 3, 4} /\ checks[1][1] \in codes /\ checks[2][1] \in codes
          /\ checks[3][1] \in codes /\ checks[4][1] \in codes
        BY <1>1
    <2>. HIDE DEF checks
    <2>3. DOMAIN checks \subseteq Nat /\ \A n \in DOMAIN checks : checks[n][1] \in codes
        BY <2>2
    <2>. QED
        BY <1>1, <2>1, <2>3, VerdictAmong
<1>3. ASSUME NEW D, NEW contested, NEW existing, NEW prior
      PROVE  EventVerdict(D, contested, existing, prior, p) \in codes
    <2>. DEFINE allowed == assertAppealPolicyAllows(The(contested), existing, p)
                appended == AppendVerdict(existing, p)
                checks == <<
            <<"replay",                 p \in prior>>,
            <<"ALB_STORE_CONFLICT",     prior # {}>>,
            Callee(allowed),
            Callee(appended),
            <<"ALB_STORE_SUPERSESSION", ReversalRefused(D, p)>> >>
    <2>1. allowed \in codes /\ appended \in codes
        BY <1>1, PolicyCodes, AppendCodes
    <2>2. EventVerdict(D, contested, existing, prior, p) =
              IF ~payloadIsValid("appeal_event", p) THEN "ALB_STORE_ARTIFACT_INVALID"
              ELSE IF contested = {} THEN "ALB_STORE_DECISION_NOT_FOUND" ELSE Verdict(checks)
        BY DEF EventVerdict
    <2>. HIDE DEF allowed, appended
    <2>3. /\ DOMAIN checks = {1, 2, 3, 4, 5} /\ checks[1][1] \in codes /\ checks[2][1] \in codes
          /\ checks[3][1] \in codes /\ checks[4][1] \in codes /\ checks[5][1] \in codes
        BY <1>1, <2>1 DEF Callee
    <2>. HIDE DEF checks
    <2>4. DOMAIN checks \subseteq Nat /\ \A n \in DOMAIN checks : checks[n][1] \in codes
        BY <2>3
    <2>5. Verdict(checks) \in codes
        BY <1>1, <2>4, VerdictAmong
    <2>. QED
        BY <1>1, <2>2, <2>5
<1>. QED
    BY <1>2, <1>3, Zenon DEF StoreVerdict, AppealVerdict, codes

\* A payload answered "replay" is stored under its own type.
LEMMA ReplayIsStored ==
    ASSUME NEW h, Filed(h), NEW t \in {"decision", "appeal_event"}, NEW p, StoreVerdict(h, t, p) = "replay"
    PROVE  \E i \in 1 .. Len(h) : h[i].recordType = t /\ h[i].payload = p
<1>1. CASE t = "decision"
    <2>. DEFINE checks == <<
            <<"ALB_STORE_ARTIFACT_INVALID", ~payloadIsValid("decision", p)>>,
            <<"replay",                     p \in DecisionsOf(h)>>,
            <<"ALB_STORE_CONFLICT",         \E e \in DecisionsOf(h) : e.artifactId = p.artifactId>>,
            <<"ALB_STORE_SUPERSESSION",
                SupersessionRefused(DecisionsOf(h), AppealOf(h, p.appealId), p)>> >>
    <2>1. Verdict(checks) = "replay"
        BY <1>1, Zenon DEF PutVerdict, StoreVerdict
    <2>2. /\ DOMAIN checks = {1, 2, 3, 4} /\ checks[1][1] # "replay" /\ checks[3][1] # "replay"
          /\ checks[4][1] # "replay" /\ checks[2][2] = (p \in DecisionsOf(h))
        OBVIOUS
    <2>. HIDE DEF checks
    <2>3. PICK n \in DOMAIN checks : checks[n][2] /\ checks[n][1] = "replay"
        BY <2>1, <2>2, VerdictIs
    <2>4. p \in DecisionsOf(h)
        BY <2>2, <2>3
    <2>. QED
        BY <1>1, <2>4 DEF DecisionsOf
<1>2. CASE t = "appeal_event"
    <2>. DEFINE D == DecisionsOf(h)
                contested == {d \in DecisionsOf(h) : d.artifactId = p.decisionId}
                existing == AppealOf(h, p.appealId)
                prior == {h[i].payload : i \in {j \in 1 .. Len(h) : h[j].recordId = RecordId("appeal_event", p)}}
                allowed == assertAppealPolicyAllows(The(contested), existing, p)
                appended == AppendVerdict(existing, p)
                checks == <<
            <<"replay",                 p \in prior>>,
            <<"ALB_STORE_CONFLICT",     prior # {}>>,
            Callee(allowed),
            Callee(appended),
            <<"ALB_STORE_SUPERSESSION", ReversalRefused(D, p)>> >>
    <2>1. EventVerdict(D, contested, existing, prior, p) = "replay"
        BY <1>2 DEF StoreVerdict, AppealVerdict
    <2>2. allowed # "replay" /\ appended # "replay"
        <3>1. allowed \in AppealCodes /\ appended \in AppealCodes
            BY PolicyCodes, AppendCodes
        <3>. HIDE DEF allowed, appended
        <3>. QED
            BY <3>1 DEF AppealCodes
    <2>. HIDE DEF D, contested, existing, prior
    <2>3. Verdict(checks) = "replay"
        BY <2>1 DEF EventVerdict
    <2>. HIDE DEF allowed, appended
    <2>4. /\ DOMAIN checks = {1, 2, 3, 4, 5} /\ checks[1][2] = (p \in prior) /\ checks[2][1] # "replay"
          /\ checks[3][1] = allowed /\ checks[4][1] = appended /\ checks[5][1] # "replay"
        BY DEF Callee
    <2>. HIDE DEF checks
    <2>5. PICK n \in DOMAIN checks : checks[n][2] /\ checks[n][1] = "replay"
        BY <2>3, <2>4, VerdictIs
    <2>6. p \in prior
        BY <2>2, <2>4, <2>5
    <2>7. PICK i \in 1 .. Len(h) : h[i].recordId = RecordId("appeal_event", p) /\ h[i].payload = p
        BY <2>6 DEF prior
    <2>8. h[i].recordType = "appeal_event"
        BY <2>7 DEF Filed, RecordId
    <2>. QED
        BY <1>2, <2>7, <2>8
<1>. QED
    BY <1>1, <1>2

\* The verdict is the code of the first check that failed.
LEMMA FirstFailing ==
    ASSUME NEW checks, DOMAIN checks \subseteq Nat, NEW n \in DOMAIN checks, checks[n][2],
           \A k \in DOMAIN checks : k < n => ~ checks[k][2]
    PROVE  Verdict(checks) = checks[n][1]
<1>. DEFINE failed == Failed(checks)
<1>1. failed \subseteq Nat /\ n \in failed /\ \A k \in failed : n <= k
    BY DEF Failed
<1>2. Verdict(checks) = checks[Min(failed)][1]
    BY <1>1, Zenon DEF Verdict
<1>. HIDE DEF failed
<1>3. Min(failed) \in failed /\ \A k \in failed : Min(failed) <= k
    BY <1>1 DEF Min
<1>4. Min(failed) \in Nat /\ n \in Nat /\ Min(failed) <= n /\ n <= Min(failed)
    BY <1>1, <1>3
<1>5. Min(failed) = n
    BY <1>4
<1>. QED
    BY <1>2, <1>5

\* A decision that was stored stays in the index.
LEMMA DecisionStays ==
    ASSUME NEW h, IsSequence(h), NEW n \in 0 .. Len(h), NEW d \in DecisionsOf(SubSeq(h, 1, n))
    PROVE  d \in DecisionsOf(h)
<1>. SUFFICES ASSUME NEW g, g = SubSeq(h, 1, n), d \in DecisionsOf(g) PROVE d \in DecisionsOf(h)
    OBVIOUS
<1>1. Len(h) \in Nat /\ Len(g) = n /\ \A i \in 1 .. n : g[i] = h[i]
    BY ONLY IsSequence(h), n \in 0 .. Len(h), g = SubSeq(h, 1, n), PrefixOf, PrefixWhole
<1>2. PICK i \in 1 .. Len(g) : g[i].recordType = "decision" /\ d = g[i].payload
    BY DEF DecisionsOf
<1>3. i \in 1 .. Len(h) /\ h[i].recordType = "decision" /\ d = h[i].payload
    BY <1>1, <1>2
<1>. QED
    BY <1>3 DEF DecisionsOf

\* Sending again what is stored is answered "replay", however the history went
\* on: no guard that has become true since refuses it.
THEOREM StoredIsReplayed ==
    ASSUME NEW h, Lawful(h), NEW i \in 1 .. Len(h)
    PROVE  StoreVerdict(h, h[i].recordType, h[i].payload) = "replay"
<1>. SUFFICES ASSUME NEW t, NEW p, t = h[i].recordType, p = h[i].payload,
                     NEW before, before = SubSeq(h, 1, i - 1)
              PROVE  StoreVerdict(h, t, p) = "replay"
    OBVIOUS
<1>1. IsSequence(h) /\ Len(h) \in Nat /\ Filed(h) /\ LawfulAt(h, i)
    BY LawfulAgrees, PrefixWhole DEF Agrees, Lawful
<1>2. t \in {"decision", "appeal_event"} /\ StoreVerdict(before, t, p) = "ok" /\ h[i].recordId = RecordId(t, p)
    BY ONLY <1>1, t = h[i].recordType, p = h[i].payload, before = SubSeq(h, 1, i - 1), i \in 1 .. Len(h)
       DEF LawfulAt, Filed
<1>3. i - 1 \in 0 .. Len(h)
    BY <1>1
<1>4. CASE t = "decision"
    <2>. DEFINE checks == <<
            <<"ALB_STORE_ARTIFACT_INVALID", ~payloadIsValid("decision", p)>>,
            <<"replay",                     p \in DecisionsOf(h)>>,
            <<"ALB_STORE_CONFLICT",         \E e \in DecisionsOf(h) : e.artifactId = p.artifactId>>,
            <<"ALB_STORE_SUPERSESSION",
                SupersessionRefused(DecisionsOf(h), AppealOf(h, p.appealId), p)>> >>
    <2>1. StoreVerdict(h, t, p) = Verdict(checks)
        BY <1>4 DEF PutVerdict, StoreVerdict
    <2>2. p \in DecisionsOf(h)
        BY <1>4 DEF DecisionsOf
    <2>3. payloadIsValid("decision", p)
        BY ONLY DEF payloadIsValid
    <2>4. /\ DOMAIN checks = {1, 2, 3, 4} /\ checks[2][1] = "replay"
          /\ checks[1][2] = ~payloadIsValid("decision", p) /\ checks[2][2] = (p \in DecisionsOf(h))
        OBVIOUS
    <2>. HIDE DEF checks
    <2>5. ~ checks[1][2] /\ checks[2][2]
        BY <2>2, <2>3, <2>4, Zenon
    <2>6. 2 \in DOMAIN checks /\ DOMAIN checks \subseteq Nat /\ \A k \in DOMAIN checks : k < 2 => k = 1
        BY <2>4
    <2>7. \A k \in DOMAIN checks : k < 2 => ~ checks[k][2]
        BY <2>5, <2>6, Zenon
    <2>8. Verdict(checks) = checks[2][1]
        BY ONLY <2>5, <2>6, <2>7, FirstFailing
    <2>. QED
        BY <2>1, <2>4, <2>8
<1>5. CASE t = "appeal_event"
    <2>. DEFINE D == DecisionsOf(h)
                contested == {d \in DecisionsOf(h) : d.artifactId = p.decisionId}
                existing == AppealOf(h, p.appealId)
                prior == {h[k].payload : k \in {j \in 1 .. Len(h) : h[j].recordId = RecordId("appeal_event", p)}}
                allowed == assertAppealPolicyAllows(The(contested), existing, p)
                appended == AppendVerdict(existing, p)
                checks == <<
            <<"replay",                 p \in prior>>,
            <<"ALB_STORE_CONFLICT",     prior # {}>>,
            Callee(allowed),
            Callee(appended),
            <<"ALB_STORE_SUPERSESSION", ReversalRefused(D, p)>> >>
    <2>1. StoreVerdict(h, t, p) = EventVerdict(D, contested, existing, prior, p)
        BY <1>5 DEF StoreVerdict, AppealVerdict
    <2>2. p \in prior
        BY <1>2, <1>5
    <2>3. payloadIsValid("appeal_event", p) /\ contested # {}
        <3>. SUFFICES ASSUME NEW E, E = DecisionsOf(before),
                             NEW earlier, earlier = {d \in E : d.artifactId = p.decisionId},
                             NEW events, NEW same, EventVerdict(E, earlier, events, same, p) = "ok"
                      PROVE  payloadIsValid("appeal_event", p) /\ contested # {}
            BY <1>2, <1>5 DEF StoreVerdict, AppealVerdict
        <3>1. payloadIsValid("appeal_event", p) /\ earlier # {}
            BY EventOk
        <3>2. PICK d \in DecisionsOf(before) : d.artifactId = p.decisionId
            BY <3>1
        <3>3. d \in DecisionsOf(h)
            BY ONLY <1>1, <1>3, <3>2, before = SubSeq(h, 1, i - 1), DecisionStays
        <3>. QED
            BY <3>1, <3>2, <3>3
    <2>. HIDE DEF D, contested, existing, prior, allowed, appended
    <2>4. EventVerdict(D, contested, existing, prior, p) = Verdict(checks)
        BY <2>3 DEF EventVerdict, allowed, appended
    <2>5. DOMAIN checks = {1, 2, 3, 4, 5} /\ checks[1][1] = "replay" /\ checks[1][2] = (p \in prior)
        BY DEF Callee
    <2>. HIDE DEF checks
    <2>6. checks[1][2]
        BY <2>2, <2>5, Zenon
    <2>7. 1 \in DOMAIN checks /\ DOMAIN checks \subseteq Nat /\ \A k \in DOMAIN checks : ~ (k < 1)
        BY <2>5
    <2>8. Verdict(checks) = checks[1][1]
        BY ONLY <2>6, <2>7, FirstFailing
    <2>. QED
        BY <2>1, <2>4, <2>5, <2>8
<1>. QED
    BY <1>2, <1>4, <1>5

----------------------------------------------------------------------------
(* The life of an appeal.                                                    *)
LEMMA PolicyOk ==
    ASSUME NEW d, NEW existing, NEW e, assertAppealPolicyAllows(d, existing, e) = "ok"
    PROVE  /\ ~ (Len(existing) >= d.maxAppealEvents)
           /\ e.eventType \in REVIEWER_EVENTS => e.actor.id \in d.reviewerIds
<1>. DEFINE capped == Len(existing) >= d.maxAppealEvents
            barred == /\ e.eventType \in REVIEWER_EVENTS
                      /\ \/ e.actor.role # "reviewer"
                         \/ e.actor.id \notin d.reviewerIds
            checks == << <<"ALB_APPEAL_EVENT_CAP", capped>>, <<"ALB_APPEAL_REVIEWER_UNAUTHORIZED", barred>> >>
<1>1. Verdict(checks) = "ok"
    BY Zenon DEF assertAppealPolicyAllows
<1>. HIDE DEF capped, barred
<1>2. DOMAIN checks = {1, 2}
    OBVIOUS
<1>3. /\ checks[1][1] = "ALB_APPEAL_EVENT_CAP" /\ checks[2][1] = "ALB_APPEAL_REVIEWER_UNAUTHORIZED"
      /\ checks[1][2] = capped /\ checks[2][2] = barred
    OBVIOUS
<1>. HIDE DEF checks
<1>4. \A n \in DOMAIN checks : ~ checks[n][2]
    BY <1>1, <1>2, <1>3, VerdictOk
<1>5. ~ capped /\ ~ barred
    BY <1>2, <1>3, <1>4
<1>. QED
    BY <1>5 DEF capped, barred

LEMMA AppendOk ==
    ASSUME NEW existing, existing # <<>>, NEW e, AppendVerdict(existing, e) = "ok"
    PROVE  /\ e.decisionId = existing[1].decisionId
           /\ existing[Len(existing)].eventType \notin TERMINAL_EVENTS
           /\ replayIssues(existing, None) = {}
           /\ CandidateVerdict(Append(existing, e)) = "ok"
<1>. DEFINE conflicted == replayIssues(existing, None) # {}
            closed == statusFor(existing, conflicted) # "open"
            unbound == \/ e.appealId # existing[1].appealId
                       \/ e.decisionId # existing[1].decisionId
            forked == \/ e.sequence # Len(existing) + 1
                      \/ e.previousEventDigest # appealEventDigest(existing[Len(existing)])
            repeated == \E i \in 1 .. Len(existing) : existing[i].artifactId = e.artifactId
            candidate == CandidateVerdict(Append(existing, e))
            checks == << <<"ALB_APPEAL_CONFLICT", conflicted>>, <<"ALB_APPEAL_TERMINAL", closed>>,
                         <<"ALB_APPEAL_BINDING", unbound>>, <<"ALB_APPEAL_FORK", forked>>,
                         <<"ALB_APPEAL_DUPLICATE", repeated>>, Callee(candidate) >>
<1>1. Verdict(checks) = "ok"
    BY Zenon DEF AppendVerdict, ExtensionVerdict
<1>. HIDE DEF conflicted, closed, unbound, forked, repeated, candidate
<1>2. DOMAIN checks = {1, 2, 3, 4, 5, 6}
    OBVIOUS
<1>3. /\ checks[1][1] = "ALB_APPEAL_CONFLICT" /\ checks[2][1] = "ALB_APPEAL_TERMINAL"
      /\ checks[3][1] = "ALB_APPEAL_BINDING" /\ checks[4][1] = "ALB_APPEAL_FORK"
      /\ checks[5][1] = "ALB_APPEAL_DUPLICATE" /\ checks[6][1] = candidate /\ checks[6][2] = (candidate # "ok")
    BY DEF Callee
<1>4. checks[1][2] = conflicted /\ checks[2][2] = closed /\ checks[3][2] = unbound
    OBVIOUS
<1>. HIDE DEF checks
<1>5. \A n \in DOMAIN checks : checks[n][2] => checks[n][1] # "ok"
    BY <1>2, <1>3
<1>6. \A n \in DOMAIN checks : ~ checks[n][2]
    BY <1>1, <1>2, <1>5, VerdictOk
<1>7. ~ conflicted /\ ~ closed /\ ~ unbound /\ candidate = "ok"
    BY <1>2, <1>3, <1>4, <1>6
<1>8. existing[Len(existing)].eventType \notin TERMINAL_EVENTS
    BY <1>7 DEF closed, statusFor, TERMINAL_EVENTS
<1>. QED
    BY <1>7, <1>8 DEF conflicted, unbound, candidate

\* What is found at a place of an appeal depends on the events up to it alone.
LEMMA ChecksLocal ==
    ASSUME NEW events, NEW longer, NEW i \in Nat, i >= 1, \A j \in 1 .. i : longer[j] = events[j]
    PROVE  ChecksAt(longer, i) = ChecksAt(events, i)
<1>1. longer[1] = events[1] /\ longer[i] = events[i]
    OBVIOUS
<1>2. \A j \in 1 .. (i - 1) : longer[j] = events[j]
    OBVIOUS
<1>3. i > 1 => longer[i - 1] = events[i - 1]
    BY <1>2
<1>4. ASSUME NEW j \in 1 .. (i - 1)
      PROVE  /\ longer[j] = events[j]
             /\ \A k \in (j + 1) .. (i - 1) : longer[k] = events[k]
    BY <1>2
<1>5. IdUse(longer, i) = IdUse(events, i)
    <2>1. (\E j \in 1 .. (i - 1) : longer[j].artifactId = longer[i].artifactId)
             <=> \E j \in 1 .. (i - 1) : events[j].artifactId = events[i].artifactId
        BY ONLY <1>1, <1>2
    <2>2. ASSUME NEW j \in 1 .. (i - 1)
          PROVE  (/\ longer[j] = longer[i]
                  /\ \A k \in (j + 1) .. (i - 1) : longer[k].artifactId # longer[i].artifactId)
                 <=> (/\ events[j] = events[i]
                      /\ \A k \in (j + 1) .. (i - 1) : events[k].artifactId # events[i].artifactId)
        BY ONLY <1>1, <1>4, <2>2
    <2>3. (\E j \in 1 .. (i - 1) : /\ longer[j] = longer[i]
                                   /\ \A k \in (j + 1) .. (i - 1) : longer[k].artifactId # longer[i].artifactId)
          <=> (\E j \in 1 .. (i - 1) : /\ events[j] = events[i]
                                       /\ \A k \in (j + 1) .. (i - 1) : events[k].artifactId # events[i].artifactId)
        BY ONLY <2>2
    <2>. QED
        BY ONLY <2>1, <2>3 DEF IdUse
<1>6. (\E j \in 1 .. (i - 1) : longer[j].sequence = longer[i].sequence)
         <=> \E j \in 1 .. (i - 1) : events[j].sequence = events[i].sequence
    BY ONLY <1>1, <1>2
<1>7. (\E j \in 1 .. (i - 1) : longer[j].eventType \in TERMINAL_EVENTS)
         <=> \E j \in 1 .. (i - 1) : events[j].eventType \in TERMINAL_EVENTS
    BY ONLY <1>2
<1>8. (i > 1 /\ longer[i].previousEventDigest # appealEventDigest(longer[i - 1]))
         <=> (i > 1 /\ events[i].previousEventDigest # appealEventDigest(events[i - 1]))
    BY ONLY <1>1, <1>3
<1>. QED
    BY ONLY <1>1, <1>5, <1>6, <1>7, <1>8 DEF ChecksAt

\* A candidate the guards let through has no defect the code looks for in its last event.
LEMMA CandidateOk ==
    ASSUME NEW candidate, CandidateVerdict(candidate) = "ok"
    PROVE  FailedCodes(ChecksAt(candidate, Len(candidate))) = {} /\ ~ Forked(candidate)
<1>. SUFFICES ASSUME NEW before, before = ChecksAt(candidate, Len(candidate)),
                     NEW checks, checks = Append(before, <<"ALB_APPEAL_FORK", Forked(candidate)>>),
                     Verdict(checks) = "ok"
              PROVE  FailedCodes(before) = {} /\ ~ Forked(candidate)
    BY DEF CandidateVerdict
<1>1. IsSequence(before) /\ \A n \in DOMAIN before : before[n][1] # "ok"
    BY ChecksCodes
<1>2. /\ IsSequence(checks) /\ Len(checks) = Len(before) + 1 /\ Len(before) \in Nat
      /\ checks[Len(before) + 1] = <<"ALB_APPEAL_FORK", Forked(candidate)>>
      /\ \A n \in 1 .. Len(before) : checks[n] = before[n]
    BY <1>1, LongerByOne
<1>3. DOMAIN before = 1 .. Len(before) /\ DOMAIN checks = 1 .. Len(checks)
    BY <1>1, <1>2 DEF IsSequence
<1>4. checks[Len(before) + 1][1] # "ok" /\ checks[Len(before) + 1][2] = Forked(candidate)
    BY <1>2
<1>5. DOMAIN checks \subseteq Nat /\ \A n \in DOMAIN checks : checks[n][1] # "ok"
    BY <1>1, <1>2, <1>3, <1>4
<1>6. \A n \in DOMAIN checks : ~ checks[n][2]
    BY ONLY <1>5, Verdict(checks) = "ok", VerdictOk
<1>7. ~ Forked(candidate)
    BY <1>2, <1>3, <1>4, <1>6
<1>8. \A n \in DOMAIN before : ~ before[n][2]
    BY <1>2, <1>3, <1>6
<1>. QED
    BY <1>7, <1>8 DEF FailedCodes, Failed

\* An event that may extend an appeal leaves a history that replays without issues.
LEMMA ExtendedReplays ==
    ASSUME NEW existing, IsSequence(existing), existing # <<>>, NEW e, AppendVerdict(existing, e) = "ok",
           NEW events, events = Append(existing, e)
    PROVE  replayIssues(events, None) = {}
<1>. DEFINE n == Len(existing)
<1>1. /\ n \in Nat /\ Len(events) = n + 1 /\ IsSequence(events)
      /\ \A i \in 1 .. n : events[i] = existing[i]
    BY LongerByOne
<1>2. events # <<>>
    BY <1>1, EmptySeq DEF IsSequence
<1>3. /\ replayIssues(existing, None) = {}
      /\ FailedCodes(ChecksAt(events, n + 1)) = {} /\ ~ Forked(events)
    BY <1>1, AppendOk, CandidateOk
<1>. HIDE DEF n
<1>4. \A i \in 1 .. n : FailedCodes(ChecksAt(existing, i)) = {}
    BY <1>3 DEF replayIssues, n
<1>5. ASSUME NEW i \in 1 .. (n + 1) PROVE FailedCodes(ChecksAt(events, i)) = {}
    <2>1. CASE i = n + 1
        BY <1>3, <2>1
    <2>2. CASE i # n + 1
        <3>1. i \in 1 .. n /\ i \in Nat /\ i >= 1 /\ \A j \in 1 .. i : events[j] = existing[j]
            BY <1>1, <2>2
        <3>2. ChecksAt(events, i) = ChecksAt(existing, i)
            BY ONLY <3>1, ChecksLocal
        <3>. QED
            BY <1>4, <3>1, <3>2
    <2>. QED
        BY <2>1, <2>2
<1>6. UNION {FailedCodes(ChecksAt(events, i)) : i \in 1 .. Len(events)} = {}
    BY <1>1, <1>5
<1>7. checkpointState(events, None) # "mismatch"
    BY DEF checkpointState
<1>. QED
    BY <1>2, <1>3, <1>6, <1>7 DEF replayIssues

LEMMA AcceptedEvent ==
    ASSUME NEW h, NEW e, StoreVerdict(h, "appeal_event", e) = "ok", NEW existing, existing = AppealOf(h, e.appealId)
    PROVE  /\ \E d \in DecisionsOf(h) :
                 /\ d.artifactId = e.decisionId
                 /\ ~ (Len(existing) >= d.maxAppealEvents)
                 /\ e.eventType \in REVIEWER_EVENTS => e.actor.id \in d.reviewerIds
           /\ existing # <<>> => /\ e.decisionId = existing[1].decisionId
                                 /\ existing[Len(existing)].eventType \notin TERMINAL_EVENTS
           /\ e.eventType = "reversed" =>
                 \E d \in DecisionsOf(h) : /\ d.artifactId = e.supersedingDecisionId
                                           /\ d.supersedesDecisionId = e.decisionId
<1>. DEFINE contested == Contested(DecisionsOf(h), e.decisionId)
            prior == {h[i].payload : i \in {j \in 1 .. Len(h) : h[j].recordId = RecordId("appeal_event", e)}}
<1>1. EventVerdict(DecisionsOf(h), contested, existing, prior, e) = "ok"
    BY Zenon DEF StoreVerdict, AppealVerdict, Contested
<1>. HIDE DEF contested, prior
<1>2. /\ contested # {} /\ assertAppealPolicyAllows(The(contested), existing, e) = "ok"
      /\ AppendVerdict(existing, e) = "ok" /\ ~ ReversalRefused(DecisionsOf(h), e)
    BY <1>1, EventOk
<1>3. The(contested) \in contested
    BY <1>2 DEF The
<1>4. The(contested) \in DecisionsOf(h) /\ The(contested).artifactId = e.decisionId
    BY <1>3 DEF contested, Contested
<1>5. /\ ~ (Len(existing) >= The(contested).maxAppealEvents)
      /\ e.eventType \in REVIEWER_EVENTS => e.actor.id \in The(contested).reviewerIds
    BY <1>2, PolicyOk
<1>6. existing # <<>> => /\ e.decisionId = existing[1].decisionId
                         /\ existing[Len(existing)].eventType \notin TERMINAL_EVENTS
    BY <1>2, AppendOk
<1>7. e.eventType = "reversed" =>
                 \E d \in DecisionsOf(h) : /\ d.artifactId = e.supersedingDecisionId
                                           /\ d.supersedesDecisionId = e.decisionId
    BY <1>2 DEF ReversalRefused
<1>. QED
    BY <1>4, <1>5, <1>6, <1>7

\* The decisions stored: one of each identifier, with a cap that is a number.
DecidedOnce(h) ==
    /\ \A d \in DecisionsOf(h) : d.maxAppealEvents \in Nat
    /\ \A d, e \in DecisionsOf(h) : d.artifactId = e.artifactId => d = e

\* A superseding decision names an appeal against the decision it supersedes.
SupersedesOnAppeal(h) ==
    \A d \in DecisionsOf(h) : d.supersedesDecisionId # None =>
        appealBindsDecision(AppealOf(h, d.appealId), d.supersedesDecisionId)

SupersedesOnce(h) ==
    \A d, e \in DecisionsOf(h) :
        d.supersedesDecisionId # None /\ e.supersedesDecisionId # None /\ d.appealId = e.appealId => d = e

\* The decision that answers a reversal was recorded before it.
ReversalAnswered(h, event, decisionId) ==
    \E i, j \in 1 .. Len(h) : /\ i < j
                              /\ h[j].payload = event
                              /\ h[i].payload.artifactId = event.supersedingDecisionId
                              /\ h[i].payload.supersedesDecisionId = decisionId

\* The events of one appeal, against the decision they contest.
Heard(h, events, d) ==
    /\ d.artifactId = events[1].decisionId
    /\ Len(events) <= d.maxAppealEvents
    /\ \A i \in 1 .. Len(events) : events[i].eventType \in REVIEWER_EVENTS => events[i].actor.id \in d.reviewerIds
    /\ events[Len(events)].eventType = "reversed" => ReversalAnswered(h, events[Len(events)], d.artifactId)

AppealLived(h, events) ==
    /\ IsSequence(events)
    /\ \A i \in 1 .. (Len(events) - 1) : events[i].eventType \notin TERMINAL_EVENTS
    /\ events # <<>> => \E d \in DecisionsOf(h) : Heard(h, events, d)

Lives(h) ==
    /\ IsSequence(h)
    /\ DecidedOnce(h) /\ SupersedesOnAppeal(h) /\ SupersedesOnce(h)
    /\ \A a : AppealLived(h, AppealOf(h, a))
    /\ \A a : a \in AppealIdsOf(h) <=> AppealOf(h, a) # <<>>

LEMMA StillAnswered ==
    ASSUME NEW h, IsSequence(h), NEW r, NEW event, NEW id, ReversalAnswered(h, event, id)
    PROVE  ReversalAnswered(Append(h, r), event, id)
<1>1. /\ Len(h) \in Nat /\ Len(Append(h, r)) = Len(h) + 1
      /\ \A i \in 1 .. Len(h) : Append(h, r)[i] = h[i]
    BY LongerByOne
<1>2. PICK i, j \in 1 .. Len(h) : /\ i < j /\ h[j].payload = event
                                  /\ h[i].payload.artifactId = event.supersedingDecisionId
                                  /\ h[i].payload.supersedesDecisionId = id
    BY DEF ReversalAnswered
<1>3. i \in 1 .. Len(Append(h, r)) /\ j \in 1 .. Len(Append(h, r))
    BY <1>1
<1>4. Append(h, r)[i] = h[i] /\ Append(h, r)[j] = h[j]
    BY <1>1
<1>. QED
    BY <1>2, <1>3, <1>4 DEF ReversalAnswered

LEMMA StillHeard ==
    ASSUME NEW h, IsSequence(h), NEW r, NEW events, NEW d, Heard(h, events, d)
    PROVE  Heard(Append(h, r), events, d)
    BY StillAnswered DEF Heard

LEMMA AppealIdsStep ==
    ASSUME NEW h, IsSequence(h), NEW r
    PROVE  AppealIdsOf(Append(h, r)) =
              IF r.recordType = "appeal_event" THEN AppealIdsOf(h) \cup {r.entityId} ELSE AppealIdsOf(h)
<1>. DEFINE g == Append(h, r)
            n == Len(h)
<1>1. n \in Nat /\ Len(g) = n + 1 /\ g[n + 1] = r /\ \A i \in 1 .. n : g[i] = h[i]
    BY LongerByOne
<1>. HIDE DEF g, n
<1>2. \A a : a \in AppealIdsOf(g) <=> \E i \in 1 .. (n + 1) : g[i].recordType = "appeal_event" /\ a = g[i].entityId
    BY <1>1 DEF AppealIdsOf
<1>3. \A a : a \in AppealIdsOf(h) <=> \E i \in 1 .. n : h[i].recordType = "appeal_event" /\ a = h[i].entityId
    BY DEF AppealIdsOf, n
<1>4. ASSUME NEW a
      PROVE  a \in AppealIdsOf(g) <=> a \in AppealIdsOf(h) \/ (r.recordType = "appeal_event" /\ a = r.entityId)
    <2>1. \A i \in 1 .. (n + 1) : i \in 1 .. n \/ i = n + 1
        BY <1>1
    <2>2. n + 1 \in 1 .. (n + 1) /\ \A i \in 1 .. n : i \in 1 .. (n + 1)
        BY <1>1
    <2>. QED
        BY <1>1, <1>2, <1>3, <2>1, <2>2
<1>. QED
    BY <1>4 DEF g

LEMMA LivesEmpty == Lives(<<>>)
<1>1. IsSequence(<<>>) /\ Len(<<>>) = 0 /\ 1 .. 0 = {}
    BY DEF IsSequence
<1>2. \A a : AppealOf(<<>>, a) = <<>>
    BY <1>1, AppealOfStep DEF NoEvents
<1>3. DecisionsOf(<<>>) = {} /\ AppealIdsOf(<<>>) = {}
    BY <1>1 DEF DecisionsOf, AppealIdsOf
<1>4. AppealLived(<<>>, <<>>)
    BY <1>1 DEF AppealLived
<1>. QED
    BY <1>1, <1>2, <1>3, <1>4 DEF Lives, DecidedOnce, SupersedesOnAppeal, SupersedesOnce

LEMMA LivesDecision ==
    ASSUME NEW h, Lives(h), NEW d, d.maxAppealEvents \in Nat, StoreVerdict(h, "decision", d) = "ok"
    PROVE  Lives(Append(h, nextRecord(h, "decision", d)))
<1>. SUFFICES ASSUME NEW r, NEW g, r = nextRecord(h, "decision", d), g = Append(h, r)
              PROVE  Lives(g)
    OBVIOUS
<1>1. IsSequence(h) /\ IsSequence(g)
    BY LongerByOne DEF Lives
<1>2. r.recordType = "decision" /\ r.payload = d
    BY ONLY r = nextRecord(h, "decision", d) DEF nextRecord
<1>3. DecisionsOf(g) = DecisionsOf(h) \cup {d}
    BY <1>1, <1>2, DecisionsOfStep
<1>4. ASSUME NEW a PROVE AppealOf(g, a) = AppealOf(h, a)
    BY <1>1, <1>2, AppealOfStep DEF AddEvent
<1>5. /\ ~ \E e \in DecisionsOf(h) : e.artifactId = d.artifactId
      /\ ~ SupersessionRefused(DecisionsOf(h), AppealOf(h, d.appealId), d)
    BY PutOk DEF StoreVerdict
<1>6. d.supersedesDecisionId # None =>
          /\ appealBindsDecision(AppealOf(h, d.appealId), d.supersedesDecisionId)
          /\ ~ \E other \in DecisionsOf(h) : /\ other.supersedesDecisionId = d.supersedesDecisionId
                                             /\ other.appealId = d.appealId
    BY <1>5 DEF SupersessionRefused
<1>7. DecidedOnce(g)
    BY <1>3, <1>5 DEF Lives, DecidedOnce
<1>8. SupersedesOnAppeal(g)
    BY <1>3, <1>4, <1>6 DEF Lives, SupersedesOnAppeal
<1>9. ASSUME NEW e \in DecisionsOf(h), e.supersedesDecisionId # None, d.supersedesDecisionId # None,
             e.appealId = d.appealId
      PROVE  FALSE
    <2>1. appealBindsDecision(AppealOf(h, d.appealId), e.supersedesDecisionId)
        BY <1>9 DEF Lives, SupersedesOnAppeal
    <2>2. e.supersedesDecisionId = d.supersedesDecisionId
        BY <1>6, <1>9, <2>1 DEF appealBindsDecision
    <2>. QED
        BY <1>6, <1>9, <2>2
<1>10. SupersedesOnce(g)
    BY <1>3, <1>9 DEF Lives, SupersedesOnce
<1>11. ASSUME NEW a PROVE AppealLived(g, AppealOf(g, a))
    <2>1. AppealLived(h, AppealOf(h, a))
        BY DEF Lives
    <2>. QED
        BY <1>1, <1>3, <1>4, <2>1, StillHeard DEF AppealLived
<1>12. AppealIdsOf(g) = AppealIdsOf(h)
    BY <1>1, <1>2, AppealIdsStep
<1>. QED
    BY <1>1, <1>4, <1>7, <1>8, <1>10, <1>11, <1>12 DEF Lives

LEMMA EventHeard ==
    ASSUME NEW h, Lives(h), NEW p, StoreVerdict(h, "appeal_event", p) = "ok",
           NEW r, r.payload = p, NEW g, g = Append(h, r), DecisionsOf(g) = DecisionsOf(h),
           NEW before, before = AppealOf(h, p.appealId), NEW events, events = Append(before, p),
           NEW n, n = Len(before)
    PROVE  AppealLived(g, events)
<1>1. AppealLived(h, before) /\ DecidedOnce(h) /\ IsSequence(h)
    BY DEF Lives
<1>2. /\ n \in Nat /\ IsSequence(events) /\ Len(events) = n + 1 /\ events[n + 1] = p
      /\ \A i \in 1 .. n : events[i] = before[i]
    BY <1>1, LongerByOne DEF AppealLived
<1>3. before = <<>> <=> n = 0
    BY <1>1, EmptySeq DEF AppealLived, IsSequence
<1>4. PICK d \in DecisionsOf(h) : /\ d.artifactId = p.decisionId
                                  /\ ~ (n >= d.maxAppealEvents)
                                  /\ p.eventType \in REVIEWER_EVENTS => p.actor.id \in d.reviewerIds
    BY AcceptedEvent
<1>5. n # 0 => p.decisionId = before[1].decisionId /\ before[n].eventType \notin TERMINAL_EVENTS
    BY <1>3, AcceptedEvent
<1>6. p.eventType = "reversed" => \E s \in DecisionsOf(h) : /\ s.artifactId = p.supersedingDecisionId
                                                            /\ s.supersedesDecisionId = p.decisionId
    BY AcceptedEvent
<1>7. n # 0 => Heard(h, before, d)
    <2>1. SUFFICES ASSUME n # 0 PROVE Heard(h, before, d)
        OBVIOUS
    <2>2. PICK c \in DecisionsOf(h) : Heard(h, before, c)
        BY <1>1, <1>3, <2>1 DEF AppealLived
    <2>3. c.artifactId = d.artifactId
        BY ONLY <1>4, <1>5, <2>1, <2>2 DEF Heard
    <2>. QED
        BY <1>1, <2>2, <2>3 DEF DecidedOnce
<1>8. d.maxAppealEvents \in Nat
    BY <1>1 DEF DecidedOnce
<1>9. d.artifactId = events[1].decisionId
    <2>1. CASE n = 0
        BY ONLY <1>2, <1>4, <2>1
    <2>2. CASE n # 0
        BY ONLY <1>2, <1>4, <1>5, <2>2
    <2>. QED
        BY <2>1, <2>2
<1>10. Len(events) <= d.maxAppealEvents
    BY ONLY <1>2, <1>4, <1>8
<1>11. ASSUME NEW i \in 1 .. (n + 1), events[i].eventType \in REVIEWER_EVENTS
       PROVE  events[i].actor.id \in d.reviewerIds
    <2>1. CASE i = n + 1
        BY ONLY <1>2, <1>4, <1>11, <2>1
    <2>2. CASE i # n + 1
        <3>1. i \in 1 .. n /\ n # 0 /\ events[i] = before[i]
            BY <1>2, <2>2
        <3>. QED
            BY <1>7, <1>11, <3>1 DEF Heard
    <2>. QED
        BY <2>1, <2>2
<1>12. ASSUME NEW i \in 1 .. n PROVE events[i].eventType \notin TERMINAL_EVENTS
    <2>1. CASE i = n
        BY <1>2, <1>5, <2>1
    <2>2. CASE i # n
        <3>1. i \in 1 .. (n - 1)
            BY <1>2, <2>2
        <3>. QED
            BY <1>1, <1>2, <3>1 DEF AppealLived
    <2>. QED
        BY <2>1, <2>2
<1>13. p.eventType = "reversed" => ReversalAnswered(g, p, d.artifactId)
    <2>1. SUFFICES ASSUME p.eventType = "reversed" PROVE ReversalAnswered(g, p, d.artifactId)
        OBVIOUS
    <2>2. PICK s \in DecisionsOf(h) : s.artifactId = p.supersedingDecisionId /\ s.supersedesDecisionId = p.decisionId
        BY <1>6, <2>1
    <2>3. PICK i \in 1 .. Len(h) : h[i].payload = s
        BY DEF DecisionsOf
    <2>4. /\ Len(h) \in Nat /\ Len(g) = Len(h) + 1 /\ g[Len(h) + 1] = r
          /\ \A k \in 1 .. Len(h) : g[k] = h[k]
        BY <1>1, LongerByOne
    <2>5. g[i].payload = s /\ g[Len(h) + 1].payload = p
        BY <2>3, <2>4
    <2>6. i \in 1 .. Len(g) /\ Len(h) + 1 \in 1 .. Len(g) /\ i < Len(h) + 1
        BY <2>4
    <2>. QED
        BY ONLY <1>4, <2>2, <2>5, <2>6 DEF ReversalAnswered
<1>14. Heard(g, events, d)
    BY <1>2, <1>9, <1>10, <1>11, <1>13 DEF Heard
<1>15. \A i \in 1 .. (Len(events) - 1) : events[i].eventType \notin TERMINAL_EVENTS
    BY <1>2, <1>12
<1>. QED
    BY <1>2, <1>14, <1>15 DEF AppealLived

LEMMA LivesEvent ==
    ASSUME NEW h, Lives(h), NEW p, StoreVerdict(h, "appeal_event", p) = "ok"
    PROVE  Lives(Append(h, nextRecord(h, "appeal_event", p)))
<1>. SUFFICES ASSUME NEW r, NEW g, r = nextRecord(h, "appeal_event", p), g = Append(h, r)
              PROVE  Lives(g)
    OBVIOUS
<1>. DEFINE before == AppealOf(h, p.appealId)
            events == Append(before, p)
<1>1. IsSequence(h) /\ IsSequence(g) /\ IsSequence(before)
    BY LongerByOne DEF Lives, AppealLived
<1>2. r.recordType = "appeal_event" /\ r.payload = p /\ r.entityId = p.appealId
    BY ONLY r = nextRecord(h, "appeal_event", p) DEF nextRecord, EntityId
<1>3. DecisionsOf(g) = DecisionsOf(h)
    BY <1>1, <1>2, DecisionsOfStep
<1>4. ASSUME NEW a PROVE AppealOf(g, a) = IF a = p.appealId THEN events ELSE AppealOf(h, a)
    BY <1>1, <1>2, AppealOfStep DEF AddEvent
<1>5. AppealLived(g, events)
    BY <1>2, <1>3, EventHeard
<1>6. Len(before) \in Nat /\ Len(events) = Len(before) + 1 /\ \A i \in 1 .. Len(before) : events[i] = before[i]
    BY <1>1, LongerByOne
<1>7. events # <<>> /\ (before # <<>> => events[1] = before[1])
    <2>1. Len(events) # 0 /\ (before # <<>> => Len(before) # 0)
        BY <1>1, <1>6, EmptySeq DEF IsSequence
    <2>. QED
        BY <1>6, <2>1
<1>. HIDE DEF before, events
<1>8. ASSUME NEW a PROVE AppealLived(g, AppealOf(g, a))
    <2>1. AppealLived(h, AppealOf(h, a))
        BY DEF Lives
    <2>2. CASE a = p.appealId
        BY <1>4, <1>5, <2>2
    <2>3. CASE a # p.appealId
        BY <1>1, <1>3, <1>4, <2>1, <2>3, StillHeard DEF AppealLived
    <2>. QED
        BY <2>2, <2>3
<1>9. ASSUME NEW d \in DecisionsOf(g), d.supersedesDecisionId # None
      PROVE  appealBindsDecision(AppealOf(g, d.appealId), d.supersedesDecisionId)
    <2>1. appealBindsDecision(AppealOf(h, d.appealId), d.supersedesDecisionId)
        BY <1>3, <1>9 DEF Lives, SupersedesOnAppeal
    <2>2. CASE d.appealId = p.appealId
        BY <1>4, <1>7, <2>1, <2>2 DEF appealBindsDecision, before
    <2>3. CASE d.appealId # p.appealId
        BY <1>4, <2>1, <2>3
    <2>. QED
        BY <2>2, <2>3
<1>10. DecidedOnce(g) /\ SupersedesOnce(g)
    BY <1>3 DEF Lives, DecidedOnce, SupersedesOnce
<1>11. ASSUME NEW a PROVE a \in AppealIdsOf(g) <=> AppealOf(g, a) # <<>>
    <2>1. a \in AppealIdsOf(g) <=> a \in AppealIdsOf(h) \/ a = p.appealId
        BY <1>1, <1>2, AppealIdsStep
    <2>2. CASE a = p.appealId
        BY <1>4, <1>7, <2>1, <2>2
    <2>3. CASE a # p.appealId
        BY <1>4, <2>1, <2>3 DEF Lives
    <2>. QED
        BY <2>2, <2>3
<1>. QED
    BY <1>1, <1>8, <1>9, <1>10, <1>11 DEF Lives, SupersedesOnAppeal

\* Every history the guards build is such a history.
LEMMA LawfulLives ==
    ASSUME NEW h, Lawful(h),
           \A i \in 1 .. Len(h) : h[i].recordType = "decision" => h[i].payload.maxAppealEvents \in Nat
    PROVE  Lives(h)
<1>. DEFINE pre(k) == SubSeq(h, 1, k)
            bad == {k \in Nat : k <= Len(h) /\ ~ Lives(pre(k))}
<1>1. IsSequence(h) /\ Len(h) \in Nat /\ pre(0) = <<>> /\ pre(Len(h)) = h
    BY PrefixWhole DEF Lawful
<1>2. ASSUME bad # {} PROVE FALSE
    <2>1. PICK k \in bad : \A j \in bad : k <= j
        BY <1>2, Least
    <2>2. k # 0
        BY <1>1, <2>1, LivesEmpty
    <2>3. k \in 1 .. Len(h) /\ Lives(pre(k - 1))
        BY <1>1, <2>1, <2>2
    <2>4. pre(k) = Append(pre(k - 1), h[k])
        BY <1>1, <2>3, PrefixLonger
    <2>5. LawfulAt(h, k)
        BY <2>3 DEF Lawful
    <2>6. h[k].recordType = "decision" => h[k].payload.maxAppealEvents \in Nat
        BY <2>3
    <2>. DEFINE t == h[k].recordType
                p == h[k].payload
    <2>7. /\ t \in {"decision", "appeal_event"} /\ h[k] = nextRecord(pre(k - 1), t, p)
          /\ StoreVerdict(pre(k - 1), t, p) = "ok"
        BY <2>5 DEF LawfulAt
    <2>. HIDE DEF pre, bad
    <2>8. Lives(pre(k))
        <3>1. CASE t = "decision"
            BY ONLY <2>3, <2>4, <2>6, <2>7, <3>1, LivesDecision
        <3>2. CASE t = "appeal_event"
            BY ONLY <2>3, <2>4, <2>7, <3>2, LivesEvent
        <3>. QED
            BY <2>7, <3>1, <3>2
    <2>. QED
        BY <2>1, <2>8 DEF bad
<1>3. Len(h) \notin bad
    BY <1>2
<1>4. Lives(pre(Len(h)))
    BY <1>1, <1>3
<1>. HIDE DEF pre, bad
<1>. QED
    BY <1>1, <1>4
=============================================================================
