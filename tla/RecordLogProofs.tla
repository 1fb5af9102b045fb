-------------------------- MODULE RecordLogProofs --------------------------
(***************************************************************************)
(* What holds of every history the store can build, for any payloads and     *)
(* any length: that the guards and the verifier judge alike, that changes     *)
(* made by hand are found, and the life of an appeal.                         *)
(***************************************************************************)
EXTENDS RecordLog, StoreRecordsProofs

\* The inductive invariant: the history is lawful, record by record.
LEMMA LawfulInit == Init => Lawful(records)
    BY LawfulEmpty DEF Init

LEMMA LawfulNext == Lawful(records) /\ [Next]_records => Lawful(records)'
<1>1. ASSUME Lawful(records), NEW t \in {"decision", "appeal_event"}, NEW p, Store(t, p)
      PROVE  Lawful(records')
    <2>1. Lawful(Append(records, nextRecord(records, t, p)))
        BY <1>1, LawfulStep DEF Store
    <2>. QED
        BY <1>1, <2>1 DEF Store
<1>. QED
    BY <1>1 DEF Next, putDecision, appendAppeal

THEOREM LawfulAlways == Spec => []Lawful(records)
    BY LawfulInit, LawfulNext, PTL DEF Spec

\* Whatever history the store has built and whatever payload comes next,
\* putDecision and appendAppeal let it through exactly when verifyStoreRecords
\* accepts the file with its record added.
THEOREM GuardsAgree == Spec => []GuardsAgreeWithVerifier
<1>1. Lawful(records) => GuardsAgreeWithVerifier
    <2>. SUFFICES ASSUME Lawful(records), NEW p \in Payloads
                  PROVE  StoreVerdict(records, p[1], p[2]) = "ok"
                            <=> verifyStoreRecords(Append(records, nextRecord(records, p[1], p[2])), {}).valid
        BY DEF GuardsAgreeWithVerifier
    <2>1. p[1] \in {"decision", "appeal_event"}
        BY DEF Payloads
    <2>. QED
        BY <2>1, JudgesAgree
<1>. QED
    BY <1>1, LawfulAlways, PTL

----------------------------------------------------------------------------
(* Changes made by hand.                                                     *)
LEMMA RemovedFrom ==
    ASSUME NEW s, IsSequence(s), NEW i \in 1 .. (Len(s) - 1)
    PROVE  /\ IsSequence(RemoveAt(s, i))
           /\ i \in 1 .. Len(RemoveAt(s, i))
           /\ RemoveAt(s, i)[i] = s[i + 1]
<1>1. PICK S : s \in Seq(S)
    BY DEF IsSequence
<1>2. Len(s) \in Nat
    BY <1>1
<1>. DEFINE a == SubSeq(s, 1, i - 1)
            b == SubSeq(s, i + 1, Len(s))
<1>3. a \in Seq(S) /\ Len(a) = i - 1
    BY <1>1, <1>2
<1>4. b \in Seq(S) /\ Len(b) = Len(s) - i /\ b[1] = s[i + 1]
    BY <1>1, <1>2
<1>. HIDE DEF a, b
<1>5. a \o b \in Seq(S) /\ Len(a \o b) = Len(s) - 1 /\ (a \o b)[i] = b[1]
    BY <1>2, <1>3, <1>4
<1>6. RemoveAt(s, i) = a \o b
    BY Zenon DEF RemoveAt, a, b
<1>. QED
    BY <1>2, <1>4, <1>5, <1>6 DEF IsSequence

LEMMA InsertedIn ==
    ASSUME NEW s, IsSequence(s), NEW i \in 1 .. Len(s)
    PROVE  /\ IsSequence(InsertAt(s, i, s[i]))
           /\ i + 1 \in 1 .. Len(InsertAt(s, i, s[i]))
           /\ InsertAt(s, i, s[i])[i + 1] = s[i]
<1>1. PICK S : s \in Seq(S)
    BY DEF IsSequence
<1>2. Len(s) \in Nat /\ s[i] \in S
    BY <1>1
<1>. DEFINE a == SubSeq(s, 1, i - 1)
            b == SubSeq(s, i, Len(s))
            c == a \o <<s[i]>>
<1>3. a \in Seq(S) /\ Len(a) = i - 1
    BY <1>1, <1>2
<1>4. b \in Seq(S) /\ Len(b) = Len(s) - i + 1 /\ b[1] = s[i]
    BY <1>1, <1>2
<1>. HIDE DEF a, b
<1>5. c \in Seq(S) /\ Len(c) = i
    BY <1>2, <1>3
<1>. HIDE DEF c
<1>6. c \o b \in Seq(S) /\ Len(c \o b) = Len(s) + 1 /\ (c \o b)[i + 1] = b[1]
    BY <1>2, <1>4, <1>5
<1>7. InsertAt(s, i, s[i]) = c \o b
    BY Zenon DEF InsertAt, a, b, c
<1>. QED
    BY <1>2, <1>4, <1>6, <1>7 DEF IsSequence

LEMMA ReplacedIn ==
    ASSUME NEW s, IsSequence(s), NEW i \in 1 .. Len(s), NEW e, NEW t, t = ReplaceAt(s, i, e)
    PROVE  /\ IsSequence(t)
           /\ Len(t) = Len(s)
           /\ t[i] = e
           /\ \A j \in 1 .. Len(s) : j # i => t[j] = s[j]
<1>1. PICK S : s \in Seq(S)
    BY DEF IsSequence
<1>. DEFINE T == S \cup {e}
<1>2. s \in Seq(T) /\ e \in T
    BY <1>1
<1>. HIDE DEF T
<1>3. t = [s EXCEPT ![i] = e]
    BY DEF ReplaceAt
<1>4. t \in Seq(T)
    BY <1>2, <1>3
<1>. QED
    BY <1>2, <1>3, <1>4 DEF IsSequence

\* A record of a lawful history has its fields, and giving it another payload
\* changes its body and nothing else.
LEMMA RecordReplaced ==
    ASSUME NEW r, IsRecordLine(r), NEW p, p # r.payload, NEW q, q = WithPayload(r, p)
    PROVE  /\ q.recordHash = r.recordHash
           /\ recordBody(q) # recordBody(r)
           /\ Rehash(q).recordHash = storeRecordHash(recordBody(q))
<1>1. r = [sequence |-> r.sequence, previousHash |-> r.previousHash, recordType |-> r.recordType,
           recordId |-> r.recordId, entityId |-> r.entityId, payload |-> r.payload, recordHash |-> r.recordHash]
    BY DEF IsRecordLine
<1>2. DOMAIN r = {"sequence", "previousHash", "recordType", "recordId", "entityId", "payload", "recordHash"}
    BY <1>1, Zenon
<1>3. /\ "payload" \in DOMAIN r /\ "recordHash" \in DOMAIN r /\ "payload" # "recordHash"
    BY <1>2
<1>4. q.payload = p /\ q.recordHash = r.recordHash /\ DOMAIN q = DOMAIN r
    BY <1>3, Zenon DEF WithPayload
<1>5. recordBody(q).payload = q.payload /\ recordBody(r).payload = r.payload
    BY DEF recordBody
<1>6. Rehash(q).recordHash = storeRecordHash(recordBody(q))
    BY <1>3, <1>4, Zenon DEF Rehash
<1>. QED
    BY <1>4, <1>5, <1>6

LEMMA LawfulLines ==
    ASSUME NEW h, Lawful(h), NEW i \in 1 .. Len(h)
    PROVE  /\ IsRecordLine(h[i])
           /\ h[i].sequence = i
           /\ h[i].recordHash = storeRecordHash(recordBody(h[i]))
           /\ i # 1 => h[i].previousHash = h[i - 1].recordHash
<1>1. Chained(h)
    BY LawfulAgrees DEF Agrees
<1>2. LawfulAt(h, i)
    BY DEF Lawful
<1>3. IsRecordLine(h[i])
    <2>1. ASSUME NEW g, NEW t \in {"decision", "appeal_event"}, NEW p PROVE IsRecordLine(nextRecord(g, t, p))
        BY DEF nextRecord, IsRecordLine
    <2>. QED
        BY <1>2, <2>1 DEF LawfulAt
<1>. QED
    BY <1>1, <1>3 DEF Chained

LEMMA TamperedIsUnchained ==
    ASSUME Lawful(records), NEW lines \in Tampered
    PROVE  IsSequence(lines) /\ ~ Chained(lines)
<1>. DEFINE n == Len(records)
<1>1. IsSequence(records) /\ n \in Nat
    BY LongerByOne DEF Lawful
<1>2. \A i \in 1 .. n : /\ IsRecordLine(records[i]) /\ records[i].sequence = i
                        /\ records[i].recordHash = storeRecordHash(recordBody(records[i]))
                        /\ i # 1 => records[i].previousHash = records[i - 1].recordHash
    BY LawfulLines
<1>. HIDE DEF n
<1>3. ASSUME IsSequence(lines), NEW i \in 1 .. Len(lines), lines[i].sequence # i
      PROVE  IsSequence(lines) /\ ~ Chained(lines)
    BY <1>3 DEF Chained
<1>4. ASSUME NEW i \in 1 .. (n - 1), lines = RemoveAt(records, i)
      PROVE  IsSequence(lines) /\ ~ Chained(lines)
    <2>1. IsSequence(lines) /\ i \in 1 .. Len(lines) /\ lines[i] = records[i + 1]
        BY <1>1, <1>4, RemovedFrom DEF n
    <2>2. records[i + 1].sequence = i + 1 /\ i + 1 # i
        BY <1>1, <1>2
    <2>. QED
        BY <1>3, <2>1, <2>2
<1>5. ASSUME NEW i \in 1 .. (n - 1), lines = ReplaceAt(ReplaceAt(records, i, records[i + 1]), i + 1, records[i])
      PROVE  IsSequence(lines) /\ ~ Chained(lines)
    <2>. DEFINE once == ReplaceAt(records, i, records[i + 1])
    <2>1. i \in 1 .. n /\ i + 1 \in 1 .. n /\ i + 1 # i
        BY <1>1
    <2>2. IsSequence(once) /\ Len(once) = n /\ once[i] = records[i + 1]
        BY <1>1, <2>1, ReplacedIn DEF n
    <2>3. lines = ReplaceAt(once, i + 1, records[i])
        BY <1>5
    <2>. HIDE DEF once
    <2>4. IsSequence(lines) /\ Len(lines) = n /\ lines[i + 1] = records[i]
        BY <2>1, <2>2, <2>3, ReplacedIn
    <2>5. records[i].sequence = i
        BY <1>2, <2>1
    <2>. QED
        BY <1>3, <2>1, <2>4, <2>5
<1>6. ASSUME NEW i \in 1 .. n, lines = InsertAt(records, i, records[i])
      PROVE  IsSequence(lines) /\ ~ Chained(lines)
    <2>1. IsSequence(lines) /\ i + 1 \in 1 .. Len(lines) /\ lines[i + 1] = records[i]
        BY <1>1, <1>6, InsertedIn DEF n
    <2>2. records[i].sequence = i /\ i + 1 # i
        BY <1>2
    <2>. QED
        BY <1>3, <2>1, <2>2
<1>7. ASSUME NEW r \in Replacements(1 .. n), lines = ReplaceAt(records, r[1], Replaced(r))
      PROVE  IsSequence(lines) /\ ~ Chained(lines)
    <2>. DEFINE i == r[1]
    <2>1. i \in 1 .. n /\ r[2][2] # records[i].payload
        BY DEF Replacements
    <2>2. IsSequence(lines) /\ Len(lines) = n /\ lines[i] = Replaced(r)
        BY <1>1, <1>7, <2>1, ReplacedIn DEF n
    <2>3. lines[i].recordHash = records[i].recordHash /\ recordBody(lines[i]) # recordBody(records[i])
        BY <1>2, <2>1, <2>2, RecordReplaced DEF Replaced
    <2>4. records[i].recordHash = Sha256(recordBody(records[i]))
        BY <1>2, <2>1 DEF storeRecordHash
    <2>5. lines[i].recordHash # storeRecordHash(recordBody(lines[i]))
        BY <2>3, <2>4, DigestInjective DEF storeRecordHash
    <2>. QED
        BY <2>1, <2>2, <2>5 DEF Chained
<1>8. ASSUME NEW r \in Replacements(1 .. (n - 1)), lines = ReplaceAt(records, r[1], Rehash(Replaced(r)))
      PROVE  IsSequence(lines) /\ ~ Chained(lines)
    <2>. DEFINE i == r[1]
    <2>1. i \in 1 .. n /\ i + 1 \in 1 .. n /\ i + 1 # i /\ i + 1 # 1 /\ (i + 1) - 1 = i
        BY <1>1 DEF Replacements
    <2>2. r[2][2] # records[i].payload
        BY DEF Replacements
    <2>3. IsSequence(lines) /\ Len(lines) = n /\ lines[i] = Rehash(Replaced(r)) /\ lines[i + 1] = records[i + 1]
        BY <1>1, <1>8, <2>1, ReplacedIn DEF n
    <2>4. /\ recordBody(Replaced(r)) # recordBody(records[i])
          /\ Rehash(Replaced(r)).recordHash = Sha256(recordBody(Replaced(r)))
        BY <1>2, <2>1, <2>2, RecordReplaced DEF Replaced, storeRecordHash
    <2>5. records[i].recordHash = Sha256(recordBody(records[i]))
        BY <1>2, <2>1 DEF storeRecordHash
    <2>6. lines[i].recordHash # records[i].recordHash
        BY <2>3, <2>4, <2>5, DigestInjective
    <2>7. lines[i + 1].previousHash # lines[i].recordHash
        BY <1>2, <2>1, <2>3, <2>6
    <2>8. Chained(lines) => lines[i + 1].previousHash = lines[(i + 1) - 1].recordHash
        BY <2>1, <2>3 DEF Chained
    <2>. QED
        BY <2>1, <2>3, <2>7, <2>8
<1>. QED
    BY <1>4, <1>5, <1>6, <1>7, <1>8 DEF Tampered, n

LEMMA CheckpointTells ==
    ASSUME NEW h, Agrees(h), NEW c
    PROVE  /\ c.sequence = Len(h) /\ c.headHash = HeadHash(h) => verifyStoreRecords(h, {c}).completeness = "verified"
           /\ c.sequence # Len(h) => ~ verifyStoreRecords(h, {c}).valid
<1>. DEFINE seen == Scan(h)
            given == {c}
            state == Completeness(seen.length, seen.previousHash, given)
<1>1. seen.length = Len(h) /\ seen.previousHash = HeadHash(h)
    BY DEF Agrees, SeenAll
<1>2. state = IF c.sequence = Len(h) /\ c.headHash = HeadHash(h) THEN "verified" ELSE "mismatch"
    BY <1>1 DEF Completeness
<1>3. verifyStoreRecords(h, given) = Verification(seen, state)
    BY DEF verifyStoreRecords, Concluded
<1>. HIDE DEF state, seen
<1>4. Verification(seen, state).completeness = state
    BY DEF Verification
<1>5. state = "mismatch" => ~ Verification(seen, state).valid
    BY DEF Verification, Issue
<1>. QED
    BY <1>2, <1>3, <1>4, <1>5

\* In every history the store can build, a record taken out before the end, two
\* neighbours swapped, a record repeated, a payload changed with or without its
\* hash redone make verifyStoreRecords refuse the file; a cut at the end
\* verifies, and a checkpoint taken at the full length exposes it.
THEOREM TamperingShows == Spec => []TamperEvident
<1>1. Lawful(records) => TamperEvident
    <2>. SUFFICES ASSUME Lawful(records) PROVE TamperEvident
        OBVIOUS
    <2>. DEFINE n == Len(records)
                head == [sequence |-> n, headHash |-> IF n = 0 THEN None ELSE records[n].recordHash]
    <2>1. IsSequence(records) /\ n \in Nat
        BY LongerByOne DEF Lawful
    <2>2. ASSUME NEW lines \in Tampered, verifyStoreRecords(lines, {}).valid PROVE FALSE
        <3>1. IsSequence(lines) /\ ~ Chained(lines)
            BY TamperedIsUnchained
        <3>2. Scan(lines).issues = {}
            BY <2>2, Conclusion DEF verifyStoreRecords
        <3>. QED
            BY <3>1, <3>2, VerifiedIsChained
    <2>3. head.sequence = n /\ head.headHash = HeadHash(records)
        <3>1. records = <<>> <=> n = 0
            BY <2>1, EmptySeq DEF IsSequence
        <3>. QED
            BY <3>1 DEF HeadHash
    <2>. HIDE DEF head
    <2>4. n > 0 => verifyStoreRecords(records, {head}).completeness = "verified"
        BY <2>3, LawfulAgrees, CheckpointTells
    <2>5. ASSUME NEW i \in 0 .. (n - 1)
          PROVE  /\ verifyStoreRecords(SubSeq(records, 1, i), {}).valid
                 /\ ~verifyStoreRecords(SubSeq(records, 1, i), {head}).valid
        <3>1. i \in 0 .. Len(records) /\ i # n
            BY <2>1
        <3>. DEFINE h == SubSeq(records, 1, i)
        <3>2. Lawful(h) /\ Len(h) = i
            BY <2>1, <3>1, LawfulPrefix, PrefixOf
        <3>. HIDE DEF h
        <3>3. Agrees(h) /\ head.sequence # Len(h)
            BY <2>3, <3>1, <3>2, LawfulAgrees
        <3>4. verifyStoreRecords(h, {}).valid /\ ~verifyStoreRecords(h, {head}).valid
            BY ONLY <3>3, AgreesVerifies, CheckpointTells
        <3>. QED
            BY <3>4 DEF h
    <2>. QED
        BY <2>2, <2>4, <2>5, Zenon DEF TamperEvident, head
<1>. QED
    BY <1>1, LawfulAlways, PTL

----------------------------------------------------------------------------
(* The life of an appeal.                                                    *)
LEMMA LivesAppealLife == Lives(records) => AppealLife
<1>. SUFFICES ASSUME Lives(records) PROVE AppealLife
    OBVIOUS
<1>. SUFFICES ASSUME NEW a \in AppealIdsOf(records)
              PROVE  LET events    == AppealOf(records, a)
                         contested == CHOOSE d \in DecisionsOf(records) : d.artifactId = events[1].decisionId
                     IN  /\ Len(events) <= contested.maxAppealEvents
                         /\ \A i \in 1 .. (Len(events) - 1) : events[i].eventType \notin TERMINAL_EVENTS
                         /\ \A i \in 1 .. Len(events) :
                               events[i].eventType \in REVIEWER_EVENTS => events[i].actor.id \in contested.reviewerIds
                         /\ events[Len(events)].eventType = "reversed" =>
                               ReversalAnswered(records, events[Len(events)], contested.artifactId)
                         /\ \A d, e \in {x \in DecisionsOf(records) : x.supersedesDecisionId # None /\ x.appealId = a} :
                               d = e
    BY Zenon DEF AppealLife, ReversalAnswered, Last
<1>. DEFINE events == AppealOf(records, a)
            contested == CHOOSE d \in DecisionsOf(records) : d.artifactId = events[1].decisionId
<1>1. AppealLived(records, events) /\ events # <<>>
    BY DEF Lives
<1>2. PICK d \in DecisionsOf(records) : Heard(records, events, d)
    BY <1>1 DEF AppealLived
<1>3. contested \in DecisionsOf(records) /\ contested.artifactId = events[1].decisionId
    BY <1>2 DEF Heard
<1>. HIDE DEF contested, events
<1>4. contested = d
    BY <1>2, <1>3 DEF Lives, DecidedOnce, Heard
<1>5. \A c, e \in {x \in DecisionsOf(records) : x.supersedesDecisionId # None /\ x.appealId = a} : c = e
    BY DEF Lives, SupersedesOnce
<1>6. /\ Len(events) <= contested.maxAppealEvents
      /\ \A i \in 1 .. (Len(events) - 1) : events[i].eventType \notin TERMINAL_EVENTS
      /\ \A i \in 1 .. Len(events) :
            events[i].eventType \in REVIEWER_EVENTS => events[i].actor.id \in contested.reviewerIds
      /\ events[Len(events)].eventType = "reversed" =>
            ReversalAnswered(records, events[Len(events)], contested.artifactId)
    BY <1>1, <1>2, <1>4 DEF AppealLived, Heard
<1>. QED
    BY <1>5, <1>6, Zenon DEF contested, events

\* In every history the store can build, an appeal stays within the cap of the
\* decision it contests, ends with its resolution, is reviewed by whom that
\* decision names, and is reversed only by a decision recorded before, one for
\* each appeal.
THEOREM AppealsLive == Spec => []AppealLife
<1>1. Init => Lives(records)
    BY LivesEmpty DEF Init
<1>2. Lives(records) /\ [Next]_records => Lives(records)'
    <2>. SUFFICES ASSUME Lives(records), [Next]_records PROVE Lives(records')
        OBVIOUS
    <2>1. ASSUME NEW d \in Decisions, putDecision(d) PROVE Lives(records')
        <3>1. d.maxAppealEvents \in Nat
            BY RecordLogAssumption
        <3>. QED
            BY <2>1, <3>1, LivesDecision DEF putDecision, Store
    <2>2. ASSUME NEW e \in Events, appendAppeal(e) PROVE Lives(records')
        BY <2>2, LivesEvent DEF appendAppeal, Store
    <2>. QED
        BY <2>1, <2>2 DEF Next
<1>. QED
    BY <1>1, <1>2, LivesAppealLife, PTL DEF Spec
=============================================================================
