----------------------------- MODULE DisputeProofs -----------------------------
(***************************************************************************)
(* What is proved of disputes.  The order in which retrievers answer decides    *)
(* nothing; a copy of a pack is trusted only if it is the pack whose digest the  *)
(* reviewer kept; and what is verified is one transaction, delegated and paid   *)
(* for as it was signed.                                                       *)
(***************************************************************************)
EXTENDS DisputeProperties, SequenceTheorems, FiniteSetTheorems, WellFoundedInduction, TLAPS

LEMMA Least ==
    ASSUME NEW S \in SUBSET Nat, S # {}
    PROVE  \E m \in S : \A k \in S : m <= k
<1> DEFINE R == OpToRel(<, Nat)
<1>1. IsWellFoundedOn(R, Nat)
    BY NatLessThanWellFounded
<1>2. \A x, y \in Nat : y < x => <<y, x>> \in R
    BY DEF OpToRel
<1> HIDE DEF R
<1>3. \E x \in S : \A y \in S : ~ (<<y, x>> \in R)
    BY <1>1, WFMin
<1>4. PICK m \in S : \A y \in S : ~ (<<y, m>> \in R)
    BY <1>3
<1>5. ASSUME NEW k \in S PROVE m <= k
    <2>1. k \in Nat /\ m \in Nat
        OBVIOUS
    <2>2. ~ (<<k, m>> \in R)
        BY <1>4
    <2>3. k < m => <<k, m>> \in R
        BY <1>2, <2>1
    <2> QED
        BY <2>1, <2>2, <2>3
<1> QED
    BY <1>5

----------------------------------------------------------------------------
(* The sources among the answers.                                             *)
\* f keeps the sources among the first n answers, for each n.
IsKept(f, answers, n) ==
    f = [m \in 0 .. n |->
            IF m = 0 THEN <<>>
            ELSE IF answers[m].source = None THEN f[m - 1] ELSE Append(f[m - 1], answers[m].source)]

\* One entry of f from the one before.
NextKept(answers, m, before) ==
    IF m = 0 THEN <<>> ELSE IF answers[m].source = None THEN before ELSE Append(before, answers[m].source)

LEMMA KeptAt ==
    ASSUME NEW f, NEW answers, NEW n, IsKept(f, answers, n), NEW m \in 0 .. n
    PROVE  f[m] = NextKept(answers, m, f[m - 1])
BY Zenon DEF IsKept, NextKept

LEMMA KeptExists ==
    ASSUME NEW answers, NEW n \in Nat
    PROVE  \E f : IsKept(f, answers, n)
<1> DEFINE bad == {k \in Nat : ~ \E f : IsKept(f, answers, k)}
<1>1. SUFFICES ASSUME bad # {} PROVE FALSE
    OBVIOUS
<1>2. PICK m \in bad : \A k \in bad : m <= k
    BY <1>1, Least
<1>3. CASE m = 0
    <2>1. IsKept([k \in 0 .. 0 |-> <<>>], answers, 0)
        BY DEF IsKept
    <2> QED
        BY <1>2, <1>3, <2>1
<1>4. CASE m # 0
    <2>1. m - 1 \in Nat /\ m \in Nat /\ m - 1 \notin bad
        BY <1>2, <1>4
    <2>2. PICK f : IsKept(f, answers, m - 1)
        BY <2>1
    <2> DEFINE g == [k \in 0 .. m |-> IF k = m THEN NextKept(answers, m, f[m - 1]) ELSE f[k]]
    <2>3. \A k \in 0 .. (m - 1) : f[k] = NextKept(answers, k, f[k - 1])
        BY <2>2, KeptAt
    <2>4. \A k \in 0 .. (m - 1) : g[k] = f[k]
        BY <2>1
    <2>5. \A k \in 0 .. m : g[k] = NextKept(answers, k, g[k - 1])
        <3>1. TAKE k \in 0 .. m
        <3>2. CASE k = m
            BY <1>4, <2>1, <2>4, <3>2
        <3>3. CASE k = 0 /\ k # m
            BY <2>1, <2>3, <2>4, <3>3 DEF NextKept
        <3>4. CASE k # m /\ k # 0
            <4>1. k \in 0 .. (m - 1) /\ k - 1 \in 0 .. (m - 1)
                BY <2>1, <3>4
            <4> QED
                BY <2>3, <2>4, <4>1
        <3> QED
            BY <3>2, <3>3, <3>4
    <2>6. g = [k \in 0 .. m |-> g[k]]
        OBVIOUS
    <2> HIDE DEF g
    <2>7. IsKept(g, answers, m)
        BY <2>5, <2>6, Zenon DEF IsKept, NextKept
    <2> QED
        BY <2>7
<1> QED
    BY <1>3, <1>4

LEMMA SourcesKept ==
    ASSUME NEW answers, Len(answers) \in Nat
    PROVE  \E f : IsKept(f, answers, Len(answers)) /\ SourcesIn(answers) = f[Len(answers)]
<1> DEFINE f == CHOOSE f : IsKept(f, answers, Len(answers))
<1>1. IsKept(f, answers, Len(answers))
    BY KeptExists
<1>2. SourcesIn(answers) = f[Len(answers)]
    BY Zenon DEF SourcesIn, IsKept
<1> QED
    BY <1>1, <1>2

----------------------------------------------------------------------------
\* A record list as it comes out of the collection: no two of one source.
Distinct(sources) == \A i, j \in DOMAIN sources : sources[i].sourceId = sources[j].sourceId => i = j

\* What is found in the first n answers.
Found(answers, n) == {answers[i].source : i \in {k \in 1 .. n : answers[k].source # None}}

OneEach(answers, n) ==
    \A i, j \in 1 .. n : /\ answers[i].source # None /\ answers[j].source # None
                         /\ answers[i].source.sourceId = answers[j].source.sourceId
                         => i = j

\* s lists what is found.
Lists(s, found) == s \in Seq(found) /\ Range(s) = found /\ Distinct(s)

LEMMA AppendLists ==
    ASSUME NEW found, NEW s, Lists(s, found), NEW e, \A d \in found : d.sourceId # e.sourceId
    PROVE  Lists(Append(s, e), found \cup {e})
<1> DEFINE t == Append(s, e)
           more == found \cup {e}
<1>1. s \in Seq(found) /\ Range(s) = found /\ Distinct(s)
    BY DEF Lists
<1>2. s \in Seq(more) /\ e \in more
    BY ONLY <1>1
<1>3. /\ t \in Seq(more) /\ Len(t) = Len(s) + 1 /\ Len(s) \in Nat
      /\ \A i \in 1 .. Len(s) : t[i] = s[i]
      /\ t[Len(s) + 1] = e
    BY ONLY <1>2, AppendProperties, LenProperties
<1>4. DOMAIN s = 1 .. Len(s) /\ DOMAIN t = 1 .. Len(s) + 1
    BY ONLY <1>2, <1>3, LenProperties
<1> HIDE DEF t, more
<1>5. \A i \in 1 .. Len(s) : s[i] \in found
    BY ONLY <1>1, <1>4, Zenon DEF Range
<1>6. ASSUME NEW x PROVE x \in Range(t) <=> x \in more
    <2>1. x \in Range(t) <=> \E i \in 1 .. Len(s) + 1 : x = t[i]
        BY ONLY <1>4, Zenon DEF Range
    <2>2. x \in found <=> \E i \in 1 .. Len(s) : x = s[i]
        BY ONLY <1>1, <1>4, Zenon DEF Range
    <2>3. (\E i \in 1 .. Len(s) + 1 : x = t[i]) <=> (\E i \in 1 .. Len(s) : x = t[i]) \/ x = t[Len(s) + 1]
        BY ONLY <1>3
    <2>4. (\E i \in 1 .. Len(s) : x = t[i]) <=> (\E i \in 1 .. Len(s) : x = s[i])
        BY ONLY <1>3
    <2> QED
        BY ONLY <2>1, <2>2, <2>3, <2>4, <1>3 DEF more
<1>7. Range(t) = more
    BY ONLY <1>6
<1>8. Distinct(t)
    <2>1. SUFFICES ASSUME NEW i \in 1 .. Len(s) + 1, NEW j \in 1 .. Len(s) + 1, t[i].sourceId = t[j].sourceId
                   PROVE  i = j
        BY <1>4 DEF Distinct
    <2>2. CASE i \in 1 .. Len(s) /\ j \in 1 .. Len(s)
        BY <1>1, <1>3, <1>4, <2>1, <2>2 DEF Distinct
    <2>3. CASE i = Len(s) + 1 /\ j \in 1 .. Len(s)
        BY <1>3, <1>5, <2>1, <2>3
    <2>4. CASE i \in 1 .. Len(s) /\ j = Len(s) + 1
        BY <1>3, <1>5, <2>1, <2>4
    <2> QED
        BY <1>3, <2>2, <2>3, <2>4
<1> QED
    BY <1>3, <1>7, <1>8 DEF Lists, more, t

LEMMA KeptSources ==
    ASSUME NEW answers, NEW n \in Nat, NEW f, IsKept(f, answers, n), OneEach(answers, n)
    PROVE  Lists(f[n], Found(answers, n))
<1> DEFINE Good(k) == Lists(f[k], Found(answers, k))
           bad == {k \in Nat : k <= n /\ ~Good(k)}
<1>1. SUFFICES ASSUME bad # {} PROVE FALSE
    OBVIOUS
<1>2. PICK m \in bad : \A k \in bad : m <= k
    BY <1>1, Least
<1>3. m \in Nat /\ m <= n /\ m \in 0 .. n /\ ~Good(m)
    BY <1>2
<1>4. f[m] = NextKept(answers, m, f[m - 1])
    BY <1>3, KeptAt
<1>5. CASE m = 0
    <2>1. f[0] = <<>>
        BY <1>4, <1>5 DEF NextKept
    <2>2. Found(answers, 0) = {}
        BY DEF Found
    <2>3. Lists(<<>>, {})
        <3>1. <<>> \in Seq({}) /\ DOMAIN <<>> = {}
            OBVIOUS
        <3> QED
            BY ONLY <3>1 DEF Lists, Range, Distinct
    <2> QED
        BY <1>3, <1>5, <2>1, <2>2, <2>3
<1>6. CASE m # 0
    <2>1. m - 1 \in Nat /\ m - 1 <= n /\ m - 1 \notin bad
        BY <1>2, <1>3, <1>6
    <2>2. Good(m - 1)
        BY <2>1
    <2>3. m \in 1 .. n /\ 1 .. m = (1 .. (m - 1)) \cup {m} /\ 1 .. (m - 1) \subseteq 1 .. n
        BY <1>3, <1>6
    <2>4. CASE answers[m].source = None
        <3>1. Found(answers, m) = Found(answers, m - 1)
            BY <2>3, <2>4 DEF Found
        <3>2. f[m] = f[m - 1]
            BY <1>4, <1>6, <2>4 DEF NextKept
        <3> QED
            BY <1>3, <2>2, <3>1, <3>2
    <2>5. CASE answers[m].source # None
        <3> DEFINE e == answers[m].source
        <3>1. Found(answers, m) = Found(answers, m - 1) \cup {e}
            BY <2>3, <2>5 DEF Found
        <3>2. f[m] = Append(f[m - 1], e)
            BY <1>4, <1>6, <2>5 DEF NextKept
        <3>3. ASSUME NEW d \in Found(answers, m - 1) PROVE d.sourceId # e.sourceId
            <4>1. PICK i \in 1 .. (m - 1) : d = answers[i].source /\ answers[i].source # None
                BY DEF Found
            <4>2. i \in 1 .. n /\ i # m
                BY <2>3, <4>1, <1>3
            <4> QED
                BY <2>3, <2>5, <4>1, <4>2 DEF OneEach
        <3> HIDE DEF e
        <3>4. Lists(Append(f[m - 1], e), Found(answers, m - 1) \cup {e})
            BY ONLY <2>2, <3>3, AppendLists
        <3> QED
            BY <1>3, <3>1, <3>2, <3>4
    <2> QED
        BY <2>4, <2>5
<1> QED
    BY <1>5, <1>6

\* The sources among answers no two of which are of one source.
LEMMA SourcesListed ==
    ASSUME NEW answers, NEW n \in Nat, Len(answers) = n, OneEach(answers, n)
    PROVE  Lists(SourcesIn(answers), Found(answers, n))
<1>1. PICK f : IsKept(f, answers, n) /\ SourcesIn(answers) = f[n]
    BY SourcesKept
<1>2. Lists(f[n], Found(answers, n))
    BY <1>1, KeptSources
<1> QED
    BY <1>1, <1>2

----------------------------------------------------------------------------
(* What a resolution depends on.                                              *)
\* The same request but for the order of the sources.
Alike(a, b) ==
    /\ a.transactionId = b.transactionId /\ a.asOf = b.asOf /\ a.plan = b.plan
    /\ Range(a.sources) = Range(b.sources)
    /\ Distinct(a.sources) /\ Distinct(b.sources)

LEMMA SelectionsAlike ==
    ASSUME NEW a, NEW b, Alike(a, b)
    PROVE  /\ Candidates(a) = Candidates(b) /\ CollectIssues(a) = CollectIssues(b)
           /\ Collectable(a.sources) <=> Collectable(b.sources)
           /\ \A kind, candidate, openHash :
                 selectMandate(kind, candidate, a, openHash) = selectMandate(kind, candidate, b, openHash)
           /\ \A kind, candidate, mandate :
                 selectReceipt(kind, candidate, mandate, a) = selectReceipt(kind, candidate, mandate, b)
           /\ \A mandate : verifyEmbeddedCheckoutJwt(mandate, a) = verifyEmbeddedCheckoutJwt(mandate, b)
<1>1. Candidates(a) = Candidates(b)
    BY DEF Alike, Candidates
<1>2. CollectIssues(a) = CollectIssues(b)
    BY DEF Alike, CollectIssues
<1>3. Collectable(a.sources) <=> Collectable(b.sources)
    BY DEF Alike, Collectable, ArtifactCount, Distinct
<1>4. \A kind, token, openHash :
          safeMandateVerification(kind, token, a, openHash) = safeMandateVerification(kind, token, b, openHash)
    BY DEF Alike, safeMandateVerification
<1>5. \A kind, candidate, openHash :
          selectMandate(kind, candidate, a, openHash) = selectMandate(kind, candidate, b, openHash)
    BY <1>4, Zenon DEF selectMandate
<1>6. \A kind, candidate, mandate :
          selectReceipt(kind, candidate, mandate, a) = selectReceipt(kind, candidate, mandate, b)
    BY Zenon DEF Alike, selectReceipt
<1>7. \A mandate : verifyEmbeddedCheckoutJwt(mandate, a) = verifyEmbeddedCheckoutJwt(mandate, b)
    BY Zenon DEF Alike, verifyEmbeddedCheckoutJwt
<1> QED
    BY <1>1, <1>2, <1>3, <1>5, <1>6, <1>7

\* The selections of assembleInternal, by name.
Sole(kind, input) == uniqueCandidate(kind, Candidates(input))

CheckoutMandateOf(input) == selectMandate("checkout_mandate", Sole("checkout_mandate", input), input, Undefined)

OpenHashOf(mandate) == IF mandate.chosen = None THEN Undefined ELSE computeAp2OpenMandateHash(mandate.chosen.token)

PaymentMandateOf(input) ==
    selectMandate("payment_mandate", Sole("payment_mandate", input), input, OpenHashOf(CheckoutMandateOf(input)))

SelectionsOf(input) ==
    [checkout_mandate |-> CheckoutMandateOf(input),
     checkout_receipt |-> selectReceipt("checkout_receipt", Sole("checkout_receipt", input), CheckoutMandateOf(input), input),
     payment_mandate  |-> PaymentMandateOf(input),
     payment_receipt  |-> selectReceipt("payment_receipt", Sole("payment_receipt", input), PaymentMandateOf(input), input)]

JwtOf(input) == verifyEmbeddedCheckoutJwt(CheckoutMandateOf(input), input)

LEMMA Assembled ==
    ASSUME NEW input, NEW attempts
    PROVE  assembleInternal(input, attempts) = Concluded(input, attempts, SelectionsOf(input), JwtOf(input))
BY DEF assembleInternal, SelectionsOf, JwtOf, PaymentMandateOf, OpenHashOf, CheckoutMandateOf, Sole

LEMMA ResolutionsAlike ==
    ASSUME NEW a, NEW b, Alike(a, b), NEW attempts
    PROVE  assembleInternal(a, attempts) = assembleInternal(b, attempts)
<1>1. \A selections, jwt : Concluded(a, attempts, selections, jwt) = Concluded(b, attempts, selections, jwt)
    BY SelectionsAlike, Zenon DEF Concluded
<1>2. \A kind : Sole(kind, a) = Sole(kind, b)
    BY SelectionsAlike DEF Sole
<1>m. \A kind, candidate, openHash :
          selectMandate(kind, candidate, a, openHash) = selectMandate(kind, candidate, b, openHash)
    BY SelectionsAlike
<1>r. \A kind, candidate, mandate :
          selectReceipt(kind, candidate, mandate, a) = selectReceipt(kind, candidate, mandate, b)
    BY SelectionsAlike
<1>3. CheckoutMandateOf(a) = CheckoutMandateOf(b)
    BY ONLY <1>2, <1>m DEF CheckoutMandateOf
<1>4. PaymentMandateOf(a) = PaymentMandateOf(b)
    BY ONLY <1>2, <1>3, <1>m DEF PaymentMandateOf
<1>5. SelectionsOf(a) = SelectionsOf(b)
    BY ONLY <1>2, <1>3, <1>4, <1>r DEF SelectionsOf
<1>6. JwtOf(a) = JwtOf(b)
    BY SelectionsAlike, <1>3 DEF JwtOf
<1> QED
    BY ONLY <1>1, <1>5, <1>6, Assembled

----------------------------------------------------------------------------
(* Any order.                                                                *)
\* Every answer comes once, from a retriever that may give it, and what is
\* gathered is what the answers come to.
EvidenceInv ==
    /\ dispute \in DOMAIN Cases
    /\ settled \in Seq(Range(settled))
    /\ \A i \in DOMAIN settled : settled[i][1] \in Ids /\ settled[i][2] \in Cases[dispute].offers[settled[i][1]]
    /\ \A i, j \in DOMAIN settled : settled[i][1] = settled[j][1] => i = j
    /\ gathered # None =>
          Waiting = {} /\ gathered = [sources |-> SourcesIn(results), attempts |-> AttemptsIn(results)]

LEMMA AnsweredBy ==
    ASSUME NEW id, NEW answer, Answered(id, answer).source # None
    PROVE  Answered(id, answer).source.sourceId = id
BY DEF Answered

\* Every element of a list once more, and nothing else.
LEMMA EvaluatedIs ==
    ASSUME NEW list, NEW S, list \in Seq(S)
    PROVE  Evaluated(list) = list
BY DEF Evaluated

LEMMA ListIs ==
    ASSUME NEW n \in Nat, NEW list, list = [i \in 1 .. n |-> list[i]]
    PROVE  list \in Seq(Range(list)) /\ Len(list) = n /\ DOMAIN list = 1 .. n /\ Evaluated(list) = list
<1>1. DOMAIN list = 1 .. n
    OBVIOUS
<1>2. list \in [1 .. n -> Range(list)]
    BY <1>1 DEF Range
<1>3. list \in Seq(Range(list)) /\ Len(list) = n
    BY <1>1, <1>2, IsASeq, LenProperties
<1> QED
    BY <1>1, <1>3, EvaluatedIs

\* list holds what each of the n named retrievers answered.
AnswersOf(list, n, name, answer) ==
    /\ Len(list) = n /\ DOMAIN list = 1 .. n
    /\ \A i \in 1 .. n : list[i] = Answered(name[i], answer[name[i]])
    /\ \A i, j \in 1 .. n : name[i] = name[j] => i = j

Named(name, n, other, m) == \A i \in 1 .. n : \E j \in 1 .. m : other[j] = name[i]

LEMMA AnswersAreOneEach ==
    ASSUME NEW list, NEW n, NEW name, NEW answer, AnswersOf(list, n, name, answer)
    PROVE  OneEach(list, n)
<1>1. SUFFICES ASSUME NEW i \in 1 .. n, NEW j \in 1 .. n,
                      list[i].source # None, list[j].source # None,
                      list[i].source.sourceId = list[j].source.sourceId
               PROVE  i = j
    BY DEF OneEach
<1>2. list[i] = Answered(name[i], answer[name[i]]) /\ list[j] = Answered(name[j], answer[name[j]])
    BY DEF AnswersOf
<1>3. list[i].source.sourceId = name[i] /\ list[j].source.sourceId = name[j]
    BY <1>1, <1>2, AnsweredBy
<1> QED
    BY <1>1, <1>3 DEF AnswersOf

LEMMA AnswersWithin ==
    ASSUME NEW given, NEW n, NEW name, NEW arrived, NEW m, NEW other, NEW answer,
           AnswersOf(given, n, name, answer), AnswersOf(arrived, m, other, answer),
           Named(name, n, other, m)
    PROVE  Found(given, n) \subseteq Found(arrived, m) /\ AttemptsIn(given) \subseteq AttemptsIn(arrived)
<1>1. ASSUME NEW i \in 1 .. n PROVE \E j \in 1 .. m : given[i] = arrived[j]
    <2>1. PICK j \in 1 .. m : other[j] = name[i]
        BY DEF Named
    <2>2. given[i] = Answered(name[i], answer[name[i]]) /\ arrived[j] = Answered(other[j], answer[other[j]])
        BY DEF AnswersOf
    <2> QED
        BY <2>1, <2>2
<1>2. DOMAIN given = 1 .. n /\ DOMAIN arrived = 1 .. m
    BY DEF AnswersOf
<1>3. ASSUME NEW x \in Found(given, n) PROVE x \in Found(arrived, m)
    <2>1. PICK i \in 1 .. n : given[i].source # None /\ x = given[i].source
        BY Zenon DEF Found
    <2>2. PICK j \in 1 .. m : given[i] = arrived[j]
        BY <1>1
    <2> QED
        BY <2>1, <2>2 DEF Found
<1>4. ASSUME NEW x \in AttemptsIn(given) PROVE x \in AttemptsIn(arrived)
    <2>1. PICK i \in 1 .. n : x = given[i].attempt
        BY <1>2, Zenon DEF AttemptsIn
    <2>2. PICK j \in 1 .. m : given[i] = arrived[j]
        BY <1>1
    <2> QED
        BY <1>2, <2>1, <2>2, Zenon DEF AttemptsIn
<1> QED
    BY <1>3, <1>4

LEMMA OrderIsAlike ==
    ASSUME NEW given, NEW n \in Nat, NEW name, NEW arrived, NEW m \in Nat, NEW other, NEW answer,
           AnswersOf(given, n, name, answer), AnswersOf(arrived, m, other, answer),
           Named(name, n, other, m), Named(other, m, name, n)
    PROVE  /\ AttemptsIn(given) = AttemptsIn(arrived)
           /\ Range(SourcesIn(given)) = Range(SourcesIn(arrived))
           /\ Distinct(SourcesIn(given)) /\ Distinct(SourcesIn(arrived))
<1>1. Found(given, n) \subseteq Found(arrived, m) /\ AttemptsIn(given) \subseteq AttemptsIn(arrived)
    BY AnswersWithin
<1>2. Found(arrived, m) \subseteq Found(given, n) /\ AttemptsIn(arrived) \subseteq AttemptsIn(given)
    BY AnswersWithin
<1>3. OneEach(given, n) /\ OneEach(arrived, m) /\ Len(given) = n /\ Len(arrived) = m
    BY AnswersAreOneEach DEF AnswersOf
<1>4. Lists(SourcesIn(given), Found(given, n)) /\ Lists(SourcesIn(arrived), Found(arrived, m))
    BY <1>3, SourcesListed
<1> QED
    BY <1>1, <1>2, <1>4 DEF Lists

LEMMA AnyOrderHolds ==
    ASSUME EvidenceInv
    PROVE  AnyOrder
<1> DEFINE n == Len(Retrievers)
           m == Len(settled)
           other == [i \in 1 .. m |-> settled[i][1]]
           answer == [id \in Ids |-> AnswerOf(id)]
           arrived == [i \in 1 .. m |-> Answered(settled[i][1], settled[i][2])]
<1>1. SUFFICES ASSUME gathered # None
               PROVE  Resolution = assembleInternal(InputOf(dispute, SourcesIn(Evaluated(arrived))),
                                                    AttemptsIn(Evaluated(arrived)))
    <2>1. DOMAIN settled = 1 .. m
        BY LenProperties DEF EvidenceInv
    <2> QED
        BY <1>1, <2>1 DEF AnyOrder, Returned
<1>2. n \in Nat /\ DOMAIN Retrievers = 1 .. n
    BY RetrieversAssumption, LenProperties
<1>3. m \in Nat /\ DOMAIN settled = 1 .. m
    BY LenProperties DEF EvidenceInv
<1>4. Waiting = {} /\ gathered = [sources |-> SourcesIn(results), attempts |-> AttemptsIn(results)]
    BY <1>1 DEF EvidenceInv
<1>5. \A i \in 1 .. m : other[i] = settled[i][1]
    OBVIOUS
<1>6. \A i, j \in 1 .. m : other[i] = other[j] => i = j
    BY <1>3, <1>5 DEF EvidenceInv
<1>7. ASSUME NEW i \in 1 .. m PROVE settled[i][2] = answer[other[i]]
    <2>1. settled[i][1] \in Ids
        BY <1>3 DEF EvidenceInv
    <2>2. \A j \in 1 .. m : settled[j][1] = settled[i][1] => j = i
        BY <1>5, <1>6
    <2>3. (CHOOSE j \in 1 .. m : settled[j][1] = settled[i][1]) = i
        BY <2>2
    <2>4. AnswerOf(settled[i][1]) = settled[i][2]
        BY <1>3, <2>3 DEF AnswerOf
    <2> QED
        BY <1>5, <2>1, <2>4
<1>8. Len(results) = n /\ DOMAIN results = 1 .. n
    <2>1. results = [i \in 1 .. n |-> results[i]]
        BY DEF results
    <2> QED
        BY <1>2, <2>1, ListIs
<1>9. \A i \in 1 .. n : results[i] = Answered(Retrievers[i], answer[Retrievers[i]])
    BY <1>2 DEF results, Ids, Range
<1>10. \A i, j \in 1 .. n : Retrievers[i] = Retrievers[j] => i = j
    BY <1>2, RetrieversAssumption
<1>11. ASSUME NEW i \in 1 .. n PROVE \E j \in 1 .. m : other[j] = Retrievers[i]
    <2>1. Retrievers[i] \in Ids
        BY <1>2 DEF Ids, Range
    <2>2. Retrievers[i] \in {settled[j][1] : j \in 1 .. m}
        BY <1>3, <1>4, <2>1 DEF Waiting
    <2> QED
        BY <1>5, <2>2
<1>12. \A j \in 1 .. m : \E i \in 1 .. n : Retrievers[i] = other[j]
    BY <1>2, <1>3, <1>5 DEF EvidenceInv, Ids, Range
<1>13. Len(arrived) = m /\ DOMAIN arrived = 1 .. m /\ Evaluated(arrived) = arrived
    <2>1. arrived = [i \in 1 .. m |-> arrived[i]]
        OBVIOUS
    <2> HIDE DEF arrived
    <2> QED
        BY <1>3, <2>1, ListIs
<1>14. \A i \in 1 .. m : arrived[i] = Answered(other[i], answer[other[i]])
    BY <1>5, <1>7
<1> HIDE DEF n, m, other, answer, arrived
<1>15. /\ AttemptsIn(results) = AttemptsIn(arrived)
       /\ Range(SourcesIn(results)) = Range(SourcesIn(arrived))
       /\ Distinct(SourcesIn(results)) /\ Distinct(SourcesIn(arrived))
    <2>1. AnswersOf(results, n, Retrievers, answer) /\ AnswersOf(arrived, m, other, answer)
        BY ONLY <1>6, <1>8, <1>9, <1>10, <1>13, <1>14 DEF AnswersOf
    <2>2. Named(Retrievers, n, other, m) /\ Named(other, m, Retrievers, n)
        BY ONLY <1>11, <1>12 DEF Named
    <2> QED
        BY ONLY <1>2, <1>3, <2>1, <2>2, OrderIsAlike
<1>16. Alike(InputOf(dispute, SourcesIn(results)), InputOf(dispute, SourcesIn(arrived)))
    BY ONLY <1>15 DEF Alike, InputOf
<1>17. Resolution = assembleInternal(InputOf(dispute, SourcesIn(results)), AttemptsIn(results))
    BY ONLY <1>4 DEF Resolution
<1> QED
    BY ONLY <1>13, <1>15, <1>16, <1>17, ResolutionsAlike

LEMMA EvidenceUnchanged ==
    ASSUME EvidenceInv, UNCHANGED evidenceVars
    PROVE  EvidenceInv'
BY DEF EvidenceInv, evidenceVars, Waiting, results, AnswerOf

LEMMA SettleKeeps ==
    ASSUME EvidenceInv, NEW id \in Ids, Settle(id)
    PROVE  EvidenceInv'
<1>1. PICK answer \in Cases[dispute].offers[id] : settled' = Append(settled, <<id, answer>>)
    BY DEF Settle
<1> DEFINE e == <<id, answer>>
           m == Len(settled)
           more == Range(settled) \cup {e}
<1>2. settled \in Seq(Range(settled)) /\ dispute \in DOMAIN Cases
    BY DEF EvidenceInv
<1>3. m \in Nat /\ DOMAIN settled = 1 .. m /\ settled \in Seq(more)
    BY <1>2, LenProperties
<1>4. e \in more
    OBVIOUS
<1>5. /\ settled' \in Seq(more) /\ Len(settled') = m + 1
      /\ \A i \in 1 .. m : settled'[i] = settled[i]
      /\ settled'[m + 1] = e
    BY ONLY <1>1, <1>3, <1>4, AppendProperties
<1>6. DOMAIN settled' = 1 .. m + 1
    BY ONLY <1>5, LenProperties
<1>7. e[1] = id /\ e[2] = answer /\ e = <<e[1], e[2]>>
    OBVIOUS
<1>8. id \in Waiting /\ dispute' = dispute /\ gathered' = gathered
    BY DEF Settle
<1>9. gathered' = None
    BY <1>8 DEF EvidenceInv
<1>10. settled' \in Seq(Range(settled'))
    <2>1. settled' = [i \in 1 .. m + 1 |-> settled'[i]]
        BY ONLY <1>5, <1>6, SeqDef
    <2> QED
        BY <1>3, <2>1, ListIs
<1>11. \A i \in 1 .. m : settled[i][1] # id
    BY <1>3, <1>8 DEF Waiting
<1> HIDE DEF e, m, more
<1>12. \A i \in DOMAIN settled' : settled'[i][1] \in Ids /\ settled'[i][2] \in Cases[dispute].offers[settled'[i][1]]
    BY <1>3, <1>5, <1>6, <1>7 DEF EvidenceInv
<1>13. ASSUME NEW i \in DOMAIN settled', NEW j \in DOMAIN settled', settled'[i][1] = settled'[j][1] PROVE i = j
    <2>1. CASE i \in 1 .. m /\ j \in 1 .. m
        BY <1>3, <1>5, <1>13, <2>1 DEF EvidenceInv
    <2>2. CASE i = m + 1 /\ j \in 1 .. m
        BY <1>5, <1>7, <1>11, <1>13, <2>2
    <2>3. CASE i \in 1 .. m /\ j = m + 1
        BY <1>5, <1>7, <1>11, <1>13, <2>3
    <2> QED
        BY <1>3, <1>6, <2>1, <2>2, <2>3
<1> QED
    BY <1>2, <1>8, <1>9, <1>10, <1>12, <1>13 DEF EvidenceInv

LEMMA ResolveKeeps ==
    ASSUME EvidenceInv, resolveAp2DisputeEvidence
    PROVE  EvidenceInv'
<1>1. UNCHANGED <<dispute, settled>> /\ Waiting = {}
    BY DEF resolveAp2DisputeEvidence
<1>2. Waiting' = Waiting /\ results' = results
    BY <1>1 DEF Waiting, results, AnswerOf
<1>3. gathered' = [sources |-> SourcesIn(results'), attempts |-> AttemptsIn(results')]
    BY <1>2 DEF resolveAp2DisputeEvidence
<1> QED
    BY <1>1, <1>2, <1>3 DEF EvidenceInv

LEMMA EvidenceStep ==
    ASSUME EvidenceInv, [Next]_vars
    PROVE  EvidenceInv'
<1>1. CASE \E id \in Ids : Settle(id)
    BY <1>1, SettleKeeps
<1>2. CASE resolveAp2DisputeEvidence
    BY <1>2, ResolveKeeps
<1>3. CASE Pack \/ Travel \/ Review \/ UNCHANGED vars
    BY <1>3, EvidenceUnchanged DEF Pack, Travel, Review, vars, evidenceVars
<1> QED
    BY <1>1, <1>2, <1>3 DEF Next

\* AnyOrder: whatever order the retrievers settle in, the resolution is the one
\* of their answers in that order (Promise.all over the sorted retrievers).
THEOREM ResolutionInAnyOrder == Spec => []AnyOrder
<1>1. Init => EvidenceInv
    BY DEF Init, EvidenceInit, EvidenceInv
<1>2. EvidenceInv /\ [Next]_vars => EvidenceInv'
    BY EvidenceStep
<1>3. EvidenceInv => AnyOrder
    BY AnyOrderHolds
<1> QED
    BY <1>1, <1>2, <1>3, PTL DEF Spec

----------------------------------------------------------------------------
(* Only the retained pack.                                                   *)
\* A pack whose digest is that of the rest of it.
Sealed(pack) ==
    /\ DOMAIN pack = PackFields /\ pack = [name \in PackFields |-> pack[name]]
    /\ pack.packDigest = Digest(packMaterial(pack))

LEMMA SameDigestSamePack ==
    ASSUME NEW p, Sealed(p), NEW q, Sealed(q), p.packDigest = q.packDigest
    PROVE  p = q
<1> DEFINE rest == PackFields \ {"packDigest"}
           f == [name \in rest |-> p[name]]
           g == [name \in rest |-> q[name]]
<1>1. Digest(packMaterial(p)) = Digest(packMaterial(q))
    BY DEF Sealed
<1>2. packMaterial(p) = packMaterial(q)
    BY <1>1 DEF Digest
<1>3. packMaterial(p) = <<"pack", f>> /\ packMaterial(q) = <<"pack", g>>
    <2>1. DOMAIN p = PackFields /\ DOMAIN q = PackFields
        BY DEF Sealed
    <2> QED
        BY ONLY <2>1 DEF packMaterial
<1>4. \A name \in rest : f[name] = p[name] /\ g[name] = q[name]
    OBVIOUS
<1> HIDE DEF f, g
<1>5. \A name \in rest : p[name] = q[name]
    <2>1. f = packMaterial(p)[2] /\ g = packMaterial(q)[2]
        BY ONLY <1>3
    <2> QED
        BY ONLY <1>2, <1>4, <2>1
<1>6. p["packDigest"] = q["packDigest"]
    OBVIOUS
<1>7. \A name \in PackFields : p[name] = q[name]
    BY <1>5, <1>6
<1> QED
    BY <1>7 DEF Sealed

LEMMA ReportSays ==
    ASSUME NEW pack, NEW expected, NEW recomputed, NEW report, report = PackReport(pack, expected, recomputed)
    PROVE  /\ report.digestValid /\ report.anchorMatched =>
                  Sealed(pack) /\ expected = pack.packDigest
           /\ report.status = "verified" => report.digestValid /\ report.anchorMatched
<1>1. CASE ~assertPackShape(pack)
    <2>1. report = invalidPackReport
        BY ONLY <1>1, report = PackReport(pack, expected, recomputed) DEF PackReport
    <2> QED
        BY ONLY <2>1 DEF invalidPackReport
<1>2. CASE assertPackShape(pack)
    <2>1. /\ report.digestValid = (Digest(packMaterial(pack)) = pack.packDigest)
          /\ report.anchorMatched = (expected = pack.packDigest)
          /\ report.status = "verified" => Digest(packMaterial(pack)) = pack.packDigest /\ expected = pack.packDigest
        BY <1>2 DEF PackReport
    <2> QED
        BY <1>2, <2>1 DEF Sealed, assertPackShape
<1> QED
    BY <1>1, <1>2

LEMMA NothingToCompare ==
    ASSUME NEW report, ~(report.digestValid /\ report.anchorMatched)
    PROVE  Reconciled(report).summary = "not_comparable"
<1> DEFINE checks == reconcileVerifiedClaims(Undefined, Undefined)
<1>1. \A name : Field(Undefined, name) = Undefined
    BY DEF Field, IsObject, Undefined
<1>2. \A v : compareState(Undefined, v) = "not_comparable"
    BY DEF compareState, IsString, Undefined
<1>3. checks = [payee |-> "not_comparable", currency |-> "not_comparable", amount |-> "not_comparable"]
    BY ONLY <1>1, <1>2 DEF reconcileVerifiedClaims
<1> HIDE DEF checks
<1>4. Reconciled(report).summary =
          LET states == {checks.payee, checks.currency, checks.amount}
          IN  IF "mismatched" \in states THEN "inconsistent"
              ELSE IF states = {"matched"} THEN "consistent" ELSE "not_comparable"
    BY DEF Reconciled, checks
<1> QED
    BY <1>3, <1>4

\* A retained pack is sealed, and a review is of the copy at hand.
PackInv ==
    /\ held # None => Sealed(retained.pack)
    /\ review # None =>
          /\ held # None
          /\ review = [item |-> verifyAp2DisputeEvidencePacks(held, retained.pack.packDigest, retained.status),
                       reconciliation |-> reconcileAp2DisputeEvidencePack(held, retained.pack.packDigest)]

LEMMA PackedIsSealed ==
    ASSUME NEW input, NEW history, NEW createdAt, NEW pack,
           pack = packAp2DisputeEvidence(input, history, createdAt), pack # None
    PROVE  Sealed(pack)
<1> DEFINE sources == BySourceId(input.sources)
           material == [transactionId |-> input.transactionId, asOf |-> input.asOf, createdAt |-> createdAt,
                        plan |-> input.plan, sources |-> sources,
                        checkoutVersions |-> materializeCheckoutVersions(history.versions, sources, input.asOf),
                        revocations |-> materializeRevocations(history.revocations, sources, input.asOf)]
           d == Digest(packMaterial(material))
           sealing == [packDigest |-> d]
           rest == PackFields \ {"packDigest"}
<1>1. pack = Override(material, sealing)
    BY DEF packAp2DisputeEvidence
<1>2. DOMAIN material = rest /\ DOMAIN sealing = {"packDigest"} /\ sealing["packDigest"] = d
    BY DEF PackFields
<1> HIDE DEF material, sealing
<1>3. pack = [name \in {"packDigest"} \cup rest |-> IF name \in {"packDigest"} THEN sealing[name] ELSE material[name]]
    BY ONLY <1>1, <1>2 DEF Override
<1>4. {"packDigest"} \cup rest = PackFields
    BY DEF PackFields
<1>5. /\ DOMAIN pack = PackFields /\ pack = [name \in PackFields |-> pack[name]]
      /\ \A name \in rest : pack[name] = material[name]
      /\ pack["packDigest"] = d
    BY ONLY <1>2, <1>3, <1>4
<1>6. packMaterial(pack) = packMaterial(material)
    <2>1. DOMAIN pack \ {"packDigest"} = rest /\ DOMAIN material \ {"packDigest"} = rest
        BY ONLY <1>2, <1>5
    <2> QED
        BY ONLY <2>1, <1>5 DEF packMaterial
<1> QED
    BY <1>5, <1>6 DEF Sealed

LEMMA PackKeeps ==
    ASSUME PackInv, [Next]_vars
    PROVE  PackInv'
<1>1. CASE Pack
    <2>1. PICK history, createdAt : held' = packAp2DisputeEvidence(InputOf(dispute, gathered.sources), history, createdAt)
        BY <1>1 DEF Pack
    <2>2. held' # None /\ retained'.pack = held' /\ review' = review /\ held = None
        BY <1>1 DEF Pack
    <2>3. Sealed(held')
        BY <2>1, <2>2, PackedIsSealed
    <2>4. review' = None
        BY <2>2 DEF PackInv
    <2> QED
        BY <2>2, <2>3, <2>4 DEF PackInv
<1>2. CASE Travel
    BY <1>2 DEF Travel, PackInv
<1>3. CASE Review
    BY <1>3 DEF Review, PackInv
<1>4. CASE UNCHANGED packVars
    BY <1>4 DEF packVars, PackInv
<1> QED
    BY <1>1, <1>2, <1>3, <1>4 DEF Next, vars, packVars

LEMMA OnlyTheRetained ==
    ASSUME PackInv
    PROVE  OnlyTheRetainedPack
<1>1. SUFFICES ASSUME review # None, held # retained.pack
               PROVE  /\ review.item.status # "verified"
                      /\ retained.status = "verified" => review.item.statusChanged
                      /\ review.reconciliation.summary = "not_comparable"
    BY DEF OnlyTheRetainedPack
<1> DEFINE anchor == retained.pack.packDigest
           report == verifyAp2DisputeEvidencePack(held, anchor)
<1>2. /\ Sealed(retained.pack)
      /\ review.item = verifyAp2DisputeEvidencePacks(held, anchor, retained.status)
      /\ review.reconciliation = Reconciled(report)
    BY <1>1 DEF PackInv, reconcileAp2DisputeEvidencePack
<1>3. report = PackReport(held, anchor, assembleAp2DisputeEvidence(held))
    BY DEF verifyAp2DisputeEvidencePack
<1>4. report.digestValid /\ report.anchorMatched => Sealed(held) /\ anchor = held.packDigest
    BY <1>3, ReportSays
<1>5. ~(report.digestValid /\ report.anchorMatched)
    BY <1>1, <1>2, <1>4, SameDigestSamePack
<1>6. report.status # "verified"
    BY <1>3, <1>5, ReportSays
<1>7. review.reconciliation.summary = "not_comparable"
    BY <1>2, <1>5, NothingToCompare
<1> DEFINE status == IF report.packDigest = None THEN "invalid" ELSE report.status
<1>8. review.item = [report |-> report, status |-> status,
                     statusChanged |-> retained.status # None /\ status # retained.status]
    BY <1>2 DEF verifyAp2DisputeEvidencePacks
<1>9. status # "verified"
    BY <1>6
<1> HIDE DEF report, status
<1>10. review.item.status # "verified"
    BY ONLY <1>8, <1>9
<1>11. review.item.statusChanged = (retained.status # None /\ status # retained.status)
    BY ONLY <1>8
<1>12. ASSUME retained.status = "verified" PROVE review.item.statusChanged
    BY ONLY <1>9, <1>11, <1>12, RetrieversAssumption
<1> QED
    BY <1>7, <1>10, <1>12

\* OnlyTheRetainedPack: a copy that is not the retained pack is neither verified
\* nor reconciled, and the batch says that its status changed
\* (verifyAp2DisputeEvidencePack, reconcileAp2DisputeEvidencePack).
THEOREM OthersAreNotVerified == Spec => []OnlyTheRetainedPack
<1>1. Init => PackInv
    BY DEF Init, PackInv
<1>2. PackInv /\ [Next]_vars => PackInv'
    BY PackKeeps
<1>3. PackInv => OnlyTheRetainedPack
    BY OnlyTheRetained
<1> QED
    BY <1>1, <1>2, <1>3, PTL DEF Spec

----------------------------------------------------------------------------
(* Verdicts without an issue.                                                *)
Clean(issues) == \A code : upstreamIssue(code) \notin issues /\ eligibilityIssue(code) \notin issues

LEMMA EligibleIsClean ==
    ASSUME NEW value, NEW issues, finish(value, issues).evidenceEligible
    PROVE  Clean(issues) /\ finish(value, issues).value = value
<1>1. "upstream_validity" \notin Impacts(issues) /\ "evidence_eligibility" \notin Impacts(issues)
    BY Zenon DEF finish
<1>2. Clean(issues)
    BY <1>1 DEF Clean, Impacts, upstreamIssue, eligibilityIssue
<1> QED
    BY <1>1, <1>2 DEF finish

LEMMA CleanParts ==
    ASSUME NEW A, NEW B
    PROVE  Clean(A \cup B) <=> Clean(A) /\ Clean(B)
BY DEF Clean

LEMMA CleanMember ==
    ASSUME NEW S, Clean(UNION S), NEW A \in S
    PROVE  Clean(A)
BY DEF Clean

LEMMA CleanWhen ==
    ASSUME NEW condition, NEW code
    PROVE  /\ Clean(When(condition, upstreamIssue(code))) => ~condition
           /\ Clean(When(condition, eligibilityIssue(code))) => ~condition
BY DEF Clean, When

\* What a verdict without an issue says of a payload's expiry.
LEMMA CleanExpiry ==
    ASSUME NEW claims, NEW now, Clean(verifyExpiryClaims(claims, now))
    PROVE  Given(claims, "exp") /\ IsNumber(Field(claims, "exp")) /\ ~(now >= Field(claims, "exp")[2])
<1>1. Clean(When(~Given(claims, "exp"), eligibilityIssue("AP2_EXPIRY_MISSING")))
    BY CleanParts DEF verifyExpiryClaims
<1>2. Clean(When(Given(claims, "exp") /\ ((~IsNumber(Field(claims, "exp")) \/ Field(claims, "exp")[2] < 0)
                                          \/ now >= Field(claims, "exp")[2]),
                 upstreamIssue("AP2_TOKEN_EXPIRED")))
    BY CleanParts DEF verifyExpiryClaims
<1>3. Given(claims, "exp")
    BY <1>1, CleanWhen
<1> QED
    BY <1>2, <1>3, CleanWhen

LEMMA CleanCheckoutMandate ==
    ASSUME NEW claims, NEW options, options.expectedVct = CheckoutVct,
           Clean(verifyAp2ClosedMandateClaims(claims, options))
    PROVE  LET jwt  == Field(claims, "checkout_jwt")
               hash == Field(claims, "checkout_hash")
           IN  /\ IsString(jwt) /\ hash = Digest(jwt)
               /\ options.expectedCheckoutJwt # Undefined => jwt = options.expectedCheckoutJwt
               /\ options.expectedCheckoutHash # Undefined => hash = options.expectedCheckoutHash
<1> DEFINE jwt   == Field(claims, "checkout_jwt")
           hash  == Field(claims, "checkout_hash")
           bound == IsString(jwt) /\ IsString(hash)
<1>1. Clean(CheckoutBindingIssues(claims, options))
    BY CleanParts DEF verifyAp2ClosedMandateClaims
<1>2. /\ Clean(When(~bound, upstreamIssue("AP2_CHECKOUT_BINDING_MISSING")))
      /\ Clean(When(bound /\ hash # Digest(jwt), upstreamIssue("AP2_CHECKOUT_HASH_MISMATCH")))
      /\ Clean(When(bound /\ Differs(options.expectedCheckoutJwt, jwt), upstreamIssue("AP2_CHECKOUT_JWT_MISMATCH")))
      /\ Clean(When(bound /\ Differs(options.expectedCheckoutHash, hash),
                    upstreamIssue("AP2_EXPECTED_CHECKOUT_HASH_MISMATCH")))
    BY <1>1, CleanParts DEF CheckoutBindingIssues
<1> HIDE DEF jwt, hash
<1>3. bound
    BY <1>2, CleanWhen
<1>4. hash = Digest(jwt) /\ ~Differs(options.expectedCheckoutJwt, jwt) /\ ~Differs(options.expectedCheckoutHash, hash)
    BY <1>2, <1>3, CleanWhen
<1> QED
    BY <1>3, <1>4 DEF Differs, jwt, hash

LEMMA CleanPaymentMandate ==
    ASSUME NEW claims, NEW options, options.expectedVct = PaymentVct,
           Clean(verifyAp2ClosedMandateClaims(claims, options))
    PROVE  /\ IsString(Field(claims, "transaction_id"))
           /\ options.expectedCheckoutHash # Undefined => Field(claims, "transaction_id") = options.expectedCheckoutHash
<1>1. PaymentVct # CheckoutVct
    BY DEF PaymentVct, CheckoutVct
<1>2. /\ Clean(When(~PaymentSchemaHolds(claims), upstreamIssue("AP2_PAYMENT_MANDATE_SCHEMA_INVALID")))
      /\ Clean(When(Differs(options.expectedCheckoutHash, Field(claims, "transaction_id")),
                    upstreamIssue("AP2_PAYMENT_CHECKOUT_BINDING_MISMATCH")))
    BY <1>1, CleanParts DEF verifyAp2ClosedMandateClaims
<1>3. PaymentSchemaHolds(claims) /\ ~Differs(options.expectedCheckoutHash, Field(claims, "transaction_id"))
    BY <1>2, CleanWhen
<1> QED
    BY <1>3 DEF PaymentSchemaHolds, Differs

----------------------------------------------------------------------------
(* A mandate chain that is accepted.                                         *)
Resolved(segments) == [i \in 1 .. Len(segments) |-> Resolve(segments[i])]

ShownPayload(segment) == Payload(Resolve(segment))

\* What an eligible report on a chain says of it.
Accepted(token, options) ==
    LET segments == token[2]
        now      == Seconds(options.asOf)
    IN  /\ token[1] = "chain" /\ Len(segments) \in Nat \ {0} /\ DOMAIN segments = 1 .. Len(segments)
        /\ ChainAccepted(segments, Resolved(segments), options, options.allowedAlgorithms, now)
        /\ \A i \in 1 .. Len(segments) : Clean(verifyExpiryClaims(ShownPayload(segments[i]), now))
        /\ \A i \in 1 .. (Len(segments) - 1) :
              Clean(verifyAp2OpenInheritance(ShownPayload(segments[i]), ShownPayload(segments[Len(segments)]), options))
        /\ Clean(verifyAp2ClosedMandateClaims(ShownPayload(segments[Len(segments)]), options))

LEMMA ChainVerified ==
    ASSUME NEW token, token[1] = "chain" => token[2] \in Seq(Range(token[2])), NEW options,
           NEW report, report = verifyAp2MandateChain(token, options), report.evidenceEligible
    PROVE  Accepted(token, options) /\ report.value.claims = ShownPayload(token[2][Len(token[2])])
<1> DEFINE segments == token[2]
           n == Len(segments)
           now == Seconds(options.asOf)
           resolved == Resolutions(segments)
           allowed == options.allowedAlgorithms
           snapshot == checkKeySnapshot(options.issuerKeySnapshot, options.expectedIssuerKeySourceDigest, options.asOf)
           payloads == Evaluated([i \in DOMAIN segments |-> Payload(resolved[i])])
           opened   == {payloads[i] : i \in 1 .. (Len(segments) - 1)}
           root     == resolved[1].claims
           refused  == finish(None, snapshot \cup {upstreamIssue("AP2_MANDATE_CHAIN_INVALID")})
           issues   ==
            When(Given(root, "iss") /\ Field(root, "iss") # Str(options.expectedIssuer),
                 upstreamIssue("AP2_ISSUER_MISMATCH"))
            \cup (UNION {verifyExpiryClaims(payload, now) : payload \in Range(payloads)})
            \cup (UNION {verifyAp2OpenInheritance(open, Last(payloads), options) : open \in opened})
            \cup verifyAp2ClosedMandateClaims(Last(payloads), options)
           value == [claims |-> Last(payloads), chainDepth |-> Len(segments),
                     terminalCompactJws |-> Last(segments).jwt]
<1>1. report = IF ~ChainParses(token) \/ ~ChainAccepted(segments, resolved, options, allowed, now)
               THEN refused ELSE finish(value, snapshot \cup issues)
    BY Zenon DEF verifyAp2MandateChain, ChainReport
<1> HIDE DEF refused, issues, value, snapshot
<1>2. ~refused.evidenceEligible
    <2>1. ~Clean(snapshot \cup {upstreamIssue("AP2_MANDATE_CHAIN_INVALID")})
        BY DEF Clean
    <2> QED
        BY <2>1, EligibleIsClean DEF refused
<1>3. /\ ChainParses(token) /\ ChainAccepted(segments, resolved, options, allowed, now)
      /\ report = finish(value, snapshot \cup issues)
    BY ONLY <1>1, <1>2, report.evidenceEligible
<1>4. Clean(snapshot \cup issues) /\ report.value = value
    BY <1>3, EligibleIsClean
<1>5. token[1] = "chain" /\ segments # <<>> /\ segments \in Seq(Range(segments))
    BY <1>3 DEF ChainParses
<1>6. n \in Nat \ {0} /\ DOMAIN segments = 1 .. n
    BY ONLY <1>5, LenProperties, EmptySeq
<1>7. resolved = Resolved(segments)
    <2>1. Resolved(segments) = [i \in 1 .. n |-> Resolved(segments)[i]]
        BY DEF Resolved
    <2>2. Evaluated(Resolved(segments)) = Resolved(segments)
        BY ONLY <1>6, <2>1, ListIs
    <2> QED
        BY ONLY <1>6, <2>2 DEF Resolutions, Resolved
<1>8. /\ Len(payloads) = n /\ DOMAIN payloads = 1 .. n
      /\ \A i \in 1 .. n : payloads[i] = ShownPayload(segments[i])
    <2> DEFINE list == [i \in 1 .. n |-> Payload(resolved[i])]
    <2>1. list = [i \in 1 .. n |-> list[i]]
        OBVIOUS
    <2>2. payloads = Evaluated(list)
        BY ONLY <1>6
    <2>3. \A i \in 1 .. n : list[i] = ShownPayload(segments[i])
        BY ONLY <1>7 DEF Resolved, ShownPayload
    <2> HIDE DEF list, payloads
    <2>4. Len(list) = n /\ DOMAIN list = 1 .. n /\ Evaluated(list) = list
        BY ONLY <1>6, <2>1, ListIs
    <2> QED
        BY ONLY <2>2, <2>3, <2>4
<1> HIDE DEF payloads, resolved
<1>9. Last(payloads) = ShownPayload(segments[n])
    BY ONLY <1>6, <1>8 DEF Last
<1>10. Clean(issues)
    BY <1>4, CleanParts
<1> DEFINE expiries == {verifyExpiryClaims(payload, now) : payload \in Range(payloads)}
           inheritances == {verifyAp2OpenInheritance(open, Last(payloads), options) : open \in opened}
           inherited == UNION inheritances
           named == When(Given(root, "iss") /\ Field(root, "iss") # Str(options.expectedIssuer),
                         upstreamIssue("AP2_ISSUER_MISMATCH"))
           closing == verifyAp2ClosedMandateClaims(Last(payloads), options)
<1>11. Clean(UNION expiries) /\ Clean(inherited) /\ Clean(closing)
    <2>1. Clean(named \cup (UNION expiries) \cup inherited \cup closing)
        BY ONLY <1>10 DEF issues
    <2> HIDE DEF expiries, inherited, named, closing
    <2> QED
        BY ONLY <2>1, CleanParts
<1>12. ASSUME NEW i \in 1 .. n PROVE Clean(verifyExpiryClaims(ShownPayload(segments[i]), now))
    <2>1. ShownPayload(segments[i]) \in Range(payloads)
        BY ONLY <1>8, i \in 1 .. n DEF Range
    <2>2. verifyExpiryClaims(ShownPayload(segments[i]), now) \in expiries
        BY ONLY <2>1
    <2> HIDE DEF expiries
    <2> QED
        BY ONLY <1>11, <2>2, CleanMember
<1>13. report.value.claims = ShownPayload(segments[n])
    BY <1>4, <1>9 DEF value
<1>15. ASSUME NEW i \in 1 .. (n - 1)
       PROVE  Clean(verifyAp2OpenInheritance(ShownPayload(segments[i]), ShownPayload(segments[n]), options))
    <2>1. i \in 1 .. n
        BY ONLY <1>6, i \in 1 .. (n - 1)
    <2>2. ShownPayload(segments[i]) \in opened
        BY ONLY <1>8, <2>1, i \in 1 .. (n - 1)
    <2>3. verifyAp2OpenInheritance(ShownPayload(segments[i]), ShownPayload(segments[n]), options) \in inheritances
        BY ONLY <1>9, <2>2
    <2> HIDE DEF inheritances
    <2> QED
        BY ONLY <1>11, <2>3, CleanMember
<1> HIDE DEF segments, n, now
<1>14. Accepted(token, options)
    BY ONLY <1>3, <1>5, <1>6, <1>7, <1>9, <1>11, <1>12, <1>15 DEF Accepted, segments, n, now
<1> QED
    BY ONLY <1>13, <1>14 DEF segments, n

----------------------------------------------------------------------------
(* What is shown is what was signed.                                          *)
AtomsHold(shown, signed) == \A name : Atom(Field(shown, name)) => Field(signed, name) = Field(shown, name)

AsSigned(segment) ==
    /\ AtomsHold(Resolve(segment).claims, SignedClaims(segment))
    /\ AtomsHold(ShownPayload(segment), SignedPayload(segment))
    /\ \A outer : AtomsHold(Field(ShownPayload(segment), outer), Field(SignedPayload(segment), outer))
    /\ PayloadInPlace(ShownPayload(segment), SignedPayload(segment))

LEMMA AtomIsField ==
    ASSUME NEW o, NEW name, Atom(Field(o, name))
    PROVE  IsObject(o) /\ name \in DOMAIN o[2] /\ Field(o, name) = o[2][name]
BY DEF Atom, Field, Undefined

LEMMA AtomsFromSaid ==
    ASSUME NEW shown, NEW signed, IsObject(shown) => SaidBy(shown, signed)
    PROVE  AtomsHold(shown, signed)
<1>1. SUFFICES ASSUME NEW name, Atom(Field(shown, name)) PROVE Field(signed, name) = Field(shown, name)
    BY DEF AtomsHold
<1>2. IsObject(shown) /\ name \in DOMAIN shown[2] /\ Field(shown, name) = shown[2][name]
    BY <1>1, AtomIsField
<1> QED
    BY <1>1, <1>2 DEF SaidBy

LEMMA PayloadIsObject ==
    ASSUME NEW segment, ShownPayload(segment) # Undefined
    PROVE  IsObject(ShownPayload(segment))
BY DEF ShownPayload, Payload, effectiveDelegatePayload

LEMMA FieldOfObject ==
    ASSUME NEW o, NEW name, IsObject(Field(o, name))
    PROVE  IsObject(o) /\ name \in DOMAIN o[2] /\ Field(o, name) = o[2][name]
BY DEF IsObject, Field, Undefined

LEMMA AtomIsLeaf ==
    ASSUME NEW v, Atom(v)
    PROVE  ~IsObject(v) /\ ~IsArray(v)
BY DEF Atom, IsObject, IsArray

\* The strings and numbers of an object are the ones that were signed, at each depth.
LEMMA ObjectInPlace ==
    ASSUME NEW shown, NEW signed
    PROVE  /\ ItemInPlace(shown, signed)        => AtomsHold(shown, signed)
           /\ EntryInPlace(shown, signed)       => AtomsHold(shown, signed)
           /\ ConstraintInPlace(shown, signed)  => AtomsHold(shown, signed)
           /\ ConstraintsInPlace(shown, signed) => AtomsHold(shown, signed)
           /\ PayloadInPlace(shown, signed)     => AtomsHold(shown, signed)
<1>1. SUFFICES ASSUME NEW name, Atom(Field(shown, name)), Field(signed, name) # Field(shown, name)
               PROVE  /\ ~ItemInPlace(shown, signed) /\ ~EntryInPlace(shown, signed) /\ ~ConstraintInPlace(shown, signed)
                      /\ ~ConstraintsInPlace(shown, signed) /\ ~PayloadInPlace(shown, signed)
    BY DEF AtomsHold
<1> DEFINE v == Field(shown, name)
           w == Field(signed, name)
<1>2. IsObject(shown) /\ name \in DOMAIN shown[2] /\ v = shown[2][name]
    BY <1>1, AtomIsField
<1>3. ~IsObject(v) /\ ~IsArray(v)
    BY <1>1, AtomIsLeaf
<1> HIDE DEF v, w
<1>4. /\ ~LeafInPlace(v, w) /\ ~ItemsInPlace(v, w) /\ ~EntriesInPlace(v, w)
      /\ ~ConstraintInPlace(v, w) /\ ~ConstraintsInPlace(v, w)
    BY <1>1, <1>3 DEF InPlace, LeafInPlace, ItemsInPlace, EntriesInPlace, ConstraintInPlace, ConstraintsInPlace, v, w
<1>5. ~ItemInPlace(shown, signed)
    BY <1>2, <1>3, <1>4 DEF ItemInPlace, InPlace, v, w
<1>6. ~EntryInPlace(shown, signed)
    BY <1>2, <1>3, <1>4 DEF EntryInPlace, InPlace, v, w
<1>7. ~ConstraintInPlace(shown, signed)
    BY <1>2, <1>3, <1>4 DEF ConstraintInPlace, InPlace, v, w
<1>8. ~ConstraintsInPlace(shown, signed)
    BY <1>2, <1>3, <1>4 DEF ConstraintsInPlace, InPlace, v, w
<1>9. ~PayloadInPlace(shown, signed)
    BY <1>2, <1>3, <1>4 DEF PayloadInPlace, InPlace, v, w
<1> QED
    BY <1>5, <1>6, <1>7, <1>8, <1>9

LEMMA OfferedAsSigned ==
    ASSUME NEW artifact \in OfferedArtifacts, artifact.token[1] = "chain",
           NEW segment \in Range(artifact.token[2]), Resolve(segment).ok, ShownPayload(segment) # Undefined
    PROVE  AsSigned(segment)
<1> DEFINE shown == ShownPayload(segment)
           signed == SignedPayload(segment)
<1>1. artifact.token[2] \in ChainsOffered
    BY DEF ChainsOffered
<1>2. SaidBy(Resolve(segment).claims, SignedClaims(segment)) /\ PayloadInPlace(shown, signed)
    BY <1>1, ShownAsSigned DEF ShownPayload
<1>3. IsObject(shown)
    BY PayloadIsObject
<1> HIDE DEF shown, signed
<1>4. AtomsHold(Resolve(segment).claims, SignedClaims(segment)) /\ AtomsHold(shown, signed)
    BY <1>2, AtomsFromSaid, ObjectInPlace
<1>5. ASSUME NEW outer PROVE AtomsHold(Field(shown, outer), Field(signed, outer))
    <2>1. SUFFICES ASSUME NEW name, Atom(Field(Field(shown, outer), name))
                   PROVE  Field(Field(signed, outer), name) = Field(Field(shown, outer), name)
        BY DEF AtomsHold
    <2>2. IsObject(Field(shown, outer))
        BY <2>1, AtomIsField
    <2>3. outer \in DOMAIN shown[2] /\ Field(shown, outer) = shown[2][outer] /\ ~IsArray(shown[2][outer])
        BY <2>2, FieldOfObject DEF IsObject, IsArray
    <2>4. ConstraintsInPlace(Field(shown, outer), Field(signed, outer))
        BY <1>2, <1>3, <2>3 DEF PayloadInPlace, InPlace
    <2> QED
        BY <2>1, <2>4, ObjectInPlace DEF AtomsHold
<1> QED
    BY <1>2, <1>4, <1>5 DEF AsSigned, shown, signed

----------------------------------------------------------------------------
(* Delegation.                                                               *)
LEMMA RootOfAccepted ==
    ASSUME NEW token, NEW options, Accepted(token, options)
    PROVE  LET segments == token[2]
           IN  /\ 1 \in 1 .. Len(segments)
               /\ Resolved(segments)[1] = Resolve(segments[1])
               /\ RootAccepted(segments[1], Resolve(segments[1]), options, options.allowedAlgorithms, Seconds(options.asOf))
<1> DEFINE segments == token[2]
           n == Len(segments)
<1>1. n \in Nat \ {0}
    BY DEF Accepted
<1>2. ChainAccepted(segments, Resolved(segments), options, options.allowedAlgorithms, Seconds(options.asOf))
    BY DEF Accepted
<1>3. RootAccepted(segments[1], Resolved(segments)[1], options, options.allowedAlgorithms, Seconds(options.asOf))
    BY ONLY <1>2 DEF ChainAccepted
<1>4. 1 \in 1 .. n
    BY ONLY <1>1
<1>5. Resolved(segments)[1] = Resolve(segments[1])
    BY ONLY <1>4 DEF Resolved
<1> QED
    BY ONLY <1>3, <1>4, <1>5

\* What a hop of an accepted chain is signed with and bound to.
HopHolds(segments, i, options) ==
    LET signer == cnfJwkFromPayload(ShownPayload(segments[i - 1]))
        claims == Resolve(segments[i]).claims
    IN  /\ signer # None /\ segments[i].jwt.key = signer.point
        /\ Resolve(segments[i]).ok
        /\ BoundTo(claims, segments[i - 1])
        /\ i = Len(segments) => Field(claims, "nonce") = Str(options.expectedNonce)
        /\ ShownPayload(segments[i]) # Undefined
        /\ TimesHold(ShownPayload(segments[i]), Seconds(options.asOf))
        /\ CnfHolds(ShownPayload(segments[i]))
        /\ i = Len(segments) <=> cnfJwkFromPayload(ShownPayload(segments[i])) = None

LEMMA HopOfAccepted ==
    ASSUME NEW token, NEW options, Accepted(token, options), NEW i \in 2 .. Len(token[2])
    PROVE  HopHolds(token[2], i, options)
<1> DEFINE segments == token[2]
           n == Len(segments)
           resolved == Resolved(segments)
           allowed == options.allowedAlgorithms
           now == Seconds(options.asOf)
<1>1. n \in Nat \ {0} /\ ChainAccepted(segments, resolved, options, allowed, now)
    BY DEF Accepted
<1>2. n > 1 /\ i \in 1 .. n /\ i - 1 \in 1 .. n
    BY <1>1
<1>3. \A j \in 1 .. n : resolved[j] = Resolve(segments[j])
    BY DEF Resolved
<1> HIDE DEF resolved, allowed, now
<1>4. HopAccepted(segments, resolved, i, options, allowed, now)
    BY <1>1, <1>2 DEF ChainAccepted
<1>5. resolved[i] = Resolve(segments[i]) /\ resolved[i - 1] = Resolve(segments[i - 1])
    BY <1>2, <1>3
<1> DEFINE signer == cnfJwkFromPayload(ShownPayload(segments[i - 1]))
<1>6. /\ Payload(resolved[i]) = ShownPayload(segments[i])
      /\ Payload(resolved[i - 1]) = ShownPayload(segments[i - 1])
    BY ONLY <1>5 DEF ShownPayload
<1> HIDE DEF signer, segments, n
<1>7. /\ signer # None /\ verifyParsedJwtSignature(segments[i].jwt, signer, allowed, signer.kid, "key-binding")
      /\ Resolve(segments[i]).ok
      /\ BoundTo(Resolve(segments[i]).claims, segments[i - 1])
      /\ i = Len(segments) => Field(Resolve(segments[i]).claims, "nonce") = Str(options.expectedNonce)
      /\ ShownPayload(segments[i]) # Undefined
      /\ TimesHold(ShownPayload(segments[i]), now)
      /\ CnfHolds(ShownPayload(segments[i]))
      /\ i = Len(segments) <=> cnfJwkFromPayload(ShownPayload(segments[i])) = None
    BY ONLY <1>4, <1>5, <1>6 DEF HopAccepted, signer
<1>8. segments[i].jwt.key = signer.point
    BY ONLY <1>7 DEF verifyParsedJwtSignature
<1> QED
    BY ONLY <1>7, <1>8 DEF HopHolds, signer, segments, now

LEMMA AcceptedAsSigned ==
    ASSUME NEW artifact \in OfferedArtifacts, NEW token, token = artifact.token, NEW options, Accepted(token, options),
           NEW i \in 1 .. Len(token[2])
    PROVE  /\ AsSigned(token[2][i]) /\ CnfHolds(ShownPayload(token[2][i]))
           /\ TimesHold(ShownPayload(token[2][i]), Seconds(options.asOf))
<1> DEFINE segments == token[2]
<1>1. Len(segments) \in Nat \ {0} /\ DOMAIN segments = 1 .. Len(segments) /\ token[1] = "chain"
    BY DEF Accepted
<1>2. /\ Resolve(segments[i]).ok /\ ShownPayload(segments[i]) # Undefined
      /\ CnfHolds(ShownPayload(segments[i])) /\ TimesHold(ShownPayload(segments[i]), Seconds(options.asOf))
    <2>1. CASE i = 1
        BY <2>1, RootOfAccepted DEF RootAccepted, ShownPayload
    <2>2. CASE i # 1
        <3>1. i \in 2 .. Len(segments)
            BY <1>1, <2>2
        <3> QED
            BY <3>1, HopOfAccepted DEF HopHolds
    <2> QED
        BY <2>1, <2>2
<1>3. segments[i] \in Range(segments)
    BY <1>1 DEF Range
<1> QED
    BY <1>1, <1>2, <1>3, OfferedAsSigned

LEMMA ConfirmedAsSigned ==
    ASSUME NEW segment, AsSigned(segment), CnfHolds(ShownPayload(segment)),
           cnfJwkFromPayload(ShownPayload(segment)) # None
    PROVE  cnfJwkFromPayload(SignedPayload(segment)) = cnfJwkFromPayload(ShownPayload(segment))
<1> DEFINE shown == ShownPayload(segment)
           signed == SignedPayload(segment)
           jwk == Field(Field(shown, "cnf"), "jwk")
<1>1. Given(shown, "cnf") /\ cnfJwkFromPayload(shown) = jwk[2]
    BY DEF cnfJwkFromPayload
<1>2. jwk[1] = "jwk"
    BY <1>1 DEF CnfHolds
<1>3. Atom(jwk)
    BY ONLY <1>2 DEF Atom
<1>4. Field(Field(signed, "cnf"), "jwk") = jwk
    BY <1>3 DEF AsSigned, AtomsHold
<1> HIDE DEF shown, signed, jwk
<1>5. Field(signed, "cnf") # Undefined
    BY ONLY <1>3, <1>4 DEF Field, IsObject, Undefined, Atom
<1> QED
    BY ONLY <1>1, <1>4, <1>5 DEF cnfJwkFromPayload, Given, shown, signed

\* What DelegatedByConfirmedKeys says of one token.
Delegation(token, plan, asOf) ==
    LET segments == token[2]
        payload  == Evaluated([i \in DOMAIN segments |-> SignedPayload(segments[i])])
        Claim(i, name) == Field(SignedClaims(segments[i]), name)
    IN  /\ segments[1].jwt.key = plan.issuerKeySnapshot.jwk.point
        /\ \A i \in DOMAIN segments :
              Field(payload[i], "exp") # Undefined
              /\ Seconds(asOf) < Field(payload[i], "exp")[2]
        /\ \A i \in 2 .. Len(segments) :
              /\ segments[i].jwt.key = cnfJwkFromPayload(payload[i - 1]).point
              /\ \/ Claim(i, "sd_hash") = Digest(Presentation(segments[i - 1]))
                 \/ Claim(i, "issuer_jwt_hash") = Digest(Compact(segments[i - 1].jwt))
        /\ Len(segments) > 1 => Claim(Len(segments), "nonce") = Str(plan.expectedNonce)
        /\ cnfJwkFromPayload(Payload(Resolve(Last(segments)))) = None

\* A hop is bound to the one before by one of two hashes, as it was signed.
LEMMA BoundAsSigned ==
    ASSUME NEW segment, AsSigned(segment), NEW previous, BoundTo(Resolve(segment).claims, previous)
    PROVE  \/ Field(SignedClaims(segment), "sd_hash") = Digest(Presentation(previous))
           \/ Field(SignedClaims(segment), "issuer_jwt_hash") = Digest(Compact(previous.jwt))
<1> DEFINE claims == Resolve(segment).claims
<1>1. /\ Given(claims, "sd_hash") => Field(claims, "sd_hash") = Digest(Presentation(previous))
      /\ Given(claims, "issuer_jwt_hash") => Field(claims, "issuer_jwt_hash") = Digest(Compact(previous.jwt))
    BY DEF BoundTo
<1>2. Given(claims, "sd_hash") \/ Given(claims, "issuer_jwt_hash")
    <2>1. Cardinality({name \in {"sd_hash", "issuer_jwt_hash"} : Given(claims, name)}) = 1
        BY DEF BoundTo
    <2> HIDE DEF claims
    <2>2. SUFFICES ASSUME ~Given(claims, "sd_hash"), ~Given(claims, "issuer_jwt_hash") PROVE FALSE
        OBVIOUS
    <2>3. {name \in {"sd_hash", "issuer_jwt_hash"} : Given(claims, name)} = {}
        BY ONLY <2>2
    <2> QED
        BY ONLY <2>1, <2>3, FS_EmptySet
<1>3. \A term : Atom(Digest(term))
    BY DEF Atom, Digest
<1>4. AtomsHold(claims, SignedClaims(segment))
    BY DEF AsSigned
<1> HIDE DEF claims
<1> QED
    BY ONLY <1>1, <1>2, <1>3, <1>4 DEF AtomsHold

LEMMA ExpiryAsSigned ==
    ASSUME NEW segment, AsSigned(segment), NEW now,
           Clean(verifyExpiryClaims(ShownPayload(segment), now)), TimesHold(ShownPayload(segment), now)
    PROVE  Field(SignedPayload(segment), "exp") # Undefined /\ now < Field(SignedPayload(segment), "exp")[2]
<1> DEFINE shown == ShownPayload(segment)
<1>1. Given(shown, "exp") /\ IsNumber(Field(shown, "exp"))
    BY CleanExpiry
<1>2. now < Field(shown, "exp")[2]
    BY <1>1 DEF TimesHold
<1>3. Atom(Field(shown, "exp"))
    BY ONLY <1>1 DEF Atom, IsNumber
<1>4. Field(SignedPayload(segment), "exp") = Field(shown, "exp")
    BY <1>3 DEF AsSigned, AtomsHold
<1> QED
    BY <1>1, <1>2, <1>4 DEF Given

LEMMA AcceptedIsDelegated ==
    ASSUME NEW artifact \in OfferedArtifacts, NEW token, token = artifact.token, NEW options, Accepted(token, options),
           NEW plan, options.issuerKeySnapshot = plan.issuerKeySnapshot, options.expectedNonce = plan.expectedNonce
    PROVE  Delegation(token, plan, options.asOf)
<1> DEFINE segments == token[2]
           n == Len(segments)
           now == Seconds(options.asOf)
           list == [i \in 1 .. n |-> SignedPayload(segments[i])]
           payload == Evaluated(list)
<1>1. n \in Nat \ {0} /\ DOMAIN segments = 1 .. n
    BY DEF Accepted
<1>2. \A i \in 1 .. n : AsSigned(segments[i]) /\ CnfHolds(ShownPayload(segments[i])) /\ TimesHold(ShownPayload(segments[i]), now)
    BY AcceptedAsSigned
<1>3. \A i \in 1 .. n : Clean(verifyExpiryClaims(ShownPayload(segments[i]), now))
    BY DEF Accepted
<1>4. \A i \in 2 .. n : HopHolds(segments, i, options)
    BY HopOfAccepted
<1>5. payload = list /\ \A i \in 1 .. n : payload[i] = SignedPayload(segments[i])
    <2>1. list = [i \in 1 .. n |-> list[i]] /\ \A i \in 1 .. n : list[i] = SignedPayload(segments[i])
        OBVIOUS
    <2> HIDE DEF list
    <2> QED
        BY <1>1, <2>1, ListIs
<1>6. segments[1].jwt.key = plan.issuerKeySnapshot.jwk.point
    <2>1. RootAccepted(segments[1], Resolve(segments[1]), options, options.allowedAlgorithms, now)
        BY RootOfAccepted
    <2> QED
        BY <2>1 DEF RootAccepted, verifyParsedJwtSignature
<1>7. cnfJwkFromPayload(ShownPayload(segments[n])) = None
    <2>1. CASE n = 1
        <3>1. ChainAccepted(segments, Resolved(segments), options, options.allowedAlgorithms, now)
            BY DEF Accepted
        <3>2. cnfJwkFromPayload(Payload(Resolved(segments)[1])) = None
            BY <2>1, <3>1 DEF ChainAccepted
        <3>3. Resolved(segments)[1] = Resolve(segments[1])
            BY RootOfAccepted
        <3> QED
            BY <2>1, <3>2, <3>3 DEF ShownPayload
    <2>2. CASE n # 1
        <3>1. n \in 2 .. n
            <4>1. n \in Nat /\ n # 0 /\ n # 1
                BY <1>1, <2>2
            <4> HIDE DEF n
            <4> QED
                BY ONLY <4>1
        <3>2. HopHolds(segments, n, options)
            BY ONLY <1>4, <3>1
        <3> QED
            BY ONLY <3>2 DEF HopHolds
    <2> QED
        BY <2>1, <2>2
<1> HIDE DEF payload, list, segments, n, now
<1>8. ASSUME NEW i \in 1 .. n
      PROVE  Field(payload[i], "exp") # Undefined /\ now < Field(payload[i], "exp")[2]
    BY <1>2, <1>3, <1>5, ExpiryAsSigned
<1>9. ASSUME NEW i \in 2 .. n
      PROVE  /\ segments[i].jwt.key = cnfJwkFromPayload(payload[i - 1]).point
             /\ \/ Field(SignedClaims(segments[i]), "sd_hash") = Digest(Presentation(segments[i - 1]))
                \/ Field(SignedClaims(segments[i]), "issuer_jwt_hash") = Digest(Compact(segments[i - 1].jwt))
    <2>1. HopHolds(segments, i, options) /\ i \in 1 .. n /\ i - 1 \in 1 .. n
        BY <1>1, <1>4
    <2>2. BoundTo(Resolve(segments[i]).claims, segments[i - 1])
        BY <2>1 DEF HopHolds
    <2>3. /\ cnfJwkFromPayload(ShownPayload(segments[i - 1])) # None
          /\ segments[i].jwt.key = cnfJwkFromPayload(ShownPayload(segments[i - 1])).point
        BY <2>1 DEF HopHolds
    <2>4. cnfJwkFromPayload(SignedPayload(segments[i - 1])) = cnfJwkFromPayload(ShownPayload(segments[i - 1]))
        BY <1>2, <2>1, <2>3, ConfirmedAsSigned
    <2> QED
        BY <1>2, <1>5, <2>1, <2>2, <2>3, <2>4, BoundAsSigned
<1>10. ASSUME n > 1
       PROVE  Field(SignedClaims(segments[n]), "nonce") = Str(plan.expectedNonce)
    <2>1. n \in 2 .. n /\ n \in 1 .. n
        BY <1>1, <1>10
    <2>2. Field(Resolve(segments[n]).claims, "nonce") = Str(options.expectedNonce)
        BY <1>4, <2>1 DEF HopHolds, n
    <2>3. Atom(Field(Resolve(segments[n]).claims, "nonce"))
        BY <2>2 DEF Atom, Str
    <2> QED
        BY <1>2, <2>1, <2>2, <2>3 DEF AsSigned, AtomsHold
<1>11. cnfJwkFromPayload(Payload(Resolve(Last(segments)))) = None
    BY <1>7 DEF ShownPayload, Last, n
<1> QED
    BY ONLY <1>1, <1>6, <1>8, <1>9, <1>10, <1>11, Zenon DEF Delegation, segments, n, now, payload, list

----------------------------------------------------------------------------
(* What is chosen.                                                           *)
GivenIn(sources) == UNION {Range(source.artifacts) : source \in Range(sources)}

LEMMA JudgedIs ==
    ASSUME NEW kind, NEW candidate, NEW report, Judged(kind, candidate, report).chosen # None
    PROVE  /\ candidate.chosen # None /\ report.evidenceEligible
           /\ Judged(kind, candidate, report).chosen.token = candidate.chosen.token
           /\ Judged(kind, candidate, report).chosen.value = report.value
<1>1. candidate.chosen # None
    BY DEF Judged
<1>2. report.upstreamValid /\ report.evidenceEligible
    BY <1>1 DEF Judged, Nothing
<1>3. Judged(kind, candidate, report).chosen =
          [value |-> report.value, token |-> candidate.chosen.token, sourceRefs |-> candidate.chosen.sourceRefs]
    BY <1>1, <1>2 DEF Judged
<1> QED
    BY <1>1, <1>2, <1>3

LEMMA CandidateIsGiven ==
    ASSUME NEW input, NEW c \in Candidates(input)
    PROVE  \E artifact \in GivenIn(input.sources) : artifact.kind = c.kind /\ artifact.token = c.token
<1>1. PICK source \in Range(input.sources) : c \in {Candidate(artifact, source) : artifact \in Admitted(source, input.asOf)}
    BY Zenon DEF Candidates
<1>2. PICK artifact \in Admitted(source, input.asOf) : c = Candidate(artifact, source)
    BY <1>1
<1>3. artifact \in Range(source.artifacts)
    BY <1>2 DEF Admitted
<1>4. artifact \in GivenIn(input.sources)
    BY ONLY <1>1, <1>3 DEF GivenIn
<1> QED
    BY <1>2, <1>4 DEF Candidate

LEMMA SoleIs ==
    ASSUME NEW kind, NEW input, Sole(kind, input).chosen # None
    PROVE  /\ \E artifact \in GivenIn(input.sources) :
                 artifact.kind = kind /\ artifact.token = Sole(kind, input).chosen.token
           /\ \A c \in Candidates(input) : c.kind = kind => c.token = Sole(kind, input).chosen.token
<1> DEFINE candidates == Candidates(input)
           matching == {c \in candidates : c.kind = kind}
           tokens   == {c.token : c \in matching}
           sources  == {c.sourceId : c \in matching}
           token    == CHOOSE t \in tokens : TRUE
           none     == Nothing({makeIssue("AP2_DISPUTE_ARTIFACT_MISSING", kind, "missing", {})})
           several  == Nothing({makeIssue("AP2_DISPUTE_ARTIFACT_CONFLICT", kind, "conflicting", sources)})
           one      == [chosen |-> [token |-> token, sourceRefs |-> sources], issues |-> {}]
<1>1. Sole(kind, input) = IF matching = {} THEN none ELSE IF \E a, b \in tokens : a # b THEN several ELSE one
    BY Zenon DEF Sole, uniqueCandidate
<1>2. none.chosen = None /\ several.chosen = None /\ one.chosen.token = token
    BY DEF Nothing
<1> HIDE DEF none, several, one
<1>3. matching # {} /\ ~(\E a, b \in tokens : a # b) /\ Sole(kind, input).chosen.token = token
    BY ONLY <1>1, <1>2, Sole(kind, input).chosen # None
<1>4. token \in tokens /\ \A t \in tokens : t = token
    <2>1. tokens # {}
        BY ONLY <1>3
    <2> HIDE DEF tokens
    <2> QED
        BY ONLY <1>3, <2>1
<1> HIDE DEF token
<1>5. PICK c \in matching : token = c.token
    BY ONLY <1>4
<1>6. \E artifact \in GivenIn(input.sources) : artifact.kind = kind /\ artifact.token = token
    BY <1>5, CandidateIsGiven
<1>7. \A d \in candidates : d.kind = kind => d.token = token
    BY ONLY <1>4
<1> QED
    BY <1>3, <1>6, <1>7

PlanOf(kind, input) ==
    IF kind = "checkout_mandate" THEN input.plan.checkoutMandate ELSE input.plan.paymentMandate

\* The options of a mandate that safeMandateVerification makes of its plan.
OptionsOf(kind, input, openHash) ==
    Override(PlanOf(kind, input),
             [expectedVct |-> IF kind = "checkout_mandate" THEN CheckoutVct ELSE PaymentVct,
              expectedCheckoutHash |-> input.transactionId, asOf |-> input.asOf,
              expectedOpenCheckoutHash |-> IF openHash = Undefined THEN PlanOf(kind, input).expectedOpenCheckoutHash
                                           ELSE openHash])

LEMMA OptionsAre ==
    ASSUME NEW kind, NEW input, NEW openHash, PlanHolds(PlanOf(kind, input)),
           NEW options, options = OptionsOf(kind, input, openHash)
    PROVE  /\ options.expectedVct = (IF kind = "checkout_mandate" THEN CheckoutVct ELSE PaymentVct)
           /\ options.expectedCheckoutHash = input.transactionId /\ options.asOf = input.asOf
           /\ options.issuerKeySnapshot = PlanOf(kind, input).issuerKeySnapshot
           /\ options.expectedNonce = PlanOf(kind, input).expectedNonce
           /\ options.expectedCheckoutJwt = PlanOf(kind, input).expectedCheckoutJwt
           /\ options.expectedOpenCheckoutHash = (IF openHash = Undefined THEN PlanOf(kind, input).expectedOpenCheckoutHash
                                                  ELSE openHash)
<1> DEFINE plan == PlanOf(kind, input)
           own == [expectedVct |-> IF kind = "checkout_mandate" THEN CheckoutVct ELSE PaymentVct,
                   expectedCheckoutHash |-> input.transactionId, asOf |-> input.asOf,
                   expectedOpenCheckoutHash |-> IF openHash = Undefined THEN plan.expectedOpenCheckoutHash ELSE openHash]
           names == {"expectedVct", "expectedCheckoutHash", "asOf", "expectedOpenCheckoutHash"}
<1>1. /\ DOMAIN own = names
      /\ own["expectedVct"] = (IF kind = "checkout_mandate" THEN CheckoutVct ELSE PaymentVct)
      /\ own["expectedCheckoutHash"] = input.transactionId
      /\ own["asOf"] = input.asOf
      /\ own["expectedOpenCheckoutHash"] = (IF openHash = Undefined THEN plan.expectedOpenCheckoutHash ELSE openHash)
    OBVIOUS
<1>2. options = Override(plan, own)
    BY DEF OptionsOf
<1>3. {"issuerKeySnapshot", "expectedNonce", "expectedCheckoutJwt"} \subseteq DOMAIN plan
    BY DEF PlanHolds
<1> HIDE DEF plan, own
<1>4. options = [name \in names \cup DOMAIN plan |-> IF name \in names THEN own[name] ELSE plan[name]]
    BY ONLY <1>1, <1>2 DEF Override
<1>5. \A name \in names : options[name] = own[name]
    BY ONLY <1>4
<1>6. \A name \in {"issuerKeySnapshot", "expectedNonce", "expectedCheckoutJwt"} : options[name] = plan[name]
    BY ONLY <1>3, <1>4
<1> QED
    BY <1>1, <1>5, <1>6 DEF plan

Offered(input) == GivenIn(input.sources) \subseteq OfferedArtifacts

\* A mandate that is chosen: one that was offered, and was verified.
MandateIs(kind, input, openHash, chosen) ==
    /\ Sole(kind, input).chosen # None /\ chosen.token = Sole(kind, input).chosen.token
    /\ \E artifact \in GivenIn(input.sources) :
          artifact.kind = kind /\ artifact.token = chosen.token
    /\ Accepted(chosen.token, OptionsOf(kind, input, openHash))
    /\ chosen.value.claims = ShownPayload(chosen.token[2][Len(chosen.token[2])])

LEMMA MandateChosen ==
    ASSUME NEW kind, NEW input, NEW openHash, Offered(input),
           NEW selection, selection = selectMandate(kind, Sole(kind, input), input, openHash), selection.chosen # None
    PROVE  MandateIs(kind, input, openHash, selection.chosen)
<1> DEFINE candidate == Sole(kind, input)
           token == candidate.chosen.token
           options == OptionsOf(kind, input, openHash)
           report == verifyAp2MandateChain(token, options)
<1>1. selection = Judged(kind, candidate, report)
    BY DEF selectMandate, safeMandateVerification, OptionsOf, PlanOf
<1> HIDE DEF report
<1>2. /\ candidate.chosen # None /\ report.evidenceEligible
      /\ selection.chosen.token = token /\ selection.chosen.value = report.value
    BY <1>1, JudgedIs
<1>3. PICK artifact \in GivenIn(input.sources) : artifact.kind = kind /\ artifact.token = token
    BY <1>2, SoleIs
<1>4. artifact \in OfferedArtifacts
    BY <1>3 DEF Offered
<1>5. token[1] = "chain" => token[2] \in Seq(Range(token[2]))
    BY <1>3, <1>4, OffersAssumption
<1>6. Accepted(token, options) /\ report.value.claims = ShownPayload(token[2][Len(token[2])])
    BY <1>2, <1>5, ChainVerified DEF report
<1> HIDE DEF candidate, options
<1> QED
    BY ONLY <1>2, <1>3, <1>6 DEF MandateIs, candidate, options

----------------------------------------------------------------------------
(* What the resolver returns.                                                 *)
LEMMA OfferedSource ==
    ASSUME dispute \in DOMAIN Cases, NEW id \in Ids, NEW answer \in Cases[dispute].offers[id],
           Answered(id, answer).source # None
    PROVE  Range(Answered(id, answer).source.artifacts) \subseteq OfferedArtifacts
<1> DEFINE offers == Cases[dispute].offers
           answers == UNION {UNION Range(Cases[d].offers) : d \in DOMAIN Cases}
<1>1. answer # Null /\ answer # Rejected /\ Answered(id, answer).source.artifacts = answer[3]
    BY DEF Answered
<1>2. DOMAIN offers = Ids /\ answer[1] = "response"
    BY <1>1, OffersAssumption
<1>3. offers[id] \in Range(offers)
    BY <1>2 DEF Range
<1>4. answer \in UNION Range(offers)
    BY <1>3
<1>5. answer \in answers
    BY ONLY <1>4, dispute \in DOMAIN Cases
<1> HIDE DEF answers, offers
<1>6. answer \in {a \in answers : a[1] = "response"}
    BY ONLY <1>2, <1>5
<1>7. Range(answer[3]) \in {Range(response[3]) : response \in {a \in answers : a[1] = "response"}}
    BY ONLY <1>6
<1>8. OfferedArtifacts = UNION {Range(response[3]) : response \in {a \in answers : a[1] = "response"}}
    BY Zenon DEF OfferedArtifacts, answers
<1>9. Range(answer[3]) \subseteq OfferedArtifacts
    BY ONLY <1>7, <1>8
<1> QED
    BY <1>1, <1>9

LEMMA ResultsAre ==
    ASSUME EvidenceInv, Waiting = {}
    PROVE  /\ Lists(SourcesIn(results), Found(results, Len(Retrievers)))
           /\ \A i \in 1 .. Len(Retrievers) :
                 /\ Retrievers[i] \in Ids /\ results[i] = Answered(Retrievers[i], AnswerOf(Retrievers[i]))
                 /\ AnswerOf(Retrievers[i]) \in Cases[dispute].offers[Retrievers[i]]
<1> DEFINE n == Len(Retrievers)
<1>1. n \in Nat /\ DOMAIN Retrievers = 1 .. n
    BY RetrieversAssumption, LenProperties
<1>2. Len(results) = n /\ DOMAIN results = 1 .. n
    <2>1. results = [i \in 1 .. n |-> results[i]]
        BY DEF results
    <2> QED
        BY <1>1, <2>1, ListIs
<1>3. \A i \in 1 .. n : results[i] = Answered(Retrievers[i], AnswerOf(Retrievers[i])) /\ Retrievers[i] \in Ids
    BY <1>1 DEF results, Ids, Range
<1>4. OneEach(results, n)
    <2>1. SUFFICES ASSUME NEW i \in 1 .. n, NEW j \in 1 .. n,
                          results[i].source # None, results[j].source # None,
                          results[i].source.sourceId = results[j].source.sourceId
                   PROVE  i = j
        BY DEF OneEach
    <2>2. results[i].source.sourceId = Retrievers[i] /\ results[j].source.sourceId = Retrievers[j]
        BY <1>3, <2>1, AnsweredBy
    <2> QED
        BY <1>1, <2>1, <2>2, RetrieversAssumption
<1>5. ASSUME NEW i \in 1 .. n PROVE AnswerOf(Retrievers[i]) \in Cases[dispute].offers[Retrievers[i]]
    <2> DEFINE id == Retrievers[i]
               chosen == CHOOSE j \in DOMAIN settled : settled[j][1] = id
    <2>1. id \in Ids
        BY <1>3
    <2>2. id \in {settled[j][1] : j \in DOMAIN settled}
        BY <2>1 DEF Waiting
    <2>3. chosen \in DOMAIN settled /\ settled[chosen][1] = id
        BY <2>2
    <2>4. AnswerOf(id) = settled[chosen][2]
        BY DEF AnswerOf
    <2> HIDE DEF chosen
    <2> QED
        BY <2>3, <2>4 DEF EvidenceInv
<1>6. Lists(SourcesIn(results), Found(results, n))
    BY <1>1, <1>2, <1>4, SourcesListed
<1> QED
    BY <1>3, <1>5, <1>6

LEMMA GatheredIsOffered ==
    ASSUME EvidenceInv, gathered # None
    PROVE  Offered(InputOf(dispute, gathered.sources)) /\ Distinct(gathered.sources)
           /\ gathered.sources \in Seq(Range(gathered.sources))
           /\ \A source \in Range(gathered.sources) : source.sourceId \in Ids
<1> DEFINE n == Len(Retrievers)
<1>1. Waiting = {} /\ gathered.sources = SourcesIn(results) /\ dispute \in DOMAIN Cases
    BY DEF EvidenceInv
<1>2. Lists(gathered.sources, Found(results, n))
    BY <1>1, ResultsAre
<1>3. ASSUME NEW source \in Range(gathered.sources)
      PROVE  Range(source.artifacts) \subseteq OfferedArtifacts /\ source.sourceId \in Ids
    <2>1. source \in Found(results, n)
        BY <1>2 DEF Lists
    <2>2. PICK i \in 1 .. n : results[i].source # None /\ source = results[i].source
        BY ONLY <2>1, Zenon DEF Found
    <2> DEFINE id == Retrievers[i]
    <2>3. id \in Ids /\ results[i] = Answered(id, AnswerOf(id)) /\ AnswerOf(id) \in Cases[dispute].offers[id]
        BY <1>1, ResultsAre
    <2> HIDE DEF id
    <2> QED
        BY <1>1, <2>2, <2>3, OfferedSource, AnsweredBy
<1>4. \A source \in Range(InputOf(dispute, gathered.sources).sources) : Range(source.artifacts) \subseteq OfferedArtifacts
    BY <1>3 DEF InputOf
<1>5. Offered(InputOf(dispute, gathered.sources))
    BY ONLY <1>4 DEF Offered, GivenIn
<1> QED
    BY <1>2, <1>3, <1>5 DEF Lists

LEMMA SelectionIs ==
    ASSUME NEW kind \in DOMAIN Selection,
           NEW input, input = InputOf(dispute, gathered.sources)
    PROVE  /\ gathered # None /\ kind \in AP2_DISPUTE_ARTIFACT_KINDS
           /\ SelectionsOf(input)[kind].chosen # None
           /\ Selection[kind] = SelectionsOf(input)[kind].chosen
<1> DEFINE selections == SelectionsOf(input)
           selected == [k \in {j \in AP2_DISPUTE_ARTIFACT_KINDS : selections[j].chosen # None} |-> selections[k].chosen]
<1>1. DOMAIN <<>> = {}
    OBVIOUS
<1>2. Returned /\ Resolution # Thrown /\ Selection = Resolution.selected
    BY <1>1 DEF Selection
<1>3. Resolution = Concluded(input, gathered.attempts, selections, JwtOf(input))
    BY Assembled DEF Resolution
<1> HIDE DEF selections
<1>4. Resolution.selected = selected
    BY ONLY <1>2, <1>3 DEF Concluded
<1> QED
    BY <1>2, <1>4 DEF Returned, selections

\* Whether a kind is among the selected is the same for all that is selected.
LEMMA SelectionDomain ==
    ASSUME NEW kind \in DOMAIN Selection, NEW input, input = InputOf(dispute, gathered.sources)
    PROVE  "checkout_mandate" \in DOMAIN Selection <=> CheckoutMandateOf(input).chosen # None
<1> DEFINE selections == SelectionsOf(input)
           selected == [k \in {j \in AP2_DISPUTE_ARTIFACT_KINDS : selections[j].chosen # None} |-> selections[k].chosen]
<1>1. DOMAIN <<>> = {}
    OBVIOUS
<1>2. Returned /\ Resolution # Thrown /\ Selection = Resolution.selected
    BY <1>1 DEF Selection
<1>3. Resolution = Concluded(input, gathered.attempts, selections, JwtOf(input))
    BY Assembled DEF Resolution
<1>4. selections["checkout_mandate"] = CheckoutMandateOf(input)
    BY DEF SelectionsOf
<1> HIDE DEF selections
<1>5. Resolution.selected = selected
    BY ONLY <1>2, <1>3 DEF Concluded
<1> QED
    BY <1>2, <1>4, <1>5 DEF AP2_DISPUTE_ARTIFACT_KINDS

OpenHashFor(kind, input) ==
    IF kind = "checkout_mandate" THEN Undefined ELSE OpenHashOf(CheckoutMandateOf(input))

LEMMA SelectedIsAccepted ==
    ASSUME EvidenceInv, NEW kind \in Mandates \cap DOMAIN Selection,
           NEW input, input = InputOf(dispute, gathered.sources)
    PROVE  /\ input.asOf = Cases[dispute].asOf /\ PlanOf(kind, input) = PlanFor(kind) /\ PlanHolds(PlanOf(kind, input))
           /\ \E artifact \in OfferedArtifacts : artifact.token = Selection[kind].token
           /\ Accepted(Selection[kind].token, OptionsOf(kind, input, OpenHashFor(kind, input)))
<1> DEFINE openHash == OpenHashFor(kind, input)
           selection == selectMandate(kind, Sole(kind, input), input, openHash)
<1>1. kind \in {"checkout_mandate", "payment_mandate"} /\ dispute \in DOMAIN Cases
    BY DEF Mandates, EvidenceInv
<1>2. /\ input.asOf = Cases[dispute].asOf /\ PlanOf(kind, input) = PlanFor(kind) /\ PlanHolds(PlanOf(kind, input))
    BY <1>1, OffersAssumption DEF InputOf, PlanOf, PlanFor
<1>3. gathered # None /\ SelectionsOf(input)[kind].chosen # None /\ Selection[kind] = SelectionsOf(input)[kind].chosen
    BY SelectionIs
<1>4. SelectionsOf(input)[kind] = selection
    BY <1>1 DEF SelectionsOf, CheckoutMandateOf, PaymentMandateOf, OpenHashFor
<1>5. Offered(input)
    BY <1>3, GatheredIsOffered
<1> HIDE DEF selection, openHash
<1>6. MandateIs(kind, input, openHash, selection.chosen)
    BY <1>3, <1>4, <1>5, MandateChosen DEF selection
<1>7. PICK artifact \in GivenIn(input.sources) : artifact.token = selection.chosen.token
    BY <1>6 DEF MandateIs
<1>8. artifact \in OfferedArtifacts /\ Accepted(selection.chosen.token, OptionsOf(kind, input, openHash))
    BY <1>5, <1>6, <1>7 DEF MandateIs, Offered
<1> QED
    BY <1>2, <1>3, <1>4, <1>7, <1>8 DEF openHash

LEMMA DelegatedHolds ==
    ASSUME EvidenceInv
    PROVE  DelegatedByConfirmedKeys
<1>1. SUFFICES ASSUME NEW kind \in Mandates \cap DOMAIN Selection
               PROVE  Delegation(Selection[kind].token, PlanFor(kind), Cases[dispute].asOf)
    BY Zenon DEF DelegatedByConfirmedKeys, Delegation
<1> DEFINE input == InputOf(dispute, gathered.sources)
           options == OptionsOf(kind, input, OpenHashFor(kind, input))
           token == Selection[kind].token
<1>2. /\ input.asOf = Cases[dispute].asOf /\ PlanOf(kind, input) = PlanFor(kind) /\ PlanHolds(PlanOf(kind, input))
      /\ \E artifact \in OfferedArtifacts : artifact.token = token
      /\ Accepted(token, options)
    BY SelectedIsAccepted
<1> HIDE DEF input, token
<1>3. /\ options.asOf = input.asOf /\ options.issuerKeySnapshot = PlanOf(kind, input).issuerKeySnapshot
      /\ options.expectedNonce = PlanOf(kind, input).expectedNonce
    BY <1>2, OptionsAre
<1> HIDE DEF options
<1>4. Delegation(token, PlanOf(kind, input), options.asOf)
    BY <1>2, <1>3, AcceptedIsDelegated
<1> QED
    BY <1>2, <1>3, <1>4 DEF token

\* DelegatedByConfirmedKeys: of whatever mandate the resolver selects, each segment
\* is signed by the key that the one before it confirms, names what it follows and
\* has not expired (verifyAp2MandateChain).
THEOREM SelectedIsDelegated == Spec => []DelegatedByConfirmedKeys
<1>1. Init => EvidenceInv
    BY DEF Init, EvidenceInit, EvidenceInv
<1>2. EvidenceInv /\ [Next]_vars => EvidenceInv'
    BY EvidenceStep
<1>3. EvidenceInv => DelegatedByConfirmedKeys
    BY DelegatedHolds
<1> QED
    BY <1>1, <1>2, <1>3, PTL DEF Spec

----------------------------------------------------------------------------
(* One transaction.                                                          *)
\* What a resolution is evidence_verified for.
Complete(input, attempts) ==
    /\ \A kind \in AP2_DISPUTE_ARTIFACT_KINDS : SelectionsOf(input)[kind].chosen # None
    /\ JwtOf(input).chosen # None
    /\ CollectIssues(input) = {} /\ RetrievalIssues(attempts) = {}

LEMMA VerifiedIsComplete ==
    ASSUME NEW input, NEW attempts, NEW resolution, resolution = assembleInternal(input, attempts),
           resolution.status = "evidence_verified"
    PROVE  /\ Complete(input, attempts)
           /\ resolution.checkoutJwt = JwtOf(input).chosen
           /\ resolution.selected["payment_mandate"] = PaymentMandateOf(input).chosen
<1> DEFINE selections == SelectionsOf(input)
           jwt == JwtOf(input)
           selected == [kind \in {k \in AP2_DISPUTE_ARTIFACT_KINDS : selections[k].chosen # None} |->
                           selections[kind].chosen]
           others == UNION {selections[kind].issues : kind \in AP2_DISPUTE_ARTIFACT_KINDS}
           issues == CollectIssues(input) \cup RetrievalIssues(attempts) \cup jwt.issues \cup others
           verdict == IF /\ DOMAIN selected = AP2_DISPUTE_ARTIFACT_KINDS /\ jwt.chosen # None /\ issues = {}
                      THEN "evidence_verified" ELSE "unresolved"
           returned == [status |-> verdict, selected |-> selected, checkoutJwt |-> jwt.chosen,
                        attempts |-> attempts, issues |-> issues]
<1>1. resolution = IF ~Collectable(input.sources) THEN Thrown ELSE returned
    BY Assembled, Zenon DEF Concluded
<1>2. /\ returned.status = verdict /\ returned.selected = selected /\ returned.checkoutJwt = jwt.chosen
      /\ Thrown.status # "evidence_verified"
    BY DEF Thrown
<1> HIDE DEF returned
<1>3. resolution = returned /\ verdict = "evidence_verified"
    BY ONLY <1>1, <1>2, resolution.status = "evidence_verified"
<1>4. DOMAIN selected = AP2_DISPUTE_ARTIFACT_KINDS /\ jwt.chosen # None /\ issues = {}
    BY ONLY <1>3
<1>5. CollectIssues(input) = {} /\ RetrievalIssues(attempts) = {}
    BY ONLY <1>4
<1>6. \A kind \in AP2_DISPUTE_ARTIFACT_KINDS : selections[kind].chosen # None
    BY ONLY <1>4
<1>7. selected["payment_mandate"] = selections["payment_mandate"].chosen
    BY <1>6 DEF AP2_DISPUTE_ARTIFACT_KINDS
<1>8. selections["payment_mandate"] = PaymentMandateOf(input)
    BY DEF SelectionsOf
<1> HIDE DEF selected, selections, jwt
<1> QED
    BY <1>2, <1>3, <1>4, <1>5, <1>6, <1>7, <1>8 DEF Complete, selections, jwt

LEMMA NoRetrievalIssue ==
    ASSUME NEW attempts, RetrievalIssues(attempts) = {}, NEW attempt \in attempts
    PROVE  attempt.status = "provided"
<1>1. SUFFICES ASSUME attempt.status # "provided" PROVE FALSE
    OBVIOUS
<1>2. attempt \in {a \in attempts : a.status # "provided"}
    BY <1>1
<1> QED
    BY <1>2 DEF RetrievalIssues

LEMMA NoCollectIssue ==
    ASSUME NEW input, CollectIssues(input) = {}, NEW artifact \in GivenIn(input.sources)
    PROVE  \E c \in Candidates(input) : c.kind = artifact.kind /\ c.token = artifact.token
<1> DEFINE NamedBy(code, source) == makeIssue(code, source.sourceId, "invalid", {source.sourceId})
           sources == Range(input.sources)
           late == {s \in sources : ~OnTime(s, input.asOf)}
           strange == {s \in sources : \E a \in Range(s.artifacts) : ~InRole(s, a)}
<1>1. PICK source \in sources : artifact \in Range(source.artifacts)
    BY DEF GivenIn
<1>2. CollectIssues(input) = {NamedBy("AP2_DISPUTE_RETRIEVAL_TIME_INVALID", s) : s \in late}
                             \cup {NamedBy("AP2_DISPUTE_SOURCE_ROLE_INVALID", s) : s \in strange}
    BY Zenon DEF CollectIssues
<1> HIDE DEF late, strange, NamedBy
<1>3. late = {} /\ strange = {}
    BY ONLY <1>2, CollectIssues(input) = {}
<1>4. OnTime(source, input.asOf)
    BY ONLY <1>1, <1>3 DEF late
<1>5. InRole(source, artifact)
    BY ONLY <1>1, <1>3 DEF strange
<1>6. artifact \in Admitted(source, input.asOf)
    BY <1>1, <1>4, <1>5 DEF Admitted
<1>7. Candidate(artifact, source) \in {Candidate(a, source) : a \in Admitted(source, input.asOf)}
    BY <1>6
<1>8. Candidate(artifact, source) \in Candidates(input)
    BY ONLY <1>1, <1>7 DEF Candidates
<1>9. Candidate(artifact, source).kind = artifact.kind /\ Candidate(artifact, source).token = artifact.token
    BY DEF Candidate
<1> QED
    BY <1>8, <1>9

LEMMA SelectionsHaveSole ==
    ASSUME NEW input, NEW kind \in AP2_DISPUTE_ARTIFACT_KINDS, SelectionsOf(input)[kind].chosen # None
    PROVE  Sole(kind, input).chosen # None /\ SelectionsOf(input)[kind].chosen.token = Sole(kind, input).chosen.token
<1>1. \A candidate, report, k : Judged(k, candidate, report).chosen # None =>
          candidate.chosen # None /\ Judged(k, candidate, report).chosen.token = candidate.chosen.token
    BY JudgedIs
<1>2. \A k, candidate, openHash : selectMandate(k, candidate, input, openHash).chosen # None =>
          /\ candidate.chosen # None
          /\ selectMandate(k, candidate, input, openHash).chosen.token = candidate.chosen.token
    BY <1>1, Zenon DEF selectMandate
<1>3. \A k, candidate, mandate : selectReceipt(k, candidate, mandate, input).chosen # None =>
          /\ candidate.chosen # None
          /\ selectReceipt(k, candidate, mandate, input).chosen.token = candidate.chosen.token
    BY <1>1, Zenon DEF selectReceipt
<1> DEFINE selection == SelectionsOf(input)[kind]
<1>4. CASE kind \in {"checkout_mandate", "payment_mandate"}
    <2>1. \E openHash : selection = selectMandate(kind, Sole(kind, input), input, openHash)
        BY <1>4 DEF SelectionsOf, CheckoutMandateOf, PaymentMandateOf
    <2> HIDE DEF selection
    <2>2. selection.chosen # None => /\ Sole(kind, input).chosen # None
                                     /\ selection.chosen.token = Sole(kind, input).chosen.token
        BY ONLY <1>2, <2>1
    <2> QED
        BY <2>2 DEF selection
<1>5. CASE kind \in {"checkout_receipt", "payment_receipt"}
    <2>1. \E mandate : selection = selectReceipt(kind, Sole(kind, input), mandate, input)
        BY <1>5 DEF SelectionsOf
    <2> HIDE DEF selection
    <2>2. selection.chosen # None => /\ Sole(kind, input).chosen # None
                                     /\ selection.chosen.token = Sole(kind, input).chosen.token
        BY ONLY <1>3, <2>1
    <2> QED
        BY <2>2 DEF selection
<1> QED
    BY <1>4, <1>5 DEF AP2_DISPUTE_ARTIFACT_KINDS

\* Of a complete resolution, the sources have one token of each kind, the chosen one.
LEMMA CompleteHasOneOfEach ==
    ASSUME NEW input, Offered(input), NEW attempts, Complete(input, attempts)
    PROVE  /\ \A a, b \in GivenIn(input.sources) : a.kind = b.kind => a.token = b.token
           /\ \A kind \in AP2_DISPUTE_ARTIFACT_KINDS :
                 TokenIn(input.sources, kind) = SelectionsOf(input)[kind].chosen.token
<1> DEFINE given == GivenIn(input.sources)
           Only(kind) == Sole(kind, input).chosen.token
<1>1. \A kind \in AP2_DISPUTE_ARTIFACT_KINDS :
          Sole(kind, input).chosen # None /\ SelectionsOf(input)[kind].chosen.token = Only(kind)
    BY SelectionsHaveSole DEF Complete
<1>2. ASSUME NEW a \in given PROVE a.kind \in AP2_DISPUTE_ARTIFACT_KINDS /\ a.token = Only(a.kind)
    <2>1. a.kind \in AP2_DISPUTE_ARTIFACT_KINDS
        BY OffersAssumption DEF Offered
    <2>2. PICK c \in Candidates(input) : c.kind = a.kind /\ c.token = a.token
        BY NoCollectIssue DEF Complete
    <2> QED
        BY <1>1, <2>1, <2>2, SoleIs
<1>3. ASSUME NEW kind \in AP2_DISPUTE_ARTIFACT_KINDS PROVE TokenIn(input.sources, kind) = Only(kind)
    <2> DEFINE found == CHOOSE artifact \in given : artifact.kind = kind
    <2>1. \E artifact \in given : artifact.kind = kind
        BY <1>1, SoleIs
    <2>2. found \in given /\ found.kind = kind
        BY <2>1
    <2>3. TokenIn(input.sources, kind) = found.token
        BY DEF TokenIn, GivenIn
    <2> QED
        BY <1>2, <2>2, <2>3
<1> HIDE DEF given, Only
<1>4. \A a, b \in given : a.kind = b.kind => a.token = b.token
    BY ONLY <1>2
<1> QED
    BY <1>1, <1>3, <1>4 DEF given

\* A mandate whose closed claims were accepted, as they were signed.
LEMMA ClosedAsSigned ==
    ASSUME NEW kind, NEW input, Offered(input), NEW openHash, NEW chosen, MandateIs(kind, input, openHash, chosen)
    PROVE  /\ Closed(chosen.token) = SignedPayload(chosen.token[2][Len(chosen.token[2])])
           /\ AtomsHold(chosen.value.claims, Closed(chosen.token))
           /\ \A outer : AtomsHold(Field(chosen.value.claims, outer), Field(Closed(chosen.token), outer))
           /\ Clean(verifyAp2ClosedMandateClaims(chosen.value.claims, OptionsOf(kind, input, openHash)))
<1> DEFINE token == chosen.token
           options == OptionsOf(kind, input, openHash)
           n == Len(token[2])
<1>1. PICK artifact \in GivenIn(input.sources) : artifact.token = token
    BY DEF MandateIs
<1>2. artifact \in OfferedArtifacts /\ Accepted(token, options)
    BY <1>1 DEF MandateIs, Offered
<1>3. n \in 1 .. n
    BY <1>2 DEF Accepted
<1>4. AsSigned(token[2][n])
    BY <1>1, <1>2, <1>3, AcceptedAsSigned
<1>5. chosen.value.claims = ShownPayload(token[2][n])
    BY DEF MandateIs
<1>6. Clean(verifyAp2ClosedMandateClaims(ShownPayload(token[2][n]), options))
    BY <1>2 DEF Accepted
<1> QED
    BY <1>4, <1>5, <1>6 DEF AsSigned, Closed, Last

LEMMA StringIsAtom ==
    ASSUME NEW v, IsString(v)
    PROVE  Atom(v)
BY DEF IsString, Atom

\* The mandates of a complete resolution.
LEMMA CompleteMandates ==
    ASSUME NEW input, Offered(input), NEW attempts, Complete(input, attempts)
    PROVE  /\ MandateIs("checkout_mandate", input, Undefined, CheckoutMandateOf(input).chosen)
           /\ MandateIs("payment_mandate", input, OpenHashOf(CheckoutMandateOf(input)), PaymentMandateOf(input).chosen)
<1>1. /\ SelectionsOf(input)["checkout_mandate"] = CheckoutMandateOf(input)
      /\ SelectionsOf(input)["payment_mandate"] = PaymentMandateOf(input)
    BY DEF SelectionsOf
<1>2. CheckoutMandateOf(input).chosen # None /\ PaymentMandateOf(input).chosen # None
    BY <1>1 DEF Complete, AP2_DISPUTE_ARTIFACT_KINDS
<1>3. \A kind, openHash : LET selection == selectMandate(kind, Sole(kind, input), input, openHash)
                          IN  selection.chosen # None => MandateIs(kind, input, openHash, selection.chosen)
    BY MandateChosen
<1> QED
    BY ONLY <1>2, <1>3 DEF CheckoutMandateOf, PaymentMandateOf

\* The Checkout JWT and the transaction, as the two mandates were signed for them.
LEMMA CheckoutAsSigned ==
    ASSUME NEW input, Offered(input), input.transactionId # Undefined, PlanHolds(input.plan.checkoutMandate),
           NEW chosen, MandateIs("checkout_mandate", input, Undefined, chosen)
    PROVE  LET checkout == Field(Closed(chosen.token), "checkout_jwt")
           IN  /\ checkout = Field(chosen.value.claims, "checkout_jwt")
               /\ Digest(checkout) = input.transactionId
               /\ input.plan.checkoutMandate.expectedCheckoutJwt # Undefined =>
                     checkout = input.plan.checkoutMandate.expectedCheckoutJwt
<1> DEFINE claims == chosen.value.claims
           options == OptionsOf("checkout_mandate", input, Undefined)
<1>1. AtomsHold(claims, Closed(chosen.token)) /\ Clean(verifyAp2ClosedMandateClaims(claims, options))
    BY ClosedAsSigned
<1>2. /\ options.expectedVct = CheckoutVct /\ options.expectedCheckoutHash = input.transactionId
      /\ options.expectedCheckoutJwt = input.plan.checkoutMandate.expectedCheckoutJwt
    BY OptionsAre DEF PlanOf
<1> HIDE DEF claims, options
<1> DEFINE jwt == Field(claims, "checkout_jwt")
           hash == Field(claims, "checkout_hash")
<1>3. /\ IsString(jwt) /\ hash = Digest(jwt)
      /\ options.expectedCheckoutJwt # Undefined => jwt = options.expectedCheckoutJwt
      /\ options.expectedCheckoutHash # Undefined => hash = options.expectedCheckoutHash
    BY <1>1, <1>2, CleanCheckoutMandate
<1>4. Field(Closed(chosen.token), "checkout_jwt") = jwt
    BY <1>1, <1>3, StringIsAtom DEF AtomsHold
<1> QED
    BY <1>2, <1>3, <1>4 DEF claims

LEMMA PaymentAsSigned ==
    ASSUME NEW input, Offered(input), input.transactionId # Undefined, PlanHolds(input.plan.paymentMandate),
           NEW openHash, NEW chosen, MandateIs("payment_mandate", input, openHash, chosen)
    PROVE  Field(Closed(chosen.token), "transaction_id") = input.transactionId
<1> DEFINE claims == chosen.value.claims
           options == OptionsOf("payment_mandate", input, openHash)
<1>1. AtomsHold(claims, Closed(chosen.token)) /\ Clean(verifyAp2ClosedMandateClaims(claims, options))
    BY ClosedAsSigned
<1>2. options.expectedVct = PaymentVct /\ options.expectedCheckoutHash = input.transactionId
    BY OptionsAre DEF PlanOf
<1> HIDE DEF claims, options
<1>3. /\ IsString(Field(claims, "transaction_id"))
      /\ Field(claims, "transaction_id") = input.transactionId
    BY <1>1, <1>2, CleanPaymentMandate
<1> QED
    BY <1>1, <1>3, StringIsAtom DEF AtomsHold

LEMMA ReceiptVerified ==
    ASSUME NEW token, NEW kind, NEW plan, NEW mandate, NEW asOf,
           verifyAp2Receipt(token, kind, plan, mandate, asOf).evidenceEligible
    PROVE  mandate # None /\ Field(token[2].claims, "reference") = computeAp2MandateReference(mandate)
<1> DEFINE jwt       == token[2]
           now       == Seconds(asOf)
           reference == Field(jwt.claims, "reference")
           snapshot  == checkKeySnapshot(plan.issuerKeySnapshot, plan.expectedIssuerKeySourceDigest, asOf)
           signature == When(~SignedUnder(jwt, plan.issuerKeySnapshot, plan.allowedAlgorithms),
                             upstreamIssue("AP2_RECEIPT_SIGNATURE_INVALID"))
           issuer    == When(Field(jwt.claims, "iss") # Str(plan.expectedIssuer),
                             upstreamIssue("AP2_RECEIPT_ISSUER_MISMATCH"))
           anchored  == When(mandate = None, eligibilityIssue("AP2_RECEIPT_REFERENCE_UNANCHORED"))
           referring == When(mandate # None /\ reference # computeAp2MandateReference(mandate),
                             upstreamIssue("AP2_RECEIPT_REFERENCE_MISMATCH"))
           value     == [claims |-> jwt.claims, reference |-> reference]
           report    == verifyAp2Receipt(token, kind, plan, mandate, asOf)
           unread    == finish(None, {upstreamIssue("AP2_RECEIPT_INVALID")})
           broken    == finish(None, snapshot \cup signature \cup {upstreamIssue("AP2_RECEIPT_CLAIMS_INVALID")})
           judged    == finish(value, snapshot \cup signature \cup issuer \cup anchored \cup referring)
<1>1. report = IF token[1] # "compact" THEN unread
               ELSE IF ~validateReceiptClaims(jwt.claims, kind, now) THEN broken ELSE judged
    BY Zenon DEF verifyAp2Receipt
<1> HIDE DEF snapshot, signature, issuer, anchored, referring, value, report
<1>2. ~unread.evidenceEligible /\ ~broken.evidenceEligible
    <2>1. ~Clean({upstreamIssue("AP2_RECEIPT_INVALID")})
        BY DEF Clean
    <2>2. ~Clean(snapshot \cup signature \cup {upstreamIssue("AP2_RECEIPT_CLAIMS_INVALID")})
        BY DEF Clean
    <2> QED
        BY <2>1, <2>2, EligibleIsClean
<1>3. report.evidenceEligible
    BY DEF report
<1> HIDE DEF unread, broken, judged
<1>4. report = judged
    BY ONLY <1>1, <1>2, <1>3
<1>5. Clean(snapshot \cup signature \cup issuer \cup anchored \cup referring)
    BY <1>3, <1>4, EligibleIsClean DEF judged
<1>6. Clean(anchored) /\ Clean(referring)
    BY ONLY <1>5, CleanParts
<1>7. mandate # None
    BY <1>6, CleanWhen DEF anchored
<1> QED
    BY <1>6, <1>7, CleanWhen DEF referring

LEMMA CheckoutJwtVerified ==
    ASSUME NEW token, NEW plan, NEW asOf, verifyAp2CheckoutJwt(token, plan, asOf).evidenceEligible
    PROVE  /\ token[1] = "compact" /\ token[2].key = plan.merchantKeySnapshot.jwk.point
           /\ verifyAp2CheckoutJwt(token, plan, asOf).value.claims = token[2].claims
           /\ validateAp2CheckoutClaims(token[2].claims)
<1> DEFINE jwt      == token[2]
           snapshot == checkKeySnapshot(plan.merchantKeySnapshot, plan.expectedMerchantKeySourceDigest, asOf)
           signed   == SignedUnder(jwt, plan.merchantKeySnapshot, plan.allowedAlgorithms)
           signature == When(~signed, upstreamIssue("AP2_CHECKOUT_JWT_SIGNATURE_INVALID"))
           issuer   == When(plan.expectedIssuer # None /\ Field(jwt.claims, "iss") # Str(plan.expectedIssuer),
                            upstreamIssue("AP2_CHECKOUT_JWT_ISSUER_MISMATCH"))
           timely   == When(~TimesHold(jwt.claims, Seconds(asOf)), upstreamIssue("AP2_CHECKOUT_JWT_TIME_INVALID"))
           valid    == validateAp2CheckoutClaims(jwt.claims)
           shaped   == When(~valid, upstreamIssue("AP2_CHECKOUT_SCHEMA_INVALID"))
           value    == [claims |-> jwt.claims]
           report   == verifyAp2CheckoutJwt(token, plan, asOf)
           unread   == finish(None, {upstreamIssue("AP2_CHECKOUT_JWT_INVALID")})
           judged   == finish(value, snapshot \cup signature \cup issuer \cup timely \cup shaped)
<1>1. report = IF token[1] # "compact" THEN unread ELSE judged
    BY Zenon DEF verifyAp2CheckoutJwt
<1> HIDE DEF snapshot, signature, issuer, timely, shaped, value, report, valid, signed
<1>2. ~unread.evidenceEligible
    <2>1. ~Clean({upstreamIssue("AP2_CHECKOUT_JWT_INVALID")})
        BY DEF Clean
    <2> QED
        BY <2>1, EligibleIsClean
<1>3. report.evidenceEligible
    BY DEF report
<1> HIDE DEF unread, judged
<1>4. report = judged /\ token[1] = "compact"
    BY ONLY <1>1, <1>2, <1>3
<1>5. Clean(snapshot \cup signature \cup issuer \cup timely \cup shaped) /\ report.value = value
    BY <1>3, <1>4, EligibleIsClean DEF judged
<1>6. Clean(signature) /\ Clean(shaped)
    BY ONLY <1>5, CleanParts
<1>7. signed /\ valid
    BY <1>6, CleanWhen DEF signature, shaped
<1>8. jwt.key = plan.merchantKeySnapshot.jwk.point
    BY <1>7 DEF signed, SignedUnder, verifyParsedJwtSignature
<1>9. report.value.claims = jwt.claims
    BY <1>5 DEF value
<1> QED
    BY <1>4, <1>7, <1>8, <1>9 DEF report, valid

LEMMA JwtIs ==
    ASSUME NEW input, JwtOf(input).chosen # None
    PROVE  LET token == Field(CheckoutMandateOf(input).chosen.value.claims, "checkout_jwt")
           IN  /\ token[1] = "compact" /\ token[2].key = input.plan.checkoutJwt.merchantKeySnapshot.jwk.point
               /\ JwtOf(input).chosen.value.claims = token[2].claims
               /\ validateAp2CheckoutClaims(token[2].claims)
<1> DEFINE mandate == CheckoutMandateOf(input)
           token == Field(mandate.chosen.value.claims, "checkout_jwt")
           candidate == [chosen |-> [token |-> token, sourceRefs |-> mandate.chosen.sourceRefs], issues |-> {}]
           report == verifyAp2CheckoutJwt(token, input.plan.checkoutJwt, input.asOf)
<1>1. JwtOf(input) = IF mandate.chosen = None THEN Nothing({}) ELSE Judged("checkout_jwt", candidate, report)
    BY DEF JwtOf, verifyEmbeddedCheckoutJwt
<1>2. Nothing({}).chosen = None
    BY DEF Nothing
<1> HIDE DEF mandate, token, candidate, report
<1>3. JwtOf(input) = Judged("checkout_jwt", candidate, report)
    BY ONLY <1>1, <1>2, JwtOf(input).chosen # None
<1>4. report.evidenceEligible /\ JwtOf(input).chosen.value = report.value
    BY <1>3, JudgedIs
<1> QED
    BY <1>4, CheckoutJwtVerified DEF report, token, mandate

LEMMA ReceiptIs ==
    ASSUME NEW kind, NEW candidate, NEW mandate, NEW input, selectReceipt(kind, candidate, mandate, input).chosen # None
    PROVE  /\ mandate.chosen # None
           /\ Field(candidate.chosen.token[2].claims, "reference") = computeAp2MandateReference(mandate.chosen.token)
<1> DEFINE token == IF mandate.chosen = None THEN None ELSE mandate.chosen.token
           plan == IF kind = "checkout_receipt" THEN input.plan.checkoutReceipt ELSE input.plan.paymentReceipt
           report == verifyAp2Receipt(candidate.chosen.token, kind, plan, token, input.asOf)
<1>1. selectReceipt(kind, candidate, mandate, input) = Judged(kind, candidate, report)
    BY Zenon DEF selectReceipt
<1> HIDE DEF report
<1>2. report.evidenceEligible
    BY <1>1, JudgedIs
<1> HIDE DEF token, plan
<1>3. token # None /\ Field(candidate.chosen.token[2].claims, "reference") = computeAp2MandateReference(token)
    BY <1>2, ReceiptVerified DEF report
<1> QED
    BY <1>3 DEF token

\* What VerifiedIsOneTransaction says of a request and the attempts made for it.
OneTransaction(input, attempts) ==
    LET given == UNION {Range(source.artifacts) : source \in Range(input.sources)}
        Token(kind) == TokenIn(input.sources, kind)
        Bound(receipt, mandate) ==
            Field(Token(receipt)[2].claims, "reference") = Digest(Compact(Last(Token(mandate)[2]).jwt))
        checkout == Field(Closed(Token("checkout_mandate")), "checkout_jwt")
    IN  /\ \A attempt \in attempts : attempt.status = "provided"
        /\ \A a, b \in given : a.kind = b.kind => a.token = b.token
        /\ Digest(checkout) = input.transactionId
        /\ Field(Closed(Token("payment_mandate")), "transaction_id") = input.transactionId
        /\ checkout[2].key = input.plan.checkoutJwt.merchantKeySnapshot.jwk.point
        /\ Bound("checkout_receipt", "checkout_mandate")
        /\ Bound("payment_receipt", "payment_mandate")

LEMMA CompleteIsOneTransaction ==
    ASSUME NEW input, Offered(input), input.transactionId # Undefined,
           PlanHolds(input.plan.checkoutMandate), PlanHolds(input.plan.paymentMandate),
           NEW attempts, Complete(input, attempts)
    PROVE  OneTransaction(input, attempts)
<1> DEFINE selections == SelectionsOf(input)
           given == GivenIn(input.sources)
           cm == CheckoutMandateOf(input)
           pm == PaymentMandateOf(input)
           Token(kind) == TokenIn(input.sources, kind)
           Refers(receipt, mandate) ==
               Field(Token(receipt)[2].claims, "reference") = computeAp2MandateReference(Token(mandate))
           checkout == Field(Closed(Token("checkout_mandate")), "checkout_jwt")
<1>1. /\ selections["checkout_mandate"] = cm /\ selections["payment_mandate"] = pm
      /\ selections["checkout_receipt"] = selectReceipt("checkout_receipt", Sole("checkout_receipt", input), cm, input)
      /\ selections["payment_receipt"] = selectReceipt("payment_receipt", Sole("payment_receipt", input), pm, input)
    BY DEF SelectionsOf
<1> HIDE DEF selections
<1>2. \A kind \in AP2_DISPUTE_ARTIFACT_KINDS :
          /\ selections[kind].chosen # None /\ Token(kind) = selections[kind].chosen.token
          /\ selections[kind].chosen.token = Sole(kind, input).chosen.token
    BY CompleteHasOneOfEach, SelectionsHaveSole DEF Complete, selections
<1>3. /\ Token("checkout_mandate") = cm.chosen.token /\ Token("payment_mandate") = pm.chosen.token
      /\ Token("checkout_receipt") = Sole("checkout_receipt", input).chosen.token
      /\ Token("payment_receipt") = Sole("payment_receipt", input).chosen.token
    BY <1>1, <1>2 DEF AP2_DISPUTE_ARTIFACT_KINDS
<1>4. /\ selectReceipt("checkout_receipt", Sole("checkout_receipt", input), cm, input).chosen # None
      /\ selectReceipt("payment_receipt", Sole("payment_receipt", input), pm, input).chosen # None
    BY <1>1, <1>2 DEF AP2_DISPUTE_ARTIFACT_KINDS
<1> HIDE DEF cm, pm, Token
<1>5. Refers("checkout_receipt", "checkout_mandate") /\ Refers("payment_receipt", "payment_mandate")
    BY <1>3, <1>4, ReceiptIs
<1>6. /\ MandateIs("checkout_mandate", input, Undefined, cm.chosen)
      /\ MandateIs("payment_mandate", input, OpenHashOf(cm), pm.chosen)
    BY CompleteMandates DEF cm, pm
<1>7. checkout = Field(cm.chosen.value.claims, "checkout_jwt") /\ Digest(checkout) = input.transactionId
    BY <1>3, <1>6, CheckoutAsSigned
<1>8. Field(Closed(Token("payment_mandate")), "transaction_id") = input.transactionId
    BY <1>3, <1>6, PaymentAsSigned
<1>9. checkout[2].key = input.plan.checkoutJwt.merchantKeySnapshot.jwk.point
    BY <1>7, JwtIs DEF Complete, cm
<1>10. \A attempt \in attempts : attempt.status = "provided"
    BY NoRetrievalIssue DEF Complete
<1>11. \A a, b \in given : a.kind = b.kind => a.token = b.token
    BY CompleteHasOneOfEach
<1> QED
    BY ONLY <1>5, <1>7, <1>8, <1>9, <1>10, <1>11, Zenon
       DEF OneTransaction, GivenIn, given, Token, computeAp2MandateReference

LEMMA VerifiedHolds ==
    ASSUME EvidenceInv
    PROVE  VerifiedIsOneTransaction
<1> DEFINE input == InputOf(dispute, gathered.sources)
<1>1. SUFFICES ASSUME Returned, Resolution.status = "evidence_verified"
               PROVE  OneTransaction(input, gathered.attempts)
    <2>1. /\ input.sources = gathered.sources /\ input.transactionId = Cases[dispute].transactionId
          /\ input.plan = Cases[dispute].plan
        BY DEF InputOf
    <2> HIDE DEF input
    <2> QED
        BY <1>1, <2>1, Zenon DEF VerifiedIsOneTransaction, OneTransaction
<1>2. gathered # None /\ dispute \in DOMAIN Cases
    BY <1>1 DEF Returned, EvidenceInv
<1>3. /\ input.transactionId # Undefined
      /\ PlanHolds(input.plan.checkoutMandate) /\ PlanHolds(input.plan.paymentMandate)
    BY <1>2, OffersAssumption DEF InputOf
<1>4. Offered(input)
    BY <1>2, GatheredIsOffered
<1>5. Complete(input, gathered.attempts)
    BY <1>1, VerifiedIsComplete DEF Resolution
<1> HIDE DEF input
<1> QED
    BY <1>3, <1>4, <1>5, CompleteIsOneTransaction

\* VerifiedIsOneTransaction: evidence_verified means that every retriever answered
\* with something, that no two sources differ, and that the artifacts are of the
\* one transaction (assembleInternal).
THEOREM VerifiedIsOfOneTransaction == Spec => []VerifiedIsOneTransaction
<1>1. Init => EvidenceInv
    BY DEF Init, EvidenceInit, EvidenceInv
<1>2. EvidenceInv /\ [Next]_vars => EvidenceInv'
    BY EvidenceStep
<1>3. EvidenceInv => VerifiedIsOneTransaction
    BY VerifiedHolds
<1> QED
    BY <1>1, <1>2, <1>3, PTL DEF Spec

----------------------------------------------------------------------------
(* Records in order.                                                          *)
\* Of any two places, the one that is ahead has fewer ahead of it.
Nested(n, ahead) ==
    /\ \A i \in 1 .. n : ahead[i] \subseteq (1 .. n) \ {i}
    /\ \A i, j \in 1 .. n : i # j => \/ i \in ahead[j] /\ ahead[i] \subseteq ahead[j]
                                     \/ j \in ahead[i] /\ ahead[j] \subseteq ahead[i]

HavePlaces(n, ahead) ==
    /\ \A k \in 1 .. n : \E i \in 1 .. n : Cardinality(ahead[i]) = k - 1
    /\ \A i \in 1 .. n : Cardinality(ahead[i]) \in Nat /\ Cardinality(ahead[i]) + 1 \in 1 .. n
    /\ \A i, j \in 1 .. n : Cardinality(ahead[i]) = Cardinality(ahead[j]) => i = j

LEMMA Places ==
    ASSUME NEW n \in Nat, NEW ahead, Nested(n, ahead)
    PROVE  HavePlaces(n, ahead)
<1>0. /\ \A i \in 1 .. n : ahead[i] \subseteq (1 .. n) \ {i}
      /\ \A i, j \in 1 .. n : i # j => \/ i \in ahead[j] /\ ahead[i] \subseteq ahead[j]
                                       \/ j \in ahead[i] /\ ahead[j] \subseteq ahead[i]
    BY DEF Nested
<1>1. IsFiniteSet(1 .. n) /\ Cardinality(1 .. n) = n
    BY FS_Interval
<1>2. ASSUME NEW S \in SUBSET (1 .. n) PROVE IsFiniteSet(S) /\ Cardinality(S) \in Nat
    BY <1>1, FS_Subset, FS_CardinalityType
<1>3. ASSUME NEW S \in SUBSET (1 .. n), NEW x \in S PROVE Cardinality(S \ {x}) = Cardinality(S) - 1
    BY <1>2, FS_RemoveElement
<1>4. ASSUME NEW i \in 1 .. n PROVE Cardinality(ahead[i]) \in 0 .. n - 1
    <2>1. ahead[i] \subseteq (1 .. n) \ {i}
        BY <1>0
    <2>2. Cardinality((1 .. n) \ {i}) = n - 1 /\ IsFiniteSet((1 .. n) \ {i})
        BY <1>1, <1>2, <1>3
    <2>3. Cardinality(ahead[i]) <= n - 1 /\ Cardinality(ahead[i]) \in Nat
        BY <2>1, <2>2, <1>2, FS_Subset
    <2> QED
        BY <2>3
<1>5. ASSUME NEW i \in 1 .. n, NEW j \in 1 .. n, i \in ahead[j], ahead[i] \subseteq ahead[j]
      PROVE  Cardinality(ahead[i]) < Cardinality(ahead[j])
    <2>1. ahead[j] \in SUBSET (1 .. n) /\ ahead[i] \in SUBSET (1 .. n) /\ ahead[i] \subseteq ahead[j] \ {i}
        BY <1>0, <1>5
    <2>2. Cardinality(ahead[i]) <= Cardinality(ahead[j] \ {i})
        BY <1>2, <2>1, FS_Subset
    <2>3. Cardinality(ahead[j] \ {i}) = Cardinality(ahead[j]) - 1
        BY <1>3, <1>5, <2>1
    <2>4. Cardinality(ahead[j]) \in Nat /\ Cardinality(ahead[i]) \in Nat
        BY <1>2, <2>1
    <2> QED
        BY <2>2, <2>3, <2>4
<1>6. ASSUME NEW i \in 1 .. n, NEW j \in 1 .. n, Cardinality(ahead[i]) = Cardinality(ahead[j])
      PROVE  i = j
    <2>1. SUFFICES ASSUME i # j PROVE FALSE
        OBVIOUS
    <2>2. Cardinality(ahead[i]) < Cardinality(ahead[j]) \/ Cardinality(ahead[j]) < Cardinality(ahead[i])
        BY <1>0, <1>5, <2>1
    <2> QED
        BY <1>4, <1>6, <2>2
<1> DEFINE rank == [i \in 1 .. n |-> Cardinality(ahead[i])]
<1>7. rank \in Injection(1 .. n, 0 .. n - 1)
    BY <1>4, <1>6 DEF Injection, IsInjective
<1>8. IsFiniteSet(0 .. n - 1) /\ Cardinality(0 .. n - 1) = n
    BY FS_Interval
<1>9. rank \in Surjection(1 .. n, 0 .. n - 1)
    BY <1>1, <1>7, <1>8, FS_Injection
<1>10. ASSUME NEW k \in 1 .. n PROVE \E i \in 1 .. n : Cardinality(ahead[i]) = k - 1
    <2>1. k - 1 \in 0 .. n - 1
        OBVIOUS
    <2> QED
        BY <1>9, <2>1 DEF Surjection
<1> QED
    BY <1>4, <1>6, <1>10 DEF HavePlaces

\* What is put in order is the same records.
LEMMA PlacedSame ==
    ASSUME NEW n \in Nat, NEW list, DOMAIN list = 1 .. n, NEW ahead, Nested(n, ahead)
    PROVE  /\ Range(Placed(list, ahead)) = Range(list)
           /\ Placed(list, ahead) \in Seq(Range(Placed(list, ahead)))
<1> DEFINE At(k) == CHOOSE i \in 1 .. n : Cardinality(ahead[i]) = k - 1
           placed == Placed(list, ahead)
<1>1. HavePlaces(n, ahead)
    BY Places
<1>2. ASSUME NEW k \in 1 .. n PROVE At(k) \in 1 .. n /\ Cardinality(ahead[At(k)]) = k - 1
    BY <1>1 DEF HavePlaces
<1>3. placed = [k \in 1 .. n |-> list[At(k)]]
    BY DEF Placed
<1>4. DOMAIN placed = 1 .. n /\ (\A k \in 1 .. n : placed[k] = list[At(k)])
      /\ placed = [k \in 1 .. n |-> placed[k]]
    BY ONLY <1>3
<1> HIDE DEF At, placed
<1>5. ASSUME NEW i \in 1 .. n PROVE \E k \in 1 .. n : placed[k] = list[i]
    <2> DEFINE k == Cardinality(ahead[i]) + 1
    <2>1. k \in 1 .. n /\ Cardinality(ahead[i]) \in Nat
        BY <1>1 DEF HavePlaces
    <2>2. At(k) \in 1 .. n /\ Cardinality(ahead[At(k)]) = k - 1
        BY <1>2, <2>1
    <2>3. Cardinality(ahead[At(k)]) = Cardinality(ahead[i])
        BY <2>1, <2>2
    <2>4. At(k) = i
        BY ONLY <1>1, <2>2, <2>3, i \in 1 .. n DEF HavePlaces
    <2> HIDE DEF k
    <2> QED
        BY <1>4, <2>1, <2>4
<1>6. ASSUME NEW x PROVE x \in Range(placed) <=> x \in Range(list)
    <2>1. x \in Range(placed) <=> \E k \in 1 .. n : x = placed[k]
        BY <1>4, Zenon DEF Range
    <2>2. x \in Range(list) <=> \E i \in 1 .. n : x = list[i]
        BY Zenon DEF Range
    <2> QED
        BY ONLY <1>2, <1>4, <1>5, <2>1, <2>2
<1>7. Range(placed) = Range(list)
    BY ONLY <1>6
<1>8. placed \in Seq(Range(placed))
    BY ONLY <1>4, n \in Nat, ListIs
<1> QED
    BY <1>7, <1>8 DEF placed

\* Ordered by a number that no two have.
LEMMA OrderedByKey ==
    ASSUME NEW n \in Nat, NEW key, \A i \in 1 .. n : key[i] \in Int,
           \A i, j \in 1 .. n : key[i] = key[j] => i = j,
           NEW ahead, \A i \in 1 .. n : ahead[i] = {j \in 1 .. n : key[j] < key[i]}
    PROVE  Nested(n, ahead)
<1>1. ASSUME NEW i \in 1 .. n PROVE ahead[i] \subseteq (1 .. n) \ {i}
    OBVIOUS
<1>2. ASSUME NEW i \in 1 .. n, NEW j \in 1 .. n, i # j
      PROVE  \/ i \in ahead[j] /\ ahead[i] \subseteq ahead[j]
             \/ j \in ahead[i] /\ ahead[j] \subseteq ahead[i]
    <2>1. key[i] < key[j] \/ key[j] < key[i]
        BY <1>2
    <2> QED
        BY <2>1
<1> QED
    BY <1>1, <1>2 DEF Nested

\* Ordered by time, and then by an id that no two have.
InTime(n, list, at, id, ahead) ==
    /\ \A i \in 1 .. n : list[i][at] \in Int /\ list[i][id] \in Int
    /\ \A i, j \in 1 .. n : list[i][id] = list[j][id] => i = j
    /\ \A i \in 1 .. n : ahead[i] = {j \in 1 .. n : Earlier(list[j], list[i], at, id)}

LEMMA OrderedByTime ==
    ASSUME NEW n \in Nat, NEW list, NEW at, NEW id, NEW ahead, InTime(n, list, at, id, ahead)
    PROVE  Nested(n, ahead)
<1>0. /\ \A i \in 1 .. n : list[i][at] \in Int /\ list[i][id] \in Int
      /\ \A i, j \in 1 .. n : list[i][id] = list[j][id] => i = j
      /\ \A i \in 1 .. n : ahead[i] = {j \in 1 .. n : Earlier(list[j], list[i], at, id)}
    BY DEF InTime
<1>1. ASSUME NEW i \in 1 .. n PROVE ahead[i] \subseteq (1 .. n) \ {i}
    BY <1>0 DEF Earlier
<1>2. ASSUME NEW i \in 1 .. n, NEW j \in 1 .. n, i # j
      PROVE  Earlier(list[i], list[j], at, id) \/ Earlier(list[j], list[i], at, id)
    BY <1>0, <1>2 DEF Earlier
<1>3. ASSUME NEW i \in 1 .. n, NEW j \in 1 .. n, Earlier(list[i], list[j], at, id)
      PROVE  i \in ahead[j] /\ ahead[i] \subseteq ahead[j]
    <2>1. ASSUME NEW k \in 1 .. n, Earlier(list[k], list[i], at, id) PROVE Earlier(list[k], list[j], at, id)
        BY <1>0, <1>3, <2>1 DEF Earlier
    <2> QED
        BY <1>0, <1>3, <2>1
<1> QED
    BY ONLY <1>1, <1>2, <1>3 DEF Nested

----------------------------------------------------------------------------
(* What a sealed pack holds.                                                  *)
\* The same records, as far as these fields go.
SameRecords(values, others, fields) ==
    /\ \A v \in Range(values) : \E w \in Range(others) : \A name \in fields : w[name] = v[name]
    /\ \A w \in Range(others) : \E v \in Range(values) : \A name \in fields : w[name] = v[name]

LEMMA WithDigestKeeps ==
    ASSUME NEW record, NEW digest, NEW content, NEW name \in DOMAIN record, name # digest
    PROVE  /\ name \in DOMAIN WithDigest(record, digest, content)
           /\ WithDigest(record, digest, content)[name] = record[name]
BY DEF WithDigest, Override

LEMMA MaterializedKeeps ==
    ASSUME NEW fields, NEW id \in fields, NEW at \in fields, NEW digest, digest \notin fields, NEW content,
           NEW values, AreRecords(values, fields, id, at), NEW sources, NEW asOf,
           NEW m, m = Materialized(values, sources, asOf, id, at, digest, content), m # None
    PROVE  AreRecords(m, fields, id, at) /\ SameRecords(values, m, fields)
<1> DEFINE n == Len(values)
           list == [i \in 1 .. n |-> WithDigest(values[i], digest, content)]
           ahead == [i \in 1 .. n |-> {j \in 1 .. n : Earlier(list[j], list[i], at, id)}]
           ordered == Placed(list, ahead)
<1>1. n \in Nat /\ DOMAIN values = 1 .. n
    BY LenProperties DEF AreRecords
<1>2. m = ordered /\ DistinctIn(values, id)
    BY Zenon DEF Materialized, InOrder
<1>3. \A i \in 1 .. n : values[i] \in Range(values)
    BY <1>1 DEF Range
<1>4. \A i \in 1 .. n : fields \subseteq DOMAIN values[i] /\ values[i][id] \in Int /\ values[i][at] \in Int
    BY <1>3 DEF AreRecords
<1>5. \A i \in 1 .. n : \A name \in fields : list[i][name] = values[i][name] /\ name \in DOMAIN list[i]
    BY <1>4, WithDigestKeeps
<1>6. DOMAIN list = 1 .. n
    OBVIOUS
<1> HIDE DEF list
<1>7. \A i \in 1 .. n : ahead[i] = {j \in 1 .. n : Earlier(list[j], list[i], at, id)}
    OBVIOUS
<1> HIDE DEF ahead, n
<1>8. \A i \in 1 .. n : list[i][at] \in Int /\ list[i][id] \in Int /\ fields \subseteq DOMAIN list[i]
    BY <1>4, <1>5
<1>9. \A i, j \in 1 .. n : list[i][id] = list[j][id] => i = j
    BY <1>1, <1>2, <1>5 DEF DistinctIn
<1>10. Nested(n, ahead)
    <2>1. InTime(n, list, at, id, ahead)
        BY ONLY <1>7, <1>8, <1>9 DEF InTime
    <2> QED
        BY ONLY <1>1, <2>1, OrderedByTime
<1>11. Range(m) = Range(list) /\ m \in Seq(Range(m))
    BY <1>1, <1>2, <1>6, <1>10, PlacedSame
<1>12. ASSUME NEW w \in Range(m)
       PROVE  /\ \E v \in Range(values) : \A name \in fields : w[name] = v[name]
              /\ fields \subseteq DOMAIN w /\ w[id] \in Int /\ w[at] \in Int
    <2>1. PICK i \in 1 .. n : w = list[i]
        BY <1>6, <1>11, Zenon DEF Range
    <2> QED
        BY <1>3, <1>5, <1>8, <2>1
<1>13. ASSUME NEW v \in Range(values) PROVE \E w \in Range(m) : \A name \in fields : w[name] = v[name]
    <2>1. PICK i \in 1 .. n : v = values[i]
        BY <1>1, Zenon DEF Range
    <2>2. list[i] \in Range(m)
        BY <1>6, <1>11, Zenon DEF Range
    <2> QED
        BY <1>5, <2>1, <2>2
<1> QED
    BY ONLY <1>11, <1>12, <1>13 DEF AreRecords, SameRecords

LEMMA VersionsKept ==
    ASSUME NEW values, AreRecords(values, VersionFields, "versionId", "observedAt"), NEW sources, NEW asOf,
           NEW m, m = materializeCheckoutVersions(values, sources, asOf), m # None
    PROVE  AreRecords(m, VersionFields, "versionId", "observedAt") /\ SameRecords(values, m, VersionFields)
<1>1. m = Materialized(values, sources, asOf, "versionId", "observedAt", "checkoutJwtDigest", "checkoutJwt")
    BY DEF materializeCheckoutVersions
<1>2. "versionId" \in VersionFields /\ "observedAt" \in VersionFields /\ "checkoutJwtDigest" \notin VersionFields
    BY DEF VersionFields
<1> QED
    BY ONLY <1>1, <1>2, m # None, AreRecords(values, VersionFields, "versionId", "observedAt"), MaterializedKeeps

LEMMA RevocationsKept ==
    ASSUME NEW values, AreRecords(values, RevocationFields, "recordId", "checkedAt"), NEW sources, NEW asOf,
           NEW m, m = materializeRevocations(values, sources, asOf), m # None
    PROVE  /\ AreRecords(m, RevocationFields, "recordId", "checkedAt") /\ SameRecords(values, m, RevocationFields)
           /\ \A v \in Range(values) : v.reportedStatus \in ReportedStatuses
<1>1. /\ m = Materialized(values, sources, asOf, "recordId", "checkedAt", "snapshotDigest", "snapshot")
      /\ \A v \in Range(values) : v.reportedStatus \in ReportedStatuses
    BY DEF materializeRevocations
<1>2. "recordId" \in RevocationFields /\ "checkedAt" \in RevocationFields /\ "snapshotDigest" \notin RevocationFields
    BY DEF RevocationFields
<1>3. AreRecords(m, RevocationFields, "recordId", "checkedAt") /\ SameRecords(values, m, RevocationFields)
    BY ONLY <1>1, <1>2, m # None, AreRecords(values, RevocationFields, "recordId", "checkedAt"), MaterializedKeeps
<1> QED
    BY <1>1, <1>3

\* Sources by their ids.
LEMMA SameSources ==
    ASSUME NEW sources, sources \in Seq(Range(sources)), Distinct(sources),
           \A source \in Range(sources) : source.sourceId \in Ids
    PROVE  Range(BySourceId(sources)) = Range(sources)
<1> DEFINE n == Len(sources)
           key == [i \in 1 .. n |-> Position(sources[i].sourceId)]
           ahead == [i \in 1 .. n |-> {j \in 1 .. n : Position(sources[j].sourceId) < Position(sources[i].sourceId)}]
<1>1. n \in Nat /\ DOMAIN sources = 1 .. n
    BY LenProperties
<1>2. ASSUME NEW id \in Ids PROVE Position(id) \in Int /\ Retrievers[Position(id)] = id
    <2>1. Len(Retrievers) \in Nat /\ DOMAIN Retrievers = 1 .. Len(Retrievers)
        BY RetrieversAssumption, LenProperties
    <2>2. \E i \in DOMAIN Retrievers : Retrievers[i] = id
        BY Zenon DEF Ids, Range
    <2>3. Position(id) \in DOMAIN Retrievers /\ Retrievers[Position(id)] = id
        BY ONLY <2>2 DEF Position
    <2> QED
        BY <2>1, <2>3
<1>3. \A i \in 1 .. n : sources[i].sourceId \in Ids
    BY <1>1 DEF Range
<1>4. BySourceId(sources) = Placed(sources, ahead)
    BY <1>1 DEF BySourceId
<1>5. \A i \in 1 .. n : key[i] = Position(sources[i].sourceId)
    OBVIOUS
<1>6. \A i \in 1 .. n : ahead[i] = {j \in 1 .. n : key[j] < key[i]}
    OBVIOUS
<1> HIDE DEF key, ahead, n
<1>7. \A i \in 1 .. n : key[i] \in Int
    BY <1>2, <1>3, <1>5
<1>8. ASSUME NEW i \in 1 .. n, NEW j \in 1 .. n, key[i] = key[j] PROVE i = j
    <2>1. sources[i].sourceId = sources[j].sourceId
        BY <1>2, <1>3, <1>5, <1>8
    <2> QED
        BY <1>1, <2>1 DEF Distinct
<1>9. Nested(n, ahead)
    BY ONLY <1>1, <1>6, <1>7, <1>8, OrderedByKey
<1> QED
    BY ONLY <1>1, <1>4, <1>9, PlacedSame

\* A pack that was sealed for a dispute: what it took from the request and the history.
LEMMA PackedFields ==
    ASSUME NEW input, NEW history, NEW createdAt, NEW pack,
           pack = packAp2DisputeEvidence(input, history, createdAt), pack # None
    PROVE  /\ pack.transactionId = input.transactionId /\ pack.plan = input.plan
           /\ pack.sources = BySourceId(input.sources)
           /\ pack.checkoutVersions = materializeCheckoutVersions(history.versions, pack.sources, input.asOf)
           /\ pack.revocations = materializeRevocations(history.revocations, pack.sources, input.asOf)
           /\ pack.checkoutVersions # None /\ pack.revocations # None
<1> DEFINE sources == BySourceId(input.sources)
           versions == materializeCheckoutVersions(history.versions, sources, input.asOf)
           revocations == materializeRevocations(history.revocations, sources, input.asOf)
           material == [transactionId |-> input.transactionId, asOf |-> input.asOf, createdAt |-> createdAt,
                        plan |-> input.plan, sources |-> sources,
                        checkoutVersions |-> versions, revocations |-> revocations]
           sealing == [packDigest |-> Digest(packMaterial(material))]
           rest == PackFields \ {"packDigest"}
           refused == \/ createdAt > input.asOf + RetrievalSkew
                      \/ assembleAp2DisputeEvidence(input) = Thrown
                      \/ versions = None \/ revocations = None
<1>1. pack = IF refused THEN None ELSE Override(material, sealing)
    BY Zenon DEF packAp2DisputeEvidence
<1>2. pack = Override(material, sealing) /\ versions # None /\ revocations # None
    BY <1>1
<1>3. DOMAIN material = rest /\ DOMAIN sealing = {"packDigest"}
    BY DEF PackFields
<1>4. /\ material["transactionId"] = input.transactionId /\ material["plan"] = input.plan
      /\ material["sources"] = sources /\ material["checkoutVersions"] = versions
      /\ material["revocations"] = revocations
    OBVIOUS
<1> HIDE DEF material, sealing, versions, revocations, sources
<1>5. pack = [name \in {"packDigest"} \cup rest |-> IF name \in {"packDigest"} THEN sealing[name] ELSE material[name]]
    BY ONLY <1>2, <1>3 DEF Override
<1>6. \A name \in rest : pack[name] = material[name]
    BY ONLY <1>5
<1>7. {"transactionId", "plan", "sources", "checkoutVersions", "revocations"} \subseteq rest
    BY DEF PackFields
<1>8. /\ pack["transactionId"] = input.transactionId /\ pack["plan"] = input.plan
      /\ pack["sources"] = sources /\ pack["checkoutVersions"] = versions /\ pack["revocations"] = revocations
    BY ONLY <1>4, <1>6, <1>7
<1> QED
    BY ONLY <1>2, <1>8 DEF versions, revocations, sources

----------------------------------------------------------------------------
(* What a review of the retained pack says.                                   *)
\* What a pack that was sealed for this dispute is known to hold.
PackHolds(pack) ==
    /\ Offered(pack) /\ pack.transactionId # Undefined
    /\ PlanHolds(pack.plan.checkoutMandate) /\ PlanHolds(pack.plan.paymentMandate)
    /\ AreRecords(pack.checkoutVersions, VersionFields, "versionId", "observedAt")
    /\ AreRecords(pack.revocations, RevocationFields, "recordId", "checkedAt")
    /\ \A r \in Range(pack.revocations) : r.reportedStatus \in ReportedStatuses

\* The retained pack was sealed of what this dispute's retrievers answered.
SealedInv == held # None => gathered # None /\ PackHolds(retained.pack)

LEMMA PackedHolds ==
    ASSUME EvidenceInv, gathered # None, NEW history \in Histories[dispute], NEW createdAt,
           NEW pack, pack = packAp2DisputeEvidence(InputOf(dispute, gathered.sources), history, createdAt), pack # None
    PROVE  PackHolds(pack)
<1> DEFINE input == InputOf(dispute, gathered.sources)
<1>1. dispute \in DOMAIN Cases
    BY DEF EvidenceInv
<1>2. /\ input.transactionId = Cases[dispute].transactionId /\ input.plan = Cases[dispute].plan
      /\ input.sources = gathered.sources
    BY DEF InputOf
<1>3. /\ Offered(input) /\ Distinct(gathered.sources) /\ gathered.sources \in Seq(Range(gathered.sources))
      /\ \A source \in Range(gathered.sources) : source.sourceId \in Ids
    BY GatheredIsOffered
<1> HIDE DEF input
<1>4. /\ pack.transactionId = input.transactionId /\ pack.plan = input.plan
      /\ pack.sources = BySourceId(input.sources)
      /\ pack.checkoutVersions = materializeCheckoutVersions(history.versions, pack.sources, input.asOf)
      /\ pack.revocations = materializeRevocations(history.revocations, pack.sources, input.asOf)
      /\ pack.checkoutVersions # None /\ pack.revocations # None
    BY PackedFields DEF input
<1>5. Range(pack.sources) = Range(input.sources)
    BY <1>2, <1>3, <1>4, SameSources
<1>6. Offered(pack)
    BY ONLY <1>3, <1>5 DEF Offered, GivenIn
<1>7. /\ AreRecords(history.versions, VersionFields, "versionId", "observedAt")
      /\ AreRecords(history.revocations, RevocationFields, "recordId", "checkedAt")
    BY <1>1, HistoriesAssumption
<1>8. AreRecords(pack.checkoutVersions, VersionFields, "versionId", "observedAt")
    BY <1>4, <1>7, VersionsKept
<1>9. /\ AreRecords(pack.revocations, RevocationFields, "recordId", "checkedAt")
      /\ SameRecords(history.revocations, pack.revocations, RevocationFields)
      /\ \A v \in Range(history.revocations) : v.reportedStatus \in ReportedStatuses
    BY <1>4, <1>7, RevocationsKept
<1>10. ASSUME NEW r \in Range(pack.revocations) PROVE r.reportedStatus \in ReportedStatuses
    <2>1. PICK v \in Range(history.revocations) : \A name \in RevocationFields : r[name] = v[name]
        BY <1>9 DEF SameRecords
    <2>2. r["reportedStatus"] = v["reportedStatus"]
        BY <2>1 DEF RevocationFields
    <2> QED
        BY <1>9, <2>2
<1>11. /\ pack.transactionId # Undefined
       /\ PlanHolds(pack.plan.checkoutMandate) /\ PlanHolds(pack.plan.paymentMandate)
    BY <1>1, <1>2, <1>4, OffersAssumption
<1> QED
    BY ONLY <1>6, <1>8, <1>9, <1>10, <1>11 DEF PackHolds

LEMMA SealedKeeps ==
    ASSUME EvidenceInv, SealedInv, [Next]_vars
    PROVE  SealedInv'
<1>p. PackHolds(retained.pack)' <=> PackHolds(retained'.pack)
    BY DEF PackHolds
<1>1. CASE Pack
    <2>1. PICK history \in Histories[dispute], createdAt \in CreationTimes :
              held' = packAp2DisputeEvidence(InputOf(dispute, gathered.sources), history, createdAt)
        BY <1>1 DEF Pack
    <2>2. held' # None /\ retained'.pack = held' /\ gathered # None /\ gathered' = gathered
        BY <1>1 DEF Pack
    <2>3. PackHolds(held')
        BY <2>1, <2>2, PackedHolds
    <2> QED
        BY <1>p, <2>2, <2>3 DEF SealedInv
<1>2. CASE Travel
    BY <1>p, <1>2 DEF Travel, SealedInv
<1>3. CASE Review
    BY <1>p, <1>3 DEF Review, SealedInv
<1>4. CASE (\E id \in Ids : Settle(id)) /\ UNCHANGED packVars
    BY <1>p, <1>4 DEF Settle, packVars, SealedInv
<1>5. CASE resolveAp2DisputeEvidence /\ UNCHANGED packVars
    BY <1>p, <1>5 DEF resolveAp2DisputeEvidence, packVars, SealedInv
<1>6. CASE UNCHANGED vars
    BY <1>p, <1>6 DEF vars, SealedInv
<1> QED
    BY <1>1, <1>2, <1>3, <1>4, <1>5, <1>6 DEF Next

\* What a pack that verifies shows.
LEMMA VerifiedPack ==
    ASSUME NEW pack, NEW expected, NEW recomputed, NEW report, report = PackReport(pack, expected, recomputed),
           report.status = "verified"
    PROVE  LET pinned == pack.plan.checkoutMandate.expectedCheckoutJwt
               versions == materializeCheckoutVersions(pack.checkoutVersions, pack.sources, pack.asOf)
               revocations == materializeRevocations(pack.revocations, pack.sources, pack.asOf)
           IN  /\ recomputed.status = "evidence_verified" /\ pinned # Undefined
               /\ versions # None /\ \E v \in Range(versions) : v.checkoutJwt = pinned
               /\ revocations # None /\ \A r \in Range(revocations) : r.reportedStatus \notin {"revoked", "unknown"}
               /\ {r.mandateKind : r \in Range(revocations)} = Mandates
<1> DEFINE digestValid   == Digest(packMaterial(pack)) = pack.packDigest
           anchorMatched == expected = pack.packDigest
           listed        == materializeCheckoutVersions(pack.checkoutVersions, pack.sources, pack.asOf)
           reported      == materializeRevocations(pack.revocations, pack.sources, pack.asOf)
           versions      == IF recomputed = Thrown THEN None ELSE listed
           revocations   == IF versions = None THEN None ELSE reported
           known(list)   == IF list = None THEN <<>> ELSE list
           pinned        == pack.plan.checkoutMandate.expectedCheckoutJwt
           matched       == \E v \in Range(versions) : v.checkoutJwt = pinned
           binding       == IF pinned = Undefined \/ versions = None THEN "missing"
                            ELSE IF matched THEN "matched" ELSE "conflicting"
           versionsHold    == StoredDigestsHold(known(versions), pack.checkoutVersions,
                                                "versionId", "checkoutJwtDigest")
           revocationsHold == StoredDigestsHold(known(revocations), pack.revocations,
                                                "recordId", "snapshotDigest")
           state  == RevocationState(known(revocations), revocations # None /\ revocationsHold)
           issues == When(~digestValid, PackIssue("AP2_PACK_DIGEST_MISMATCH"))
                     \cup When(~anchorMatched, PackIssue("AP2_PACK_TRUST_ANCHOR_MISMATCH"))
                     \cup When(revocations = None, PackIssue("AP2_PACK_CONTENT_INVALID"))
                     \cup When(~versionsHold, PackIssue("AP2_CHECKOUT_VERSION_DIGEST_MISMATCH"))
                     \cup When(~revocationsHold, PackIssue("AP2_REVOCATION_SNAPSHOT_DIGEST_MISMATCH"))
                     \cup When(binding # "matched", PackIssue("AP2_CHECKOUT_VERSION_MISSING_OR_CONFLICT"))
                     \cup When(state # "not_revoked", PackIssue("AP2_REPORTED_REVOCATION"))
                     \cup When(recomputed.status # "evidence_verified", PackIssue("AP2_PACK_RESOLUTION_UNRESOLVED"))
           verdict == IF /\ digestValid /\ anchorMatched /\ recomputed.status = "evidence_verified"
                         /\ binding = "matched" /\ state = "not_revoked" /\ issues = {}
                      THEN "verified" ELSE "unresolved"
           whole == [status |-> verdict,
                     packDigest |-> pack.packDigest, anchorMatched |-> anchorMatched, digestValid |-> digestValid,
                     checkoutVersionBinding |-> binding, reportedRevocationState |-> state,
                     resolution |-> IF recomputed = Thrown THEN None ELSE recomputed, issues |-> issues]
<1>1. report = IF ~assertPackShape(pack) THEN invalidPackReport ELSE whole
    BY Zenon DEF PackReport
<1>2. whole.status = verdict /\ invalidPackReport.status # "verified"
    BY DEF invalidPackReport
<1> HIDE DEF whole
<1>3. verdict = "verified"
    BY ONLY <1>1, <1>2, report.status = "verified"
<1> HIDE DEF issues, digestValid, anchorMatched, revocationsHold, versionsHold
<1>4. recomputed.status = "evidence_verified" /\ binding = "matched" /\ state = "not_revoked"
    BY ONLY <1>3
<1>5. recomputed # Thrown
    BY <1>4 DEF Thrown
<1> HIDE DEF state, listed, reported
<1>6. pinned # Undefined /\ versions # None /\ matched /\ versions = listed
    BY ONLY <1>4, <1>5
<1>7. revocations = reported
    BY ONLY <1>6
<1> HIDE DEF versions, matched, revocations, known
<1> DEFINE said == {r.reportedStatus : r \in Range(known(revocations))}
           kinds == {r.mandateKind : r \in Range(known(revocations))}
<1>8. "revoked" \notin said /\ "unknown" \notin said /\ kinds = Mandates
    BY ONLY <1>4 DEF state, RevocationState
<1>9. revocations # None /\ known(revocations) = revocations
    <2>1. SUFFICES ASSUME revocations = None PROVE FALSE
        BY DEF known
    <2>2. Range(known(revocations)) = {}
        BY <2>1 DEF known, Range
    <2>3. kinds = {} /\ "checkout_mandate" \in Mandates
        BY <2>2 DEF Mandates
    <2> QED
        BY <1>8, <2>3
<1>10. \A r \in Range(reported) : r.reportedStatus \notin {"revoked", "unknown"}
    BY <1>7, <1>8, <1>9
<1>11. {r.mandateKind : r \in Range(reported)} = Mandates
    BY <1>7, <1>8, <1>9
<1> QED
    BY <1>4, <1>6, <1>7, <1>9, <1>10, <1>11 DEF listed, reported, matched

\* Reports that all of a pack's mandates are unrevoked, of a Checkout it was sealed with.
LEMMA VerifiedHistory ==
    ASSUME NEW pack, PackHolds(pack), NEW expected, NEW recomputed, NEW report,
           report = PackReport(pack, expected, recomputed), report.status = "verified"
    PROVE  /\ \A r \in Range(pack.revocations) : r.reportedStatus = "not_revoked"
           /\ \A kind \in Mandates : \E r \in Range(pack.revocations) : r.mandateKind = kind
           /\ \E v \in Range(pack.checkoutVersions) :
                 v.checkoutJwt = pack.plan.checkoutMandate.expectedCheckoutJwt
<1> DEFINE pinned == pack.plan.checkoutMandate.expectedCheckoutJwt
           versions == materializeCheckoutVersions(pack.checkoutVersions, pack.sources, pack.asOf)
           revocations == materializeRevocations(pack.revocations, pack.sources, pack.asOf)
<1>1. /\ versions # None /\ \E v \in Range(versions) : v.checkoutJwt = pinned
      /\ revocations # None /\ \A r \in Range(revocations) : r.reportedStatus \notin {"revoked", "unknown"}
      /\ {r.mandateKind : r \in Range(revocations)} = Mandates
    BY VerifiedPack
<1>2. /\ AreRecords(pack.checkoutVersions, VersionFields, "versionId", "observedAt")
      /\ AreRecords(pack.revocations, RevocationFields, "recordId", "checkedAt")
      /\ \A r \in Range(pack.revocations) : r.reportedStatus \in ReportedStatuses
    BY DEF PackHolds
<1>3. SameRecords(pack.checkoutVersions, versions, VersionFields)
    BY <1>1, <1>2, VersionsKept
<1>4. SameRecords(pack.revocations, revocations, RevocationFields)
    BY <1>1, <1>2, RevocationsKept
<1> HIDE DEF versions, revocations, pinned
<1>5. ASSUME NEW r \in Range(pack.revocations) PROVE r.reportedStatus = "not_revoked"
    <2>1. PICK w \in Range(revocations) : \A name \in RevocationFields : w[name] = r[name]
        BY <1>4 DEF SameRecords
    <2>2. w["reportedStatus"] = r["reportedStatus"]
        BY <2>1 DEF RevocationFields
    <2> QED
        BY <1>1, <1>2, <2>2 DEF ReportedStatuses
<1>6. ASSUME NEW kind \in Mandates PROVE \E r \in Range(pack.revocations) : r.mandateKind = kind
    <2>1. PICK w \in Range(revocations) : w.mandateKind = kind
        BY <1>1
    <2>2. PICK r \in Range(pack.revocations) : \A name \in RevocationFields : w[name] = r[name]
        BY <1>4 DEF SameRecords
    <2>3. w["mandateKind"] = r["mandateKind"]
        BY <2>2 DEF RevocationFields
    <2> QED
        BY <2>1, <2>3
<1>7. \E v \in Range(pack.checkoutVersions) : v.checkoutJwt = pinned
    <2>1. PICK w \in Range(versions) : w.checkoutJwt = pinned
        BY <1>1
    <2>2. PICK v \in Range(pack.checkoutVersions) : \A name \in VersionFields : w[name] = v[name]
        BY <1>3 DEF SameRecords
    <2>3. w["checkoutJwt"] = v["checkoutJwt"]
        BY <2>2 DEF VersionFields
    <2> QED
        BY <2>1, <2>3
<1> QED
    BY <1>5, <1>6, <1>7 DEF pinned

LEMMA CompareMatched ==
    ASSUME NEW left, NEW right, compareState(left, right) = "matched"
    PROVE  IsString(left) /\ left = right
BY DEF compareState

\* A total that is compared is one that the Checkout states.
LEMMA TotalIsStated ==
    ASSUME NEW checkout, TotalOf(checkout) # Undefined
    PROVE  \E total \in Entries(checkout, "totals") :
              Field(total, "type") = Str("total") /\ Field(total, "amount") = TotalOf(checkout)
<1> DEFINE items == Items(Field(checkout, "totals"))
           totals == {i \in DOMAIN items : Field(items[i], "type") = Str("total")}
           only == CHOOSE i \in totals : TRUE
<1>1. TotalOf(checkout) = IF Cardinality(totals) = 1 THEN Field(items[only], "amount") ELSE Undefined
    BY Zenon DEF TotalOf
<1> HIDE DEF items
<1>2. Cardinality(totals) = 1 /\ TotalOf(checkout) = Field(items[only], "amount")
    BY ONLY <1>1, TotalOf(checkout) # Undefined
<1>3. totals # {}
    <2>1. SUFFICES ASSUME totals = {} PROVE FALSE
        OBVIOUS
    <2> HIDE DEF totals
    <2> QED
        BY ONLY <1>2, <2>1, FS_EmptySet
<1>4. only \in totals
    <2> HIDE DEF totals
    <2> QED
        BY ONLY <1>3
<1> HIDE DEF only
<1>5. only \in DOMAIN items /\ Field(items[only], "type") = Str("total")
    BY <1>4
<1>6. items[only] \in Entries(checkout, "totals")
    BY ONLY <1>5, Zenon DEF Entries, Range, items
<1> QED
    BY <1>2, <1>5, <1>6

\* What a consistent reconciliation compared.
Consistent(checkout, payment) ==
    LET paid == Field(payment, "payment_amount")
    IN  /\ \E total \in Entries(checkout, "totals") :
              Field(total, "type") = Str("total") /\ Field(total, "amount") = Field(paid, "amount")
        /\ Field(paid, "currency") = Field(checkout, "currency")
        /\ Field(Field(payment, "payee"), "id") = Field(Field(checkout, "merchant"), "id")

LEMMA MatchedIsConsistent ==
    ASSUME NEW checkout, NEW payment, NEW checks, checks = reconcileVerifiedClaims(checkout, payment),
           checks.payee = "matched", checks.currency = "matched", checks.amount = "matched"
    PROVE  /\ Consistent(checkout, payment)
           /\ Atom(Field(Field(payment, "payee"), "id"))
           /\ Atom(Field(Field(payment, "payment_amount"), "currency"))
           /\ Atom(Field(Field(payment, "payment_amount"), "amount"))
<1> DEFINE amount == Field(payment, "payment_amount")
           payee == Field(Field(payment, "payee"), "id")
           currency == compareState(Field(amount, "currency"), Field(checkout, "currency"))
           paid == Field(amount, "amount")
           total == TotalOf(checkout)
<1>1. /\ checks.payee = compareState(payee, Field(Field(checkout, "merchant"), "id"))
      /\ checks.currency = currency
      /\ checks.amount = IF currency # "matched" \/ ~IsNumber(total) \/ ~IsNumber(paid) THEN "not_comparable"
                         ELSE IF total = paid THEN "matched" ELSE "mismatched"
    BY DEF reconcileVerifiedClaims
<1>2. IsString(payee) /\ payee = Field(Field(checkout, "merchant"), "id")
    BY <1>1, CompareMatched
<1>3. IsString(Field(amount, "currency")) /\ Field(amount, "currency") = Field(checkout, "currency")
    BY <1>1, CompareMatched
<1> HIDE DEF payee, total, paid, amount, currency
<1>4. IsNumber(total) /\ IsNumber(paid) /\ total = paid
    BY ONLY <1>1, checks.amount = "matched"
<1>5. total # Undefined /\ Atom(paid)
    BY ONLY <1>4 DEF IsNumber, Undefined, Atom
<1>6. \E t \in Entries(checkout, "totals") : Field(t, "type") = Str("total") /\ Field(t, "amount") = paid
    BY <1>4, <1>5, TotalIsStated DEF total
<1>7. Consistent(checkout, payment)
    BY ONLY <1>2, <1>3, <1>6 DEF Consistent, payee, paid, amount
<1> QED
    BY <1>2, <1>3, <1>5, <1>7, StringIsAtom DEF payee, amount, paid

LEMMA ReconciledIs ==
    ASSUME NEW report, Reconciled(report).summary = "consistent"
    PROVE  /\ report.digestValid /\ report.anchorMatched
           /\ report.resolution # None /\ report.resolution.status = "evidence_verified"
           /\ LET checkout == report.resolution.checkoutJwt.value.claims
                  payment == report.resolution.selected["payment_mandate"].value.claims
              IN  /\ Consistent(checkout, payment)
                  /\ Atom(Field(Field(payment, "payee"), "id"))
                  /\ Atom(Field(Field(payment, "payment_amount"), "currency"))
                  /\ Atom(Field(Field(payment, "payment_amount"), "amount"))
<1> DEFINE checkout == report.resolution.checkoutJwt.value.claims
           payment == report.resolution.selected["payment_mandate"].value.claims
           verified == /\ report.digestValid /\ report.anchorMatched
                       /\ report.resolution # None /\ report.resolution.status = "evidence_verified"
           compared == reconcileVerifiedClaims(checkout, payment)
           nothing == reconcileVerifiedClaims(Undefined, Undefined)
           checks == IF verified THEN compared ELSE nothing
           states == {checks.payee, checks.currency, checks.amount}
<1>1. Reconciled(report).summary =
          IF "mismatched" \in states THEN "inconsistent"
          ELSE IF states = {"matched"} THEN "consistent" ELSE "not_comparable"
    BY DEF Reconciled
<1> HIDE DEF checks
<1>2. states = {"matched"}
    BY ONLY <1>1, Reconciled(report).summary = "consistent"
<1>3. checks.payee = "matched" /\ checks.currency = "matched" /\ checks.amount = "matched"
    BY ONLY <1>2
<1>4. nothing.payee = "not_comparable"
    <2>1. Field(Field(Undefined, "payee"), "id") = Undefined
        BY DEF Field, IsObject, Undefined
    <2>2. nothing.payee = compareState(Undefined, Field(Field(Undefined, "merchant"), "id"))
        BY <2>1 DEF reconcileVerifiedClaims
    <2> QED
        BY <2>2 DEF compareState, IsString, Undefined
<1> HIDE DEF compared, nothing, checkout, payment
<1>5. verified /\ checks = compared
    BY <1>3, <1>4 DEF checks
<1>6. /\ Consistent(checkout, payment)
      /\ Atom(Field(Field(payment, "payee"), "id"))
      /\ Atom(Field(Field(payment, "payment_amount"), "currency"))
      /\ Atom(Field(Field(payment, "payment_amount"), "amount"))
    BY <1>3, <1>5, MatchedIsConsistent DEF compared
<1> QED
    BY <1>5, <1>6 DEF checkout, payment

\* What the evidence in a pack is assembled to again, as it was signed.
LEMMA RecomputedAsSigned ==
    ASSUME NEW pack, PackHolds(pack), NEW recomputed, recomputed = assembleAp2DisputeEvidence(pack),
           recomputed.status = "evidence_verified"
    PROVE  LET checkout == Field(Closed(TokenIn(pack.sources, "checkout_mandate")), "checkout_jwt")
               signed == Closed(TokenIn(pack.sources, "payment_mandate"))
               shown == recomputed.selected["payment_mandate"].value.claims
           IN  /\ recomputed.checkoutJwt.value.claims = checkout[2].claims
               /\ pack.plan.checkoutMandate.expectedCheckoutJwt # Undefined =>
                     checkout = pack.plan.checkoutMandate.expectedCheckoutJwt
               /\ \A outer : AtomsHold(Field(shown, outer), Field(signed, outer))
<1> DEFINE attempts == materializedAttempts(pack.sources)
           cm == CheckoutMandateOf(pack)
           pm == PaymentMandateOf(pack)
           checkout == Field(Closed(TokenIn(pack.sources, "checkout_mandate")), "checkout_jwt")
<1>1. /\ Offered(pack) /\ pack.transactionId # Undefined
      /\ PlanHolds(pack.plan.checkoutMandate) /\ PlanHolds(pack.plan.paymentMandate)
    BY DEF PackHolds
<1>2. recomputed = assembleInternal(pack, attempts)
    BY DEF assembleAp2DisputeEvidence
<1> HIDE DEF attempts
<1>3. /\ Complete(pack, attempts)
      /\ recomputed.checkoutJwt = JwtOf(pack).chosen /\ recomputed.selected["payment_mandate"] = pm.chosen
    BY <1>2, VerifiedIsComplete
<1>4. /\ TokenIn(pack.sources, "checkout_mandate") = SelectionsOf(pack)["checkout_mandate"].chosen.token
      /\ TokenIn(pack.sources, "payment_mandate") = SelectionsOf(pack)["payment_mandate"].chosen.token
    BY <1>1, <1>3, CompleteHasOneOfEach DEF AP2_DISPUTE_ARTIFACT_KINDS
<1>5. SelectionsOf(pack)["checkout_mandate"] = cm /\ SelectionsOf(pack)["payment_mandate"] = pm
    BY DEF SelectionsOf
<1>6. /\ MandateIs("checkout_mandate", pack, Undefined, cm.chosen)
      /\ MandateIs("payment_mandate", pack, OpenHashOf(cm), pm.chosen)
    BY <1>1, <1>3, CompleteMandates
<1>7. /\ checkout = Field(cm.chosen.value.claims, "checkout_jwt")
      /\ pack.plan.checkoutMandate.expectedCheckoutJwt # Undefined =>
            checkout = pack.plan.checkoutMandate.expectedCheckoutJwt
    BY <1>1, <1>4, <1>5, <1>6, CheckoutAsSigned
<1>8. JwtOf(pack).chosen.value.claims = checkout[2].claims
    BY <1>3, <1>7, JwtIs DEF Complete
<1>9. \A outer : AtomsHold(Field(pm.chosen.value.claims, outer), Field(Closed(pm.chosen.token), outer))
    BY <1>1, <1>6, ClosedAsSigned
<1> QED
    BY <1>3, <1>4, <1>5, <1>7, <1>8, <1>9

LEMMA ReportResolution ==
    ASSUME NEW pack, NEW expected, NEW recomputed, NEW report, report = PackReport(pack, expected, recomputed),
           report.digestValid, report.resolution # None
    PROVE  report.resolution = recomputed
<1>1. assertPackShape(pack)
    <2>1. SUFFICES ASSUME ~assertPackShape(pack) PROVE FALSE
        OBVIOUS
    <2>2. report = invalidPackReport
        BY <2>1 DEF PackReport
    <2> QED
        BY <2>2 DEF invalidPackReport
<1>2. report.resolution = IF recomputed = Thrown THEN None ELSE recomputed
    BY <1>1 DEF PackReport
<1> QED
    BY <1>2

LEMMA ReviewedHolds ==
    ASSUME EvidenceInv, PackInv, SealedInv
    PROVE  ReviewedAsSigned
<1> DEFINE pack == retained.pack
           expected == pack.packDigest
           recomputed == assembleAp2DisputeEvidence(pack)
           report == PackReport(pack, expected, recomputed)
           checkout == Field(Closed(TokenIn(held.sources, "checkout_mandate")), "checkout_jwt")
           signed == Closed(TokenIn(held.sources, "payment_mandate"))
           shown == recomputed.selected["payment_mandate"].value.claims
<1>1. SUFFICES ASSUME review # None
               PROVE  /\ review.item.status = "verified" =>
                           /\ \A r \in Range(held.revocations) : r.reportedStatus = "not_revoked"
                           /\ \A kind \in Mandates : \E r \in Range(held.revocations) : r.mandateKind = kind
                           /\ \E v \in Range(held.checkoutVersions) : v.checkoutJwt = checkout
                      /\ review.reconciliation.summary = "consistent" =>
                           Consistent(checkout[2].claims, signed)
    BY <1>1, Zenon DEF ReviewedAsSigned, Consistent
<1>2. held # None
    BY <1>1 DEF PackInv
<1>3. ASSUME held = pack
      PROVE  /\ review.item.status = "verified" => report.status = "verified"
             /\ review.reconciliation.summary = Reconciled(report).summary
    <2>1. /\ review.item = verifyAp2DisputeEvidencePacks(held, expected, retained.status)
          /\ review.reconciliation = reconcileAp2DisputeEvidencePack(held, expected)
        BY <1>1 DEF PackInv
    <2>2. verifyAp2DisputeEvidencePack(held, expected) = report
        BY <1>3 DEF verifyAp2DisputeEvidencePack
    <2> DEFINE status == IF report.packDigest = None THEN "invalid" ELSE report.status
    <2> HIDE DEF report
    <2>3. review.item = [report |-> report, status |-> status,
                         statusChanged |-> retained.status # None /\ status # retained.status]
        BY <2>1, <2>2 DEF verifyAp2DisputeEvidencePacks
    <2>4. review.item.status = status
        BY ONLY <2>3
    <2> QED
        BY <2>1, <2>2, <2>4 DEF reconcileAp2DisputeEvidencePack
<1>4. PackHolds(pack)
    BY <1>2 DEF SealedInv
<1>5. OnlyTheRetainedPack
    BY OnlyTheRetained
<1>6. ASSUME review.item.status = "verified"
      PROVE  /\ \A r \in Range(held.revocations) : r.reportedStatus = "not_revoked"
             /\ \A kind \in Mandates : \E r \in Range(held.revocations) : r.mandateKind = kind
             /\ \E v \in Range(held.checkoutVersions) : v.checkoutJwt = checkout
    <2>1. held = pack
        BY <1>1, <1>5, <1>6 DEF OnlyTheRetainedPack
    <2> HIDE DEF pack
    <2>2. report.status = "verified"
        BY <1>3, <1>6, <2>1
    <2>3. recomputed.status = "evidence_verified" /\ pack.plan.checkoutMandate.expectedCheckoutJwt # Undefined
        BY <2>2, VerifiedPack
    <2>4. checkout = pack.plan.checkoutMandate.expectedCheckoutJwt
        BY <1>4, <2>1, <2>3, RecomputedAsSigned
    <2>5. /\ \A r \in Range(pack.revocations) : r.reportedStatus = "not_revoked"
          /\ \A kind \in Mandates : \E r \in Range(pack.revocations) : r.mandateKind = kind
          /\ \E v \in Range(pack.checkoutVersions) :
                v.checkoutJwt = pack.plan.checkoutMandate.expectedCheckoutJwt
        BY <1>4, <2>2, VerifiedHistory
    <2> QED
        BY ONLY <2>1, <2>4, <2>5
<1>7. ASSUME review.reconciliation.summary = "consistent"
      PROVE  Consistent(checkout[2].claims, signed)
    <2>1. held = pack
        BY <1>1, <1>5, <1>7 DEF OnlyTheRetainedPack
    <2> HIDE DEF pack
    <2>2. Reconciled(report).summary = "consistent"
        BY <1>3, <1>7, <2>1
    <2> DEFINE claims == report.resolution.checkoutJwt.value.claims
               payment == report.resolution.selected["payment_mandate"].value.claims
    <2>3. /\ report.digestValid /\ report.resolution # None /\ report.resolution.status = "evidence_verified"
          /\ Consistent(claims, payment)
          /\ Atom(Field(Field(payment, "payee"), "id"))
          /\ Atom(Field(Field(payment, "payment_amount"), "currency"))
          /\ Atom(Field(Field(payment, "payment_amount"), "amount"))
        BY <2>2, ReconciledIs
    <2>4. report.resolution = recomputed
        BY <2>3, ReportResolution
    <2>5. /\ claims = checkout[2].claims /\ payment = shown
          /\ \A outer : AtomsHold(Field(shown, outer), Field(signed, outer))
        BY <1>4, <2>1, <2>3, <2>4, RecomputedAsSigned
    <2> HIDE DEF claims, payment, shown, signed, checkout
    <2>6. /\ Field(Field(signed, "payee"), "id") = Field(Field(payment, "payee"), "id")
          /\ Field(Field(signed, "payment_amount"), "currency") = Field(Field(payment, "payment_amount"), "currency")
          /\ Field(Field(signed, "payment_amount"), "amount") = Field(Field(payment, "payment_amount"), "amount")
        BY ONLY <2>3, <2>5 DEF AtomsHold
    <2> QED
        BY ONLY <2>3, <2>5, <2>6 DEF Consistent
<1> QED
    BY <1>6, <1>7

\* ReviewedAsSigned: verified means unrevoked as reported, consistent that the
\* agent signed for what the merchant signed for (verifyAp2DisputeEvidencePack,
\* reconcileAp2DisputeEvidencePack).
THEOREM ReviewsAreAsSigned == Spec => []ReviewedAsSigned
<1>1. Init => EvidenceInv /\ PackInv /\ SealedInv
    BY DEF Init, EvidenceInit, EvidenceInv, PackInv, SealedInv
<1>2. EvidenceInv /\ [Next]_vars => EvidenceInv'
    BY EvidenceStep
<1>3. PackInv /\ [Next]_vars => PackInv'
    BY PackKeeps
<1>4. EvidenceInv /\ SealedInv /\ [Next]_vars => SealedInv'
    BY SealedKeeps
<1>5. EvidenceInv /\ PackInv /\ SealedInv => ReviewedAsSigned
    BY ReviewedHolds
<1> QED
    BY <1>1, <1>2, <1>3, <1>4, <1>5, PTL DEF Spec

----------------------------------------------------------------------------
(* The constraints, as they were signed.                                     *)
\* What a constraint that earns no code says.
Judges(constraint, options, closed) ==
    \/ /\ Type(constraint) = Str("checkout.allowed_merchants")
       /\ verifyAllowedMerchantConstraint(constraint, options.expectedMerchant, closed, TRUE)
    \/ /\ Type(constraint) = Str("checkout.line_items")
       /\ ~lineItemsDisclosureWithheld(constraint) /\ verifyLineItemsConstraint(constraint, closed)
    \/ Type(constraint) = Str("payment.reference") /\ verifyPaymentReference(constraint, options)
    \/ Type(constraint)[2] \in PaymentTypes /\ evaluatePaymentConstraint(constraint, closed) = "ok"

LEMMA CodeIsOk ==
    ASSUME NEW constraint, NEW options, NEW closed, ConstraintCode(constraint, options, closed, TRUE) = "ok"
    PROVE  IsString(Type(constraint)) /\ ~(Withheld(constraint) > 0) /\ Judges(constraint, options, closed)
<1> DEFINE type == Type(constraint)
           merchant == verifyAllowedMerchantConstraint(constraint, options.expectedMerchant, closed, TRUE)
           lines == verifyLineItemsConstraint(constraint, closed)
           reference == verifyPaymentReference(constraint, options)
           evaluated == evaluatePaymentConstraint(constraint, closed)
           withheld == lineItemsDisclosureWithheld(constraint)
           checkout == options.expectedVct = CheckoutVct
           paying == options.expectedVct = PaymentVct
           code == IF ~IsString(type) THEN "AP2_CONSTRAINT_INVALID"
                   ELSE IF Withheld(constraint) > 0 THEN "AP2_CONSTRAINT_DISCLOSURE_WITHHELD"
                   ELSE IF type = Str("checkout.allowed_merchants") THEN
                       IF TRUE /\ ~checkout THEN "AP2_CONSTRAINT_UNSUPPORTED" ELSE FailedUnless(merchant)
                   ELSE IF type = Str("checkout.line_items") THEN
                       IF checkout /\ withheld THEN "AP2_CONSTRAINT_DISCLOSURE_WITHHELD"
                       ELSE FailedUnless(checkout /\ lines)
                   ELSE IF type = Str("payment.reference") THEN FailedUnless(reference)
                   ELSE IF TRUE /\ paying /\ type[2] \in PaymentTypes THEN evaluated
                   ELSE "AP2_CONSTRAINT_UNSUPPORTED"
<1>1. code = "ok"
    BY Zenon DEF ConstraintCode
<1> HIDE DEF type, merchant, lines, reference, evaluated, withheld, checkout, paying
<1>2. /\ IsString(type) /\ ~(Withheld(constraint) > 0)
      /\ \/ type = Str("checkout.allowed_merchants") /\ FailedUnless(merchant) = "ok"
         \/ type = Str("checkout.line_items") /\ ~(checkout /\ withheld) /\ FailedUnless(checkout /\ lines) = "ok"
         \/ type = Str("payment.reference") /\ FailedUnless(reference) = "ok"
         \/ type[2] \in PaymentTypes /\ evaluated = "ok"
    BY ONLY <1>1
<1>3. \/ type = Str("checkout.allowed_merchants") /\ merchant
      \/ type = Str("checkout.line_items") /\ ~withheld /\ lines
      \/ type = Str("payment.reference") /\ reference
      \/ type[2] \in PaymentTypes /\ evaluated = "ok"
    BY ONLY <1>2, Zenon DEF FailedUnless
<1> QED
    BY <1>2, <1>3 DEF Judges, type, merchant, lines, reference, evaluated, withheld

\* A list of constraints without an issue is shown whole, and each holds.
LEMMA CleanConstraints ==
    ASSUME NEW open, NEW options, NEW closed, Clean(verifyConstraints(open, options, closed, TRUE))
    PROVE  /\ IsArray(Field(open, "constraints")) /\ ~(Withheld(Field(open, "constraints")) > 0)
           /\ \A constraint \in Entries(open, "constraints") :
                 /\ IsString(Type(constraint)) /\ ~(Withheld(constraint) > 0)
                 /\ Judges(constraint, options, closed)
<1> DEFINE constraints == Field(open, "constraints")
           entries     == Entries(open, "constraints")
           codes       == {ConstraintCode(entry, options, closed, TRUE) : entry \in entries} \ {"ok"}
           required    == \E entry \in entries :
                             Type(entry) \in {Str("checkout.line_items"), Str("payment.reference")}
           coded       == {upstreamIssue(code) : code \in codes}
           withheld    == When(Withheld(constraints) > 0, upstreamIssue("AP2_CONSTRAINT_DISCLOSURE_WITHHELD"))
           missing     == When(TRUE /\ ~required, upstreamIssue("AP2_REQUIRED_CONSTRAINT_MISSING"))
           absent      == When(TRUE, upstreamIssue("AP2_CONSTRAINTS_REQUIRED"))
           invalid     == {upstreamIssue("AP2_CONSTRAINTS_INVALID")}
           all         == coded \cup withheld \cup missing
<1>1. Clean(IF constraints = Undefined THEN absent ELSE IF ~IsArray(constraints) THEN invalid ELSE all)
    BY Zenon DEF verifyConstraints
<1>2. ~Clean(absent) /\ ~Clean(invalid)
    BY DEF Clean, When
<1> HIDE DEF absent, invalid, all
<1>3. IsArray(constraints) /\ Clean(all)
    BY ONLY <1>1, <1>2
<1> HIDE DEF constraints, coded, withheld, missing
<1>4. Clean(coded) /\ Clean(withheld)
    BY ONLY <1>3, CleanParts DEF all
<1>5. ~(Withheld(constraints) > 0)
    BY ONLY <1>4, CleanWhen DEF withheld
<1> HIDE DEF entries
<1>6. ASSUME NEW constraint \in entries
      PROVE  ConstraintCode(constraint, options, closed, TRUE) = "ok"
    <2> DEFINE code == ConstraintCode(constraint, options, closed, TRUE)
    <2>1. SUFFICES ASSUME code # "ok" PROVE FALSE
        OBVIOUS
    <2>2. code \in codes
        BY ONLY <1>6, <2>1
    <2> HIDE DEF codes, code
    <2>3. upstreamIssue(code) \in coded
        BY ONLY <2>2 DEF coded
    <2> QED
        BY ONLY <1>4, <2>3 DEF Clean
<1> QED
    BY <1>3, <1>5, <1>6, CodeIsOk DEF constraints, entries

\* The place of a part of a constraint.
LEMMA PartOfConstraint ==
    ASSUME NEW shown, NEW signed, ConstraintInPlace(shown, signed), NEW name, name # "delegate_payload",
           Field(shown, name) # Undefined
    PROVE  EntriesInPlace(Field(shown, name), Field(signed, name))
<1>1. IsObject(shown) /\ name \in DOMAIN shown[2] /\ Field(shown, name) = shown[2][name]
    BY DEF Field
<1> QED
    BY <1>1 DEF ConstraintInPlace, InPlace

LEMMA EntryIsInArray ==
    ASSUME NEW o, NEW name, NEW entry \in Entries(o, name)
    PROVE  IsArray(Field(o, name)) /\ Field(o, name) # Undefined /\ entry \in Range(Field(o, name)[2])
<1>1. Range(<<>>) = {}
    BY DEF Range
<1>2. IsArray(Field(o, name))
    BY <1>1 DEF Entries, Items
<1> QED
    BY <1>2 DEF Entries, Items, IsArray, Undefined

\* Whatever a list allows was allowed by the signer.
LEMMA AllowedInPlace ==
    ASSUME NEW shown, NEW signed, ConstraintInPlace(shown, signed), NEW entry \in Entries(shown, "allowed")
    PROVE  \E meant \in Entries(signed, "allowed") : AtomsHold(entry, meant)
<1> DEFINE list == Field(shown, "allowed")
           whole == Field(signed, "allowed")
<1>1. IsArray(list) /\ list # Undefined /\ entry \in Range(list[2])
    BY EntryIsInArray
<1>2. EntriesInPlace(list, whole)
    BY <1>1, PartOfConstraint
<1> HIDE DEF list, whole
<1>3. IsArray(whole) /\ \E meant \in Range(whole[2]) : EntryInPlace(entry, meant)
    BY <1>1, <1>2 DEF EntriesInPlace, InPlace
<1>4. PICK meant \in Range(whole[2]) : EntryInPlace(entry, meant)
    BY <1>3
<1>5. meant \in Entries(signed, "allowed")
    BY <1>3, <1>4 DEF Entries, Items, whole
<1> QED
    BY <1>4, <1>5, ObjectInPlace

\* What is shown of an open mandate's constraint and of its closed mandate, against
\* what was signed.
OfSigned(shown, signed, closed, whole) ==
    /\ ConstraintInPlace(shown, signed) /\ ~(Withheld(shown) > 0)
    /\ AtomsHold(shown, signed)
    /\ AtomsHold(closed, whole) /\ \A outer : AtomsHold(Field(closed, outer), Field(whole, outer))

LEMMA SameCheckout ==
    ASSUME NEW closed, NEW whole, AtomsHold(closed, whole), CheckoutClaims(closed) # Undefined
    PROVE  CheckoutClaims(whole) = CheckoutClaims(closed)
<1>1. Field(closed, "checkout_jwt")[1] = "compact"
    BY DEF CheckoutClaims
<1>2. Atom(Field(closed, "checkout_jwt"))
    BY <1>1 DEF Atom
<1>3. Field(whole, "checkout_jwt") = Field(closed, "checkout_jwt")
    BY <1>2 DEF AtomsHold
<1> QED
    BY <1>3 DEF CheckoutClaims

LEMMA FieldOfUndefined ==
    ASSUME NEW name
    PROVE  Field(Undefined, name) = Undefined
BY DEF Field, IsObject, Undefined

LEMMA UndefinedIsNoString == ~IsString(Undefined) /\ ~IsNumber(Undefined) /\ ~Atom(Undefined)
BY DEF IsString, IsNumber, Atom, Undefined

LEMMA NumberIsAtom ==
    ASSUME NEW v, IsNumber(v)
    PROVE  Atom(v)
BY DEF IsNumber, Atom

LEMMA IdAllowed ==
    ASSUME NEW shown, NEW signed, ConstraintInPlace(shown, signed), NEW id, IsString(id),
           NEW candidate \in Entries(shown, "allowed"), Field(candidate, "id") = id
    PROVE  id \in IdsAllowed(signed)
<1>1. PICK meant \in Entries(signed, "allowed") : AtomsHold(candidate, meant)
    BY AllowedInPlace
<1>2. Field(meant, "id") = id
    BY <1>1, StringIsAtom DEF AtomsHold
<1> QED
    BY <1>1, <1>2 DEF IdsAllowed

LEMMA MerchantKept ==
    ASSUME NEW shown, NEW signed, NEW closed, NEW whole, OfSigned(shown, signed, closed, whole), NEW expected,
           verifyAllowedMerchantConstraint(shown, expected, closed, TRUE)
    PROVE  Field(Field(CheckoutClaims(whole), "merchant"), "id") \in IdsAllowed(signed)
<1> DEFINE merchant == Field(CheckoutClaims(closed), "merchant")
<1>1. /\ IsString(Field(merchant, "id"))
      /\ \E candidate \in Entries(shown, "allowed") : Field(candidate, "id") = Field(merchant, "id")
    BY Zenon DEF verifyAllowedMerchantConstraint
<1>2. CheckoutClaims(closed) # Undefined
    BY <1>1, FieldOfUndefined, UndefinedIsNoString
<1>3. CheckoutClaims(whole) = CheckoutClaims(closed)
    BY <1>2, SameCheckout DEF OfSigned
<1> QED
    BY <1>1, <1>3, IdAllowed DEF OfSigned

LEMMA ReferenceKept ==
    ASSUME NEW shown, NEW signed, NEW closed, NEW whole, OfSigned(shown, signed, closed, whole), NEW options,
           verifyPaymentReference(shown, options)
    PROVE  /\ options.expectedVct = PaymentVct /\ options.expectedOpenCheckoutHash # Undefined
           /\ Field(signed, "conditional_transaction_id") = options.expectedOpenCheckoutHash
BY StringIsAtom DEF verifyPaymentReference, OfSigned, AtomsHold

\* A field that was signed into a constraint shown whole is shown.
LEMMA NothingAdded ==
    ASSUME NEW shown, NEW signed, ConstraintInPlace(shown, signed), ~(Withheld(shown) > 0), IsObject(shown),
           NEW name, name # "delegate_payload", Field(shown, name) = Undefined
    PROVE  Field(signed, name) = Undefined
<1>1. IsObject(signed) /\ DOMAIN signed[2] \subseteq DOMAIN shown[2]
    BY DEF ConstraintInPlace, InPlace
<1>2. CASE name \notin DOMAIN shown[2]
    BY <1>1, <1>2 DEF Field
<1>3. CASE name \in DOMAIN shown[2]
    <2>1. shown[2][name] = Undefined
        BY <1>3 DEF Field
    <2>2. EntriesInPlace(Undefined, Field(signed, name))
        BY <1>3, <2>1 DEF ConstraintInPlace, InPlace
    <2>3. ~IsObject(Undefined) /\ ~IsArray(Undefined)
        BY DEF IsObject, IsArray, Undefined
    <2> QED
        BY <2>2, <2>3 DEF EntriesInPlace, InPlace
<1> QED
    BY <1>2, <1>3

LEMMA AmountKept ==
    ASSUME NEW shown, NEW signed, NEW closed, NEW whole, OfSigned(shown, signed, closed, whole),
           ~AmountRangeMalformed(shown), AmountInRange(shown, closed)
    PROVE  LET amount == Field(whole, "payment_amount")
               Limit(name) == Field(signed, name)
           IN  /\ Field(amount, "currency") = Limit("currency")
               /\ Limit("min") # Undefined => Limit("min")[2] <= Field(amount, "amount")[2]
               /\ Field(amount, "amount")[2] <= Limit("max")[2]
<1> DEFINE paid == Field(closed, "payment_amount")
           amount == Field(whole, "payment_amount")
           min == Field(shown, "min")
           max == Field(shown, "max")
           currency == Field(shown, "currency")
<1>1. IsString(currency) /\ IsNumber(max) /\ (min # Undefined => IsNumber(min))
    BY DEF AmountRangeMalformed
<1>2. /\ Field(paid, "currency") = currency /\ IsNumber(Field(paid, "amount"))
      /\ min # Undefined => Field(paid, "amount")[2] >= min[2]
      /\ Field(paid, "amount")[2] <= max[2]
    BY DEF AmountInRange, Given
<1>3. Atom(currency) /\ Atom(max) /\ Atom(Field(paid, "currency")) /\ Atom(Field(paid, "amount"))
    BY <1>1, <1>2, StringIsAtom, NumberIsAtom
<1>4. Field(signed, "currency") = currency /\ Field(signed, "max") = max
    BY <1>3 DEF OfSigned, AtomsHold
<1>5. Field(amount, "currency") = Field(paid, "currency") /\ Field(amount, "amount") = Field(paid, "amount")
    BY <1>3 DEF OfSigned, AtomsHold
<1>6. Field(signed, "min") = min
    <2>1. CASE min = Undefined
        <3>1. IsObject(shown)
            BY <1>3, AtomIsField
        <3> QED
            BY <2>1, <3>1, NothingAdded DEF OfSigned
    <2>2. CASE min # Undefined
        <3>1. Atom(min)
            BY <1>1, <2>2, NumberIsAtom
        <3> QED
            BY <3>1 DEF OfSigned, AtomsHold
    <2> QED
        BY <2>1, <2>2
<1> HIDE DEF paid, amount, min, max, currency
<1>7. min # Undefined => min[2] <= Field(amount, "amount")[2]
    BY ONLY <1>2, <1>5
<1> QED
    BY ONLY <1>2, <1>4, <1>5, <1>6, <1>7 DEF amount

LEMMA PispKept ==
    ASSUME NEW shown, NEW signed, NEW closed, NEW whole, OfSigned(shown, signed, closed, whole),
           PispAllowed(shown, closed)
    PROVE  \E allowed \in Entries(signed, "allowed") : \A name \in PispNames :
               Field(allowed, name) = Field(Field(whole, "pisp"), name)
<1> DEFINE pisp == Field(closed, "pisp")
<1>1. PICK candidate \in Entries(shown, "allowed") : \A name \in PispNames : Field(candidate, name) = Field(pisp, name)
    BY Zenon DEF PispAllowed
<1>2. \A name \in PispNames : Atom(Field(pisp, name))
    BY StringIsAtom DEF PispAllowed
<1>3. \A name \in PispNames : Field(Field(whole, "pisp"), name) = Field(pisp, name)
    BY <1>2 DEF OfSigned, AtomsHold
<1>4. PICK meant \in Entries(signed, "allowed") : AtomsHold(candidate, meant)
    BY AllowedInPlace DEF OfSigned
<1>5. \A name \in PispNames : Field(meant, name) = Field(candidate, name)
    BY <1>1, <1>2, <1>4 DEF AtomsHold
<1> HIDE DEF pisp
<1> QED
    BY <1>1, <1>3, <1>4, <1>5

----------------------------------------------------------------------------
(* The cart, handed out to what was required as it was signed.                *)
\* The same quantities are required, and what a requirement takes it takes still.
TakesMore(requirements, others) ==
    /\ DOMAIN others = DOMAIN requirements
    /\ \A i \in DOMAIN requirements :
          /\ others[i].quantity = requirements[i].quantity
          /\ \A id : Takes(requirements[i], id) => Takes(others[i], id)

LEMMA StillHandedOut ==
    ASSUME NEW requirements, NEW others, NEW lines, HandedOut(requirements, lines), TakesMore(requirements, others)
    PROVE  HandedOut(others, lines)
<1> DEFINE skus == {lines[i].id : i \in DOMAIN lines}
           most == Max({lines[i].quantity : i \in DOMAIN lines} \cup {0})
           HandOut(wanted, share) ==
             /\ \A i \in DOMAIN wanted : wanted[i].quantity = Shared(share, {i} \X skus)
             /\ \A id \in skus : Bought(lines, id) = Shared(share, (DOMAIN wanted) \X {id})
             /\ \A i \in DOMAIN wanted, id \in skus : share[<<i, id>>] > 0 => Takes(wanted[i], id)
<1>1. PICK share \in [(DOMAIN requirements) \X skus -> 0 .. most] : HandOut(requirements, share)
    BY Zenon DEF HandedOut
<1> HIDE DEF skus, most
<1>2. HandOut(others, share)
    BY <1>1 DEF TakesMore
<1>3. share \in [(DOMAIN others) \X skus -> 0 .. most]
    BY <1>1 DEF TakesMore
<1> HIDE DEF HandOut
<1>4. \E other \in [(DOMAIN others) \X skus -> 0 .. most] : HandOut(others, other)
    BY <1>2, <1>3
<1> QED
    BY <1>4, Zenon DEF HandedOut, HandOut, skus, most

\* What one requirement accepts, shown and signed.
AcceptedIds(requirement) == {Id(item) : item \in Entries(requirement, "acceptable_items")}

LEMMA RequirementInPlace ==
    ASSUME NEW shown, NEW signed, EntryInPlace(shown, signed),
           IsArray(Field(shown, "acceptable_items")), IsNumber(Field(shown, "quantity")),
           \A item \in Entries(shown, "acceptable_items") : IsString(Id(item)),
           ~(Entries(shown, "acceptable_items") = {} /\ Withheld(Field(shown, "acceptable_items")) > 0)
    PROVE  /\ Field(signed, "quantity") = Field(shown, "quantity")
           /\ AcceptedIds(shown) = {} => AcceptedIds(signed) = {}
           /\ AcceptedIds(shown) \subseteq AcceptedIds(signed)
<1> DEFINE list == Field(shown, "acceptable_items")
           whole == Field(signed, "acceptable_items")
<1>1. Field(signed, "quantity") = Field(shown, "quantity")
    BY ObjectInPlace, NumberIsAtom DEF AtomsHold
<1>2. IsObject(shown) /\ "acceptable_items" \in DOMAIN shown[2] /\ list = shown[2]["acceptable_items"]
    BY DEF Field, IsArray, Undefined
<1>3. ItemsInPlace(list, whole)
    BY <1>2 DEF EntryInPlace, InPlace
<1>4. Entries(shown, "acceptable_items") = Range(list[2])
    BY DEF Entries, Items
<1> HIDE DEF list, whole
<1>5. IsArray(whole) /\ \A item \in Range(list[2]) : \E meant \in Range(whole[2]) : ItemInPlace(item, meant)
    BY <1>3 DEF ItemsInPlace, InPlace, list
<1>6. Entries(signed, "acceptable_items") = Range(whole[2])
    BY <1>5 DEF Entries, Items, whole
<1>7. ASSUME NEW id \in AcceptedIds(shown) PROVE id \in AcceptedIds(signed)
    <2>1. PICK item \in Range(list[2]) : id = Id(item) /\ IsString(Id(item))
        BY <1>4 DEF AcceptedIds
    <2>2. PICK meant \in Range(whole[2]) : ItemInPlace(item, meant)
        BY <1>5
    <2>3. Id(meant) = id
        BY <2>1, <2>2, ObjectInPlace, StringIsAtom DEF AtomsHold, Id
    <2> QED
        BY <1>6, <2>3 DEF AcceptedIds
<1>8. ASSUME AcceptedIds(shown) = {} PROVE AcceptedIds(signed) = {}
    <2>1. Range(list[2]) = {}
        BY <1>4, <1>8 DEF AcceptedIds
    <2>2. ~(Withheld(list) > 0)
        BY <1>4, <2>1 DEF list
    <2>3. DOMAIN whole[2] = DOMAIN list[2]
        BY <1>3, <2>2 DEF ItemsInPlace, InPlace, list
    <2>4. DOMAIN list[2] = {}
        BY <2>1 DEF Range
    <2>5. Range(whole[2]) = {}
        BY <2>3, <2>4 DEF Range
    <2> QED
        BY <1>6, <2>5 DEF AcceptedIds
<1> QED
    BY <1>1, <1>7, <1>8

LEMMA RequirementsAre ==
    ASSUME NEW constraint, NEW items, items = Items(Field(constraint, "items"))
    PROVE  /\ DOMAIN RequirementsOf(constraint) = DOMAIN items
           /\ \A i \in DOMAIN items :
                 /\ RequirementsOf(constraint)[i].acceptable = AcceptedIds(items[i])
                 /\ RequirementsOf(constraint)[i].quantity = Field(items[i], "quantity")[2]
BY DEF RequirementsOf, AcceptedIds

LEMMA RequirementsTakeMore ==
    ASSUME NEW shown, NEW signed, ConstraintInPlace(shown, signed), NEW closed,
           IsArray(Field(shown, "items")), ~lineItemsDisclosureWithheld(shown), LineItemsWellFormed(shown, closed)
    PROVE  TakesMore(RequirementsOf(shown), RequirementsOf(signed))
<1> DEFINE list == Field(shown, "items")
           whole == Field(signed, "items")
<1>1. list # Undefined
    BY DEF IsArray, Undefined
<1>2. EntriesInPlace(list, whole)
    BY <1>1, PartOfConstraint
<1>3. ~(Withheld(list) > 0)
    BY DEF lineItemsDisclosureWithheld
<1>4. Items(list) = list[2] /\ Entries(shown, "items") = Range(list[2])
    BY DEF Entries, Items
<1> HIDE DEF list, whole
<1>5. /\ IsArray(whole) /\ DOMAIN whole[2] = DOMAIN list[2]
      /\ \A i \in DOMAIN list[2] : EntryInPlace(list[2][i], whole[2][i])
    BY <1>2, <1>3 DEF EntriesInPlace, InPlace, list
<1>6. Items(whole) = whole[2]
    BY <1>5 DEF Items
<1>7. /\ DOMAIN RequirementsOf(shown) = DOMAIN list[2] /\ DOMAIN RequirementsOf(signed) = DOMAIN list[2]
      /\ \A i \in DOMAIN list[2] :
            /\ RequirementsOf(shown)[i].acceptable = AcceptedIds(list[2][i])
            /\ RequirementsOf(shown)[i].quantity = Field(list[2][i], "quantity")[2]
            /\ RequirementsOf(signed)[i].acceptable = AcceptedIds(whole[2][i])
            /\ RequirementsOf(signed)[i].quantity = Field(whole[2][i], "quantity")[2]
    BY <1>4, <1>5, <1>6, RequirementsAre DEF list, whole
<1>8. ASSUME NEW i \in DOMAIN list[2]
      PROVE  /\ RequirementsOf(signed)[i].quantity = RequirementsOf(shown)[i].quantity
             /\ \A id : Takes(RequirementsOf(shown)[i], id) => Takes(RequirementsOf(signed)[i], id)
    <2> DEFINE requirement == list[2][i]
    <2>1. requirement \in Entries(shown, "items")
        BY <1>4 DEF Range
    <2>2. /\ IsArray(Field(requirement, "acceptable_items")) /\ IsNumber(Field(requirement, "quantity"))
          /\ \A item \in Entries(requirement, "acceptable_items") : IsString(Id(item))
        BY <2>1 DEF LineItemsWellFormed
    <2>3. Entries(requirement, "acceptable_items") = Range(Items(Field(requirement, "acceptable_items")))
        BY DEF Entries
    <2>4. ~(Entries(requirement, "acceptable_items") = {} /\ Withheld(Field(requirement, "acceptable_items")) > 0)
        BY <2>1, <2>2, <2>3 DEF lineItemsDisclosureWithheld
    <2>5. EntryInPlace(requirement, whole[2][i])
        BY <1>5
    <2> HIDE DEF requirement
    <2>6. /\ Field(whole[2][i], "quantity") = Field(requirement, "quantity")
          /\ AcceptedIds(requirement) = {} => AcceptedIds(whole[2][i]) = {}
          /\ AcceptedIds(requirement) \subseteq AcceptedIds(whole[2][i])
        BY <2>2, <2>4, <2>5, RequirementInPlace
    <2> QED
        BY <1>7, <2>6 DEF Takes, requirement
<1> QED
    BY <1>7, <1>8 DEF TakesMore

LEMMA LineItemsKept ==
    ASSUME NEW shown, NEW signed, NEW closed, NEW whole, OfSigned(shown, signed, closed, whole),
           ~lineItemsDisclosureWithheld(shown), verifyLineItemsConstraint(shown, closed),
           HandedOut(RequirementsOf(shown), LinesOf(closed))
    PROVE  HandedOut(RequirementsOf(signed), LinesOf(whole))
<1>1. /\ LineItemsWellFormed(shown, closed)
      /\ Bounded(RequirementsOf(shown)) /\ Bounded(LinesOf(closed))
    BY DEF verifyLineItemsConstraint, verifyLineItems
<1>2. Len(RequirementsOf(shown)) \in 1 .. MaxLineItems /\ Len(LinesOf(closed)) \in 1 .. MaxLineItems
    BY <1>1 DEF Bounded
<1>3. \A list : list = [i \in DOMAIN <<>> |-> list[i]] => Len(list) \notin 1 .. MaxLineItems
    <2>1. SUFFICES ASSUME NEW list, list = [i \in DOMAIN <<>> |-> list[i]] PROVE Len(list) = 0
        OBVIOUS
    <2>2. list = [i \in 1 .. 0 |-> list[i]]
        BY <2>1
    <2> QED
        BY <2>2, ListIs
<1>4. IsArray(Field(shown, "items"))
    <2>1. SUFFICES ASSUME ~IsArray(Field(shown, "items")) PROVE FALSE
        OBVIOUS
    <2>2. Items(Field(shown, "items")) = <<>>
        BY <2>1 DEF Items
    <2>3. RequirementsOf(shown) = [i \in DOMAIN <<>> |-> RequirementsOf(shown)[i]]
        BY <2>2 DEF RequirementsOf
    <2> QED
        BY <1>2, <1>3, <2>3
<1>5. CheckoutClaims(closed) # Undefined
    <2>1. SUFFICES ASSUME CheckoutClaims(closed) = Undefined PROVE FALSE
        OBVIOUS
    <2>2. LineItemsOf(closed) = <<>>
        BY <2>1, FieldOfUndefined DEF LineItemsOf, Items, IsArray, Undefined
    <2>3. LinesOf(closed) = [i \in DOMAIN <<>> |-> LinesOf(closed)[i]]
        BY <2>2 DEF LinesOf
    <2> QED
        BY <1>2, <1>3, <2>3
<1>6. LinesOf(whole) = LinesOf(closed)
    BY <1>5, SameCheckout DEF OfSigned, LinesOf, LineItemsOf
<1>7. TakesMore(RequirementsOf(shown), RequirementsOf(signed))
    BY <1>1, <1>4, RequirementsTakeMore DEF OfSigned
<1> QED
    BY <1>6, <1>7, StillHandedOut

----------------------------------------------------------------------------
(* Every constraint is kept.                                                 *)
LEMMA EvaluatedHolds ==
    ASSUME NEW shown, NEW closed, evaluatePaymentConstraint(shown, closed) = "ok"
    PROVE  LET type == Type(shown)[2]
           IN  /\ type = "payment.amount_range" => ~AmountRangeMalformed(shown)
               /\ PaymentHolds(type, shown, closed)
<1> DEFINE type == Type(shown)[2]
           malformed == AmountRangeMalformed(shown)
           holds == PaymentHolds(type, shown, closed)
<1>1. "ok" = IF type = "payment.amount_range" /\ malformed THEN "AP2_CONSTRAINT_INVALID"
             ELSE IF holds THEN "ok" ELSE "AP2_CONSTRAINT_FAILED"
    BY Zenon DEF evaluatePaymentConstraint
<1> HIDE DEF type, malformed, holds
<1>2. ~(type = "payment.amount_range" /\ malformed) /\ holds
    BY ONLY <1>1
<1> QED
    BY <1>2 DEF type, malformed, holds

LEMMA TypeAsSigned ==
    ASSUME NEW shown, NEW signed, AtomsHold(shown, signed), IsString(Type(shown))
    PROVE  Type(signed) = Type(shown)
BY StringIsAtom DEF Type, AtomsHold

LEMMA IdIsKept ==
    ASSUME NEW shown, NEW signed, NEW closed, NEW whole, OfSigned(shown, signed, closed, whole),
           NEW outer, allowedById(shown, Field(Field(closed, outer), "id"))
    PROVE  Field(Field(whole, outer), "id") \in IdsAllowed(signed)
<1> DEFINE id == Field(Field(closed, outer), "id")
<1>1. IsString(id) /\ \E candidate \in Entries(shown, "allowed") : Field(candidate, "id") = id
    BY Zenon DEF allowedById
<1>2. Field(Field(whole, outer), "id") = id
    BY <1>1, StringIsAtom DEF OfSigned, AtomsHold
<1> HIDE DEF id
<1> QED
    BY <1>1, <1>2, IdAllowed DEF OfSigned

LEMMA ConstraintIsKept ==
    ASSUME NEW shown, NEW signed, NEW closed, NEW whole, OfSigned(shown, signed, closed, whole), IsString(Type(shown)),
           NEW options, Judges(shown, options, closed),
           NEW openHash, options.expectedVct = PaymentVct => openHash = options.expectedOpenCheckoutHash,
           Type(shown) = Str("checkout.line_items") /\ verifyLineItemsConstraint(shown, closed) =>
               HandedOut(RequirementsOf(shown), LinesOf(closed))
    PROVE  Kept(signed, whole, openHash)
<1> DEFINE type == Type(signed)[2]
<1>1. type = Type(shown)[2] /\ \A name : Str(name)[2] = name
    BY TypeAsSigned DEF OfSigned, Str
<1>2. CASE Type(shown) = Str("checkout.allowed_merchants")
           /\ verifyAllowedMerchantConstraint(shown, options.expectedMerchant, closed, TRUE)
    <2>1. type = "checkout.allowed_merchants"
        BY <1>1, <1>2
    <2>2. Field(Field(CheckoutClaims(whole), "merchant"), "id") \in IdsAllowed(signed)
        BY <1>2, MerchantKept
    <2> QED
        BY ONLY <2>1, <2>2, Zenon DEF Kept
<1>3. CASE Type(shown) = Str("checkout.line_items")
           /\ ~lineItemsDisclosureWithheld(shown) /\ verifyLineItemsConstraint(shown, closed)
    <2>1. type = "checkout.line_items"
        BY <1>1, <1>3
    <2>2. HandedOut(RequirementsOf(signed), LinesOf(whole))
        BY <1>3, LineItemsKept
    <2> QED
        BY ONLY <2>1, <2>2, Zenon DEF Kept
<1>4. CASE Type(shown) = Str("payment.reference") /\ verifyPaymentReference(shown, options)
    <2>1. type = "payment.reference"
        BY <1>1, <1>4
    <2>2. openHash # Undefined /\ Field(signed, "conditional_transaction_id") = openHash
        BY <1>4, ReferenceKept
    <2> QED
        BY ONLY <2>1, <2>2, Zenon DEF Kept
<1>5. CASE Type(shown)[2] \in PaymentTypes /\ evaluatePaymentConstraint(shown, closed) = "ok"
    <2>1. /\ type = "payment.amount_range" => ~AmountRangeMalformed(shown)
          /\ PaymentHolds(type, shown, closed) /\ type \in PaymentTypes
        BY <1>1, <1>5, EvaluatedHolds
    <2> HIDE DEF type
    <2>2. CASE type = "payment.amount_range"
        <3>1. AmountInRange(shown, closed)
            BY <2>1, <2>2 DEF PaymentHolds
        <3>2. LET amount == Field(whole, "payment_amount")
                  Limit(name) == Field(signed, name)
              IN  /\ Field(amount, "currency") = Limit("currency")
                  /\ Limit("min") # Undefined => Limit("min")[2] <= Field(amount, "amount")[2]
                  /\ Field(amount, "amount")[2] <= Limit("max")[2]
            BY <2>1, <2>2, <3>1, AmountKept
        <3> QED
            BY ONLY <2>2, <3>2, Zenon DEF Kept, type
    <2>3. CASE type = "payment.allowed_payees"
        <3>1. allowedById(shown, Field(Field(closed, "payee"), "id"))
            BY <2>1, <2>3 DEF PaymentHolds
        <3>2. Field(Field(whole, "payee"), "id") \in IdsAllowed(signed)
            BY <3>1, IdIsKept
        <3> QED
            BY ONLY <2>3, <3>2, Zenon DEF Kept, type
    <2>4. CASE type = "payment.allowed_payment_instruments"
        <3>1. allowedById(shown, Field(Field(closed, "payment_instrument"), "id"))
            BY <2>1, <2>4 DEF PaymentHolds
        <3>2. Field(Field(whole, "payment_instrument"), "id") \in IdsAllowed(signed)
            BY <3>1, IdIsKept
        <3> QED
            BY ONLY <2>4, <3>2, Zenon DEF Kept, type
    <2>5. CASE type = "payment.allowed_pisps"
        <3>1. PispAllowed(shown, closed)
            BY <2>1, <2>5 DEF PaymentHolds
        <3>2. \E allowed \in Entries(signed, "allowed") : \A name \in PispNames :
                  Field(allowed, name) = Field(Field(whole, "pisp"), name)
            BY <3>1, PispKept
        <3> QED
            BY ONLY <2>5, <3>2, Zenon DEF Kept, type
    <2> QED
        BY <2>1, <2>2, <2>3, <2>4, <2>5 DEF PaymentTypes
<1> QED
    BY <1>2, <1>3, <1>4, <1>5 DEF Judges

LEMMA AcceptedIsKept ==
    ASSUME NEW artifact \in OfferedArtifacts, NEW token, token = artifact.token, NEW options, Accepted(token, options),
           NEW openHash, options.expectedVct = PaymentVct => openHash = options.expectedOpenCheckoutHash
    PROVE  KeptBy(token, openHash)
<1> DEFINE segments == token[2]
           n == Len(segments)
<1>1. token[1] = "chain" /\ n \in Nat \ {0} /\ DOMAIN segments = 1 .. n
    BY DEF Accepted
<1>2. SUFFICES ASSUME NEW i \in 1 .. (n - 1), NEW signed \in Entries(SignedPayload(segments[i]), "constraints")
               PROVE  Kept(signed, Closed(token), openHash)
    BY DEF KeptBy
<1> DEFINE open == ShownPayload(segments[i])
           closed == ShownPayload(segments[n])
           whole == SignedPayload(segments[n])
           list == Field(open, "constraints")
           signedList == Field(SignedPayload(segments[i]), "constraints")
<1>3. i \in 1 .. n /\ n \in 1 .. n
    BY <1>1, <1>2
<1>4. AsSigned(segments[i]) /\ AsSigned(segments[n])
    BY <1>3, AcceptedAsSigned
<1>5. Closed(token) = whole
    BY DEF Closed, Last
<1>6. Clean(verifyAp2OpenInheritance(open, closed, options))
    BY <1>2 DEF Accepted
<1>7. Clean(verifyConstraints(open, options, closed, TRUE))
    BY <1>6, CleanParts DEF verifyAp2OpenInheritance
<1>8. segments \in ChainsOffered
    BY <1>1 DEF ChainsOffered
<1>9. \A constraint \in Entries(open, "constraints") :
          Type(constraint) = Str("checkout.line_items") /\ verifyLineItemsConstraint(constraint, closed) =>
              HandedOut(RequirementsOf(constraint), LinesOf(closed))
    BY <1>1, <1>3, <1>8, FullFlowIsHandedOut DEF ShownPayload
<1>10. /\ IsArray(list) /\ ~(Withheld(list) > 0)
       /\ \A constraint \in Entries(open, "constraints") :
             /\ IsString(Type(constraint)) /\ ~(Withheld(constraint) > 0)
             /\ Judges(constraint, options, closed)
    BY <1>7, CleanConstraints
<1>11. /\ AtomsHold(closed, whole) /\ \A outer : AtomsHold(Field(closed, outer), Field(whole, outer))
       /\ PayloadInPlace(open, SignedPayload(segments[i]))
    BY <1>4 DEF AsSigned
<1> HIDE DEF open, closed, whole
<1>12. ConstraintsInPlace(list, signedList)
    <2>1. IsObject(open) /\ "constraints" \in DOMAIN open[2] /\ list = open[2]["constraints"]
        BY <1>10 DEF Field, IsArray, Undefined
    <2> QED
        BY <1>11, <2>1 DEF PayloadInPlace, InPlace
<1> HIDE DEF list, signedList
<1>13. /\ IsArray(signedList) /\ DOMAIN signedList[2] = DOMAIN list[2]
       /\ \A j \in DOMAIN list[2] : ConstraintInPlace(list[2][j], signedList[2][j])
    BY <1>10, <1>12 DEF ConstraintsInPlace, InPlace
<1>14. PICK j \in DOMAIN list[2] : signed = signedList[2][j]
    BY <1>2, <1>13 DEF Entries, Items, Range, signedList
<1> DEFINE shown == list[2][j]
<1>15. shown \in Entries(open, "constraints")
    BY <1>10 DEF Entries, Items, Range, list
<1>16. ConstraintInPlace(shown, signed)
    BY <1>13, <1>14
<1> HIDE DEF shown
<1>17. OfSigned(shown, signed, closed, whole)
    BY <1>10, <1>11, <1>15, <1>16, ObjectInPlace DEF OfSigned
<1> QED
    BY <1>5, <1>9, <1>10, <1>15, <1>17, ConstraintIsKept

LEMMA ConstraintsKept ==
    ASSUME EvidenceInv
    PROVE  ConstraintsAsSigned
<1>1. SUFFICES ASSUME NEW kind \in Mandates \cap DOMAIN Selection
               PROVE  KeptBy(Selection[kind].token, OpenCheckoutHash(Selection))
    BY Zenon DEF ConstraintsAsSigned
<1> DEFINE input == InputOf(dispute, gathered.sources)
           cm == CheckoutMandateOf(input)
           options == OptionsOf(kind, input, OpenHashFor(kind, input))
           token == Selection[kind].token
<1>2. /\ PlanOf(kind, input) = PlanFor(kind) /\ PlanHolds(PlanOf(kind, input))
      /\ \E artifact \in OfferedArtifacts : artifact.token = token
      /\ Accepted(token, options)
    BY SelectedIsAccepted
<1>3. /\ options.expectedVct = (IF kind = "checkout_mandate" THEN CheckoutVct ELSE PaymentVct)
      /\ options.expectedOpenCheckoutHash = (IF OpenHashFor(kind, input) = Undefined
                                             THEN PlanOf(kind, input).expectedOpenCheckoutHash
                                             ELSE OpenHashFor(kind, input))
    BY <1>2, OptionsAre
<1>4. "checkout_mandate" \in DOMAIN Selection <=> cm.chosen # None
    BY <1>1, SelectionDomain
<1>5. "checkout_mandate" \in DOMAIN Selection => Selection["checkout_mandate"] = cm.chosen
    BY SelectionIs DEF SelectionsOf
<1> HIDE DEF input, cm, token, options
<1>6. ASSUME options.expectedVct = PaymentVct
      PROVE  OpenCheckoutHash(Selection) = options.expectedOpenCheckoutHash
    <2>1. kind = "payment_mandate"
        BY <1>1, <1>3, <1>6 DEF Mandates, CheckoutVct, PaymentVct
    <2>2. OpenHashFor(kind, input) = OpenHashOf(cm)
        BY <2>1 DEF OpenHashFor, cm
    <2>3. CASE cm.chosen = None
        BY <1>2, <1>3, <1>4, <2>1, <2>2, <2>3 DEF OpenHashOf, OpenCheckoutHash
    <2>4. CASE cm.chosen # None
        <3>1. OpenHashOf(cm) = computeAp2OpenMandateHash(cm.chosen.token)
            BY <2>4 DEF OpenHashOf
        <3>2. OpenHashOf(cm) # Undefined
            BY <3>1 DEF computeAp2OpenMandateHash, Digest, Undefined
        <3> QED
            BY <1>3, <1>4, <1>5, <2>2, <2>4, <3>1, <3>2 DEF OpenCheckoutHash
    <2> QED
        BY <2>3, <2>4
<1> QED
    BY <1>2, <1>6, AcceptedIsKept DEF token

\* ConstraintsAsSigned: every constraint that an open mandate was signed with, shown or
\* withheld, is kept by the closed mandate the resolver selects (verifyConstraints of
\* src/ucp-ap2/mandate-verify.ts, and the withheld-disclosure checks it relies on).
THEOREM SelectedKeepsConstraints == Spec => []ConstraintsAsSigned
<1>1. Init => EvidenceInv
    BY DEF Init, EvidenceInit, EvidenceInv
<1>2. EvidenceInv /\ [Next]_vars => EvidenceInv'
    BY EvidenceStep
<1>3. EvidenceInv => ConstraintsAsSigned
    BY ConstraintsKept
<1> QED
    BY <1>1, <1>2, <1>3, PTL DEF Spec
=============================================================================
