--------------------------- MODULE DisputeEvidence ---------------------------
(***************************************************************************)
(* The AP2 dispute resolver of src/ap2-dispute.ts.  Retrievers named by the     *)
(* caller answer in any order, or never; once all have, their artifacts are      *)
(* judged together and the dispute is evidence_verified or unresolved.           *)
(***************************************************************************)
EXTENDS Receipts

CONSTANTS Cases,          \* name of a dispute -> [transactionId, asOf, plan, offers]
          Retrievers,     \* their ids, in code-unit order
          RoleOf,         \* id -> role
          MaxArtifacts    \* 64 artifacts in one resolution

\* No two retrievers have one id, and a status is no absent one.
ASSUME RetrieversAssumption ==
    /\ Retrievers \in Seq(Range(Retrievers))
    /\ \A i, j \in DOMAIN Retrievers : Retrievers[i] = Retrievers[j] => i = j
    /\ None # "verified"

AP2_DISPUTE_ARTIFACT_KINDS == {"checkout_mandate", "checkout_receipt", "payment_mandate", "payment_receipt"}

ALLOWED_SOURCE_ROLES ==
    LET payment == {"shopping_agent", "credential_provider", "network", "merchant_payment_processor"}
    IN  [checkout_mandate |-> {"shopping_agent", "merchant"},
         checkout_receipt |-> {"shopping_agent", "merchant"},
         payment_mandate  |-> payment,
         payment_receipt  |-> payment]

RetrievalSkew == 60 * Second

\* An issue of the resolution: what it says, how it weighs, and whom it names.
makeIssue(code, about, impact, sources) == <<code, about, impact, sources>>

UnsupportedCodes == {"AP2_CONSTRAINT_UNSUPPORTED", "AP2_CLOSED_MANDATE_TYPE_UNSUPPORTED"}

issueImpact(issue) ==
    IF issue[1] \in UnsupportedCodes THEN "unsupported"
    ELSE IF issue[2] = "evidence_eligibility" THEN "eligibility" ELSE "invalid"

importVerificationIssues(about, sources, report) ==
    {makeIssue(issue[1], about, issueImpact(issue), sources) : issue \in report.issues}

----------------------------------------------------------------------------
(* Collecting.  A source is [sourceId, role, retrievedAt, artifacts] and an      *)
(* artifact [kind, token].  A selection is [chosen, issues], chosen None.        *)
OnTime(source, asOf) == source.retrievedAt <= asOf + RetrievalSkew

InRole(source, artifact) == source.role \in ALLOWED_SOURCE_ROLES[artifact.kind]

\* Each artifact by its source and its place there: their number, for distinct ids.
ArtifactCount(sources) ==
    Cardinality(UNION {{source.sourceId} \X DOMAIN source.artifacts : source \in Range(sources)})

\* What validateAndCollect does not throw away the whole request for.
Collectable(sources) ==
    /\ \A i, j \in DOMAIN sources : sources[i].sourceId = sources[j].sourceId => i = j
    /\ ArtifactCount(sources) <= MaxArtifacts

Candidate(artifact, source) == [kind |-> artifact.kind, token |-> artifact.token, sourceId |-> source.sourceId]

Admitted(source, asOf) ==
    {artifact \in Range(source.artifacts) : OnTime(source, asOf) /\ InRole(source, artifact)}

KindsOf(artifacts) == {artifact.kind : artifact \in Range(artifacts)}

\* Mutant: a kind is taken from the first source that has it.
FirstCandidates(input) ==
    UNION {{Candidate(artifact, input.sources[i]) : artifact \in
              {a \in Admitted(input.sources[i], input.asOf) :
                 \A k \in 1 .. (i - 1) : a.kind \notin KindsOf(input.sources[k].artifacts)}} :
           i \in DOMAIN input.sources}

\* A set: how often a source repeats an artifact decides nothing.
Candidates(input) ==
    UNION {{Candidate(artifact, source) : artifact \in Admitted(source, input.asOf)} :
           source \in Range(input.sources)}

CollectIssues(input) ==
    LET Named(code, source) == makeIssue(code, source.sourceId, "invalid", {source.sourceId})
        sources == Range(input.sources)
    IN  {Named("AP2_DISPUTE_RETRIEVAL_TIME_INVALID", s) : s \in {s \in sources : ~OnTime(s, input.asOf)}}
        \cup {Named("AP2_DISPUTE_SOURCE_ROLE_INVALID", s) :
                s \in {s \in sources : \E artifact \in Range(s.artifacts) : ~InRole(s, artifact)}}

Nothing(issues)    == [chosen |-> None, issues |-> issues]

\* All the sources that have this kind must have the same bytes of it.
uniqueCandidate(kind, candidates) ==
    LET matching == {c \in candidates : c.kind = kind}
        tokens   == {c.token : c \in matching}
        sources  == {c.sourceId : c \in matching}
    IN  IF matching = {} THEN Nothing({makeIssue("AP2_DISPUTE_ARTIFACT_MISSING", kind, "missing", {})})
        ELSE IF \E a, b \in tokens : a # b
             THEN Nothing({makeIssue("AP2_DISPUTE_ARTIFACT_CONFLICT", kind, "conflicting", sources)})
        ELSE [chosen |-> [token |-> CHOOSE token \in tokens : TRUE, sourceRefs |-> sources], issues |-> {}]

\* The candidate whose verification leaves nothing to object to.
Judged(kind, candidate, report) ==
    IF candidate.chosen = None THEN candidate
    ELSE LET issues == importVerificationIssues(kind, candidate.chosen.sourceRefs, report)
         IN  IF report.upstreamValid /\ report.evidenceEligible
             THEN [chosen |-> [value |-> report.value, token |-> candidate.chosen.token,
                               sourceRefs |-> candidate.chosen.sourceRefs],
                   issues |-> issues]
             ELSE Nothing(issues)

\* openHash: of the open checkout mandate, Undefined when no checkout mandate was chosen.
safeMandateVerification(kind, token, input, openHash) ==
    LET plan == IF kind = "checkout_mandate" THEN input.plan.checkoutMandate ELSE input.plan.paymentMandate
        own  == [expectedVct |-> IF kind = "checkout_mandate" THEN CheckoutVct ELSE PaymentVct,
                 expectedCheckoutHash |-> input.transactionId, asOf |-> input.asOf,
                 expectedOpenCheckoutHash |-> IF openHash = Undefined THEN plan.expectedOpenCheckoutHash ELSE openHash]
    IN  verifyAp2MandateChain(token, Override(plan, own))

selectMandate(kind, candidate, input, openHash) ==
    Judged(kind, candidate, safeMandateVerification(kind, candidate.chosen.token, input, openHash))

selectReceipt(kind, candidate, mandate, input) ==
    LET plan  == IF kind = "checkout_receipt" THEN input.plan.checkoutReceipt ELSE input.plan.paymentReceipt
        token == IF mandate.chosen = None THEN None ELSE mandate.chosen.token
    IN  Judged(kind, candidate, verifyAp2Receipt(candidate.chosen.token, kind, plan, token, input.asOf))

\* The merchant's JWT inside the chosen checkout mandate, [chosen, issues] again.
verifyEmbeddedCheckoutJwt(mandate, input) ==
    IF mandate.chosen = None THEN Nothing({})
    ELSE LET token == Field(mandate.chosen.value.claims, "checkout_jwt")
         IN  Judged("checkout_jwt", [chosen |-> [token |-> token, sourceRefs |-> mandate.chosen.sourceRefs], issues |-> {}],
                    verifyAp2CheckoutJwt(token, input.plan.checkoutJwt, input.asOf))

----------------------------------------------------------------------------
(* An attempt is [sourceId, status, artifactKinds].                             *)
Attempted(source) ==
    [sourceId |-> source.sourceId, status |-> IF source.artifacts = <<>> THEN "empty" ELSE "provided",
     artifactKinds |-> KindsOf(source.artifacts)]

materializedAttempts(sources) == {Attempted(source) : source \in Range(sources)}

\* Mutant: a retriever that found nothing goes unsaid.
FailuresOnly(attempts) ==
    {makeIssue("AP2_DISPUTE_RETRIEVAL_FAILED", attempt.sourceId, "retrieval", {attempt.sourceId}) :
       attempt \in {a \in attempts : a.status = "failed"}}

RetrievalIssues(attempts) ==
    {makeIssue(IF attempt.status = "failed" THEN "AP2_DISPUTE_RETRIEVAL_FAILED" ELSE "AP2_DISPUTE_RETRIEVAL_EMPTY",
               attempt.sourceId, "retrieval", {attempt.sourceId}) :
       attempt \in {a \in attempts : a.status # "provided"}}

Thrown == [status |-> "thrown"]

\* What the selections come to, with the JWT inside the checkout mandate.
Concluded(input, attempts, selections, jwt) ==
    LET selected == [kind \in {k \in AP2_DISPUTE_ARTIFACT_KINDS : selections[k].chosen # None} |->
                        selections[kind].chosen]
        issues == CollectIssues(input) \cup RetrievalIssues(attempts) \cup jwt.issues
                  \cup (UNION {selections[kind].issues : kind \in AP2_DISPUTE_ARTIFACT_KINDS})
    IN  IF ~Collectable(input.sources) THEN Thrown
        ELSE [status |-> IF /\ DOMAIN selected = AP2_DISPUTE_ARTIFACT_KINDS
                            /\ jwt.chosen # None /\ issues = {}
                         THEN "evidence_verified" ELSE "unresolved",
              selected |-> selected, checkoutJwt |-> jwt.chosen, attempts |-> attempts, issues |-> issues]

\* The checkout mandate first: the others must be bound to it.
assembleInternal(input, attempts) ==
    LET Unique(kind) == uniqueCandidate(kind, Candidates(input))
        Receipt(kind, mandate) == selectReceipt(kind, Unique(kind), mandate, input)
        Paid(cm) == selectMandate("payment_mandate", Unique("payment_mandate"), input,
                                  IF cm.chosen = None THEN Undefined ELSE computeAp2OpenMandateHash(cm.chosen.token))
        Selected(cm, pm) ==
            Concluded(input, attempts,
                      [checkout_mandate |-> cm, checkout_receipt |-> Receipt("checkout_receipt", cm),
                       payment_mandate |-> pm, payment_receipt |-> Receipt("payment_receipt", pm)],
                      verifyEmbeddedCheckoutJwt(cm, input))
        Following(cm) == Selected(cm, Paid(cm))
    IN  Following(selectMandate("checkout_mandate", Unique("checkout_mandate"), input, Undefined))

assembleAp2DisputeEvidence(input) == assembleInternal(input, materializedAttempts(input.sources))

----------------------------------------------------------------------------
(* Resolving.  An answer is Null, Rejected (it threw, or broke the shape of a    *)
(* response) or a Response.                                                     *)
Null     == <<"null">>
Rejected == <<"rejected">>
Response(retrievedAt, artifacts) == <<"response", retrievedAt, artifacts>>

Attempt(id, status) == [sourceId |-> id, status |-> status, artifactKinds |-> {}]

Answered(id, answer) ==
    LET source == [sourceId |-> id, role |-> RoleOf[id], retrievedAt |-> answer[2], artifacts |-> answer[3]]
    IN  IF answer = Null THEN [source |-> None, attempt |-> Attempt(id, "empty")]
        ELSE IF answer = Rejected \/ Len(answer[3]) > MaxArtifacts
             THEN [source |-> None, attempt |-> Attempt(id, "failed")]
        ELSE [source |-> source, attempt |-> Attempted(source)]

\* The sources among the answers, in the order of these.
SourcesIn(answers) ==
    LET kept[n \in 0 .. Len(answers)] ==
            IF n = 0 THEN <<>>
            ELSE IF answers[n].source = None THEN kept[n - 1] ELSE Append(kept[n - 1], answers[n].source)
    IN  kept[Len(answers)]

AttemptsIn(answers) == {answers[i].attempt : i \in DOMAIN answers}

VARIABLES dispute,     \* which case is being resolved
          settled,     \* sequence of <<id, answer>>, as the promises settled
          gathered     \* None until Promise.all has every answer, then [sources, attempts]

evidenceVars == <<dispute, settled, gathered>>

Ids       == Range(Retrievers)
Waiting   == Ids \ {settled[i][1] : i \in DOMAIN settled}
AnswerOf(id) == settled[CHOOSE i \in DOMAIN settled : settled[i][1] = id][2]

\* The answers, in the order of the ids whatever order they came in.
results == [i \in 1 .. Len(Retrievers) |-> Answered(Retrievers[i], AnswerOf(Retrievers[i]))]

InputOf(name, sources) ==
    [transactionId |-> Cases[name].transactionId, asOf |-> Cases[name].asOf, plan |-> Cases[name].plan,
     sources |-> sources]

EvidenceInit ==
    /\ dispute \in DOMAIN Cases
    /\ settled = <<>>
    /\ gathered = None

\* One retriever's promise settles: Promise.all waits for the rest.
Settle(id) ==
    /\ id \in Waiting
    /\ \E answer \in Cases[dispute].offers[id] : settled' = Append(settled, <<id, answer>>)
    /\ UNCHANGED <<dispute, gathered>>

\* Mutant: an answer that failed is waited for again.
ResolveUnlessFailed ==
    /\ Waiting = {} /\ gathered = None
    /\ \A i \in DOMAIN results : results[i].attempt.status # "failed"
    /\ gathered' = [sources |-> SourcesIn(results), attempts |-> AttemptsIn(results)]
    /\ UNCHANGED <<dispute, settled>>

resolveAp2DisputeEvidence ==
    /\ Waiting = {} /\ gathered = None
    /\ gathered' = [sources |-> SourcesIn(results), attempts |-> AttemptsIn(results)]
    /\ UNCHANGED <<dispute, settled>>

\* What the call then returns: a function of what was gathered, and of nothing else.
Resolution == assembleInternal(InputOf(dispute, gathered.sources), gathered.attempts)
=============================================================================
