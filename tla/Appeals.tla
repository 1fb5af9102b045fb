------------------------------ MODULE Appeals ------------------------------
(***************************************************************************)
(* Appeal histories: src/appeals.ts.  An appeal is a sequence of events,    *)
(* each naming the digest of the one before it.  replayAppealEvents reports *)
(* every defect of a history, assertAppealAppendable decides whether one    *)
(* more event may extend it.                                                *)
(*                                                                          *)
(* An event is a record with the fields of AppealEvent that the code reads: *)
(* artifactId, appealId, decisionId, sequence, previousEventDigest,         *)
(* eventType, actor ([id, role]), evidenceBundleDigest and                  *)
(* supersedingDecisionId.  An optional field that is absent holds None.      *)
(***************************************************************************)
EXTENDS Naturals, SequencesExt

CONSTANT None   \* the value of an absent optional field

EventTypes == {"filed", "evidence_added", "review_started", "upheld", "reversed", "withdrawn"}

TERMINAL_EVENTS == {"upheld", "reversed", "withdrawn"}

\* A digest stands for the canonical bytes it was computed from: two digests
\* are equal exactly when the digested values are.
Sha256(value) == <<"sha256", value>>

appealEventDigest(event) == Sha256(event)

----------------------------------------------------------------------------
(* A list of checks is a sequence of <<code, failed>> in the order the code *)
(* makes them.  The verdict is the code of the first that failed, or "ok".   *)
Failed(checks) == {n \in DOMAIN checks : checks[n][2]}

FailedCodes(checks) == {checks[n][1] : n \in Failed(checks)}

Verdict(checks) ==
    LET failed == Failed(checks)
    IN  IF failed = {} THEN "ok" ELSE checks[Min(failed)][1]

\* The verdict of a callee, as a check of its caller.
Callee(verdict) == <<verdict, verdict # "ok">>

(* What a published JSON schema requires of an event before it reaches the *)
(* store: presence of the fields its sequence and type call for.            *)
AppealEventSchema(event) ==
    /\ event.sequence >= 1
    /\ event.eventType \in EventTypes
    /\ event.sequence >= 2 => event.previousEventDigest # None
    /\ event.eventType = "evidence_added" => event.evidenceBundleDigest # None
    /\ event.eventType = "reversed" => event.supersedingDecisionId # None

----------------------------------------------------------------------------
(* replayAppealEvents: how the identifier at position i was used before; the *)
(* map of identifiers holds the digest of the latest event of each.          *)
IdUse(events, i) ==
    IF ~ \E j \in 1 .. (i - 1) : events[j].artifactId = events[i].artifactId THEN "new"
    ELSE IF \E j \in 1 .. (i - 1) :
                /\ events[j] = events[i]
                /\ \A k \in (j + 1) .. (i - 1) : events[k].artifactId # events[i].artifactId
         THEN "same" ELSE "other"

(* replayAppealEvents: the checks of position i, in the order of the code.  *)
ChecksAt(events, i) ==
    LET event  == events[i]
        before == 1 .. (i - 1)
    IN  <<
            <<"ALB_APPEAL_BINDING",      \/ event.appealId # events[1].appealId
                                         \/ event.decisionId # events[1].decisionId>>,
            <<"ALB_APPEAL_SEQUENCE",     \/ event.sequence # i
                                         \/ \E j \in before : events[j].sequence = event.sequence>>,
            <<"ALB_APPEAL_EQUIVOCATION", IdUse(events, i) = "other">>,
            <<"ALB_APPEAL_DUPLICATE",    IdUse(events, i) = "same">>,
            <<"ALB_APPEAL_GENESIS",      IF i = 1
                                         THEN event.eventType # "filed" \/ event.previousEventDigest # None
                                         ELSE event.eventType = "filed">>,
            <<"ALB_APPEAL_CHAIN",        /\ i > 1
                                         /\ event.previousEventDigest # appealEventDigest(events[i - 1])>>,
            <<"ALB_APPEAL_TERMINAL",     \E j \in before : events[j].eventType \in TERMINAL_EVENTS>>,
            <<"ALB_APPEAL_EVIDENCE",     /\ event.eventType = "evidence_added"
                                         /\ event.evidenceBundleDigest = None>>,
            <<"ALB_APPEAL_SUPERSESSION", (event.eventType = "reversed") # (event.supersedingDecisionId # None)>> >>

\* Two events that name the same parent: the history forked.
Forked(events) ==
    \E i, j \in 2 .. Len(events) :
        /\ i # j
        /\ events[i].previousEventDigest # None
        /\ events[i].previousEventDigest = events[j].previousEventDigest

\* A checkpoint is [sequence, headDigest], or None when the caller has none.
checkpointState(events, checkpoint) ==
    IF checkpoint = None THEN "unproven"
    ELSE IF /\ events # <<>>
            /\ events[Len(events)].sequence = checkpoint.sequence
            /\ appealEventDigest(events[Len(events)]) = checkpoint.headDigest
         THEN "verified" ELSE "mismatch"

replayIssues(events, checkpoint) ==
    IF events = <<>> THEN {"ALB_APPEAL_EMPTY"}
    ELSE (UNION {FailedCodes(ChecksAt(events, i)) : i \in 1 .. Len(events)})
         \cup (IF Forked(events) THEN {"ALB_APPEAL_FORK"} ELSE {})
         \cup (IF checkpointState(events, checkpoint) = "mismatch" THEN {"ALB_APPEAL_CHECKPOINT"} ELSE {})

statusFor(events, conflicted) ==
    IF conflicted THEN "conflicted"
    ELSE IF events[Len(events)].eventType \in TERMINAL_EVENTS THEN events[Len(events)].eventType
    ELSE "open"

AppealStatus == {"open", "upheld", "reversed", "withdrawn", "conflicted"}

replayStatus(events) == statusFor(events, replayIssues(events, None) # {})

----------------------------------------------------------------------------
(* assertAppealAppendable: "ok", or the code it throws.  The genesis branch *)
(* returns before the candidate history is replayed.                        *)
GenesisVerdict(event) ==
    Verdict(<< <<"ALB_APPEAL_GENESIS", \/ event.sequence # 1
                                       \/ event.eventType # "filed"
                                       \/ event.previousEventDigest # None>> >>)

\* The first issue of a candidate of which only the last event can have any.
CandidateVerdict(candidate) ==
    Verdict(Append(ChecksAt(candidate, Len(candidate)), <<"ALB_APPEAL_FORK", Forked(candidate)>>))

\* conflicted: the replay of the existing events has issues.
ExtensionVerdict(existing, event, conflicted) ==
    Verdict(<<
        <<"ALB_APPEAL_CONFLICT",  conflicted>>,
        <<"ALB_APPEAL_TERMINAL",  statusFor(existing, conflicted) # "open">>,
        <<"ALB_APPEAL_BINDING",   \/ event.appealId # existing[1].appealId
                                  \/ event.decisionId # existing[1].decisionId>>,
        <<"ALB_APPEAL_FORK",      \/ event.sequence # Len(existing) + 1
                                  \/ event.previousEventDigest
                                        # appealEventDigest(existing[Len(existing)])>>,
        <<"ALB_APPEAL_DUPLICATE", \E i \in 1 .. Len(existing) :
                                      existing[i].artifactId = event.artifactId>>,
        Callee(CandidateVerdict(Append(existing, event))) >>)

AppendVerdict(existing, event) ==
    IF existing = <<>> THEN GenesisVerdict(event)
    ELSE ExtensionVerdict(existing, event, replayIssues(existing, None) # {})
=============================================================================
