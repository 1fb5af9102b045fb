---------------------------- MODULE StoreRecords ----------------------------
(***************************************************************************)
(* The records of the decision and appeal store: src/store.ts.  Every        *)
(* record carries its sequence number, the hash of the record before it, and *)
(* one payload, a liability decision or an appeal event.  This module has    *)
(* the two judges of a history, written twice in the code: the guards that   *)
(* admit one more payload (putDecision, appendAppeal) and the verifier that   *)
(* replays a whole file (verifyStoreRecords).                                *)
(*                                                                          *)
(* A decision is a record [artifactId, caseId, supersedesDecisionId,          *)
(* appealId, maxAppealEvents, reviewerIds, outcome]; the last but one two     *)
(* are its appealPolicy.  Of the schema of a decision the store reads         *)
(* nothing else, so the decisions enumerated are taken to be schema-valid.    *)
(***************************************************************************)
EXTENDS Appeals

\* A line of the file that strict JSON or isRecord refuses.
Garbage == [recordType |-> "garbage"]

REVIEWER_EVENTS == {"review_started", "upheld", "reversed"}

payloadIsValid(recordType, payload) ==
    recordType = "appeal_event" => AppealEventSchema(payload)

isRecord(line) == line # Garbage

recordBody(record) ==
    [sequence |-> record.sequence, previousHash |-> record.previousHash,
     recordType |-> record.recordType, recordId |-> record.recordId,
     entityId |-> record.entityId, payload |-> record.payload]

\* Mutant: the payload is left out of the hash.
StoreRecordHashOfIds(body) == Sha256(<<body.sequence, body.previousHash, body.recordId>>)

storeRecordHash(body) == Sha256(body)

----------------------------------------------------------------------------
(* The indexes kept beside the records: indexRecord adds every record to    *)
(* its map in the same step that pushes it, so each is a view of them.       *)
DecisionsOf(records) ==
    {records[i].payload : i \in {j \in 1 .. Len(records) : records[j].recordType = "decision"}}

NoEvents == <<>>

AddEvent(events, record, appealId) ==
    IF record.recordType = "appeal_event" /\ record.entityId = appealId
    THEN Append(events, record.payload) ELSE events

AppealOf(records, appealId) ==
    LET upTo[n \in 0 .. Len(records)] ==
            IF n = 0 THEN NoEvents ELSE AddEvent(upTo[n - 1], records[n], appealId)
    IN  upTo[Len(records)]

AppealIdsOf(records) ==
    {records[i].entityId : i \in {j \in 1 .. Len(records) : records[j].recordType = "appeal_event"}}

RecordId(recordType, payload) == <<recordType, payload.artifactId>>

EntityId(recordType, payload) ==
    IF recordType = "decision" THEN payload.artifactId ELSE payload.appealId

nextRecord(records, recordType, payload) ==
    LET body == [sequence     |-> Len(records) + 1,
                 previousHash |-> IF records = <<>> THEN None ELSE records[Len(records)].recordHash,
                 recordType   |-> recordType,
                 recordId     |-> RecordId(recordType, payload),
                 entityId     |-> EntityId(recordType, payload),
                 payload      |-> payload]
    IN  [sequence     |-> body.sequence,   previousHash |-> body.previousHash,
         recordType   |-> body.recordType, recordId     |-> body.recordId,
         entityId     |-> body.entityId,   payload      |-> body.payload,
         recordHash   |-> storeRecordHash(body)]

----------------------------------------------------------------------------
(* The rules both judges apply, each over an index of decisions and the     *)
(* events of one appeal.                                                     *)

\* The appeal a superseding decision names was filed against the decision it supersedes.
appealBindsDecision(events, decisionId) ==
    events # <<>> /\ events[1].decisionId = decisionId

\* putDecision and verifyStoreRecords: the supersession a decision claims is refused.
SupersessionRefused(decisions, events, decision) ==
    /\ decision.supersedesDecisionId # None
    /\ \/ ~ \E original \in decisions : /\ original.artifactId = decision.supersedesDecisionId
                                        /\ original.caseId = decision.caseId
       \/ ~ appealBindsDecision(events, decision.supersedesDecisionId)
       \/ \E other \in decisions : /\ other.supersedesDecisionId = decision.supersedesDecisionId
                                   /\ other.appealId = decision.appealId

\* Mutant: the cap is off by one.
AppealPolicyAllowsOneMore(decision, existing, event) ==
    Verdict(<<
        <<"ALB_APPEAL_EVENT_CAP", Len(existing) > decision.maxAppealEvents>>,
        <<"ALB_APPEAL_REVIEWER_UNAUTHORIZED",
            /\ event.eventType \in REVIEWER_EVENTS
            /\ \/ event.actor.role # "reviewer"
               \/ event.actor.id \notin decision.reviewerIds>> >>)

assertAppealPolicyAllows(decision, existing, event) ==
    Verdict(<<
        <<"ALB_APPEAL_EVENT_CAP", Len(existing) >= decision.maxAppealEvents>>,
        <<"ALB_APPEAL_REVIEWER_UNAUTHORIZED",
            /\ event.eventType \in REVIEWER_EVENTS
            /\ \/ event.actor.role # "reviewer"
               \/ event.actor.id \notin decision.reviewerIds>> >>)

\* Mutant: a reversal only has to name a decision.
ReversalRefusedUnlooked(decisions, event) ==
    event.eventType = "reversed" /\ event.supersedingDecisionId = None

ReversalRefused(decisions, event) ==
    /\ event.eventType = "reversed"
    /\ ~ \E superseding \in decisions :
            /\ superseding.artifactId = event.supersedingDecisionId
            /\ superseding.supersedesDecisionId = event.decisionId
            /\ superseding.appealId = event.appealId

----------------------------------------------------------------------------
(* The guards of the live store: "ok" when the payload goes on to persist,  *)
(* "replay" when it is already stored, otherwise the code that is thrown.    *)
\* Mutant: putDecision does not look at the supersession a decision claims.
PutVerdictUnbound(records, decision) ==
    LET decisions == DecisionsOf(records)
    IN  Verdict(<<
            <<"replay",             decision \in decisions>>,
            <<"ALB_STORE_CONFLICT", \E d \in decisions : d.artifactId = decision.artifactId>> >>)

PutVerdict(records, decision) ==
    LET decisions == DecisionsOf(records)
    IN  Verdict(<<
            <<"ALB_STORE_ARTIFACT_INVALID", ~payloadIsValid("decision", decision)>>,
            <<"replay",                     decision \in decisions>>,
            <<"ALB_STORE_CONFLICT",         \E d \in decisions : d.artifactId = decision.artifactId>>,
            <<"ALB_STORE_SUPERSESSION",
                SupersessionRefused(decisions, AppealOf(records, decision.appealId), decision)>> >>)

The(decisions) == CHOOSE d \in decisions : TRUE

\* appendAppeal over the decisions contested by the event (one or none), the
\* events of its appeal and the payloads stored under its identifier.
EventVerdict(decisions, contested, existing, prior, event) ==
    IF ~payloadIsValid("appeal_event", event) THEN "ALB_STORE_ARTIFACT_INVALID"
    ELSE IF contested = {} THEN "ALB_STORE_DECISION_NOT_FOUND"
    ELSE Verdict(<<
            <<"replay",                 event \in prior>>,
            <<"ALB_STORE_CONFLICT",     prior # {}>>,
            Callee(assertAppealPolicyAllows(The(contested), existing, event)),
            Callee(AppendVerdict(existing, event)),
            <<"ALB_STORE_SUPERSESSION", ReversalRefused(decisions, event)>> >>)

AppealVerdict(records, event) ==
    EventVerdict(DecisionsOf(records),
                 {d \in DecisionsOf(records) : d.artifactId = event.decisionId},
                 AppealOf(records, event.appealId),
                 {records[i].payload : i \in {j \in 1 .. Len(records) :
                      records[j].recordId = RecordId("appeal_event", event)}},
                 event)

StoreVerdict(records, recordType, payload) ==
    IF recordType = "decision" THEN PutVerdict(records, payload)
    ELSE AppealVerdict(records, payload)

----------------------------------------------------------------------------
(* verifyStoreRecords: one pass over the lines, keeping what the code keeps. *)
Issue(code, found) == IF found THEN {code} ELSE {}

NoHistory == [issues |-> {}, ids |-> {}, parents |-> <<>>, decisions |-> {},
              appeals |-> <<>>, previousHash |-> None, length |-> 0]

\* appeals maps the appeals seen to the sequences of their accepted events.
AcceptedEvents(appeals, appealId) == IF appealId \in DOMAIN appeals THEN appeals[appealId] ELSE NoEvents

Accept(appeals, event) ==
    [a \in DOMAIN appeals \cup {event.appealId} |->
        IF a = event.appealId THEN Append(AcceptedEvents(appeals, a), event) ELSE appeals[a]]

DecisionIssues(seen, record) ==
    LET decision == record.payload
    IN  Issue("ALB_STORE_DECISION_BINDING",
              \/ record.entityId # decision.artifactId
              \/ record.recordId # RecordId("decision", decision)
              \/ \E d \in seen.decisions : d.artifactId = decision.artifactId)
        \cup Issue("ALB_STORE_SUPERSESSION",
              SupersessionRefused(seen.decisions, AcceptedEvents(seen.appeals, decision.appealId), decision))

EventIssues(seen, record) ==
    LET event     == record.payload
        existing  == AcceptedEvents(seen.appeals, event.appealId)
        contested == {d \in seen.decisions : d.artifactId = event.decisionId}
        unbound   == \/ record.entityId # event.appealId
                     \/ record.recordId # RecordId("appeal_event", event)
        refusals  == IF contested = {} THEN {"ALB_STORE_DECISION_NOT_FOUND"}
                     ELSE {Verdict(<<
                         Callee(assertAppealPolicyAllows(The(contested), existing, event)),
                         Callee(AppendVerdict(existing, event)),
                         <<"ALB_STORE_SUPERSESSION", ~unbound /\ ReversalRefused(seen.decisions, event)>> >>)}
    IN  Issue("ALB_STORE_APPEAL_BINDING", unbound) \cup (refusals \ {"ok"})

TransitionIssues(seen, record) ==
    IF ~payloadIsValid(record.recordType, record.payload) THEN {"ALB_STORE_ARTIFACT"}
    ELSE IF record.recordType = "decision" THEN DecisionIssues(seen, record)
    ELSE EventIssues(seen, record)

\* One record, given the issues of its transition and the hashes its identifier had before.
VerifyRecord(seen, record, transition, reuse) ==
    [issues |-> seen.issues \cup transition
         \cup Issue("ALB_STORE_SEQUENCE", record.sequence # seen.length + 1)
         \cup Issue("ALB_STORE_CHAIN", record.previousHash # seen.previousHash)
         \cup Issue("ALB_STORE_HASH", record.recordHash # storeRecordHash(recordBody(record)))
         \cup Issue("ALB_STORE_EQUIVOCATION", reuse \ {record.recordHash} # {})
         \cup Issue("ALB_STORE_DUPLICATE", record.recordHash \in reuse),
     ids |-> {p \in seen.ids : p[1] # record.recordId} \cup {<<record.recordId, record.recordHash>>},
     parents |-> IF record.previousHash = None THEN seen.parents
                 ELSE Append(seen.parents, record.previousHash),
     decisions |-> IF transition = {} /\ record.recordType = "decision"
                   THEN seen.decisions \cup {record.payload} ELSE seen.decisions,
     appeals |-> IF transition = {} /\ record.recordType = "appeal_event"
                 THEN Accept(seen.appeals, record.payload) ELSE seen.appeals,
     previousHash |-> record.recordHash,
     length |-> seen.length + 1]

VerifyLine(seen, line) ==
    IF ~isRecord(line)
    THEN [issues |-> seen.issues \cup {"ALB_STORE_RECORD"}, ids |-> seen.ids, parents |-> seen.parents,
          decisions |-> seen.decisions, appeals |-> seen.appeals, previousHash |-> None, length |-> seen.length + 1]
    ELSE VerifyRecord(seen, line, TransitionIssues(seen, line),
                      {p[2] : p \in {q \in seen.ids : q[1] = line.recordId}})

\* A store checkpoint is [sequence, headHash]; given is the set of the one the
\* caller has, or empty.
Completeness(length, headHash, given) ==
    IF given = {} THEN "unproven"
    ELSE IF \A c \in given : c.sequence = length /\ c.headHash = headHash THEN "verified" ELSE "mismatch"

Verification(seen, completeness) ==
    LET issues == seen.issues
                  \cup Issue("ALB_STORE_FORK", ~IsInjective(seen.parents))
                  \cup Issue("ALB_STORE_CHECKPOINT", completeness = "mismatch")
    IN  [valid |-> issues = {}, records |-> seen.length, headHash |-> seen.previousHash,
         completeness |-> completeness, issues |-> issues]

\* What the pass has seen after the last line.
Scan(lines) ==
    LET seen[n \in 0 .. Len(lines)] == IF n = 0 THEN NoHistory ELSE VerifyLine(seen[n - 1], lines[n])
    IN  seen[Len(lines)]

Concluded(seen, given) == Verification(seen, Completeness(seen.length, seen.previousHash, given))

verifyStoreRecords(lines, given) == Concluded(Scan(lines), given)
=============================================================================
