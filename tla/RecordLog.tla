----------------------------- MODULE RecordLog -----------------------------
(***************************************************************************)
(* The histories a store can build, one accepted payload at a time: what     *)
(* putDecision and appendAppeal of src/store.ts admit when nothing fails.     *)
(* The concurrent, crashing store is JsonlStore; this module questions the    *)
(* two judges of StoreRecords over every history they can produce.            *)
(***************************************************************************)
EXTENDS StoreRecords

CONSTANTS Decisions,   \* the liability decisions callers may put
          Events,      \* the appeal events callers may append
          MaxRecords   \* bound on the length of the history

\* The schema of a decision makes its cap a natural number.
ASSUME RecordLogAssumption == \A decision \in Decisions : decision.maxAppealEvents \in Nat

VARIABLE records

Payloads == ({"decision"} \X Decisions) \cup ({"appeal_event"} \X Events)

Init == records = <<>>

\* One call that passes its guards, persists and is indexed.
Store(recordType, payload) ==
    /\ Len(records) < MaxRecords
    /\ StoreVerdict(records, recordType, payload) = "ok"
    /\ records' = Append(records, nextRecord(records, recordType, payload))

putDecision(decision) == Store("decision", decision)

appendAppeal(event) == Store("appeal_event", event)

Next == \/ \E decision \in Decisions : putDecision(decision)
        \/ \E event \in Events : appendAppeal(event)

Spec == Init /\ [][Next]_records

----------------------------------------------------------------------------
\* The guards of the live store and the verifier of a reopened file agree on
\* every payload: a call is admitted exactly when the file it would leave
\* behind verifies.  A guard laxer than the verifier would build a store that
\* cannot be opened again; a stricter one would refuse valid histories.
GuardsAgreeWithVerifier ==
    \A p \in Payloads :
        StoreVerdict(records, p[1], p[2]) = "ok"
            <=> verifyStoreRecords(Append(records, nextRecord(records, p[1], p[2])), {}).valid

\* Files a hand could make of this history without recomputing every hash
\* after the change: a record removed before the end, two neighbours swapped,
\* a record repeated, a payload replaced with or without its own hash redone.
WithPayload(record, payload) == [record EXCEPT !.payload = payload]

Rehash(record) == [record EXCEPT !.recordHash = storeRecordHash(recordBody(record))]

\* A place and a payload of the same kind that is not the one there.
Replacements(places) ==
    {r \in places \X Payloads : r[2][1] = records[r[1]].recordType /\ r[2][2] # records[r[1]].payload}

Replaced(r) == WithPayload(records[r[1]], r[2][2])

Tampered ==
    LET n == Len(records)
    IN  {RemoveAt(records, i) : i \in 1 .. (n - 1)}
        \cup {ReplaceAt(ReplaceAt(records, i, records[i + 1]), i + 1, records[i]) : i \in 1 .. (n - 1)}
        \cup {InsertAt(records, i, records[i]) : i \in 1 .. n}
        \cup {ReplaceAt(records, r[1], Replaced(r)) : r \in Replacements(1 .. n)}
        \cup {ReplaceAt(records, r[1], Rehash(Replaced(r))) : r \in Replacements(1 .. (n - 1))}

\* verifyStoreRecords refuses every one of them, with no checkpoint to help.
\* Cutting records off the end leaves a valid file; a checkpoint retained at
\* the full length, and only a checkpoint, exposes it.
TamperEvident ==
    LET n    == Len(records)
        head == [sequence |-> n, headHash |-> IF n = 0 THEN None ELSE records[n].recordHash]
    IN  /\ \A lines \in Tampered : ~verifyStoreRecords(lines, {}).valid
        /\ n > 0 => verifyStoreRecords(records, {head}).completeness = "verified"
        /\ \A i \in 0 .. (n - 1) :
               /\ verifyStoreRecords(SubSeq(records, 1, i), {}).valid
               /\ ~verifyStoreRecords(SubSeq(records, 1, i), {head}).valid

\* The life of one appeal, read off the history: it is never longer than the
\* cap of the decision it contests, nothing follows its resolution, every
\* resolving event comes from a reviewer that decision names, a reversal comes
\* after a decision that supersedes the contested one for this appeal, and no
\* appeal leads to two such decisions.
AppealLife ==
    \A a \in AppealIdsOf(records) :
        LET events    == AppealOf(records, a)
            contested == CHOOSE d \in DecisionsOf(records) : d.artifactId = events[1].decisionId
        IN  /\ Len(events) <= contested.maxAppealEvents
            /\ \A i \in 1 .. (Len(events) - 1) : events[i].eventType \notin TERMINAL_EVENTS
            /\ \A i \in 1 .. Len(events) :
                  events[i].eventType \in REVIEWER_EVENTS => events[i].actor.id \in contested.reviewerIds
            /\ Last(events).eventType = "reversed" =>
                  \E i, j \in 1 .. Len(records) :
                      /\ i < j
                      /\ records[j].payload = Last(events)
                      /\ records[i].payload.artifactId = Last(events).supersedingDecisionId
                      /\ records[i].payload.supersedesDecisionId = contested.artifactId
            /\ \A d, e \in {x \in DecisionsOf(records) : x.supersedesDecisionId # None /\ x.appealId = a} : d = e
=============================================================================
