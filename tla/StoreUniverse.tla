--------------------------- MODULE StoreUniverse ---------------------------
(***************************************************************************)
(* Small payloads for the model-checking instances of the store: one case,   *)
(* a decision with room for three appeal events, the decisions that could    *)
(* supersede it, and the events of its appeals, legal and not.               *)
(***************************************************************************)
EXTENDS StoreRecords

Decision(id, case, supersedes, appeal, cap, outcome) ==
    [artifactId |-> id, caseId |-> case, supersedesDecisionId |-> supersedes, appealId |-> appeal,
     maxAppealEvents |-> cap, reviewerIds |-> {"reviewer"}, outcome |-> outcome]

original   == Decision("d1", "c1", None, None, 3, "operator")
mutated    == Decision("d1", "c1", None, None, 3, "unresolved")  \* same identifier, other content
superseder == Decision("d2", "c1", "d1", "a1", 1, "unresolved")
rival      == Decision("d3", "c1", "d1", "a1", 1, "operator")    \* second supersession for a1
crossCase  == Decision("d4", "c2", "d1", "a1", 1, "operator")    \* supersedes across cases
unrelated  == Decision("d5", "c1", None, "a1", 0, "operator")    \* names an appeal, supersedes nothing, allows no appeal

Event(id, appeal, decision, sequence, parent, type, actor, superseding) ==
    [artifactId |-> id, appealId |-> appeal, decisionId |-> decision, sequence |-> sequence,
     previousEventDigest |-> parent, eventType |-> type, actor |-> actor,
     evidenceBundleDigest |-> IF type = "evidence_added" THEN Sha256("bundle") ELSE None,
     supersedingDecisionId |-> superseding]

principal == [id |-> "principal", role |-> "principal"]
reviewer  == [id |-> "reviewer", role |-> "reviewer"]
stranger  == [id |-> "stranger", role |-> "reviewer"]

filed        == Event("e1", "a1", "d1", 1, None, "filed", principal, None)
refiled      == Event("e1", "a1", "d1", 1, None, "filed", stranger, None)   \* same identifier, other content
secondAppeal == Event("e2", "a2", "d1", 1, None, "filed", principal, None)
uncapped     == Event("e3", "a3", "d5", 1, None, "filed", principal, None)  \* refused: its cap is zero
oddFiling    == Event("e4", "a4", "d1", 1, None, "filed", principal, "d2")  \* filed, yet naming a supersession

Child(id, parent, type, actor, superseding) ==
    Event(id, parent.appealId, parent.decisionId, parent.sequence + 1,
          appealEventDigest(parent), type, actor, superseding)

evidence   == Child("e5", filed, "evidence_added", principal, None)
review     == Child("e6", filed, "review_started", reviewer, None)
forkedReview == Child("e7", refiled, "review_started", reviewer, None)      \* names a parent never stored
upheld     == Child("e8", review, "upheld", reviewer, None)
usurped    == Child("e9", review, "upheld", stranger, None)                 \* not a reviewer of d1
reversed   == Child("e10", review, "reversed", reviewer, "d2")
earlyReversal == Child("e11", filed, "reversed", reviewer, "d3")
withdrawn  == Child("e12", filed, "withdrawn", principal, None)
tooLate    == Child("e13", withdrawn, "evidence_added", principal, None)
afterAdded == Child("e14", evidence, "review_started", reviewer, None)
beyondCap  == Child("e15", afterAdded, "upheld", reviewer, None)            \* the fourth event of a1
=============================================================================
