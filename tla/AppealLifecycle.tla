-------------------------- MODULE AppealLifecycle --------------------------
(***************************************************************************)
(* What the decision and appeal store promises its callers, without records, *)
(* hashes, files or queues: decisions are issued once and never change, an   *)
(* appeal contests one decision, runs while it is open and within that       *)
(* decision's cap, and is resolved once; a decision that supersedes another   *)
(* needs an appeal against it, and a reversal needs that decision first.      *)
(***************************************************************************)
EXTENDS Naturals

CONSTANTS Decisions,   \* decisions that may be issued
          AppealIds,   \* identifiers of appeals
          None

VARIABLES decisions,   \* the decisions issued
          appeals      \* for each appeal filed: the decision contested, its status and event count

vars == <<decisions, appeals>>

Contested(a) == CHOOSE d \in decisions : d.artifactId = appeals[a].decisionId

Supersession(a, d) == d.appealId = a /\ d.supersedesDecisionId = appeals[a].decisionId

Init == decisions = {} /\ appeals = [a \in {} |-> None]

Unissued(d) == \A other \in decisions : other.artifactId # d.artifactId

Issue(d) ==
    /\ Unissued(d)
    /\ d.supersedesDecisionId = None
    /\ decisions' = decisions \cup {d}
    /\ UNCHANGED appeals

Supersede(d) ==
    /\ Unissued(d)
    /\ d.appealId \in DOMAIN appeals
    /\ Supersession(d.appealId, d)
    /\ Contested(d.appealId).caseId = d.caseId
    /\ \A other \in decisions : ~Supersession(d.appealId, other)
    /\ decisions' = decisions \cup {d}
    /\ UNCHANGED appeals

\* A filing that names a superseding decision is admitted and conflicted at once.
File(a, d, status) ==
    /\ d \in decisions
    /\ a \notin DOMAIN appeals
    /\ d.maxAppealEvents >= 1
    /\ appeals' = [b \in DOMAIN appeals \cup {a} |->
                      IF b = a THEN [decisionId |-> d.artifactId, status |-> status, length |-> 1]
                      ELSE appeals[b]]
    /\ UNCHANGED decisions

\* Evidence or the start of a review ("open"), or a resolution.
Advance(a, status) ==
    /\ a \in DOMAIN appeals
    /\ appeals[a].status = "open"
    /\ appeals[a].length < Contested(a).maxAppealEvents
    /\ status = "reversed" => \E d \in decisions : Supersession(a, d)
    /\ appeals' = [appeals EXCEPT ![a] =
                      [decisionId |-> appeals[a].decisionId, status |-> status, length |-> appeals[a].length + 1]]
    /\ UNCHANGED decisions

Next ==
    \/ \E d \in Decisions : Issue(d) \/ Supersede(d)
    \/ \E a \in AppealIds, d \in Decisions, status \in {"open", "conflicted"} : File(a, d, status)
    \/ \E a \in AppealIds, status \in {"open", "upheld", "reversed", "withdrawn"} : Advance(a, status)

Spec == Init /\ [][Next]_vars
=============================================================================
