------------------------------ MODULE StoreAudit ------------------------------
(***************************************************************************)
(* auditJsonlStore of src/store-audit.ts beside the live store of JsonlStore:    *)
(* it takes no lock, so the store is opened, appended to, killed and closed       *)
(* between its stat, its reads and its second stat.                             *)
(*                                                                         *)
(* The file is read by pieces: the text of a line is one, its newline another.   *)
(* The store only ever adds pieces, so the modification times, compared beside    *)
(* the sizes for the sake of other writers, say nothing more here.              *)
(***************************************************************************)
EXTENDS JsonlStore

CONSTANT MaxAudits   \* bound on the audits of one behaviour

VARIABLES audit,   \* None, or the audit that runs or ended last
          audits   \* how many have begun

auditVars == <<vars, audit, audits>>

NewlinePiece == [recordType |-> "newline"]

Pieces(f) ==
    LET all == 2 * Len(f.lines)
    IN  [i \in 1 .. (IF f.terminated THEN all ELSE all - 1) |->
            IF i % 2 = 1 THEN f.lines[(i + 1) \div 2] ELSE NewlinePiece]

\* The text before each newline, and what follows the last one.
LinesOf(pieces) == [i \in 1 .. ((Len(pieces) + 1) \div 2) |-> pieces[2 * i - 1]]

AuditRuns == audit # None /\ audit.outcome = None

AuditInit == Init /\ audit = None /\ audits = 0

\* The limits and the checkpoint are in order, the file is opened and asked for
\* its size.  What it held is kept to compare with the outcome.
BeginAudit(given) ==
    /\ ~AuditRuns /\ audits < MaxAudits
    /\ audits' = audits + 1
    /\ audit' = [begun |-> file, given |-> given, size |-> Len(Pieces(file)), buffer |-> <<>>, outcome |-> None]
    /\ UNCHANGED vars

\* What a read can return: the buffer has room for one byte beyond the size.
Unread == LET there == Pieces(file)
          IN  SubSeq(there, Len(audit.buffer) + 1, IF Len(there) > audit.size THEN audit.size + 1 ELSE Len(there))

\* A read fills the rest of the buffer, or returns short.
ReadChunk ==
    /\ AuditRuns
    /\ \E n \in {1, Len(Unread)} \ {0} : n <= Len(Unread) /\ audit' = [audit EXCEPT !.buffer = @ \o SubSeq(Unread, 1, n)]
    /\ UNCHANGED <<vars, audits>>

\* Mutant: a file that has grown is taken for unchanged.
UnchangedOrGrown(before, length, after) == length >= before /\ after >= before

Unchanged(before, length, after) == length = before /\ after = before

AuditOutcome(lines, given) ==
    CASE Len(lines) > MaxRecords -> [code |-> "ALB_STORE_LIMIT"]
      [] \E i \in DOMAIN lines : ~isRecord(lines[i]) -> [code |-> "ALB_STORE_CORRUPT"]
      [] OTHER -> [code |-> "ok", lines |-> lines, report |-> verifyStoreRecords(lines, given)]

\* The buffer is full or the file at its end; the second stat decides whether it counts.
EndAudit ==
    /\ AuditRuns /\ Unread = <<>>
    /\ audit' = [audit EXCEPT !.buffer = <<>>, !.outcome =
                    IF Unchanged(audit.size, Len(audit.buffer), Len(Pieces(file)))
                    THEN AuditOutcome(LinesOf(audit.buffer), audit.given) ELSE [code |-> "ALB_STORE_CHANGED"]]
    /\ UNCHANGED <<vars, audits>>

\* The caller has no checkpoint, or one retained of the records in the store's memory.
Checkpoints ==
    {{}} \cup IF records = <<>> THEN {}
             ELSE {{[sequence |-> Len(records), headHash |-> Last(records).recordHash]}}

\* The auditor is a process of its own; it dies with the machine only.
AuditNext ==
    \/ /\ Next
       /\ audit' = IF PowerLoss THEN None ELSE audit
       /\ UNCHANGED audits
    \/ \E given \in Checkpoints : BeginAudit(given)
    \/ ReadChunk
    \/ EndAudit

AuditSpec == AuditInit /\ [][AuditNext]_auditVars

----------------------------------------------------------------------------
\* A report describes the file as it was at one moment, the audit's beginning,
\* whatever the store did meanwhile; it never accuses an honest store of an
\* altered chain, and a checkpoint the store's own memory gave mismatches only
\* when the file was already ahead of that memory.
AuditIsOfOneMoment ==
    audit # None /\ audit.outcome # None /\ audit.outcome.code = "ok" =>
        LET report == audit.outcome.report
        IN  /\ audit.outcome.lines = audit.begun.lines
            /\ report.issues \subseteq {"ALB_STORE_CHECKPOINT"}
            /\ \A c \in audit.given :
                   report.completeness = "verified" <=> c.sequence = Len(audit.begun.lines)
=============================================================================
