-------------------------- MODULE JsonlStoreProofs --------------------------
(***************************************************************************)
(* What the store of JsonlStore keeps, for any callers, payloads, limits and   *)
(* number of kills, power losses and failing calls: its memory and its file     *)
(* agree; whatever a caller was told after the record's own flush stays in the   *)
(* file; no step but a power loss takes a line away; no success is reported      *)
(* while an append is in doubt.  The guards and the verifier stay opaque there.  *)
(* Then what those who read the file find in it: open(), a caller who was told   *)
(* that a payload is stored, and the auditor of StoreAudit; and that what it     *)
(* holds goes only through the steps of AppealLifecycle.                        *)
(***************************************************************************)
EXTENDS StoreAudit, StoreRecordsProofs

IsFile(f) ==
    /\ f = [lines |-> f.lines, terminated |-> f.terminated]
    /\ f.terminated \in BOOLEAN
    /\ IsSequence(f.lines)

Shapes ==
    /\ IsFile(file) /\ IsFile(durable)
    /\ IsSequence(records)
    /\ needsSeparator \in BOOLEAN /\ appendStateUncertain \in BOOLEAN

\* The writer chain belongs to a running process, and an operation is inside
\* persist only while appends are not in doubt.
PersistWhenSure ==
    /\ step # "idle" \/ queue # << >> => session # "down"
    /\ step # "idle" => ~appendStateUncertain

----------------------------------------------------------------------------
(* The file operators.                                                       *)
LEMMA AppendSequence ==
    ASSUME NEW s, IsSequence(s), NEW e
    PROVE  /\ IsSequence(Append(s, e))
           /\ IsPrefix(s, Append(s, e))
           /\ IsPrefix(s, s)
<1>1. PICK S : s \in Seq(S)
    BY DEF IsSequence
<1>2. s \in Seq(S \cup {e}) /\ Append(s, e) \in Seq(S \cup {e})
    BY <1>1
<1>3. Len(Append(s, e)) = Len(s) + 1 /\ Len(s) \in Nat
    BY <1>2
<1>4. SubSeq(Append(s, e), 1, Len(s)) = SubSeq(s, 1, Len(s))
    BY <1>2, <1>3
<1>. QED
    BY <1>2, <1>3, <1>4 DEF IsSequence, IsPrefix

LEMMA SubSeqSequence ==
    ASSUME NEW s, IsSequence(s), NEW n \in 0 .. Len(s)
    PROVE  IsSequence(SubSeq(s, 1, n))
<1>1. PICK S : s \in Seq(S)
    BY DEF IsSequence
<1>2. SubSeq(s, 1, n) \in Seq(S)
    BY <1>1
<1>. QED
    BY <1>2 DEF IsSequence

LEMMA FileOf ==
    ASSUME NEW lines, IsSequence(lines), NEW terminated \in BOOLEAN
    PROVE  IsFile([lines |-> lines, terminated |-> terminated])
    BY DEF IsFile

\* Text after a newline starts a line, and a newline ends a line.
LEMMA TextOnNewLine ==
    ASSUME NEW f, f.terminated, NEW e
    PROVE  Text(f, e) = [lines |-> Append(f.lines, e), terminated |-> FALSE]
    BY Zenon DEF Text

LEMMA NewlineEndsLine ==
    ASSUME NEW f, ~f.terminated
    PROVE  Newline(f) = [lines |-> f.lines, terminated |-> TRUE]
    BY Zenon DEF Newline

\* The lines of g are those of f and e.
OneMore(f, e, g) == g.lines = Append(f.lines, e)

\* A whole text adds exactly its record, and one cut short adds at most a
\* piece of a line: when the separator is written as the file needs it,
\* nothing runs into the lines that are there.
LEMMA AppendedFile ==
    ASSUME NEW f, IsFile(f), NEW record
    PROVE  /\ Appended(f, ~f.terminated, record) = [lines |-> Append(f.lines, record), terminated |-> TRUE]
           /\ \A g \in CutShort(f, ~f.terminated, record) :
                 /\ IsFile(g)
                 /\ \/ g = f
                    \/ g.lines = f.lines /\ g.terminated
                    \/ OneMore(f, record, g)
                    \/ OneMore(f, Garbage, g) /\ ~g.terminated
<1>. DEFINE separated == Separated(f, ~f.terminated)
<1>1. separated = [lines |-> f.lines, terminated |-> TRUE]
    <2>1. CASE f.terminated
        BY <2>1 DEF Separated, IsFile
    <2>2. CASE ~f.terminated
        BY <2>2, NewlineEndsLine DEF Separated
    <2>. QED
        BY <2>1, <2>2
<1>2. separated.terminated /\ separated.lines = f.lines
    BY <1>1
<1>3. \A e : Text(separated, e) = [lines |-> Append(f.lines, e), terminated |-> FALSE]
    BY <1>2, TextOnNewLine, Zenon
<1>. HIDE DEF separated
<1>4. Newline(Text(separated, record)) = [lines |-> Append(f.lines, record), terminated |-> TRUE]
    <2>1. ~ Text(separated, record).terminated /\ Text(separated, record).lines = Append(f.lines, record)
        BY <1>3
    <2>. QED
        BY <2>1, NewlineEndsLine
<1>5. IsFile(separated)
    BY <1>1 DEF IsFile
<1>6. \A e : /\ IsFile(Text(separated, e)) /\ Text(separated, e).lines = Append(f.lines, e)
            /\ ~ Text(separated, e).terminated
    <2>1. IsSequence(f.lines)
        BY DEF IsFile
    <2>2. \A e : IsSequence(Append(f.lines, e))
        BY <2>1, AppendSequence, Zenon
    <2>3. \A e : IsFile([lines |-> Append(f.lines, e), terminated |-> FALSE])
        BY <2>2, FileOf
    <2>. QED
        BY <1>3, <2>3
<1>7. CutShort(f, ~f.terminated, record) = {f, separated, Text(separated, Garbage), Text(separated, record)}
    BY DEF CutShort, separated
<1>8. \A e : OneMore(f, e, Text(separated, e))
    BY <1>6 DEF OneMore
<1>. QED
    BY <1>2, <1>4, <1>5, <1>6, <1>7, <1>8 DEF Appended, separated

\* What a power loss leaves is a file.
LEMMA SurvivorsAreFiles ==
    ASSUME Shapes, NEW f \in Survivors
    PROVE  IsFile(f)
<1>. DEFINE all == Len(file.lines)
            cut(n) == SubSeq(file.lines, 1, n)
<1>1. PICK S : file.lines \in Seq(S)
    BY DEF Shapes, IsFile, IsSequence
<1>2. PICK T : durable.lines \in Seq(T)
    BY DEF Shapes, IsFile, IsSequence
<1>3. Len(durable.lines) \in Nat /\ all \in Nat
    BY <1>1, <1>2
<1>4. \A n \in 0 .. all : IsSequence(cut(n)) /\ IsSequence(Append(cut(n), Garbage))
    BY SubSeqSequence, AppendSequence DEF Shapes, IsFile
<1>5. \/ f \in {file, durable}
      \/ \E n \in 0 .. all : f = [lines |-> cut(n), terminated |-> TRUE]
      \/ \E n \in 0 .. all : f = [lines |-> cut(n), terminated |-> FALSE]
      \/ \E n \in 0 .. all : f = [lines |-> Append(cut(n), Garbage), terminated |-> FALSE]
    BY <1>3 DEF Survivors
<1>6. ASSUME NEW n \in 0 .. all, NEW b \in BOOLEAN, f = [lines |-> cut(n), terminated |-> b]
      PROVE  IsFile(f)
    BY <1>4, <1>6 DEF IsFile
<1>7. ASSUME NEW n \in 0 .. all, f = [lines |-> Append(cut(n), Garbage), terminated |-> FALSE]
      PROVE  IsFile(f)
    BY <1>4, <1>7 DEF IsFile
<1>. QED
    BY <1>5, <1>6, <1>7 DEF Shapes

----------------------------------------------------------------------------
LEMMA ShapesInit == Init => Shapes /\ PersistWhenSure /\ MemoryMatchesFile
<1>1. IsFile(EmptyFile)
    BY EmptySequence, FileOf DEF EmptyFile
<1>. QED
    BY <1>1, EmptySequence DEF Init, Shapes, PersistWhenSure, MemoryMatchesFile

\* The shapes hold after every step.
LEMMA ShapesStep ==
    ASSUME Shapes, PersistWhenSure, MemoryMatchesFile, [Next]_vars
    PROVE  Shapes'
<1>. USE DEF Shapes
<1>1. ASSUME UNCHANGED <<file, durable, records, needsSeparator, appendStateUncertain>> PROVE Shapes'
    BY <1>1
<1>2. CASE Open
    BY <1>2 DEF Open, IsFile
<1>3. CASE RunOperation
    <2>1. CASE Refuse \/ Replay \/ Begin \/ StatWithinLimits \/ StatOverLimits \/ StatFails
        BY <1>1, <2>1 DEF Refuse, Replay, Begin, StatWithinLimits, StatOverLimits, StatFails, disk, memory
    <2>2. CASE AppendFile
        <3>1. needsSeparator = ~file.terminated
            BY <2>2 DEF AppendFile, OperationAt, PersistWhenSure, MemoryMatchesFile
        <3>2. Appended(file, needsSeparator, pending) = [lines |-> Append(file.lines, pending), terminated |-> TRUE]
            BY <3>1, AppendedFile
        <3>3. IsSequence(Append(file.lines, pending))
            BY AppendSequence DEF IsFile
        <3>4. IsFile(file')
            BY <2>2, <3>2, <3>3, FileOf DEF AppendFile
        <3>. QED
            BY <2>2, <3>4 DEF AppendFile
    <2>3. CASE AppendFails
        <3>1. needsSeparator = ~file.terminated
            BY <2>3 DEF AppendFails, OperationAt, PersistWhenSure, MemoryMatchesFile
        <3>2. IsFile(file')
            BY <2>3, <3>1, AppendedFile DEF AppendFails
        <3>. QED
            BY <2>3, <3>2 DEF AppendFails
    <2>4. CASE Sync \/ SyncFails
        BY <2>4 DEF Sync, SyncFails, memory, disk
    <2>5. CASE indexRecord
        BY <2>5, AppendSequence DEF indexRecord, disk
    <2>. QED
        BY <1>3, <2>1, <2>2, <2>3, <2>4, <2>5 DEF RunOperation, Decide, Persist
<1>4. CASE Release
    BY <1>4, EmptySequence DEF Release, Discard
<1>5. CASE Kill
    <2>1. IsFile(file')
        <3>1. CASE OperationAt("append")
            <4>1. needsSeparator = ~file.terminated
                BY <3>1 DEF OperationAt, PersistWhenSure, MemoryMatchesFile
            <4>. QED
                BY <1>5, <3>1, <4>1, AppendedFile DEF Kill
        <3>2. CASE ~OperationAt("append")
            BY <1>5, <3>2 DEF Kill
        <3>. QED
            BY <3>1, <3>2
    <2>. QED
        BY <1>5, <2>1, EmptySequence DEF Kill, Discard
<1>6. CASE PowerLoss
    <2>1. IsFile(file') /\ durable' = file'
        BY <1>6, SurvivorsAreFiles DEF PowerLoss
    <2>. QED
        BY <1>6, <2>1, EmptySequence DEF PowerLoss, Discard
<1>7. CASE RemoveStaleLock \/ close \/ Drained \/ UNCHANGED vars
    BY <1>1, <1>7 DEF RemoveStaleLock, close, Drained, memory, disk, vars
<1>8. ASSUME NEW c \in Clients, NEW operation \in Payloads, enqueue(c, operation) PROVE Shapes'
    BY <1>1, <1>8 DEF enqueue, memory, disk
<1>. QED
    BY <1>2, <1>3, <1>4, <1>5, <1>6, <1>7, <1>8 DEF Next

\* An operation enters persist only past ensureOpen and leaves it when the
\* append becomes doubtful or the process ends.
LEMMA PersistStep ==
    ASSUME PersistWhenSure, [Next]_vars
    PROVE  PersistWhenSure'
<1>. USE DEF PersistWhenSure
<1>1. CASE Open
    BY <1>1 DEF Open
<1>2. CASE RunOperation
    <2>1. CASE Refuse \/ Replay \/ StatOverLimits \/ StatFails \/ AppendFails \/ SyncFails \/ indexRecord
        BY <2>1 DEF Refuse, Replay, StatOverLimits, StatFails, AppendFails, SyncFails, indexRecord,
                   OperationAt, OperationRuns, Settle, memory
    <2>2. CASE Begin
        BY <2>2 DEF Begin, Guards, Answer, ensureOpen, memory
    <2>3. CASE StatWithinLimits \/ AppendFile \/ Sync
        BY <2>3 DEF StatWithinLimits, AppendFile, Sync, OperationAt, memory
    <2>. QED
        BY <1>2, <2>1, <2>2, <2>3 DEF RunOperation, Decide, Persist
<1>3. CASE Release \/ Kill \/ PowerLoss
    BY <1>3 DEF Release, Kill, PowerLoss, Discard
<1>4. CASE RemoveStaleLock \/ close \/ Drained \/ UNCHANGED vars
    BY <1>4 DEF RemoveStaleLock, close, Drained, memory, vars
<1>5. ASSUME NEW c \in Clients, NEW operation \in Payloads, enqueue(c, operation) PROVE PersistWhenSure'
    BY <1>5 DEF enqueue, memory
<1>. QED
    BY <1>1, <1>2, <1>3, <1>4, <1>5 DEF Next

\* Memory and file agree after every step: they are read together by open(),
\* and a record reaches first the file and then the memory.
LEMMA MatchStep ==
    ASSUME Shapes, PersistWhenSure, MemoryMatchesFile, [Next]_vars
    PROVE  MemoryMatchesFile'
<1>. USE DEF MemoryMatchesFile
<1>1. CASE Open
    <2>1. step = "idle"
        BY <1>1 DEF Open, PersistWhenSure
    <2>. QED
        BY <1>1, <2>1 DEF Open
<1>2. CASE RunOperation
    <2>1. CASE Refuse \/ Replay \/ StatOverLimits \/ StatFails
        <3>1. step \notin {"sync", "index"} /\ step' = "idle" /\ UNCHANGED <<file, memory>>
            BY <2>1 DEF Refuse, Replay, StatOverLimits, StatFails, OperationAt, Settle, disk
        <3>. QED
            BY <3>1 DEF memory
    <2>2. CASE Begin \/ StatWithinLimits
        BY <2>2 DEF Begin, StatWithinLimits, OperationAt, memory, disk
    <2>3. CASE AppendFile
        <3>1. session # "down" /\ ~appendStateUncertain /\ needsSeparator = ~file.terminated /\ file.lines = records
            BY <2>3 DEF AppendFile, OperationAt, PersistWhenSure
        <3>2. file' = [lines |-> Append(records, pending), terminated |-> TRUE]
            BY <2>3, <3>1, AppendedFile DEF AppendFile, Shapes
        <3>3. file'.lines = Append(records, pending) /\ file'.terminated = TRUE
            BY <3>2
        <3>4. step' = "sync" /\ needsSeparator' = FALSE /\ UNCHANGED <<records, pending, appendStateUncertain>>
            BY <2>3 DEF AppendFile
        <3>. QED
            BY <3>1, <3>3, <3>4
    <2>4. CASE AppendFails
        <3>1. session # "down" /\ ~appendStateUncertain /\ needsSeparator = ~file.terminated /\ file.lines = records
            BY <2>4 DEF AppendFails, OperationAt, PersistWhenSure
        <3>2. file' \in CutShort(file, ~file.terminated, pending) /\ IsFile(file)
            BY <2>4, <3>1 DEF AppendFails, Shapes
        <3>3. file' = file \/ file'.lines = file.lines \/ OneMore(file, pending, file') \/ OneMore(file, Garbage, file')
            BY <3>2, AppendedFile
        <3>4. ASSUME NEW e, OneMore(file, e, file') PROVE IsPrefix(records, file'.lines)
            BY <3>1, <3>4, AppendSequence DEF OneMore, Shapes
        <3>5. file'.lines = file.lines => IsPrefix(records, file'.lines)
            BY <3>1, AppendSequence DEF Shapes
        <3>6. IsPrefix(records, file'.lines)
            BY <3>3, <3>4, <3>5
        <3>. QED
            BY <2>4, <3>6 DEF AppendFails
    <2>5. CASE Sync
        BY <2>5 DEF Sync, OperationAt, memory
    <2>6. CASE SyncFails
        <3>1. file.lines = Append(records, pending)
            BY <2>6 DEF SyncFails, OperationAt, PersistWhenSure
        <3>2. IsPrefix(records, file.lines)
            BY <3>1, AppendSequence DEF Shapes
        <3>. QED
            BY <2>6, <3>2 DEF SyncFails, disk
    <2>7. CASE indexRecord
        <3>1. ~appendStateUncertain /\ file.lines = Append(records, pending) /\ needsSeparator = ~file.terminated
            BY <2>7 DEF indexRecord, OperationAt, PersistWhenSure
        <3>. QED
            BY <2>7, <3>1 DEF indexRecord, Settle, disk
    <2>. QED
        BY <1>2, <2>1, <2>2, <2>3, <2>4, <2>5, <2>6, <2>7 DEF RunOperation, Decide, Persist
<1>3. CASE Release \/ Kill \/ PowerLoss
    BY <1>3 DEF Release, Kill, PowerLoss, Discard
<1>4. CASE Drained
    BY <1>4 DEF Drained, disk, PersistWhenSure
<1>5. CASE RemoveStaleLock \/ close \/ UNCHANGED vars
    BY <1>5 DEF RemoveStaleLock, close, memory, disk, vars
<1>6. ASSUME NEW c \in Clients, NEW operation \in Payloads, enqueue(c, operation) PROVE MemoryMatchesFile'
    BY <1>6 DEF enqueue, memory, disk
<1>. QED
    BY <1>1, <1>2, <1>3, <1>4, <1>5, <1>6 DEF Next

\* Readers are always answered from what the file holds: a running store and
\* its file agree on every record, but for the one being persisted, and
\* memory stays behind the file, never ahead, when an append is in doubt.
THEOREM MemoryFollowsFile == Spec => []MemoryMatchesFile
<1>. DEFINE Inv == Shapes /\ PersistWhenSure /\ MemoryMatchesFile
<1>1. Init => Inv
    BY ShapesInit
<1>2. Inv /\ [Next]_vars => Inv'
    BY ShapesStep, PersistStep, MatchStep
<1>. QED
    BY <1>1, <1>2, PTL DEF Spec
----------------------------------------------------------------------------
\* The writer chain holds each waiting caller once.
Chain ==
    /\ queue \in Seq(Clients \cup {Closer})
    /\ call \in [Clients -> Payloads \cup {None}]
    /\ \A i \in 1 .. Len(queue) : queue[i] # Closer => call[queue[i]] \in Payloads
    /\ \A i, j \in 1 .. Len(queue) : queue[i] = queue[j] /\ queue[i] # Closer => i = j

\* The record inside persist is the one the caller at the head asked for.
PendingIsCalled ==
    step # "idle" =>
        /\ OperationRuns
        /\ pending # Garbage
        /\ <<pending.recordType, pending.payload>> = call[Head(queue)]

\* The text of g begins with the text of f.
Grown(f, g) == IsPrefix(f.lines, g.lines) /\ (f.lines = g.lines /\ f.terminated => g.terminated)

\* What was flushed is in the file, in its place, and holds every payload
\* whose caller was told so after the flush, or is about to be.
FlushedIsDurable ==
    /\ IsPrefix(durable.lines, file.lines)
    /\ \A operation \in flushed : Stored(operation, durable.lines)
    /\ step = "index" => Stored(call[Head(queue)], durable.lines)

----------------------------------------------------------------------------
(* Prefixes.                                                                 *)
LEMMA PrefixElements ==
    ASSUME NEW s, IsSequence(s), NEW t, IsSequence(t)
    PROVE  IsPrefix(s, t) <=> Len(s) <= Len(t) /\ \A i \in 1 .. Len(s) : s[i] = t[i]
<1>1. PICK S : s \in Seq(S) /\ t \in Seq(S)
    <2>1. PICK S : s \in Seq(S)
        BY DEF IsSequence
    <2>2. PICK T : t \in Seq(T)
        BY DEF IsSequence
    <2>3. s \in Seq(S \cup T) /\ t \in Seq(S \cup T)
        BY <2>1, <2>2
    <2>. QED
        BY <2>3
<1>2. SubSeq(s, 1, Len(s)) = s
    BY <1>1, SubSeqFull
<1>3. ASSUME Len(s) <= Len(t)
      PROVE  /\ SubSeq(t, 1, Len(s)) \in Seq(S)
             /\ Len(SubSeq(t, 1, Len(s))) = Len(s)
             /\ \A i \in 1 .. Len(s) : SubSeq(t, 1, Len(s))[i] = t[i]
    BY <1>1, <1>3
<1>4. ASSUME Len(s) <= Len(t)
      PROVE  (s = SubSeq(t, 1, Len(s))) <=> \A i \in 1 .. Len(s) : s[i] = t[i]
    BY <1>1, <1>3, <1>4, SeqEqual
<1>. QED
    BY <1>2, <1>4 DEF IsPrefix

LEMMA PrefixTransitive ==
    ASSUME NEW s, IsSequence(s), NEW t, IsSequence(t), NEW u, IsSequence(u),
           IsPrefix(s, t), IsPrefix(t, u)
    PROVE  IsPrefix(s, u)
<1>1. Len(s) \in Nat /\ Len(t) \in Nat /\ Len(u) \in Nat
    BY DEF IsSequence
<1>. QED
    BY <1>1, PrefixElements

LEMMA PrefixOfCut ==
    ASSUME NEW s, IsSequence(s), NEW t, IsSequence(t), IsPrefix(s, t), NEW n \in Len(s) .. Len(t)
    PROVE  IsPrefix(s, SubSeq(t, 1, n))
<1>1. PICK T : t \in Seq(T)
    BY DEF IsSequence
<1>2. Len(s) \in Nat /\ Len(t) \in Nat
    BY DEF IsSequence
<1>3. /\ IsSequence(SubSeq(t, 1, n))
      /\ Len(SubSeq(t, 1, n)) = n
      /\ \A i \in 1 .. n : SubSeq(t, 1, n)[i] = t[i]
    <2>1. /\ SubSeq(t, 1, n) \in Seq(T)
          /\ Len(SubSeq(t, 1, n)) = n
          /\ \A i \in 1 .. n : SubSeq(t, 1, n)[i] = t[i]
        BY <1>1, <1>2
    <2>. QED
        BY <2>1 DEF IsSequence
<1>4. \A i \in 1 .. Len(s) : s[i] = t[i]
    BY PrefixElements
<1>. DEFINE cut == SubSeq(t, 1, n)
<1>. HIDE DEF cut
<1>5. Len(s) <= Len(cut) /\ \A i \in 1 .. Len(s) : s[i] = cut[i]
    BY <1>2, <1>3, <1>4 DEF cut
<1>6. IsSequence(cut)
    BY <1>3 DEF cut
<1>7. IsPrefix(s, cut)
    BY <1>5, <1>6, PrefixElements
<1>. QED
    BY <1>7 DEF cut

\* A payload stored in a file stays stored when the file grows.
LEMMA StoredGrows ==
    ASSUME NEW s, IsSequence(s), NEW t, IsSequence(t), IsPrefix(s, t), NEW operation, Stored(operation, s)
    PROVE  Stored(operation, t)
<1>1. Len(s) \in Nat /\ Len(t) \in Nat
    BY DEF IsSequence
<1>. QED
    BY <1>1, PrefixElements DEF Stored

\* The end of a sequence is stored in it.
LEMMA StoredLast ==
    ASSUME NEW s, IsSequence(s), NEW record, record # Garbage
    PROVE  Stored(<<record.recordType, record.payload>>, Append(s, record))
<1>1. PICK S : s \in Seq(S)
    BY DEF IsSequence
<1>2. s \in Seq(S \cup {record})
    BY <1>1
<1>3. Len(Append(s, record)) = Len(s) + 1 /\ Append(s, record)[Len(s) + 1] = record /\ Len(s) \in Nat
    BY <1>2
<1>. QED
    BY <1>3 DEF Stored

----------------------------------------------------------------------------
(* The writer chain.                                                         *)
LEMMA SettleKeepsChain ==
    ASSUME Chain, OperationRuns, NEW told, Settle(told)
    PROVE  Chain'
<1>1. queue # << >> /\ Head(queue) \in Clients /\ Head(queue) = queue[1] /\ Len(queue) \in Nat \ {0}
    BY DEF Chain, OperationRuns
<1>2. /\ queue' \in Seq(Clients \cup {Closer})
      /\ Len(queue') = Len(queue) - 1
      /\ \A i \in 1 .. Len(queue') : queue'[i] = queue[i + 1]
    BY <1>1 DEF Settle, Chain
<1>3. \A i \in 1 .. Len(queue') : i + 1 \in 1 .. Len(queue)
    BY <1>1, <1>2
<1>4. call' = [call EXCEPT ![queue[1]] = None]
    BY <1>1 DEF Settle
<1>5. \A i \in 1 .. Len(queue') : queue'[i] # Closer => queue'[i] \in Clients /\ queue'[i] # queue[1]
    BY <1>1, <1>2, <1>3 DEF Chain
<1>6. \A i \in 1 .. Len(queue') : queue'[i] # Closer => call'[queue'[i]] \in Payloads
    BY <1>2, <1>3, <1>4, <1>5 DEF Chain
<1>7. \A i, j \in 1 .. Len(queue') : queue'[i] = queue'[j] /\ queue'[i] # Closer => i = j
    <2>1. TAKE i, j \in 1 .. Len(queue')
    <2>2. HAVE queue'[i] = queue'[j] /\ queue'[i] # Closer
    <2>3. i + 1 = j + 1
        BY <1>2, <1>3, <2>2 DEF Chain
    <2>. QED
        BY <2>3, <1>1, <1>2
<1>8. call' \in [Clients -> Payloads \cup {None}]
    BY <1>1, <1>4 DEF Chain
<1>. QED
    BY <1>2, <1>6, <1>7, <1>8 DEF Chain

\* A caller joins the chain only while it waits for nothing, so it is not in it.
LEMMA EnqueueKeepsChain ==
    ASSUME Chain, NEW c \in Clients, NEW operation \in Payloads, enqueue(c, operation)
    PROVE  Chain'
<1>1. Len(queue) \in Nat
    BY DEF Chain
<1>2. /\ queue' \in Seq(Clients \cup {Closer})
      /\ Len(queue') = Len(queue) + 1
      /\ \A i \in 1 .. Len(queue) : queue'[i] = queue[i]
      /\ queue'[Len(queue) + 1] = c
    BY DEF enqueue, Chain
<1>3. \A i \in 1 .. Len(queue) : queue[i] # c
    <2>1. call[c] = None
        BY DEF enqueue
    <2>. QED
        BY <2>1, JsonlStoreAssumption DEF Chain
<1>4. call' = [call EXCEPT ![c] = operation]
    BY DEF enqueue
<1>5. \A i \in 1 .. Len(queue) : queue[i] # Closer => queue[i] \in Clients /\ call'[queue[i]] = call[queue[i]]
    BY <1>3, <1>4 DEF Chain
<1>6. \A i \in 1 .. Len(queue') : queue'[i] # Closer => call'[queue'[i]] \in Payloads
    BY <1>1, <1>2, <1>4, <1>5 DEF Chain
<1>7. \A i, j \in 1 .. Len(queue') : queue'[i] = queue'[j] /\ queue'[i] # Closer => i = j
    BY <1>1, <1>2, <1>3 DEF Chain
<1>8. call' \in [Clients -> Payloads \cup {None}]
    BY <1>4 DEF Chain
<1>. QED
    BY <1>2, <1>6, <1>7, <1>8 DEF Chain

LEMMA DiscardMakesChain == Discard => Chain'
    BY DEF Discard, Chain

LEMMA ChainStep == Chain /\ [Next]_vars => Chain'
<1>. SUFFICES ASSUME Chain, [Next]_vars PROVE Chain'
    OBVIOUS
<1>1. ASSUME UNCHANGED <<queue, call>> PROVE Chain'
    BY <1>1 DEF Chain
<1>2. CASE RunOperation
    <2>1. CASE Refuse \/ Replay \/ StatOverLimits \/ StatFails \/ AppendFails \/ SyncFails \/ indexRecord
        BY <2>1, SettleKeepsChain
           DEF Refuse, Replay, StatOverLimits, StatFails, AppendFails, SyncFails, indexRecord, OperationAt
    <2>2. CASE Begin \/ StatWithinLimits \/ AppendFile \/ Sync
        BY <1>1, <2>2 DEF Begin, StatWithinLimits, AppendFile, Sync
    <2>. QED
        BY <1>2, <2>1, <2>2 DEF RunOperation, Decide, Persist
<1>3. CASE Release \/ Kill \/ PowerLoss
    BY <1>3, DiscardMakesChain DEF Release, Kill, PowerLoss
<1>4. CASE close
    <2>1. Len(queue) \in Nat
        BY DEF Chain
    <2>2. /\ queue' \in Seq(Clients \cup {Closer})
          /\ Len(queue') = Len(queue) + 1
          /\ \A i \in 1 .. Len(queue) : queue'[i] = queue[i]
          /\ queue'[Len(queue) + 1] = Closer
          /\ call' = call
        BY <1>4 DEF close, Chain
    <2>. QED
        BY <2>1, <2>2 DEF Chain
<1>5. CASE Drained
    <2>1. Len(queue) \in Nat \ {0}
        BY <1>5 DEF Drained, Chain
    <2>2. /\ queue' \in Seq(Clients \cup {Closer})
          /\ Len(queue') = Len(queue) - 1
          /\ \A i \in 1 .. Len(queue') : queue'[i] = queue[i + 1] /\ i + 1 \in 1 .. Len(queue)
          /\ call' = call
        BY <1>5, <2>1 DEF Drained, Chain
    <2>3. \A i, j \in 1 .. Len(queue') : queue'[i] = queue'[j] /\ queue'[i] # Closer => i = j
        <3>1. TAKE i, j \in 1 .. Len(queue')
        <3>2. HAVE queue'[i] = queue'[j] /\ queue'[i] # Closer
        <3>3. i + 1 = j + 1
            BY <2>2, <3>2 DEF Chain
        <3>. QED
            BY <2>1, <2>2, <3>3
    <2>. QED
        BY <2>2, <2>3 DEF Chain
<1>6. CASE Open \/ RemoveStaleLock \/ UNCHANGED vars
    BY <1>1, <1>6 DEF Open, RemoveStaleLock, vars
<1>. QED
    BY <1>2, <1>3, <1>4, <1>5, <1>6, EnqueueKeepsChain DEF Next

----------------------------------------------------------------------------
(* The record inside persist.                                                *)
LEMMA NextRecordCarries ==
    ASSUME NEW operation \in Payloads, NEW history
    PROVE  LET record == nextRecord(history, operation[1], operation[2])
           IN  record # Garbage /\ <<record.recordType, record.payload>> = operation
<1>. DEFINE record == nextRecord(history, operation[1], operation[2])
<1>1. record.recordType = operation[1] /\ record.payload = operation[2]
    BY DEF nextRecord
<1>2. operation[1] \in {"decision", "appeal_event"} /\ operation = <<operation[1], operation[2]>>
    BY DEF Payloads
<1>. HIDE DEF record
<1>3. record # Garbage
    BY <1>1, <1>2 DEF Garbage
<1>4. <<record.recordType, record.payload>> = operation
    BY <1>1, <1>2
<1>. QED
    BY <1>3, <1>4 DEF record

\* Joining the chain at its end leaves the caller at its head alone.
LEMMA HeadStays ==
    ASSUME Chain, OperationRuns, NEW e, queue' = Append(queue, e)
    PROVE  Head(queue') = Head(queue) /\ OperationRuns'
<1>1. queue # << >> /\ queue \in Seq(Clients \cup {Closer} \cup {e})
    BY DEF Chain, OperationRuns
<1>2. queue' # << >> /\ Head(queue') = Head(queue)
    BY <1>1
<1>. QED
    BY <1>2 DEF OperationRuns

LEMMA PendingStep == Chain /\ PendingIsCalled /\ [Next]_vars => PendingIsCalled'
<1>. SUFFICES ASSUME Chain, PendingIsCalled, [Next]_vars PROVE PendingIsCalled'
    OBVIOUS
<1>. USE DEF PendingIsCalled
<1>1. ASSUME UNCHANGED <<queue, call, pending>>, OperationRuns, step # "idle" PROVE PendingIsCalled'
    BY <1>1 DEF OperationRuns
<1>2. CASE RunOperation
    <2>1. CASE Refuse \/ Replay \/ StatOverLimits \/ StatFails \/ AppendFails \/ SyncFails \/ indexRecord
        BY <2>1 DEF Refuse, Replay, StatOverLimits, StatFails, AppendFails, SyncFails, indexRecord, Settle
    <2>2. CASE Begin
        <3>1. OperationRuns /\ UNCHANGED <<queue, call>>
            BY <2>2 DEF Begin, OperationAt
        <3>2. call[Head(queue)] \in Payloads
            <4>1. Len(queue) \in Nat \ {0} /\ Head(queue) = queue[1] /\ queue[1] # Closer
                BY <3>1 DEF OperationRuns, Chain
            <4>. QED
                BY <4>1 DEF Chain
        <3>3. pending' = nextRecord(records, call[Head(queue)][1], call[Head(queue)][2])
            BY <2>2 DEF Begin
        <3>4. pending' # Garbage /\ <<pending'.recordType, pending'.payload>> = call[Head(queue)]
            BY <3>2, <3>3, NextRecordCarries
        <3>. QED
            BY <3>1, <3>4 DEF OperationRuns
    <2>3. CASE StatWithinLimits \/ AppendFile \/ Sync
        BY <1>1, <2>3 DEF StatWithinLimits, AppendFile, Sync, OperationAt
    <2>. QED
        BY <1>2, <2>1, <2>2, <2>3 DEF RunOperation, Decide, Persist
<1>3. CASE Release \/ Kill \/ PowerLoss
    BY <1>3 DEF Release, Kill, PowerLoss, Discard
<1>4. CASE close
    BY <1>4, HeadStays DEF close
<1>5. CASE Drained
    BY <1>5 DEF Drained, OperationRuns
<1>6. ASSUME NEW c \in Clients, NEW operation \in Payloads, enqueue(c, operation) PROVE PendingIsCalled'
    <2>1. SUFFICES ASSUME step # "idle" PROVE PendingIsCalled'
        BY <1>6 DEF enqueue
    <2>2. OperationRuns' /\ Head(queue') = Head(queue)
        BY <1>6, <2>1, HeadStays DEF enqueue
    <2>3. call[Head(queue)] \in Payloads
        <3>1. Len(queue) \in Nat \ {0} /\ Head(queue) = queue[1] /\ queue[1] # Closer
            BY <2>1 DEF OperationRuns, Chain
        <3>. QED
            BY <3>1 DEF Chain
    <2>4. call'[Head(queue)] = call[Head(queue)]
        BY <1>6, <2>3, JsonlStoreAssumption DEF enqueue, Chain
    <2>. QED
        BY <1>6, <2>1, <2>2, <2>4 DEF enqueue
<1>7. CASE Open \/ RemoveStaleLock \/ UNCHANGED vars
    BY <1>7 DEF Open, RemoveStaleLock, vars, OperationRuns
<1>. QED
    BY <1>2, <1>3, <1>4, <1>5, <1>6, <1>7 DEF Next

----------------------------------------------------------------------------
(* The file.                                                                 *)
LEMMA FileGrows ==
    ASSUME Shapes, PersistWhenSure, MemoryMatchesFile, [Next]_vars, ~PowerLoss
    PROVE  Grown(file, file')
<1>1. IsSequence(file.lines) /\ IsFile(file)
    BY DEF Shapes, IsFile
<1>2. ASSUME file' = file PROVE Grown(file, file')
    BY <1>1, <1>2, AppendSequence DEF Grown
<1>3. ASSUME NEW e, file'.lines = Append(file.lines, e) PROVE Grown(file, file')
    <2>1. IsPrefix(file.lines, file'.lines)
        BY <1>1, <1>3, AppendSequence
    <2>2. Len(file'.lines) # Len(file.lines)
        BY <1>1, <1>3, LongerByOne
    <2>. QED
        BY <2>1, <2>2 DEF Grown
<1>4. ASSUME file'.lines = file.lines, file'.terminated PROVE Grown(file, file')
    BY <1>1, <1>4, AppendSequence DEF Grown
<1>5. OperationAt("append") => needsSeparator = ~file.terminated
    BY DEF OperationAt, PersistWhenSure, MemoryMatchesFile
<1>6. CASE AppendFile
    <2>1. file' = Appended(file, ~file.terminated, pending)
        BY <1>5, <1>6 DEF AppendFile
    <2>2. file' = [lines |-> Append(file.lines, pending), terminated |-> TRUE]
        BY <1>1, <2>1, AppendedFile
    <2>. QED
        BY <1>3, <2>2
<1>7. ASSUME OperationAt("append"), file' \in CutShort(file, needsSeparator, pending)
      PROVE  Grown(file, file')
    <2>1. file' \in CutShort(file, ~file.terminated, pending)
        BY <1>5, <1>7
    <2>2. \/ file' = file
          \/ file'.lines = file.lines /\ file'.terminated
          \/ OneMore(file, pending, file') \/ OneMore(file, Garbage, file')
        BY <1>1, <2>1, AppendedFile
    <2>3. ASSUME NEW e, OneMore(file, e, file') PROVE Grown(file, file')
        BY <1>3, <2>3 DEF OneMore
    <2>. QED
        BY <1>2, <1>4, <2>2, <2>3
<1>8. CASE AppendFails
    BY <1>7, <1>8 DEF AppendFails
<1>9. CASE Kill
    BY <1>2, <1>7, <1>9 DEF Kill
<1>10. CASE Refuse \/ Replay \/ Begin \/ StatWithinLimits \/ StatOverLimits \/ StatFails \/ Sync \/ SyncFails \/ indexRecord
    BY <1>2, <1>10 DEF Refuse, Replay, Begin, StatWithinLimits, StatOverLimits, StatFails, Sync, SyncFails,
                       indexRecord, disk
<1>11. CASE Open \/ close \/ Drained \/ Release \/ RemoveStaleLock \/ UNCHANGED vars
    BY <1>2, <1>11 DEF Open, close, Drained, Release, RemoveStaleLock, disk, vars
<1>12. ASSUME NEW c \in Clients, NEW operation \in Payloads, enqueue(c, operation)
       PROVE  Grown(file, file')
    BY <1>2, <1>12 DEF enqueue, disk
<1>. QED
    BY <1>6, <1>8, <1>9, <1>10, <1>11, <1>12 DEF Next, RunOperation, Decide, Persist

\* A power loss spares what was flushed.
LEMMA SurvivorsKeepFlushed ==
    ASSUME Shapes, IsPrefix(durable.lines, file.lines), NEW f \in Survivors
    PROVE  IsPrefix(durable.lines, f.lines)
<1>. DEFINE kept == Len(durable.lines)
            all == Len(file.lines)
            cut(n) == SubSeq(file.lines, 1, n)
<1>1. IsSequence(durable.lines) /\ IsSequence(file.lines)
    BY DEF Shapes, IsFile
<1>2. kept \in Nat /\ all \in Nat
    BY <1>1 DEF IsSequence
<1>3. \A n \in kept .. all : IsSequence(cut(n)) /\ IsPrefix(durable.lines, cut(n))
    BY <1>1, <1>2, PrefixOfCut, SubSeqSequence
<1>4. \A n \in kept .. all : IsPrefix(durable.lines, Append(cut(n), Garbage))
    <2>1. TAKE n \in kept .. all
    <2>2. IsPrefix(cut(n), Append(cut(n), Garbage)) /\ IsSequence(Append(cut(n), Garbage))
        BY <1>3, AppendSequence
    <2>. QED
        BY <1>1, <1>3, <2>2, PrefixTransitive
<1>5. IsPrefix(durable.lines, durable.lines)
    BY <1>1, AppendSequence
<1>6. \/ f \in {file, durable}
      \/ \E n \in kept .. all : f.lines = cut(n)
      \/ \E n \in kept .. all : f.lines = Append(cut(n), Garbage)
    <2>1. \/ f \in {file, durable}
          \/ \E n \in kept .. all : f = [lines |-> cut(n), terminated |-> TRUE]
          \/ \E n \in kept .. all : f = [lines |-> cut(n), terminated |-> FALSE]
          \/ \E n \in kept .. all : f = [lines |-> Append(cut(n), Garbage), terminated |-> FALSE]
        BY <1>2 DEF Survivors
    <2>. QED
        BY <2>1
<1>. QED
    BY <1>3, <1>4, <1>5, <1>6

LEMMA FlushedStep ==
    ASSUME Shapes, PersistWhenSure, MemoryMatchesFile, Chain, PendingIsCalled, FlushedIsDurable, [Next]_vars, Shapes'
    PROVE  FlushedIsDurable'
<1>. USE DEF FlushedIsDurable
<1>1. IsSequence(durable.lines) /\ IsSequence(file.lines) /\ IsSequence(file'.lines)
    BY DEF Shapes, IsFile
<1>2. ASSUME durable' = durable, ~PowerLoss PROVE IsPrefix(durable'.lines, file'.lines)
    BY <1>1, <1>2, FileGrows, PrefixTransitive DEF Grown
<1>3. ASSUME durable' = durable, flushed' = flushed, step' # "index", ~PowerLoss PROVE FlushedIsDurable'
    BY <1>2, <1>3
<1>4. CASE PowerLoss
    <2>1. durable' = file' /\ file' \in Survivors /\ flushed' = flushed /\ step' = "idle"
        BY <1>4 DEF PowerLoss, Discard, ghosts
    <2>2. IsPrefix(durable.lines, file'.lines)
        BY <2>1, SurvivorsKeepFlushed
    <2>3. \A operation \in flushed : Stored(operation, file'.lines)
        BY <1>1, <2>2, StoredGrows
    <2>4. IsPrefix(file'.lines, file'.lines)
        BY <1>1, AppendSequence
    <2>. QED
        BY <2>1, <2>3, <2>4
<1>5. CASE Sync
    <2>1. durable' = file /\ file' = file /\ flushed' = flushed /\ UNCHANGED <<queue, call>>
        BY <1>5 DEF Sync, ghosts
    <2>2. \A operation \in flushed : Stored(operation, file.lines)
        BY <1>1, StoredGrows
    <2>3. file.lines = Append(records, pending) /\ IsSequence(records)
        BY <1>5 DEF Sync, OperationAt, PersistWhenSure, MemoryMatchesFile, Shapes
    <2>4. pending # Garbage /\ <<pending.recordType, pending.payload>> = call[Head(queue)]
        BY <1>5 DEF Sync, OperationAt, PendingIsCalled
    <2>5. Stored(call[Head(queue)], file.lines)
        BY <2>3, <2>4, StoredLast
    <2>6. IsPrefix(file.lines, file.lines)
        BY <1>1, AppendSequence
    <2>. QED
        BY <2>1, <2>2, <2>5, <2>6
<1>6. CASE indexRecord /\ ~PowerLoss
    <2>1. durable' = durable /\ flushed' = flushed \cup {call[Head(queue)]} /\ step' = "idle" /\ step = "index"
        BY <1>6 DEF indexRecord, Settle, OperationAt, disk
    <2>. QED
        BY <1>2, <1>6, <2>1
<1>7. CASE (Refuse \/ Replay \/ Begin \/ StatWithinLimits \/ StatOverLimits \/ StatFails \/ AppendFile \/ AppendFails
            \/ SyncFails) /\ ~PowerLoss
    BY <1>3, <1>7 DEF Refuse, Replay, Begin, StatWithinLimits, StatOverLimits, StatFails, AppendFile, AppendFails,
                      SyncFails, Settle, disk, ghosts
<1>8. CASE (Open \/ Release \/ Kill) /\ ~PowerLoss
    <2>1. durable' = durable /\ flushed' = flushed /\ step' # "index"
        BY <1>8 DEF Open, Release, Kill, Discard, PersistWhenSure, ghosts
    <2>. QED
        BY <1>3, <1>8, <2>1
<1>9. CASE (close \/ Drained \/ RemoveStaleLock \/ UNCHANGED vars) /\ ~PowerLoss
    <2>1. durable' = durable /\ flushed' = flushed /\ step' = step /\ call' = call
        BY <1>9 DEF close, Drained, RemoveStaleLock, disk, ghosts, vars
    <2>2. step = "index" => Head(queue') = Head(queue)
        BY <1>9, HeadStays DEF close, Drained, RemoveStaleLock, vars, PendingIsCalled, OperationRuns
    <2>. QED
        BY <1>2, <1>9, <2>1, <2>2
<1>10. ASSUME NEW c \in Clients, NEW operation \in Payloads, enqueue(c, operation), ~PowerLoss PROVE FlushedIsDurable'
    <2>1. durable' = durable /\ flushed' = flushed /\ step' = step /\ pending' = pending
        BY <1>10 DEF enqueue, disk, ghosts
    <2>2. step = "index" => call'[Head(queue')] = call[Head(queue)]
        BY <2>1, PendingStep DEF PendingIsCalled
    <2>. QED
        BY <1>2, <1>10, <2>1, <2>2
<1>. QED
    BY <1>4, <1>5, <1>6, <1>7, <1>8, <1>9, <1>10 DEF Next, RunOperation, Decide, Persist

----------------------------------------------------------------------------
StoreInvariant ==
    Shapes /\ PersistWhenSure /\ MemoryMatchesFile /\ Chain /\ PendingIsCalled /\ FlushedIsDurable

LEMMA StoreInvariantInit == Init => StoreInvariant
<1>1. SUFFICES ASSUME Init PROVE StoreInvariant
    OBVIOUS
<1>2. Chain /\ PendingIsCalled
    BY <1>1 DEF Init, Chain, PendingIsCalled
<1>3. IsPrefix(EmptyFile.lines, EmptyFile.lines)
    BY EmptySequence, AppendSequence DEF EmptyFile
<1>4. FlushedIsDurable
    BY <1>1, <1>3 DEF Init, FlushedIsDurable
<1>. QED
    BY <1>1, <1>2, <1>4, ShapesInit DEF StoreInvariant

LEMMA StoreInvariantStep == StoreInvariant /\ [Next]_vars => StoreInvariant'
    BY ShapesStep, PersistStep, MatchStep, ChainStep, PendingStep, FlushedStep DEF StoreInvariant

LEMMA StoreInvariantHolds == Spec => []StoreInvariant
    BY StoreInvariantInit, StoreInvariantStep, PTL DEF Spec

\* Whatever a caller was told after the flush of its own record stays in the
\* file, whichever kills, failing calls and power losses follow.
THEOREM FlushedIsSafe == Spec => []FlushedSurvives
<1>1. StoreInvariant => FlushedSurvives
    BY StoredGrows DEF StoreInvariant, FlushedIsDurable, FlushedSurvives, Shapes, IsFile
<1>. QED
    BY <1>1, StoreInvariantHolds, PTL

\* No kill, failing call, reopening or later record takes a line of the file
\* away, changes it or runs into it: only a power loss can.
THEOREM FileOnlyGrows == Spec => AppendOnly
<1>1. StoreInvariant /\ [Next]_vars => [PowerLoss \/ IsPrefix(file.lines, file'.lines)]_vars
    BY FileGrows DEF StoreInvariant, Grown
<1>. QED
    BY <1>1, StoreInvariantHolds, PTL DEF Spec, AppendOnly

\* After an append or a flush failed, no caller is told of success before the
\* store has been opened again.
THEOREM NothingAckedInDoubt == Spec => NoAckInDoubt
<1>1. StoreInvariant /\ [Next]_vars => [appendStateUncertain => acked' = acked]_vars
    <2>1. SUFFICES ASSUME StoreInvariant, Next, appendStateUncertain PROVE acked' = acked
        BY DEF vars
    <2>2. step = "idle"
        BY <2>1 DEF StoreInvariant, PersistWhenSure
    <2>3. CASE RunOperation
        BY <2>1, <2>2, <2>3
           DEF RunOperation, Decide, Persist, Refuse, Replay, Begin, StatWithinLimits, StatOverLimits, StatFails, AppendFile,
               AppendFails, Sync, SyncFails, indexRecord, OperationAt, ensureOpen, Guards, Answer, Settle, ghosts
    <2>4. CASE ~RunOperation
        BY <2>1, <2>4 DEF Next, Open, enqueue, close, Drained, Release, Kill, PowerLoss, RemoveStaleLock, ghosts
    <2>. QED
        BY <2>3, <2>4
<1>. QED
    BY <1>1, StoreInvariantHolds, PTL DEF Spec, NoAckInDoubt

----------------------------------------------------------------------------
(* What readers of the file find.                                             *)
\* The payloads of a history are those callers have.
OfCallers(lines) == \A i \in 1 .. Len(lines) : <<lines[i].recordType, lines[i].payload>> \in Payloads

\* A history within the record limit that the guards could have built.
Sound(lines) == Lawful(lines) /\ Len(lines) <= MaxRecords /\ OfCallers(lines)

\* A file is sound, or a sound one with a piece of a line at its end.
SoundFile(f) ==
    \/ Sound(f.lines)
    \/ ~f.terminated /\ \E whole : Sound(whole) /\ f.lines = Append(whole, Garbage)

\* The record inside persist is what the guards let through, and past the
\* limits there is room for it.
PendingIsSound ==
    step # "idle" =>
        /\ \E operation \in Payloads :
               /\ pending = nextRecord(records, operation[1], operation[2])
               /\ StoreVerdict(records, operation[1], operation[2]) = "ok"
        /\ step # "stat" => Len(records) + 1 <= MaxRecords

FileIsSound ==
    /\ SoundFile(file) /\ SoundFile(durable)
    /\ session # "down" => Sound(records)
    /\ PendingIsSound

----------------------------------------------------------------------------
(* Sound files.                                                              *)
LEMMA SoundSequence ==
    ASSUME NEW lines, Sound(lines)
    PROVE  IsSequence(lines) /\ Len(lines) \in Nat
    BY DEF Sound, Lawful, IsSequence

\* Every line of a sound history is a record.
LEMMA SoundLines ==
    ASSUME NEW lines, Sound(lines), NEW i \in 1 .. Len(lines)
    PROVE  lines[i] # Garbage
    BY LawfulAgrees DEF Sound, Agrees, Chained, isRecord

LEMMA LastOfLonger ==
    ASSUME NEW s, IsSequence(s), NEW e
    PROVE  /\ Append(s, e) # <<>>
           /\ Last(Append(s, e)) = e
           /\ Front(Append(s, e)) = s
<1>1. PICK S : s \in Seq(S)
    BY DEF IsSequence
<1>2. Append(s, e) \in Seq(S \cup {e}) /\ Len(Append(s, e)) = Len(s) + 1 /\ Len(s) \in Nat
    BY <1>1
<1>3. Append(s, e)[Len(s) + 1] = e
    BY <1>1
<1>4. SubSeq(Append(s, e), 1, Len(s)) = s
    BY <1>1
<1>. QED
    BY <1>2, <1>3, <1>4 DEF Last, Front

\* Without its unfinished last line a sound file opens.
LEMMA SoundOpens ==
    ASSUME NEW f, SoundFile(f)
    PROVE  Sound(WholeLines(f))
<1>1. CASE Sound(f.lines)
    <2>1. f.lines # <<>> => Last(f.lines) # Garbage
        <3>1. IsSequence(f.lines) /\ Len(f.lines) \in Nat
            BY <1>1, SoundSequence
        <3>2. f.lines # <<>> => Len(f.lines) # 0
            BY <3>1, EmptySeq DEF IsSequence
        <3>3. f.lines # <<>> => f.lines[Len(f.lines)] # Garbage
            BY <1>1, <3>1, <3>2, SoundLines
        <3>. QED
            BY <3>3 DEF Last
    <2>. QED
        BY <1>1, <2>1 DEF WholeLines
<1>2. ASSUME ~f.terminated, NEW whole, Sound(whole), f.lines = Append(whole, Garbage)
      PROVE  Sound(WholeLines(f))
    <2>1. f.lines # <<>> /\ Last(f.lines) = Garbage /\ Front(f.lines) = whole
        BY <1>2, SoundSequence, LastOfLonger
    <2>2. WholeLines(f) = whole
        BY <1>2, <2>1 DEF WholeLines
    <2>. QED
        BY <1>2, <2>2
<1>. QED
    BY <1>1, <1>2 DEF SoundFile

LEMMA OpensOk ==
    ASSUME NEW f
    PROVE  OpenVerdict(f) = "ok" <=>
              /\ ~ (Len(f.lines) > MaxRecords)
              /\ \A i \in 1 .. Len(f.lines) : isRecord(f.lines[i])
              /\ verifyStoreRecords(f.lines, {}).valid
<1>. DEFINE checks == <<
            <<"ALB_STORE_LIMIT",   Len(f.lines) > MaxRecords>>,
            <<"ALB_STORE_CORRUPT", \E i \in 1 .. Len(f.lines) : ~isRecord(f.lines[i])>>,
            <<"ALB_STORE_CORRUPT", ~verifyStoreRecords(f.lines, {}).valid>> >>
<1>1. OpenVerdict(f) = Verdict(checks)
    BY DEF OpenVerdict
<1>2. DOMAIN checks = 1 .. 3
    OBVIOUS
<1>3. checks[1][1] = "ALB_STORE_LIMIT" /\ checks[2][1] = "ALB_STORE_CORRUPT" /\ checks[3][1] = "ALB_STORE_CORRUPT"
    OBVIOUS
<1>4. /\ checks[1][2] = (Len(f.lines) > MaxRecords)
      /\ checks[2][2] = \E i \in 1 .. Len(f.lines) : ~isRecord(f.lines[i])
      /\ checks[3][2] = (~verifyStoreRecords(f.lines, {}).valid)
    OBVIOUS
<1>. HIDE DEF checks
<1>5. Verdict(checks) = "ok" <=> \A n \in 1 .. 3 : ~ checks[n][2]
    BY <1>2, <1>3, VerdictOk
<1>6. Verdict(checks) = "ok" <=> ~ checks[1][2] /\ ~ checks[2][2] /\ ~ checks[3][2]
    BY <1>5
<1>. QED
    BY <1>1, <1>4, <1>6

LEMMA SoundVerdict ==
    ASSUME NEW f, Sound(f.lines)
    PROVE  OpenVerdict(f) = "ok"
<1>1. ~ (Len(f.lines) > MaxRecords)
    BY SoundSequence, JsonlStoreAssumption DEF Sound
<1>2. \A i \in 1 .. Len(f.lines) : isRecord(f.lines[i])
    BY SoundLines DEF isRecord
<1>3. verifyStoreRecords(f.lines, {}).valid
    BY LawfulAgrees, AgreesVerifies DEF Sound
<1>. QED
    BY <1>1, <1>2, <1>3, OpensOk

\* Any number of lines from the start of a sound file are sound, but for the
\* last of them when it is the unfinished one.
LEMMA SoundCut ==
    ASSUME NEW f, SoundFile(f), NEW n \in 0 .. Len(f.lines), n < Len(f.lines) \/ f.terminated
    PROVE  Sound(SubSeq(f.lines, 1, n))
<1>1. ASSUME NEW h, Sound(h), NEW m \in 0 .. Len(h) PROVE Sound(SubSeq(h, 1, m))
    <2>1. Lawful(SubSeq(h, 1, m))
        BY <1>1, LawfulPrefix DEF Sound
    <2>2. Len(SubSeq(h, 1, m)) = m /\ \A i \in 1 .. m : SubSeq(h, 1, m)[i] = h[i]
        BY <1>1, SoundSequence, PrefixOf
    <2>3. OfCallers(SubSeq(h, 1, m))
        BY <1>1, <2>2, SoundSequence DEF Sound, OfCallers
    <2>. QED
        BY <1>1, <2>1, <2>2, <2>3, SoundSequence, JsonlStoreAssumption DEF Sound
<1>2. CASE Sound(f.lines)
    BY <1>1, <1>2
<1>3. ASSUME ~f.terminated, NEW whole, Sound(whole), f.lines = Append(whole, Garbage)
      PROVE  Sound(SubSeq(f.lines, 1, n))
    <2>1. IsSequence(whole) /\ Len(whole) \in Nat /\ Len(f.lines) = Len(whole) + 1
        BY <1>3, SoundSequence, LongerByOne
    <2>2. n \in 0 .. Len(whole)
        BY <1>3, <2>1
    <2>3. SubSeq(f.lines, 1, n) = SubSeq(whole, 1, n)
        BY <1>3, <2>1, <2>2, PrefixOfLonger
    <2>. QED
        BY <1>1, <1>3, <2>2, <2>3
<1>. QED
    BY <1>2, <1>3 DEF SoundFile

\* A power loss leaves a sound file.
LEMMA SurvivorsSound ==
    ASSUME Shapes, SoundFile(file), SoundFile(durable), NEW f \in Survivors
    PROVE  SoundFile(f)
<1>. DEFINE all == Len(file.lines)
            kept == Len(durable.lines)
            cut(n) == SubSeq(file.lines, 1, n)
<1>1. all \in Nat /\ kept \in Nat /\ IsSequence(file.lines)
    BY DEF Shapes, IsFile, IsSequence
<1>2. \/ f \in {file, durable}
      \/ \E n \in kept .. all : (n < all \/ file.terminated) /\ f = [lines |-> cut(n), terminated |-> TRUE]
      \/ \E n \in (kept + 1) .. all : f = [lines |-> cut(n), terminated |-> FALSE]
      \/ \E n \in kept .. (all - 1) : f = [lines |-> Append(cut(n), Garbage), terminated |-> FALSE]
    <2>1. ASSUME f \in {[lines |-> cut(n), terminated |-> TRUE] : n \in {m \in kept .. all : m < all \/ file.terminated}}
          PROVE  \E n \in kept .. all : (n < all \/ file.terminated) /\ f = [lines |-> cut(n), terminated |-> TRUE]
        BY ONLY <2>1
    <2>2. ASSUME f \in {[lines |-> cut(n), terminated |-> FALSE] : n \in (kept + 1) .. all}
          PROVE  \E n \in (kept + 1) .. all : f = [lines |-> cut(n), terminated |-> FALSE]
        BY ONLY <2>2
    <2>3. ASSUME f \in {[lines |-> Append(cut(n), Garbage), terminated |-> FALSE] : n \in kept .. (all - 1)}
          PROVE  \E n \in kept .. (all - 1) : f = [lines |-> Append(cut(n), Garbage), terminated |-> FALSE]
        BY ONLY <2>3
    <2>. QED
        BY <2>1, <2>2, <2>3, Zenon DEF Survivors
<1>3. ASSUME NEW n \in 0 .. all, n < all \/ file.terminated, f.lines = cut(n)
      PROVE  SoundFile(f)
    BY <1>3, SoundCut DEF SoundFile
<1>4. ASSUME NEW n \in 0 .. all, n < all, f.lines = Append(cut(n), Garbage), f.terminated = FALSE
      PROVE  SoundFile(f)
    BY <1>4, SoundCut DEF SoundFile
<1>5. ASSUME f.lines = cut(all), f.terminated = FALSE
      PROVE  SoundFile(f)
    <2>1. f.lines = file.lines
        BY <1>1, <1>5, PrefixWhole
    <2>. QED
        BY <1>5, <2>1 DEF SoundFile
<1>6. ASSUME NEW n \in 0 .. all, f.lines = cut(n), f.terminated = FALSE
      PROVE  SoundFile(f)
    <2>1. n < all \/ n = all
        BY <1>1
    <2>. QED
        BY <1>3, <1>5, <1>6, <2>1
<1>7. ASSUME NEW n \in kept .. all, n < all \/ file.terminated, f = [lines |-> cut(n), terminated |-> TRUE]
      PROVE  SoundFile(f)
    <2>1. f.lines = cut(n) /\ n \in 0 .. all
        BY <1>1, <1>7
    <2>. QED
        BY <1>3, <1>7, <2>1
<1>8. ASSUME NEW n \in (kept + 1) .. all, f = [lines |-> cut(n), terminated |-> FALSE]
      PROVE  SoundFile(f)
    <2>1. f.lines = cut(n) /\ f.terminated = FALSE /\ n \in 0 .. all
        BY <1>1, <1>8
    <2>. QED
        BY <1>6, <2>1
<1>9. ASSUME NEW n \in kept .. (all - 1), f = [lines |-> Append(cut(n), Garbage), terminated |-> FALSE]
      PROVE  SoundFile(f)
    <2>1. f.lines = Append(cut(n), Garbage) /\ f.terminated = FALSE /\ n \in 0 .. all /\ n < all
        BY <1>1, <1>9
    <2>. QED
        BY <1>4, <2>1
<1>. QED
    BY <1>2, <1>7, <1>8, <1>9

----------------------------------------------------------------------------
(* The steps.                                                                *)

\* The record of a payload the guards let through keeps a history sound.
LEMMA SoundLonger ==
    ASSUME NEW h, Sound(h), Len(h) + 1 <= MaxRecords,
           NEW operation \in Payloads, StoreVerdict(h, operation[1], operation[2]) = "ok",
           NEW r, r = nextRecord(h, operation[1], operation[2])
    PROVE  Sound(Append(h, r))
<1>. DEFINE t == operation[1]
            p == operation[2]
            g == Append(h, r)
<1>1. t \in {"decision", "appeal_event"} /\ <<t, p>> \in Payloads
    BY DEF Payloads
<1>2. Lawful(g)
    BY <1>1, LawfulStep DEF Sound
<1>3. /\ Len(h) \in Nat /\ Len(g) = Len(h) + 1 /\ g[Len(h) + 1] = r
      /\ \A i \in 1 .. Len(h) : g[i] = h[i]
    BY SoundSequence, LongerByOne
<1>4. r.recordType = t /\ r.payload = p
    BY DEF nextRecord
<1>. HIDE DEF t, p, g
<1>5. ASSUME NEW i \in 1 .. Len(g) PROVE <<g[i].recordType, g[i].payload>> \in Payloads
    <2>1. CASE i = Len(h) + 1
        BY <1>1, <1>3, <1>4, <2>1
    <2>2. CASE i # Len(h) + 1
        <3>1. i \in 1 .. Len(h) /\ g[i] = h[i]
            BY <1>3, <2>2
        <3>. QED
            BY <3>1 DEF Sound, OfCallers
    <2>. QED
        BY <2>1, <2>2
<1>6. OfCallers(g)
    BY <1>5 DEF OfCallers
<1>. QED
    BY <1>2, <1>3, <1>6 DEF Sound, g

\* A whole record, a piece of one or nothing is added to a sound file.
LEMMA AppendedSound ==
    ASSUME NEW f, IsFile(f), Sound(f.lines), Len(f.lines) + 1 <= MaxRecords,
           NEW operation \in Payloads, StoreVerdict(f.lines, operation[1], operation[2]) = "ok",
           NEW r, r = nextRecord(f.lines, operation[1], operation[2])
    PROVE  /\ Sound(Append(f.lines, r))
           /\ \A g \in CutShort(f, ~f.terminated, r) : SoundFile(g)
<1>1. Sound(Append(f.lines, r))
    BY SoundLonger
<1>2. SUFFICES ASSUME NEW g \in CutShort(f, ~f.terminated, r) PROVE SoundFile(g)
    BY <1>1
<1>3. g = f \/ g.lines = f.lines \/ OneMore(f, r, g) \/ (OneMore(f, Garbage, g) /\ ~g.terminated)
    BY ONLY g \in CutShort(f, ~f.terminated, r), IsFile(f), AppendedFile
<1>4. OneMore(f, r, g) => SoundFile(g)
    BY <1>1 DEF OneMore, SoundFile
<1>5. OneMore(f, Garbage, g) /\ ~g.terminated => SoundFile(g)
    BY DEF OneMore, SoundFile
<1>6. g.lines = f.lines => SoundFile(g)
    BY DEF SoundFile
<1>. QED
    BY <1>3, <1>4, <1>5, <1>6

LEMMA FileSoundInit == Init => FileIsSound
<1>1. Sound(<<>>) /\ EmptyFile.lines = <<>>
    BY LawfulEmpty, JsonlStoreAssumption DEF Sound, OfCallers, EmptyFile
<1>. QED
    BY <1>1 DEF Init, FileIsSound, SoundFile, PendingIsSound

\* While a record is being appended, the file is what memory holds.
LEMMA AppendingToRecords ==
    ASSUME Shapes, PersistWhenSure, MemoryMatchesFile, FileIsSound, OperationAt("append")
    PROVE  /\ IsFile(file) /\ Sound(file.lines) /\ file.lines = records
           /\ needsSeparator = ~file.terminated
           /\ Appended(file, needsSeparator, pending).lines = Append(records, pending)
           /\ Sound(Append(records, pending))
           /\ \A g \in CutShort(file, needsSeparator, pending) : SoundFile(g)
<1>1. step = "append" /\ session # "down" /\ ~appendStateUncertain
    BY DEF OperationAt, PersistWhenSure
<1>2. file.lines = records /\ needsSeparator = ~file.terminated /\ IsFile(file)
    BY <1>1 DEF MemoryMatchesFile, Shapes
<1>3. Sound(records) /\ Len(records) + 1 <= MaxRecords
    BY <1>1 DEF FileIsSound, PendingIsSound
<1>4. PICK operation \in Payloads :
          /\ pending = nextRecord(records, operation[1], operation[2])
          /\ StoreVerdict(records, operation[1], operation[2]) = "ok"
    BY <1>1 DEF FileIsSound, PendingIsSound
<1>5. /\ Sound(Append(records, pending))
      /\ \A g \in CutShort(file, needsSeparator, pending) : SoundFile(g)
    BY <1>2, <1>3, <1>4, AppendedSound
<1>6. Appended(file, needsSeparator, pending) = [lines |-> Append(records, pending), terminated |-> TRUE]
    BY <1>2, AppendedFile
<1>. QED
    BY <1>2, <1>3, <1>5, <1>6

LEMMA PendingSoundStep ==
    ASSUME PersistWhenSure, Chain, PendingIsSound, [Next]_vars
    PROVE  PendingIsSound'
<1>1. ASSUME UNCHANGED <<records, pending, step>> PROVE PendingIsSound'
    BY <1>1 DEF PendingIsSound
<1>2. ASSUME step' = "idle" PROVE PendingIsSound'
    BY <1>2 DEF PendingIsSound
<1>3. CASE Open
    BY <1>2, <1>3 DEF Open, PersistWhenSure
<1>4. CASE Refuse \/ Replay \/ StatOverLimits \/ StatFails \/ AppendFails \/ SyncFails \/ indexRecord
    BY <1>2, <1>4 DEF Refuse, Replay, StatOverLimits, StatFails, AppendFails, SyncFails, indexRecord, Settle
<1>5. CASE Begin
    <2>. DEFINE operation == call[Head(queue)]
    <2>1. operation \in Payloads
        <3>1. Len(queue) \in Nat \ {0} /\ Head(queue) = queue[1] /\ queue[1] # Closer
            BY <1>5 DEF Begin, OperationAt, OperationRuns, Chain
        <3>. QED
            BY <3>1 DEF Chain
    <2>2. /\ pending' = nextRecord(records, operation[1], operation[2])
          /\ StoreVerdict(records, operation[1], operation[2]) = "ok"
          /\ step' = "stat" /\ records' = records
        BY <1>5 DEF Begin, Guards, Answer, memory
    <2>. HIDE DEF operation
    <2>. QED
        BY <2>1, <2>2 DEF PendingIsSound
<1>6. CASE StatWithinLimits
    BY <1>6 DEF StatWithinLimits, OperationAt, PendingIsSound, memory
<1>7. CASE AppendFile \/ Sync
    BY <1>7 DEF AppendFile, Sync, OperationAt, PendingIsSound, memory
<1>8. CASE Release \/ Kill \/ PowerLoss
    BY <1>2, <1>8 DEF Release, Kill, PowerLoss, Discard
<1>9. CASE RemoveStaleLock \/ close \/ Drained \/ UNCHANGED vars
    BY <1>1, <1>9 DEF RemoveStaleLock, close, Drained, memory, vars
<1>10. ASSUME NEW c \in Clients, NEW operation \in Payloads, enqueue(c, operation) PROVE PendingIsSound'
    BY <1>1, <1>10 DEF enqueue, memory
<1>. QED
    BY <1>3, <1>4, <1>5, <1>6, <1>7, <1>8, <1>9, <1>10 DEF Next, RunOperation, Decide, Persist

LEMMA FileSoundStep ==
    ASSUME Shapes, PersistWhenSure, MemoryMatchesFile, Chain, FileIsSound, [Next]_vars
    PROVE  FileIsSound'
<1>1. PendingIsSound'
    BY PendingSoundStep DEF FileIsSound
<1>2. ASSUME UNCHANGED <<file, durable>>, session' = "down" \/ (session # "down" /\ records' = records)
      PROVE  FileIsSound'
    BY <1>1, <1>2 DEF FileIsSound
<1>3. CASE Open
    <2>1. Sound(file.lines)
        <3>1. \A i \in 1 .. Len(file.lines) : isRecord(file.lines[i])
            BY <1>3, OpensOk DEF Open
        <3>2. ASSUME NEW whole, Sound(whole), file.lines = Append(whole, Garbage)
              PROVE  FALSE
            <4>1. Len(whole) + 1 \in 1 .. Len(file.lines) /\ file.lines[Len(whole) + 1] = Garbage
                BY <3>2, SoundSequence, LongerByOne
            <4>. QED
                BY <3>1, <4>1 DEF isRecord
        <3>. QED
            BY <3>2 DEF FileIsSound, SoundFile
    <2>. QED
        BY <1>1, <1>3, <2>1 DEF Open, FileIsSound
<1>4. CASE Refuse \/ Replay \/ Begin \/ StatWithinLimits \/ StatOverLimits \/ StatFails \/ SyncFails
    BY <1>2, <1>4 DEF Refuse, Replay, Begin, StatWithinLimits, StatOverLimits, StatFails, SyncFails,
                      OperationAt, PersistWhenSure, OperationRuns, disk, memory
<1>5. CASE AppendFile
    <2>1. OperationAt("append") /\ file' = Appended(file, needsSeparator, pending)
          /\ UNCHANGED <<durable, session, records>>
        BY <1>5 DEF AppendFile
    <2>2. Sound(file'.lines)
        BY <2>1, AppendingToRecords
    <2>. QED
        BY <1>1, <2>1, <2>2 DEF FileIsSound, SoundFile
<1>6. CASE AppendFails
    <2>1. OperationAt("append") /\ file' \in CutShort(file, needsSeparator, pending)
          /\ UNCHANGED <<durable, session, records>>
        BY <1>6 DEF AppendFails
    <2>2. SoundFile(file')
        BY <2>1, AppendingToRecords
    <2>. QED
        BY <1>1, <2>1, <2>2 DEF FileIsSound
<1>7. CASE Sync
    BY <1>1, <1>7 DEF Sync, FileIsSound, memory
<1>8. CASE indexRecord
    <2>1. step = "index" /\ session # "down" /\ UNCHANGED <<file, durable, session>> /\ records' = Append(records, pending)
        BY <1>8 DEF indexRecord, OperationAt, PersistWhenSure, disk
    <2>2. Sound(records) /\ Len(records) + 1 <= MaxRecords
        BY <2>1 DEF FileIsSound, PendingIsSound
    <2>3. PICK operation \in Payloads :
              /\ pending = nextRecord(records, operation[1], operation[2])
              /\ StoreVerdict(records, operation[1], operation[2]) = "ok"
        BY <2>1 DEF FileIsSound, PendingIsSound
    <2>4. Sound(Append(records, pending))
        BY <2>2, <2>3, SoundLonger
    <2>. QED
        BY <1>1, <2>1, <2>4 DEF FileIsSound
<1>9. CASE Release
    BY <1>2, <1>9 DEF Release, Discard
<1>10. CASE Kill
    <2>1. SoundFile(file')
        BY <1>10, AppendingToRecords DEF Kill, FileIsSound
    <2>. QED
        BY <1>1, <1>10, <2>1 DEF Kill, Discard, FileIsSound
<1>11. CASE PowerLoss
    <2>1. SoundFile(file') /\ durable' = file' /\ session' = "down"
        BY <1>11, SurvivorsSound DEF PowerLoss, Discard, FileIsSound
    <2>. QED
        BY <1>1, <2>1 DEF FileIsSound
<1>12. CASE RemoveStaleLock \/ close \/ Drained \/ UNCHANGED vars
    <2>1. UNCHANGED <<file, durable, records>> /\ (session' # "down" => session # "down")
        BY <1>12 DEF RemoveStaleLock, close, Drained, PersistWhenSure, memory, disk, vars
    <2>. QED
        BY <1>1, <2>1 DEF FileIsSound
<1>13. ASSUME NEW c \in Clients, NEW operation \in Payloads, enqueue(c, operation) PROVE FileIsSound'
    BY <1>2, <1>13 DEF enqueue, disk, memory
<1>. QED
    BY <1>3, <1>4, <1>5, <1>6, <1>7, <1>8, <1>9, <1>10, <1>11, <1>12, <1>13
       DEF Next, RunOperation, Decide, Persist

LEMMA FileSoundHolds == Spec => [](StoreInvariant /\ FileIsSound)
<1>1. StoreInvariant /\ FileIsSound /\ [Next]_vars => FileIsSound'
    BY FileSoundStep DEF StoreInvariant
<1>. QED
    BY <1>1, FileSoundInit, StoreInvariantHolds, PTL DEF Spec

\* Whatever was interrupted, killed, lost or reopened, the file but for one
\* unfinished last line is what open() accepts.
THEOREM DamageIsConfined == Spec => []DamageIsLastLine
<1>1. FileIsSound => DamageIsLastLine
    <2>. SUFFICES ASSUME FileIsSound, NEW f, f = [lines |-> WholeLines(file), terminated |-> TRUE]
                  PROVE  OpenVerdict(f) = "ok"
        BY DEF DamageIsLastLine
    <2>1. f.lines = WholeLines(file)
        OBVIOUS
    <2>. QED
        BY <2>1, SoundOpens, SoundVerdict DEF FileIsSound
<1>. QED
    BY <1>1, FileSoundHolds, PTL

----------------------------------------------------------------------------
(* What callers were told.                                                   *)

\* A call answered "replay" finds its payload in the file.
LEMMA ReplayInFile ==
    ASSUME StoreInvariant, FileIsSound, Replay
    PROVE  Stored(call[Head(queue)], file.lines)
<1>. DEFINE operation == call[Head(queue)]
<1>1. session # "down" /\ step = "idle"
    BY DEF Replay, OperationAt, OperationRuns, StoreInvariant, PersistWhenSure
<1>2. operation \in Payloads
    <2>1. Len(queue) \in Nat \ {0} /\ Head(queue) = queue[1] /\ queue[1] # Closer
        BY DEF Replay, OperationAt, OperationRuns, StoreInvariant, Chain
    <2>. QED
        BY <2>1 DEF StoreInvariant, Chain
<1>3. operation[1] \in {"decision", "appeal_event"} /\ operation = <<operation[1], operation[2]>>
    BY <1>2 DEF Payloads
<1>4. StoreVerdict(records, operation[1], operation[2]) = "replay"
    BY DEF Replay, Guards, Answer
<1>. HIDE DEF operation
<1>5. Lawful(records) /\ IsSequence(records)
    BY <1>1, SoundSequence DEF FileIsSound, Sound
<1>6. Filed(records)
    BY <1>5, LawfulAgrees DEF Agrees
<1>7. PICK i \in 1 .. Len(records) : records[i].recordType = operation[1] /\ records[i].payload = operation[2]
    BY <1>3, <1>4, <1>6, ReplayIsStored
<1>8. records[i] # Garbage
    BY <1>1, SoundLines DEF FileIsSound
<1>9. Stored(operation, records)
    BY <1>3, <1>7, <1>8 DEF Stored
<1>10. IsPrefix(records, file.lines)
    BY <1>1, <1>5, AppendSequence DEF StoreInvariant, MemoryMatchesFile
<1>. QED
    BY <1>5, <1>9, <1>10, StoredGrows DEF StoreInvariant, Shapes, IsFile, operation

LEMMA AckedStep ==
    ASSUME StoreInvariant, FileIsSound, AckedStored, [Next]_vars, ~PowerLoss, Shapes'
    PROVE  AckedStored'
<1>1. IsSequence(file.lines) /\ IsSequence(file'.lines)
    BY DEF StoreInvariant, Shapes, IsFile
<1>2. \A operation : Stored(operation, file.lines) => Stored(operation, file'.lines)
    BY <1>1, FileGrows, StoredGrows DEF StoreInvariant, Grown
<1>3. ASSUME acked' = acked PROVE AckedStored'
    BY <1>2, <1>3 DEF AckedStored
<1>4. ASSUME acked' = acked \cup {call[Head(queue)]}, Stored(call[Head(queue)], file.lines)
      PROVE  AckedStored'
    BY <1>2, <1>4 DEF AckedStored
<1>5. CASE Replay
    BY <1>4, <1>5, ReplayInFile DEF Replay, Settle
<1>6. CASE indexRecord
    <2>1. /\ file.lines = Append(records, pending) /\ IsSequence(records)
          /\ pending # Garbage /\ <<pending.recordType, pending.payload>> = call[Head(queue)]
        BY <1>6 DEF indexRecord, OperationAt, StoreInvariant, PersistWhenSure, MemoryMatchesFile, Shapes, PendingIsCalled
    <2>2. Stored(call[Head(queue)], file.lines)
        BY <2>1, StoredLast
    <2>. QED
        BY <1>4, <1>6, <2>2 DEF indexRecord, Settle
<1>7. CASE Refuse \/ Begin \/ StatWithinLimits \/ StatOverLimits \/ StatFails \/ AppendFile \/ AppendFails \/ Sync \/ SyncFails
    BY <1>3, <1>7 DEF Refuse, Begin, StatWithinLimits, StatOverLimits, StatFails, AppendFile, AppendFails, Sync, SyncFails,
                      Settle, ghosts
<1>8. CASE Open \/ close \/ Drained \/ Release \/ Kill \/ RemoveStaleLock \/ UNCHANGED vars
    BY <1>3, <1>8 DEF Open, close, Drained, Release, Kill, RemoveStaleLock, ghosts, vars
<1>9. ASSUME NEW c \in Clients, NEW operation \in Payloads, enqueue(c, operation) PROVE AckedStored'
    BY <1>3, <1>9 DEF enqueue, ghosts
<1>. QED
    BY <1>5, <1>6, <1>7, <1>8, <1>9 DEF Next, RunOperation, Decide, Persist

\* While the machine does not lose power, whatever a caller was told is stored,
\* by its own append or as a replay of an earlier one, stays in the file.
THEOREM AckedIsStored == Spec /\ [][~PowerLoss]_vars => []AckedStored
<1>1. Init => AckedStored
    BY DEF Init, AckedStored
<1>2. StoreInvariant /\ FileIsSound /\ AckedStored /\ [Next]_vars /\ [~PowerLoss]_vars /\ StoreInvariant' => AckedStored'
    <2>1. SUFFICES ASSUME StoreInvariant, FileIsSound, AckedStored, [Next]_vars, [~PowerLoss]_vars, Shapes'
                   PROVE  AckedStored'
        BY DEF StoreInvariant
    <2>2. CASE PowerLoss /\ UNCHANGED vars
        BY <2>1, <2>2 DEF vars, AckedStored
    <2>3. CASE ~PowerLoss
        BY <2>1, <2>3, AckedStep
    <2>. QED
        BY <2>1, <2>2, <2>3
<1>. QED
    BY <1>1, <1>2, FileSoundHolds, PTL DEF Spec

----------------------------------------------------------------------------
(* The lifecycle the file goes through.                                      *)
\* The appeals a history shows, one by one.
LEMMA ShownIs ==
    ASSUME NEW lines
    PROVE  AppealsShown(lines) = [a \in AppealIdsOf(lines) |-> AppealShown(AppealOf(lines, a))]
<1>1. \A a : The({AppealShown(events) : events \in {AppealOf(lines, a)}}) = AppealShown(AppealOf(lines, a))
    BY DEF The
<1>. QED
    BY <1>1 DEF AppealsShown

\* The history of a sound file.
LEMMA SoundLives ==
    ASSUME NEW h, Sound(h)
    PROVE  Lives(h) /\ DecisionsOf(h) \subseteq Decisions
<1>1. ASSUME NEW i \in 1 .. Len(h), h[i].recordType = "decision" PROVE h[i].payload \in Decisions
    <2>1. <<h[i].recordType, h[i].payload>> \in Payloads
        BY DEF Sound, OfCallers
    <2>. QED
        BY <1>1, <2>1 DEF Payloads
<1>2. \A i \in 1 .. Len(h) : h[i].recordType = "decision" => h[i].payload.maxAppealEvents \in Nat
    BY <1>1, JsonlStoreAssumption
<1>3. Lives(h)
    BY <1>2, LawfulLives DEF Sound
<1>. QED
    BY <1>1, <1>3 DEF DecisionsOf

\* A decision let through is one the lifecycle issues, or lets supersede.
Decided(h, g, shown, after, d) ==
    /\ DecisionsOf(g) = DecisionsOf(h) \cup {d}
    /\ after = shown
    /\ \A other \in DecisionsOf(h) : other.artifactId # d.artifactId
    /\ d.supersedesDecisionId # None =>
          /\ d.appealId \in DOMAIN shown
          /\ shown[d.appealId].decisionId = d.supersedesDecisionId
          /\ \E original \in DecisionsOf(h) : /\ original.artifactId = d.supersedesDecisionId
                                              /\ original.caseId = d.caseId
          /\ \A other \in DecisionsOf(h) :
                 ~ (other.appealId = d.appealId /\ other.supersedesDecisionId = d.supersedesDecisionId)

LEMMA DecisionLived ==
    ASSUME NEW h, Lives(h), NEW d \in Decisions, StoreVerdict(h, "decision", d) = "ok",
           NEW g, g = Append(h, nextRecord(h, "decision", d)),
           NEW shown, shown = AppealsShown(h), NEW after, after = AppealsShown(g)
    PROVE  Decided(h, g, shown, after, d)
<1>. SUFFICES ASSUME NEW r, r = nextRecord(h, "decision", d), g = Append(h, r)
              PROVE  Decided(h, g, shown, after, d)
    OBVIOUS
<1>1. IsSequence(h) /\ IsSequence(g)
    BY LongerByOne DEF Lives
<1>2. r.recordType = "decision" /\ r.payload = d
    BY ONLY r = nextRecord(h, "decision", d) DEF nextRecord
<1>3. DecisionsOf(g) = DecisionsOf(h) \cup {d}
    BY <1>1, <1>2, DecisionsOfStep
<1>4. AppealIdsOf(g) = AppealIdsOf(h)
    BY <1>1, <1>2, AppealIdsStep
<1>5. \A a : AppealOf(g, a) = AppealOf(h, a)
    BY <1>1, <1>2, AppealOfStep DEF AddEvent
<1>6. AppealsShown(g) = AppealsShown(h)
    BY ONLY <1>4, <1>5, ShownIs
<1>7. /\ ~ \E e \in DecisionsOf(h) : e.artifactId = d.artifactId
      /\ ~ SupersessionRefused(DecisionsOf(h), AppealOf(h, d.appealId), d)
    BY PutOk DEF StoreVerdict
<1>8. ASSUME d.supersedesDecisionId # None
      PROVE  /\ d.appealId \in DOMAIN shown
             /\ shown[d.appealId].decisionId = d.supersedesDecisionId
             /\ \E original \in DecisionsOf(h) : /\ original.artifactId = d.supersedesDecisionId
                                                 /\ original.caseId = d.caseId
             /\ \A other \in DecisionsOf(h) :
                    ~ (other.appealId = d.appealId /\ other.supersedesDecisionId = d.supersedesDecisionId)
    <2>. DEFINE events == AppealOf(h, d.appealId)
    <2>1. events # <<>> /\ events[1].decisionId = d.supersedesDecisionId
        BY <1>7, <1>8 DEF SupersessionRefused, appealBindsDecision
    <2>2. d.appealId \in AppealIdsOf(h)
        BY <2>1 DEF Lives
    <2>3. d.appealId \in DOMAIN shown /\ shown[d.appealId] = AppealShown(events)
        BY ONLY <2>2, shown = AppealsShown(h), ShownIs
    <2>4. shown[d.appealId].decisionId = d.supersedesDecisionId
        BY <2>1, <2>3 DEF AppealShown
    <2>. QED
        BY <1>7, <1>8, <2>3, <2>4 DEF SupersessionRefused
<1>. QED
    BY <1>3, <1>6, <1>7, <1>8 DEF Decided

LEMMA GenesisOk ==
    ASSUME NEW e, GenesisVerdict(e) = "ok"
    PROVE  e.eventType = "filed"
<1>. DEFINE odd == \/ e.sequence # 1
                   \/ e.eventType # "filed"
                   \/ e.previousEventDigest # None
            checks == << <<"ALB_APPEAL_GENESIS", odd>> >>
<1>1. Verdict(checks) = "ok"
    BY DEF GenesisVerdict
<1>. HIDE DEF odd
<1>2. DOMAIN checks = {1} /\ checks[1][1] = "ALB_APPEAL_GENESIS" /\ checks[1][2] = odd
    OBVIOUS
<1>. HIDE DEF checks
<1>3. ~ odd
    BY <1>1, <1>2, VerdictOk
<1>. QED
    BY <1>3 DEF odd

\* An event let through is one of the life of its appeal: it files the appeal,
\* or takes an open one further.
Happened(h, g, shown, after, p, a, n) ==
    /\ DecisionsOf(g) = DecisionsOf(h)
    /\ DOMAIN after = DOMAIN shown \cup {a}
    /\ \A b \in DOMAIN shown : b # a => after[b] = shown[b]
    /\ after[a] = [decisionId |-> p.decisionId, status |-> after[a].status, length |-> n + 1]
    /\ n \in Nat
    /\ \E d \in DecisionsOf(h) : d.artifactId = p.decisionId /\ n < d.maxAppealEvents
    /\ a \notin DOMAIN shown => n = 0 /\ after[a].status \in {"open", "conflicted"}
    /\ a \in DOMAIN shown =>
          /\ shown[a] = [decisionId |-> p.decisionId, status |-> "open", length |-> n]
          /\ after[a].status \in {"open", "upheld", "reversed", "withdrawn"}
          /\ after[a].status = "reversed" =>
                \E d \in DecisionsOf(h) : d.appealId = a /\ d.supersedesDecisionId = p.decisionId

LEMMA EventLived ==
    ASSUME NEW h, Lives(h), NEW p, StoreVerdict(h, "appeal_event", p) = "ok",
           NEW g, g = Append(h, nextRecord(h, "appeal_event", p)),
           NEW a, a = p.appealId,
           NEW shown, shown = AppealsShown(h), NEW after, after = AppealsShown(g),
           NEW n, n = Len(AppealOf(h, a))
    PROVE  Happened(h, g, shown, after, p, a, n)
<1>. DEFINE before == AppealOf(h, a)
            events == Append(before, p)
            r == nextRecord(h, "appeal_event", p)
<1>1. IsSequence(h) /\ IsSequence(g) /\ IsSequence(before)
    BY LongerByOne DEF Lives, AppealLived
<1>2. r.recordType = "appeal_event" /\ r.payload = p /\ r.entityId = a
    BY DEF nextRecord, EntityId
<1>. HIDE DEF r
<1>3. DecisionsOf(g) = DecisionsOf(h)
    BY <1>1, <1>2, DecisionsOfStep DEF r
<1>4. AppealIdsOf(g) = AppealIdsOf(h) \cup {a}
    BY <1>1, <1>2, AppealIdsStep DEF r
<1>5. \A b : AppealOf(g, b) = IF b = a THEN events ELSE AppealOf(h, b)
    BY <1>1, <1>2, AppealOfStep DEF AddEvent, r
<1>. HIDE DEF before, events
<1>6. /\ DOMAIN shown = AppealIdsOf(h) /\ DOMAIN after = AppealIdsOf(h) \cup {a}
      /\ \A b \in AppealIdsOf(h) : b # a => after[b] = shown[b]
      /\ after[a] = AppealShown(events)
      /\ a \in AppealIdsOf(h) => shown[a] = AppealShown(before)
    BY ONLY <1>4, <1>5, ShownIs, shown = AppealsShown(h), after = AppealsShown(g) DEF before
<1>7. /\ n \in Nat /\ Len(events) = n + 1 /\ events[n + 1] = p /\ \A i \in 1 .. n : events[i] = before[i]
    BY <1>1, LongerByOne DEF before, events
<1>8. before = <<>> <=> n = 0
    BY <1>1, <1>7, EmptySeq DEF IsSequence, before
<1>9. a \in AppealIdsOf(h) <=> before # <<>>
    BY DEF Lives, before
<1>10. /\ \E d \in DecisionsOf(h) : d.artifactId = p.decisionId /\ n < d.maxAppealEvents
       /\ AppendVerdict(before, p) = "ok" /\ ~ ReversalRefused(DecisionsOf(h), p)
    <2>. DEFINE contested == Contested(DecisionsOf(h), p.decisionId)
                prior == {h[i].payload : i \in {j \in 1 .. Len(h) : h[j].recordId = RecordId("appeal_event", p)}}
    <2>1. EventVerdict(DecisionsOf(h), contested, before, prior, p) = "ok"
        BY Zenon DEF StoreVerdict, AppealVerdict, Contested, before
    <2>. HIDE DEF contested, prior
    <2>2. /\ contested # {} /\ assertAppealPolicyAllows(The(contested), before, p) = "ok"
          /\ AppendVerdict(before, p) = "ok" /\ ~ ReversalRefused(DecisionsOf(h), p)
        BY ONLY <2>1, EventOk
    <2>3. The(contested) \in DecisionsOf(h) /\ The(contested).artifactId = p.decisionId
        BY <2>2 DEF The, contested, Contested
    <2>4. ~ (n >= The(contested).maxAppealEvents)
        BY <2>2, PolicyOk DEF before
    <2>5. The(contested).maxAppealEvents \in Nat
        BY <2>3 DEF Lives, DecidedOnce
    <2>. QED
        BY <1>7, <2>2, <2>3, <2>4, <2>5
<1>11. ASSUME n = 0
       PROVE  events[1].decisionId = p.decisionId /\ replayStatus(events) \in {"open", "conflicted"}
    <2>1. GenesisVerdict(p) = "ok"
        BY <1>8, <1>10, <1>11 DEF AppendVerdict
    <2>2. p.eventType = "filed"
        BY <2>1, GenesisOk
    <2>3. events[Len(events)] = p /\ events[1] = p
        BY <1>7, <1>11
    <2>. QED
        BY <2>2, <2>3 DEF replayStatus, statusFor, TERMINAL_EVENTS
<1>12. ASSUME n # 0
       PROVE  /\ events[1].decisionId = p.decisionId /\ before[1].decisionId = p.decisionId
              /\ replayStatus(before) = "open"
              /\ replayStatus(events) \in {"open", "upheld", "reversed", "withdrawn"}
              /\ replayStatus(events) = "reversed" =>
                    \E d \in DecisionsOf(h) : d.appealId = a /\ d.supersedesDecisionId = p.decisionId
    <2>1. before # <<>> /\ AppendVerdict(before, p) = "ok"
        BY <1>8, <1>10, <1>12
    <2>2. /\ p.decisionId = before[1].decisionId
          /\ before[Len(before)].eventType \notin TERMINAL_EVENTS
          /\ replayIssues(before, None) = {} /\ replayIssues(events, None) = {}
        BY ONLY <2>1, <1>1, AppendOk, ExtendedReplays DEF events
    <2>3. events[Len(events)] = p /\ events[1] = before[1]
        BY <1>7, <1>12
    <2>4. replayStatus(before) = "open"
        BY <2>2 DEF replayStatus, statusFor
    <2>5. /\ replayStatus(events) \in {"open", "upheld", "reversed", "withdrawn"}
          /\ replayStatus(events) = "reversed" => p.eventType = "reversed"
        BY <2>2, <2>3 DEF replayStatus, statusFor, TERMINAL_EVENTS
    <2>. QED
        BY <1>10, <2>2, <2>3, <2>4, <2>5 DEF ReversalRefused
<1>13. AppealShown(events) = [decisionId |-> p.decisionId, status |-> replayStatus(events), length |-> n + 1]
    BY <1>7, <1>11, <1>12 DEF AppealShown
<1>14. n # 0 => AppealShown(before) = [decisionId |-> p.decisionId, status |-> "open", length |-> n]
    BY <1>12 DEF AppealShown, before
<1>15. after[a].status = replayStatus(events)
    BY <1>6, <1>13
<1>16. a \in DOMAIN shown <=> n # 0
    BY <1>6, <1>8, <1>9
<1>. QED
    BY <1>3, <1>6, <1>7, <1>10, <1>11, <1>12, <1>13, <1>14, <1>15, <1>16 DEF Happened

\* One more record is one step of the lifecycle.
LEMMA RecordIsStep ==
    ASSUME NEW h, Sound(h), NEW operation \in Payloads, StoreVerdict(h, operation[1], operation[2]) = "ok",
           Whole = h, Whole' = Append(h, nextRecord(h, operation[1], operation[2]))
    PROVE  Lifecycle!Next
<1>. SUFFICES ASSUME NEW g, g = Append(h, nextRecord(h, operation[1], operation[2])), Whole' = g
              PROVE  Lifecycle!Next
    OBVIOUS
<1>. DEFINE shown == AppealsShown(h)
            after == AppealsShown(g)
<1>1. Lives(h) /\ DecisionsOf(h) \subseteq Decisions
    BY SoundLives
<1>2. /\ DecisionsOf(Whole) = DecisionsOf(h) /\ DecisionsOf(Whole)' = DecisionsOf(g)
      /\ AppealsShown(Whole) = shown /\ AppealsShown(Whole)' = after
    BY ONLY Whole = h, Whole' = g
<1>. HIDE DEF shown, after
<1>3. ASSUME NEW a PROVE Lifecycle!Contested(a) = CHOOSE c \in DecisionsOf(h) : c.artifactId = shown[a].decisionId
    BY <1>2 DEF Lifecycle!Contested
<1>4. ASSUME NEW d \in Decisions, operation = <<"decision", d>> PROVE Lifecycle!Next
    <2>1. Decided(h, g, shown, after, d)
        <3>1. StoreVerdict(h, "decision", d) = "ok" /\ g = Append(h, nextRecord(h, "decision", d))
            BY <1>4
        <3>. QED
            BY <1>1, <3>1, DecisionLived DEF shown, after
    <2>. USE DEF Decided
    <2>2. CASE d.supersedesDecisionId = None
        <3>1. Lifecycle!Issue(d)
            BY <1>2, <2>1, <2>2 DEF Lifecycle!Issue, Lifecycle!Unissued
        <3>. QED
            BY <3>1 DEF Lifecycle!Next
    <2>3. CASE d.supersedesDecisionId # None
        <3>1. Lifecycle!Contested(d.appealId).caseId = d.caseId
            <4>1. PICK original \in DecisionsOf(h) : /\ original.artifactId = d.supersedesDecisionId
                                                     /\ original.caseId = d.caseId
                BY <2>1, <2>3
            <4>2. \A c \in DecisionsOf(h) : c.artifactId = original.artifactId => c = original
                BY <1>1 DEF Lives, DecidedOnce
            <4>3. Lifecycle!Contested(d.appealId) = original
                BY <1>3, <2>1, <2>3, <4>1, <4>2
            <4>. QED
                BY <4>1, <4>3
        <3>2. Lifecycle!Supersede(d)
            BY <1>2, <2>1, <2>3, <3>1 DEF Lifecycle!Supersede, Lifecycle!Unissued, Lifecycle!Supersession
        <3>. QED
            BY <3>2 DEF Lifecycle!Next
    <2>. QED
        BY <2>2, <2>3
<1>5. ASSUME NEW p \in Events, operation = <<"appeal_event", p>> PROVE Lifecycle!Next
    <2>. DEFINE a == p.appealId
                n == Len(AppealOf(h, a))
                ids == {event.appealId : event \in Events}
    <2>1. Happened(h, g, shown, after, p, a, n)
        <3>1. StoreVerdict(h, "appeal_event", p) = "ok" /\ g = Append(h, nextRecord(h, "appeal_event", p))
            BY <1>5
        <3>. QED
            BY <1>1, <3>1, EventLived DEF shown, after
    <2>. USE DEF Happened
    <2>2. PICK d \in DecisionsOf(h) : d.artifactId = p.decisionId /\ n < d.maxAppealEvents
        BY <2>1
    <2>3. d \in Decisions /\ d.maxAppealEvents \in Nat /\ a \in ids
        BY <1>1 DEF Lives, DecidedOnce
    <2>4. after = [b \in DOMAIN after |-> after[b]] /\ shown = [b \in DOMAIN shown |-> shown[b]]
        BY ONLY ShownIs DEF shown, after
    <2>. DEFINE status == after[a].status
    <2>. HIDE DEF a, n, status
    <2>5. after[a] = [decisionId |-> p.decisionId, status |-> status, length |-> n + 1]
        BY <2>1 DEF status
    <2>6. CASE a \notin DOMAIN shown
        <3>1. n = 0 /\ status \in {"open", "conflicted"} /\ d.maxAppealEvents >= 1
            BY <2>1, <2>2, <2>3, <2>6 DEF status
        <3>2. after[a] = [decisionId |-> d.artifactId, status |-> status, length |-> 1]
            BY ONLY <2>2, <2>5, <3>1
        <3>3. after = [b \in DOMAIN shown \cup {a} |->
                          IF b = a THEN [decisionId |-> d.artifactId, status |-> status, length |-> 1] ELSE shown[b]]
            BY ONLY <2>1, <2>4, <2>6, <3>2
        <3>4. Lifecycle!File(a, d, status)
            BY <1>2, <2>1, <2>6, <3>1, <3>3 DEF Lifecycle!File
        <3>. QED
            BY <2>3, <3>1, <3>4 DEF Lifecycle!Next
    <2>7. CASE a \in DOMAIN shown
        <3>1. /\ shown[a] = [decisionId |-> p.decisionId, status |-> "open", length |-> n]
              /\ status \in {"open", "upheld", "reversed", "withdrawn"}
              /\ status = "reversed" =>
                     \E c \in DecisionsOf(h) : c.appealId = a /\ c.supersedesDecisionId = p.decisionId
            BY <2>1, <2>7 DEF status
        <3>2. shown[a].decisionId = p.decisionId /\ shown[a].status = "open" /\ shown[a].length = n
            BY ONLY <3>1
        <3>3. Lifecycle!Contested(a) = d
            <4>1. \A c \in DecisionsOf(h) : c.artifactId = d.artifactId => c = d
                BY <1>1 DEF Lives, DecidedOnce
            <4>. QED
                BY <1>3, <2>2, <3>2, <4>1
        <3>4. DOMAIN after = DOMAIN shown
            BY <2>1, <2>7
        <3>5. after = [shown EXCEPT ![a] = [decisionId |-> shown[a].decisionId, status |-> status,
                                            length |-> shown[a].length + 1]]
            BY ONLY <2>1, <2>4, <2>5, <2>7, <3>2, <3>4 DEF Happened
        <3>6. status = "reversed" => \E c \in DecisionsOf(h) : Lifecycle!Supersession(a, c)
            BY <1>2, <3>1, <3>2 DEF Lifecycle!Supersession
        <3>7. Lifecycle!Advance(a, status)
            BY <1>2, <2>1, <2>2, <2>7, <3>2, <3>3, <3>5, <3>6 DEF Lifecycle!Advance
        <3>. QED
            BY <2>3, <3>1, <3>7 DEF Lifecycle!Next
    <2>. QED
        BY <2>6, <2>7
<1>. QED
    BY <1>4, <1>5 DEF Payloads

\* What a sound file holds but for an unfinished last line.
LEMMA WholeOf ==
    ASSUME NEW f, NEW h, Sound(h)
    PROVE  /\ f.lines = h => WholeLines(f) = h
           /\ f.lines = Append(h, Garbage) /\ ~f.terminated => WholeLines(f) = h
<1>1. IsSequence(h) /\ Len(h) \in Nat
    BY SoundSequence
<1>2. h # <<>> => Last(h) # Garbage
    <2>1. h # <<>> => Len(h) \in 1 .. Len(h)
        BY <1>1, EmptySeq DEF IsSequence
    <2>. QED
        BY <2>1, SoundLines DEF Last
<1>3. Append(h, Garbage) # <<>> /\ Last(Append(h, Garbage)) = Garbage /\ Front(Append(h, Garbage)) = h
    BY <1>1, LastOfLonger
<1>. QED
    BY <1>2, <1>3 DEF WholeLines

\* A step that is no power loss leaves what the file holds, or adds a record
\* the guards let through.
LEMMA WholeStep ==
    ASSUME StoreInvariant, FileIsSound, [Next]_vars, ~PowerLoss
    PROVE  \/ Whole' = Whole
           \/ /\ Sound(Whole)
              /\ \E operation \in Payloads :
                     /\ StoreVerdict(Whole, operation[1], operation[2]) = "ok"
                     /\ Whole' = Append(Whole, nextRecord(Whole, operation[1], operation[2]))
<1>. DEFINE Goal == \/ Whole' = Whole
                    \/ /\ Sound(Whole)
                       /\ \E operation \in Payloads :
                              /\ StoreVerdict(Whole, operation[1], operation[2]) = "ok"
                              /\ Whole' = Append(Whole, nextRecord(Whole, operation[1], operation[2]))
<1>. SUFFICES Goal
    OBVIOUS
<1>1. ASSUME file' = file PROVE Goal
    BY <1>1 DEF Whole
<1>2. ASSUME OperationAt("append"),
             \/ file' = Appended(file, needsSeparator, pending)
             \/ file' \in CutShort(file, needsSeparator, pending)
      PROVE  Goal
    <2>1. /\ IsFile(file) /\ Sound(file.lines) /\ file.lines = records /\ needsSeparator = ~file.terminated
          /\ Sound(Append(records, pending))
        BY <1>2, AppendingToRecords DEF StoreInvariant
    <2>2. PICK operation \in Payloads :
              /\ pending = nextRecord(records, operation[1], operation[2])
              /\ StoreVerdict(records, operation[1], operation[2]) = "ok"
        BY <1>2 DEF FileIsSound, PendingIsSound, OperationAt
    <2>3. Whole = records
        BY <2>1, WholeOf DEF Whole
    <2>4. /\ Appended(file, ~file.terminated, pending) = [lines |-> Append(file.lines, pending), terminated |-> TRUE]
          /\ \A g \in CutShort(file, ~file.terminated, pending) :
                 g = file \/ g.lines = file.lines \/ OneMore(file, pending, g) \/ (OneMore(file, Garbage, g) /\ ~g.terminated)
        BY <2>1, AppendedFile
    <2>5. \/ file'.lines = records
          \/ file'.lines = Append(records, pending)
          \/ file'.lines = Append(records, Garbage) /\ ~file'.terminated
        BY <1>2, <2>1, <2>4 DEF OneMore
    <2>6. \/ WholeLines(file') = records
          \/ WholeLines(file') = Append(records, pending)
        <3>. SUFFICES ASSUME NEW g, g = file'
                      PROVE  WholeLines(g) = records \/ WholeLines(g) = Append(records, pending)
            OBVIOUS
        <3>1. Sound(records)
            BY <2>1
        <3>. QED
            BY <2>1, <2>5, <3>1, WholeOf DEF OneMore
    <2>7. Whole' = WholeLines(file')
        BY DEF Whole, WholeLines
    <2>. QED
        BY <2>1, <2>2, <2>3, <2>6, <2>7
<1>3. CASE AppendFile
    BY <1>2, <1>3 DEF AppendFile
<1>4. CASE AppendFails
    BY <1>2, <1>4 DEF AppendFails
<1>5. CASE Kill
    BY <1>1, <1>2, <1>5 DEF Kill
<1>6. CASE Refuse \/ Replay \/ Begin \/ StatWithinLimits \/ StatOverLimits \/ StatFails \/ Sync \/ SyncFails \/ indexRecord
    BY <1>1, <1>6 DEF Refuse, Replay, Begin, StatWithinLimits, StatOverLimits, StatFails, Sync, SyncFails,
                      indexRecord, disk
<1>7. CASE Open \/ close \/ Drained \/ Release \/ RemoveStaleLock \/ UNCHANGED vars
    BY <1>1, <1>7 DEF Open, close, Drained, Release, RemoveStaleLock, disk, vars
<1>8. ASSUME NEW c \in Clients, NEW operation \in Payloads, enqueue(c, operation)
      PROVE  Goal
    BY <1>1, <1>8 DEF enqueue, disk
<1>. QED
    BY <1>3, <1>4, <1>5, <1>6, <1>7, <1>8 DEF Next, RunOperation, Decide, Persist

\* As long as the machine does not lose power, the store, killed, interrupted
\* and reopened as it may be, takes what its file holds only through the steps
\* of the appeal lifecycle: decisions issued once, one supersession for an
\* appeal against the decision it replaces, an open appeal taken further within
\* that decision's cap, no reversal before it.
THEOREM StoreKeepsLifecycle == Spec /\ [][~PowerLoss]_vars => ImplementsLifecycle
<1>1. Init => Lifecycle!Init
    <2>. SUFFICES ASSUME Init PROVE Lifecycle!Init
        OBVIOUS
    <2>1. Sound(<<>>) /\ file.lines = <<>>
        BY LawfulEmpty, JsonlStoreAssumption DEF Init, EmptyFile, Sound, OfCallers
    <2>2. Whole = <<>>
        BY <2>1, WholeOf DEF Whole
    <2>3. DecisionsOf(<<>>) = {} /\ AppealIdsOf(<<>>) = {}
        BY DEF DecisionsOf, AppealIdsOf
    <2>4. AppealsShown(<<>>) = [a \in {} |-> None]
        BY ONLY <2>3, ShownIs
    <2>. QED
        BY <2>2, <2>3, <2>4 DEF Lifecycle!Init
<1>2. StoreInvariant /\ FileIsSound /\ [Next]_vars /\ [~PowerLoss]_vars => [Lifecycle!Next]_(Lifecycle!vars)
    <2>. SUFFICES ASSUME StoreInvariant, FileIsSound, [Next]_vars, [~PowerLoss]_vars
                  PROVE  [Lifecycle!Next]_(Lifecycle!vars)
        OBVIOUS
    <2>1. ASSUME Whole' = Whole PROVE UNCHANGED Lifecycle!vars
        BY <2>1 DEF Lifecycle!vars
    <2>2. CASE UNCHANGED vars
        <3>1. Whole' = Whole
            BY <2>2 DEF vars, Whole
        <3>. QED
            BY <2>1, <3>1
    <2>3. CASE ~PowerLoss
        <3>1. CASE Whole' = Whole
            BY <2>1, <3>1
        <3>2. CASE Whole' # Whole
            <4>1. PICK operation \in Payloads :
                      /\ Sound(Whole)
                      /\ StoreVerdict(Whole, operation[1], operation[2]) = "ok"
                      /\ Whole' = Append(Whole, nextRecord(Whole, operation[1], operation[2]))
                BY <2>3, <3>2, WholeStep
            <4>2. Lifecycle!Next
                BY <4>1, RecordIsStep
            <4>. QED
                BY <4>2
        <3>. QED
            BY <3>1, <3>2
    <2>. QED
        BY <2>2, <2>3
<1>. QED
    BY <1>1, <1>2, FileSoundHolds, PTL DEF Spec, ImplementsLifecycle, Lifecycle!Spec

----------------------------------------------------------------------------
(* The auditor.  A file as a sequence of pieces: how many there are, and     *)
(* which one is where.                                                       *)
Count(f) == IF f.terminated THEN 2 * Len(f.lines) ELSE IF Len(f.lines) = 0 THEN 0 ELSE 2 * Len(f.lines) - 1

PieceAt(f, i) == IF i % 2 = 1 THEN f.lines[(i + 1) \div 2] ELSE NewlinePiece

LEMMA CutIsSequence ==
    ASSUME NEW s, IsSequence(s), NEW m \in Nat, NEW n \in Nat, n <= Len(s)
    PROVE  Len(SubSeq(s, m + 1, n)) \in Nat
<1>1. PICK S : s \in Seq(S)
    BY DEF IsSequence
<1>. QED
    BY <1>1

LEMMA PiecesOf ==
    ASSUME NEW f, IsFile(f), NEW there, there = Pieces(f)
    PROVE  /\ IsSequence(there)
           /\ Len(there) = Count(f)
           /\ \A i \in 1 .. Len(there) : there[i] = PieceAt(f, i)
<1>1. Len(f.lines) \in Nat /\ f.terminated \in BOOLEAN
    BY DEF IsFile, IsSequence
<1>. DEFINE n == IF f.terminated THEN 2 * Len(f.lines) ELSE 2 * Len(f.lines) - 1
<1>2. there = [i \in 1 .. n |-> PieceAt(f, i)]
    BY DEF Pieces, PieceAt
<1>3. n \in Int /\ 1 .. n = 1 .. Count(f) /\ Count(f) \in Nat
    BY <1>1 DEF Count
<1>. HIDE DEF n
<1>4. there = [i \in 1 .. Count(f) |-> PieceAt(f, i)]
    BY ONLY <1>2, <1>3
<1>. DEFINE S == {PieceAt(f, i) : i \in 1 .. Count(f)}
<1>5. there \in Seq(S) /\ Len(there) = Count(f)
    <2>1. \A i \in 1 .. Count(f) : PieceAt(f, i) \in S
        OBVIOUS
    <2>. HIDE DEF S
    <2>. QED
        BY ONLY <1>3, <1>4, <2>1
<1>. QED
    BY ONLY <1>3, <1>4, <1>5 DEF IsSequence

LEMMA PiecesMakeLines ==
    ASSUME NEW f, IsFile(f)
    PROVE  LinesOf(Pieces(f)) = f.lines
<1>. SUFFICES ASSUME NEW there, there = Pieces(f) PROVE LinesOf(there) = f.lines
    OBVIOUS
<1>1. Len(f.lines) \in Nat /\ f.terminated \in BOOLEAN /\ f.lines = [i \in 1 .. Len(f.lines) |-> f.lines[i]]
    BY DEF IsFile, IsSequence
<1>2. Len(there) = Count(f) /\ \A i \in 1 .. Len(there) : there[i] = PieceAt(f, i)
    BY PiecesOf
<1>3. (Len(there) + 1) \div 2 = Len(f.lines)
    <2>1. ASSUME NEW n \in Nat PROVE (2 * n + 1) \div 2 = n /\ (2 * n - 1 + 1) \div 2 = n /\ (0 + 1) \div 2 = 0
        BY ONLY <2>1
    <2>. QED
        BY ONLY <1>1, <1>2, <2>1 DEF Count
<1>4. ASSUME NEW i \in 1 .. Len(f.lines) PROVE there[2 * i - 1] = f.lines[i]
    <2>1. 2 * i - 1 \in 1 .. Len(there)
        BY ONLY <1>1, <1>2, <1>4 DEF Count
    <2>2. (2 * i - 1) % 2 = 1 /\ ((2 * i - 1) + 1) \div 2 = i
        BY ONLY <1>1, <1>4
    <2>. QED
        BY ONLY <1>2, <2>1, <2>2 DEF PieceAt
<1>5. LinesOf(there) = [i \in 1 .. Len(f.lines) |-> there[2 * i - 1]]
    BY ONLY <1>3 DEF LinesOf
<1>. QED
    BY <1>1, <1>4, <1>5

\* A file that has grown has more pieces, and the old ones are where they were.
LEMMA PiecesGrow ==
    ASSUME NEW f, IsFile(f), NEW g, IsFile(g), Grown(f, g)
    PROVE  /\ Count(f) \in Nat /\ Count(g) \in Nat /\ Count(f) <= Count(g)
           /\ \A i \in 1 .. Count(f) : PieceAt(f, i) = PieceAt(g, i)
<1>1. /\ Len(f.lines) \in Nat /\ Len(g.lines) \in Nat /\ f.terminated \in BOOLEAN /\ g.terminated \in BOOLEAN
      /\ IsSequence(f.lines) /\ IsSequence(g.lines)
    BY DEF IsFile, IsSequence
<1>2. Len(f.lines) <= Len(g.lines) /\ \A i \in 1 .. Len(f.lines) : f.lines[i] = g.lines[i]
    BY <1>1, PrefixElements DEF Grown
<1>3. ASSUME Len(f.lines) = Len(g.lines), f.terminated PROVE g.terminated
    <2>1. f.lines = g.lines
        BY <1>1, <1>2, <1>3, SeqEqual DEF IsFile, IsSequence
    <2>. QED
        BY <1>3, <2>1 DEF Grown
<1>4. Count(f) \in Nat /\ Count(g) \in Nat /\ Count(f) <= Count(g)
    BY ONLY <1>1, <1>2, <1>3 DEF Count
<1>5. ASSUME NEW i \in 1 .. Count(f) PROVE PieceAt(f, i) = PieceAt(g, i)
    <2>1. i % 2 = 1 => (i + 1) \div 2 \in 1 .. Len(f.lines)
        BY ONLY <1>1, <1>5 DEF Count
    <2>. QED
        BY <1>2, <2>1 DEF PieceAt
<1>. QED
    BY <1>4, <1>5

Between(there, from, last) == SubSeq(there, from + 1, last)

ReadBy(buffer, unread, n) == buffer \o SubSeq(unread, 1, n)

\* Reading on from where the buffer ends.
LEMMA ReadOn ==
    ASSUME NEW there, IsSequence(there), NEW buffer, IsSequence(buffer), NEW last \in Nat, last <= Len(there),
           Len(buffer) <= Len(there), \A i \in 1 .. Len(buffer) : buffer[i] = there[i],
           NEW unread, unread = Between(there, Len(buffer), last), NEW n \in 1 .. Len(unread),
           NEW longer, longer = ReadBy(buffer, unread, n)
    PROVE  /\ IsSequence(longer)
           /\ Len(longer) <= Len(there)
           /\ \A i \in 1 .. Len(longer) : longer[i] = there[i]
<1>1. PICK S : there \in Seq(S)
    BY DEF IsSequence
<1>2. PICK T : buffer \in Seq(T)
    BY DEF IsSequence
<1>3. Len(there) \in Nat /\ Len(buffer) \in Nat
    BY <1>1, <1>2
<1>4. /\ unread \in Seq(S)
      /\ Len(unread) = IF Len(buffer) + 1 <= last THEN last - Len(buffer) ELSE 0
      /\ \A i \in 1 .. Len(unread) : unread[i] = there[Len(buffer) + i]
    BY <1>1, <1>3 DEF Between
<1>. DEFINE read == SubSeq(unread, 1, n)
<1>5. read \in Seq(S) /\ Len(read) = n /\ \A i \in 1 .. n : read[i] = unread[i]
    BY <1>4
<1>. HIDE DEF read
<1>6. buffer \in Seq(S \cup T) /\ read \in Seq(S \cup T) /\ n \in Nat
    BY <1>2, <1>4, <1>5
<1>7. longer = buffer \o read
    BY DEF read, ReadBy
<1>8. /\ longer \in Seq(S \cup T)
      /\ Len(longer) = Len(buffer) + n
      /\ \A i \in 1 .. Len(longer) : longer[i] = IF i <= Len(buffer) THEN buffer[i] ELSE read[i - Len(buffer)]
    <2>. DEFINE U == S \cup T
    <2>. HIDE DEF U
    <2>1. buffer \in Seq(U) /\ read \in Seq(U)
        BY <1>6 DEF U
    <2>2. /\ buffer \o read \in Seq(U)
          /\ Len(buffer \o read) = Len(buffer) + Len(read)
          /\ \A i \in 1 .. Len(buffer) + Len(read) : (buffer \o read)[i] = IF i <= Len(buffer) THEN buffer[i] ELSE read[i - Len(buffer)]
        BY ONLY <2>1, ConcatProperties
    <2>3. Len(read) = n
        BY <1>5
    <2>. QED
        BY ONLY <1>7, <2>2, <2>3, Zenon DEF U
<1>9. ASSUME NEW i \in 1 .. Len(longer) PROVE longer[i] = there[i]
    <2>1. CASE i <= Len(buffer)
        BY <1>3, <1>8, <1>9, <2>1
    <2>2. CASE ~ (i <= Len(buffer))
        <3>1. i - Len(buffer) \in 1 .. n /\ n <= Len(unread) /\ n \in Nat
            BY ONLY n \in 1 .. Len(unread), <1>3, <1>4, <1>8, <1>9, <2>2
        <3>2. longer[i] = unread[i - Len(buffer)]
            BY <1>5, <1>8, <1>9, <2>2, <3>1
        <3>. QED
            BY <1>3, <1>4, <3>1, <3>2
    <2>. QED
        BY <2>1, <2>2
<1>10. Len(longer) <= Len(there)
    <2>1. n <= Len(unread) /\ Len(unread) \in Nat
        BY <1>4
    <2>. QED
        BY ONLY <1>3, <1>4, <1>6, <1>8, <2>1, last \in Nat, last <= Len(there), Len(buffer) <= Len(there), n \in 1 .. Len(unread)
<1>. QED
    BY <1>8, <1>9, <1>10 DEF IsSequence

\* A checkpoint names a record of the history it was taken from.
CheckpointOf(c, lines) == c.sequence \in 1 .. Len(lines) /\ c.headHash = lines[c.sequence].recordHash

AuditFields == {"begun", "given", "size", "buffer", "outcome"}

\* What an audit that has begun knows: the file has only grown since, and what
\* was read of it is where it was read.
AuditReads ==
    audit # None =>
        /\ AuditFields \subseteq DOMAIN audit
        /\ IsFile(audit.begun) /\ SoundFile(audit.begun)
        /\ Grown(audit.begun, file)
        /\ audit.size = Count(audit.begun)
        /\ IsSequence(audit.buffer)
        /\ Len(audit.buffer) <= Count(file)
        /\ \A i \in 1 .. Len(audit.buffer) : audit.buffer[i] = PieceAt(file, i)
        /\ audit.given = {} \/ \E c : audit.given = {c} /\ CheckpointOf(c, audit.begun.lines)

\* A store that is not open has nothing in memory.
NothingInMemory == session = "down" => records = <<>>

LEMMA GrownTransitive ==
    ASSUME NEW f, IsFile(f), NEW g, IsFile(g), NEW h, IsFile(h), Grown(f, g), Grown(g, h)
    PROVE  Grown(f, h)
<1>1. IsPrefix(f.lines, h.lines)
    BY PrefixTransitive DEF Grown, IsFile
<1>2. ASSUME f.lines = h.lines, f.terminated PROVE h.terminated
    <2>1. IsSequence(f.lines) /\ IsSequence(g.lines) /\ IsPrefix(f.lines, g.lines) /\ IsPrefix(g.lines, f.lines)
        BY <1>2 DEF Grown, IsFile
    <2>2. Len(f.lines) = Len(g.lines) /\ \A i \in 1 .. Len(f.lines) : f.lines[i] = g.lines[i]
        <3>1. Len(f.lines) \in Nat /\ Len(g.lines) \in Nat
            BY <2>1 DEF IsSequence
        <3>. QED
            BY <2>1, <3>1, PrefixElements
    <2>3. f.lines = g.lines
        BY <2>1, <2>2, SeqEqual DEF IsSequence
    <2>. QED
        BY <1>2, <2>3 DEF Grown
<1>. QED
    BY <1>1, <1>2 DEF Grown

LEMMA GrownItself ==
    ASSUME NEW f, IsFile(f)
    PROVE  Grown(f, f)
    BY AppendSequence DEF Grown, IsFile

\* While the file grows, what an audit knows stays true.
LEMMA ReadsWhileGrowing ==
    ASSUME Shapes, Shapes', AuditReads, Grown(file, file'), audit' = audit
    PROVE  AuditReads'
<1>. SUFFICES ASSUME audit # None PROVE AuditReads'
    BY DEF AuditReads
<1>1. IsFile(file) /\ IsFile(file') /\ IsFile(audit.begun) /\ IsSequence(audit.buffer) /\ Len(audit.buffer) \in Nat
    BY DEF Shapes, AuditReads, IsSequence
<1>2. Grown(audit.begun, file')
    BY <1>1, GrownTransitive DEF AuditReads
<1>3. /\ Count(file) \in Nat /\ Count(file') \in Nat /\ Count(file) <= Count(file')
      /\ \A i \in 1 .. Count(file) : PieceAt(file, i) = PieceAt(file', i)
    BY <1>1, PiecesGrow
<1>4. Len(audit.buffer) <= Count(file') /\ \A i \in 1 .. Len(audit.buffer) : audit.buffer[i] = PieceAt(file', i)
    BY <1>1, <1>3 DEF AuditReads
<1>. QED
    BY <1>2, <1>4 DEF AuditReads

LEMMA ReadsBegin ==
    ASSUME StoreInvariant, FileIsSound, NothingInMemory, NEW given \in Checkpoints, BeginAudit(given)
    PROVE  AuditReads'
<1>1. IsFile(file) /\ SoundFile(file) /\ Grown(file, file)
    BY GrownItself DEF StoreInvariant, Shapes, FileIsSound
<1>2. Len(Pieces(file)) = Count(file) /\ Count(file) \in Nat
    BY <1>1, PiecesOf, PiecesGrow
<1>3. given = {} \/ \E c : given = {c} /\ CheckpointOf(c, file.lines)
    <2>1. SUFFICES ASSUME given # {} PROVE \E c : given = {c} /\ CheckpointOf(c, file.lines)
        OBVIOUS
    <2>2. records # <<>> /\ given = {[sequence |-> Len(records), headHash |-> Last(records).recordHash]}
        BY <2>1 DEF Checkpoints
    <2>3. session # "down" /\ IsSequence(records) /\ IsSequence(file.lines)
        BY <2>2 DEF NothingInMemory, StoreInvariant, Shapes, IsFile
    <2>4. Len(records) \in Nat \ {0} /\ Len(file.lines) \in Nat
        BY <2>2, <2>3, EmptySeq DEF IsSequence
    <2>5. IsPrefix(records, file.lines)
        BY <2>3, AppendSequence DEF StoreInvariant, MemoryMatchesFile
    <2>6. Len(records) \in 1 .. Len(file.lines) /\ file.lines[Len(records)] = records[Len(records)]
        BY <2>3, <2>4, <2>5, PrefixElements
    <2>7. ASSUME NEW c, c = [sequence |-> Len(records), headHash |-> Last(records).recordHash]
          PROVE  CheckpointOf(c, file.lines)
        <3>1. c.sequence = Len(records) /\ c.headHash = records[Len(records)].recordHash
            BY <2>7 DEF Last
        <3>. QED
            BY <2>6, <3>1 DEF CheckpointOf
    <2>. QED
        BY <2>2, <2>7
<1>4. ASSUME NEW a, a = [begun |-> file, given |-> given, size |-> Len(Pieces(file)), buffer |-> <<>>, outcome |-> None]
      PROVE  /\ AuditFields \subseteq DOMAIN a
             /\ a.begun = file /\ a.given = given /\ a.size = Len(Pieces(file)) /\ a.buffer = <<>>
    BY ONLY <1>4 DEF AuditFields
<1>5. /\ file' = file
      /\ audit' = [begun |-> file, given |-> given, size |-> Len(Pieces(file)), buffer |-> <<>>, outcome |-> None]
    BY Zenon DEF BeginAudit, vars
<1>6. /\ AuditFields \subseteq DOMAIN audit'
      /\ audit'.begun = file /\ audit'.given = given /\ audit'.size = Len(Pieces(file)) /\ audit'.buffer = <<>>
    BY <1>4, <1>5
<1>7. IsSequence(audit'.buffer) /\ Len(audit'.buffer) = 0
    BY <1>6, EmptySequence
<1>. QED
    BY <1>1, <1>2, <1>3, <1>5, <1>6, <1>7 DEF AuditReads

\* Changing the buffer, or the buffer and the outcome, of an audit.
LEMMA BufferUpdated ==
    ASSUME NEW a, AuditFields \subseteq DOMAIN a, NEW buffer, NEW b, b = [a EXCEPT !.buffer = buffer]
    PROVE  /\ AuditFields \subseteq DOMAIN b
           /\ b.begun = a.begun /\ b.given = a.given /\ b.size = a.size /\ b.buffer = buffer
<1>1. "begun" \in DOMAIN a /\ "given" \in DOMAIN a /\ "size" \in DOMAIN a /\ "buffer" \in DOMAIN a
    BY DEF AuditFields
<1>. QED
    BY <1>1, Zenon

LEMMA ReadsChunk ==
    ASSUME Shapes, AuditReads, ReadChunk
    PROVE  AuditReads'
<1>. DEFINE there == Pieces(file)
<1>1. audit # None /\ file' = file
    BY DEF ReadChunk, AuditRuns, vars
<1>2. PICK n \in {1, Len(Unread)} \ {0} :
          n <= Len(Unread) /\ audit' = [audit EXCEPT !.buffer = audit.buffer \o SubSeq(Unread, 1, n)]
    BY DEF ReadChunk
<1>3. IsFile(file) /\ IsSequence(audit.buffer) /\ Len(audit.buffer) \in Nat /\ Count(file) \in Nat
    BY <1>1, PiecesGrow, GrownItself DEF Shapes, AuditReads, IsSequence
<1>4. IsSequence(there) /\ Len(there) = Count(file) /\ \A i \in 1 .. Len(there) : there[i] = PieceAt(file, i)
    BY <1>3, PiecesOf
<1>. HIDE DEF there
<1>5. audit.size \in Nat
    BY <1>1, <1>3, PiecesGrow DEF AuditReads
<1>6. PICK last \in Nat : last <= Len(there) /\ Unread = SubSeq(there, Len(audit.buffer) + 1, last)
    <2>1. Unread = SubSeq(there, Len(audit.buffer) + 1, IF Len(there) > audit.size THEN audit.size + 1 ELSE Len(there))
        BY DEF Unread, there
    <2>2. (IF Len(there) > audit.size THEN audit.size + 1 ELSE Len(there)) \in Nat
        BY <1>3, <1>4, <1>5
    <2>3. (IF Len(there) > audit.size THEN audit.size + 1 ELSE Len(there)) <= Len(there)
        BY <1>3, <1>4, <1>5
    <2>. QED
        BY ONLY <2>1, <2>2, <2>3
<1>7. \A i \in 1 .. Len(audit.buffer) : audit.buffer[i] = there[i]
    BY <1>1, <1>3, <1>4 DEF AuditReads
<1>8. n \in 1 .. Len(Unread)
    <2>1. Len(Unread) \in Nat
        BY <1>3, <1>4, <1>6, CutIsSequence
    <2>. QED
        BY ONLY <1>2, <2>1
<1>9. ASSUME NEW longer, longer = audit.buffer \o SubSeq(Unread, 1, n)
      PROVE  /\ IsSequence(longer) /\ Len(longer) <= Len(there)
             /\ \A i \in 1 .. Len(longer) : longer[i] = there[i]
    <2>1. Len(audit.buffer) <= Len(there)
        BY <1>1, <1>4 DEF AuditReads
    <2>. QED
        <3>1. ASSUME NEW buffer, buffer = audit.buffer, NEW unread, unread = Unread
              PROVE  /\ IsSequence(longer) /\ Len(longer) <= Len(there)
                     /\ \A i \in 1 .. Len(longer) : longer[i] = there[i]
            <4>1. IsSequence(buffer) /\ Len(buffer) <= Len(there) /\ \A i \in 1 .. Len(buffer) : buffer[i] = there[i]
                BY <1>3, <1>7, <2>1, <3>1
            <4>2. last \in Nat /\ last <= Len(there) /\ unread = Between(there, Len(buffer), last)
                BY <1>6, <3>1 DEF Between
            <4>3. n \in 1 .. Len(unread) /\ longer = ReadBy(buffer, unread, n)
                BY <1>8, <1>9, <3>1 DEF ReadBy
            <4>. QED
                BY ONLY <1>4, <4>1, <4>2, <4>3, ReadOn
        <3>. QED
            BY <3>1
<1>10. PICK longer : longer = audit.buffer \o SubSeq(Unread, 1, n)
    OBVIOUS
<1>11. IsSequence(longer) /\ Len(longer) <= Len(there) /\ \A i \in 1 .. Len(longer) : longer[i] = there[i]
    BY <1>9, <1>10
<1>12. Len(longer) <= Count(file) /\ \A i \in 1 .. Len(longer) : longer[i] = PieceAt(file, i)
    <2>1. Len(longer) \in Nat
        BY <1>11 DEF IsSequence
    <2>. QED
        BY <1>3, <1>4, <1>11, <2>1
<1>13. audit' = [audit EXCEPT !.buffer = longer]
    BY <1>2, <1>10
<1>14. AuditFields \subseteq DOMAIN audit
    BY <1>1 DEF AuditReads
<1>15. /\ AuditFields \subseteq DOMAIN audit' /\ audit'.begun = audit.begun /\ audit'.given = audit.given
       /\ audit'.size = audit.size /\ audit'.buffer = longer
    <2>1. ASSUME NEW b, b = [audit EXCEPT !.buffer = longer]
          PROVE  /\ AuditFields \subseteq DOMAIN b /\ b.begun = audit.begun /\ b.given = audit.given
                 /\ b.size = audit.size /\ b.buffer = longer
        <3>1. "begun" \in DOMAIN audit /\ "given" \in DOMAIN audit /\ "size" \in DOMAIN audit /\ "buffer" \in DOMAIN audit
            BY <1>14 DEF AuditFields
        <3>. QED
            BY ONLY <1>14, <2>1, <3>1, Zenon
    <2>. QED
        BY <1>13, <2>1, Zenon
<1>. QED
    BY <1>1, <1>11, <1>12, <1>15 DEF AuditReads

\* The report on a sound history accuses it of nothing but a checkpoint that is
\* not of its last record.
LEMMA ReportOnSound ==
    ASSUME NEW lines, Sound(lines), NEW given,
           given = {} \/ \E c : given = {c} /\ CheckpointOf(c, lines),
           NEW report, report = verifyStoreRecords(lines, given)
    PROVE  /\ report.issues \subseteq {"ALB_STORE_CHECKPOINT"}
           /\ \A c \in given : report.completeness = "verified" <=> c.sequence = Len(lines)
<1>. SUFFICES ASSUME NEW seen, seen = Scan(lines), report = Concluded(seen, given)
              PROVE  /\ report.issues \subseteq {"ALB_STORE_CHECKPOINT"}
                     /\ \A c \in given : report.completeness = "verified" <=> c.sequence = Len(lines)
    BY DEF verifyStoreRecords
<1>1. Agrees(lines) /\ Len(lines) \in Nat
    BY LawfulAgrees, SoundSequence DEF Sound
<1>2. seen.issues = {} /\ seen.length = Len(lines) /\ seen.previousHash = HeadHash(lines) /\ ParentsSeen(lines, seen.parents)
    BY <1>1 DEF Agrees, SeenAll
<1>3. IsInjective(seen.parents)
    <2>1. DOMAIN seen.parents = 1 .. Len(seen.parents)
        BY <1>2 DEF ParentsSeen, IsSequence
    <2>. QED
        BY <1>2, <2>1 DEF ParentsSeen, IsInjective
<1>. DEFINE complete == Completeness(seen.length, seen.previousHash, given)
<1>4. report.completeness = complete
    BY DEF Concluded, Verification
<1>5. report.issues = seen.issues \cup Issue("ALB_STORE_FORK", ~IsInjective(seen.parents))
                          \cup Issue("ALB_STORE_CHECKPOINT", complete = "mismatch")
    BY DEF Concluded, Verification
<1>6. report.issues \subseteq {"ALB_STORE_CHECKPOINT"}
    BY ONLY <1>2, <1>3, <1>5 DEF Issue
<1>7. ASSUME NEW c, given = {c}, CheckpointOf(c, lines)
      PROVE  report.completeness = "verified" <=> c.sequence = Len(lines)
    <2>1. complete = "verified" <=> c.sequence = Len(lines) /\ c.headHash = HeadHash(lines)
        BY ONLY <1>2, <1>7 DEF Completeness
    <2>2. lines # <<>>
        BY <1>1, <1>7 DEF CheckpointOf
    <2>3. c.sequence = Len(lines) => c.headHash = HeadHash(lines)
        BY ONLY <1>7, <2>2 DEF CheckpointOf, HeadHash
    <2>. QED
        BY <1>4, <2>1, <2>3
<1>. QED
    BY <1>6, <1>7

\* Only the branch that has found nothing wrong with the lines answers "ok".
LEMMA OutcomeOk ==
    ASSUME NEW lines, NEW given, NEW outcome, outcome = AuditOutcome(lines, given), outcome.code = "ok"
    PROVE  /\ \A i \in DOMAIN lines : isRecord(lines[i])
           /\ outcome.lines = lines
           /\ outcome.report = verifyStoreRecords(lines, given)
<1>. SUFFICES ASSUME NEW long, long = (Len(lines) > MaxRecords),
                     NEW torn, torn = (\E i \in DOMAIN lines : ~isRecord(lines[i])),
                     NEW report, report = verifyStoreRecords(lines, given)
              PROVE  ~torn /\ outcome.lines = lines /\ outcome.report = report
    OBVIOUS
<1>1. outcome = CASE long -> [code |-> "ALB_STORE_LIMIT"]
                  [] torn -> [code |-> "ALB_STORE_CORRUPT"]
                  [] OTHER -> [code |-> "ok", lines |-> lines, report |-> report]
    BY Zenon DEF AuditOutcome
<1>2. long \/ torn => outcome.code # "ok"
    BY ONLY <1>1
<1>3. ~long /\ ~torn => outcome = [code |-> "ok", lines |-> lines, report |-> report]
    BY ONLY <1>1
<1>. QED
    BY <1>2, <1>3

LEMMA EndTells ==
    ASSUME Shapes, FileIsSound, AuditReads, EndAudit
    PROVE  AuditReads' /\ AuditIsOfOneMoment'
<1>. DEFINE counts == Unchanged(audit.size, Len(audit.buffer), Len(Pieces(file)))
            told == IF counts THEN AuditOutcome(LinesOf(audit.buffer), audit.given) ELSE [code |-> "ALB_STORE_CHANGED"]
<1>1. audit # None /\ file' = file /\ audit' = [audit EXCEPT !.buffer = <<>>, !.outcome = told]
    BY Zenon DEF EndAudit, AuditRuns, vars
<1>. HIDE DEF counts, told
<1>2. AuditFields \subseteq DOMAIN audit
    BY <1>1 DEF AuditReads
<1>3. /\ AuditFields \subseteq DOMAIN audit' /\ audit'.begun = audit.begun /\ audit'.given = audit.given
      /\ audit'.size = audit.size /\ audit'.buffer = <<>> /\ audit'.outcome = told
    <2>1. ASSUME NEW b, b = [audit EXCEPT !.buffer = <<>>, !.outcome = told]
          PROVE  /\ AuditFields \subseteq DOMAIN b /\ b.begun = audit.begun /\ b.given = audit.given
                 /\ b.size = audit.size /\ b.buffer = <<>> /\ b.outcome = told
        <3>1. /\ "begun" \in DOMAIN audit /\ "given" \in DOMAIN audit /\ "size" \in DOMAIN audit
              /\ "buffer" \in DOMAIN audit /\ "outcome" \in DOMAIN audit
            BY ONLY <1>2 DEF AuditFields
        <3>. QED
            BY ONLY <1>2, <2>1, <3>1, Zenon
    <2>. QED
        BY ONLY <1>1, <2>1, Zenon
<1>4. IsFile(file) /\ IsFile(audit.begun) /\ Count(file) \in Nat /\ IsSequence(<<>>) /\ Len(<<>>) = 0
    BY <1>1, PiecesGrow, GrownItself, EmptySequence DEF Shapes, AuditReads
<1>5. AuditReads'
    BY <1>1, <1>3, <1>4 DEF AuditReads
<1>6. ASSUME told.code = "ok"
      PROVE  /\ told.lines = audit.begun.lines
             /\ told.report.issues \subseteq {"ALB_STORE_CHECKPOINT"}
             /\ \A c \in audit.given : told.report.completeness = "verified" <=> c.sequence = Len(audit.begun.lines)
    <2>1. counts /\ told = AuditOutcome(LinesOf(audit.buffer), audit.given)
        BY <1>6 DEF told
    <2>2. audit.buffer = Pieces(audit.begun)
        <3>1. /\ IsSequence(Pieces(audit.begun)) /\ Len(Pieces(audit.begun)) = Count(audit.begun)
              /\ \A i \in 1 .. Len(Pieces(audit.begun)) : Pieces(audit.begun)[i] = PieceAt(audit.begun, i)
            BY <1>4, PiecesOf
        <3>2. Len(audit.buffer) = Count(audit.begun) /\ IsSequence(audit.buffer)
            BY <1>1, <2>1 DEF counts, Unchanged, AuditReads
        <3>3. \A i \in 1 .. Count(audit.begun) : audit.buffer[i] = PieceAt(audit.begun, i)
            <4>1. \A i \in 1 .. Count(audit.begun) : PieceAt(audit.begun, i) = PieceAt(file, i)
                BY <1>1, <1>4, PiecesGrow DEF AuditReads
            <4>. QED
                BY <1>1, <3>2, <4>1 DEF AuditReads
        <3>. DEFINE there == Pieces(audit.begun)
        <3>. HIDE DEF there
        <3>4. IsSequence(there) /\ Len(there) = Len(audit.buffer) /\ \A i \in 1 .. Len(there) : there[i] = audit.buffer[i]
            BY <3>1, <3>2, <3>3 DEF there
        <3>5. there = audit.buffer
            BY ONLY <3>2, <3>4, SeqEqual DEF IsSequence
        <3>. QED
            BY <3>5 DEF there
    <2>3. LinesOf(audit.buffer) = audit.begun.lines
        BY <1>4, <2>2, PiecesMakeLines
    <2>4. told = AuditOutcome(audit.begun.lines, audit.given)
        BY <2>1, <2>3
    <2>5. /\ \A i \in DOMAIN audit.begun.lines : isRecord(audit.begun.lines[i])
          /\ told.lines = audit.begun.lines
          /\ told.report = verifyStoreRecords(audit.begun.lines, audit.given)
        BY <1>6, <2>4, OutcomeOk
    <2>6. Sound(audit.begun.lines)
        <3>1. SoundFile(audit.begun) /\ IsSequence(audit.begun.lines)
            BY <1>1, <1>4 DEF AuditReads, IsFile
        <3>2. ASSUME NEW whole, Sound(whole), audit.begun.lines = Append(whole, Garbage)
              PROVE  FALSE
            <4>1. /\ Len(whole) \in Nat /\ Len(audit.begun.lines) = Len(whole) + 1
                  /\ audit.begun.lines[Len(whole) + 1] = Garbage
                BY <3>2, SoundSequence, LongerByOne
            <4>2. Len(whole) + 1 \in DOMAIN audit.begun.lines
                BY <3>1, <4>1 DEF IsSequence
            <4>. QED
                BY <2>5, <4>1, <4>2 DEF isRecord
        <3>. QED
            BY <3>1, <3>2 DEF SoundFile
    <2>7. audit.given = {} \/ \E c : audit.given = {c} /\ CheckpointOf(c, audit.begun.lines)
        BY <1>1 DEF AuditReads
    <2>. QED
        BY <2>5, <2>6, <2>7, ReportOnSound
<1>7. AuditIsOfOneMoment'
    BY <1>3, <1>6 DEF AuditIsOfOneMoment
<1>. QED
    BY <1>5, <1>7

----------------------------------------------------------------------------
AuditInvariant ==
    StoreInvariant /\ FileIsSound /\ NothingInMemory /\ AuditReads /\ AuditIsOfOneMoment

LEMMA NothingStep ==
    ASSUME NothingInMemory, PersistWhenSure, [Next]_vars
    PROVE  NothingInMemory'
<1>. USE DEF NothingInMemory
<1>1. CASE Open
    BY <1>1 DEF Open
<1>2. CASE Refuse \/ Replay \/ Begin \/ StatWithinLimits \/ StatOverLimits \/ StatFails \/ AppendFile \/ AppendFails
           \/ Sync \/ SyncFails
    BY <1>2 DEF Refuse, Replay, Begin, StatWithinLimits, StatOverLimits, StatFails, AppendFile, AppendFails, Sync,
                SyncFails, memory
<1>3. CASE indexRecord
    BY <1>3 DEF indexRecord, OperationAt, PersistWhenSure
<1>4. CASE Release \/ Kill \/ PowerLoss
    BY <1>4 DEF Release, Kill, PowerLoss, Discard
<1>5. CASE RemoveStaleLock \/ close \/ Drained \/ UNCHANGED vars
    BY <1>5 DEF RemoveStaleLock, close, Drained, memory, vars
<1>6. ASSUME NEW c \in Clients, NEW operation \in Payloads, enqueue(c, operation) PROVE NothingInMemory'
    BY <1>6 DEF enqueue, memory
<1>. QED
    BY <1>1, <1>2, <1>3, <1>4, <1>5, <1>6 DEF Next, RunOperation, Decide, Persist

LEMMA AuditStep ==
    ASSUME AuditInvariant, [AuditNext]_auditVars, StoreInvariant', FileIsSound', NothingInMemory'
    PROVE  AuditReads' /\ AuditIsOfOneMoment'
<1>. USE DEF AuditInvariant
<1>1. Shapes /\ Shapes'
    BY DEF StoreInvariant
<1>2. ASSUME audit' = None PROVE AuditReads' /\ AuditIsOfOneMoment'
    BY <1>2 DEF AuditReads, AuditIsOfOneMoment
<1>3. ASSUME audit' = audit PROVE AuditIsOfOneMoment'
    BY <1>3 DEF AuditIsOfOneMoment
<1>4. CASE Next /\ audit' = IF PowerLoss THEN None ELSE audit
    <2>1. CASE PowerLoss
        BY <1>2, <1>4, <2>1
    <2>2. CASE ~PowerLoss
        <3>1. Grown(file, file') /\ audit' = audit
            BY <1>4, <2>2, FileGrows DEF StoreInvariant
        <3>. QED
            BY <1>1, <1>3, <3>1, ReadsWhileGrowing
    <2>. QED
        BY <2>1, <2>2
<1>5. ASSUME NEW given \in Checkpoints, BeginAudit(given) PROVE AuditReads' /\ AuditIsOfOneMoment'
    <2>1. AuditReads'
        BY <1>5, ReadsBegin
    <2>2. audit' = [begun |-> file, given |-> given, size |-> Len(Pieces(file)), buffer |-> <<>>, outcome |-> None]
        BY <1>5, Zenon DEF BeginAudit
    <2>3. audit'.outcome = None
        BY ONLY <2>2
    <2>. QED
        BY <2>1, <2>3 DEF AuditIsOfOneMoment
<1>6. CASE ReadChunk
    <2>1. AuditReads'
        BY <1>1, <1>6, ReadsChunk
    <2>2. audit'.outcome = None
        <3>1. "outcome" \in DOMAIN audit /\ audit.outcome = None /\ audit # None
            BY <1>6 DEF ReadChunk, AuditRuns, AuditReads, AuditFields
        <3>2. \E n : audit' = [audit EXCEPT !.buffer = audit.buffer \o SubSeq(Unread, 1, n)]
            BY <1>6, Zenon DEF ReadChunk
        <3>. QED
            BY ONLY <3>1, <3>2, Zenon
    <2>. QED
        BY <2>1, <2>2 DEF AuditIsOfOneMoment
<1>7. CASE EndAudit
    BY <1>1, <1>7, EndTells
<1>8. CASE UNCHANGED auditVars
    <2>1. file' = file /\ audit' = audit
        BY <1>8 DEF auditVars, vars
    <2>2. Grown(file, file')
        BY <1>1, <2>1, GrownItself DEF Shapes
    <2>. QED
        BY <1>1, <1>3, <2>1, <2>2, ReadsWhileGrowing
<1>. QED
    BY <1>4, <1>5, <1>6, <1>7, <1>8 DEF AuditNext

\* Whatever the store and the machine do while an audit runs, a report that
\* counts describes the file as it was when the audit began, accuses an honest
\* store of nothing, and calls a checkpoint that the store's memory gave
\* verified exactly when it was of the last record there.
THEOREM AuditTellsOneMoment == AuditSpec => []AuditIsOfOneMoment
<1>1. AuditInit => AuditInvariant
    <2>1. AuditInit => AuditReads /\ AuditIsOfOneMoment /\ NothingInMemory
        BY DEF AuditInit, Init, AuditReads, AuditIsOfOneMoment, NothingInMemory
    <2>2. AuditInit => StoreInvariant /\ FileIsSound
        BY StoreInvariantInit, FileSoundInit DEF AuditInit
    <2>. QED
        BY <2>1, <2>2 DEF AuditInvariant
<1>2. AuditInvariant /\ [AuditNext]_auditVars => AuditInvariant'
    <2>. SUFFICES ASSUME AuditInvariant, [AuditNext]_auditVars PROVE AuditInvariant'
        OBVIOUS
    <2>1. [Next]_vars
        BY DEF AuditNext, BeginAudit, ReadChunk, EndAudit, auditVars
    <2>2. StoreInvariant' /\ FileIsSound' /\ NothingInMemory'
        BY <2>1, StoreInvariantStep, FileSoundStep, NothingStep DEF AuditInvariant, StoreInvariant
    <2>. QED
        BY <2>2, AuditStep DEF AuditInvariant
<1>. QED
    BY <1>1, <1>2, PTL DEF AuditSpec, AuditInvariant
=============================================================================
