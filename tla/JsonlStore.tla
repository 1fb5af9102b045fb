----------------------------- MODULE JsonlStore -----------------------------
(***************************************************************************)
(* The persistent store of src/store.ts: MemoryStore, whose writer promise   *)
(* runs the operations of concurrent callers one after the other, and         *)
(* JsonlStore, whose persist writes each record to a line of a file between   *)
(* the guards of an operation and the update of the indexes.  The process     *)
(* may be killed between any two steps, an append may stop half way, a flush   *)
(* may fail, the machine may lose what was not flushed, and the store is       *)
(* opened again on what is left.                                               *)
(*                                                                          *)
(* One process at a time holds the store: that the lock file ensures this is   *)
(* the subject of StoreLock.  Reads (getDecision, getAppeal, verifyChain) do    *)
(* not queue; each answers from `records' at one instant and changes nothing.   *)
(***************************************************************************)
EXTENDS StoreRecords

CONSTANTS Clients,      \* concurrent callers, one outstanding call each
          Decisions,    \* payloads of putDecision
          Events,       \* payloads of appendAppeal
          Oversize,     \* payloads whose line exceeds maxRecordBytes
          MaxRecords,   \* the store's own record limit
          Closer,       \* the queue entry of close()
          MaxKills,       \* bound on process deaths
          MaxPowerLosses, \* bound on losses of unflushed data
          MaxIoErrors     \* bound on failing stat, append and sync calls

Payloads == ({"decision"} \X Decisions) \cup ({"appeal_event"} \X Events)

\* (The schema of a decision makes its cap a natural number.)
ASSUME JsonlStoreAssumption ==
    /\ MaxRecords \in Nat
    /\ Closer \notin Clients
    /\ None \notin Payloads
    /\ \A decision \in Decisions : decision.maxAppealEvents \in Nat

VARIABLES file,      \* the data file: its lines, and whether it ends with a newline
          durable,   \* the file as it was when last flushed
          lock,      \* the lock file exists
          session,   \* "down", "open", or "closing" once close() drained the writer
          records,   \* the records indexed in memory
          needsSeparator,        \* the file was opened without a final newline
          appendStateUncertain,  \* an append or a flush failed in this session
          queue,     \* the writer chain: callers (and Closer), the head in progress
          call,      \* the operation each caller waits for, or None
          step,      \* where the operation at the head is
          pending,   \* the record it persists
          acked,     \* history: payloads some caller was told are stored
          flushed,   \* history: those of them answered after their own flush
          budget     \* faults left

vars == <<file, durable, lock, session, records, needsSeparator, appendStateUncertain,
          queue, call, step, pending, acked, flushed, budget>>

disk   == <<file, durable, lock>>
memory == <<session, records, needsSeparator, appendStateUncertain>>
ghosts == <<acked, flushed>>

----------------------------------------------------------------------------
(* The file.  Its text is split at newlines; a line that no longer parses is *)
(* Garbage.                                                                   *)
EmptyFile == [lines |-> <<>>, terminated |-> TRUE]

Newline(f) ==
    [lines |-> IF f.terminated THEN Append(f.lines, Garbage) ELSE f.lines, terminated |-> TRUE]

\* Characters written at the end of the file start a line or run into the last one.
Text(f, line) ==
    [lines |-> IF f.terminated THEN Append(f.lines, line)
               ELSE Append(Front(f.lines), Garbage),
     terminated |-> FALSE]

\* Mutant: the separator is forgotten.
SeparatedNever(f, separator) == f

Separated(f, separator) == IF separator THEN Newline(f) ELSE f

Appended(f, separator, record) == Newline(Text(Separated(f, separator), record))

\* What is in the file when writing the text stops before its last character.
CutShort(f, separator, record) ==
    {f, Separated(f, separator), Text(Separated(f, separator), Garbage), Text(Separated(f, separator), record)}

\* What is left when the machine stops: everything flushed, and of the lines
\* after that any number, the last of them cut short or without its newline.
Survivors ==
    LET kept == Len(durable.lines)
        all  == Len(file.lines)
    IN  {file, durable}
        \cup {[lines |-> SubSeq(file.lines, 1, n), terminated |-> TRUE] :
                  n \in {m \in kept .. all : m < all \/ file.terminated}}
        \cup {[lines |-> SubSeq(file.lines, 1, n), terminated |-> FALSE] : n \in (kept + 1) .. all}
        \cup {[lines |-> Append(SubSeq(file.lines, 1, n), Garbage), terminated |-> FALSE] : n \in kept .. (all - 1)}

\* JsonlStore.open: "ok", or the code it throws.
OpenVerdict(f) ==
    Verdict(<<
        <<"ALB_STORE_LIMIT",   Len(f.lines) > MaxRecords>>,
        <<"ALB_STORE_CORRUPT", \E i \in 1 .. Len(f.lines) : ~isRecord(f.lines[i])>>,
        <<"ALB_STORE_CORRUPT", ~verifyStoreRecords(f.lines, {}).valid>> >>)

----------------------------------------------------------------------------
Init ==
    /\ file = EmptyFile /\ durable = EmptyFile /\ lock = FALSE
    /\ session = "down" /\ records = <<>>
    /\ needsSeparator = FALSE /\ appendStateUncertain = FALSE
    /\ queue = <<>> /\ call = [c \in Clients |-> None]
    /\ step = "idle" /\ pending = None
    /\ acked = {} /\ flushed = {}
    /\ budget = [kills |-> MaxKills, powerLosses |-> MaxPowerLosses, ioErrors |-> MaxIoErrors]

\* Mutant: the file is opened for writing, not for appending.
OpenTruncating ==
    /\ session = "down" /\ ~lock /\ OpenVerdict(file) = "ok"
    /\ lock' = TRUE /\ session' = "open"
    /\ file' = EmptyFile
    /\ records' = file.lines
    /\ needsSeparator' = FALSE /\ appendStateUncertain' = FALSE
    /\ UNCHANGED <<durable, queue, call, step, pending, ghosts, budget>>

(* open() succeeds.  A refused open (the lock exists, or OpenVerdict is an   *)
(* error) releases what it took and leaves everything as it was.             *)
Open ==
    /\ session = "down"
    /\ ~lock
    /\ OpenVerdict(file) = "ok"
    /\ lock' = TRUE
    /\ session' = "open"
    /\ records' = file.lines
    /\ needsSeparator' = ~file.terminated
    /\ appendStateUncertain' = FALSE
    /\ UNCHANGED <<file, durable, queue, call, step, pending, ghosts, budget>>

(* putDecision or appendAppeal is called: the operation joins the writer chain. *)
enqueue(c, operation) ==
    /\ session # "down"
    /\ call[c] = None
    /\ call' = [call EXCEPT ![c] = operation]
    /\ queue' = Append(queue, c)
    /\ UNCHANGED <<disk, memory, step, pending, ghosts, budget>>

(* The promise of the caller at the head settles and the next operation runs. *)
Settle(told) ==
    /\ acked' = IF told THEN acked \cup {call[Head(queue)]} ELSE acked
    /\ call' = [call EXCEPT ![Head(queue)] = None]
    /\ queue' = Tail(queue)
    /\ step' = "idle"
    /\ pending' = None

OperationRuns == queue # <<>> /\ Head(queue) # Closer

OperationAt(s) == OperationRuns /\ step = s

\* Mutant: an append in doubt does not stop the store.
EnsureOpenOnly == session = "open"

ensureOpen == session = "open" /\ ~appendStateUncertain

(* From the start of the queued operation to its first await: ensureOpen and *)
(* the guards; on the way to persist, the record is built and its size       *)
(* checked.                                                                  *)
Answer(operation, verdict) ==
    IF ~ensureOpen \/ verdict \notin {"ok", "replay"} THEN "refuse"
    ELSE IF verdict = "ok" /\ operation[2] \in Oversize THEN "refuse"
    ELSE verdict

Guards(operation) == Answer(operation, StoreVerdict(records, operation[1], operation[2]))

Refuse ==
    /\ OperationAt("idle")
    /\ Guards(call[Head(queue)]) = "refuse"
    /\ Settle(FALSE)
    /\ UNCHANGED <<disk, memory, flushed, budget>>

Replay ==
    /\ OperationAt("idle")
    /\ Guards(call[Head(queue)]) = "replay"
    /\ Settle(TRUE)
    /\ UNCHANGED <<disk, memory, flushed, budget>>

Begin ==
    /\ OperationAt("idle")
    /\ Guards(call[Head(queue)]) = "ok"
    /\ pending' = nextRecord(records, call[Head(queue)][1], call[Head(queue)][2])
    /\ step' = "stat"
    /\ UNCHANGED <<disk, memory, queue, call, ghosts, budget>>

(* persist: dataHandle.stat, then the limits.                                *)
StatWithinLimits ==
    /\ OperationAt("stat")
    /\ Len(records) + 1 <= MaxRecords
    /\ step' = "append"
    /\ UNCHANGED <<disk, memory, queue, call, pending, ghosts, budget>>

\* Mutant: an append over the limits is tried again.
StatOverLimitsRetries ==
    /\ OperationAt("stat")
    /\ Len(records) + 1 > MaxRecords
    /\ step' = "idle" /\ pending' = None
    /\ UNCHANGED <<disk, memory, queue, call, ghosts, budget>>

StatOverLimits ==
    /\ OperationAt("stat")
    /\ Len(records) + 1 > MaxRecords
    /\ Settle(FALSE)
    /\ UNCHANGED <<disk, memory, flushed, budget>>

SpendIoError == budget.ioErrors > 0 /\ budget' = [budget EXCEPT !.ioErrors = @ - 1]

StatFails ==
    /\ OperationAt("stat")
    /\ SpendIoError
    /\ Settle(FALSE)
    /\ UNCHANGED <<disk, memory, flushed>>

\* Mutant: the separator is written before every later record too.
AppendFileSeparating ==
    /\ OperationAt("append")
    /\ file' = Appended(file, needsSeparator, pending)
    /\ step' = "sync"
    /\ UNCHANGED <<durable, lock, memory, queue, call, pending, ghosts, budget>>

(* persist: appendFile.                                                      *)
AppendFile ==
    /\ OperationAt("append")
    /\ file' = Appended(file, needsSeparator, pending)
    /\ needsSeparator' = FALSE
    /\ step' = "sync"
    /\ UNCHANGED <<durable, lock, session, records, appendStateUncertain, queue, call, pending, ghosts, budget>>

\* Mutant: the error of the append is swallowed.
AppendFailsSwallowed ==
    /\ OperationAt("append")
    /\ SpendIoError
    /\ file' \in CutShort(file, needsSeparator, pending)
    /\ appendStateUncertain' = TRUE
    /\ Settle(TRUE)
    /\ UNCHANGED <<durable, lock, session, records, needsSeparator, flushed>>

AppendFails ==
    /\ OperationAt("append")
    /\ SpendIoError
    /\ file' \in CutShort(file, needsSeparator, pending)
    /\ appendStateUncertain' = TRUE
    /\ Settle(FALSE)
    /\ UNCHANGED <<durable, lock, session, records, needsSeparator, flushed>>

\* Mutant: the flush is left out.
SyncSkipped ==
    /\ OperationAt("sync")
    /\ step' = "index"
    /\ UNCHANGED <<disk, memory, queue, call, pending, ghosts, budget>>

(* persist: sync.                                                            *)
Sync ==
    /\ OperationAt("sync")
    /\ durable' = file
    /\ step' = "index"
    /\ UNCHANGED <<file, lock, memory, queue, call, pending, ghosts, budget>>

SyncFails ==
    /\ OperationAt("sync")
    /\ SpendIoError
    /\ appendStateUncertain' = TRUE
    /\ Settle(FALSE)
    /\ UNCHANGED <<disk, session, records, needsSeparator, flushed>>

(* persist has resolved: indexRecord, and the caller is told.                *)
indexRecord ==
    /\ OperationAt("index")
    /\ records' = Append(records, pending)
    /\ flushed' = flushed \cup {call[Head(queue)]}
    /\ Settle(TRUE)
    /\ UNCHANGED <<disk, session, needsSeparator, appendStateUncertain, budget>>

----------------------------------------------------------------------------
(* close() waits for the operations queued before it: it takes a place in    *)
(* the writer chain.  Calls that join behind it find the store closed.        *)
close ==
    /\ session = "open"
    /\ \A i \in 1 .. Len(queue) : queue[i] # Closer
    /\ queue' = Append(queue, Closer)
    /\ UNCHANGED <<disk, memory, call, step, pending, ghosts, budget>>

\* Mutant: close() waits for calls that joined the chain behind it.
DrainedWhenQuiet ==
    /\ queue = <<Closer>>
    /\ session' = "closing"
    /\ queue' = Tail(queue)
    /\ UNCHANGED <<disk, records, needsSeparator, appendStateUncertain, call, step, pending, ghosts, budget>>

Drained ==
    /\ queue # <<>> /\ Head(queue) = Closer
    /\ session' = "closing"
    /\ queue' = Tail(queue)
    /\ UNCHANGED <<disk, records, needsSeparator, appendStateUncertain, call, step, pending, ghosts, budget>>

\* The object and everything queued on it are gone.
Discard ==
    /\ session' = "down"
    /\ records' = <<>>
    /\ needsSeparator' = FALSE
    /\ appendStateUncertain' = FALSE
    /\ queue' = <<>>
    /\ call' = [c \in Clients |-> None]
    /\ step' = "idle"
    /\ pending' = None

(* The handles are closed and the lock removed; a call still behind close()   *)
(* can only be answered ALB_STORE_CLOSED.                                     *)
Release ==
    /\ session = "closing"
    /\ lock' = FALSE
    /\ Discard
    /\ UNCHANGED <<file, durable, ghosts, budget>>

----------------------------------------------------------------------------
(* The process dies; the lock file stays, and so does what reached the       *)
(* operating system, if only a part of the text being appended.              *)
Kill ==
    /\ session # "down"
    /\ budget.kills > 0
    /\ budget' = [budget EXCEPT !.kills = @ - 1]
    /\ file' \in IF OperationAt("append") THEN CutShort(file, needsSeparator, pending) ELSE {file}
    /\ Discard
    /\ UNCHANGED <<durable, lock, ghosts>>

(* The machine stops: the process dies and unflushed data may be lost.        *)
PowerLoss ==
    /\ budget.powerLosses > 0
    /\ budget' = [budget EXCEPT !.powerLosses = @ - 1]
    /\ file' \in Survivors
    /\ durable' = file'
    /\ lock' \in {lock, FALSE}
    /\ Discard
    /\ UNCHANGED ghosts

(* An operator confirms that no process uses the store and deletes the lock. *)
RemoveStaleLock ==
    /\ session = "down"
    /\ lock
    /\ lock' = FALSE
    /\ UNCHANGED <<file, durable, memory, queue, call, step, pending, ghosts, budget>>

----------------------------------------------------------------------------
\* The guards of an operation, and what follows once it is inside persist.
Decide == Refuse \/ Replay \/ Begin

Persist ==
    \/ StatWithinLimits \/ StatOverLimits \/ StatFails
    \/ AppendFile \/ AppendFails
    \/ Sync \/ SyncFails
    \/ indexRecord

RunOperation == Decide \/ Persist

Next ==
    \/ Open
    \/ \E c \in Clients, operation \in Payloads : enqueue(c, operation)
    \/ RunOperation
    \/ close \/ Drained \/ Release
    \/ Kill \/ PowerLoss \/ RemoveStaleLock

(* The event loop runs what is ready and every system call returns, so the    *)
(* operation at the head of the chain and a started close keep moving.  No     *)
(* caller has to call, and nobody has to open the store again.  The first      *)
(* conjunct is WF_vars(Decide) written out: the guards give every operation at *)
(* the head one of three answers, so Decide is enabled whenever one is there.   *)
Fairness ==
    /\ []<>(~OperationAt("idle")) \/ []<><<Decide>>_vars
    /\ WF_vars(Persist)
    /\ WF_vars(Drained)
    /\ WF_vars(Release)

Spec == Init /\ [][Next]_vars

FairSpec == Spec /\ Fairness
----------------------------------------------------------------------------
IsStoreRecord(r) ==
    /\ DOMAIN r = {"sequence", "previousHash", "recordType", "recordId", "entityId", "payload", "recordHash"}
    /\ <<r.recordType, r.payload>> \in Payloads

\* The variables hold what their comments say; a record is pending exactly
\* while an operation is inside persist.
TypeOK ==
    /\ \A f \in {file, durable} :
          /\ f.terminated \in BOOLEAN
          /\ \A i \in 1 .. Len(f.lines) : f.lines[i] # Garbage => IsStoreRecord(f.lines[i])
    /\ lock \in BOOLEAN
    /\ session \in {"down", "open", "closing"}
    /\ \A i \in 1 .. Len(records) : IsStoreRecord(records[i])
    /\ needsSeparator \in BOOLEAN /\ appendStateUncertain \in BOOLEAN
    /\ \A i \in 1 .. Len(queue) : queue[i] \in Clients \cup {Closer}
    /\ call \in [Clients -> Payloads \cup {None}]
    /\ step \in {"idle", "stat", "append", "sync", "index"}
    /\ step = "idle" <=> pending = None
    /\ pending # None => IsStoreRecord(pending)
    /\ flushed \subseteq acked /\ acked \subseteq Payloads

\* Memory and disk agree: while no append is in doubt, the file holds exactly
\* the records readers are answered from, and the one being persisted once it
\* is written; when an append is in doubt, memory is a prefix of the file.
MemoryMatchesFile ==
    session # "down" =>
        IF appendStateUncertain THEN IsPrefix(records, file.lines)
        ELSE /\ file.lines = IF step \in {"sync", "index"} THEN Append(records, pending) ELSE records
             /\ needsSeparator = ~file.terminated

WholeLines(f) ==
    IF f.lines # <<>> /\ Last(f.lines) = Garbage /\ ~f.terminated THEN Front(f.lines) ELSE f.lines

\* Whatever was interrupted, damage is confined to one unfinished last line,
\* and the lines before it open: numbered, chained, without duplicate or
\* unlawful entry, within the record limit.
DamageIsLastLine == OpenVerdict([lines |-> WholeLines(file), terminated |-> TRUE]) = "ok"

Stored(operation, lines) ==
    \E i \in 1 .. Len(lines) : /\ lines[i] # Garbage
                               /\ <<lines[i].recordType, lines[i].payload>> = operation

\* As long as the machine does not lose power, whatever a caller was told is
\* stored is in the file: across kills, failed appends and flushes, replays.
AckedStored == \A operation \in acked : Stored(operation, file.lines)

\* An answer given after the operation's own flush survives a power loss.
FlushedSurvives == \A operation \in flushed : Stored(operation, file.lines)

\* No step but a power loss takes a line away, changes one or runs into one.
AppendOnly == [][PowerLoss \/ IsPrefix(file.lines, file'.lines)]_vars

\* After an append or flush failed, nobody is told of success until the store
\* has been opened again.
NoAckInDoubt == [][appendStateUncertain => acked' = acked]_vars

\* "The store file itself needs no repair" after a killed process and the
\* removal of its lock: the next open finds no corruption.
NeedsNoRepair == session = "down" => OpenVerdict(file) # "ALB_STORE_CORRUPT"

\* Every caller gets an answer, or its process dies or discards the store.
CallsAnswered == \A c \in Clients : call[c] # None ~> call[c] = None

\* A close that was asked for comes to its end.
CloseCompletes == (session = "closing" \/ \E i \in 1 .. Len(queue) : queue[i] = Closer) ~> session = "down"

----------------------------------------------------------------------------
(* The file as the abstract store of AppealLifecycle.                        *)
Whole == WholeLines(file)

AppealShown(events) ==
    [decisionId |-> events[1].decisionId, status |-> replayStatus(events), length |-> Len(events)]

\* (The events are the only element of a set, so that TLC computes them once.)
AppealsShown(lines) ==
    [a \in AppealIdsOf(lines) |-> The({AppealShown(events) : events \in {AppealOf(lines, a)}})]

Lifecycle == INSTANCE AppealLifecycle WITH
    AppealIds <- {event.appealId : event \in Events},
    decisions <- DecisionsOf(Whole),
    appeals   <- AppealsShown(Whole)

\* Killed, interrupted and reopened as it may be, the store takes only the
\* steps of the lifecycle it promises.
ImplementsLifecycle == Lifecycle!Spec
=============================================================================
