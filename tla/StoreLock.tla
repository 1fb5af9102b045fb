----------------------------- MODULE StoreLock -----------------------------
(***************************************************************************)
(* Who may write a store file: the lock-file protocol of JsonlStore.open and *)
(* JsonlStore.close (src/store.ts), run by several store objects, each in a   *)
(* process of its own, on one path.  The lock is a file created exclusively   *)
(* and removed by path: nothing in it says whose it is.  A killed process      *)
(* leaves it behind, and an operator who has made sure that no process uses    *)
(* the store deletes it.                                                       *)
(*                                                                          *)
(* The data file is counted, not spelled out: `version' is the number of       *)
(* records in it and loaded[s] the number a store believes in.  What a record  *)
(* is and how an append fails are the subject of JsonlStore.                   *)
(***************************************************************************)
EXTENDS Naturals

CONSTANTS Stores,       \* store objects, each in its own process
          CloseCalls,   \* calls of close() on one object
          Overlap,      \* whether close() may be called while an earlier call drains the writer
          None,         \* no lock file
          MaxVersion,   \* bound on the records in the file
          MaxFaults     \* bound on kills and failing system calls

ASSUME StoreLockAssumption ==
    /\ None \notin Stores
    /\ Overlap \in BOOLEAN
    /\ MaxVersion \in Nat
    /\ MaxFaults \in Nat

VARIABLES lockFile,   \* the store whose open() created the lock file, or None
          version,    \* records in the data file
          phase,      \* where a store is in open(), "open", or why there is no object
          loaded,     \* the records a store has in memory
          writing,    \* the step of the operation its writer runs
          uncertain,  \* appendStateUncertain
          closed,     \* closed and jsonlClosed
          closing,    \* where each call of close() is
          faults      \* faults left

vars == <<lockFile, version, phase, loaded, writing, uncertain, closed, closing, faults>>

Absent  == {"down", "killed", "broken"}      \* no object, or one that cannot be used
Phases  == Absent \cup {"locking", "loading", "failing", "open"}

NoCalls == [k \in CloseCalls |-> "none"]

Init ==
    /\ lockFile = None
    /\ version = 0
    /\ phase = [s \in Stores |-> "down"]
    /\ loaded = [s \in Stores |-> 0]
    /\ writing = [s \in Stores |-> "idle"]
    /\ uncertain = [s \in Stores |-> FALSE]
    /\ closed = [s \in Stores |-> FALSE]
    /\ closing = [s \in Stores |-> NoCalls]
    /\ faults = MaxFaults

object == <<loaded, writing, uncertain, closed, closing>>

\* A fresh object over `count' records, and what remains of one that is gone.
Object(s, count) ==
    /\ loaded' = [loaded EXCEPT ![s] = count]
    /\ writing' = [writing EXCEPT ![s] = "idle"]
    /\ uncertain' = [uncertain EXCEPT ![s] = FALSE]
    /\ closed' = [closed EXCEPT ![s] = FALSE]
    /\ closing' = [closing EXCEPT ![s] = NoCalls]

SpendFault == faults > 0 /\ faults' = faults - 1

----------------------------------------------------------------------------
(* JsonlStore.open.                                                          *)
Open(s) ==
    /\ phase[s] \in Absent
    /\ phase' = [phase EXCEPT ![s] = "locking"]
    /\ UNCHANGED <<lockFile, version, object, faults>>

\* Mutant: the lock file is opened without O_EXCL.
TakeLockShared(s) ==
    /\ phase[s] = "locking"
    /\ lockFile' = s
    /\ phase' = [phase EXCEPT ![s] = "loading"]
    /\ UNCHANGED <<version, object, faults>>

\* open(lockPath, "wx") creates the lock file.
TakeLock(s) ==
    /\ phase[s] = "locking"
    /\ lockFile = None
    /\ lockFile' = s
    /\ phase' = [phase EXCEPT ![s] = "loading"]
    /\ UNCHANGED <<version, object, faults>>

\* Mutant: the catch block removes a lock it did not take.
LockedUnlinks(s) ==
    /\ phase[s] = "locking"
    /\ lockFile # None
    /\ lockFile' = None
    /\ phase' = [phase EXCEPT ![s] = "down"]
    /\ UNCHANGED <<version, object, faults>>

\* It exists: ALB_STORE_LOCKED, and the lock that was not taken is left alone.
Locked(s) ==
    /\ phase[s] = "locking"
    /\ lockFile # None
    /\ phase' = [phase EXCEPT ![s] = "down"]
    /\ UNCHANGED <<lockFile, version, object, faults>>

\* readFile and the constructor: a fresh object over what the file holds.
Load(s) ==
    /\ phase[s] = "loading"
    /\ phase' = [phase EXCEPT ![s] = "open"]
    /\ Object(s, version)
    /\ UNCHANGED <<lockFile, version, faults>>

\* A limit, a corrupt line or a failing call: the catch block runs.
LoadFails(s) ==
    /\ phase[s] = "loading"
    /\ SpendFault
    /\ phase' = [phase EXCEPT ![s] = "failing"]
    /\ UNCHANGED <<lockFile, version, object>>

\* Mutant: a failed open() keeps its lock.
UnlinkOwnForgotten(s) ==
    /\ phase[s] = "failing"
    /\ phase' = [phase EXCEPT ![s] = "down"]
    /\ UNCHANGED <<lockFile, version, object, faults>>

UnlinkOwn(s) ==
    /\ phase[s] = "failing"
    /\ lockFile' = None
    /\ phase' = [phase EXCEPT ![s] = "down"]
    /\ UNCHANGED <<version, object, faults>>

----------------------------------------------------------------------------
(* The writer of an open store: an operation starts after ensureOpen,        *)
(* appends to the file, and is indexed in memory.  One that starts while a    *)
(* close() drains the writer was queued before it.                            *)
Begin(s) ==
    /\ phase[s] = "open" /\ ~closed[s] /\ ~uncertain[s]
    /\ writing[s] = "idle"
    /\ loaded[s] < MaxVersion
    /\ writing' = [writing EXCEPT ![s] = "append"]
    /\ UNCHANGED <<lockFile, version, phase, loaded, uncertain, closed, closing, faults>>

AppendFile(s) ==
    /\ phase[s] = "open" /\ writing[s] = "append"
    /\ version' = version + 1
    /\ writing' = [writing EXCEPT ![s] = "index"]
    /\ UNCHANGED <<lockFile, phase, loaded, uncertain, closed, closing, faults>>

AppendFails(s) ==
    /\ phase[s] = "open" /\ writing[s] = "append"
    /\ SpendFault
    /\ version' \in {version, version + 1}
    /\ uncertain' = [uncertain EXCEPT ![s] = TRUE]
    /\ writing' = [writing EXCEPT ![s] = "idle"]
    /\ UNCHANGED <<lockFile, phase, loaded, closed, closing>>

indexRecord(s) ==
    /\ phase[s] = "open" /\ writing[s] = "index"
    /\ loaded' = [loaded EXCEPT ![s] = @ + 1]
    /\ writing' = [writing EXCEPT ![s] = "idle"]
    /\ UNCHANGED <<lockFile, version, phase, uncertain, closed, closing, faults>>

----------------------------------------------------------------------------
(* JsonlStore.close.                                                         *)
To(s, k, place) == closing' = [closing EXCEPT ![s][k] = place]

CallClose(s, k) ==
    /\ phase[s] = "open" /\ closing[s][k] = "none"
    /\ Overlap \/ \A j \in CloseCalls : closing[s][j] # "draining"
    /\ To(s, k, IF closed[s] THEN "done" ELSE "draining")
    /\ UNCHANGED <<lockFile, version, phase, loaded, writing, uncertain, closed, faults>>

\* await this.writer is over; closed and jsonlClosed are set.
Drained(s, k) ==
    /\ phase[s] = "open" /\ closing[s][k] = "draining"
    /\ writing[s] = "idle"
    /\ closed' = [closed EXCEPT ![s] = TRUE]
    /\ To(s, k, "unlinking")
    /\ UNCHANGED <<lockFile, version, phase, loaded, writing, uncertain, faults>>

\* The handles are closed, and whatever is at the lock path is removed.
Unlink(s, k) ==
    /\ phase[s] = "open" /\ closing[s][k] = "unlinking"
    /\ lockFile' = None
    /\ To(s, k, "done")
    /\ UNCHANGED <<version, phase, loaded, writing, uncertain, closed, faults>>

\* Closing a handle fails: close() rejects and the lock file stays.
HandleFails(s, k) ==
    /\ phase[s] = "open" /\ closing[s][k] = "unlinking"
    /\ SpendFault
    /\ To(s, k, "failed")
    /\ UNCHANGED <<lockFile, version, phase, loaded, writing, uncertain, closed>>

\* No call of close() is under way any more; the caller drops the object.
Drop(s) ==
    /\ phase[s] = "open" /\ closed[s]
    /\ \A k \in CloseCalls : closing[s][k] \in {"none", "done", "failed"}
    /\ phase' = [phase EXCEPT ![s] = IF \E k \in CloseCalls : closing[s][k] = "failed"
                                     THEN "broken" ELSE "down"]
    /\ Object(s, 0)
    /\ UNCHANGED <<lockFile, version, faults>>

----------------------------------------------------------------------------
\* SIGKILL or a crash; a killed append may or may not have reached the file.
Kill(s) ==
    /\ phase[s] \notin Absent
    /\ SpendFault
    /\ phase' = [phase EXCEPT ![s] = "killed"]
    /\ version' \in IF phase[s] = "open" /\ writing[s] = "append" THEN {version, version + 1} ELSE {version}
    /\ Object(s, 0)
    /\ UNCHANGED lockFile

NobodyRuns == \A s \in Stores : phase[s] \in Absent

RemoveStaleLock ==
    /\ NobodyRuns
    /\ lockFile # None
    /\ lockFile' = None
    /\ UNCHANGED <<version, phase, object, faults>>

----------------------------------------------------------------------------
Runs(s) ==
    \/ TakeLock(s) \/ Locked(s) \/ Load(s) \/ LoadFails(s) \/ UnlinkOwn(s)
    \/ AppendFile(s) \/ AppendFails(s) \/ indexRecord(s)
    \/ \E k \in CloseCalls : Drained(s, k) \/ Unlink(s, k) \/ HandleFails(s, k)

Next ==
    \/ \E s \in Stores :
          \/ Open(s) \/ Begin(s) \/ Runs(s) \/ Drop(s) \/ Kill(s)
          \/ \E k \in CloseCalls : CallClose(s, k)
    \/ RemoveStaleLock

Spec == Init /\ [][Next]_vars

(* A started open(), append or close() goes on: its system calls return and   *)
(* the event loop resumes it.  Nobody has to open, write or close.             *)
FairSpec == Spec /\ \A s \in Stores : WF_vars(Runs(s))

----------------------------------------------------------------------------
\* Each variable holds what its comment says, and a store that is closed, or
\* is no object at all, is not writing.
TypeOK ==
    /\ lockFile \in Stores \cup {None}
    /\ version \in Nat
    /\ phase \in [Stores -> Phases]
    /\ loaded \in [Stores -> Nat]
    /\ writing \in [Stores -> {"idle", "append", "index"}]
    /\ uncertain \in [Stores -> BOOLEAN]
    /\ closed \in [Stores -> BOOLEAN]
    /\ closing \in [Stores -> [CloseCalls -> {"none", "draining", "unlinking", "done", "failed"}]]
    /\ faults \in Nat
    /\ \A s \in Stores : writing[s] # "idle" => phase[s] = "open" /\ ~closed[s]

Live(s) == phase[s] = "open" /\ ~closed[s]

\* "The local store is append-only and single-writer": two stores never accept
\* operations on the file at the same time.
SingleWriter == \A s, t \in Stores : Live(s) /\ Live(t) => s = t

\* A store that accepts operations knows every record of the file, but for one
\* it is appending itself: what it numbers and chains next is the real end.
MemoryCurrent ==
    \A s \in Stores :
        Live(s) /\ ~uncertain[s] => version = IF writing[s] = "index" THEN loaded[s] + 1 ELSE loaded[s]

\* A store that is being closed, or whose open failed, gives its lock up: only
\* a kill or a failing handle leaves it behind for the operator.
LockGivenUp ==
    \A s \in Stores :
        (phase[s] = "failing" \/ \E k \in CloseCalls : closing[s][k] = "draining")
            ~> (lockFile # s \/ \E k \in CloseCalls : closing[s][k] = "failed" \/ phase[s] = "killed")
=============================================================================
