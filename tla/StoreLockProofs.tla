--------------------------- MODULE StoreLockProofs ---------------------------
(***************************************************************************)
(* That the lock-file protocol of StoreLock excludes a second writer, for     *)
(* any number of stores, close calls, records and faults, as long as the       *)
(* calls of close() on one object do not overlap.                              *)
(***************************************************************************)
EXTENDS StoreLock, TLAPS

Busy(s, k) == closing[s][k] \in {"draining", "unlinking"}

\* At most one call of close() works on an object.
OneCloser == \A s \in Stores : \A j, k \in CloseCalls : Busy(s, j) /\ Busy(s, k) => j = k

\* The flag is set from the end of the drain on.
ClosedFlag ==
    \A s \in Stores : \A k \in CloseCalls :
        /\ closing[s][k] = "draining" => ~closed[s]
        /\ closing[s][k] = "unlinking" => closed[s]

\* The stores that took the lock and have not given it up.
Holds(s) ==
    \/ phase[s] \in {"loading", "failing"}
    \/ Live(s)
    \/ phase[s] = "open" /\ \E k \in CloseCalls : closing[s][k] = "unlinking"

\* The lock file at the path is the holder's own.
HolderLocked == \A s \in Stores : Holds(s) => lockFile = s

Exclusion == OneCloser /\ ClosedFlag /\ HolderLocked

----------------------------------------------------------------------------
\* Each action keeps the types, and a store that is closed or gone idle.
LEMMA TypeStep == TypeOK /\ [Next]_vars => TypeOK'
<1>. SUFFICES ASSUME TypeOK, [Next]_vars PROVE TypeOK'
    OBVIOUS
<1>. USE StoreLockAssumption DEF TypeOK, Phases, Absent, NoCalls
<1>1. ASSUME NEW s \in Stores, Open(s) PROVE TypeOK'
    BY <1>1 DEF Open, object
<1>2. ASSUME NEW s \in Stores, TakeLock(s) PROVE TypeOK'
    BY <1>2 DEF TakeLock, object
<1>3. ASSUME NEW s \in Stores, Locked(s) PROVE TypeOK'
    BY <1>3 DEF Locked, object
<1>4. ASSUME NEW s \in Stores, Load(s) PROVE TypeOK'
    BY <1>4 DEF Load, Object
<1>5. ASSUME NEW s \in Stores, LoadFails(s) PROVE TypeOK'
    BY <1>5 DEF LoadFails, object, SpendFault
<1>6. ASSUME NEW s \in Stores, UnlinkOwn(s) PROVE TypeOK'
    BY <1>6 DEF UnlinkOwn, object
<1>7. ASSUME NEW s \in Stores, Begin(s) PROVE TypeOK'
    BY <1>7 DEF Begin
<1>8. ASSUME NEW s \in Stores, AppendFile(s) PROVE TypeOK'
    BY <1>8 DEF AppendFile
<1>9. ASSUME NEW s \in Stores, AppendFails(s) PROVE TypeOK'
    BY <1>9 DEF AppendFails, SpendFault
<1>10. ASSUME NEW s \in Stores, indexRecord(s) PROVE TypeOK'
    BY <1>10 DEF indexRecord
<1>11. ASSUME NEW s \in Stores, NEW k \in CloseCalls, CallClose(s, k) PROVE TypeOK'
    BY <1>11 DEF CallClose, To
<1>12. ASSUME NEW s \in Stores, NEW k \in CloseCalls, Drained(s, k) PROVE TypeOK'
    BY <1>12 DEF Drained, To
<1>13. ASSUME NEW s \in Stores, NEW k \in CloseCalls, Unlink(s, k) PROVE TypeOK'
    BY <1>13 DEF Unlink, To
<1>14. ASSUME NEW s \in Stores, NEW k \in CloseCalls, HandleFails(s, k) PROVE TypeOK'
    BY <1>14 DEF HandleFails, To, SpendFault
<1>15. ASSUME NEW s \in Stores, Drop(s) PROVE TypeOK'
    BY <1>15 DEF Drop, Object
<1>16. ASSUME NEW s \in Stores, Kill(s) PROVE TypeOK'
    BY <1>16 DEF Kill, Object, SpendFault
<1>17. CASE RemoveStaleLock
    BY <1>17 DEF RemoveStaleLock, object
<1>18. CASE UNCHANGED vars
    BY <1>18 DEF vars
<1>. QED
    BY <1>1, <1>2, <1>3, <1>4, <1>5, <1>6, <1>7, <1>8, <1>9, <1>10, <1>11, <1>12, <1>13,
       <1>14, <1>15, <1>16, <1>17, <1>18 DEF Next, Runs

\* The types hold in every reachable state.
THEOREM Typed == Spec => []TypeOK
<1>1. Init => TypeOK
    BY StoreLockAssumption DEF Init, TypeOK, Phases, Absent, NoCalls
<1>. QED
    BY <1>1, TypeStep, PTL DEF Spec

----------------------------------------------------------------------------
\* Two holders of one lock file are one store.
LEMMA OneHolder ==
    ASSUME HolderLocked, NEW s \in Stores, NEW t \in Stores, Holds(s), Holds(t)
    PROVE  s = t
    BY DEF HolderLocked

\* The parts of Exclusion that concern the calls of close() on one object:
\* only the four steps of close(), and those that start or end an object,
\* touch them.
LEMMA CloserStep == ~Overlap /\ TypeOK /\ OneCloser /\ ClosedFlag /\ [Next]_vars => OneCloser' /\ ClosedFlag'
<1>. SUFFICES ASSUME ~Overlap, TypeOK, OneCloser, ClosedFlag, [Next]_vars
              PROVE  OneCloser' /\ ClosedFlag'
    OBVIOUS
<1>1. CASE UNCHANGED <<closed, closing>>
    BY <1>1 DEF OneCloser, ClosedFlag, Busy
<1>2. ASSUME NEW s \in Stores, NEW count, Object(s, count) PROVE OneCloser' /\ ClosedFlag'
    BY <1>2 DEF Object, NoCalls, OneCloser, ClosedFlag, Busy, TypeOK
<1>3. ASSUME NEW s \in Stores, NEW k \in CloseCalls, CallClose(s, k) PROVE OneCloser' /\ ClosedFlag'
    <2>1. OneCloser'
        <3>1. CASE closed[s]
            BY <1>3, <3>1 DEF CallClose, To, OneCloser, Busy, TypeOK
        <3>2. CASE ~closed[s]
            <4>1. \A j \in CloseCalls : ~Busy(s, j)
                BY <1>3, <3>2 DEF CallClose, ClosedFlag, Busy
            <4>. QED
                BY <1>3, <3>2, <4>1 DEF CallClose, To, OneCloser, Busy, TypeOK
        <3>. QED
            BY <3>1, <3>2
    <2>2. ClosedFlag'
        BY <1>3 DEF CallClose, To, ClosedFlag, TypeOK
    <2>. QED
        BY <2>1, <2>2
<1>4. ASSUME NEW s \in Stores, NEW k \in CloseCalls, Drained(s, k) PROVE OneCloser' /\ ClosedFlag'
    BY <1>4 DEF Drained, To, OneCloser, ClosedFlag, Busy, TypeOK
<1>5. ASSUME NEW s \in Stores, NEW k \in CloseCalls, NEW place \in {"done", "failed"},
             closing[s][k] = "unlinking", To(s, k, place), UNCHANGED closed
      PROVE  OneCloser' /\ ClosedFlag'
    <2>1. OneCloser'
        BY <1>5 DEF To, OneCloser, Busy, TypeOK
    <2>2. ClosedFlag'
        BY <1>5 DEF To, ClosedFlag, TypeOK
    <2>. QED
        BY <2>1, <2>2
<1>. QED
    BY <1>1, <1>2, <1>3, <1>4, <1>5
       DEF Next, Runs, Open, TakeLock, Locked, Load, LoadFails, UnlinkOwn, Begin, AppendFile, AppendFails,
           indexRecord, Unlink, HandleFails, Drop, Kill, RemoveStaleLock, object, vars

\* A step takes the lock from its holder only when it ends the holding.
LEMMA HolderStep == ~Overlap /\ TypeOK /\ Exclusion /\ [Next]_vars => HolderLocked'
<1>. SUFFICES ASSUME ~Overlap, TypeOK, Exclusion, [Next]_vars
              PROVE  HolderLocked'
    OBVIOUS
<1>. USE DEF Exclusion, HolderLocked, Holds, Live
<1>1. ASSUME NEW s \in Stores, Open(s) \/ Locked(s) PROVE HolderLocked'
    BY <1>1 DEF Open, Locked, object, TypeOK, Absent
<1>2. ASSUME NEW s \in Stores, TakeLock(s) PROVE HolderLocked'
    <2>1. \A t \in Stores : ~Holds(t)
        BY <1>2, StoreLockAssumption DEF TakeLock
    <2>. QED
        BY <1>2, <2>1 DEF TakeLock, object, TypeOK
<1>3. ASSUME NEW s \in Stores, Load(s) \/ LoadFails(s) PROVE HolderLocked'
    BY <1>3 DEF Load, LoadFails, Object, object, TypeOK, NoCalls
<1>4. ASSUME NEW s \in Stores, UnlinkOwn(s) PROVE HolderLocked'
    <2>1. \A t \in Stores \ {s} : ~Holds(t)
        BY <1>4, OneHolder DEF UnlinkOwn
    <2>. QED
        BY <1>4, <2>1 DEF UnlinkOwn, object, TypeOK
<1>5. ASSUME NEW s \in Stores, Begin(s) \/ AppendFile(s) \/ AppendFails(s) \/ indexRecord(s) PROVE HolderLocked'
    BY <1>5 DEF Begin, AppendFile, AppendFails, indexRecord
<1>6. ASSUME NEW s \in Stores, NEW k \in CloseCalls, CallClose(s, k) \/ Drained(s, k) \/ HandleFails(s, k)
      PROVE  HolderLocked'
    <2>1. CASE CallClose(s, k)
        BY <2>1 DEF CallClose, To, TypeOK
    <2>2. CASE Drained(s, k)
        <3>1. lockFile = s
            BY <2>2 DEF Drained, TypeOK, ClosedFlag
        <3>2. \A t \in Stores \ {s} : closing'[t] = closing[t] /\ closed'[t] = closed[t]
            BY <2>2 DEF Drained, To, TypeOK
        <3>. QED
            BY <2>2, <3>1, <3>2 DEF Drained
    <2>3. CASE HandleFails(s, k)
        <3>1. lockFile = s
            BY <2>3 DEF HandleFails
        <3>2. \A t \in Stores \ {s} : closing'[t] = closing[t]
            BY <2>3 DEF HandleFails, To, TypeOK
        <3>. QED
            BY <2>3, <3>1, <3>2 DEF HandleFails
    <2>. QED
        BY <1>6, <2>1, <2>2, <2>3
<1>7. ASSUME NEW s \in Stores, NEW k \in CloseCalls, Unlink(s, k) PROVE HolderLocked'
    <2>1. \A t \in Stores \ {s} : ~Holds(t)
        BY <1>7, OneHolder DEF Unlink
    <2>2. closed[s] /\ \A j \in CloseCalls \ {k} : closing[s][j] # "unlinking"
        BY <1>7 DEF Unlink, OneCloser, ClosedFlag, Busy
    <2>. QED
        BY <1>7, <2>1, <2>2 DEF Unlink, To, TypeOK
<1>8. ASSUME NEW s \in Stores, Drop(s) \/ Kill(s) PROVE HolderLocked'
    BY <1>8 DEF Drop, Kill, Object, TypeOK, NoCalls
<1>9. CASE RemoveStaleLock
    BY <1>9 DEF RemoveStaleLock, NobodyRuns, Absent, object
<1>10. CASE UNCHANGED vars
    BY <1>10 DEF vars
<1>. QED
    BY <1>1, <1>2, <1>3, <1>4, <1>5, <1>6, <1>7, <1>8, <1>9, <1>10 DEF Next, Runs

LEMMA ExclusionStep == ~Overlap /\ TypeOK /\ Exclusion /\ [Next]_vars => Exclusion'
    BY CloserStep, HolderStep DEF Exclusion

LEMMA ExclusionInit == Init => Exclusion
    BY DEF Init, Exclusion, OneCloser, ClosedFlag, HolderLocked, Holds, Live, Busy, NoCalls

\* When no call of close() starts while another drains, no two stores ever
\* accept operations at the same time.
THEOREM LockExcludes ==
    ASSUME ~Overlap
    PROVE  Spec => []SingleWriter
<1>1. HolderLocked => SingleWriter
    BY DEF HolderLocked, SingleWriter, Holds
<1>. QED
    BY <1>1, Typed, ExclusionInit, ExclusionStep, PTL DEF Spec, Exclusion

----------------------------------------------------------------------------
\* The file changes only at the hands of its one live store, which accounts
\* for it, turns uncertain, or dies.
LEMMA CurrentStep == TypeOK /\ SingleWriter /\ MemoryCurrent /\ [Next]_vars => MemoryCurrent'
<1>. SUFFICES ASSUME TypeOK, SingleWriter, MemoryCurrent, [Next]_vars
              PROVE  MemoryCurrent'
    OBVIOUS
<1>. USE DEF MemoryCurrent, Live
<1>1. ASSUME NEW s \in Stores, Open(s) \/ TakeLock(s) \/ Locked(s) \/ LoadFails(s) \/ UnlinkOwn(s)
      PROVE  MemoryCurrent'
    BY <1>1 DEF Open, TakeLock, Locked, LoadFails, UnlinkOwn, object, TypeOK
<1>2. ASSUME NEW s \in Stores, Load(s) \/ Drop(s) PROVE MemoryCurrent'
    <2>1. CASE Load(s)
        BY <2>1 DEF Load, Object, TypeOK
    <2>2. CASE Drop(s)
        BY <2>2 DEF Drop, Object, TypeOK
    <2>. QED
        BY <1>2, <2>1, <2>2
<1>3. ASSUME NEW s \in Stores, Begin(s) \/ indexRecord(s) PROVE MemoryCurrent'
    BY <1>3 DEF Begin, indexRecord, TypeOK
<1>4. ASSUME NEW s \in Stores, AppendFile(s) \/ AppendFails(s) PROVE MemoryCurrent'
    <2>1. \A t \in Stores \ {s} : ~Live(t)
        BY <1>4 DEF AppendFile, AppendFails, SingleWriter, TypeOK
    <2>. QED
        BY <1>4, <2>1 DEF AppendFile, AppendFails, TypeOK
<1>5. ASSUME NEW s \in Stores, Kill(s) PROVE MemoryCurrent'
    <2>1. CASE phase[s] = "open" /\ writing[s] = "append"
        <3>1. \A t \in Stores \ {s} : ~Live(t)
            BY <2>1 DEF SingleWriter, TypeOK
        <3>. QED
            BY <1>5, <2>1, <3>1 DEF Kill, Object, TypeOK
    <2>2. CASE ~(phase[s] = "open" /\ writing[s] = "append")
        BY <1>5, <2>2 DEF Kill, Object, TypeOK
    <2>. QED
        BY <2>1, <2>2
<1>6. ASSUME NEW s \in Stores, NEW k \in CloseCalls,
             CallClose(s, k) \/ Drained(s, k) \/ Unlink(s, k) \/ HandleFails(s, k)
      PROVE  MemoryCurrent'
    BY <1>6 DEF CallClose, Drained, Unlink, HandleFails, TypeOK
<1>7. CASE RemoveStaleLock \/ UNCHANGED vars
    BY <1>7 DEF RemoveStaleLock, object, vars
<1>. QED
    BY <1>1, <1>2, <1>3, <1>4, <1>5, <1>6, <1>7 DEF Next, Runs

\* A store that accepts operations numbers and chains its next record after
\* the real end of the file.
THEOREM WriterIsCurrent ==
    ASSUME ~Overlap
    PROVE  Spec => []MemoryCurrent
<1>1. Init => MemoryCurrent
    BY DEF Init, MemoryCurrent, Live
<1>. QED
    BY <1>1, Typed, LockExcludes, CurrentStep, PTL DEF Spec
=============================================================================
