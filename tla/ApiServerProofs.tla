--------------------------- MODULE ApiServerProofs ---------------------------
(***************************************************************************)
(* That the service of ApiServer accounts for its slots, bounds its buffers,    *)
(* outlasts its clients on one signal, and tells them the truth about the file,  *)
(* for any number of requests, any limits and any payloads: the first three      *)
(* whatever the store answers, the last from what its guards compute.          *)
(***************************************************************************)
EXTENDS ApiServer, StoreRecordsProofs, FiniteSetTheorems

\* The writer chain holds each request that waits for the store, once.
WaitsOnce ==
    /\ queue \in Seq(Requests \cup Signals)
    /\ \A i \in 1 .. Len(queue) : queue[i] \in Requests => phase[queue[i]] = "store"
    /\ \A i, j \in 1 .. Len(queue) : queue[i] = queue[j] /\ queue[i] \in Requests => i = j

Bounded == \A r \in Requests : received[r] <= MaxBodyBytes

\* Until a second signal comes, close() is past server.close() only without connections.
Ordered ==
    /\ listening <=> \A s \in Signals : closing[s] = "no"
    /\ storeClosed => \E s \in Signals : closing[s] \in {"unlink", "done"}
    /\ (\E s \in Signals : closing[s] = "no") =>
           \A s \in Signals : closing[s] \in {"store", "unlink", "done"} => connected = {}

IInv == TypeOK /\ WaitsOnce /\ SlotsAccounted /\ Bounded /\ Ordered

----------------------------------------------------------------------------
LEMMA RunningFinite == IsFiniteSet(Running) /\ Cardinality(Running) \in Nat
    BY ApiServerAssumption, FS_Subset, FS_CardinalityType DEF Running

\* A handler that ends gives its slot back.
LEMMA SlotReturned ==
    ASSUME TypeOK, SlotsAccounted, NEW r \in Running,
           activeRequests' = activeRequests - 1, phase' = [phase EXCEPT ![r] = "settled"]
    PROVE  SlotsAccounted'
<1>1. Running' = Running \ {r}
    BY DEF Running, TypeOK
<1>2. Cardinality(Running') = Cardinality(Running) - 1
    BY <1>1, RunningFinite, FS_RemoveElement
<1>. QED
    BY <1>2, RunningFinite, ApiServerAssumption DEF SlotsAccounted

\* A handler that is admitted takes one, which the limit leaves.
LEMMA SlotTaken ==
    ASSUME TypeOK, SlotsAccounted, NEW r \in Requests, NEW p \in {"reading", "working"},
           phase[r] = "unsent", activeRequests < MaxConcurrent,
           activeRequests' = activeRequests + 1, phase' = [phase EXCEPT ![r] = p]
    PROVE  SlotsAccounted'
<1>1. Running' = Running \cup {r} /\ r \notin Running
    BY DEF Running, TypeOK
<1>2. Cardinality(Running') = Cardinality(Running) + 1
    BY <1>1, RunningFinite, FS_AddElement
<1>. QED
    BY <1>2, RunningFinite, ApiServerAssumption DEF SlotsAccounted

\* Any other step leaves the handlers that run, and the counter, alone.
LEMMA SlotsKept ==
    ASSUME SlotsAccounted, Running' = Running, activeRequests' = activeRequests
    PROVE  SlotsAccounted'
    BY DEF SlotsAccounted

\* The handlers that end: whoever runs may, and all of TypeOK, the slots and the
\* buffers survives it.
LEMMA SettleStep ==
    ASSUME TypeOK, SlotsAccounted, Bounded, NEW r \in Running, NEW code, Settle(r, code),
           UNCHANGED <<message, process, listening, closing>>, connected' \subseteq connected,
           doubt' \in BOOLEAN, UNCHANGED <<storeClosed, lock>>, failures' \in Nat
    PROVE  TypeOK' /\ SlotsAccounted' /\ Bounded'
<1>1. SlotsAccounted'
    BY SlotReturned DEF Settle
<1>2. activeRequests' \in Nat
    BY <1>1, RunningFinite, FS_Subset, FS_CardinalityType, ApiServerAssumption DEF SlotsAccounted, Running
<1>3. Bounded'
    BY ApiServerAssumption DEF Settle, Bounded, TypeOK
<1>4. TypeOK'
    BY <1>2 DEF Settle, TypeOK, Running
<1>. QED
    BY <1>1, <1>3, <1>4

----------------------------------------------------------------------------
\* An admitted request takes a slot that was free; the others answered at once
\* leave the counter alone.
LEMMA ArriveStep ==
    ASSUME TypeOK, SlotsAccounted, Bounded, NEW r \in Requests, NEW m \in Messages, Arrive(r, m)
    PROVE  TypeOK' /\ SlotsAccounted' /\ Bounded'
<1>1. received' = received /\ Bounded'
    BY DEF Arrive, Handled, AnswerAtOnce, Admit, Bounded
<1>2. connected' \subseteq Requests
    BY DEF Arrive, Connect, KeptAlive, TypeOK
<1>3. received[r] = 0 /\ phase[r] = "unsent" /\ r \notin Running
    BY DEF Arrive, TypeOK, Running
<1>4. ASSUME NEW code, AnswerAtOnce(r, code) PROVE TypeOK' /\ SlotsAccounted'
    <2>1. Running' = Running
        BY <1>3, <1>4 DEF AnswerAtOnce, Running, TypeOK
    <2>2. SlotsAccounted'
        BY <1>4, <2>1, SlotsKept DEF AnswerAtOnce
    <2>3. TypeOK'
        BY <1>2, <1>3, <1>4 DEF AnswerAtOnce, Arrive, TypeOK, store
    <2>. QED
        BY <2>2, <2>3
<1>5. ASSUME NEW p \in {"reading", "working"}, Admit(r, p), activeRequests < MaxConcurrent
      PROVE  TypeOK' /\ SlotsAccounted'
    <2>1. SlotsAccounted'
        BY <1>3, <1>5, SlotTaken DEF Admit
    <2>2. TypeOK'
        BY <1>2, <1>3, <1>5 DEF Admit, Arrive, TypeOK, store
    <2>. QED
        BY <2>1, <2>2
<1>6. RouteVerdict(m, activeRequests) = "ok" => activeRequests < MaxConcurrent
    BY ApiServerAssumption DEF RouteVerdict, TypeOK
<1>. QED
    BY <1>1, <1>4, <1>5, <1>6 DEF Arrive, Handled

\* A handler goes on: to the engine or to the store, or with one more chunk.
LEMMA GoOn ==
    ASSUME TypeOK, SlotsAccounted, Bounded, NEW r \in Running, NEW p \in {"reading", "working", "store"},
           NEW size \in Nat, size > 0 => p = "reading", size <= MaxBodyBytes,
           phase' = [phase EXCEPT ![r] = p], received' = [received EXCEPT ![r] = size],
           UNCHANGED <<activeRequests, answer, message, process, listening, connected, closing,
                       doubt, storeClosed, lock, failures>>
    PROVE  TypeOK' /\ SlotsAccounted' /\ Bounded'
<1>1. Running' = Running
    BY DEF Running, TypeOK
<1>2. TypeOK'
    BY DEF TypeOK, Running
<1>. QED
    BY <1>1, <1>2, SlotsKept DEF Bounded, TypeOK

LEMMA ReadStep ==
    ASSUME TypeOK, SlotsAccounted, Bounded, NEW r \in Requests,
           \/ \E n \in 1 .. MaxBodyBytes + 1 : onData(r, n)
           \/ onEnd(r) \/ BodyTimeout(r) \/ Work(r) \/ Disconnect(r)
    PROVE  TypeOK' /\ SlotsAccounted' /\ Bounded'
<1>. USE ApiServerAssumption
<1>1. ASSUME NEW n \in 1 .. MaxBodyBytes + 1, onData(r, n) PROVE TypeOK' /\ SlotsAccounted' /\ Bounded'
    <2>1. r \in Running /\ phase = [phase EXCEPT ![r] = "reading"]
        BY <1>1 DEF onData, IsReading, Running, TypeOK
    <2>2. CASE received[r] + n > MaxBodyBytes
        BY <1>1, <2>1, <2>2, SettleStep DEF onData, environment, store, TypeOK
    <2>3. CASE received[r] + n <= MaxBodyBytes
        <3>1. received' = [received EXCEPT ![r] = received[r] + n] /\ received[r] + n \in Nat
            BY <1>1, <2>3 DEF onData, TypeOK
        <3>2. phase' = [phase EXCEPT ![r] = "reading"]
            BY <1>1, <2>1, <2>3 DEF onData, TypeOK
        <3>3. UNCHANGED <<activeRequests, answer, message, process, listening, connected, closing,
                          doubt, storeClosed, lock, failures>>
            BY <1>1, <2>3 DEF onData, environment, store, TypeOK
        <3>. QED
            BY <2>1, <2>3, <3>1, <3>2, <3>3, GoOn
    <2>. QED
        BY <1>1, <2>2, <2>3 DEF TypeOK
<1>2. CASE onEnd(r)
    <2>1. r \in Running
        BY <1>2 DEF onEnd, IsReading, Running
    <2>2. CASE BodyVerdict(message[r]) # "ok"
        BY <1>2, <2>1, <2>2, SettleStep DEF onEnd, environment, store, TypeOK
    <2>3. CASE BodyVerdict(message[r]) = "ok"
        BY <1>2, <2>1, <2>3, GoOn DEF onEnd, Goto, environment, store
    <2>. QED
        BY <2>2, <2>3
<1>3. CASE BodyTimeout(r)
    <2>1. r \in Running
        BY <1>3 DEF BodyTimeout, IsReading, Running
    <2>. QED
        BY <1>3, <2>1, SettleStep DEF BodyTimeout, environment, store, TypeOK
<1>4. CASE Work(r)
    <2>1. r \in Running /\ received[r] = 0
        BY <1>4 DEF Work, Running, TypeOK
    <2>2. CASE message[r].engine # "ok" \/ message[r].route \notin Writes
        <3>1. PICK code : Settle(r, code)
            BY <1>4, <2>2 DEF Work
        <3>2. /\ UNCHANGED <<message, process, listening, closing>> /\ UNCHANGED <<storeClosed, lock>>
              /\ connected' \subseteq connected /\ doubt' \in BOOLEAN /\ failures' \in Nat
            BY <1>4 DEF Work, environment, store, TypeOK
        <3>. QED
            BY <2>1, <3>1, <3>2, SettleStep
    <2>3. CASE message[r].engine = "ok" /\ message[r].route \in Writes
        <3>1. received' = [received EXCEPT ![r] = 0] /\ phase' = [phase EXCEPT ![r] = "store"]
            BY <1>4, <2>1, <2>3 DEF Work, Goto, TypeOK
        <3>2. UNCHANGED <<activeRequests, answer, message, process, listening, connected, closing,
                          doubt, storeClosed, lock, failures>>
            BY <1>4, <2>3 DEF Work, Goto, environment, store
        <3>3. 0 \in Nat /\ (0 > 0 => "store" = "reading") /\ 0 <= MaxBodyBytes
            OBVIOUS
        <3>. QED
            BY <2>1, <3>1, <3>2, <3>3, GoOn, Zenon
    <2>. QED
        BY <2>2, <2>3
<1>5. CASE Disconnect(r)
    <2>1. CASE phase[r] = "reading"
        <3>1. r \in Running
            BY <2>1 DEF Running
        <3>. QED
            BY <1>5, <2>1, <3>1, SettleStep DEF Disconnect, environment, store, TypeOK
    <2>2. CASE phase[r] # "reading"
        BY <1>5, <2>2, SlotsKept DEF Disconnect, environment, store, handlers, Running, TypeOK, Bounded
    <2>. QED
        BY <2>1, <2>2
<1>. QED
    BY <1>1, <1>2, <1>3, <1>4, <1>5

----------------------------------------------------------------------------
\* What the store answers is settled by the request at the head of its chain.
LEMMA ServeStep ==
    ASSUME TypeOK, SlotsAccounted, Bounded, WaitsOnce, StoreServes
    PROVE  TypeOK' /\ SlotsAccounted' /\ Bounded'
<1>. DEFINE r == Head(queue)
<1>1. r \in Running
    BY DEF StoreServes, WaitsOnce, Running
<1>2. /\ UNCHANGED <<message, process, listening, closing>> /\ UNCHANGED <<storeClosed, lock>>
      /\ connected' \subseteq connected
    BY DEF StoreServes, surroundings
<1>3. PICK verdict : Serve(r, verdict)
    BY DEF StoreServes
<1>4. doubt' \in BOOLEAN /\ failures' \in Nat /\ \E code : Settle(r, code)
    <2>1. CASE verdict = "ok"
        <3>1. PICK record : Persist(r, record)
            BY <1>3, <2>1 DEF Serve
        <3>2. \/ UNCHANGED <<doubt, failures>>
              \/ doubt' = TRUE /\ failures > 0 /\ failures' = failures - 1
            BY <3>1 DEF Persist
        <3>3. Settle(r, "created") \/ Settle(r, "ALB_STORE_WRITE")
            BY <3>1 DEF Persist
        <3>4. failures' \in Nat
            BY <3>2 DEF TypeOK
        <3>5. doubt \in BOOLEAN
            BY DEF TypeOK
        <3>6. doubt' \in BOOLEAN
            BY <3>2, <3>5
        <3>. QED
            BY <3>3, <3>4, <3>6
    <2>2. CASE verdict # "ok"
        <3>1. PICK code : Settle(r, code) /\ UNCHANGED <<doubt, failures>>
            BY <1>3, <2>2 DEF Serve
        <3>. QED
            BY <3>1 DEF TypeOK
    <2>. QED
        BY <2>1, <2>2
<1>. QED
    BY <1>1, <1>2, <1>4, SettleStep

\* Signals, close() and the end of the process touch no handler.
LEMMA StopStep ==
    ASSUME TypeOK, SlotsAccounted, Bounded, NEW s \in Signals,
           Signal(s) \/ SignalAgain(s) \/ ConnectionsEnded(s) \/ StoreDrained(s) \/ Unlink(s) \/ Exit
    PROVE  TypeOK' /\ SlotsAccounted' /\ Bounded'
<1>1. UNCHANGED rest
    BY DEF Signal, SignalAgain, ConnectionsEnded, StoreDrained, Unlink, Exit
<1>2. SlotsAccounted' /\ Bounded'
    BY <1>1, SlotsKept DEF rest, Running, Bounded
<1>3. process' \in {"up", "exited", "killed"} /\ listening' \in BOOLEAN /\ storeClosed' \in BOOLEAN /\ lock' \in BOOLEAN
    BY DEF Signal, SignalAgain, ConnectionsEnded, StoreDrained, Unlink, Exit, TypeOK
<1>4. closing' \in [Signals -> {"no", "connections", "store", "unlink", "done"}]
    BY DEF Signal, SignalAgain, ConnectionsEnded, StoreDrained, Unlink, Exit, TypeOK, CloseStore
<1>. QED
    BY <1>1, <1>2, <1>3, <1>4 DEF rest, TypeOK

----------------------------------------------------------------------------
\* The writer chain: what joins it was not in it, and only its head leaves.
LEMMA QueueJoins ==
    ASSUME TypeOK, WaitsOnce, NEW x \in Requests \cup Signals, queue' = Append(queue, x),
           \/ x \in Signals /\ phase' = phase
           \/ x \in Requests /\ phase[x] # "store" /\ phase' = [phase EXCEPT ![x] = "store"]
    PROVE  WaitsOnce'
<1>. USE ApiServerAssumption DEF WaitsOnce
<1>1. queue' \in Seq(Requests \cup Signals) /\ Len(queue') = Len(queue) + 1
    OBVIOUS
<1>2. \A i \in 1 .. Len(queue') : queue'[i] = IF i = Len(queue) + 1 THEN x ELSE queue[i]
    OBVIOUS
<1>3. \A i \in 1 .. Len(queue) : queue[i] \in Requests => queue[i] # x
    OBVIOUS
<1>4. \A i \in 1 .. Len(queue') : queue'[i] \in Requests => phase'[queue'[i]] = "store"
    BY <1>1, <1>2, <1>3 DEF TypeOK
<1>5. \A i, j \in 1 .. Len(queue') : queue'[i] = queue'[j] /\ queue'[i] \in Requests => i = j
    BY <1>1, <1>2, <1>3
<1>. QED
    BY <1>1, <1>4, <1>5

LEMMA QueueLeaves ==
    ASSUME TypeOK, WaitsOnce, queue # <<>>, queue' = Tail(queue),
           \A r \in Requests : r # Head(queue) /\ phase[r] = "store" => phase'[r] = "store"
    PROVE  WaitsOnce'
<1>. USE DEF WaitsOnce
<1>1. queue' \in Seq(Requests \cup Signals) /\ Len(queue') = Len(queue) - 1 /\ Len(queue) \in Nat \ {0}
    OBVIOUS
<1>2. \A i \in 1 .. Len(queue') : queue'[i] = queue[i + 1] /\ i + 1 \in 1 .. Len(queue) /\ i + 1 # 1
    BY <1>1
<1>3. Head(queue) = queue[1] /\ 1 \in 1 .. Len(queue)
    BY <1>1
<1>4. \A i \in 1 .. Len(queue') : queue'[i] \in Requests => queue'[i] # Head(queue)
    BY <1>2, <1>3
<1>5. \A i \in 1 .. Len(queue') : queue'[i] \in Requests => phase'[queue'[i]] = "store"
    BY <1>2, <1>4
<1>6. \A i, j \in 1 .. Len(queue') : queue'[i] = queue'[j] /\ queue'[i] \in Requests => i = j
    BY <1>1, <1>2
<1>. QED
    BY <1>1, <1>5, <1>6

LEMMA QueueStays ==
    ASSUME WaitsOnce, queue' = queue, \A r \in Requests : phase[r] = "store" => phase'[r] = "store"
    PROVE  WaitsOnce'
    BY DEF WaitsOnce

LEMMA WaitsOnceStep == TypeOK /\ WaitsOnce /\ [Next]_vars => WaitsOnce'
<1>. SUFFICES ASSUME TypeOK, WaitsOnce, [Next]_vars PROVE WaitsOnce'
    OBVIOUS
<1>1. ASSUME NEW r \in Requests, NEW m \in Messages, Arrive(r, m) PROVE WaitsOnce'
    <2>1. queue' = queue /\ phase[r] = "unsent" /\ \E p : phase' = [phase EXCEPT ![r] = p]
        BY <1>1 DEF Arrive, Handled, AnswerAtOnce, Admit
    <2>. QED
        BY <2>1, QueueStays DEF TypeOK
<1>2. ASSUME NEW r \in Requests, NEW n \in 1 .. MaxBodyBytes + 1, onData(r, n) PROVE WaitsOnce'
    <2>1. queue' = queue /\ phase[r] = "reading"
          /\ (phase' = phase \/ phase' = [phase EXCEPT ![r] = "settled"])
        BY <1>2 DEF onData, IsReading, Settle
    <2>. QED
        BY <2>1, QueueStays DEF TypeOK
<1>3. ASSUME NEW r \in Requests, onEnd(r) \/ Work(r) PROVE WaitsOnce'
    <2>1. phase[r] # "store"
        BY <1>3 DEF onEnd, Work, IsReading
    <2>2. CASE queue' = queue /\ \E p : phase' = [phase EXCEPT ![r] = p]
        BY <2>1, <2>2, QueueStays DEF TypeOK
    <2>3. CASE queue' = Append(queue, r) /\ phase' = [phase EXCEPT ![r] = "store"]
        BY <2>1, <2>3, QueueJoins
    <2>. QED
        BY <1>3, <2>2, <2>3 DEF onEnd, Work, Settle, Goto
<1>4. ASSUME NEW r \in Requests, BodyTimeout(r) \/ Disconnect(r) PROVE WaitsOnce'
    <2>1. queue' = queue /\ (phase' = phase \/ (phase[r] = "reading" /\ phase' = [phase EXCEPT ![r] = "settled"]))
        BY <1>4 DEF BodyTimeout, Disconnect, IsReading, Settle, handlers
    <2>. QED
        BY <2>1, QueueStays DEF TypeOK
<1>5. CASE StoreServes
    <2>1. queue # <<>> /\ queue' = Tail(queue) /\ Head(queue) \in Requests
        BY <1>5 DEF StoreServes
    <2>2. PICK verdict : Serve(Head(queue), verdict)
        BY <1>5 DEF StoreServes
    <2>3. phase' = [phase EXCEPT ![Head(queue)] = "settled"]
        BY <2>2 DEF Serve, Persist, Settle
    <2>. QED
        BY <2>1, <2>3, QueueLeaves DEF TypeOK
<1>6. ASSUME NEW s \in Signals, Signal(s) \/ ConnectionsEnded(s) PROVE WaitsOnce'
    <2>1. phase' = phase /\ (queue' = queue \/ queue' = Append(queue, s))
        BY <1>6 DEF Signal, ConnectionsEnded, CloseStore, rest
    <2>. QED
        BY <2>1, QueueStays, QueueJoins
<1>7. ASSUME NEW s \in Signals, StoreDrained(s) PROVE WaitsOnce'
    <2>1. queue # <<>> /\ queue' = Tail(queue) /\ phase' = phase
        BY <1>7 DEF StoreDrained, rest
    <2>. QED
        BY <2>1, QueueLeaves
<1>8. ASSUME NEW s \in Signals, SignalAgain(s) \/ Unlink(s) PROVE WaitsOnce'
    BY <1>8, QueueStays DEF SignalAgain, Unlink, rest
<1>9. CASE Exit \/ UNCHANGED vars
    BY <1>9, QueueStays DEF Exit, rest, vars
<1>. QED
    BY <1>1, <1>2, <1>3, <1>4, <1>5, <1>6, <1>7, <1>8, <1>9 DEF Next, Clients, Handlers, Stopping

----------------------------------------------------------------------------
LEMMA OrderedStep == TypeOK /\ Ordered /\ [Next]_vars => Ordered'
<1>. SUFFICES ASSUME TypeOK, Ordered, [Next]_vars PROVE Ordered'
    OBVIOUS
<1>. USE DEF Ordered
<1>1. ASSUME NEW r \in Requests, NEW m \in Messages, Arrive(r, m) PROVE Ordered'
    <2>1. UNCHANGED <<listening, storeClosed, closing>>
        BY <1>1 DEF Arrive, store
    <2>2. CASE listening
        BY <2>1, <2>2
    <2>3. CASE ~listening
        <3>1. connected # {}
            BY <1>1, <2>3 DEF Arrive, Connect, KeptAlive
        <3>. QED
            BY <2>1, <3>1
    <2>. QED
        BY <2>2, <2>3
<1>2. CASE connected' \subseteq connected /\ UNCHANGED <<listening, storeClosed, closing>>
    BY <1>2
<1>3. CASE Handlers \/ Exit \/ (\E r \in Requests : Disconnect(r)) \/ (\E s \in Signals : SignalAgain(s)) \/ UNCHANGED vars
    <2>1. connected' \subseteq connected /\ UNCHANGED <<listening, storeClosed, closing>>
        BY <1>3 DEF Handlers, Exit, Disconnect, SignalAgain, onData, onEnd, BodyTimeout, Work, StoreServes,
                    environment, store, surroundings, rest, vars
    <2>. QED
        BY <2>1, <1>2
<1>4. ASSUME NEW s \in Signals, Signal(s) PROVE Ordered'
    <2>1. UNCHANGED <<storeClosed, connected>> /\ listening' = FALSE /\ closing[s] = "no"
        BY <1>4 DEF Signal, rest
    <2>2. CASE listening
        <3>1. closing' = [closing EXCEPT ![s] = "connections"] /\ \A t \in Signals : closing[t] = "no"
            BY <1>4, <2>2 DEF Signal
        <3>. QED
            BY <2>1, <3>1 DEF TypeOK
    <2>3. CASE ~listening
        <3>1. \E place \in {"store", "done"} : closing' = [closing EXCEPT ![s] = place]
            BY <1>4, <2>3 DEF Signal, CloseStore
        <3>2. \A t \in Signals : closing'[t] # "no"
            BY <2>1, <2>3, <3>1 DEF TypeOK, Signals
        <3>. QED
            BY <2>1, <3>1, <3>2 DEF TypeOK
    <2>. QED
        BY <2>2, <2>3
<1>5. ASSUME NEW s \in Signals, ConnectionsEnded(s) PROVE Ordered'
    <2>1. UNCHANGED <<storeClosed, connected, listening>> /\ connected = {} /\ closing[s] = "connections"
        BY <1>5 DEF ConnectionsEnded, rest
    <2>2. \E place \in {"store", "done"} : closing' = [closing EXCEPT ![s] = place]
        BY <1>5 DEF ConnectionsEnded, CloseStore
    <2>. QED
        BY <2>1, <2>2 DEF TypeOK
<1>6. ASSUME NEW s \in Signals, StoreDrained(s) PROVE Ordered'
    BY <1>6 DEF StoreDrained, rest, TypeOK
<1>7. ASSUME NEW s \in Signals, Unlink(s) PROVE Ordered'
    BY <1>7 DEF Unlink, rest, TypeOK
<1>. QED
    BY <1>1, <1>3, <1>4, <1>5, <1>6, <1>7 DEF Next, Clients, Stopping

----------------------------------------------------------------------------
LEMMA InvInit == Init => IInv
<1>. SUFFICES ASSUME Init PROVE IInv
    OBVIOUS
<1>1. Running = {} /\ Cardinality({}) = 0
    BY FS_EmptySet DEF Init, Running
<1>2. SlotsAccounted /\ Bounded
    BY <1>1, ApiServerAssumption DEF Init, SlotsAccounted, Bounded
<1>3. TypeOK
    <2>1. {listening, doubt, storeClosed, lock} \subseteq BOOLEAN
        BY Zenon DEF Init
    <2>2. phase \in [Requests -> {"unsent", "reading", "working", "store", "settled"}]
        BY DEF Init
    <2>3. message \in [Requests -> Messages \cup {None}] /\ received \in [Requests -> Nat]
        BY DEF Init
    <2>4. closing \in [Signals -> {"no", "connections", "store", "unlink", "done"}]
        BY DEF Init
    <2>. QED
        BY <2>1, <2>2, <2>3, <2>4, ApiServerAssumption DEF Init, TypeOK
<1>4. WaitsOnce /\ Ordered
    BY DEF Init, WaitsOnce, Ordered, Signals
<1>. QED
    BY <1>2, <1>3, <1>4 DEF IInv

LEMMA InvStep == IInv /\ [Next]_vars => IInv'
<1>. SUFFICES ASSUME IInv, [Next]_vars PROVE IInv'
    OBVIOUS
<1>. USE DEF IInv
<1>1. WaitsOnce' /\ Ordered'
    BY WaitsOnceStep, OrderedStep
<1>2. TypeOK' /\ SlotsAccounted' /\ Bounded'
    <2>1. CASE Clients \/ Handlers
        <3>1. ASSUME NEW r \in Requests, NEW m \in Messages, Arrive(r, m)
              PROVE  TypeOK' /\ SlotsAccounted' /\ Bounded'
            BY <3>1, ArriveStep
        <3>2. ASSUME NEW r \in Requests,
                     \/ \E n \in 1 .. MaxBodyBytes + 1 : onData(r, n)
                     \/ onEnd(r) \/ BodyTimeout(r) \/ Work(r) \/ Disconnect(r)
              PROVE  TypeOK' /\ SlotsAccounted' /\ Bounded'
            BY <3>2, ReadStep
        <3>3. CASE StoreServes
            BY <3>3, ServeStep
        <3>. QED
            BY <2>1, <3>1, <3>2, <3>3 DEF Clients, Handlers
    <2>2. CASE Stopping \/ Exit \/ \E s \in Signals : Signal(s) \/ SignalAgain(s)
        <3>1. PICK s \in Signals : Signal(s) \/ SignalAgain(s) \/ ConnectionsEnded(s) \/ StoreDrained(s) \/ Unlink(s) \/ Exit
            BY <2>2 DEF Stopping, Signals
        <3>. QED
            BY <3>1, StopStep
    <2>3. CASE UNCHANGED vars
        <3>1. TypeOK'
            BY <2>3 DEF vars, TypeOK
        <3>. QED
            BY <2>3, <3>1, SlotsKept DEF vars, Running, Bounded
    <2>. QED
        BY <2>1, <2>2, <2>3 DEF Next
<1>. QED
    BY <1>1, <1>2

\* The types hold in every reachable state, whatever the messages, the
\* verdicts of the guards and the failures.
THEOREM Typed == Spec => []TypeOK
<1>1. IInv => TypeOK
    BY DEF IInv
<1>. QED
    BY <1>1, InvInit, InvStep, PTL DEF Spec

\* The counter the admission looks at is the number of handlers that run, and
\* the limit bounds it.
THEOREM SlotsAreAccounted == Spec => []SlotsAccounted
<1>1. IInv => SlotsAccounted
    BY DEF IInv
<1>. QED
    BY <1>1, InvInit, InvStep, PTL DEF Spec

\* At most MaxConcurrent request bodies are buffered, none beyond its limit.
THEOREM BuffersAreBounded == Spec => []BuffersBounded
<1>1. ASSUME IInv PROVE BuffersBounded
    <2>. DEFINE Holders == {r \in Requests : received[r] > 0}
    <2>1. Holders \subseteq Running
        BY <1>1 DEF IInv, TypeOK, Running
    <2>2. IsFiniteSet(Holders) /\ Cardinality(Holders) <= Cardinality(Running) /\ Cardinality(Holders) \in Nat
        BY <2>1, RunningFinite, FS_Subset, FS_CardinalityType
    <2>3. Cardinality(Running) <= MaxConcurrent
        BY <1>1 DEF IInv, SlotsAccounted
    <2>4. Cardinality(Holders) <= MaxConcurrent
        BY <2>2, <2>3, RunningFinite, ApiServerAssumption
    <2>. QED
        BY <1>1, <2>4 DEF IInv, Bounded, BuffersBounded
<1>. QED
    BY <1>1, InvInit, InvStep, PTL DEF Spec

\* Until a second signal comes, the store is closed only when no client is
\* connected.
THEOREM StopIsGraceful == Spec => []StopsGracefully
<1>1. IInv => StopsGracefully
    BY DEF IInv, Ordered, StopsGracefully
<1>. QED
    BY <1>1, InvInit, InvStep, PTL DEF Spec

----------------------------------------------------------------------------
(* What a client is told, and what is in the file.                            *)

\* A line of the file holds the operation.
Holds(f, operation) == \E i \in 1 .. Len(f) : <<f[i].recordType, f[i].payload>> = operation

\* The records in memory are a history the guards let callers build, and the
\* file holds the same ones until a write fails.
StoreMatches ==
    /\ Lawful(records) /\ IsSequence(disk)
    /\ ~doubt => disk = records

Answered ==
    /\ DOMAIN answer = Requests
    /\ CreatedIsStored

Asked == \A r \in Requests : phase[r] # "unsent" => message[r] \in Messages

LEMMA EnsureOpen ==
    ASSUME TypeOK
    PROVE  /\ ensureOpen \in {"ok", "ALB_STORE_CLOSED", "ALB_STORE_WRITE"}
           /\ ensureOpen = "ok" => ~doubt
<1>. DEFINE checks == << <<"ALB_STORE_CLOSED", storeClosed>>, <<"ALB_STORE_WRITE", doubt>> >>
<1>1. ensureOpen = Verdict(checks)
    BY DEF ensureOpen
<1>2. /\ DOMAIN checks = {1, 2} /\ checks[1][1] = "ALB_STORE_CLOSED" /\ checks[2][1] = "ALB_STORE_WRITE"
      /\ checks[2][2] = doubt
    OBVIOUS
<1>. HIDE DEF checks
<1>3. DOMAIN checks \subseteq Nat
    BY <1>2
<1>4. Verdict(checks) \in {"ok", "ALB_STORE_CLOSED", "ALB_STORE_WRITE"}
    BY <1>2, <1>3, VerdictAmong
<1>5. Verdict(checks) = "ok" => ~ checks[2][2]
    BY <1>2, <1>3, VerdictOk
<1>. QED
    BY <1>1, <1>2, <1>4, <1>5, Zenon

\* How the store answers a write: it is closed or in doubt, or its guards
\* decide, or the limit on the records does.
LEMMA WriteAnswers ==
    ASSUME TypeOK, NEW m, NEW stored, stored = StoreVerdict(records, RecordType(m), m.payload)
    PROVE  /\ WriteVerdict(m) = "ok" => ~doubt /\ stored = "ok"
           /\ WriteVerdict(m) = "replay" => ~doubt /\ stored = "replay"
           /\ WriteVerdict(m) # "created"
           /\ stored = "replay" => WriteVerdict(m) \in {"replay", "ALB_STORE_CLOSED", "ALB_STORE_WRITE"}
           /\ WriteVerdict(m) \notin {"ALB_STORE_CLOSED", "ALB_STORE_WRITE"} => ~doubt
<1>. SUFFICES ASSUME NEW opened, opened = ensureOpen, NEW over, over = (Len(records) + 1 > MaxRecords),
                     NEW checks, checks = << Callee(opened), Callee(stored), <<"ALB_STORE_LIMIT", over>> >>,
                     NEW verdict, verdict = Verdict(checks)
              PROVE  /\ verdict = "ok" => ~doubt /\ stored = "ok"
                     /\ verdict = "replay" => ~doubt /\ stored = "replay"
                     /\ verdict # "created"
                     /\ stored = "replay" => verdict \in {"replay", "ALB_STORE_CLOSED", "ALB_STORE_WRITE"}
                     /\ verdict \notin {"ALB_STORE_CLOSED", "ALB_STORE_WRITE"} => ~doubt
    BY Zenon DEF WriteVerdict
<1>1. opened \in {"ok", "ALB_STORE_CLOSED", "ALB_STORE_WRITE"} /\ (opened = "ok" => ~doubt)
    BY EnsureOpen
<1>2. stored \in {"replay"} \cup AppealCodes \cup StoreCodes
    BY GuardCodes
<1>3. stored \notin {"created", "ALB_STORE_CLOSED", "ALB_STORE_WRITE"}
    BY ONLY <1>2 DEF AppealCodes, StoreCodes
<1>4. /\ DOMAIN checks = {1, 2, 3} /\ checks[1][1] = opened /\ checks[2][1] = stored
      /\ checks[3][1] = "ALB_STORE_LIMIT" /\ checks[1][2] = (opened # "ok") /\ checks[2][2] = (stored # "ok")
    BY ONLY checks = << Callee(opened), Callee(stored), <<"ALB_STORE_LIMIT", over>> >> DEF Callee
<1>5. DOMAIN checks \subseteq Nat /\ 1 \in DOMAIN checks /\ 2 \in DOMAIN checks
      /\ (\A k \in DOMAIN checks : ~ (k < 1)) /\ (\A k \in DOMAIN checks : k < 2 => k = 1)
    BY ONLY <1>4
<1>6. CASE opened # "ok"
    <2>1. checks[1][2]
        BY ONLY <1>4, <1>6, Zenon
    <2>2. verdict = opened
        BY ONLY <1>4, <1>5, <2>1, verdict = Verdict(checks), FirstFailing
    <2>. QED
        BY ONLY <1>1, <1>6, <2>2
<1>7. CASE opened = "ok" /\ stored # "ok"
    <2>1. ~ checks[1][2] /\ checks[2][2]
        BY ONLY <1>4, <1>7, Zenon
    <2>2. \A k \in DOMAIN checks : k < 2 => ~ checks[k][2]
        BY ONLY <1>5, <2>1, Zenon
    <2>3. verdict = stored
        BY ONLY <1>4, <1>5, <2>1, <2>2, verdict = Verdict(checks), FirstFailing
    <2>. QED
        BY ONLY <1>1, <1>3, <1>7, <2>3
<1>8. CASE opened = "ok" /\ stored = "ok"
    <2>1. verdict \in {"ok", "ALB_STORE_LIMIT"}
        <3>1. \A n \in DOMAIN checks : checks[n][1] \in {"ok", "ALB_STORE_LIMIT"}
            BY ONLY <1>4, <1>8
        <3>. QED
            BY ONLY <1>5, <3>1, verdict = Verdict(checks), VerdictAmong
    <2>. QED
        BY ONLY <1>1, <1>8, <2>1
<1>. QED
    BY <1>6, <1>7, <1>8

LEMMA ReadCodes ==
    ASSUME TypeOK, NEW m
    PROVE  ReadAnswer(m) # "created"
<1>. DEFINE codes == {"ok", "ALB_STORE_CLOSED", "ALB_STORE_WRITE", "not_ready", "ALB_DECISION_NOT_FOUND",
                      "ALB_APPEAL_NOT_FOUND"}
<1>1. PICK unready, unknown, missing :
          ReadAnswer(m) = Verdict(<< Callee(ensureOpen), <<"not_ready", unready>>,
                                     <<"ALB_DECISION_NOT_FOUND", unknown>>, <<"ALB_APPEAL_NOT_FOUND", missing>> >>)
    BY Zenon DEF ReadAnswer
<1>. DEFINE checks == << Callee(ensureOpen), <<"not_ready", unready>>,
                         <<"ALB_DECISION_NOT_FOUND", unknown>>, <<"ALB_APPEAL_NOT_FOUND", missing>> >>
<1>2. /\ DOMAIN checks = {1, 2, 3, 4} /\ checks[1][1] = ensureOpen /\ checks[2][1] = "not_ready"
      /\ checks[3][1] = "ALB_DECISION_NOT_FOUND" /\ checks[4][1] = "ALB_APPEAL_NOT_FOUND"
    BY ONLY DEF Callee
<1>. HIDE DEF checks
<1>3. ensureOpen \in codes
    BY EnsureOpen
<1>4. "ok" \in codes /\ DOMAIN checks \subseteq Nat /\ \A n \in DOMAIN checks : checks[n][1] \in codes
    BY <1>2, <1>3
<1>5. ReadAnswer(m) = Verdict(checks)
    BY <1>1 DEF checks
<1>6. ReadAnswer(m) \in codes
    BY <1>4, <1>5, VerdictAmong
<1>. QED
    BY <1>6

----------------------------------------------------------------------------
LEMMA HeldStays ==
    ASSUME NEW f, IsSequence(f), NEW record
    PROVE  /\ IsSequence(Append(f, record))
           /\ \A operation : Holds(f, operation) => Holds(Append(f, record), operation)
           /\ Holds(Append(f, record), <<record.recordType, record.payload>>)
<1>. SUFFICES ASSUME NEW g, g = Append(f, record)
              PROVE  /\ IsSequence(g) /\ \A operation : Holds(f, operation) => Holds(g, operation)
                     /\ Holds(g, <<record.recordType, record.payload>>)
    OBVIOUS
<1>1. /\ IsSequence(g) /\ Len(f) \in Nat /\ Len(g) = Len(f) + 1
      /\ (\A i \in 1 .. Len(f) : g[i] = f[i]) /\ g[Len(f) + 1] = record
    BY LongerByOne
<1>2. Len(f) + 1 \in 1 .. Len(g) /\ \A i \in 1 .. Len(f) : i \in 1 .. Len(g)
    BY ONLY <1>1
<1>. QED
    BY ONLY <1>1, <1>2, Zenon DEF Holds

\* The store serves the request at the head of its chain.
LEMMA ServedMatches ==
    ASSUME TypeOK, StoreMatches, NEW r \in Requests, NEW m, m = message[r], Serve(r, WriteVerdict(m))
    PROVE  /\ StoreMatches'
           /\ \A operation : Holds(disk, operation) => Holds(disk', operation)
           /\ \E code : /\ answer' = [answer EXCEPT ![r] = code] /\ phase' = [phase EXCEPT ![r] = "settled"]
                        /\ code = "created" => Holds(disk', <<RecordType(m), m.payload>>)
                        /\ Status(code) \in 400 .. 499 => ~ Holds(disk', <<RecordType(m), m.payload>>)
<1>. SUFFICES ASSUME NEW verdict, verdict = WriteVerdict(m), Serve(r, verdict),
                     NEW t, t = RecordType(m), NEW p, p = m.payload,
                     NEW stored, stored = StoreVerdict(records, t, p)
              PROVE  /\ StoreMatches'
                     /\ \A operation : Holds(disk, operation) => Holds(disk', operation)
                     /\ \E code : /\ answer' = [answer EXCEPT ![r] = code]
                                  /\ phase' = [phase EXCEPT ![r] = "settled"]
                                  /\ code = "created" => Holds(disk', <<t, p>>)
                                  /\ Status(code) \in 400 .. 499 => ~ Holds(disk', <<t, p>>)
    OBVIOUS
<1>1. /\ verdict = "ok" => ~doubt /\ stored = "ok"
      /\ verdict = "replay" => ~doubt /\ stored = "replay"
      /\ verdict # "created"
      /\ stored = "replay" => verdict \in {"replay", "ALB_STORE_CLOSED", "ALB_STORE_WRITE"}
      /\ verdict \notin {"ALB_STORE_CLOSED", "ALB_STORE_WRITE"} => ~doubt
    BY WriteAnswers
<1>2. t \in {"decision", "appeal_event"}
    BY DEF RecordType
<1>3. Status("created") = 201 /\ Status("ALB_STORE_WRITE") = 503 /\ Status("ALB_STORE_CLOSED") = 503
    BY ONLY DEF Status, PlatformStatus, errorMapping, StoreConflicts, StoreUnavailable
<1>4. Lawful(records) /\ IsSequence(records) /\ IsSequence(disk) /\ (~doubt => disk = records)
    BY DEF StoreMatches, Lawful
<1>5. CASE verdict = "ok"
    <2>1. PICK record : record = nextRecord(records, t, p) /\ Persist(r, record)
        BY <1>5, Zenon DEF Serve
    <2>2. record.recordType = t /\ record.payload = p
        BY ONLY <2>1 DEF nextRecord
    <2>3. Lawful(Append(records, record))
        BY <1>1, <1>2, <1>4, <1>5, <2>1, LawfulStep
    <2>4. /\ IsSequence(Append(disk, record)) /\ Holds(Append(disk, record), <<t, p>>)
          /\ \A operation : Holds(disk, operation) => Holds(Append(disk, record), operation)
        BY <1>4, <2>2, HeldStays
    <2>5. CASE /\ records' = Append(records, record) /\ disk' = Append(disk, record)
               /\ Settle(r, "created") /\ UNCHANGED <<doubt, failures>>
        <3>1. StoreMatches'
            <4>1. disk = records
                BY <1>1, <1>4, <1>5
            <4>2. records' = Append(records, record) /\ disk' = Append(records, record)
                BY ONLY <2>5, <4>1
            <4>3. Lawful(records') /\ IsSequence(disk') /\ disk' = records'
                BY ONLY <2>3, <4>2, <4>1, <2>4
            <4>. QED
                BY ONLY <4>3 DEF StoreMatches
        <3>2. /\ answer' = [answer EXCEPT ![r] = "created"] /\ phase' = [phase EXCEPT ![r] = "settled"]
              /\ disk' = Append(disk, record)
            BY ONLY <2>5 DEF Settle
        <3>3. Holds(disk', <<t, p>>) /\ (\A operation : Holds(disk, operation) => Holds(disk', operation))
            BY ONLY <2>4, <3>2
        <3>4. ~ (Status("created") \in 400 .. 499)
            BY <1>3
        <3>. QED
            BY ONLY <3>1, <3>2, <3>3, <3>4, Zenon
    <2>6. CASE /\ failures > 0 /\ failures' = failures - 1
               /\ disk' \in {disk, Append(disk, record)}
               /\ doubt' = TRUE
               /\ Settle(r, "ALB_STORE_WRITE")
               /\ UNCHANGED records
        <3>1. disk' = disk \/ disk' = Append(disk, record)
            BY ONLY <2>6
        <3>2. IsSequence(disk') /\ \A operation : Holds(disk, operation) => Holds(disk', operation)
            BY ONLY <1>4, <2>4, <3>1
        <3>3. StoreMatches'
            BY ONLY <1>4, <2>6, <3>2 DEF StoreMatches
        <3>4. answer' = [answer EXCEPT ![r] = "ALB_STORE_WRITE"] /\ phase' = [phase EXCEPT ![r] = "settled"]
            BY ONLY <2>6 DEF Settle
        <3>5. ~ (Status("ALB_STORE_WRITE") \in 400 .. 499) /\ "ALB_STORE_WRITE" # "created"
            BY <1>3
        <3>. QED
            BY ONLY <3>2, <3>3, <3>4, <3>5, Zenon
    <2>. QED
        BY <2>1, <2>5, <2>6, Zenon DEF Persist
<1>6. CASE verdict # "ok"
    <2>1. PICK code : /\ code = (IF verdict = "replay" THEN "created" ELSE verdict)
                      /\ Settle(r, code) /\ UNCHANGED <<records, disk, doubt, failures>>
        BY <1>6, Zenon DEF Serve
    <2>2. /\ answer' = [answer EXCEPT ![r] = code] /\ phase' = [phase EXCEPT ![r] = "settled"]
          /\ records' = records /\ disk' = disk /\ doubt' = doubt
        BY ONLY <2>1 DEF Settle
    <2>3. StoreMatches'
        BY ONLY <2>2, StoreMatches DEF StoreMatches
    <2>4. ASSUME verdict = "replay" PROVE Holds(disk, <<t, p>>)
        <3>1. Filed(records) /\ stored = "replay" /\ disk = records
            BY <1>1, <1>4, <2>4, LawfulAgrees DEF Agrees
        <3>2. \E i \in 1 .. Len(records) : records[i].recordType = t /\ records[i].payload = p
            BY ONLY <1>2, <3>1, stored = StoreVerdict(records, t, p), ReplayIsStored
        <3>. QED
            BY ONLY <3>1, <3>2, Zenon DEF Holds
    <2>5. ASSUME Status(code) \in 400 .. 499, Holds(disk, <<t, p>>) PROVE FALSE
        <3>1. code # "created" /\ code # "ALB_STORE_WRITE" /\ code # "ALB_STORE_CLOSED"
            BY <1>3, <2>5
        <3>2. code = verdict /\ verdict # "replay"
            BY <2>1, <3>1
        <3>3. disk = records
            BY <1>1, <1>4, <3>1, <3>2
        <3>4. \E i \in 1 .. Len(records) : <<records[i].recordType, records[i].payload>> = <<t, p>>
            BY ONLY <2>5, <3>3, Zenon DEF Holds
        <3>5. PICK i \in 1 .. Len(records) : records[i].recordType = t /\ records[i].payload = p
            BY ONLY <3>4
        <3>6. StoreVerdict(records, records[i].recordType, records[i].payload) = "replay"
            BY ONLY <1>4, <3>5, StoredIsReplayed
        <3>7. stored = "replay"
            BY ONLY <3>5, <3>6, stored = StoreVerdict(records, t, p)
        <3>. QED
            BY ONLY <1>1, <3>1, <3>2, <3>7
    <2>6. code = "created" => verdict = "replay"
        BY <1>1, <2>1
    <2>. QED
        BY ONLY <2>2, <2>3, <2>4, <2>5, <2>6, Zenon
<1>. QED
    BY <1>5, <1>6

\* Any other step leaves the store, the file and what was answered before.
LEMMA AnswerKept ==
    ASSUME TypeOK, Answered, NEW r \in Requests, disk' = disk,
           \A q \in Requests : q # r => message'[q] = message[q],
           \/ answer' = answer /\ answer[r] # "created"
           \/ \E code : answer' = [answer EXCEPT ![r] = code] /\ code # "created"
    PROVE  Answered'
<1>1. DOMAIN answer' = Requests /\ answer'[r] # "created"
      /\ \A q \in Requests : q # r => answer'[q] = answer[q]
    BY DEF Answered
<1>2. ASSUME NEW q \in Requests, answer'[q] = "created" PROVE InFile(Submitted(q))'
    <2>1. q # r /\ answer[q] = "created" /\ message'[q] = message[q]
        BY <1>1, <1>2
    <2>2. InFile(Submitted(q))
        BY <2>1 DEF Answered, CreatedIsStored
    <2>. QED
        BY ONLY <2>1, <2>2, disk' = disk, Zenon DEF InFile, Submitted, RecordType
<1>. QED
    BY <1>1, <1>2, Zenon DEF Answered, CreatedIsStored

LEMMA AllAnswersKept ==
    ASSUME Answered, answer' = answer, message' = message, disk' = disk
    PROVE  Answered'
    BY DEF Answered, CreatedIsStored, InFile, Submitted, RecordType

\* A request that is not settled has no answer yet.
LEMMA Unanswered ==
    ASSUME TypeOK, NEW r \in Requests, phase[r] # "settled"
    PROVE  answer[r] # "created"
    BY ApiServerAssumption DEF TypeOK

LEMMA StoreKept ==
    ASSUME StoreMatches, UNCHANGED <<records, disk, doubt>>
    PROVE  StoreMatches'
    BY DEF StoreMatches

LEMMA AskedKept ==
    ASSUME TypeOK, Asked, NEW r \in Requests, phase[r] # "unsent", message' = message,
           phase' = phase \/ \E place : phase' = [phase EXCEPT ![r] = place]
    PROVE  Asked'
    BY DEF Asked, TypeOK

LEMMA ArriveAnswers ==
    ASSUME TypeOK, StoreMatches, Answered, Asked, NEW r \in Requests, NEW m \in Messages, Arrive(r, m)
    PROVE  StoreMatches' /\ Answered' /\ Asked'
<1>1. /\ phase[r] = "unsent" /\ message' = [message EXCEPT ![r] = m] /\ disk' = disk
      /\ UNCHANGED <<records, disk, doubt>> /\ Handled(r, m, RouteVerdict(m, activeRequests))
    BY DEF Arrive, store
<1>2. \A q \in Requests : q # r => message'[q] = message[q]
    BY <1>1 DEF TypeOK
<1>3. answer[r] # "created"
    BY <1>1, Unanswered
<1>4. RouteVerdict(m, activeRequests) # "created"
    BY ApiServerAssumption DEF RouteVerdict
<1>5. \/ answer' = answer
      \/ \E code : answer' = [answer EXCEPT ![r] = code] /\ code # "created"
    <2>. SUFFICES ASSUME NEW verdict, verdict # "created", Handled(r, m, verdict),
                         NEW read, read = ReadAnswer(m), read # "created"
                  PROVE  \/ answer' = answer
                         \/ \E code : answer' = [answer EXCEPT ![r] = code] /\ code # "created"
        BY <1>1, <1>4, ReadCodes
    <2>. QED
        BY DEF Handled, AnswerAtOnce, Admit
<1>6. Answered'
    BY <1>1, <1>2, <1>3, <1>5, AnswerKept
<1>7. Asked'
    <2>1. message'[r] = m /\ \A q \in Requests : q # r => phase'[q] = phase[q]
        BY <1>1 DEF TypeOK, Handled, AnswerAtOnce, Admit
    <2>. QED
        BY <1>2, <2>1, Zenon DEF Asked
<1>. QED
    BY <1>1, <1>6, <1>7, StoreKept

LEMMA ReadAnswers ==
    ASSUME TypeOK, StoreMatches, Answered, Asked, NEW r \in Requests,
           \/ \E n \in 1 .. MaxBodyBytes + 1 : onData(r, n)
           \/ onEnd(r) \/ BodyTimeout(r) \/ Work(r) \/ Disconnect(r)
    PROVE  StoreMatches' /\ Answered' /\ Asked'
<1>1. UNCHANGED <<records, disk, doubt>> /\ message' = message
    BY DEF onData, onEnd, BodyTimeout, Work, Disconnect, environment, store
<1>2. StoreMatches'
    BY <1>1, StoreKept
<1>3. ASSUME answer' = answer PROVE Answered'
    BY <1>1, <1>3, AllAnswersKept
<1>4. ASSUME NEW code, code # "created", Settle(r, code) PROVE Answered'
    BY <1>1, <1>4, AnswerKept DEF Settle
<1>5. ASSUME NEW n, onData(r, n) PROVE Answered'
    BY <1>3, <1>4, <1>5 DEF onData
<1>6. ASSUME BodyTimeout(r) \/ Disconnect(r) PROVE Answered'
    BY <1>3, <1>4, <1>6 DEF BodyTimeout, Disconnect, handlers
<1>7. ASSUME phase[r] # "unsent" /\ phase[r] # "settled", message[r] \in Messages
      PROVE  BodyVerdict(message[r]) # "created" /\ message[r].engine # "created"
    <2>1. message[r].fault # "created" /\ message[r].engine # "created"
        BY <1>7, ApiServerAssumption
    <2>. SUFFICES ASSUME NEW empty, NEW fault, fault # "created"
                  PROVE  Verdict(<< <<"ALB_JSON_INVALID", empty>>, Callee(fault) >>) # "created"
        BY <2>1, Zenon DEF BodyVerdict
    <2>. DEFINE checks == << <<"ALB_JSON_INVALID", empty>>, Callee(fault) >>
                codes  == {"ok", "ALB_JSON_INVALID", fault}
    <2>2. DOMAIN checks = {1, 2} /\ checks[1][1] = "ALB_JSON_INVALID" /\ checks[2][1] = fault
        BY DEF Callee
    <2>. HIDE DEF checks
    <2>3. "ok" \in codes /\ DOMAIN checks \subseteq Nat /\ \A n \in DOMAIN checks : checks[n][1] \in codes
        BY <2>2
    <2>4. Verdict(checks) \in codes
        BY <2>3, VerdictAmong
    <2>. QED
        BY <2>4 DEF checks
<1>8. ASSUME onEnd(r) \/ Work(r) PROVE Answered'
    <2>1. phase[r] \in {"reading", "working"}
        BY <1>8 DEF onEnd, Work, IsReading
    <2>2. message[r] \in Messages
        BY <2>1 DEF Asked
    <2>3. BodyVerdict(message[r]) # "created" /\ message[r].engine # "created"
        BY <1>7, <2>1, <2>2
    <2>. QED
        BY <1>3, <1>4, <1>8, <2>3 DEF onEnd, Work, Goto
<1>9. Asked'
    <2>1. CASE phase' = phase
        BY <1>1, <2>1 DEF Asked
    <2>2. CASE phase' # phase
        <3>1. phase[r] # "unsent" /\ \E place : phase' = [phase EXCEPT ![r] = place]
            BY <2>2 DEF onData, onEnd, BodyTimeout, Work, Disconnect, IsReading, Settle, Goto, handlers
        <3>. QED
            BY <1>1, <3>1, AskedKept
    <2>. QED
        BY <2>1, <2>2
<1>. QED
    BY <1>2, <1>5, <1>6, <1>8, <1>9

LEMMA ServeAnswers ==
    ASSUME TypeOK, WaitsOnce, StoreMatches, Answered, Asked, StoreServes
    PROVE  /\ StoreMatches' /\ Answered' /\ Asked'
           /\ \A r \in Requests :
                 (phase[r] = "store" /\ phase'[r] = "settled" /\ Status(answer'[r]) \in 400 .. 499)
                     => ~ InFile(Submitted(r))'
<1>1. PICK r \in Requests : r = Head(queue) /\ Serve(r, WriteVerdict(message[r])) /\ message' = message
    BY DEF StoreServes, surroundings
<1>2. PICK code : /\ answer' = [answer EXCEPT ![r] = code] /\ phase' = [phase EXCEPT ![r] = "settled"]
                  /\ code = "created" => Holds(disk', <<RecordType(message[r]), message[r].payload>>)
                  /\ Status(code) \in 400 .. 499
                        => ~ Holds(disk', <<RecordType(message[r]), message[r].payload>>)
    BY <1>1, ServedMatches
<1>3. StoreMatches' /\ \A operation : Holds(disk, operation) => Holds(disk', operation)
    BY <1>1, ServedMatches
<1>4. \A q \in Requests : Submitted(q)' = <<RecordType(message[q]), message[q].payload>>
    BY <1>1 DEF Submitted, RecordType
<1>5. \A q \in Requests : /\ InFile(Submitted(q))' <=> Holds(disk', <<RecordType(message[q]), message[q].payload>>)
                          /\ InFile(Submitted(q)) <=> Holds(disk, <<RecordType(message[q]), message[q].payload>>)
    BY <1>1, Zenon DEF InFile, Holds, Submitted, RecordType
<1>6. DOMAIN answer' = Requests /\ answer'[r] = code /\ \A q \in Requests : q # r => answer'[q] = answer[q]
    BY <1>2 DEF Answered
<1>7. phase'[r] = "settled" /\ \A q \in Requests : q # r => phase'[q] = phase[q]
    BY <1>2 DEF TypeOK
<1>8. Answered'
    <2>1. ASSUME NEW q \in Requests, answer'[q] = "created" PROVE InFile(Submitted(q))'
        <3>1. CASE q = r
            BY <1>2, <1>5, <1>6, <2>1, <3>1
        <3>2. CASE q # r
            <4>1. InFile(Submitted(q))
                BY <1>6, <2>1, <3>2 DEF Answered, CreatedIsStored
            <4>. QED
                BY ONLY <1>3, <1>5, <4>1, q \in Requests, Zenon
        <3>. QED
            BY <3>1, <3>2
    <2>. QED
        BY <1>6, <2>1, Zenon DEF Answered, CreatedIsStored
<1>9. Asked'
    <2>1. phase[r] # "unsent"
        BY <1>1 DEF WaitsOnce, StoreServes
    <2>. QED
        BY <1>1, <1>2, <2>1, AskedKept
<1>10. ASSUME NEW q \in Requests, phase[q] = "store", phase'[q] = "settled", Status(answer'[q]) \in 400 .. 499
       PROVE  ~ InFile(Submitted(q))'
    <2>1. q = r
        BY <1>7, <1>10
    <2>. QED
        BY <1>2, <1>5, <1>6, <1>10, <2>1
<1>. QED
    BY <1>3, <1>8, <1>9, <1>10

----------------------------------------------------------------------------
AInv == IInv /\ StoreMatches /\ Answered /\ Asked

RefusedStep ==
    \A r \in Requests :
        (phase[r] = "store" /\ phase'[r] = "settled" /\ Status(answer'[r]) \in 400 .. 499)
            => ~ InFile(Submitted(r))'

LEMMA AInvInit == Init => AInv
<1>. SUFFICES ASSUME Init PROVE AInv
    OBVIOUS
<1>1. IsSequence(<<>>)
    BY EmptySequence
<1>2. StoreMatches
    BY <1>1, LawfulEmpty DEF Init, StoreMatches
<1>3. Answered
    BY ApiServerAssumption DEF Init, Answered, CreatedIsStored
<1>. QED
    BY <1>2, <1>3, InvInit DEF AInv, Init, Asked

\* Only the store settles a request that waits for it.
LEMMA OthersSettleNothing ==
    ASSUME TypeOK, NEW r \in Requests, phase[r] # "store",
           phase' = phase \/ \E place : phase' = [phase EXCEPT ![r] = place]
    PROVE  RefusedStep
    BY DEF RefusedStep, TypeOK

LEMMA AInvStep == AInv /\ [Next]_vars => AInv' /\ RefusedStep
<1>. SUFFICES ASSUME AInv, [Next]_vars PROVE AInv' /\ RefusedStep
    OBVIOUS
<1>. USE DEF AInv
<1>1. IInv' /\ TypeOK /\ WaitsOnce
    BY InvStep DEF IInv
<1>2. ASSUME NEW r \in Requests, NEW m \in Messages, Arrive(r, m)
      PROVE  AInv' /\ RefusedStep
    <2>1. StoreMatches' /\ Answered' /\ Asked'
        BY <1>1, <1>2, ArriveAnswers
    <2>2. phase[r] # "store" /\ (phase' = phase \/ \E place : phase' = [phase EXCEPT ![r] = place])
        BY <1>2 DEF Arrive, Handled, AnswerAtOnce, Admit
    <2>. QED
        BY <1>1, <2>1, <2>2, OthersSettleNothing
<1>3. ASSUME NEW r \in Requests,
             \/ \E n \in 1 .. MaxBodyBytes + 1 : onData(r, n)
             \/ onEnd(r) \/ BodyTimeout(r) \/ Work(r) \/ Disconnect(r)
      PROVE  AInv' /\ RefusedStep
    <2>1. StoreMatches' /\ Answered' /\ Asked'
        BY <1>1, <1>3, ReadAnswers
    <2>2. CASE phase' = phase
        BY <1>1, <2>1, <2>2 DEF RefusedStep
    <2>3. CASE phase' # phase
        <3>1. phase[r] # "store" /\ \E place : phase' = [phase EXCEPT ![r] = place]
            BY <1>3, <2>3 DEF onData, onEnd, BodyTimeout, Work, Disconnect, IsReading, Settle, Goto, handlers
        <3>. QED
            BY <1>1, <2>1, <3>1, OthersSettleNothing
    <2>. QED
        BY <2>2, <2>3
<1>4. CASE StoreServes
    BY <1>1, <1>4, ServeAnswers DEF RefusedStep
<1>5. ASSUME UNCHANGED rest PROVE AInv' /\ RefusedStep
    <2>1. UNCHANGED <<message, phase, answer, records, disk, doubt>>
        BY <1>5 DEF rest
    <2>2. StoreMatches' /\ Answered' /\ Asked'
        BY <2>1, StoreKept, AllAnswersKept DEF Asked
    <2>. QED
        BY <1>1, <2>1, <2>2 DEF RefusedStep
<1>6. CASE Stopping \/ Exit \/ (\E s \in Signals : Signal(s) \/ SignalAgain(s)) \/ UNCHANGED vars
    <2>1. UNCHANGED rest
        BY <1>6 DEF Stopping, ConnectionsEnded, StoreDrained, Unlink, Exit, Signal, SignalAgain, vars, rest
    <2>. QED
        BY <1>5, <2>1
<1>. QED
    BY <1>2, <1>3, <1>4, <1>6 DEF Next, Clients, Handlers

\* Whatever fails and whoever goes away, a client that was told 201 finds its
\* decision or event in the file.
THEOREM CreatedStaysStored == Spec => []CreatedIsStored
<1>1. AInv => CreatedIsStored
    BY DEF AInv, Answered
<1>. QED
    BY <1>1, AInvInit, AInvStep, PTL DEF Spec

\* A client error is never the answer to a write that is in the file.
THEOREM RefusalIsFinal == Spec => RefusedIsNotStored
<1>1. Spec => []AInv
    BY AInvInit, AInvStep, PTL DEF Spec
<1>2. AInv /\ [Next]_vars => [RefusedStep]_vars
    BY AInvStep
<1>. QED
    BY <1>1, <1>2, PTL DEF Spec, RefusedIsNotStored, RefusedStep
=============================================================================
