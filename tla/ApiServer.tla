----------------------------- MODULE ApiServer -----------------------------
(***************************************************************************)
(* The loopback HTTP service of src/api.ts over the persistent store, and    *)
(* its stop by a signal (`serve' in src/cli.ts): requests are admitted to a   *)
(* limited number of slots, read their body against a size limit and a        *)
(* timeout, wait for the engine and the store, and are answered; clients      *)
(* stall or go away; close() waits for the connections, then for the store.   *)
(*                                                                          *)
(* The store is the one of JsonlStore with each operation on it one step: its *)
(* guards, a write that succeeds, or one that fails with the record in the    *)
(* file or not.  A request is answered in the step that settles what its       *)
(* handler awaits: nothing but promise callbacks lies between.  listen() is    *)
(* over when a process of this model starts: with the IP literal the server    *)
(* insists on, it binds before the event loop polls for anything else.          *)
(***************************************************************************)
EXTENDS StoreRecords, FiniteSets

CONSTANTS Requests,          \* identities of requests, each sent at most once
          Messages,          \* what a request may be
          MaxConcurrent,     \* limits.maxConcurrentRequests
          MaxBodyBytes,      \* limits.maxBodyBytes
          MaxRecords,        \* the store's own record limit
          MaxWriteFailures   \* bound on failing appends and flushes

Signals == {"SIGINT", "SIGTERM"}

ASSUME ApiServerAssumption ==
    /\ IsFiniteSet(Requests)
    /\ MaxConcurrent \in Nat \ {0} /\ MaxBodyBytes \in Nat \ {0}
    /\ MaxWriteFailures \in Nat
    /\ Requests \cap Signals = {}
    /\ None # "created"
    /\ \A m \in Messages : m.size \in Nat /\ "created" \notin {m.head, m.fault, m.engine}

VARIABLES process,         \* "up", "exited", or "killed"
          listening,       \* server.listening
          activeRequests,  \* the counter the admission looks at
          message,         \* what each request asks
          phase,           \* where its handler is
          connected,       \* requests whose connection is open
          received,        \* bytes of its body in chunks
          answer,          \* "ok", "created", or the code of the problem sent
          queue,           \* the writer chain: requests, and the closing call of a signal
          records, disk,   \* the records in memory and in the file
          doubt,           \* appendStateUncertain
          storeClosed,     \* the store's closed flag
          lock,            \* the lock file exists
          closing,         \* where the close() a signal called is
          failures         \* failing writes left

vars == <<process, listening, activeRequests, message, phase, connected, received, answer,
          queue, records, disk, doubt, storeClosed, lock, closing, failures>>

handlers == <<activeRequests, phase, received, answer>>
store    == <<records, disk, doubt, storeClosed, lock>>

----------------------------------------------------------------------------
(* A message is [local, route, head, declared, size, fault, engine, payload]: *)
(* whether peer, Host and Origin are this service's, the operation it names,    *)
(* what is wrong with its URL, method or headers, the length it declares if     *)
(* any, the bytes the client will send, what is wrong with the body once it is  *)
(* read (JSON, shape, schema, binding), how the engine judges it, and the       *)
(* decision, event or identifier it carries.  "ok" is: nothing wrong.           *)
Reads     == {"GET /readyz", "GET /v1/decisions/{id}", "GET /v1/appeals/{id}"}
Computes  == {"POST /v1/verify", "POST /v1/simulations", "POST /v1/evaluations"}
Appends   == {"POST /v1/appeals", "POST /v1/appeals/{id}/events"}
Writes    == Appends \cup {"POST /v1/evaluations"}
WithBody  == Computes \cup Appends
GetRoutes == Reads \cup {"GET /healthz", "GET /openapi.json"}

PlatformStatus ==
    [ALB_HOST_FORBIDDEN |-> 403, ALB_CONCURRENCY_LIMIT |-> 503, ALB_QUERY_UNSUPPORTED |-> 400,
     ALB_METHOD_NOT_ALLOWED |-> 405, ALB_ROUTE_NOT_FOUND |-> 404, ALB_PATH_INVALID |-> 400,
     ALB_MEDIA_TYPE |-> 415, ALB_CONTENT_ENCODING |-> 415, ALB_CONTENT_LENGTH |-> 400,
     ALB_BODY_LIMIT |-> 413, ALB_BODY_ABORTED |-> 400, ALB_BODY_TIMEOUT |-> 408,
     ALB_JSON_INVALID |-> 400, ALB_JSON_LIMIT |-> 413, ALB_BODY_SHAPE |-> 422,
     ALB_SCHEMA_INVALID |-> 422, ALB_SCENARIO_INVALID |-> 422, ALB_APPEAL_BINDING |-> 422,
     ALB_OPENAPI_UNAVAILABLE |-> 503, ALB_DECISION_NOT_FOUND |-> 404, ALB_APPEAL_NOT_FOUND |-> 404]

StoreConflicts ==
    {"ALB_STORE_CONFLICT", "ALB_STORE_SUPERSESSION", "ALB_APPEAL_EVENT_CAP", "ALB_APPEAL_CONFLICT",
     "ALB_APPEAL_FORK", "ALB_APPEAL_DUPLICATE", "ALB_APPEAL_SEQUENCE", "ALB_APPEAL_TERMINAL",
     "ALB_APPEAL_SUPERSESSION"}

StoreUnavailable == {"ALB_STORE_CLOSED", "ALB_STORE_WRITE"}

\* Mutant: every error of the store is the client's.
ErrorMappingClient(code) ==
    IF code = "ALB_STORE_DECISION_NOT_FOUND" THEN 404
    ELSE IF code \in StoreConflicts THEN 409
    ELSE IF code = "ALB_STORE_LIMIT" THEN 413
    ELSE 422

(* errorMapping of the code of an error that is not a PlatformError.          *)
errorMapping(code) ==
    IF code = "ALB_STORE_DECISION_NOT_FOUND" THEN 404
    ELSE IF code \in StoreConflicts THEN 409
    ELSE IF code = "ALB_STORE_LIMIT" THEN 413
    ELSE IF code \in StoreUnavailable THEN 503
    ELSE 422

Status(code) ==
    IF code = "ok" THEN 200
    ELSE IF code = "created" THEN 201
    ELSE IF code = "not_ready" THEN 503
    ELSE IF code \in DOMAIN PlatformStatus THEN PlatformStatus[code]
    ELSE errorMapping(code)

(* Admission and routing, up to the handler's first await: "ok", or the       *)
(* problem answered at once.                                                 *)
RouteVerdict(m, active) ==
    IF ~m.local THEN "ALB_HOST_FORBIDDEN"
    ELSE IF active >= MaxConcurrent THEN "ALB_CONCURRENCY_LIMIT"
    ELSE IF m.route \in WithBody /\ m.head = "ok" /\ m.declared # None /\ m.declared > MaxBodyBytes
    THEN "ALB_BODY_LIMIT"
    ELSE m.head

ensureOpen ==
    Verdict(<< <<"ALB_STORE_CLOSED", storeClosed>>, <<"ALB_STORE_WRITE", doubt>> >>)

(* The reads of the store: verifyChain, getDecision, getAppeal.               *)
ReadAnswer(m) ==
    Verdict(<<
        Callee(ensureOpen),
        <<"not_ready",              m.route = "GET /readyz" /\ ~verifyStoreRecords(records, {}).valid>>,
        <<"ALB_DECISION_NOT_FOUND", /\ m.route = "GET /v1/decisions/{id}"
                                    /\ \A d \in DecisionsOf(records) : d.artifactId # m.payload>>,
        <<"ALB_APPEAL_NOT_FOUND",   /\ m.route = "GET /v1/appeals/{id}"
                                    /\ m.payload \notin AppealIdsOf(records)>> >>)

Running == {r \in Requests : phase[r] \in {"reading", "working", "store"}}

----------------------------------------------------------------------------
Init ==
    /\ process = "up" /\ listening = TRUE
    /\ activeRequests = 0
    /\ message = [r \in Requests |-> None]
    /\ phase = [r \in Requests |-> "unsent"]
    /\ connected = {}
    /\ received = [r \in Requests |-> 0]
    /\ answer = [r \in Requests |-> None]
    /\ queue = <<>>
    /\ records = <<>> /\ disk = <<>>
    /\ doubt = FALSE /\ storeClosed = FALSE /\ lock = TRUE
    /\ closing = [s \in Signals |-> "no"]
    /\ failures = MaxWriteFailures

\* Mutant: a handler that throws keeps its slot.
SettleKeepingSlot(r, code) ==
    /\ answer' = [answer EXCEPT ![r] = code]
    /\ phase' = [phase EXCEPT ![r] = "settled"]
    /\ received' = [received EXCEPT ![r] = 0]
    /\ activeRequests' = IF code \in {"ok", "created"} THEN activeRequests - 1 ELSE activeRequests

(* The handler of r ends: an answer or, from the catch, a problem; the body    *)
(* buffer goes and the slot is given back.                                    *)
Settle(r, code) ==
    /\ answer' = [answer EXCEPT ![r] = code]
    /\ phase' = [phase EXCEPT ![r] = "settled"]
    /\ received' = [received EXCEPT ![r] = 0]
    /\ activeRequests' = activeRequests - 1

Goto(r, p) ==
    /\ phase' = [phase EXCEPT ![r] = p]
    /\ UNCHANGED <<activeRequests, answer>>

\* Connections kept alive by clients whose request was answered.
KeptAlive == {k \in connected : phase[k] = "settled"}

\* The connection r comes over: a new one, while the server listens, or a kept one.
Connect(r) ==
    \/ listening /\ connected' = connected \cup {r}
    \/ \E k \in KeptAlive : connected' = (connected \ {k}) \cup {r}

\* Answered before the first await: no slot is taken, or it is given back at once.
AnswerAtOnce(r, code) ==
    /\ answer' = [answer EXCEPT ![r] = code]
    /\ phase' = [phase EXCEPT ![r] = "settled"]
    /\ UNCHANGED <<activeRequests, received>>

Admit(r, p) ==
    /\ activeRequests' = activeRequests + 1
    /\ phase' = [phase EXCEPT ![r] = p]
    /\ UNCHANGED <<received, answer>>

(* A request arrives and its handler runs to its first await.                *)
Handled(r, m, verdict) ==
    IF verdict # "ok" THEN AnswerAtOnce(r, verdict)
    ELSE IF m.route \in WithBody THEN Admit(r, "reading")
    ELSE IF m.route = "GET /openapi.json" THEN Admit(r, "working")
    ELSE AnswerAtOnce(r, IF m.route \in Reads THEN ReadAnswer(m) ELSE "ok")

Arrive(r, m) ==
    /\ process = "up"
    /\ phase[r] = "unsent"
    /\ Connect(r)
    /\ message' = [message EXCEPT ![r] = m]
    /\ Handled(r, m, RouteVerdict(m, activeRequests))
    /\ UNCHANGED <<process, listening, queue, store, closing, failures>>

----------------------------------------------------------------------------
(* readJsonBody: data, end, aborted (or error) and the timeout, whichever       *)
(* settles the promise first; the listeners are gone with it.                  *)
environment == <<process, listening, message, store, closing, failures>>

IsReading(r) == process = "up" /\ phase[r] = "reading"

\* Mutant: the chunk is kept before the total is looked at.
OnDataKept(r, n) ==
    /\ IsReading(r) /\ r \in connected
    /\ received[r] + n <= message[r].size
    /\ received' = [received EXCEPT ![r] = @ + n]
    /\ UNCHANGED <<activeRequests, phase, answer, connected, queue, environment>>

onData(r, n) ==
    /\ IsReading(r) /\ r \in connected
    /\ received[r] + n <= message[r].size
    /\ IF received[r] + n > MaxBodyBytes
       THEN Settle(r, "ALB_BODY_LIMIT")
       ELSE /\ received' = [received EXCEPT ![r] = @ + n]
            /\ UNCHANGED <<activeRequests, phase, answer>>
    /\ UNCHANGED <<connected, queue, environment>>

BodyVerdict(m) == Verdict(<< <<"ALB_JSON_INVALID", m.size = 0>>, Callee(m.fault) >>)

(* The body is complete, is parsed, and goes to the engine or to the store.   *)
onEnd(r) ==
    /\ IsReading(r) /\ r \in connected
    /\ received[r] = message[r].size
    /\ IF BodyVerdict(message[r]) # "ok"
       THEN Settle(r, BodyVerdict(message[r])) /\ UNCHANGED queue
       ELSE /\ received' = [received EXCEPT ![r] = 0]
            /\ IF message[r].route \in Appends
               THEN Goto(r, "store") /\ queue' = Append(queue, r)
               ELSE Goto(r, "working") /\ UNCHANGED queue
    /\ UNCHANGED <<connected, environment>>

\* Mutant: the timeout is cleared by the first chunk.
BodyTimeoutOnce(r) ==
    /\ IsReading(r) /\ received[r] = 0
    /\ Settle(r, "ALB_BODY_TIMEOUT")
    /\ UNCHANGED <<connected, queue, environment>>

BodyTimeout(r) ==
    /\ IsReading(r)
    /\ Settle(r, "ALB_BODY_TIMEOUT")
    /\ UNCHANGED <<connected, queue, environment>>

(* The client goes away: a body being read is aborted; a handler past its body *)
(* runs on and answers nobody.                                                *)
Disconnect(r) ==
    /\ process = "up"
    /\ r \in connected
    /\ connected' = connected \ {r}
    /\ IF phase[r] = "reading" THEN Settle(r, "ALB_BODY_ABORTED") ELSE UNCHANGED handlers
    /\ UNCHANGED <<queue, environment>>

\* A connection without a request ends by its keep-alive timeout at the latest.
KeepAliveTimeout(r) == phase[r] = "settled" /\ Disconnect(r)

(* The engine, the simulator or the OpenAPI file answers; an evaluation that   *)
(* succeeded goes on to putDecision.                                          *)
Work(r) ==
    /\ process = "up" /\ phase[r] = "working"
    /\ IF message[r].engine # "ok"
       THEN Settle(r, message[r].engine) /\ UNCHANGED queue
       ELSE IF message[r].route \in Writes
       THEN Goto(r, "store") /\ queue' = Append(queue, r) /\ UNCHANGED received
       ELSE Settle(r, "ok") /\ UNCHANGED queue
    /\ UNCHANGED <<connected, environment>>

----------------------------------------------------------------------------
(* The operation at the head of the writer chain.                            *)
RecordType(m) == IF m.route \in Appends THEN "appeal_event" ELSE "decision"

WriteVerdict(m) ==
    Verdict(<<
        Callee(ensureOpen),
        Callee(StoreVerdict(records, RecordType(m), m.payload)),
        <<"ALB_STORE_LIMIT", Len(records) + 1 > MaxRecords>> >>)

surroundings == <<process, listening, message, connected, storeClosed, lock, closing>>

\* Mutant: the answer does not wait for the flush.
PersistAnsweredEarly(r, record) ==
    \/ /\ records' = Append(records, record) /\ disk' = Append(disk, record)
       /\ Settle(r, "created")
       /\ UNCHANGED <<doubt, failures>>
    \/ /\ failures > 0 /\ failures' = failures - 1
       /\ disk' \in {disk, Append(disk, record)}
       /\ doubt' = TRUE
       /\ Settle(r, "created")
       /\ UNCHANGED records

(* persist and indexRecord, or a write that fails with the record in the file  *)
(* or not.                                                                    *)
Persist(r, record) ==
    \/ /\ records' = Append(records, record) /\ disk' = Append(disk, record)
       /\ Settle(r, "created")
       /\ UNCHANGED <<doubt, failures>>
    \/ /\ failures > 0 /\ failures' = failures - 1
       /\ disk' \in {disk, Append(disk, record)}
       /\ doubt' = TRUE
       /\ Settle(r, "ALB_STORE_WRITE")
       /\ UNCHANGED records

Serve(r, verdict) ==
    IF verdict = "ok"
    THEN Persist(r, nextRecord(records, RecordType(message[r]), message[r].payload))
    ELSE /\ Settle(r, IF verdict = "replay" THEN "created" ELSE verdict)
         /\ UNCHANGED <<records, disk, doubt, failures>>

StoreServes ==
    /\ process = "up"
    /\ queue # <<>> /\ Head(queue) \in Requests
    /\ Serve(Head(queue), WriteVerdict(message[Head(queue)]))
    /\ queue' = Tail(queue)
    /\ UNCHANGED surroundings

----------------------------------------------------------------------------
(* Stopping.  The handler of each signal runs once and calls close(): the      *)
(* server stops listening and waits for its connections, or, when it no longer  *)
(* listens, goes to store.close() at once.                                     *)
rest == <<activeRequests, message, phase, connected, received, answer, records, disk, doubt, failures>>

\* store.close(): over if the store is closed, else a place in the writer chain.
CloseStore(s) ==
    IF storeClosed
    THEN closing' = [closing EXCEPT ![s] = "done"] /\ UNCHANGED queue
    ELSE closing' = [closing EXCEPT ![s] = "store"] /\ queue' = Append(queue, s)

\* Mutant: the store is closed without waiting for the connections.
SignalCloses(s) ==
    /\ process = "up"
    /\ closing[s] = "no"
    /\ listening' = FALSE
    /\ CloseStore(s)
    /\ UNCHANGED <<rest, process, storeClosed, lock>>

Signal(s) ==
    /\ process = "up"
    /\ closing[s] = "no"
    /\ listening' = FALSE
    /\ IF listening
       THEN closing' = [closing EXCEPT ![s] = "connections"] /\ UNCHANGED queue
       ELSE CloseStore(s)
    /\ UNCHANGED <<rest, process, storeClosed, lock>>

(* A signal whose handler ran before: the default, which ends the process.     *)
SignalAgain(s) ==
    /\ process = "up"
    /\ closing[s] # "no"
    /\ process' = "killed"
    /\ UNCHANGED <<rest, queue, listening, storeClosed, lock, closing>>

\* The callback of server.close().
ConnectionsEnded(s) ==
    /\ process = "up"
    /\ closing[s] = "connections"
    /\ connected = {}
    /\ CloseStore(s)
    /\ UNCHANGED <<rest, process, listening, storeClosed, lock>>

\* The operations queued before the close are done.
StoreDrained(s) ==
    /\ process = "up"
    /\ closing[s] = "store" /\ queue # <<>> /\ Head(queue) = s
    /\ storeClosed' = TRUE
    /\ queue' = Tail(queue)
    /\ closing' = [closing EXCEPT ![s] = "unlink"]
    /\ UNCHANGED <<rest, process, listening, lock>>

\* Mutant: the lock is left to the next start.
UnlinkLeft(s) ==
    /\ process = "up"
    /\ closing[s] = "unlink"
    /\ closing' = [closing EXCEPT ![s] = "done"]
    /\ UNCHANGED <<rest, process, listening, queue, storeClosed, lock>>

\* The handles are closed and the lock file is removed.
Unlink(s) ==
    /\ process = "up"
    /\ closing[s] = "unlink"
    /\ lock' = FALSE
    /\ closing' = [closing EXCEPT ![s] = "done"]
    /\ UNCHANGED <<rest, process, listening, queue, storeClosed>>

\* Nothing keeps the event loop alive any more.
Exit ==
    /\ process = "up"
    /\ ~listening /\ connected = {} /\ Running = {}
    /\ \A s \in Signals : closing[s] \in {"no", "done"}
    /\ process' = "exited"
    /\ UNCHANGED <<rest, queue, listening, storeClosed, lock, closing>>

----------------------------------------------------------------------------
Handlers ==
    \/ \E r \in Requests : \/ \E n \in 1 .. MaxBodyBytes + 1 : onData(r, n)
                           \/ onEnd(r) \/ BodyTimeout(r) \/ Work(r)
    \/ StoreServes

Stopping == \E s \in Signals : ConnectionsEnded(s) \/ StoreDrained(s) \/ Unlink(s)

Clients == \E r \in Requests : \/ \E m \in Messages : Arrive(r, m)
                               \/ Disconnect(r)

Next ==
    \/ Clients \/ Handlers \/ Stopping \/ Exit
    \/ \E s \in Signals : Signal(s) \/ SignalAgain(s)

Spec == Init /\ [][Next]_vars

(* Timers fire, the engine and the store answer, callbacks run.  No client has *)
(* to send, to finish its body or to stay, and no signal has to come.          *)
Fairness ==
    /\ \A r \in Requests : /\ WF_vars(BodyTimeout(r))
                           /\ WF_vars(Work(r))
                           /\ WF_vars(KeepAliveTimeout(r))
    /\ WF_vars(StoreServes)
    /\ \A s \in Signals : WF_vars(ConnectionsEnded(s) \/ StoreDrained(s) \/ Unlink(s))
    /\ WF_vars(Exit)

FairSpec == Spec /\ Fairness

----------------------------------------------------------------------------
\* The variables hold what their comments say; the body of a request is in
\* memory only while it is read.
TypeOK ==
    /\ process \in {"up", "exited", "killed"}
    /\ {listening, doubt, storeClosed, lock} \subseteq BOOLEAN
    /\ activeRequests \in Nat
    /\ message \in [Requests -> Messages \cup {None}]
    /\ phase \in [Requests -> {"unsent", "reading", "working", "store", "settled"}]
    /\ connected \subseteq Requests
    /\ received \in [Requests -> Nat]
    /\ \A r \in Requests : received[r] > 0 => phase[r] = "reading"
    /\ \A r \in Requests : answer[r] # None => phase[r] = "settled"
    /\ closing \in [Signals -> {"no", "connections", "store", "unlink", "done"}]
    /\ failures \in Nat

\* The counter admission looks at is the number of handlers that run, which
\* the limit bounds: no path through a handler keeps a slot or gives back two.
SlotsAccounted ==
    /\ activeRequests = Cardinality(Running)
    /\ activeRequests <= MaxConcurrent

\* However many clients send however large bodies and stall, at most
\* MaxConcurrent buffers of at most MaxBodyBytes each are held.
BuffersBounded ==
    /\ \A r \in Requests : received[r] <= MaxBodyBytes
    /\ Cardinality({r \in Requests : received[r] > 0}) <= MaxConcurrent

Submitted(r) == <<RecordType(message[r]), message[r].payload>>

InFile(operation) ==
    \E i \in 1 .. Len(disk) : <<disk[i].recordType, disk[i].payload>> = operation

\* A client told 201 finds its decision or event in the file whatever happens.
CreatedIsStored == \A r \in Requests : answer[r] = "created" => InFile(Submitted(r))

\* A write answered with a client error is not in the file when it is answered:
\* only a 5xx leaves open whether it was stored.
RefusedIsNotStored ==
    [][\A r \in Requests :
           (phase[r] = "store" /\ phase'[r] = "settled" /\ Status(answer'[r]) \in 400 .. 499)
               => ~InFile(Submitted(r))']_vars

\* As long as one signal at most has come, the store closes only when no
\* client is connected: none of those admitted is told ALB_STORE_CLOSED.
StopsGracefully ==
    (storeClosed /\ \E s \in Signals : closing[s] = "no") => connected = {}

\* Every request admitted is answered, whatever its client does, unless the
\* process is terminated.
EveryoneAnswered ==
    \A r \in Requests : r \in Running ~> (phase[r] = "settled" \/ process = "killed")

\* A signal ends the process, without the lock unless a second one kills it.
StopEnds ==
    \A s \in Signals : closing[s] # "no" ~> (process = "killed" \/ (process = "exited" /\ ~lock))
=============================================================================
