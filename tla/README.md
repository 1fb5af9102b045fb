# A verification of MandateBound in TLA+

MandateBound (`src/src/*.ts`) decides, from signed evidence about a mandated
agent transaction, which party a private rulebook holds liable, and keeps the
decisions and the appeals against them in an append-only store. This directory
models the parts of it that are hard to test, checks them with TLC and proves
the results that matter most with TLAPS. Paths below are relative to the
repository's root (`src/` in `PROJECT.json`).

## The system

| Part | State | Operations | What is hard |
|---|---|---|---|
| Decision and appeal store (`src/store.ts`) | records, their indexes, the writer promise, the data file, the lock file | `open`, `putDecision`, `appendAppeal`, reads, `close` | callers interleave around three awaits; kills, short writes and failing flushes; a lock without an owner |
| Appeal histories (`src/appeals.ts`) | none (pure) | `replayAppealEvents`, `assertAppealAppendable` | two judges of one history |
| Store audit (`src/store-audit.ts`) | what it has read so far | stat, reads, second stat, verdict | reads beside a live writer, without the lock |
| HTTP API (`src/api.ts`) | `activeRequests`, the boundary, sockets | eight routes, `listen`, `close` | body against timer, evaluation before the write, shutdown under load |
| Policy rulebooks (`src/policy.ts`, `src/policy-tools.ts`) | none (pure) | `validateRulebook`, `evaluateRulebook`, lint, diff | order of rules, bounds |
| Liability engine (`src/engine.ts`) | none (pure) | `evaluateCase` | evidence to facts to outcome; the guard over any rulebook |
| Trust snapshots (`src/trust.ts`) | none (pure) | `verifyPinnedTrustSnapshot`, `resolveTrustedKey` | windows and revocation at their boundaries |
| Evidence bundles (`src/bundle.ts`) | none (pure) | create, verify, rebuild the case | closure of the object set, Merkle root |
| CasePacks (`src/casepack/`) | none (pure); around it, what sources recorded and signed, and the pack on its way | seal, verify, compare | sources that equivocate, carriers that seal again, statuses that combine, inclusion in a checkpoint's tree |
| UCP and AP2 (`src/ucp-ap2/`) | none (pure) | mandate chains, constraints, receipts, lifecycle | withheld disclosures, binding from hop to hop, inherited constraints, flow over line items |
| AP2 dispute evidence (`src/ap2-dispute.ts`) | retrievals in progress; the pack and the digest a reviewer retains | resolve, assemble, pack, verify, reconcile | retrievers in any order, or never; sources that differ; packs changed on the way |
| Operator views, command line, simulator, primitives | none | | derived views, dispatch, encodings |

The command line and the API call the engine and put its decision into the
store; appeals come in as events. Callers share one store object: its writer
promise runs their operations one after the other. Processes share the data
file through the lock file next to it. Everything else is a pure function of
its input. `PROJECT.json` lists every part and, under "hazards", what in each
is hard to test, line by line.

What makes each part correct: the *store* keeps what it acknowledged, never
changes or loses a line, opens again on whatever it left, and lets one process
write at a time; a *history* it accepts obeys the rules of appeals and is the
only one its records can tell; the *API* answers every request once, with 201
only for what is stored; a *rulebook* cannot blame a party the facts do not
support, nor the *engine* anyone on evidence it rejected; a *bundle* or
*CasePack* that verifies rests on what its sources signed; a *mandate chain* that
verifies grants no more than every one of its hops, shown or withheld; a
*dispute* is verified only when all its evidence is about one transaction; an
*audit* reports a file that once existed.

## Modules

| Module | Models | Correspondence |
|---|---|---|
| `Appeals` | `src/appeals.ts` | operators of the same names; an error is the code it carries, `ok` its absence |
| `StoreRecords` | guards, indexes and verifier of `src/store.ts` | `PutVerdict`, `AppealVerdict` are what `putDecision` and `appendAppeal` do before `persist`; `verifyStoreRecords` is the loop of that name as a fold |
| `RecordLog` | every history the guards admit | one action per accepted call |
| `AppealLifecycle` | the promise: decisions and appeals, no records | abstract specification, implemented by `JsonlStore` |
| `JsonlStore` | `MemoryStore` and `JsonlStore` with callers, faults and restarts | below |
| `StoreLock` | the lock protocol of several processes on one file | one action per system call of `open` and `close` |
| `ApiServer` | `src/api.ts` over the store, and the stop by signals in `src/cli.ts` | below |
| `StoreAudit` | `src/store-audit.ts` beside `JsonlStore` | below |
| `PolicyFacts`, `Rulebook` | `src/policy.ts` | operators of the same names; `WellFormed` is the recursion of `validateCondition` |
| `Engine` | `src/engine.ts`, and of `src/bundle.ts` what a case and its bundle have to do with each other | below |
| `JwtTerms`, `Jose` | `src/ucp-ap2/jwt-parse.ts`, `primitives.ts`; `jwk.ts` and the time claims | tokens and JSON as terms; operators of the same names; below |
| `LineItems`, `MandateConstraints`, `MandateChain` | `src/ucp-ap2/mandate-verify.ts`, `mandate-chain.ts`, `profile.ts` | operators of the same names |
| `SdJwt`, `BoundedFlow` | their recursive parts: `resolveAp2SegmentClaims`, `canonicalize`, `boundedMaxFlow` | operators of the same names; constants `Resolve`, `Canonical` and `MaxFlow` of the modules above |
| `Receipts` | `src/ucp-ap2/receipt.ts`, `checkout-jwt.ts` | operators of the same names |
| `DisputeEvidence`, `DisputePack` | `src/ap2-dispute.ts`: retrieval and assembly; packs, their verification and reconciliation | below |
| `DisputeProperties`, `SignedTerms` | what a verified dispute means, read from the tokens as they were signed; what a segment was signed with | |
| `CasePack` | `src/casepack/primitives.ts`, `seal.ts`, `validate.ts`, `verify.ts`, and the comparison in `src/casepack-tools.ts` | operators of the same names |
| `CasePackFlow` | sources, collector, carrier and caller around it | below |
| `StoreUniverse` | small decisions and events for TLC | |
| `MCRecordLog`, `MCJsonlStore`, `MCStoreLock`, `MCStoreAudit`, `MCApiServer`, `MCEngine`, `MCDispute`, `MCCasePack` | values of the constants | |
| `StoreRecordsProofs`, `RecordLogProofs`, `JsonlStoreProofs`, `StoreLockProofs`, `ApiServerProofs`, `EngineProofs`, `CasePackProofs`, `DisputeProofs` | theorems, each about the module it is named for | the first holds the lemmas about guards and verifier that the next two and `ApiServerProofs` use; `JsonlStoreProofs` is about `StoreAudit` too, `DisputeProofs` about `DisputeProperties` and all it extends |

**JsonlStore.** A step is what runs between two awaits. `enqueue` is the call
of `putDecision` or `appendAppeal`: it joins `queue`, the writer promise chain,
and the operation at the head runs: its guards (`Refuse`, `Replay`, or `Begin`
with the new record in `pending`), then `persist` await by await
(`StatWithinLimits`, `AppendFile`, `Sync`, each with its failure), then
`indexRecord` and the answer. `close` takes a place in the queue, `Drained` is
`await this.writer` coming back, `Release` the rest of it. The file is a
sequence of lines and whether it ends in a newline, which is all that the
separator logic and the strict parser can tell apart; a line that does not
parse is `Garbage`. `CutShort` is what an interrupted write leaves, `Survivors`
what a loss of power leaves of the unflushed tail. `Open` is taken on a file
that `OpenVerdict` accepts; a refused open changes nothing. Reads answer from
memory at one instant and change nothing; they are covered by
`MemoryMatchesFile`. Canonical JSON and SHA-256 are injective (`Sha256` is a
tagged value), and the byte limits of file and line are one limit on records
and a set of oversized payloads.

**StoreLock.** The file is reduced to the number of its records, so that
several stores fit. `closing` follows each call of `close()` through its
awaits. `Overlap` says whether a call may start while another one still drains
the writer: the code has no protection against it, the proofs assume it away
and `StoreLockOverlap` shows why they must.

**StoreAudit.** The audit takes no lock, so its steps come between any two steps
of `JsonlStore`: `BeginAudit` is the open and the first stat, `ReadChunk` one
`read` of any length into a buffer with room for one byte more than the stat
announced, `EndAudit` the second stat and the verdict. The file is read by
pieces, the text of a line and its newline, so that a read can end between the
two. Modification times are left out: a writer that only appends changes the
size whenever it changes the file.

**ApiServer.** `Arrive` is `handle` up to its first await: the checks of peer,
Host and Origin, the limit on `activeRequests`, routing, the headers of a body,
and for the routes that read, the whole answer. `onData`, `onEnd`,
`BodyTimeout` and the reading case of `Disconnect` are the callbacks of
`readJsonBody`, whichever settles its promise first; `Work` is the engine, the
simulator or the OpenAPI file, whose answer is a field of the message;
`StoreServes` is one operation of the store, which is `JsonlStore` with its
three awaits taken together: `JsonlStore` shows what may happen between them. A
request is answered in the step that settles what its handler awaits, for only
promise callbacks run between the two. A handler past its body runs on when its
client has left. `connected` holds the requests whose connection is open, those
kept alive after an answer too: `server.close()` waits for them. Each signal has
one handler (`process.once`) that calls `close()`; what a signal without a
handler does is Node's default.

**Engine.** The engine is a pure function, so its helpers are operators of the
case under their own names, and what they add to `missing`, `conflicts` and the
invalidity flags are sets. An artifact is a record of the fields the engine
reads; its `ref` is type, identifier and digest, its `proof` is what the schema,
digest and signature checks find, as far as the engine tells their failures
apart (`verifyArtifact`: wrong in itself, or only against the trust snapshot).
Identifiers, digests and times are numbers within a case, for the code only
compares them; the digest of a value is the value. `Evaluate` submits a case
again with a change, `Replay` packs it into its bundle and evaluates that under
the anchors a caller may give. Rulebooks are the parameters `AnswerOf`
and `IsValid`: `MCEngine` binds them to `Rulebook`, the proofs leave them open.
Prior receipts stay a sequence, because which of two contradicting ones counts
depends on their order. `Shaped` is what the types, schemas and digests give for
every case: it has its parts, a list is a list, artifacts the schema takes have
identifiers and events a place, a mandate that verifies has times and a number of
executions, one digest belongs to one receipt. A sorted list (`Placed`) has each
element where the number of those ahead of it says, which is what a stable sort
gives for any order and can be reasoned about where `SortSeq` cannot.

**Mandates and receipts.** JSON is a tagged tuple (`Obj`, `Arr`, `Str`, `Num`),
absent claims are `Undefined`, a digest is the term it was taken of and a
signature the name of the key that made it. A presentation is a JWT with the
disclosures shown; a digest without its disclosure is a withheld one, and the
checks that count those are modelled, because a constraint nobody sees is the
hazard. `MandateChain` walks the segments as the code does: each against the
key the payload before it confirms, each open payload's constraints collected,
the closed one judged by all of them. The line-item check is the bounded flow of
`mandate-verify.ts`, augmenting path by augmenting path. Where the code throws
and a caller turns that into one issue, the operators have that issue.

**Disputes.** `Settle` is one retriever's promise, in any order and with any
answer of the case; `resolveAp2DisputeEvidence` is what runs after
`Promise.all` over the retrievers sorted by id; `Resolution` is what the call
returns. `Pack` seals it with a history and retains the digest, `Travel`
exchanges the copy at hand for an edited one, sealed again or not, and `Review`
verifies that copy, as one item of a batch, and reconciles it. The properties
do not recompute what the code does: `SignedClaims` and `SignedPayload` are what
a segment was signed with (`Opened` of `SignedTerms` puts every disclosure back
in its place), and `HandedOut` searches for a distribution of the cart instead of
computing a flow. `Dispute.cfg` gives these two constants, `Resolve`, `Canonical`
and `MaxFlow` their definitions; the proofs leave them open. Artifacts are
counted by source and place, records sorted by rank (`Placed`, as in `Engine`),
and the issues of a report are a set.

**CasePacks.** `Record`, `Issue` and `Build` are the programs outside the
repository that record events, sign checkpoints of them and collect; they call
the sealing functions of `seal.ts`. A source may keep two histories and sign
both. `Alter` is the carrier, who may exchange anything and seal again but cannot
sign for a source, `Verify` the caller with the contract and the
snapshot digests it retained, or without, and the raw bytes it has. The model
showed how far the code's promises go, and the properties say no more:
`checkpointConflicts` compares only checkpoints of equal source, epoch, last
sequence and window end; a leaf of the tree covers the envelope's id, source,
sequence and raw digest, not its other fields; the comparison of two packs does
not list a checkpoint whose proofs alone changed.

## Runs

| Run | Question | Bounds |
|---|---|---|
| `RecordLog` | do guards and verifier agree on every history, is every edit detected, do appeals obey their rules | 6 decisions, 16 events (legal, forked, late, forged, beyond the cap, a filing that names a superseding decision), histories of up to 6 records: a superseded decision with a full appeal and a second appeal beside it |
| `JsonlStoreKill` | is every acknowledged record kept, the file only appended to, memory equal to it, the lifecycle implemented | 2 callers (symmetric), 2 decisions and 2 events that need each other, 4 records, 1 kill, 1 failing system call |
| `JsonlStoreLive` | are all calls answered, does close end, what survives a loss of power | 2 callers, 3 decisions of which one is oversized, 1 event, 2 records (the store fills up), 1 kill, 1 power loss, 1 failing call |
| `StoreLock` | one writer, with a current memory; is the lock given up | 3 stores, 2 closes each, 2 records, 2 faults |
| `ApiServer` | slots and buffers accounted for, 201 only for what is stored, a client error only for what is not, a graceful stop | 3 requests (symmetric) of 5 kinds, 2 slots, 2 bytes of body, 1 record, 1 failing write |
| `ApiServerLive` | is every request answered, does a signal end the process | 2 requests of 9 kinds, 1 slot, 1 record, 1 failing write |
| `Engine` | is anybody blamed beyond what the artifacts show, whatever the rulebook; do events and bundles stay bound to the decision | 4 allocated cases (principal, model vendor, operator after a revocation, an appeal with a mandate half used), every part changed alone and the parts an execution is judged by in pairs, 7 sets of rules, 4 kinds of anchors |
| `StoreAudit` | is a report of an audit about one moment of the file, and an honest store never accused | 1 caller, 3 records, 1 kill, 1 power loss, 1 audit with reads of any length |
| `Dispute` | is a dispute verified only when one transaction was signed and delegated as it says; does its order matter; is only the retained pack verified | 135 purchases of up to 3 line items, 3 retrievers in every order, 10 histories, 14 alterations |
| `CasePack` | does a valid report rest on what the source signed; is every change told | 1 source with 2 histories, 2 events, 2 checkpoints, trees of up to 2 leaves, each edit sealed again or not, 3 supplies of bytes, digests retained or not |
| `JsonlStoreRepair`, `StoreLockOverlap` | the findings below | |

Two callers are enough for every overlap of an operation with another one or
with close: operations run one at a time, and a third caller would only wait.
One kill and one failure already combine: the store is reopened on what the
kill left and fails there. Three requests over two slots have one refused while
two overlap in any order; their bodies end below, at and above the limit, in
chunks of any size; one record makes the store refuse the next one for being
full, and a decision, a mutated one of the same identifier and an appeal of it
conflict, repeat and depend on each other. A request is sent once: a client that
tries again is another request with the same message. The variants of an artifact
put each field the engine compares off by one, to another name or to nothing; a
rulebook is changed together with every other part, because what matters is that
no rule gets a conclusion past the guard, and the rest in the pairs whose checks
look at each other: mandate, receipt, events, prior receipts. The
purchases of `Dispute` are an honest one whose retrievers may answer with
anything (nothing, late, in the wrong role, with another cart, twice), the same
one with single answers and every history, and one edit each of what is
signed: time claims, hops, nonces, keys, inherited and withheld constraints,
payees, PISPs, a pinned open hash, line items whose flow must turn back, amounts at their limits, key windows, receipts.
Only sealed packs of the honest purchase and of one with a reported revocation
are altered, which is where a reviewer has something to lose. In `CasePack` two
events and two histories give a fork, a gap, a checkpoint that is too old, and an
event in one history and not in the other; trees of more leaves only make longer
paths. Edits are made of packs with one checkpoint and the strict contract, since
the others do not ask for a checkpoint. Symmetry is used
only where no liveness is checked. `CHECK_DEADLOCK FALSE` stands in every
configuration: a store nobody opens or calls, or one at its bounds, may stop, and
so may the engine after a replay, a dispute once reviewed or a CasePack once
verified.

**Fairness.** `Decide`, `Persist`, `Drained` and `Release` (and `Runs(s)` of
`StoreLock`) are weakly fair: they are continuations of promises the event loop
resumes and system calls that return or fail. In `ApiServer` the body timer and
the keep-alive timer fire, `Work` and the store answer, the steps of `close` run
and `Exit` is the event loop with nothing left to wait for; a client need not
send, finish or stay, and no signal has to come. Calls, `Open`, `close`, faults
and the operator have none. A dispute's resolution is weakly fair once every
retriever has settled; the retrievers are not, for no timer makes one answer. Fairness of `Decide` is written as the formula its
definition reduces to, because TLC is slow at computing where the guards are
enabled.

## Findings

- `JsonlStoreRepair`: a process killed inside `appendFile` can leave an
  unfinished last line, and `open` then refuses the file as corrupt, where
  `docs/OPERATOR_WORKFLOWS.md` says that the file needs no repair.
- `StoreLockOverlap`: overlapping calls of `JsonlStore.close` both remove the
  lock path, the second one perhaps the lock of the next writer.

Met while modelling, and no run of their own: a `filed` event that names a
superseding decision is accepted by the genesis branch of
`assertAppealAppendable` (`src/src/appeals.ts:200`) and its appeal can take
nothing more; after SIGINT, SIGTERM has a handler of its own and does not
terminate `serve` (`src/src/cli.ts:1204`); a case that supplies one signed
artifact twice may be allocated (`src/src/engine.ts:930`) while its bundle fails
the check of unique identifiers.

## Proofs

All theorems are for all values of the constants. The assumptions about those
are `StoreLockAssumption`; `JsonlStoreAssumption` (the record limit is a number,
the queue entry of `close` is no caller, `None` no payload, the event cap of a
decision a natural number, as its schema has it); `ApiServerAssumption` (finitely
many requests, none of them a signal, limits and sizes that are numbers, and no
message whose headers, faults or computed answer already say "created");
`NoneAssumption` of `Engine` (an absent reason is none of those a replay forces);
`CasePackLimits` (the largest tree has a positive size) and `CasePackTerms` (the
bounds are numbers, and what the parties agreed on is sealed and about the sources
and their keys). Five are about disputes: `RetrieversAssumption` (no two
retrievers have one id), `OffersAssumption` (a plan has its fields, a case a
retriever's answers, an artifact one of the four kinds), `HistoriesAssumption` (the
records of a history have their fields, and instants and ids an order), and below
`ShownAsSigned` and `FullFlowIsHandedOut`. TLC evaluates all of them in the runs.

**Guards and verifier.** The code judges a history twice, in `putDecision` and
`appendAppeal` from its indexes and in `verifyStoreRecords` from the lines of a
file. `StoreRecordsProofs` shows that they agree. `Agrees(h)` relates what the
verifier has kept after the lines of `h` to the indexes of `h`; it holds of the
empty history and one lawful record preserves it (`AgreesStep`), so the guards
say of the next record what the verifier says (`JudgesAgree`). `Lawful(h)`, that
each record is the next one for a payload its guards accepted, is the invariant
of `RecordLog`, and with it:

- `GuardsAgree` (`GuardsAgreeWithVerifier`) and, the other way round,
  `VerifiedIsLawful`: a file that verifies could have been built by the guards.
- `TamperingShows` (`TamperEvident`): each kind of edit breaks a sequence number,
  a link of the chain, a hash or the uniqueness of identifiers; a checkpoint of
  the full length exposes a cut.
- `AppealsLive` (`AppealLife`): from `Lives`, what a history shows of its decisions
  and of each appeal, which a record that passes the guards keeps (`LawfulLives`).
- `StoredIsReplayed`: what is in a lawful history is answered as a replay when
  it comes again. Every check that precedes the replay is one that passed when
  the record was stored and depends on nothing that has changed since.

**The store.** `JsonlStoreProofs` leaves guards and digests opaque:

- `MemoryFollowsFile` (`MemoryMatchesFile`). The invariant adds `Shapes`, what
  the parts of a file are, and `PersistWhenSure`: an operation is inside
  `persist` only in a session without an append in doubt. Without it a step of
  `persist` could start from a memory that is only a prefix of the file.
- `FlushedIsSafe`, `FileOnlyGrows`, `NothingAckedInDoubt`. They add `Chain`
  (queue and calls match), `PendingIsCalled` (the record being persisted is the
  one its caller waits for) and `FlushedIsDurable` (the durable lines are a
  prefix of the file and hold everything flushed), which every survivor of a
  power loss preserves.

Its second half joins the store and the verifier: `SoundFile` says that the file, but for a piece
of a line at its end, is a lawful history within the limit. Every append, cut
and loss keeps that, and `VerifiedIsLawful` and `LawfulAgrees` translate between
it and what `open` and the audit compute.

- `DamageIsConfined` (`DamageIsLastLine`).
- `AckedIsStored` (`AckedStored`), for behaviours without a power loss: the
  theorem has `[][~PowerLoss]_vars` beside `Spec`, because a replay may
  acknowledge a record whose own flush failed and which a power loss then takes.
  A replay is acknowledged from memory, and memory is never ahead of the file.
- `StoreKeepsLifecycle` (`ImplementsLifecycle`), the refinement of
  `AppealLifecycle`, with the same hypothesis: a power loss may take records back,
  and the lifecycle has no such step. `WholeStep` says that a step leaves what the
  file holds, cut short as its last line may be, or adds one record the guards let
  through; `DecisionLived` and `EventLived` that such a record is `Issue` or
  `Supersede`, `File` or `Advance`, of the decisions and appeals the file shows.
- `AuditTellsOneMoment` (`AuditIsOfOneMoment`): what has been read is the
  beginning of the file as it was when the audit began, which stays a beginning
  of the file until a power loss, and that ends the audit with it.

**The lock.** `Typed`, `LockExcludes` and `WriterIsCurrent`, the last two assuming
`~Overlap`. `Exclusion` has one call of `close` past its drain at most, a closed
flag exactly when one is, and a lock held by every store that is open, loading or
failing; mutual exclusion follows.

**The API**, for any number of requests, any limits and whatever the engine
answers:

- `Typed`, `SlotsAreAccounted`, `BuffersAreBounded` and `StopIsGraceful`, with the
  guards of the store opaque as well. `WaitsOnce` says that the writer chain holds
  each request once, and only while its handler waits for the store, so that no
  handler is settled, and gives its slot back, twice; `Ordered` says that `close`
  gets to the store only without connections, or after the other signal.
- `CreatedStaysStored` (`CreatedIsStored`) and `RefusalIsFinal`
  (`RefusedIsNotStored`). `AInv` adds that records in memory are a lawful history
  and the ones on disk the same, or longer while an append is in doubt
  (`StoreMatches`), and that an answer of 201 belongs to a write that is there
  (`Answered`). `RefusalIsFinal` needs `StoredIsReplayed`: if the record of a
  write were already in the file, the guards would have said "replay" and not
  one of the errors that become a 4xx.

**The engine**, for any cases, any changes between them and whatever the
rulebooks say. The invariant is `Decided`: the decision is that of the case, and
the case is `Shaped`. The work is in lemmas that go from a conclusion that passed
the guard back through the facts to the artifacts: nothing rejected, no conflict,
so every event is verified, the mandate binds, no revocation holds, the action is
in scope and each control is shown.

- `RejectedNeverBlames`, `PrincipalOnlyInside`, `VendorOnlyForItsModel`,
  `EventsBound`.
- `PrincipalOnlyWithinUse` (`ExecutionsCounted`). `RelevantAre`: when the pass over
  the prior receipts meets no conflict, what it keeps are the verified ones under
  the mandate, in whatever order they came; `DigestsCount` counts them.
- `OperatorOnlyOutside` (`OperatorOutsideMandate`): each branch of
  `operatorViolation` contradicts one conjunct of `InsideMandate` or `UseLeft`.
  With the theorems before it, no evidence lets one rulebook blame the principal
  and another one the operator.
- `ReplayGivesTheDecision` (`ReplayAgrees`), with `Replayed`: what is replayed is the
  bundle of the case. `Places` says that ranks by distinct keys are the places 1 to n,
  so that sorting only rearranges; a bundle that verifies repeats no identifier and
  no sequence number (`BundledLists`), hence its case is the `SameCase` up to the order of
  three lists (`BundledIsSame`). The `Same...` lemmas go through the engine and find that it
  reads those lists as sets, with one exception, the search among the prior receipts:
  it meets a conflict in one order if and only if it does in every other, and without
  one it keeps the same receipts (`RelevantAre`); with one, the case is conflicted whatever it
  kept (`ConflictDecides`).

**CasePacks.** For any sources, histories, edits, supplies of bytes, limits and
trees of any height:

- `ValidRestsOnProofs` (`ValidIsProved`). `Combined` says that a combination of
  statuses is one of them and is `satisfied` only if all are, `RelevantCombined`
  the same past those that do not apply, `Statused` that the checks answer with
  statuses; `ValidMeansProved` goes from a valid report through the coverage, the
  requirement and the envelope down to the checkpoint, its inclusion and the key
  of its source.
- `ValidIsCommittedBySource` (`CommittedBySource`), from there to the source. The
  pins make the contract and the snapshot those that were agreed on
  (`PinnedContract`, `PinnedSnapshot`), so the signature is by the source's own
  key and the checkpoint one it issued (`SignedIsIssued`). `RootIncludesLeaf` says
  that in a perfect tree a path of its height that leads to the root starts at the
  leaf of its index, level by level from the root down, since nodes are
  injective; `IncludedLeaf` makes that leaf an event of the source, and
  `SuppliedByCaller` makes its bytes the ones the caller has.
- `ChangesAreTold` (`EveryChangeIsTold`). What has the same keys and the same
  digest is the same (`SameMaterial`, `SameDigest`); `ChangesById` and its uses
  say that the merge of two lists of digests names exactly what differs.

The invariant `IInv` is needed because the verdict is about a pack whose makers
are no longer there: it says of each checkpoint that was issued that it is
sealed, has the root of a tree of recorded events and is signed by its source's
key; of the pack that was built that it is sealed with agreed terms; of the one
that is held that it bears no other signature by a source; of the verdict that
it is of that pack, with anchors the caller may have.

**Disputes.** For any retrievers, answers, plans, histories, alterations, chains of
any length, and whatever `Resolve`, `Canonical` and `MaxFlow` compute:

- `ResolutionInAnyOrder` (`AnyOrder`). `Assembled` says that what the resolver
  collects, in the order of the ids, and what it would collect in the order of
  arrival have the same sources and attempts, each once; `Alike` that assembly
  reads no more of them than that.
- `SelectedIsDelegated` (`DelegatedByConfirmedKeys`). `Accepted` is what a chain
  without an issue has passed, segment by segment, `HopHolds` what that says of
  one hop; `MandateChosen` goes from a selection back to an accepted token that was
  offered. All of that is about what a segment shows. `AsSigned` turns it into what
  was signed, by `ShownAsSigned`: where a segment resolves, every string, number and
  key it shows stands in its signed claims or, at each depth down to an acceptable
  item (`PayloadInPlace`), in its signed payload, and an object or a list that
  reports nothing withheld shows all of it. This is a promise of the recursion over
  disclosures (`resolveAp2SegmentClaims`), about which nothing can be proved here;
  TLC evaluates it for every token of the run.
- `SelectedKeepsConstraints` (`ConstraintsAsSigned`). An accepted chain has passed
  `verifyConstraints` with each of its open payloads, so its list of constraints is
  shown whole and each of them holds as it is shown (`CleanConstraints`, `Judges`).
  `OfSigned` pairs it with the constraint that was signed in its place, and there is a
  lemma for each type: an entry that allows was allowed by the signer
  (`AllowedInPlace`), no limit was signed into a constraint that shows none
  (`NothingAdded`), and a requirement that shows no acceptable item was signed with
  none (`RequirementInPlace`), which is what `lineItemsDisclosureWithheld` is for.
  That a flow of the full quantity is a distribution of the cart, among the
  requirements as they are shown, is `FullFlowIsHandedOut`: a fact about the recursive
  `boundedMaxFlow`, which TLC evaluates for every cart of the run, and in
  `HandedOutIsNotRefused` of `MCDispute` the other way round: no cart that can be
  handed out is refused, also where an augmenting path turns back;
  `StillHandedOut` takes it to the requirements as they were signed.
- `VerifiedIsOfOneTransaction` (`VerifiedIsOneTransaction`). `Complete` is what no
  issue at all leaves of a resolution; then each kind has one token
  (`CompleteHasOneOfEach`), which was selected, so that both mandates bind the
  transaction's hash, the receipts name the mandates and the merchant's key signed
  the checkout.
- `OthersAreNotVerified` (`OnlyTheRetainedPack`). `PackInv`: what is retained is
  sealed with the digest of its own fields, and is held until it travels. Two packs
  that have their shape and one digest are one pack (`SameDigestSamePack`), so
  whatever the carrier made of it fails the digest or the anchor.
- `ReviewsAreAsSigned` (`ReviewedAsSigned`). `SealedInv`: the retained pack has a
  plan with its fields, artifacts that were offered and records in order, for sorting
  rearranges and changes none (`PlacedSame`, `MaterializedKeeps`). By the theorem
  before, a copy that passes is the retained pack. What its report says of the
  history holds of the records in it (`VerifiedPack`, `VerifiedHistory`); its
  sources are assembled anew, and the lemmas about one transaction say what that
  was signed with (`RecomputedAsSigned`), which the reconciliation compares
  (`ReconciledIs`).

**How.** The passes of the code over lines, events and receipts are recursive
functions. The induction theorems of the library take the formula to prove as an
operator parameter, which the provers cannot instantiate; instead, each result
about a pass is proved for the least length at which it would fail (`Least`, from
the well-foundedness of the naturals), the existence of the function included.
Zenon is used where a leaf needs only first-order reasoning. The SMT backend
represents sequences by an axiom that gives every value a length, so a leaf that
speaks of `Len` never expands a function on `0 .. n` as well; that no leaf has
contradictory hypotheses except where the case it treats is impossible was
checked by giving the solver the hypotheses alone.

**Left to TLC.** Liveness, all of it. What the `RECURSIVE` operators compute: the
disclosures of a segment, the flow of a cart and what a rulebook answers. The
proofs rely on the first two through `ShownAsSigned` and `FullFlowIsHandedOut` and on
nothing else of them. Every safety invariant of the disputes is a theorem.

## Assumed

One flush of the data file makes its directory entry durable too. An operator
removes a lock only when no process uses the store. Decisions given to the
store are valid by their schema. Node waits in `server.close()` for open
connections, ends idle ones by its keep-alive timeout, and binds an IP literal
before anything else is polled. Nobody but a source signs with its
key, and then checkpoints it issues (`Unforged`); a collector seals contracts and
snapshots that are valid by `validate.ts`, name known sources and list for each
the key it signs with (`CasePackTerms`).

## Plan

1. Store, appeals, lock, `StoreAudit` (done).
2. `ApiServer` (done).
3. `Rulebook` and `Engine` (done); the lint of `src/policy-tools.ts`, the key
   windows of `src/trust.ts` and the Merkle root of a bundle (open).
4. Mandates, receipts, `DisputeEvidence`, `DisputePack` (done); the transaction
   lifecycle (open).
5. `CasePack` and `CasePackFlow` (done).
6. Proofs of the safety properties (done).

## Not modelled

Of modelled parts: in the disputes, the timeline and its renderings, the cap of
256 issues, the abort signal and plans or configurations that are malformed. Of
UCP and AP2, the checks that a payee's name and an instrument's type are not
empty (the model accepts more), and what the dispute resolver does not call: the
single-token `verifyAp2Mandate`, the transaction lifecycle, signed requests and
merchant authorisation, content digests and profile discovery. In the CasePacks,
the formats of fields and the fields no check reads, the evidence references of a
delegation, the discovery documents and the cap of 128 issues. Of the bundles,
paths, manifest and Merkle root.

Whole parts are marked `not_modelled` in `PROJECT.json`: those of the plan that
are open, and, for good, the operator views, text output, the simulator's
fixtures, JSON and argument parsing, encodings and primitives, which keep no
state and order nothing.
