----------------------------- MODULE MCApiServer -----------------------------
EXTENDS ApiServer, StoreUniverse

CONSTANTS r1, r2, r3

MCRequests == {r1, r2, r3}
Symmetry == Permutations(MCRequests)

Message(route, size, payload) ==
    [local |-> TRUE, route |-> route, head |-> "ok", declared |-> None, size |-> size,
     fault |-> "ok", engine |-> "ok", payload |-> payload]

evaluation == Message("POST /v1/evaluations", 2, original)
filing     == [Message("POST /v1/appeals", 1, filed) EXCEPT !.declared = 1]

\* A body over the limit, sent in chunks, and a read of what the evaluation stores.
flood      == Message("POST /v1/verify", 3, None)
lookup     == Message("GET /v1/decisions/{id}", 0, "d1")

MCMessages ==
    {evaluation, filing, flood, lookup,
     Message("GET /readyz", 0, None),
     Message("POST /v1/simulations", 1, None),
     [Message("GET /openapi.json", 0, None) EXCEPT !.engine = "ALB_OPENAPI_UNAVAILABLE"],
     [Message("POST /v1/evaluations", 0, mutated) EXCEPT !.head = "ALB_MEDIA_TYPE"],
     [evaluation EXCEPT !.local = FALSE]}

SafetyMessages == {evaluation, Message("POST /v1/evaluations", 1, mutated), filing, flood, lookup}
=============================================================================
