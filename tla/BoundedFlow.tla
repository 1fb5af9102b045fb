----------------------------- MODULE BoundedFlow -----------------------------
(***************************************************************************)
(* boundedMaxFlow of src/ucp-ap2/mandate-verify.ts: paths found breadth first    *)
(* are augmented until the sink is out of reach.                              *)
(***************************************************************************)
EXTENDS LineItems

\* Breadth first from the nodes in the queue: who each node was reached from.
RECURSIVE Search(_, _, _)
Search(queue, parent, residual) ==
    IF queue = <<>> \/ Sink \in DOMAIN parent THEN parent
    ELSE LET node == Head(queue)
             next == {e[2] : e \in {e \in DOMAIN residual : e[1] = node /\ residual[e] > 0}} \ DOMAIN parent
         IN  Search(FoldSet(LAMBDA n, waiting : Append(waiting, n), Tail(queue), next), parent @@ [n \in next |-> node], residual)

RECURSIVE PathTo(_, _)
PathTo(node, parent) ==
    IF node = Source THEN {} ELSE {<<parent[node], node>>} \cup PathTo(parent[node], parent)

\* What a path can still carry is taken from its edges and given to their reverses.
Push(residual, path, pushed) ==
    [e \in path |-> residual[e] - pushed]
    @@ [e \in {Back(d) : d \in path} |-> residual[e] + pushed]
    @@ residual

RECURSIVE boundedMaxFlow(_)
boundedMaxFlow(residual) ==
    LET parent == Search(<<Source>>, Source :> Source, residual)
        path   == PathTo(Sink, parent)
        pushed == Min({residual[e] : e \in path})
    IN  IF Sink \notin DOMAIN parent THEN 0
        ELSE pushed + boundedMaxFlow(Push(residual, path, pushed))
=============================================================================
