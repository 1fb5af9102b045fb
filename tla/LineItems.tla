----------------------------- MODULE LineItems -----------------------------
(***************************************************************************)
(* The checkout.line_items constraint of src/ucp-ap2/mandate-verify.ts: can    *)
(* the cart be handed out to the requirements, every unit of it, so that each  *)
(* gets exactly its quantity of items it accepts?  Decided by a maximum flow    *)
(* from the SKUs of the cart to the requirements.                             *)
(***************************************************************************)
EXTENDS JwtTerms

CONSTANTS MaxSafeInteger,  \* 2^53 - 1: every sum is tested against it
          MaxFlow(_)       \* what a network can carry: boundedMaxFlow of BoundedFlow

----------------------------------------------------------------------------
(* The residual network: a capacity for every edge <<from, to>> and its reverse. *)
Source == <<"source">>
Sink   == <<"sink">>
Sku(id)        == <<"sku", id>>
Requirement(i) == <<"requirement", i>>

Back(edge) == <<edge[2], edge[1]>>

addFlowEdges(capacity) ==
    capacity @@ [edge \in {Back(e) : e \in DOMAIN capacity} |-> 0]

----------------------------------------------------------------------------
(* A requirement is [acceptable, quantity], a line of the cart [id, quantity].   *)
QuantityOf(entries) == FoldSeq(LAMBDA entry, sum : sum + entry.quantity, 0, entries)

Skus(lines) == {lines[i].id : i \in DOMAIN lines}

Cart(lines) ==
    [id \in Skus(lines) |-> QuantityOf(SelectSeq(lines, LAMBDA line : line.id = id))]

\* An empty list accepts everything.
Accepts(requirement, id) == requirement.acceptable = {} \/ id \in requirement.acceptable

Network(requirements, cart) ==
    [e \in {<<Source, Sku(id)>> : id \in DOMAIN cart} |-> cart[e[2][2]]]
    @@ [e \in {<<Sku(p[1]), Requirement(p[2])>> :
                 p \in {q \in (DOMAIN cart) \X (DOMAIN requirements) : Accepts(requirements[q[2]], q[1])}}
          |-> cart[e[1][2]]]
    @@ [e \in {<<Requirement(i), Sink>> : i \in DOMAIN requirements} |-> requirements[e[1][2]].quantity]

\* A list of positive safe quantities, neither empty nor too long.
Bounded(entries) ==
    /\ Len(entries) \in 1 .. MaxLineItems
    /\ \A i \in DOMAIN entries : entries[i].quantity \in 1 .. MaxSafeInteger

\* Positive quantities grow every sum, so the last sums are the ones to test.
verifyLineItems(requirements, lines) ==
    /\ Bounded(requirements) /\ Bounded(lines)
    /\ QuantityOf(lines) <= MaxSafeInteger
    /\ QuantityOf(requirements) <= MaxSafeInteger
    /\ QuantityOf(lines) = QuantityOf(requirements)
    /\ MaxFlow(addFlowEdges(Network(requirements, Cart(lines)))) = QuantityOf(requirements)
=============================================================================
