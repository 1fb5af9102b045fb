------------------------- MODULE MandateConstraints -------------------------
(***************************************************************************)
(* The constraints of an open mandate, judged against the closed mandate that  *)
(* ends its chain: verifyConstraints of src/ucp-ap2/mandate-verify.ts.  Values  *)
(* are resolved SD-JWT terms, which know how much of them was withheld.        *)
(***************************************************************************)
EXTENDS Jose, LineItems

CheckoutVct == "mandate.checkout.1"
PaymentVct  == "mandate.payment.1"

Type(constraint) == Field(constraint, "type")

\* The claims of the Checkout JWT a closed mandate carries.
CheckoutClaims(closed) ==
    LET jwt == Field(closed, "checkout_jwt")
    IN  IF jwt[1] = "compact" THEN jwt[2].claims ELSE Undefined

Entries(o, name) == Range(Items(Field(o, name)))

allowedById(constraint, id) ==
    /\ IsString(id)
    /\ \E candidate \in Entries(constraint, "allowed") : Field(candidate, "id") = id

\* Under the pinned schema the merchant is the one the Checkout JWT names, and
\* the caller's expectation only narrows it.
verifyAllowedMerchantConstraint(constraint, expectedMerchant, closed, pinned) ==
    LET merchant == IF pinned THEN Field(CheckoutClaims(closed), "merchant") ELSE expectedMerchant
        Agrees(m, wanted) == /\ Field(m, "id") = Field(wanted, "id")
                             /\ Given(wanted, "website") => Field(m, "website") = Field(wanted, "website")
    IN  /\ IsString(Field(merchant, "id"))
        /\ pinned /\ expectedMerchant # Undefined => Agrees(merchant, expectedMerchant)
        /\ \E candidate \in Entries(constraint, "allowed") :
              IF pinned THEN Field(candidate, "id") = Field(merchant, "id") ELSE Agrees(candidate, merchant)

Id(o) == Field(o, "id")

LineItemsOf(closed) == Items(Field(CheckoutClaims(closed), "line_items"))

\* What a constraint requires of the cart, and the cart of a closed mandate.
RequirementsOf(constraint) ==
    LET items == Items(Field(constraint, "items"))
    IN  [i \in DOMAIN items |-> [acceptable |-> {Id(item) : item \in Entries(items[i], "acceptable_items")},
                                 quantity   |-> Field(items[i], "quantity")[2]]]

LinesOf(closed) ==
    LET lines == LineItemsOf(closed)
    IN  [i \in DOMAIN lines |-> [id |-> Id(Field(lines[i], "item")), quantity |-> Field(lines[i], "quantity")[2]]]

LineItemsWellFormed(constraint, closed) ==
    LET ItemIsNamed(o) == IsString(Id(o)) /\ IsString(Field(o, "title"))
        ItemIsRequirement(o) ==
            /\ IsString(Id(o)) /\ IsArray(Field(o, "acceptable_items")) /\ IsNumber(Field(o, "quantity"))
            /\ \A item \in Entries(o, "acceptable_items") : ItemIsNamed(item)
        ItemIsLine(o) == ItemIsNamed(Field(o, "item")) /\ IsNumber(Field(o, "quantity"))
    IN  /\ \A requirement \in Entries(constraint, "items") : ItemIsRequirement(requirement)
        /\ \A line \in Range(LineItemsOf(closed)) : ItemIsLine(line)

verifyLineItemsConstraint(constraint, closed) ==
    LineItemsWellFormed(constraint, closed) /\ verifyLineItems(RequirementsOf(constraint), LinesOf(closed))

\* Mutant: an empty list accepts anything, whatever was withheld of it.
RequirementWithheld(constraint) == Withheld(Field(constraint, "items")) > 0

\* A requirement was withheld, or all of a list that would otherwise accept anything.
lineItemsDisclosureWithheld(constraint) ==
    \/ Withheld(Field(constraint, "items")) > 0
    \/ \E requirement \in Entries(constraint, "items") :
          LET accepted == Field(requirement, "acceptable_items")
          IN  IsArray(accepted) /\ Range(Items(accepted)) = {} /\ Withheld(accepted) > 0

verifyPaymentReference(constraint, options) ==
    /\ options.expectedVct = PaymentVct
    /\ IsString(Field(constraint, "conditional_transaction_id"))
    /\ options.expectedOpenCheckoutHash # Undefined
    /\ Field(constraint, "conditional_transaction_id") = options.expectedOpenCheckoutHash

----------------------------------------------------------------------------
AmountRangeMalformed(constraint) ==
    LET min == Field(constraint, "min")
        max == Field(constraint, "max")
    IN  \/ ~IsString(Field(constraint, "currency"))
        \/ ~IsNumber(max)
        \/ min # Undefined /\ (IF IsNumber(min) THEN min[2] > max[2] ELSE TRUE)

AmountInRange(constraint, closed) ==
    LET paid == Field(closed, "payment_amount")
    IN  /\ Field(paid, "currency") = Field(constraint, "currency")
        /\ IsNumber(Field(paid, "amount"))
        /\ Given(constraint, "min") => Field(paid, "amount")[2] >= Field(constraint, "min")[2]
        /\ Field(paid, "amount")[2] <= Field(constraint, "max")[2]

PispNames == {"legal_name", "brand_name", "domain_name"}

PispAllowed(constraint, closed) ==
    LET pisp == Field(closed, "pisp")
    IN  /\ \A name \in PispNames : IsString(Field(pisp, name))
        /\ \E candidate \in Entries(constraint, "allowed") :
              \A name \in PispNames : Field(candidate, name) = Field(pisp, name)

PaymentTypes == {"payment.amount_range", "payment.allowed_payees",
                 "payment.allowed_payment_instruments", "payment.allowed_pisps"}

\* type is one of PaymentTypes.
PaymentHolds(type, constraint, closed) ==
    IF type = "payment.amount_range" THEN AmountInRange(constraint, closed)
    ELSE IF type = "payment.allowed_payees" THEN allowedById(constraint, Field(Field(closed, "payee"), "id"))
    ELSE IF type = "payment.allowed_payment_instruments"
         THEN allowedById(constraint, Field(Field(closed, "payment_instrument"), "id"))
    ELSE PispAllowed(constraint, closed)

evaluatePaymentConstraint(constraint, closed) ==
    LET type == Type(constraint)[2]
    IN  IF type = "payment.amount_range" /\ AmountRangeMalformed(constraint) THEN "AP2_CONSTRAINT_INVALID"
        ELSE IF PaymentHolds(type, constraint, closed) THEN "ok" ELSE "AP2_CONSTRAINT_FAILED"

----------------------------------------------------------------------------
FailedUnless(holds) == IF holds THEN "ok" ELSE "AP2_CONSTRAINT_FAILED"

\* The code one entry of the list earns, "ok" when it holds.
ConstraintCode(constraint, options, closed, pinned) ==
    LET Is(type)  == Type(constraint) = Str(type)
        checkout  == options.expectedVct = CheckoutVct
    IN  IF ~IsString(Type(constraint)) THEN "AP2_CONSTRAINT_INVALID"
        ELSE IF Withheld(constraint) > 0 THEN "AP2_CONSTRAINT_DISCLOSURE_WITHHELD"
        ELSE IF Is("checkout.allowed_merchants") THEN
            IF pinned /\ ~checkout THEN "AP2_CONSTRAINT_UNSUPPORTED"
            ELSE FailedUnless(verifyAllowedMerchantConstraint(constraint, options.expectedMerchant, closed, pinned))
        ELSE IF Is("checkout.line_items") THEN
            IF checkout /\ lineItemsDisclosureWithheld(constraint) THEN "AP2_CONSTRAINT_DISCLOSURE_WITHHELD"
            ELSE FailedUnless(checkout /\ verifyLineItemsConstraint(constraint, closed))
        ELSE IF Is("payment.reference") THEN FailedUnless(verifyPaymentReference(constraint, options))
        ELSE IF pinned /\ options.expectedVct = PaymentVct /\ Type(constraint)[2] \in PaymentTypes
             THEN evaluatePaymentConstraint(constraint, closed)
        ELSE "AP2_CONSTRAINT_UNSUPPORTED"

verifyConstraints(open, options, closed, pinned) ==
    LET constraints == Field(open, "constraints")
        entries     == Entries(open, "constraints")
        codes       == {ConstraintCode(entry, options, closed, pinned) : entry \in entries} \ {"ok"}
        required    == \E entry \in entries :
                          Type(entry) \in {Str("checkout.line_items"), Str("payment.reference")}
    IN  IF constraints = Undefined THEN When(pinned, upstreamIssue("AP2_CONSTRAINTS_REQUIRED"))
        ELSE IF ~IsArray(constraints) THEN {upstreamIssue("AP2_CONSTRAINTS_INVALID")}
        ELSE {upstreamIssue(code) : code \in codes}
             \cup When(Withheld(constraints) > 0, upstreamIssue("AP2_CONSTRAINT_DISCLOSURE_WITHHELD"))
             \cup When(pinned /\ ~required, upstreamIssue("AP2_REQUIRED_CONSTRAINT_MISSING"))
=============================================================================
