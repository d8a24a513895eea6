------------------------------ MODULE Reading ------------------------------
(***************************************************************************)
(* What a bill is read as: backend/src/expense_api/evidence/extractors and *)
(* reconcile.py, corrections.py, policy/tax.py, claims/pipeline.py.        *)
(*                                                                         *)
(* A bill is what is printed on it, as far as reading it tells apart:      *)
(*   file      its file name's place in the order of names                 *)
(*   kind      what it was classified as, see Kinds                        *)
(*   known     whether it has the layout its kind's parser was written for *)
(*   label     what it is for, where it is read as one charge              *)
(*   rows      the charges of a folio, or the sectors of an e-ticket, each *)
(*             [label, amount, day]                                        *)
(*   subtotal, total   the sums it states                                  *)
(*   parts     what else it adds up to its total: taxes, a service charge, *)
(*             the parts of a fare                                         *)
(*   merchant  who the bill itself names: one of the brands that are       *)
(*             looked for anywhere in its message, the head of a           *)
(*             restaurant bill, the airline                                *)
(*   branded   whether merchant is such a brand, in the subject or the     *)
(*             text; one that only the address has is the sender's         *)
(*   sender    whom its message is from, as far as its From header says    *)
(*   day, clock, no    when it was issued, and under which number          *)
(*   nights    how long a stay it bills, 0 where it does not say           *)
(*   payer     whose expense it names: "claimant", "other" or "nobody"     *)
(*   payment   how it was paid: "company", "own" or "silent"               *)
(*   hosted    whether the note on it speaks of guests                     *)
(*   typed     the charges the claimant entered by hand, if any            *)
(* A charge is what the code calls an item. Amounts are naturals of the    *)
(* smallest unit; Unread stands for a field that could not be found.       *)
(***************************************************************************)
EXTENDS Integers, SequencesExt

Unread == -1

\* The document kinds that become claim lines. "context" stands for all others.
Producing == {"cab", "forward", "flight", "hotel", "restaurant"}
Kinds == Producing \cup {"context"}

\* The labels of a folio's room charges, which carry the stay's nights.
CONSTANT RoomRows

ASSUME RoomRowsAssumption == RoomRows \in SUBSET STRING

-----------------------------------------------------------------------------
(* Results *)

\* A document a human has to look at; it yields no claim lines.
NeedsInput(items) ==
    [status |-> "needs_input", items |-> items, subtotal |-> Unread, total |-> Unread]

\* Faulty: charges that fall short of the stated sum pass.
ReconcilesUnlessOver(amounts, subtotal) ==
    subtotal = Unread \/ SumFunction(amounts) =< subtotal

\* The check under every parser; without a stated sum there is nothing to check against.
Reconciles(amounts, subtotal) ==
    subtotal = Unread \/ SumFunction(amounts) = subtotal

\* Every reading ends here. amounts is what is summed, which need not be the charges.
FromItems(items, subtotal, total, amounts) ==
    IF Reconciles(amounts, subtotal)
    THEN [status |-> "extracted", items |-> items, subtotal |-> subtotal, total |-> total]
    ELSE NeedsInput(items)

Amounts(items) == [i \in DOMAIN items |-> items[i].amount]

-----------------------------------------------------------------------------
(* Charges *)

\* The rows whose amount could be read, in their order; the others are passed over.
Readable(rows) ==
    LET found[n \in 0..Len(rows)] ==
            IF n = 0 THEN <<>>
            ELSE IF rows[n].amount = Unread THEN found[n - 1]
            ELSE Append(found[n - 1], rows[n])
    IN  found[Len(rows)]

\* A brand wherever it is found in the message; without one, whoever the message is from.
VendorName(b) == IF b.branded THEN b.merchant ELSE b.sender

\* Who the charges of a bill are from. Only a correction, the photo of a restaurant bill and the
\* sectors of an e-ticket say it themselves; a folio's charges are from the sender of its mail,
\* a ride's and those of a bill that the generic reader takes are from a brand or the sender.
MerchantOf(b) ==
    LET charged == b.known /\ \E i \in DOMAIN b.rows : b.rows[i].amount # Unread
        flown   == b.kind = "flight" /\ charged
        folio   == b.kind = "hotel" /\ b.subtotal # Unread /\ charged
    IN  IF b.typed # <<>> \/ (b.kind = "restaurant" /\ b.known) \/ flown THEN b.merchant
        ELSE IF folio THEN b.sender
        ELSE VendorName(b)

\* One charge of bill b, with what is known of all of them.
Charge(b, label, amount) ==
    [label |-> label, amount |-> amount, merchant |-> MerchantOf(b), day |-> b.day,
     clock |-> b.clock, no |-> b.no, nights |-> 0, payer |-> b.payer, payment |-> b.payment]

-----------------------------------------------------------------------------
(* One reader per layout *)

\* A ride is checked against its total only where it prints two parts of the fare or more.
ReadRide(b) ==
    LET printed == {i \in DOMAIN b.parts : b.parts[i] > 0}
    IN  IF b.total = Unread THEN NeedsInput(<<>>)
        ELSE FromItems(<<[Charge(b, b.label, b.total) EXCEPT !.no = Unread]>>,
                       IF Cardinality(printed) >= 2 THEN b.total ELSE Unread,
                       b.total,
                       IF printed = {} THEN <<b.total>> ELSE [i \in printed |-> b.parts[i]])

\* An e-ticket states a total per sector. A sector without one is passed over.
ReadFlights(b) ==
    LET flown == Readable(b.rows)
        items == [i \in DOMAIN flown |->
                    [Charge(b, flown[i].label, flown[i].amount) EXCEPT
                        !.day = flown[i].day, !.clock = Unread]]
    IN  IF flown = <<>> THEN NeedsInput(<<>>)
        ELSE FromItems(items, Unread, SumFunction(Amounts(items)), Amounts(items))

\* A folio is read from the mail's text, row by row, and has to add up to its sub total. Only a
\* room charge carries the nights; every row is dated at check-in.
ReadFolio(b) ==
    LET charged == Readable(b.rows)
        items == [i \in DOMAIN charged |->
                    [Charge(b, charged[i].label, charged[i].amount) EXCEPT
                        !.clock = Unread,
                        !.nights = IF charged[i].label \in RoomRows THEN b.nights ELSE 0]]
    IN  IF b.subtotal = Unread THEN NeedsInput(<<>>)
        ELSE FromItems(items, b.subtotal, b.total, Amounts(items))

\* What a bill read as one charge is checked against: the sums it prints, or <<>>.
Components(b) == IF b.subtotal = Unread THEN <<>> ELSE <<b.subtotal>> \o b.parts

\* A photographed restaurant bill is one charge. It names nobody, and one that prints no sub
\* total is checked against itself.
ReadRestaurantBill(b) ==
    IF b.total = Unread THEN NeedsInput(<<>>)
    ELSE FromItems(<<[Charge(b, b.label, b.total) EXCEPT !.payer = "nobody"]>>,
                   b.total, b.total,
                   IF Components(b) = <<>> THEN <<b.total>> ELSE Components(b))

\* Any vendor's bill that labels its total is one charge of that total.
ReadGeneric(b) ==
    IF b.total = Unread THEN NeedsInput(<<>>)
    ELSE FromItems(<<[Charge(b, b.label, b.total) EXCEPT
                         !.nights = IF b.kind = "hotel" THEN b.nights ELSE 0]>>,
                   IF Components(b) = <<>> THEN Unread ELSE b.total,
                   b.total,
                   IF Components(b) = <<>> THEN <<b.total>> ELSE Components(b))

\* The parser written for b's kind. A layout it does not know leaves it with nothing.
ReadSpecific(b) ==
    IF ~b.known THEN NeedsInput(<<>>)
    ELSE CASE b.kind \in {"cab", "forward"} -> ReadRide(b)
           [] b.kind = "flight"             -> ReadFlights(b)
           [] b.kind = "hotel"              -> ReadFolio(b)
           [] b.kind = "restaurant"         -> ReadRestaurantBill(b)

\* Faulty: a whole-bill total stands in for charges that did not add up.
FallbackAllowedAlways(result) == result.status # "extracted"

\* Whether the generic reader may try: only where the parser read no charge at all.
FallbackAllowed(result) == result.status # "extracted" /\ result.items = <<>>

Extract(b) ==
    LET specific == ReadSpecific(b)
        generic  == ReadGeneric(b)
    IN  IF FallbackAllowed(specific) /\ generic.status = "extracted" THEN generic ELSE specific

\* A correction as the pipeline takes it: no stated sums, so that no tax is added on top. It
\* has no clock and names nobody.
AsResult(b) ==
    [status |-> "extracted", subtotal |-> Unread, total |-> Unread,
     items |-> [i \in DOMAIN b.typed |->
                  [Charge(b, b.typed[i].label, b.typed[i].amount) EXCEPT
                      !.clock = Unread, !.payer = "nobody",
                      !.day = b.typed[i].day, !.nights = b.typed[i].nights]]]

Read(b) == IF b.typed # <<>> THEN AsResult(b) ELSE Extract(b)

-----------------------------------------------------------------------------
(* A bill's tax on its charges *)

HalfUp(a, n) == (2 * a + n) \div (2 * n)

\* Faulty: the shares are left as they were rounded.
ApportionTaxRounded(amounts, tax) ==
    [i \in DOMAIN amounts |-> HalfUp(amounts[i] * tax, SumFunction(amounts))]

\* Each amount's share of the tax, rounded; what the rounding leaves goes on the first of the
\* largest. Decimal's 28 digits are taken as exact. The code raises for a subtotal of zero.
ApportionTax(amounts, tax) ==
    LET rounded == [i \in DOMAIN amounts |-> HalfUp(amounts[i] * tax, SumFunction(amounts))]
        largest == CHOOSE i \in DOMAIN amounts :
                        /\ \A j \in DOMAIN amounts : amounts[j] =< amounts[i]
                        /\ \A j \in 1..i - 1 : amounts[j] < amounts[i]
    IN  [rounded EXCEPT ![largest] = @ + tax - SumFunction(rounded)]

\* The tax a bill adds to its charges: what its total exceeds its sub total by.
TaxOf(result) ==
    IF result.subtotal = Unread \/ result.total = Unread \/ result.total < result.subtotal
    THEN 0
    ELSE result.total - result.subtotal

\* Each charge of a result with the tax to be added to it.
WithTaxShares(result) ==
    LET amounts == Amounts(result.items)
        shares  == IF amounts = <<>> \/ TaxOf(result) = 0 THEN [i \in DOMAIN amounts |-> 0]
                   ELSE ApportionTax(amounts, TaxOf(result))
    IN  [i \in DOMAIN amounts |-> [item |-> result.items[i], share |-> shares[i]]]
=============================================================================
