----------------------------- MODULE Settlement -----------------------------
(***************************************************************************)
(* The draft claim a trip's evidence comes to: build_claim() of            *)
(* backend/src/expense_api/claims/pipeline.py with drafting.py,            *)
(* attribution.py, summary.py, evidence/dedup.py and policy/engine.py.     *)
(*                                                                         *)
(* Every read of a draft evaluates all of it again: the bills are read in  *)
(* the order of their names, charges that were seen before are dropped,    *)
(* the rest become lines, and the lines are judged one by one, oldest      *)
(* first, because a day's meals share a cap. Between evaluations the       *)
(* claimant withdraws lines, and a receipt they already sent arrives again,*)
(* from the vendor or forwarded by somebody else.                          *)
(***************************************************************************)
EXTENDS Reading, PolicyEngine

CONSTANTS
    Trips,          \* the sets of bills a trip may have
    Files,          \* the places a file name may take
    Senders,        \* the names under which receipts are forwarded
    Days,           \* the days bills are dated
    Nights,         \* the nights of the trip: each its evening's day
    FoodRows,       \* the labels that name food
    LodgingRows,    \* the labels that name lodging; "in-room dining" names both
    Advance,        \* the advance drawn
    MaxChanges      \* bound: withdrawals and forwards

ASSUME SettlementAssumption ==
    /\ Days \in SUBSET Nat
    /\ Nights \in SUBSET Nat
    /\ Files \in SUBSET Nat
    /\ Senders \in SUBSET STRING
    /\ Advance \in Nat
    /\ MaxChanges \in Nat

Dated == Days \cup {NoDay}

BillType ==
    [file : Nat, kind : Kinds, known : BOOLEAN, label : STRING,
     rows : Seq([label : STRING, amount : Nat \cup {Unread}, day : Dated]),
     subtotal : Nat \cup {Unread}, total : Nat \cup {Unread}, parts : Seq(Int),
     merchant : STRING, branded : BOOLEAN, sender : STRING,
     day : Dated, clock : Int, no : Int, nights : Nat,
     payer : {"claimant", "other", "nobody"}, payment : {"company", "own", "silent"},
     hosted : BOOLEAN,
     typed : Seq([label : STRING, amount : Nat, day : Dated, nights : Nat])]

\* A folio that adds a tax has charges to share it out over: the code raises where they come to
\* nothing. Each share is rounded by half a unit at most, and all of that goes on the largest
\* charge: it must be worth it, which fails only for a folio of dozens of charges of a few paise.
TaxCanBeShared(b) ==
    b.kind = "hotel" /\ b.subtotal # Unread /\ b.subtotal < b.total =>
        LET amounts == Amounts(Readable(b.rows)) IN
        /\ b.subtotal > 0
        /\ \A i \in DOMAIN amounts : \E j \in DOMAIN amounts : Len(amounts) =< 2 * amounts[j]

\* A trip has finitely many bills, each a file of its own.
ASSUME TripsAssumption ==
    \A trip \in Trips :
        /\ IsFiniteSet(trip)
        /\ \A b \in trip : b \in BillType /\ TaxCanBeShared(b)
        /\ \A a, b \in trip : a.file = b.file => a = b

VARIABLES
    bills,      \* evidence_document rows with what their files say
    withdrawn,  \* the descriptions withdrawn from this trip's claim
    phase,      \* "reading" until the lines are drafted, "judging", "settled"
    lines,      \* LineUnderReview, in the order of the evidence
    outcomes,   \* LineOutcome by the index of its line, as far as judged
    claimed,    \* EvaluationContext.meals_claimed_by_date
    summary,    \* SettlementSummary with the coverage gaps
    before,     \* history: the summary before the last change of the evidence,
    change      \* and what that change was

vars == <<bills, withdrawn, phase, lines, outcomes, claimed, summary, before, change>>

-----------------------------------------------------------------------------
(* Lines from charges *)

\* A set as a sequence, in the order of its elements' places.
Sorted(S, place) ==
    [n \in 1..Cardinality(S) |->
        CHOOSE x \in S : Cardinality({y \in S : place[y] < place[x]}) = n - 1]

InOrder(bs) == Sorted(bs, [b \in bs |-> b.file])

\* The charges one document brings to the claim, with the document they come from. A document
\* of another kind, or one that needs input, brings none.
EntriesOf(b) ==
    LET result == Read(b)
        paired == WithTaxShares(result)
    IN  IF b.kind \notin Producing \/ result.status # "extracted" THEN <<>>
        ELSE [i \in DOMAIN paired |->
                [item |-> paired[i].item, share |-> paired[i].share, kind |-> b.kind,
                 proof |-> b.file, hosted |-> b.hosted]]

Entries(bs) ==
    LET ordered == InOrder(bs)
    IN  FlattenSeq([n \in DOMAIN ordered |-> EntriesOf(ordered[n])])

\* Faulty: a receipt is known by its message.
FingerprintPerMessage(entry) ==
    <<entry.item.merchant, entry.item.day, entry.item.amount, entry.item.no, entry.proof>>

\* What makes two charges the same transaction: merchant, time, amount and bill number.
Fingerprint(entry) ==
    <<entry.item.merchant, entry.item.day, entry.item.clock, entry.item.amount, entry.item.no>>

\* The first of each fingerprint is kept.
Kept(entries) ==
    {i \in DOMAIN entries :
        \A j \in 1..i - 1 : Fingerprint(entries[j]) # Fingerprint(entries[i])}

\* Food goes before lodging.
ClassifyHead(entry) ==
    CASE entry.kind \in {"cab", "forward", "flight"} -> "transport"
      [] entry.kind = "hotel" -> IF entry.item.label \in FoodRows THEN "meals"
                                 ELSE IF entry.item.label \in LodgingRows THEN "lodging"
                                 ELSE "misc"
      [] entry.kind = "restaurant" -> IF entry.hosted THEN "business_entertainment" ELSE "meals"

\* Employee, unless the payment evidence says otherwise.
DerivePaidBy(item) == IF item.payment = "company" THEN "Company" ELSE "Employee"

\* Faulty: whoever forwards a receipt may claim it.
PresetOfForwarded(entry) ==
    IF entry.item.label \in withdrawn THEN "withdrawn"
    ELSE IF DerivePaidBy(entry.item) = "Company" THEN "memo"
    ELSE "none"

\* What is settled before policy: a withdrawal first, then whose expense it is, then who paid.
Preset(entry) ==
    IF entry.item.label \in withdrawn THEN "withdrawn"
    ELSE IF entry.item.payer = "other" THEN "rejected"
    ELSE IF DerivePaidBy(entry.item) = "Company" THEN "memo"
    ELSE "none"

DraftLine(entry) ==
    [head |-> ClassifyHead(entry), label |-> entry.item.label, gross |-> entry.item.amount,
     share |-> entry.share, paidBy |-> DerivePaidBy(entry.item), day |-> entry.item.day,
     nights |-> entry.item.nights, proof |-> entry.proof, preset |-> Preset(entry)]

DraftLines(bs) ==
    LET entries == Entries(bs)
        kept    == Sorted(Kept(entries), [i \in Kept(entries) |-> i])
    IN  [n \in DOMAIN kept |-> DraftLine(entries[kept[n]])]

\* The nights no stay covers. Every hotel charge with nights counts, whatever becomes of it.
CoverageGaps(bs) ==
    LET entries == Entries(bs)
        stays   == {i \in DOMAIN entries : /\ entries[i].kind = "hotel"
                                           /\ entries[i].item.nights > 0
                                           /\ entries[i].item.day # NoDay}
    IN  Nights \ UNION {entries[i].item.day .. entries[i].item.day + entries[i].item.nights - 1 :
                           i \in stays}

-----------------------------------------------------------------------------
(* The settlement summary *)

Reimbursed == {i \in DOMAIN outcomes : outcomes[i].status \notin {"rejected", "withdrawn", "memo"}}

\* Faulty: a withdrawn line still counts towards the gross.
CountedWithWithdrawn ==
    {i \in DOMAIN outcomes :
        lines[i].paidBy = "Employee" /\ outcomes[i].status \notin {"rejected", "memo"}}

Counted == {i \in Reimbursed : lines[i].paidBy = "Employee"}

Positive(n) == IF n > 0 THEN n ELSE 0

Summary ==
    LET claimable  == [i \in DOMAIN lines |-> Claimable(lines[i])]
        gross      == SumFunctionOnSet(claimable, Counted)
        memo       == {i \in DOMAIN lines : lines[i].paidBy = "Company"}
        disallowed == SumFunctionOnSet([i \in DOMAIN outcomes |-> outcomes[i].disallowed], Reimbursed)
    IN  [gross |-> gross, memo |-> SumFunctionOnSet(claimable, memo), disallowed |-> disallowed,
         net |-> gross - disallowed,
         payable |-> Positive(gross - disallowed - Advance),
         recoverable |-> Positive(Advance - (gross - disallowed)),
         gaps |-> CoverageGaps(bills)]

NoSummary == [gross |-> 0, memo |-> 0, disallowed |-> 0, net |-> 0,
              payable |-> 0, recoverable |-> 0, gaps |-> {}]

-----------------------------------------------------------------------------
(* Actions *)

NothingClaimed == [d \in Days |-> 0]

Init ==
    /\ bills \in Trips
    /\ withdrawn = {}
    /\ phase = "reading"
    /\ lines = <<>>
    /\ outcomes = <<>>
    /\ claimed = NothingClaimed
    /\ summary = NoSummary
    /\ before = NoSummary
    /\ change = <<>>

\* Documents to lines.
Draft ==
    /\ phase = "reading"
    /\ lines' = DraftLines(bills)
    /\ outcomes' = <<>>
    /\ claimed' = NothingClaimed
    /\ phase' = "judging"
    /\ UNCHANGED <<bills, withdrawn, summary, before, change>>

\* Line i is judged before line j: by date, the undated last, then as they came.
Precedes(i, j) ==
    IF lines[i].day = lines[j].day THEN i < j
    ELSE \/ lines[j].day = NoDay
         \/ lines[i].day # NoDay /\ lines[i].day < lines[j].day

IsNext(i) ==
    /\ i \notin DOMAIN outcomes
    /\ \A j \in DOMAIN lines \ (DOMAIN outcomes \cup {i}) : Precedes(i, j)

OutcomeOf(line) ==
    IF line.preset # "none" THEN Excluded(line.preset) ELSE EvaluateOne(line, claimed)

\* Faulty: the next meal sees what this one cost, not what it was allowed.
CountsTowardsAsClaimed(line, outcome) ==
    IF line.head = "meals" /\ line.day # NoDay /\ line.preset = "none" THEN Claimable(line) ELSE 0

\* What the next meal of the day sees of this line.
CountsTowards(line, outcome) ==
    IF line.head = "meals" /\ line.day # NoDay /\ outcome.allowed > 0 THEN outcome.allowed ELSE 0

\* One line of evaluate_lines().
Judge(i) ==
    /\ phase = "judging"
    /\ IsNext(i)
    /\ LET outcome == OutcomeOf(lines[i]) IN
       /\ outcomes' = [j \in DOMAIN outcomes \cup {i} |-> IF j = i THEN outcome ELSE outcomes[j]]
       /\ claimed' = [d \in Days |-> IF d = lines[i].day
                                     THEN claimed[d] + CountsTowards(lines[i], outcome)
                                     ELSE claimed[d]]
    /\ UNCHANGED <<bills, withdrawn, phase, lines, summary, before, change>>

Settle ==
    /\ phase = "judging"
    /\ DOMAIN outcomes = DOMAIN lines
    /\ summary' = Summary
    /\ phase' = "settled"
    /\ UNCHANGED <<bills, withdrawn, lines, outcomes, claimed, before, change>>

\* A change of the evidence, after which the draft is evaluated anew.
Changing(what) ==
    /\ phase = "settled"
    /\ Len(change) < MaxChanges
    /\ change' = Append(change, what)
    /\ before' = summary
    /\ phase' = "reading"
    /\ lines' = <<>>
    /\ outcomes' = <<>>
    /\ claimed' = NothingClaimed
    /\ UNCHANGED summary

\* A description is withdrawn: every line that has it.
Withdraw(label) ==
    /\ Changing("withdrawn")
    /\ label \notin withdrawn
    /\ withdrawn' = withdrawn \cup {label}
    /\ UNCHANGED bills

\* A bill's receipt arrives once more, by another message: the vendor's, or one that somebody
\* forwards, a ride's perhaps a colleague's. What is printed on the receipt stays the same; who
\* its charges are from may not.
Forward(b, file, kind, sender) ==
    LET copy == [b EXCEPT !.file = file, !.kind = kind, !.sender = sender] IN
    /\ Changing(IF MerchantOf(copy) = MerchantOf(b) THEN "forwarded" ELSE "renamed")
    /\ b.typed = <<>>
    /\ \A other \in bills : other.file # file
    /\ kind = b.kind \/ (kind = "forward" /\ b.kind = "cab")
    /\ bills' = bills \cup {copy}
    /\ UNCHANGED withdrawn

Next ==
    \/ Draft
    \/ \E i \in DOMAIN lines : Judge(i)
    \/ Settle
    \/ \E i \in DOMAIN lines : Withdraw(lines[i].label)
    \/ \E b \in bills, file \in Files, kind \in Kinds :
           \E sender \in Senders \cup {b.sender} : Forward(b, file, kind, sender)

Spec == Init /\ [][Next]_vars

-----------------------------------------------------------------------------
(* Properties *)

LineType ==
    [head : Heads, label : STRING, gross : Nat, share : Int, paidBy : {"Company", "Employee"},
     day : Dated, nights : Nat, proof : Nat,
     preset : {"none", "withdrawn", "rejected", "memo"}]

OutcomeType ==
    [status : {"allowed", "disallowed", "held", "withdrawn", "rejected", "memo"},
     allowed : Nat, disallowed : Nat]

\* Type invariant: whatever is evaluated, lines name a head, a payer and a day of the trip, and
\* no line is allowed or disallowed a negative amount.
SettlementTypeOK ==
    /\ withdrawn \subseteq STRING
    /\ phase \in {"reading", "judging", "settled"}
    /\ \A i \in DOMAIN lines : lines[i] \in LineType
    /\ DOMAIN outcomes \subseteq DOMAIN lines
    /\ \A i \in DOMAIN outcomes : outcomes[i] \in OutcomeType
    /\ claimed \in [Days -> Nat]
    /\ {summary.payable, summary.recoverable, summary.gross} \subseteq Nat

Meals(d) == {i \in DOMAIN outcomes :
                lines[i].head = "meals" /\ lines[i].day = d /\ lines[i].preset = "none"}

\* The running total of a day's meals that evaluate_lines() carries from line to line never
\* passes the daily cap: the next meal is measured against what is left.
RunningTotalWithinCap == MealCap # NoLimit => \A d \in Days : claimed[d] =< MealCap

\* However many meals a day has, and in whatever order they are judged, the day is allowed the
\* smaller of the cap and what its reimbursable meals cost: evaluate_lines() neither pays over
\* the cap nor lets a meal that is not paid use it up.
DayIsCapped ==
    phase = "settled" /\ MealCap # NoLimit =>
        \A d \in Days :
            LET paid == {i \in Meals(d) : lines[i].label \notin NeverPaid}
                cost == SumFunctionOnSet([i \in DOMAIN lines |-> Claimable(lines[i])], paid)
            IN  SumFunctionOnSet([i \in DOMAIN outcomes |-> outcomes[i].allowed], Meals(d))
                    = IF cost < MealCap THEN cost ELSE MealCap

\* The net that summarise() derives as gross less disallowed is what the lines were allowed; it
\* and the advance leave something payable or something recoverable, not both.
NetIsWhatIsAllowed ==
    phase = "settled" =>
        /\ summary.net = SumFunction([i \in DOMAIN outcomes |-> outcomes[i].allowed])
        /\ summary.payable - summary.recoverable = summary.net - Advance
        /\ summary.payable = 0 \/ summary.recoverable = 0

\* What a bill says it comes to. A folio that takes something off its sub total is claimed at
\* its charges: nothing is shared out over them. An e-ticket comes to what its sectors do.
Printed(b) ==
    IF b.typed # <<>> THEN SumFunction(Amounts(b.typed))
    ELSE IF b.kind = "flight" /\ b.known /\ Readable(b.rows) # <<>>
         THEN SumFunction(Amounts(Readable(b.rows)))
    ELSE IF b.total > b.subtotal THEN b.total
    ELSE Positive(b.subtotal)

\* Whose expense a bill is taken for. The photo of a restaurant bill names nobody, and nor does
\* a correction, whoever is named on the bill it corrects.
PayerFound(b) ==
    IF b.typed # <<>> \/ (b.kind = "restaurant" /\ b.known) THEN "nobody" ELSE b.payer

\* What stays the same when a receipt comes again under the same name: what is printed on it,
\* and who its charges are from.
PaperOf(b) ==
    [b EXCEPT !.file = 0, !.sender = MerchantOf(b), !.kind = IF @ = "forward" THEN "cab" ELSE @]

\* The bills the claimant paid themselves, each once under each name its charges are from.
OwnPapers ==
    {PaperOf(b) :
        b \in {x \in bills : x.kind # "context" /\ PayerFound(x) # "other"
                            /\ x.payment # "company"}}

\* No claim is worth more than the bills the claimant paid, each counted once under each name its
\* charges are taken to be from: not by tax added twice, by a colleague's or by the company's
\* bill, nor by a receipt that came twice, except one that _hotel_name() or _vendor_name() read
\* as another vendor's when it came again (ForwardsArePaidOnce).
NeverMoreThanTheBills ==
    phase = "settled" =>
        summary.net =< SumFunctionOnSet([b \in OwnPapers |-> Printed(b)], OwnPapers)

\* Where two bills have a charge in common, they are the same receipt.
Apart(bs) ==
    \A a, b \in bs : \A i \in DOMAIN EntriesOf(a), k \in DOMAIN EntriesOf(b) :
        Fingerprint(EntriesOf(a)[i]) = Fingerprint(EntriesOf(b)[k]) => PaperOf(a) = PaperOf(b)

\* The charges of one bill that find_duplicates() takes for an earlier charge of the same bill:
\* a folio dates every row at check-in, so its rooms of one price look alike.
Collapsed(entries) ==
    {k \in DOMAIN entries :
        \E j \in 1..k - 1 : Fingerprint(entries[j]) = Fingerprint(entries[k])}

ClaimOf(entry) == entry.item.amount + entry.share

ShortBy(entries) ==
    SumFunctionOnSet([k \in DOMAIN entries |-> ClaimOf(entries[k])], Collapsed(entries))

LinesOf(b) == {n \in DOMAIN lines : lines[n].proof = b.file}

\* A bill brings the draft all of what it says it comes to, or nothing: the lines drafted from it,
\* with the tax shared out over them, come to its printed total to the last unit, short of
\* exactly the charges that one before them on the same bill was taken for; nothing is lost to
\* another bill's charge. A folio whose charges were found not to add up brings no line, nor is
\* it taken at its total by the generic reader. An e-ticket states no total of its own; a total
\* below the sub total is not looked at; and bills that pass for one another are left out.
WholeBillIsClaimed ==
    phase = "settled" =>
        \/ \A b \in {x \in bills : x.kind # "flight" /\ x.typed = <<>>} :
              LET charges == Readable(b.rows) IN
              /\ LinesOf(b) # {} /\ b.total # Unread /\ b.subtotal =< b.total =>
                   SumFunctionOnSet([n \in DOMAIN lines |-> Claimable(lines[n])], LinesOf(b))
                      = b.total - ShortBy(EntriesOf(b))
              /\ /\ b.kind = "hotel" /\ b.known
                 /\ charges # <<>>
                 /\ b.subtotal # Unread /\ SumFunction(Amounts(charges)) # b.subtotal
                 => LinesOf(b) = {}
        \/ ~Apart(bills)

LastChange == IF change = <<>> THEN "none" ELSE change[Len(change)]

\* A receipt that comes a second time, before or after the first, in a message of the same kind
\* or as a forward, changes no figure of the settlement where its charges are still from whoever
\* they were from, unless it passes for another receipt: of such twins the first by its name is
\* charged.
ForwardsUnderOneNameArePaidOnce ==
    phase = "settled" /\ LastChange = "forwarded" => summary = before \/ ~Apart(bills)

\* A receipt that comes a second time changes no figure of the settlement, whoever forwards it:
\* "this has to be stable for the same vendor across two messages", says _vendor_name() of the
\* merchant, which it takes from the message's display name.
ForwardsArePaidOnce ==
    phase = "settled" /\ LastChange \in {"forwarded", "renamed"} =>
        summary = before \/ ~Apart(bills)

\* Taking a line off the claim never makes the claim worth more, although it makes room under
\* its day's cap.
WithdrawingNeverPaysMore ==
    phase = "settled" /\ LastChange = "withdrawn" => summary.net =< before.net
=============================================================================
