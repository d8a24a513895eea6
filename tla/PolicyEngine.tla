---------------------------- MODULE PolicyEngine ----------------------------
(***************************************************************************)
(* What a claim line is worth: backend/src/expense_api/policy.             *)
(*                                                                         *)
(* A line is [head, label, gross, share, paidBy, day, nights, proof]; of a *)
(* rule's context only [claimed], the meals allowed so far by day, changes *)
(* from line to line. A rule is what it takes off a line, or when it holds *)
(* the line; decisions that do neither (conveyance on actuals, a warning,  *)
(* an approval) are remarks and left out.                                  *)
(***************************************************************************)
EXTENDS Integers

NoLimit == -1       \* a parameter the policy version does not have
NoDay   == -1       \* a line without a date
NoProof == -1

CONSTANTS
    TariffLimit,        \* the city class's room tariff per night, or NoLimit
    MealCap,            \* the city class's meals per day, or NoLimit
    BillAbove,          \* a meal above this needs a bill, or NoLimit
    ApprovalAbove,      \* entertainment above this needs prior approval, or NoLimit
    NeverPaid           \* the labels in which a non-reimbursable category's name occurs

ASSUME PolicyAssumption ==
    /\ {TariffLimit, MealCap, BillAbove, ApprovalAbove} \subseteq Nat \cup {NoLimit}
    /\ NeverPaid \in SUBSET STRING

Heads == {"transport", "meals", "lodging", "business_entertainment", "misc"}

Claimable(line) == line.gross + line.share

-----------------------------------------------------------------------------
(* The rules that take something off *)

\* a / n to the nearest, a half to the even neighbour: Decimal.quantize as it comes.
HalfEven(a, n) ==
    LET q == a \div n
        r == a % n
    IN  IF 2 * r > n \/ (2 * r = n /\ q % 2 = 1) THEN q + 1 ELSE q

\* The tariff is compared before tax, and per night of the stay: at least one.
OverTariff(line) ==
    LET nights   == IF line.nights = 0 THEN 1 ELSE line.nights
        perNight == HalfEven(line.gross, nights)
    IN  IF line.head = "lodging" /\ TariffLimit # NoLimit /\ perNight > TariffLimit
        THEN (perNight - TariffLimit) * nights
        ELSE 0

\* Faulty: a meal is compared with the cap by itself.
OverDailyCapAlone(line, claimed) ==
    IF line.head = "meals" /\ MealCap # NoLimit /\ line.day # NoDay /\ Claimable(line) > MealCap
    THEN Claimable(line) - MealCap
    ELSE 0

\* The cap is the day's: what the day's earlier meals were allowed counts against it.
OverDailyCap(line, claimed) ==
    IF /\ line.head = "meals"
       /\ MealCap # NoLimit
       /\ line.day # NoDay
       /\ claimed[line.day] + Claimable(line) > MealCap
    THEN claimed[line.day] + Claimable(line) - MealCap
    ELSE 0

\* The line goes with the tax on it.
NonReimbursable(line) == IF line.label \in NeverPaid THEN Claimable(line) ELSE 0

-----------------------------------------------------------------------------
(* The rules that hold a line *)

\* The pipeline sets no attendees in the context, so all entertainment is held.
LacksAttendees(line) == line.head = "business_entertainment"

\* Nor does it set a prior approval.
LacksPriorApproval(line) ==
    /\ line.head = "business_entertainment"
    /\ ApprovalAbove # NoLimit
    /\ Claimable(line) > ApprovalAbove

LacksBill(line) ==
    /\ line.head = "meals"
    /\ BillAbove # NoLimit
    /\ Claimable(line) > BillAbove
    /\ line.proof = NoProof

LacksProof(line) == line.paidBy # "Company" /\ line.proof = NoProof

-----------------------------------------------------------------------------
(* The engine: every rule looks at every line *)

Removed(line, claimed) ==
    OverTariff(line) + OverDailyCap(line, claimed) + NonReimbursable(line)

IsHeld(line) ==
    LacksAttendees(line) \/ LacksPriorApproval(line) \/ LacksBill(line) \/ LacksProof(line)

\* Faulty: rules that overlap take more than the line is worth.
DisallowedUnbounded(line, claimed) == Removed(line, claimed)

\* However many rules fire, a line loses no more than it is worth.
Disallowed(line, claimed) ==
    IF Removed(line, claimed) < Claimable(line) THEN Removed(line, claimed) ELSE Claimable(line)

\* A held line keeps its amounts. A line that loses only a part stays allowed.
EvaluateOne(line, claimed) ==
    LET disallowed == Disallowed(line, claimed)
    IN  [status |-> IF IsHeld(line) THEN "held"
                    ELSE IF disallowed >= Claimable(line) /\ Claimable(line) > 0
                         THEN "disallowed"
                    ELSE "allowed",
         allowed |-> Claimable(line) - disallowed,
         disallowed |-> disallowed]

\* A line settled before the rules: someone else's, the company's, or withdrawn.
Excluded(preset) == [status |-> preset, allowed |-> 0, disallowed |-> 0]
=============================================================================
