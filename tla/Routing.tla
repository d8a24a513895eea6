------------------------------ MODULE Routing ------------------------------
(***************************************************************************)
(* Who has to approve a claim: backend/src/expense_api/approvals/routing.py*)
(*                                                                         *)
(* A directory is [manager, role]: two functions over the employee codes   *)
(* of the employee master. A manager is a code (which a bad import may     *)
(* leave out of the master) or NoOne. Codes are naturals, so "the lowest   *)
(* employee code" is the lowest number.                                    *)
(*                                                                         *)
(* An approval matrix is a sequence of bands [min, max, roles].            *)
(***************************************************************************)
EXTENDS Naturals, Sequences, Lifecycle

CONSTANT
    MaxDepth    \* the depth cap of ancestors()

ASSUME MaxDepthAssumption == MaxDepth \in Nat \ {0}

NoOne == 0      \* no manager; no approver
NoMax == 0      \* an open-ended band

Employees(dir) == DOMAIN dir.manager

-----------------------------------------------------------------------------
(* The reporting line *)

\* Line(dir, e)[n] is the n-th person above e, e themselves at 0, and NoOne past the top.
Line(dir, e) ==
    LET up[n \in 0..MaxDepth] ==
          IF n = 0 THEN e
          ELSE IF up[n - 1] \in Employees(dir) THEN dir.manager[up[n - 1]]
          ELSE NoOne
    IN  up

\* Faulty: the walk remembers only the person it started from.
LineBrokenSeenClaimantOnly(dir, e) ==
    LET up == Line(dir, e) IN
    \E n \in 1..MaxDepth :
        /\ up[n] # NoOne
        /\ up[n] \notin Employees(dir) \/ up[n] = e

\* RoutingError: walking up meets someone already met, or a code that nobody has.
LineBroken(dir, e) ==
    LET up == Line(dir, e) IN
    \E n \in 1..MaxDepth :
        /\ up[n] # NoOne
        /\ \/ up[n] \notin Employees(dir)
           \/ up[n] = e
           \/ \E m \in 1..(n - 1) : up[m] = up[n]

\* Faulty: the same search, over a line that begins with the claimant.
NearestCountingOneself(dir, e, role) ==
    LET up == Line(dir, e)
        Fills(n) == up[n] \in Employees(dir) /\ dir.role[up[n]] = role
    IN  IF \E n \in 0..MaxDepth : Fills(n)
        THEN up[CHOOSE n \in 0..MaxDepth : Fills(n) /\ \A m \in 0..(n - 1) : ~ Fills(m)]
        ELSE NoOne

\* The nearest person above e with this role. NoOne: the level is skipped.
Nearest(dir, e, role) ==
    LET up == Line(dir, e)
        Fills(n) == up[n] \in Employees(dir) /\ dir.role[up[n]] = role
    IN  IF \E n \in 1..MaxDepth : Fills(n)
        THEN up[CHOOSE n \in 1..MaxDepth : Fills(n) /\ \A m \in 1..(n - 1) : ~ Fills(m)]
        ELSE NoOne

\* Lowest employee code among Finance staff, wherever they are in the organisation.
FirstFinance(dir) ==
    LET finance == {e \in Employees(dir) : dir.role[e] = "Finance"} IN
    IF finance = {} THEN NoOne
    ELSE CHOOSE e \in finance : \A f \in finance : e <= f

-----------------------------------------------------------------------------
(* The approval matrix *)

Covers(band, value) == band.min <= value /\ (band.max = NoMax \/ value <= band.max)

Covered(matrix, value) == \E i \in DOMAIN matrix : Covers(matrix[i], value)

\* Faulty: the roles of a band are looked up counting the bands from the other end.
RolesForValueUpsideDown(matrix, value) ==
    matrix[CHOOSE i \in DOMAIN matrix : Covers(matrix[Len(matrix) + 1 - i], value)].roles

\* The first band that covers the value.
RolesForValue(matrix, value) ==
    matrix[CHOOSE i \in DOMAIN matrix :
              /\ Covers(matrix[i], value)
              /\ \A j \in 1..(i - 1) : ~ Covers(matrix[j], value)].roles

FullChain == <<"Reporting Manager", "Head of Department", "Head of Division", "MD">>

RolesIn(seq) == {seq[i] : i \in DOMAIN seq}

\* Faulty: the whole chain is added, those it has already among it.
RequiredRepeating(matrix, value, international) ==
    LET roles == RolesForValue(matrix, value) IN
    IF international THEN roles \o FullChain ELSE roles

\* International travel needs the full chain plus MD, whatever the value: each level of it
\* that the roles so far lack is added at their end.
Required(matrix, value, international) ==
    LET roles == RolesForValue(matrix, value)
        asked[n \in 0..Len(FullChain)] ==
          IF n = 0 THEN roles
          ELSE IF FullChain[n] \in RolesIn(asked[n - 1]) THEN asked[n - 1]
          ELSE Append(asked[n - 1], FullChain[n])
    IN  IF international THEN asked[Len(FullChain)] ELSE roles

-----------------------------------------------------------------------------
(* The chain *)

CanRoute(dir, matrix, e, value) == Covered(matrix, value) /\ ~ LineBroken(dir, e)

\* The business levels in order, then Finance verification on every claim.
ResolveChain(dir, matrix, e, value, international) ==
    LET roles == Required(matrix, value, international) IN
    [i \in 1..(Len(roles) + 1) |->
        IF i <= Len(roles)
        THEN [role |-> roles[i], approver |-> Nearest(dir, e, roles[i])]
        ELSE [role |-> "Finance", approver |-> FirstFinance(dir)]]
=============================================================================
