--------------------------- MODULE MCClaimWorkflow ---------------------------
(***************************************************************************)
(* ClaimWorkflow on the employee master of pack/employee_master.csv (those *)
(* of its people who can own or decide the claim) and the matrix of        *)
(* policy/versions/ntx-hr-pol-11-rev4.yaml, in thousands of rupees.        *)
(***************************************************************************)
EXTENDS ClaimWorkflow, TLC

PackDirectory ==
    [manager |-> (4471 :> 2210) @@ (2210 :> 1108) @@ (1108 :> 1002) @@ (1002 :> 1000)
                 @@ (1000 :> NoOne) @@ (3300 :> 1002) @@ (3305 :> 3300),
     role |-> (4471 :> "Employee") @@ (2210 :> "Reporting Manager")
              @@ (1108 :> "Head of Department") @@ (1002 :> "Head of Division")
              @@ (1000 :> "MD") @@ (3300 :> "Finance") @@ (3305 :> "Finance")]

Rev4Matrix ==
    <<[min |-> 0, max |-> 25, roles |-> <<"Reporting Manager">>],
      [min |-> 26, max |-> 75, roles |-> <<"Reporting Manager", "Head of Department">>],
      [min |-> 76, max |-> 200,
       roles |-> <<"Reporting Manager", "Head of Department", "Head of Division">>],
      [min |-> 201, max |-> NoMax, roles |-> FullChain]>>

ASSUME Revision4 == FinanceIsNotInTheMatrix

\* The tariff and the dinner came by mail, the dinner held for its attendees' names; the cab
\* bill is the claimant's to upload, and takes the claim from one band to another.
Bills == {"tariff", "dinner", "cab"}
MailedBills == {"tariff", "dinner"}
BillVerdict == ("tariff" :> "allowed") @@ ("dinner" :> "held") @@ ("cab" :> "allowed")
BillAllowed == ("tariff" :> 20) @@ ("dinner" :> 8) @@ ("cab" :> 70)

\* Two bills that need nothing: one level and Finance, or two levels and Finance.
PlainBills == {"tariff", "cab"}
PlainMailed == {"tariff"}
PlainVerdict == ("tariff" :> "allowed") @@ ("cab" :> "allowed")
PlainAllowed == ("tariff" :> 12) @@ ("cab" :> 20)

\* The same two bills, taking the claim to the level that a head of division decides.
LargeAllowed == ("tariff" :> 12) @@ ("cab" :> 80)

Traveller == {4471}
Manager == {2210}
FinanceHead == {3300}
=============================================================================
