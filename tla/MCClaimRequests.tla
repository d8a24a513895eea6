-------------------------- MODULE MCClaimRequests --------------------------
(***************************************************************************)
(* ClaimRequests on a line of two levels and one bill.                     *)
(***************************************************************************)
EXTENDS ClaimRequests, TLC

\* NX-4471, their reporting manager and the controller.
SmallDirectory ==
    [manager |-> (4471 :> 2210) @@ (2210 :> NoOne) @@ (3300 :> NoOne),
     role |-> (4471 :> "Employee") @@ (2210 :> "Reporting Manager") @@ (3300 :> "Finance")]

SmallMatrix == <<[min |-> 0, max |-> NoMax, roles |-> <<"Reporting Manager">>]>>

Traveller == {4471}
TwoBills == {"tariff", "cab"}
OneMailed == {"tariff"}
BillsAllowed == [l \in TwoBills |-> "allowed"]
BillAmounts == ("tariff" :> 12) @@ ("cab" :> 20)

TwoFilings == {"first", "second"}
OneDeciding == {"decision"}
OneFiling == {"first"}
TwoDecidings == {"decision", "again"}
=============================================================================
