----------------------------- MODULE Lifecycle -----------------------------
(***************************************************************************)
(* The vocabulary of a settlement claim: the states it can be in, what may *)
(* follow what, and when a draft may be submitted.                         *)
(* backend/src/expense_api/claims/lifecycle.py and the enumerations of     *)
(* backend/src/expense_api/db/models.py.                                   *)
(***************************************************************************)

ClaimStatus ==
    {"draft", "pending_approval", "pending_finance", "verified",
     "scheduled_for_payment", "paid", "rejected"}

\* With the approvers: submitted, and neither returned nor settled.
Awaiting == {"pending_approval", "pending_finance"}

LineStatus == {"allowed", "disallowed", "held", "rejected", "withdrawn", "memo"}

\* Statuses that take no part in the money, and do not make a claim worth filing.
Excluded == {"rejected", "withdrawn", "memo"}

Decision == {"pending", "approved", "rejected", "returned"}

Role ==
    {"Employee", "Reporting Manager", "Head of Department",
     "Head of Division", "MD", "Finance"}

\* What may follow what. A pair that is not listed is refused.
Transitions ==
    {<<"draft", "pending_approval">>,
     <<"pending_approval", "pending_approval">>,
     <<"pending_approval", "pending_finance">>,
     <<"pending_approval", "draft">>,
     <<"pending_approval", "rejected">>,
     <<"pending_finance", "verified">>,
     <<"pending_finance", "draft">>,
     <<"pending_finance", "rejected">>,
     <<"verified", "scheduled_for_payment">>,
     <<"scheduled_for_payment", "paid">>}

MayFollow(from, to) == <<from, to>> \in Transitions

\* outcome maps each line to its status, or to "absent" when no bill carries it.
\* A held line blocks; so does a claim with nothing reimbursable in it.
CheckCanSubmit(outcome) ==
    /\ \A l \in DOMAIN outcome : outcome[l] # "held"
    /\ \E l \in DOMAIN outcome : outcome[l] \notin Excluded \cup {"absent"}
=============================================================================
