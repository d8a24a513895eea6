--------------------------- MODULE ClaimRequests ---------------------------
(***************************************************************************)
(* The handlers of ClaimWorkflow with their requests in flight.            *)
(*                                                                         *)
(* A handler reads the claim, awaits, and writes from what it has read:    *)
(* its session does not read a row again that it already holds, and an     *)
(* UPDATE names the row by id alone.  The write lock makes a request's     *)
(* writes one step, and leaves everything before them to interleave.       *)
(* A read is taken to be one snapshot.                                     *)
(***************************************************************************)
EXTENDS ClaimWorkflow

CONSTANTS
    Filings,    \* the claimant's requests that can be in flight at once
    Decidings   \* the approvers' requests that can be in flight at once

ASSUME RequestsAssumption == Filings \cap Decidings = {}

VARIABLE
    open        \* what each request in flight has read so far

requestVars == <<vars, open>>

Requests == Filings \cup Decidings

Row == [status |-> status, version |-> version, returns |-> returns, steps |-> steps]

\* The same handlers, on the row a request holds.
Seen(row) ==
    INSTANCE ClaimWorkflow WITH
        status <- row.status, version <- row.version,
        returns <- row.returns, steps <- row.steps

Idle == [at |-> "idle"]

RequestsTypeOK ==
    /\ TypeOK
    /\ \A r \in Requests :
          \/ open[r] = Idle
          \/ r \in Filings /\ open[r].at \in {"upload", "remove", "withdraw"}
                /\ open[r].line \in Lines
          \/ r \in Filings /\ open[r].at \in {"evaluated", "loaded"}
                /\ open[r].outcome \in Figures
          \/ r \in Decidings /\ open[r].at = "deciding" /\ open[r].step \in Step

RequestsInit == Init /\ open = [r \in Requests |-> Idle]

Reads(r, read) ==
    /\ open' = [open EXCEPT ![r] = read]
    /\ UNCHANGED vars

Ends(r) == open' = [open EXCEPT ![r] = Idle]

-----------------------------------------------------------------------------
(* Editing the draft: the claim is found to be a draft, then the file is read or removed *)

OpenEdit(r, edit, l) ==
    /\ open[r] = Idle
    /\ OwnDraft
    /\ edit = "upload" => l \notin draft
    /\ edit = "remove" => l \in draft \ Mailed
    /\ edit = "withdraw" => l \notin withdrawn
    /\ Reads(r, [at |-> edit, line |-> l])

\* Nothing asks again whether the claim is still a draft.
WriteEdit(r) ==
    /\ \/ /\ open[r].at = "upload"
          /\ draft' = draft \cup {open[r].line}
          /\ UNCHANGED withdrawn
       \/ /\ open[r].at = "remove"
          /\ draft' = draft \ {open[r].line}
          /\ UNCHANGED withdrawn
       \/ /\ open[r].at = "withdraw"
          /\ withdrawn' = withdrawn \cup {open[r].line}
          /\ UNCHANGED draft
    /\ Ends(r)
    /\ UNCHANGED <<claimant, shown, claimVars>>

-----------------------------------------------------------------------------
(* Submitting *)

\* _require_own_draft, then build_claim over the evidence as it is.
EvaluateDraft(r) ==
    /\ open[r] = Idle
    /\ OwnDraft
    /\ CanRoute(Directory, Matrix, claimant, NetReimbursable(Outcome))
    /\ CheckCanSubmit(Outcome)
    /\ Reads(r, [at |-> "evaluated", outcome |-> Outcome])

\* materialise.submit loads the claim for itself, and refuses one that has left draft.
LoadForSubmission(r) ==
    /\ open[r].at = "evaluated"
    /\ OwnDraft
    /\ Reads(r, [at |-> "loaded", outcome |-> open[r].outcome, row |-> Row])

\* Faulty: the table has no unique constraint.
FreeOfAlways(rows) == TRUE

\* The unique constraint on (claim, round, sequence).
FreeOf(rows) ==
    \A s \in steps, t \in rows : ~ (s.round = t.round /\ s.sequence = t.sequence)

WriteSubmission(r) ==
    LET q == open[r]
        chain == ChainFor(NetReimbursable(q.outcome))
        rows == {Seen(q.row)!StepRow(i, chain[i]) : i \in DOMAIN chain}
    IN  /\ q.at = "loaded"
        /\ FreeOf(rows)
        /\ frozen' = q.outcome
        /\ steps' = KeptSteps \cup rows
        /\ status' = "pending_approval"
        /\ version' = q.row.version + 1
        /\ trail' = Recorded("claim_submitted", "pending_approval")
        /\ inbox' = Notified("claim_submitted",
                             FirstOf({s \in rows : s.decision = "pending"}))
        /\ Ends(r)
        /\ UNCHANGED <<claimant, draft, withdrawn, returns, shown, signed>>

-----------------------------------------------------------------------------
(* Deciding *)

\* onApproval is where an approval of the step would take the claim.
LeadsTo(decision, onApproval) ==
    IF decision = "approved" THEN onApproval
    ELSE IF decision = "rejected" THEN "rejected" ELSE "draft"

\* Every check that decide and record_decision make, on the claim as it is read.
OpenDecision(r, u, decision) ==
    /\ open[r] = Idle
    /\ decision = "returned" => returns < MaxReturns
    /\ \E s \in steps :
          /\ MayDecide(u, s)
          /\ MayFollow(status, LeadsTo(decision, TargetStatus(s)))
          /\ Reads(r, [at |-> "deciding", decision |-> decision, step |-> s, row |-> Row,
                       figures |-> shown[u].figures])

Kind(decision, to) ==
    IF to = "verified" THEN "claim_verified"
    ELSE [approved |-> "claim_approved", rejected |-> "claim_rejected",
          returned |-> "claim_returned"][decision]

Event(decision) ==
    [approved |-> "approval_approved", rejected |-> "approval_rejected",
     returned |-> "approval_returned"][decision]

\* Only what differs from what was read is written: the decision on its step, superseded on
\* every step of the round that was read, and the status unless it stays as it was.
WriteDecision(r) ==
    LET q == open[r]
        to == LeadsTo(q.decision, Seen(q.row)!TargetStatus(q.step))
        Names(t, s) == t.round = s.round /\ t.sequence = s.sequence
        Ended(t) == q.decision = "returned" /\ t.round = q.row.returns + 1
    IN  /\ q.at = "deciding"
        /\ steps' = {[t EXCEPT !.decision = IF Names(t, q.step) THEN q.decision ELSE @,
                               !.superseded = @ \/ Ended(t)] : t \in steps}
        /\ returns' = IF q.decision = "returned" THEN q.row.returns + 1 ELSE returns
        /\ status' = IF to = q.row.status THEN status ELSE to
        /\ version' = q.row.version + 1
        /\ trail' = Recorded(Event(q.decision), to)
        /\ inbox' = Notified(Kind(q.decision, to),
                             IF q.decision = "approved"
                             THEN FirstOf(Seen(q.row)!LaterThan(q.step)) ELSE {})
        /\ signed' = IF q.decision = "approved"
                     THEN signed \cup {[round |-> q.step.round, sequence |-> q.step.sequence,
                                        figures |-> q.figures]}
                     ELSE signed
        /\ Ends(r)
        /\ UNCHANGED <<claimant, draft, withdrawn, frozen, shown>>

-----------------------------------------------------------------------------

\* The client goes, the lock is not had in time, or a constraint refuses: all is rolled back.
Fail(r) ==
    /\ open[r] # Idle
    /\ Ends(r)
    /\ UNCHANGED vars

\* Every request in flight is lost with the process, and so are the withdrawals.
Crash ==
    /\ withdrawn # {} \/ \E r \in Requests : open[r] # Idle
    /\ withdrawn' = {}
    /\ open' = [r \in Requests |-> Idle]
    /\ UNCHANGED <<claimant, draft, shown, claimVars>>

RequestsNext ==
    \/ \E r \in Filings :
          \/ \E edit \in {"upload", "remove", "withdraw"}, l \in Lines : OpenEdit(r, edit, l)
          \/ WriteEdit(r)
          \/ EvaluateDraft(r)
          \/ LoadForSubmission(r)
          \/ WriteSubmission(r)
    \/ \E r \in Decidings :
          \/ \E u \in Employees(Directory), decision \in {"approved", "rejected", "returned"} :
                OpenDecision(r, u, decision)
          \/ WriteDecision(r)
    \/ \E r \in Requests : Fail(r)
    \/ Crash
    \/ \E u \in Employees(Directory) : Look(u) /\ UNCHANGED open

RequestsSpec == RequestsInit /\ [][RequestsNext]_requestVars

-----------------------------------------------------------------------------

\* Only one decision lands per step: the trail holds as many decisions as the steps do.
OneDecisionPerStep ==
    Cardinality({i \in DOMAIN trail : trail[i].action # "claim_submitted"}) =
        Cardinality({s \in steps : s.approver # NoOne /\ s.decision # "pending"})
=============================================================================
