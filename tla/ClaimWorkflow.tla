--------------------------- MODULE ClaimWorkflow ---------------------------
(***************************************************************************)
(* One trip's settlement claim, from its first bill to verification: the   *)
(* claimant's draft, its submission, and the approvers' decisions.         *)
(*                                                                         *)
(* Every action is one request handler run to its commit, with nothing in  *)
(* between: the claim's rows as the next request finds them.  A request    *)
(* that is refused (4xx) changes nothing and is not a step.                *)
(*                                                                         *)
(* A line stands for every bill line with one description, which is how a  *)
(* withdrawal names it; its policy verdict and allowed amount are given.   *)
(***************************************************************************)
EXTENDS Routing, FiniteSets, Functions

CONSTANTS
    Directory,      \* the employee master
    Matrix,         \* the approval matrix of the policy version in force
    Claimants,      \* who may own the trip
    Lines,          \* the lines that bills on this trip can carry
    Mailed,         \* those that arrived by mail: their bills cannot be removed
    Verdict,        \* what policy says of each line, withdrawal apart
    Allowed,        \* the amount policy allows on each line
    MaxReturns      \* bound: how often approvers send the claim back

ASSUME WorkflowAssumption ==
    /\ Employees(Directory) \subseteq Nat \ {NoOne}
    /\ Directory.role \in [Employees(Directory) -> Role]
    /\ \E e \in Employees(Directory) : Directory.role[e] = "Finance"
    /\ Matrix \in Seq([min : Nat, max : Nat, roles : Seq(Role)])
    /\ \A i \in DOMAIN Matrix : Len(Matrix[i].roles) <= Len(FullChain)
    /\ Claimants \subseteq Employees(Directory)
    /\ Mailed \subseteq Lines
    /\ Verdict \in [Lines -> LineStatus]
    /\ Allowed \in [Lines -> Nat]
    /\ MaxReturns \in Nat

\* The matrix leaves Finance to the last level, which every chain ends with.
FinanceIsNotInTheMatrix == \A i \in DOMAIN Matrix : "Finance" \notin RolesIn(Matrix[i].roles)

VARIABLES
    claimant,   \* travel_request.employee_id
    draft,      \* the lines on the trip's evidence
    withdrawn,  \* withdrawals._WITHDRAWN for this trip: memory of the process
    status, version, returns,       \* the settlement_claim row
    frozen,     \* its claim_line rows: the outcome of each line when submitted
    steps,      \* the approval_step rows of every round
    inbox,      \* the notification rows, in order
    trail,      \* the claim_event rows that name the claim, in order
    shown,      \* what each approver's screen last showed: a version and figures
    signed      \* history: which figures each approval was given to

vars == <<claimant, draft, withdrawn, status, version, returns, frozen, steps,
          inbox, trail, shown, signed>>

claimVars == <<status, version, returns, frozen, steps, inbox, trail, signed>>

Figures == [Lines -> LineStatus \cup {"absent"}]

Step ==
    [round : Nat \ {0}, sequence : Nat \ {0}, role : Role,
     approver : Employees(Directory) \cup {NoOne}, decision : Decision, superseded : BOOLEAN]

Kinds ==
    {"claim_submitted", "awaiting_your_approval", "claim_approved",
     "claim_returned", "claim_rejected", "claim_verified"}

Actions ==
    {"claim_submitted", "approval_approved", "approval_returned", "approval_rejected"}

TypeOK ==
    /\ claimant \in Claimants
    /\ draft \subseteq Lines
    /\ withdrawn \subseteq Lines
    /\ status \in ClaimStatus
    /\ version \in Nat \ {0}
    /\ returns \in Nat
    /\ frozen \in Figures
    /\ steps \subseteq Step
    /\ inbox \in Seq([to : Employees(Directory), kind : Kinds])
    /\ trail \in Seq([action : Actions, status : ClaimStatus])
    /\ shown \in [Employees(Directory) -> [version : Nat, figures : Figures]]
    /\ signed \subseteq [round : Nat \ {0}, sequence : Nat \ {0}, figures : Figures]

Nothing == [l \in Lines |-> "absent"]

Init ==
    /\ claimant \in Claimants
    /\ draft = Mailed
    /\ withdrawn = {}
    /\ status = "draft"
    /\ version = 1
    /\ returns = 0
    /\ frozen = Nothing
    /\ steps = {}
    /\ inbox = <<>>
    /\ trail = <<>>
    /\ shown = [e \in Employees(Directory) |-> [version |-> 0, figures |-> Nothing]]
    /\ signed = {}

-----------------------------------------------------------------------------
(* The draft *)

\* What the pipeline makes of the evidence. A withdrawal goes before any other verdict.
Outcome ==
    [l \in Lines |-> IF l \notin draft THEN "absent"
                     ELSE IF l \in withdrawn THEN "withdrawn"
                     ELSE Verdict[l]]

\* The value the matrix is keyed on: after disallowances, excluded lines left out.
NetReimbursable(outcome) ==
    SumFunctionOnSet(Allowed, {l \in Lines : outcome[l] \notin Excluded \cup {"absent"}})

\* The chain of a claim of this value. Nothing asks whether the trip was international.
ChainFor(value) == ResolveChain(Directory, Matrix, claimant, value, FALSE)

OwnDraft == status = "draft"

Upload(l) ==
    /\ OwnDraft
    /\ l \notin draft
    /\ draft' = draft \cup {l}
    /\ UNCHANGED <<claimant, withdrawn, shown, claimVars>>

\* Mailed evidence is not removable.
Remove(l) ==
    /\ OwnDraft
    /\ l \in draft \ Mailed
    /\ draft' = draft \ {l}
    /\ UNCHANGED <<claimant, withdrawn, shown, claimVars>>

\* The description is free text: it may name a line no bill carries yet.
Withdraw(l) ==
    /\ OwnDraft
    /\ l \notin withdrawn
    /\ withdrawn' = withdrawn \cup {l}
    /\ UNCHANGED <<claimant, draft, shown, claimVars>>

\* Withdrawals are kept by the process: a restart forgets them, whatever the claim's state.
Restart ==
    /\ withdrawn # {}
    /\ withdrawn' = {}
    /\ UNCHANGED <<claimant, draft, shown, claimVars>>

-----------------------------------------------------------------------------
(* The chain in force *)

Round == returns + 1

CurrentRoundSteps == {s \in steps : ~ s.superseded /\ s.round = Round}

Pending == {s \in CurrentRoundSteps : s.decision = "pending"}

IsFirstOf(s, set) == s \in set /\ \A t \in set : s.sequence <= t.sequence

FirstOf(set) == {s \in set : IsFirstOf(s, set)}

\* Faulty: any level still to come may act.
IsFrontAnyLevel(s) == s \in Pending

\* The step the claim is waiting on.
IsFront(s) == IsFirstOf(s, Pending)

LaterThan(s) == {t \in Pending : t.sequence > s.sequence}

-----------------------------------------------------------------------------
(* Writing to the audit trail and to the inboxes *)

\* Faulty: a return leaves no event.
RecordedUnlessReturned(action, to) ==
    IF action = "approval_returned" THEN trail
    ELSE Append(trail, [action |-> action, status |-> to])

Recorded(action, to) == Append(trail, [action |-> action, status |-> to])

\* Faulty: only the claimant hears of it.
NotifiedClaimantOnly(kind, next) == inbox \o <<[to |-> claimant, kind |-> kind]>>

\* The claimant always hears; so does the approver of the step that is next, if any.
Notified(kind, next) ==
    inbox \o <<[to |-> claimant, kind |-> kind]>>
          \o IF next = {} THEN <<>>
             ELSE <<[to |-> (CHOOSE s \in next : TRUE).approver,
                     kind |-> "awaiting_your_approval"]>>

-----------------------------------------------------------------------------
(* Submission *)

\* Faulty: every submission opens the first round.
RoundOfSubmissionFixed == 1

\* Faulty: the count of returns is taken for the number of the round.
RoundOfSubmissionFromZero == returns

RoundOfSubmission == Round

\* Faulty: a level nobody fills is left pending, addressed to nobody.
StepRowNeverSkipped(sequence, level) ==
    [round |-> RoundOfSubmission, sequence |-> sequence, role |-> level.role,
     approver |-> level.approver, decision |-> "pending", superseded |-> FALSE]

\* A level nobody fills is closed at once; the others wait.
StepRow(sequence, level) ==
    [round |-> RoundOfSubmission, sequence |-> sequence, role |-> level.role,
     approver |-> level.approver,
     decision |-> IF level.approver = NoOne THEN "approved" ELSE "pending",
     superseded |-> FALSE]

\* Faulty: a resubmission deletes the chain it replaces along with the lines.
KeptStepsNone == {}

\* A resubmission deletes the claim's lines; the steps of earlier rounds stay.
KeptSteps == steps

\* What a submission of these figures writes.
Submitted(outcome) ==
    LET chain == ChainFor(NetReimbursable(outcome))
        rows == {StepRow(i, chain[i]) : i \in DOMAIN chain}
    IN  /\ frozen' = outcome
        /\ steps' = KeptSteps \cup rows
        /\ status' = "pending_approval"
        /\ version' = version + 1
        /\ trail' = Recorded("claim_submitted", "pending_approval")
        /\ inbox' = Notified("claim_submitted",
                             FirstOf({s \in rows : s.decision = "pending"}))
        /\ UNCHANGED <<claimant, draft, withdrawn, returns, shown, signed>>

Submit ==
    /\ OwnDraft
    /\ CheckCanSubmit(Outcome)
    /\ CanRoute(Directory, Matrix, claimant, NetReimbursable(Outcome))
    /\ Submitted(Outcome)

-----------------------------------------------------------------------------
(* Decisions *)

\* Faulty: a submitted claim is recomputed when it is read.
DisplayedLive == Outcome

\* A draft is evaluated live; once submitted the persisted rows are served.
Displayed == IF status = "draft" THEN Outcome ELSE frozen

\* An approver may read the claim once any step of any round was routed to them.
Routed(u) == \E s \in steps : s.approver = u

Look(u) ==
    /\ Routed(u)
    /\ shown[u] # [version |-> version, figures |-> Displayed]
    /\ shown' = [shown EXCEPT ![u] = [version |-> version, figures |-> Displayed]]
    /\ UNCHANGED <<claimant, draft, withdrawn, claimVars>>

\* Faulty: the expected version is not compared.
UpToDateAlways(u) == TRUE

\* expected_version, which the screen sends back, is the claim's.
UpToDate(u) == shown[u].version = version

\* The claim is in u's pending queue, and u's screen asks them to decide.
OnDesk(u) == \E s \in Pending : IsFront(s) /\ s.approver = u

MayDecide(u, s) == IsFront(s) /\ s.approver = u /\ UpToDate(u)

\* Faulty: the last level is not told apart from the ones before it.
TargetStatusOneLevel(s) == IF LaterThan(s) = {} THEN "verified" ELSE "pending_approval"

TargetStatus(s) ==
    IF LaterThan(s) = {} THEN "verified"
    ELSE IF \E t \in FirstOf(LaterThan(s)) : t.role = "Finance" THEN "pending_finance"
    ELSE "pending_approval"

\* What every decision does to the claim's row, its trail and its inboxes.
Decided(s, action, to, kind, next) ==
    /\ MayFollow(status, to)
    /\ status' = to
    /\ version' = version + 1
    /\ trail' = Recorded(action, to)
    /\ inbox' = Notified(kind, next)
    /\ UNCHANGED <<claimant, draft, withdrawn, frozen, shown>>

Approve(u) ==
    \E s \in steps :
        /\ MayDecide(u, s)
        /\ steps' = (steps \ {s}) \cup {[s EXCEPT !.decision = "approved"]}
        /\ signed' = signed \cup {[round |-> s.round, sequence |-> s.sequence,
                                   figures |-> shown[u].figures]}
        /\ Decided(s, "approval_approved", TargetStatus(s),
                   IF TargetStatus(s) = "verified" THEN "claim_verified" ELSE "claim_approved",
                   FirstOf(LaterThan(s)))
        /\ UNCHANGED returns

Reject(u) ==
    \E s \in steps :
        /\ MayDecide(u, s)
        /\ steps' = (steps \ {s}) \cup {[s EXCEPT !.decision = "rejected"]}
        /\ Decided(s, "approval_rejected", "rejected", "claim_rejected", {})
        /\ UNCHANGED <<returns, signed>>

\* The whole round stops counting, decided steps and undecided ones alike.
Superseded(t) == IF t.round = Round THEN [t EXCEPT !.superseded = TRUE] ELSE t

Return(u) ==
    \E s \in steps :
        /\ MayDecide(u, s)
        /\ returns < MaxReturns
        /\ steps' = {Superseded(IF t = s THEN [t EXCEPT !.decision = "returned"] ELSE t) :
                        t \in steps}
        /\ returns' = returns + 1
        /\ Decided(s, "approval_returned", "draft", "claim_returned", {})
        /\ UNCHANGED signed

-----------------------------------------------------------------------------

Next ==
    \/ \E l \in Lines : Upload(l) \/ Remove(l) \/ Withdraw(l)
    \/ Restart
    \/ Submit
    \/ \E u \in Employees(Directory) : Look(u) \/ Approve(u) \/ Reject(u) \/ Return(u)

Spec == Init /\ [][Next]_vars

\* Approvers are people: nothing in the program makes them act.  What the claim is owed if
\* each of them keeps opening what is routed to them and keeps approving what they may.
FairSpec ==
    /\ Spec
    /\ \A u \in Employees(Directory) : WF_vars(Look(u)) /\ WF_vars(Approve(u))

-----------------------------------------------------------------------------
(* What a claim's rows are never allowed to say *)

\* One chain at a time.  A round and a sequence number name one step (the table's unique
\* constraint, which a resubmission would otherwise hit); a step is superseded exactly when
\* its round was ended by a return; and a draft waits on nobody.
OneLiveChain ==
    /\ \A s, t \in steps : s.round = t.round /\ s.sequence = t.sequence => s = t
    /\ \A s \in steps : s.superseded <=> s.round <= returns
    /\ status = "draft" => CurrentRoundSteps = {}

\* Nobody decides before their turn: everything below a level that somebody has decided was
\* approved, or was a level that nobody fills.
DecidedInOrder ==
    \A s, t \in CurrentRoundSteps :
        s.sequence < t.sequence /\ t.decision # "pending" /\ t.approver # NoOne
            => s.decision = "approved"

\* The status column and the steps tell one story, though a decision writes them separately:
\* a claim with the approvers waits on a step, one with Finance waits on Finance, a verified
\* one waits on nobody and nobody turned it down, a rejected one was rejected once.
StatusMatchesChain ==
    LET rejections == {s \in CurrentRoundSteps : s.decision = "rejected"} IN
    /\ status \in Awaiting => Pending # {} /\ rejections = {}
    /\ status = "pending_finance" => \E s \in Pending : IsFront(s) /\ s.role = "Finance"
    /\ status = "verified" => Pending = {} /\ rejections = {}
    /\ status = "rejected" => Cardinality(rejections) = 1

\* An approval in the round in force was given to the figures on record, and not to others
\* the approver had on their screen: what expected_version is compared for.
ApprovedFiguresStand ==
    \A g \in signed : g.round = Round => g.figures = frozen

\* A verified claim was approved, at the very figures it is verified at, by every level that
\* a claim of that value needs and that somebody fills.
VerifiedWasEarned ==
    LET chain == ChainFor(NetReimbursable(frozen)) IN
    status = "verified" =>
        \A i \in DOMAIN chain : chain[i].approver # NoOne =>
            [round |-> Round, sequence |-> i, figures |-> frozen] \in signed

\* Whoever a submitted claim waits on could approve it: the step is addressed to a person,
\* and the status their approval leads to may follow the one the claim is in.
FrontCanApprove ==
    status \in Awaiting =>
        \E s \in Pending :
            /\ IsFront(s)
            /\ s.approver # NoOne
            /\ MayFollow(status, TargetStatus(s))

\* Some level below Finance is asked of somebody.
AskedBelowFinance == \E s \in CurrentRoundSteps : s.role # "Finance" /\ s.approver # NoOne

\* The claim that only Finance is asked about, its other levels skipped, is stuck, and no
\* other is: whoever a submitted claim waits on could approve it exactly when somebody below
\* Finance was asked, in whatever order the levels that are left come.
StuckExactlyWhenUnasked == status \in Awaiting => (FrontCanApprove <=> AskedBelowFinance)

\* The audit trail accounts for the row: one event for each version after the first, the
\* last of them naming the status the claim is in, and a return for each round that ended.
TrailAccountsForClaim ==
    /\ Len(trail) = version - 1
    /\ trail # <<>> => trail[Len(trail)].status = status
    /\ Cardinality({i \in DOMAIN trail : trail[i].action = "approval_returned"}) = returns

\* Below Finance, nobody is asked about their own claim, whatever role they hold: the level
\* goes to someone above them or is skipped.
BusinessLevelsAreOthers ==
    \A s \in steps : s.approver = claimant => s.role = "Finance"

\* An approver cannot approve their own claim (routing's reading of policy section 2.2).
NobodyApprovesTheirOwn ==
    \A s \in steps : s.approver = claimant => s.decision # "approved"

\* A claim in an approver's queue is one that waits on them: the queue's own description.
DeskMeansAwaiting ==
    \A u \in Employees(Directory) : OnDesk(u) => status \in Awaiting

-----------------------------------------------------------------------------
(* What a step may never do *)

\* History survives.  A decision, once recorded, stays as it was recorded, except that the
\* return of its round marks it superseded; and a superseded step never changes again.
HistoryStands ==
    [][\A s \in steps :
          /\ s.superseded => s \in steps'
          /\ s.decision # "pending" =>
                 \/ s \in steps'
                 \/ returns' > returns /\ [s EXCEPT !.superseded = TRUE] \in steps']_vars

\* Once submitted, the figures that every surface renders hold still until the claim is
\* back in draft, whatever happens to what they were computed from.
FiguresHoldStill ==
    [][status # "draft" /\ status' # "draft" => Displayed' = Displayed]_vars

\* Every change of the claim tells the claimant, and whoever becomes the one it waits on is
\* told last; a message once sent is not taken back.
EveryoneIsTold ==
    [][/\ SubSeq(inbox', 1, Len(inbox)) = inbox
       /\ version' # version =>
              \E i \in DOMAIN inbox' \ DOMAIN inbox : inbox'[i].to = claimant
       /\ \A s \in steps' :
              IsFront(s)' /\ ~ IsFront(s) /\ status' \in Awaiting =>
                  inbox'[Len(inbox')] =
                      [to |-> s.approver, kind |-> "awaiting_your_approval"]]_vars

-----------------------------------------------------------------------------
(* What the claim as a whole does *)

\* The workflow keeps the promise: rounds, versions, screens and notifications are how.
\* Superseded steps and levels nobody fills are not part of it.
Promise ==
    INSTANCE SettlementPromise WITH
        Levels <- 1..(Len(FullChain) + 1),
        phase <- IF status = "draft" THEN "claimant"
                 ELSE IF status \in Awaiting THEN "levels"
                 ELSE IF status = "rejected" THEN "refused" ELSE "settled",
        figures <- frozen,
        asked <- {s.sequence : s \in {t \in CurrentRoundSteps : t.approver # NoOne}},
        agreed <- {s.sequence : s \in {t \in CurrentRoundSteps :
                                            t.approver # NoOne /\ t.decision = "approved"}}

KeepsPromise == Promise!Spec

\* If approvers keep reading and approving what is theirs, no claim that somebody below Finance
\* was asked about stays with them forever, an employee's or a manager's: its front step is
\* never one addressed to nobody, refused for its target status, or behind a stale screen. The
\* claims left out are those that StuckExactlyWhenUnasked names.
ClaimsMoveOn == (status \in Awaiting /\ AskedBelowFinance) ~> status \notin Awaiting
=============================================================================
