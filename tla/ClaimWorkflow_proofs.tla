------------------------ MODULE ClaimWorkflow_proofs ------------------------
(***************************************************************************)
(* Theorems about ClaimWorkflow, for every employee master, every approval *)
(* matrix, every set of bills and any number of returns.                   *)
(***************************************************************************)
EXTENDS ClaimWorkflow, Routing_proofs

-----------------------------------------------------------------------------
(* Routing *)

\* Finance verification is addressed to somebody in Finance.
LEMMA FirstFinanceType ==
    /\ FirstFinance(Directory) \in Employees(Directory)
    /\ FirstFinance(Directory) # NoOne
<1>1. /\ Employees(Directory) \subseteq Nat
      /\ \E e \in Employees(Directory) : Directory.role[e] = "Finance"
      /\ NoOne \notin Employees(Directory)
  BY WorkflowAssumption
<1> QED
  BY <1>1, FirstFinanceIs

\* The roles of a value that some band covers are the roles of one of the bands.
LEMMA RolesForValueType ==
    ASSUME NEW value, Covered(Matrix, value)
    PROVE  \E i \in DOMAIN Matrix : RolesForValue(Matrix, value) = Matrix[i].roles
BY WorkflowAssumption, FirstBand

\* What the matrix asks at a value some band covers: up to four business levels.
LEMMA RolesType ==
    ASSUME NEW value, Covered(Matrix, value)
    PROVE  /\ RolesForValue(Matrix, value) \in Seq(Role)
           /\ Len(RolesForValue(Matrix, value)) \in 0..Len(FullChain)
<1>1. PICK i \in DOMAIN Matrix : RolesForValue(Matrix, value) = Matrix[i].roles
  BY RolesForValueType
<1>2. Matrix[i] \in [min : Nat, max : Nat, roles : Seq(Role)]
  <2>1. DOMAIN Matrix = 1..Len(Matrix)
    BY WorkflowAssumption
  <2> QED
    BY <2>1, WorkflowAssumption, ElementOfSeq
<1>3. Matrix[i].roles \in Seq(Role) /\ Len(Matrix[i].roles) <= Len(FullChain)
  BY <1>2, WorkflowAssumption
<1>4. Len(Matrix[i].roles) \in Nat
  BY <1>3, LenProperties
<1>5. Len(FullChain) \in Nat
  BY DEF FullChain
<1> QED
  BY <1>1, <1>3, <1>4, <1>5

\* The chain spelled out.
LEMMA ChainIs ==
    ASSUME NEW value
    PROVE  ChainFor(value) =
              [i \in 1..(Len(RolesForValue(Matrix, value)) + 1) |->
                  IF i <= Len(RolesForValue(Matrix, value))
                  THEN [role |-> RolesForValue(Matrix, value)[i],
                        approver |-> Nearest(Directory, claimant,
                                             RolesForValue(Matrix, value)[i])]
                  ELSE [role |-> "Finance", approver |-> FirstFinance(Directory)]]
BY DEF ChainFor, ResolveChain, Required

\* A chain asks between one and five levels.  Each is asked of somebody in the employee
\* master, or of nobody; the last one, Finance, is always asked of somebody.
LEMMA ChainType ==
    ASSUME NEW value, Covered(Matrix, value)
    PROVE  /\ ChainFor(value)
                \in Seq([role : Role, approver : Employees(Directory) \cup {NoOne}])
           /\ Len(ChainFor(value)) \in 1..(Len(FullChain) + 1)
           /\ ChainFor(value)[Len(ChainFor(value))].approver # NoOne
<1> DEFINE T == [role : Role, approver : Employees(Directory) \cup {NoOne}]
           roles == RolesForValue(Matrix, value)
           chain == ChainFor(value)
           n == Len(roles)
<1>1. roles \in Seq(Role) /\ n \in Nat /\ n \in 0..Len(FullChain) /\ Len(FullChain) \in Nat
  BY RolesType DEF FullChain
<1>2. chain = [i \in 1..(n + 1) |->
                  IF i <= n
                  THEN [role |-> roles[i], approver |-> Nearest(Directory, claimant, roles[i])]
                  ELSE [role |-> "Finance", approver |-> FirstFinance(Directory)]]
  BY ChainIs
<1> HIDE DEF roles, chain
<1>3. \A i \in 1..(n + 1) : chain[i] \in T
  <2> SUFFICES ASSUME NEW i \in 1..(n + 1)
               PROVE  chain[i] \in T
    OBVIOUS
  <2>1. CASE i <= n
    <3>1. roles[i] \in Role
      BY <1>1, <2>1, ElementOfSeq
    <3>2. Nearest(Directory, claimant, roles[i]) \in Employees(Directory) \cup {NoOne}
      BY NearestIsSomeone
    <3> QED
      BY <1>2, <2>1, <3>1, <3>2
  <2>2. CASE ~ i <= n
    <3>1. chain[i] = [role |-> "Finance", approver |-> FirstFinance(Directory)]
      BY <1>2, <2>2
    <3> QED
      BY <3>1, FirstFinanceType DEF Role
  <2> QED
    BY <2>1, <2>2
<1>4. chain \in [1..(n + 1) -> T]
  BY <1>2, <1>3
<1>5. chain \in Seq(T) /\ Len(chain) = n + 1
  <2> HIDE DEF T, n
  <2>1. chain \in Seq(T)
    BY <1>1, <1>4, SeqDef
  <2> QED
    BY <1>1, <1>4, <2>1, LenProperties
<1>6. chain[n + 1].approver # NoOne
  <2>1. chain[n + 1] = [role |-> "Finance", approver |-> FirstFinance(Directory)]
    BY <1>1, <1>2
  <2> QED
    BY <2>1, FirstFinanceType
<1> QED
  BY <1>1, <1>5, <1>6 DEF chain

-----------------------------------------------------------------------------
(* What the proofs follow: the steps of a claim, its draft and its figures left free *)

\* The draft changes under a claim in any status: a request may write after it was submitted.
Edited ==
    /\ draft' \subseteq Lines
    /\ withdrawn' \subseteq Lines
    /\ UNCHANGED <<claimant, shown, claimVars>>

\* A draft is submitted at figures that some evaluation gave, perhaps not the last one.
Files(outcome) ==
    /\ OwnDraft
    /\ CanRoute(Directory, Matrix, claimant, NetReimbursable(outcome))
    /\ Submitted(outcome)

Moves ==
    \/ Edited
    \/ \E outcome \in Figures : Files(outcome)
    \/ \E u \in Employees(Directory) : Look(u) \/ Approve(u) \/ Reject(u) \/ Return(u)

Moving == Init /\ [][Moves]_vars

-----------------------------------------------------------------------------
(* Type correctness *)

\* A step that waits, waits on somebody.
Addressed == \A s \in steps : s.decision = "pending" => s.approver # NoOne

TypeInv == TypeOK /\ Addressed

\* What the draft evaluates to is a set of figures.
LEMMA OutcomeType == Outcome \in Figures
BY WorkflowAssumption DEF Outcome, Figures, LineStatus

\* An event is appended to the trail.
LEMMA RecordedType ==
    ASSUME TypeOK, NEW action \in Actions, NEW to \in ClaimStatus
    PROVE  Recorded(action, to) \in Seq([action : Actions, status : ClaimStatus])
BY AppendProperties DEF TypeOK, Recorded

\* Messages are appended to the inboxes, addressed to employees.
LEMMA NotifiedType ==
    ASSUME TypeOK, NEW kind \in Kinds, NEW next,
           \A s \in next : s.approver \in Employees(Directory)
    PROVE  Notified(kind, next) \in Seq([to : Employees(Directory), kind : Kinds])
<1> DEFINE M == [to : Employees(Directory), kind : Kinds]
           first == [to |-> claimant, kind |-> kind]
           second == [to |-> (CHOOSE s \in next : TRUE).approver,
                      kind |-> "awaiting_your_approval"]
<1>1. inbox \in Seq(M) /\ first \in M
  BY WorkflowAssumption DEF TypeOK
<1>2. next # {} => second \in M
  BY DEF Kinds
<1>3. <<first>> \in Seq(M) /\ <<>> \in Seq(M) /\ (next # {} => <<second>> \in Seq(M))
  <2> HIDE DEF M, first, second
  <2> QED BY <1>1, <1>2
<1>4. Notified(kind, next) =
          inbox \o <<first>> \o IF next = {} THEN <<>> ELSE <<second>>
  BY DEF Notified
<1> HIDE DEF M, first, second
<1>5. inbox \o <<first>> \in Seq(M)
  BY <1>1, <1>3, ConcatProperties
<1>6. CASE next = {}
  <2>1. (inbox \o <<first>>) \o <<>> \in Seq(M)
    BY <1>3, <1>5, ConcatProperties
  <2> QED
    BY <1>4, <1>6, <2>1 DEF M
<1>7. CASE next # {}
  <2>1. (inbox \o <<first>>) \o <<second>> \in Seq(M)
    BY <1>3, <1>5, <1>7, ConcatProperties
  <2> QED
    BY <1>4, <1>7, <2>1 DEF M
<1> QED
  BY <1>6, <1>7

\* The rows a submission writes are steps; those that wait are addressed to an employee.
LEMMA RowType ==
    ASSUME TypeOK, NEW value, Covered(Matrix, value), NEW i \in DOMAIN ChainFor(value)
    PROVE  /\ StepRow(i, ChainFor(value)[i]) \in Step
           /\ LET s == StepRow(i, ChainFor(value)[i]) IN
              /\ s.round = Round
              /\ s.sequence = i
              /\ s.role = ChainFor(value)[i].role
              /\ s.approver = ChainFor(value)[i].approver
              /\ s.decision = IF s.approver = NoOne THEN "approved" ELSE "pending"
              /\ s.superseded = FALSE
<1> DEFINE chain == ChainFor(value)
<1>1. chain \in Seq([role : Role, approver : Employees(Directory) \cup {NoOne}])
  BY ChainType
<1>2. i \in 1..Len(chain) /\ i \in Nat \ {0}
  BY <1>1, LenProperties
<1>3. chain[i] \in [role : Role, approver : Employees(Directory) \cup {NoOne}]
  BY <1>1, <1>2, ElementOfSeq
<1>4. Round \in Nat \ {0}
  BY DEF TypeOK, Round
<1> HIDE DEF chain
<1>5. StepRow(i, chain[i]) =
        [round |-> Round, sequence |-> i, role |-> chain[i].role,
         approver |-> chain[i].approver,
         decision |-> IF chain[i].approver = NoOne THEN "approved" ELSE "pending",
         superseded |-> FALSE]
  BY DEF StepRow, RoundOfSubmission
<1> QED
  BY <1>2, <1>3, <1>4, <1>5 DEF Step, Decision, chain


\* A claim begins well typed.
LEMMA TypeInit == Init => TypeInv
<1> SUFFICES ASSUME Init
             PROVE  TypeInv
  OBVIOUS
<1>1. Nothing \in Figures
  BY DEF Nothing, Figures
<1>2. shown \in [Employees(Directory) -> [version : Nat, figures : Figures]]
  BY <1>1 DEF Init
<1>3. inbox \in Seq([to : Employees(Directory), kind : Kinds])
  BY DEF Init
<1>4. trail \in Seq([action : Actions, status : ClaimStatus])
  BY DEF Init
<1> QED
  BY <1>1, <1>2, <1>3, <1>4, WorkflowAssumption DEF Init, TypeInv, TypeOK, Addressed, ClaimStatus

\* Working on the draft, restarting the process and opening a screen leave the claim's rows alone.
LEMMA TypeDraft ==
    ASSUME TypeInv, Edited \/ \E u \in Employees(Directory) : Look(u)
    PROVE  TypeInv'
<1>1. CASE Edited
  BY <1>1 DEF TypeInv, TypeOK, Addressed, Edited, claimVars
<1>2. ASSUME NEW u \in Employees(Directory), Look(u)
      PROVE  TypeInv'
  <2>1. Displayed \in Figures
    BY OutcomeType DEF TypeInv, TypeOK, Displayed
  <2>2. shown' \in [Employees(Directory) -> [version : Nat, figures : Figures]]
    BY <1>2, <2>1 DEF Look, TypeInv, TypeOK
  <2> QED
    BY <1>2, <2>2 DEF TypeInv, TypeOK, Addressed, Look, claimVars
<1> QED
  BY <1>1, <1>2

\* A submission writes steps, figures, an event and messages of the right types.
LEMMA TypeSubmit ==
    ASSUME TypeInv, NEW outcome \in Figures, Files(outcome)
    PROVE  TypeInv'
<1> DEFINE value == NetReimbursable(outcome)
           chain == ChainFor(value)
           rows == {StepRow(i, chain[i]) : i \in DOMAIN chain}
           waiting == {s \in rows : s.decision = "pending"}
<1>1. Covered(Matrix, value) /\ TypeOK
  BY DEF Files, CanRoute, TypeInv
<1> HIDE DEF value
<1>2. \A s \in rows : s \in Step /\ (s.decision = "pending" => s.approver # NoOne)
  <2>1. ASSUME NEW i \in DOMAIN chain
        PROVE  LET s == StepRow(i, chain[i]) IN
               s \in Step /\ (s.decision = "pending" => s.approver # NoOne)
    BY <1>1, RowType
  <2> HIDE DEF chain
  <2> QED
    BY <2>1
<1>3. \A s \in FirstOf(waiting) : s.approver \in Employees(Directory)
  BY <1>2 DEF FirstOf, Step
<1> HIDE DEF rows, chain
<1>4. /\ frozen' = outcome
      /\ steps' = steps \cup rows
      /\ status' = "pending_approval"
      /\ version' = version + 1
      /\ trail' = Recorded("claim_submitted", "pending_approval")
      /\ inbox' = Notified("claim_submitted", FirstOf(waiting))
      /\ UNCHANGED <<claimant, draft, withdrawn, returns, shown, signed>>
  BY DEF Files, Submitted, KeptSteps, rows, chain, value
<1>5. inbox' \in Seq([to : Employees(Directory), kind : Kinds])
  <2> HIDE DEF waiting
  <2>1. "claim_submitted" \in Kinds
    BY DEF Kinds
  <2> QED
    BY <1>1, <1>3, <1>4, <2>1, NotifiedType
<1>6. trail' \in Seq([action : Actions, status : ClaimStatus])
  <2>1. "claim_submitted" \in Actions /\ "pending_approval" \in ClaimStatus
    BY DEF Actions, ClaimStatus
  <2> QED
    BY <1>1, <1>4, <2>1, RecordedType
<1>7. steps' \subseteq Step /\ Addressed'
  BY <1>1, <1>2, <1>4 DEF TypeOK, TypeInv, Addressed
<1> QED
  BY <1>1, <1>4, <1>5, <1>6, <1>7 DEF TypeOK, TypeInv, ClaimStatus


\* TypeOK, the steps and what counts them apart.
RestOK ==
    /\ claimant \in Claimants
    /\ draft \subseteq Lines
    /\ withdrawn \subseteq Lines
    /\ status \in ClaimStatus
    /\ version \in Nat \ {0}
    /\ frozen \in Figures
    /\ inbox \in Seq([to : Employees(Directory), kind : Kinds])
    /\ trail \in Seq([action : Actions, status : ClaimStatus])
    /\ shown \in [Employees(Directory) -> [version : Nat, figures : Figures]]

\* What a decision does to the parts of the state that are not the steps.
LEMMA TypeDecided ==
    ASSUME TypeInv, NEW s, NEW action \in Actions, NEW to \in ClaimStatus, NEW kind \in Kinds,
           NEW next, \A t \in next : t.approver \in Employees(Directory),
           Decided(s, action, to, kind, next)
    PROVE  RestOK'
<1>1. TypeOK
  BY DEF TypeInv
<1>2. inbox' \in Seq([to : Employees(Directory), kind : Kinds])
  BY <1>1, NotifiedType DEF Decided
<1>3. trail' \in Seq([action : Actions, status : ClaimStatus])
  BY <1>1, RecordedType DEF Decided
<1> QED
  BY <1>1, <1>2, <1>3 DEF Decided, TypeOK, RestOK

\* Everyone a decision may hand the claim to is an employee.
LEMMA NextType ==
    ASSUME TypeInv, NEW s
    PROVE  \A t \in FirstOf(LaterThan(s)) : t.approver \in Employees(Directory)
BY DEF TypeInv, TypeOK, Addressed, FirstOf, LaterThan, Pending, CurrentRoundSteps, Step

\* An approval keeps the types.
LEMMA TypeApprove ==
    ASSUME TypeInv, NEW u \in Employees(Directory), Approve(u)
    PROVE  TypeInv'
<1>1. PICK s \in steps :
          /\ MayDecide(u, s)
          /\ steps' = (steps \ {s}) \cup {[s EXCEPT !.decision = "approved"]}
          /\ signed' = signed \cup {[round |-> s.round, sequence |-> s.sequence,
                                     figures |-> shown[u].figures]}
          /\ Decided(s, "approval_approved", TargetStatus(s),
                     IF TargetStatus(s) = "verified" THEN "claim_verified" ELSE "claim_approved",
                     FirstOf(LaterThan(s)))
          /\ UNCHANGED returns
  BY DEF Approve
<1>2. TypeOK /\ s \in Step
  BY DEF TypeInv, TypeOK
<1>3. steps' \subseteq Step /\ Addressed'
  <2>1. [s EXCEPT !.decision = "approved"] \in Step
        /\ [s EXCEPT !.decision = "approved"].decision = "approved"
    BY <1>2 DEF Step, Decision
  <2> QED
    BY <1>1, <1>2, <2>1 DEF TypeInv, TypeOK, Addressed
<1>4. signed' \subseteq [round : Nat \ {0}, sequence : Nat \ {0}, figures : Figures]
  BY <1>1, <1>2 DEF TypeOK, Step
<1>5. "approval_approved" \in Actions
  BY DEF Actions
<1>6. TargetStatus(s) \in ClaimStatus
  BY DEF TargetStatus, ClaimStatus
<1>7. (IF TargetStatus(s) = "verified" THEN "claim_verified" ELSE "claim_approved") \in Kinds
  BY DEF Kinds
<1>8. \A t \in FirstOf(LaterThan(s)) : t.approver \in Employees(Directory)
  BY NextType
<1>9. RestOK'
  BY <1>1, <1>5, <1>6, <1>7, <1>8, TypeDecided
<1> QED
  BY <1>1, <1>2, <1>3, <1>4, <1>9 DEF TypeInv, TypeOK, RestOK

\* A rejection keeps the types.
LEMMA TypeReject ==
    ASSUME TypeInv, NEW u \in Employees(Directory), Reject(u)
    PROVE  TypeInv'
<1>1. PICK s \in steps :
          /\ MayDecide(u, s)
          /\ steps' = (steps \ {s}) \cup {[s EXCEPT !.decision = "rejected"]}
          /\ Decided(s, "approval_rejected", "rejected", "claim_rejected", {})
          /\ UNCHANGED <<returns, signed>>
  BY DEF Reject
<1>2. TypeOK /\ s \in Step
  BY DEF TypeInv, TypeOK
<1>3. steps' \subseteq Step /\ Addressed'
  <2>1. [s EXCEPT !.decision = "rejected"] \in Step
        /\ [s EXCEPT !.decision = "rejected"].decision = "rejected"
    BY <1>2 DEF Step, Decision
  <2> QED
    BY <1>1, <1>2, <2>1 DEF TypeInv, TypeOK, Addressed
<1>4. "approval_rejected" \in Actions /\ "rejected" \in ClaimStatus /\ "claim_rejected" \in Kinds
  BY DEF Actions, ClaimStatus, Kinds
<1>5. \A t \in {} : t.approver \in Employees(Directory)
  OBVIOUS
<1>6. RestOK'
  BY <1>1, <1>4, <1>5, TypeDecided
<1> QED
  BY <1>1, <1>2, <1>3, <1>6 DEF TypeInv, TypeOK, RestOK


\* A return keeps the types.
LEMMA TypeReturn ==
    ASSUME TypeInv, NEW u \in Employees(Directory), Return(u)
    PROVE  TypeInv'
<1>1. PICK s \in steps :
          /\ MayDecide(u, s)
          /\ returns < MaxReturns
          /\ steps' = {Superseded(IF t = s THEN [t EXCEPT !.decision = "returned"] ELSE t) :
                          t \in steps}
          /\ returns' = returns + 1
          /\ Decided(s, "approval_returned", "draft", "claim_returned", {})
          /\ UNCHANGED signed
  BY DEF Return
<1>2. TypeOK /\ s \in Step
  BY DEF TypeInv, TypeOK
<1>3. ASSUME NEW t \in steps
      PROVE  LET r == IF t = s THEN [t EXCEPT !.decision = "returned"] ELSE t IN
             /\ Superseded(r) \in Step
             /\ Superseded(r).decision = "pending" => Superseded(r).approver # NoOne
  <2> DEFINE r == IF t = s THEN [t EXCEPT !.decision = "returned"] ELSE t
  <2>1. t \in Step /\ (t.decision = "pending" => t.approver # NoOne)
    BY DEF TypeInv, TypeOK, Addressed
  <2>2. r \in Step /\ (r.decision = "pending" => r.approver # NoOne)
    BY <2>1 DEF Step, Decision
  <2> HIDE DEF r
  <2>3. Superseded(r) \in Step
        /\ Superseded(r).decision = r.decision /\ Superseded(r).approver = r.approver
    BY <2>2 DEF Superseded, Step
  <2> QED
    BY <2>2, <2>3 DEF r
<1>4. steps' \subseteq Step /\ Addressed'
  BY <1>1, <1>3 DEF Addressed
<1>5. "approval_returned" \in Actions /\ "draft" \in ClaimStatus /\ "claim_returned" \in Kinds
  BY DEF Actions, ClaimStatus, Kinds
<1>6. \A t \in {} : t.approver \in Employees(Directory)
  OBVIOUS
<1>7. RestOK'
  BY <1>1, <1>5, <1>6, TypeDecided
<1>8. /\ returns' \in Nat
      /\ signed' \subseteq [round : Nat \ {0}, sequence : Nat \ {0}, figures : Figures]
  BY <1>1, <1>2 DEF TypeOK
<1> QED
  BY <1>4, <1>7, <1>8 DEF TypeInv, TypeOK, RestOK

\* The typing invariant is inductive.
LEMMA TypeStep == TypeInv /\ [Moves]_vars => TypeInv'
<1> SUFFICES ASSUME TypeInv, [Moves]_vars
             PROVE  TypeInv'
  OBVIOUS
<1>1. CASE Moves
  BY <1>1, TypeDraft, TypeSubmit, TypeApprove, TypeReject, TypeReturn DEF Moves
<1>2. CASE UNCHANGED vars
  BY <1>2 DEF vars, TypeInv, TypeOK, Addressed
<1> QED
  BY <1>1, <1>2

\* Every handler run alone moves the claim so.
LEMMA NextMoves == TypeInv /\ [Next]_vars => [Moves]_vars
<1> SUFFICES ASSUME TypeInv, Next
             PROVE  Moves
  OBVIOUS
<1>1. TypeOK
  BY DEF TypeInv
<1>2. CASE \E l \in Lines : Upload(l) \/ Remove(l) \/ Withdraw(l)
  BY <1>1, <1>2 DEF Upload, Remove, Withdraw, TypeOK, Edited, Moves
<1>3. CASE Restart
  BY <1>1, <1>3 DEF Restart, TypeOK, Edited, Moves
<1>4. CASE Submit
  BY <1>4, OutcomeType DEF Submit, Files, Moves
<1>5. CASE \E u \in Employees(Directory) : Look(u) \/ Approve(u) \/ Reject(u) \/ Return(u)
  BY <1>5 DEF Moves
<1> QED
  BY <1>2, <1>3, <1>4, <1>5 DEF Next

LEMMA TypeMoving == Moving => []TypeInv
BY TypeInit, TypeStep, PTL DEF Moving

LEMMA SpecMoves == Spec => Moving
<1>1. TypeInv /\ [Next]_vars => TypeInv'
  BY NextMoves, TypeStep
<1>2. Spec => []TypeInv
  BY <1>1, TypeInit, PTL DEF Spec
<1> QED
  BY <1>2, NextMoves, PTL DEF Spec, Moving

\* Type correctness: whatever the organisation, the matrix and the bills, the claim's rows,
\* its trail and its inboxes hold what their columns declare, and every message is addressed
\* to somebody in the employee master.
THEOREM TypeCorrect == Spec => []TypeOK
<1>1. TypeInv => TypeOK
  BY DEF TypeInv
<1> QED
  BY <1>1, SpecMoves, TypeMoving, PTL

-----------------------------------------------------------------------------
(* The inductive invariant behind the properties of the chain *)

\* No step belongs to a round that has not begun.
RoundsSoFar == \A s \in steps : s.round <= Round

\* In the round in force a step waits or is approved, unless it is the rejection of the claim.
LiveDecisions ==
    \A s \in CurrentRoundSteps :
        \/ s.decision \in {"pending", "approved"}
        \/ s.decision = "rejected" /\ status = "rejected"

VerifiedWaitsOnNobody == status = "verified" => Pending = {}

\* Approvals belong to rounds that were submitted; a draft has none in its coming round.
SignedRounds ==
    \A g \in signed : g.round <= Round /\ (status = "draft" => g.round <= returns)

\* No screen is ahead of the claim, and one that is level with a submitted claim shows what
\* was submitted.  This is what makes the version comparison enough.
Screens ==
    \A u \in Employees(Directory) :
        /\ shown[u].version <= version
        /\ status # "draft" /\ shown[u].version = version => shown[u].figures = frozen

\* A live step that somebody approved has its approval on record.
ApprovalsSigned ==
    \A s \in CurrentRoundSteps :
        s.decision = "approved" /\ s.approver # NoOne =>
            \E g \in signed : g.round = Round /\ g.sequence = s.sequence

\* A submitted claim has a live step for each level its figures require.
LevelsWritten ==
    status # "draft" =>
        \A i \in DOMAIN ChainFor(NetReimbursable(frozen)) :
            \E s \in CurrentRoundSteps :
                /\ s.sequence = i
                /\ s.approver = ChainFor(NetReimbursable(frozen))[i].approver

ChainInv ==
    /\ TypeInv
    /\ OneLiveChain
    /\ RoundsSoFar
    /\ LiveDecisions
    /\ VerifiedWaitsOnNobody
    /\ SignedRounds
    /\ ApprovedFiguresStand
    /\ Screens
    /\ ApprovalsSigned
    /\ LevelsWritten

\* A claim begins with no steps, no approvals, and nothing on any screen.
LEMMA ChainInit == Init => ChainInv
<1> SUFFICES ASSUME Init
             PROVE  ChainInv
  OBVIOUS
<1>1. TypeInv
  BY TypeInit
<1>2. CurrentRoundSteps = {} /\ Pending = {}
  BY DEF Init, CurrentRoundSteps, Pending
<1>3. Screens
  BY DEF Init, Screens
<1> QED
  BY <1>1, <1>2, <1>3 DEF Init, ChainInv, OneLiveChain, RoundsSoFar, LiveDecisions,
     VerifiedWaitsOnNobody, SignedRounds, ApprovedFiguresStand, ApprovalsSigned, LevelsWritten

\* The draft, a restart and a screen touch none of it, but for what one screen shows.
LEMMA ChainDraft ==
    ASSUME ChainInv, Edited \/ \E u \in Employees(Directory) : Look(u)
    PROVE  ChainInv'
<1>1. TypeInv'
  BY TypeDraft DEF ChainInv
<1>2. UNCHANGED <<claimant, status, version, returns, frozen, steps, signed>>
  BY DEF Edited, Look, claimVars
<1>3. UNCHANGED <<CurrentRoundSteps, Pending, Round>>
  BY <1>2 DEF CurrentRoundSteps, Pending, Round
<1>4. (ChainFor(NetReimbursable(frozen)))' = ChainFor(NetReimbursable(frozen))
  BY <1>2 DEF ChainFor
<1>5. Screens'
  <2>1. CASE UNCHANGED shown
    BY <1>2, <2>1 DEF ChainInv, Screens
  <2>2. ASSUME NEW u \in Employees(Directory), Look(u)
        PROVE  Screens'
    <3>1. shown' = [shown EXCEPT ![u] = [version |-> version, figures |-> Displayed]]
      BY <2>2 DEF Look
    <3>2. status # "draft" => Displayed = frozen
      BY DEF Displayed
    <3> QED
      BY <1>2, <3>1, <3>2 DEF ChainInv, Screens, TypeInv, TypeOK
  <2> QED
    BY <2>1, <2>2 DEF Edited
<1>6. OneLiveChain' /\ RoundsSoFar' /\ LiveDecisions' /\ VerifiedWaitsOnNobody'
  BY <1>2, <1>3 DEF ChainInv, OneLiveChain, RoundsSoFar, LiveDecisions, VerifiedWaitsOnNobody
<1>7. SignedRounds' /\ ApprovedFiguresStand' /\ ApprovalsSigned'
  BY <1>2, <1>3 DEF ChainInv, SignedRounds, ApprovedFiguresStand, ApprovalsSigned
<1>8. LevelsWritten'
  BY <1>2, <1>3, <1>4 DEF ChainInv, LevelsWritten
<1> QED
  BY <1>1, <1>5, <1>6, <1>7, <1>8 DEF ChainInv


\* A submission makes the rows of its chain the live steps, and no others.
LEMMA SubmitShape ==
    ASSUME ChainInv, NEW outcome \in Figures, Files(outcome)
    PROVE  LET value == NetReimbursable(outcome) IN
           /\ Covered(Matrix, value)
           /\ steps' = steps \cup {StepRow(i, ChainFor(value)[i]) : i \in DOMAIN ChainFor(value)}
           /\ CurrentRoundSteps' =
                  {StepRow(i, ChainFor(value)[i]) : i \in DOMAIN ChainFor(value)}
           /\ \A s \in steps : s.round <= returns
<1> DEFINE value == NetReimbursable(outcome)
           rows == {StepRow(i, ChainFor(value)[i]) : i \in DOMAIN ChainFor(value)}
<1>1. /\ Covered(Matrix, value)
      /\ steps' = steps \cup rows
      /\ returns' = returns
      /\ status = "draft"
  BY DEF Files, Submitted, CanRoute, KeptSteps, OwnDraft
<1>2. TypeOK /\ OneLiveChain /\ RoundsSoFar
  BY DEF ChainInv, TypeInv
<1> HIDE DEF value
<1>3. \A s \in rows : ~ s.superseded /\ s.round = Round
  <2>1. \A i \in DOMAIN ChainFor(value) :
            LET s == StepRow(i, ChainFor(value)[i]) IN ~ s.superseded /\ s.round = Round
    BY DEF StepRow, RoundOfSubmission
  <2> QED
    BY <2>1
<1> HIDE DEF rows
<1>4. \A s \in steps : s.round <= returns
  BY <1>1, <1>2 DEF OneLiveChain, RoundsSoFar, CurrentRoundSteps, Round, TypeOK, Step
<1>5. CurrentRoundSteps' = rows
  BY <1>1, <1>2, <1>3, <1>4 DEF CurrentRoundSteps, Round, TypeOK
<1> QED
  BY <1>1, <1>4, <1>5 DEF rows, value

\* A submission: a new round, with nothing approved in it by anybody.
LEMMA ChainSubmit ==
    ASSUME ChainInv, NEW outcome \in Figures, Files(outcome)
    PROVE  ChainInv'
<1> DEFINE value == NetReimbursable(outcome)
           chain == ChainFor(value)
           row(i) == StepRow(i, chain[i])
           rows == {row(i) : i \in DOMAIN chain}
<1>1. /\ Covered(Matrix, value)
      /\ steps' = steps \cup rows
      /\ CurrentRoundSteps' = rows
      /\ \A s \in steps : s.round <= returns
  BY SubmitShape
<1>2. /\ status = "draft"
      /\ status' = "pending_approval"
      /\ version' = version + 1
      /\ frozen' = outcome
      /\ UNCHANGED <<claimant, returns, shown, signed>>
  BY DEF Files, Submitted, OwnDraft
<1>3. TypeInv' /\ TypeOK /\ TypeOK'
  BY TypeSubmit DEF ChainInv, TypeInv
<1>4. ChainFor(NetReimbursable(frozen))' = chain
  BY <1>2 DEF ChainFor
<1> HIDE DEF value
<1>5. \A i \in DOMAIN chain :
          /\ row(i).round = Round
          /\ row(i).sequence = i
          /\ row(i).approver = chain[i].approver
          /\ row(i).decision = "approved" <=> row(i).approver = NoOne
          /\ row(i).decision = "pending" <=> row(i).approver # NoOne
          /\ ~ row(i).superseded
  <2> SUFFICES ASSUME NEW i \in DOMAIN chain
               PROVE  /\ row(i).round = Round
                      /\ row(i).sequence = i
                      /\ row(i).approver = chain[i].approver
                      /\ row(i).decision = "approved" <=> row(i).approver = NoOne
                      /\ row(i).decision = "pending" <=> row(i).approver # NoOne
                      /\ ~ row(i).superseded
    OBVIOUS
  <2>1. /\ row(i).round = Round
        /\ row(i).sequence = i
        /\ row(i).approver = chain[i].approver
        /\ row(i).decision = IF row(i).approver = NoOne THEN "approved" ELSE "pending"
        /\ row(i).superseded = FALSE
    BY DEF StepRow, RoundOfSubmission
  <2> HIDE DEF chain, row
  <2> QED
    BY <2>1
<1> HIDE DEF chain, row
<1>6. \A s \in rows :
          /\ s.round = Round
          /\ ~ s.superseded
          /\ s.decision = "approved" <=> s.approver = NoOne
          /\ s.decision = "pending" <=> s.approver # NoOne
  BY <1>5
<1>7. \A s, t \in rows : s.sequence = t.sequence => s = t
  BY <1>5
<1>8. \A i \in DOMAIN chain : \E s \in rows : s.sequence = i /\ s.approver = chain[i].approver
  BY <1>5
<1> HIDE DEF rows
<1>9. Round' = Round /\ Round = returns + 1 /\ returns \in Nat /\ version \in Nat
  BY <1>2, <1>3 DEF Round, TypeOK
<1>10. OneLiveChain' /\ RoundsSoFar'
  <2>1. OneLiveChain
    BY DEF ChainInv
  <2>2. \A s \in steps : s.round \in Nat
    BY <1>3 DEF TypeOK, Step
  <2> QED
    BY <1>1, <1>2, <1>6, <1>7, <1>9, <2>1, <2>2 DEF OneLiveChain, RoundsSoFar
<1>11. LiveDecisions' /\ VerifiedWaitsOnNobody' /\ ApprovalsSigned'
  BY <1>1, <1>2, <1>6 DEF LiveDecisions, VerifiedWaitsOnNobody, ApprovalsSigned
<1>12. SignedRounds' /\ ApprovedFiguresStand'
  <2>1. \A g \in signed : g.round <= returns
    BY <1>2 DEF ChainInv, SignedRounds
  <2>2. \A g \in signed : g.round \in Nat
    BY <1>3 DEF TypeOK
  <2> QED
    BY <1>2, <1>9, <2>1, <2>2 DEF SignedRounds, ApprovedFiguresStand
<1>13. Screens'
  <2>1. \A u \in Employees(Directory) : shown[u].version \in Nat
    BY <1>3 DEF TypeOK
  <2> QED
    BY <1>2, <1>9, <2>1 DEF ChainInv, Screens
<1>14. LevelsWritten'
  BY <1>1, <1>4, <1>8 DEF LevelsWritten
<1> QED
  BY <1>3, <1>10, <1>11, <1>12, <1>13, <1>14 DEF ChainInv


\* A decision by u is taken on the first pending step, which is u's, by someone whose screen
\* is at the claim's version.
LEMMA DeciderShape ==
    ASSUME ChainInv, NEW u \in Employees(Directory), NEW s \in steps, MayDecide(u, s)
    PROVE  /\ s \in CurrentRoundSteps /\ s \in Pending
           /\ s \in Step /\ s.decision = "pending" /\ s.approver = u
           /\ s.round = Round /\ ~ s.superseded
           /\ \A t \in Pending : s.sequence <= t.sequence
           /\ shown[u].version = version
BY DEF ChainInv, TypeInv, TypeOK, MayDecide, IsFront, IsFirstOf, Pending, CurrentRoundSteps, UpToDate

\* Recording a decision replaces one live step and keeps everything else.
LEMMA DecisionShape ==
    ASSUME ChainInv, NEW s \in CurrentRoundSteps, NEW d \in Decision, UNCHANGED returns,
           steps' = (steps \ {s}) \cup {[s EXCEPT !.decision = d]}
    PROVE  LET r == [s EXCEPT !.decision = d] IN
           /\ r \in Step /\ r.decision = d
           /\ r.round = s.round /\ r.sequence = s.sequence
           /\ r.approver = s.approver /\ r.role = s.role /\ r.superseded = s.superseded
           /\ CurrentRoundSteps' = (CurrentRoundSteps \ {s}) \cup {r}
<1> DEFINE r == [s EXCEPT !.decision = d]
<1>1. s \in Step /\ s.round = Round /\ ~ s.superseded
  BY DEF CurrentRoundSteps, ChainInv, TypeInv, TypeOK
<1>2. /\ r \in Step /\ r.decision = d
      /\ r.round = s.round /\ r.sequence = s.sequence
      /\ r.approver = s.approver /\ r.role = s.role /\ r.superseded = s.superseded
  BY <1>1 DEF Step
<1> HIDE DEF r
<1>3. steps' = (steps \ {s}) \cup {r}
  BY DEF r
<1>4. CurrentRoundSteps' = (CurrentRoundSteps \ {s}) \cup {r}
  BY <1>1, <1>2, <1>3 DEF CurrentRoundSteps, Round
<1> QED
  BY <1>2, <1>4 DEF r

\* A decision that stays in the round keeps the chain in one piece.
LEMMA ChainShapeKept ==
    ASSUME ChainInv, NEW s \in CurrentRoundSteps, NEW d \in Decision,
           UNCHANGED <<returns, claimant, frozen>>,
           steps' = (steps \ {s}) \cup {[s EXCEPT !.decision = d]},
           status # "draft", status' # "draft"
    PROVE  OneLiveChain' /\ RoundsSoFar' /\ LevelsWritten'
<1> DEFINE r == [s EXCEPT !.decision = d]
<1>1. /\ r.round = s.round /\ r.sequence = s.sequence
      /\ r.approver = s.approver /\ r.superseded = s.superseded
      /\ CurrentRoundSteps' = (CurrentRoundSteps \ {s}) \cup {r}
  BY DecisionShape
<1>2. steps' = (steps \ {s}) \cup {r} /\ s \in steps
  BY DEF CurrentRoundSteps
<1> HIDE DEF r
<1>3. OneLiveChain' /\ RoundsSoFar'
  BY <1>1, <1>2 DEF ChainInv, OneLiveChain, RoundsSoFar, Round
<1>4. (ChainFor(NetReimbursable(frozen)))' = ChainFor(NetReimbursable(frozen))
  BY DEF ChainFor
<1>5. LevelsWritten'
  BY <1>1, <1>4 DEF ChainInv, LevelsWritten
<1> QED
  BY <1>3, <1>5

\* Every decision raises the version past every screen.
LEMMA ScreensLeftBehind ==
    ASSUME ChainInv, version' = version + 1, UNCHANGED <<shown, frozen>>
    PROVE  Screens'
<1>1. version \in Nat /\ \A u \in Employees(Directory) : shown[u].version \in Nat
  BY DEF ChainInv, TypeInv, TypeOK
<1> QED
  BY <1>1 DEF ChainInv, Screens

\* An approval is given to the figures on record, which the approver's screen shows.
LEMMA ChainApprove ==
    ASSUME ChainInv, NEW u \in Employees(Directory), Approve(u)
    PROVE  ChainInv'
<1>1. PICK s \in steps :
          /\ MayDecide(u, s)
          /\ steps' = (steps \ {s}) \cup {[s EXCEPT !.decision = "approved"]}
          /\ signed' = signed \cup {[round |-> s.round, sequence |-> s.sequence,
                                     figures |-> shown[u].figures]}
          /\ MayFollow(status, TargetStatus(s))
          /\ status' = TargetStatus(s)
          /\ version' = version + 1
          /\ UNCHANGED <<claimant, draft, withdrawn, frozen, shown, returns>>
  BY DEF Approve, Decided
<1> DEFINE r == [s EXCEPT !.decision = "approved"]
           g == [round |-> s.round, sequence |-> s.sequence, figures |-> shown[u].figures]
<1>2. /\ s \in CurrentRoundSteps /\ s \in Pending
      /\ s \in Step /\ s.decision = "pending" /\ s.approver = u /\ s.round = Round
      /\ \A t \in Pending : s.sequence <= t.sequence
      /\ shown[u].version = version
  BY <1>1, DeciderShape
<1>3. status # "draft"
  BY <1>2 DEF ChainInv, OneLiveChain
<1>4. TargetStatus(s) \in {"verified", "pending_finance", "pending_approval"}
  BY DEF TargetStatus
<1>5. /\ r \in Step /\ r.decision = "approved"
      /\ r.round = s.round /\ r.sequence = s.sequence /\ r.approver = s.approver
      /\ CurrentRoundSteps' = (CurrentRoundSteps \ {s}) \cup {r}
  BY <1>1, <1>2, DecisionShape DEF Decision
<1>6. g.round = Round /\ g.sequence = s.sequence /\ g.figures = frozen
  BY <1>2, <1>3 DEF ChainInv, Screens
<1>7. TypeInv'
  BY TypeApprove DEF ChainInv
<1>8. OneLiveChain' /\ RoundsSoFar' /\ LevelsWritten'
  BY <1>1, <1>2, <1>3, <1>4, ChainShapeKept DEF Decision
<1>9. Screens'
  BY <1>1, ScreensLeftBehind
<1>10. signed' = signed \cup {g} /\ Round' = Round
  BY <1>1 DEF Round
<1> HIDE DEF r, g
<1>11. status # "rejected"
  BY <1>1, <1>4 DEF MayFollow, Transitions
<1>12. LiveDecisions'
  BY <1>5, <1>11 DEF ChainInv, LiveDecisions
<1>13. VerifiedWaitsOnNobody'
  <2> SUFFICES ASSUME status' = "verified", NEW t \in Pending'
               PROVE  FALSE
    BY DEF VerifiedWaitsOnNobody
  <2>1. t \in Pending /\ t # s
    BY <1>5 DEF Pending
  <2>2. t.sequence # s.sequence
    BY <1>2, <2>1 DEF ChainInv, OneLiveChain, Pending, CurrentRoundSteps
  <2>3. t.sequence > s.sequence
    BY <1>2, <2>1, <2>2 DEF Pending, CurrentRoundSteps, ChainInv, TypeInv, TypeOK, Step
  <2>4. LaterThan(s) # {}
    BY <2>1, <2>3 DEF LaterThan
  <2> QED
    BY <1>1, <2>4 DEF TargetStatus
<1>14. SignedRounds' /\ ApprovedFiguresStand'
  <2>1. Round \in Nat
    BY DEF ChainInv, TypeInv, TypeOK, Round
  <2> QED
    BY <1>1, <1>4, <1>6, <1>10, <2>1 DEF ChainInv, SignedRounds, ApprovedFiguresStand
<1>15. ApprovalsSigned'
  BY <1>2, <1>5, <1>6, <1>10 DEF ChainInv, ApprovalsSigned
<1> QED
  BY <1>7, <1>8, <1>9, <1>12, <1>13, <1>14, <1>15 DEF ChainInv


\* A rejection is the one decision that leaves a live step neither waiting nor approved.
LEMMA ChainReject ==
    ASSUME ChainInv, NEW u \in Employees(Directory), Reject(u)
    PROVE  ChainInv'
<1>1. PICK s \in steps :
          /\ MayDecide(u, s)
          /\ steps' = (steps \ {s}) \cup {[s EXCEPT !.decision = "rejected"]}
          /\ status' = "rejected"
          /\ version' = version + 1
          /\ UNCHANGED <<claimant, draft, withdrawn, frozen, shown, returns, signed>>
  BY DEF Reject, Decided
<1> DEFINE r == [s EXCEPT !.decision = "rejected"]
<1>2. s \in CurrentRoundSteps
  BY <1>1, DeciderShape
<1>3. status # "draft"
  BY <1>2 DEF ChainInv, OneLiveChain
<1>4. r.decision = "rejected" /\ CurrentRoundSteps' = (CurrentRoundSteps \ {s}) \cup {r}
  BY <1>1, <1>2, DecisionShape DEF Decision
<1>5. TypeInv'
  BY TypeReject DEF ChainInv
<1>6. OneLiveChain' /\ RoundsSoFar' /\ LevelsWritten'
  BY <1>1, <1>2, <1>3, ChainShapeKept DEF Decision
<1>7. Screens'
  BY <1>1, ScreensLeftBehind
<1> HIDE DEF r
<1>8. LiveDecisions' /\ VerifiedWaitsOnNobody'
  BY <1>1, <1>4 DEF ChainInv, LiveDecisions, VerifiedWaitsOnNobody
<1>9. SignedRounds' /\ ApprovedFiguresStand' /\ ApprovalsSigned'
  BY <1>1, <1>3, <1>4 DEF ChainInv, SignedRounds, ApprovedFiguresStand, ApprovalsSigned, Round
<1> QED
  BY <1>5, <1>6, <1>7, <1>8, <1>9 DEF ChainInv

\* What a return writes over a step: the round it ends is superseded, the rest stands.
LEMMA SupersededIs ==
    ASSUME NEW t \in Step
    PROVE  /\ Superseded(t) \in Step
           /\ Superseded(t).round = t.round /\ Superseded(t).sequence = t.sequence
           /\ Superseded(t).decision = t.decision
           /\ Superseded(t).superseded <=> (t.superseded \/ t.round = Round)
           /\ t.round # Round => Superseded(t) = t
BY DEF Superseded, Step

\* A return: no live step is left, and every approval given so far is of a round gone by.
LEMMA ChainReturn ==
    ASSUME ChainInv, NEW u \in Employees(Directory), Return(u)
    PROVE  ChainInv'
<1>1. PICK s \in steps :
          /\ MayDecide(u, s)
          /\ steps' = {Superseded(IF t = s THEN [t EXCEPT !.decision = "returned"] ELSE t) :
                          t \in steps}
          /\ returns' = returns + 1
          /\ status' = "draft"
          /\ version' = version + 1
          /\ UNCHANGED <<claimant, draft, withdrawn, frozen, shown, signed>>
  BY DEF Return, Decided
<1> DEFINE after(t) == Superseded(IF t = s THEN [t EXCEPT !.decision = "returned"] ELSE t)
<1>2. TypeOK /\ OneLiveChain /\ RoundsSoFar /\ s \in Step
  BY DEF ChainInv, TypeInv, TypeOK
<1>3. \A t \in steps :
          /\ after(t).round = t.round /\ after(t).sequence = t.sequence
          /\ after(t).superseded <=> (t.superseded \/ t.round = Round)
  <2> SUFFICES ASSUME NEW t \in steps
               PROVE  /\ after(t).round = t.round /\ after(t).sequence = t.sequence
                      /\ after(t).superseded <=> (t.superseded \/ t.round = Round)
    OBVIOUS
  <2>1. CASE t = s
    <3>1. /\ [t EXCEPT !.decision = "returned"] \in Step
          /\ [t EXCEPT !.decision = "returned"].round = t.round
          /\ [t EXCEPT !.decision = "returned"].sequence = t.sequence
          /\ [t EXCEPT !.decision = "returned"].superseded = t.superseded
      BY <1>2, <2>1 DEF Step, Decision
    <3> QED
      BY <2>1, <3>1, SupersededIs
  <2>2. CASE t # s
    BY <1>2, <2>2, SupersededIs DEF TypeOK
  <2> QED
    BY <2>1, <2>2
<1>4. steps' = {after(t) : t \in steps}
  BY <1>1
<1> HIDE DEF after
<1>5. returns \in Nat /\ Round = returns + 1 /\ Round' = returns + 2
  BY <1>1, <1>2 DEF TypeOK, Round
<1>6. \A t \in steps : t.round \in Nat /\ t.round <= Round /\ (t.superseded <=> t.round <= returns)
  BY <1>2 DEF TypeOK, Step, RoundsSoFar, OneLiveChain
<1>7. CurrentRoundSteps' = {}
  BY <1>3, <1>4, <1>5, <1>6 DEF CurrentRoundSteps
<1>8. \A x \in steps' : (x.superseded <=> x.round <= returns') /\ x.round <= Round'
  <2>1. \A t \in steps : after(t).superseded <=> t.round <= returns + 1
    BY <1>3, <1>5, <1>6
  <2>2. \A t \in steps : after(t).round = t.round /\ t.round <= returns + 2
    BY <1>3, <1>5, <1>6
  <2>3. returns' = returns + 1
    BY <1>1
  <2> QED
    BY <1>4, <1>5, <2>1, <2>2, <2>3
<1>9. \A x, y \in steps' : x.round = y.round /\ x.sequence = y.sequence => x = y
  BY <1>2, <1>3, <1>4 DEF OneLiveChain
<1>10. OneLiveChain' /\ RoundsSoFar'
  BY <1>7, <1>8, <1>9 DEF OneLiveChain, RoundsSoFar
<1>11. LiveDecisions' /\ VerifiedWaitsOnNobody' /\ ApprovalsSigned' /\ LevelsWritten'
  BY <1>1, <1>7 DEF LiveDecisions, VerifiedWaitsOnNobody, ApprovalsSigned, LevelsWritten, Pending
<1>12. SignedRounds' /\ ApprovedFiguresStand'
  <2>1. \A g \in signed : g.round \in Nat /\ g.round <= Round
    BY <1>2 DEF ChainInv, SignedRounds, TypeOK
  <2> QED
    BY <1>1, <1>5, <2>1 DEF SignedRounds, ApprovedFiguresStand
<1>13. Screens'
  BY <1>1, ScreensLeftBehind
<1>14. TypeInv'
  BY TypeReturn DEF ChainInv
<1> QED
  BY <1>10, <1>11, <1>12, <1>13, <1>14 DEF ChainInv

\* The chain invariant is inductive.
LEMMA ChainStep == ChainInv /\ [Moves]_vars => ChainInv'
<1> SUFFICES ASSUME ChainInv, [Moves]_vars
             PROVE  ChainInv'
  OBVIOUS
<1>1. CASE Moves
  BY <1>1, ChainDraft, ChainSubmit, ChainApprove, ChainReject, ChainReturn DEF Moves
<1>2. CASE UNCHANGED vars
  <2>1. UNCHANGED <<claimant, status, version, returns, frozen, steps, shown, signed>>
    BY <1>2 DEF vars
  <2>2. UNCHANGED <<CurrentRoundSteps, Pending, Round>>
    BY <2>1 DEF CurrentRoundSteps, Pending, Round
  <2>3. (ChainFor(NetReimbursable(frozen)))' = ChainFor(NetReimbursable(frozen))
    BY <2>1 DEF ChainFor
  <2>4. TypeInv'
    BY <1>2, TypeStep DEF ChainInv
  <2>5. OneLiveChain' /\ RoundsSoFar' /\ LiveDecisions' /\ VerifiedWaitsOnNobody'
    BY <2>1, <2>2
    DEF ChainInv, OneLiveChain, RoundsSoFar, LiveDecisions, VerifiedWaitsOnNobody
  <2>6. SignedRounds' /\ ApprovedFiguresStand' /\ ApprovalsSigned' /\ Screens'
    BY <2>1, <2>2
    DEF ChainInv, SignedRounds, ApprovedFiguresStand, ApprovalsSigned, Screens
  <2>7. LevelsWritten'
    BY <2>1, <2>2, <2>3 DEF ChainInv, LevelsWritten
  <2> QED
    BY <2>4, <2>5, <2>6, <2>7 DEF ChainInv
<1> QED
  BY <1>1, <1>2

LEMMA ChainMoving == Moving => []ChainInv
BY ChainInit, ChainStep, PTL DEF Moving

\* The chain invariant holds in every reachable state.
THEOREM ChainCorrect == Spec => []ChainInv
BY SpecMoves, ChainMoving, PTL

-----------------------------------------------------------------------------
(* What it gives *)

\* A claim has one chain at a time: the resubmission of a returned claim never collides with
\* the rows of an earlier round, nothing of an earlier round is live, and a draft waits on nobody.
THEOREM ChainIsOne == Spec => []OneLiveChain
<1>1. ChainInv => OneLiveChain
  BY DEF ChainInv
<1> QED
  BY <1>1, ChainCorrect, PTL

\* No approval in the round in force was given to other figures than the ones on record,
\* however long the approver's screen had been open.
THEOREM FiguresStand == Spec => []ApprovedFiguresStand
<1>1. ChainInv => ApprovedFiguresStand
  BY DEF ChainInv
<1> QED
  BY <1>1, ChainCorrect, PTL

\* A live level that is not waiting on a verified claim was approved, and at what is on record.
LEMMA VerifiedIsSigned == ChainInv => VerifiedWasEarned
<1> DEFINE chain == ChainFor(NetReimbursable(frozen))
<1> SUFFICES ASSUME ChainInv, status = "verified",
                    NEW i \in DOMAIN chain, chain[i].approver # NoOne
             PROVE  [round |-> Round, sequence |-> i, figures |-> frozen] \in signed
  BY DEF VerifiedWasEarned
<1>1. PICK s \in CurrentRoundSteps : s.sequence = i /\ s.approver = chain[i].approver
  BY DEF ChainInv, LevelsWritten
<1>2. s.decision = "approved"
  BY DEF ChainInv, LiveDecisions, VerifiedWaitsOnNobody, Pending
<1>3. PICK g \in signed : g.round = Round /\ g.sequence = s.sequence
  BY <1>1, <1>2 DEF ChainInv, ApprovalsSigned
<1>4. g.figures = frozen
  BY <1>3 DEF ChainInv, ApprovedFiguresStand
<1>5. g \in [round : Nat \ {0}, sequence : Nat \ {0}, figures : Figures]
  BY DEF ChainInv, TypeInv, TypeOK
<1>6. g = [round |-> Round, sequence |-> i, figures |-> frozen]
  BY <1>1, <1>3, <1>4, <1>5
<1> QED
  BY <1>6

\* A verified claim was approved, at exactly its figures, by every level that its value needs
\* and that somebody fills.
THEOREM VerifiedIsEarned == Spec => []VerifiedWasEarned
BY VerifiedIsSigned, ChainCorrect, PTL


\* Only a return touches a recorded decision, and only to mark it superseded.
LEMMA HistoryMoving == Moving => HistoryStands
<1> DEFINE Kept(s) ==
        /\ s.superseded => s \in steps'
        /\ s.decision # "pending" =>
               \/ s \in steps'
               \/ returns' > returns /\ [s EXCEPT !.superseded = TRUE] \in steps'
<1>1. ChainInv /\ [Moves]_vars => [\A s \in steps : Kept(s)]_vars
  <2> SUFFICES ASSUME ChainInv, Moves, NEW s \in steps
               PROVE  Kept(s)
    OBVIOUS
  <2>1. CASE s \in steps'
    BY <2>1
  <2>2. ASSUME NEW u \in Employees(Directory), Approve(u)
        PROVE  Kept(s)
    <3>1. PICK d \in steps :
              MayDecide(u, d) /\ steps' = (steps \ {d}) \cup {[d EXCEPT !.decision = "approved"]}
      BY <2>2 DEF Approve
    <3>2. d.decision = "pending" /\ ~ d.superseded
      BY <3>1, DeciderShape
    <3> QED
      BY <3>1, <3>2
  <2>3. ASSUME NEW u \in Employees(Directory), Reject(u)
        PROVE  Kept(s)
    <3>1. PICK d \in steps :
              MayDecide(u, d) /\ steps' = (steps \ {d}) \cup {[d EXCEPT !.decision = "rejected"]}
      BY <2>3 DEF Reject
    <3>2. d.decision = "pending" /\ ~ d.superseded
      BY <3>1, DeciderShape
    <3> QED
      BY <3>1, <3>2
  <2>4. ASSUME NEW u \in Employees(Directory), Return(u)
        PROVE  Kept(s)
    <3>1. PICK d \in steps :
              /\ MayDecide(u, d)
              /\ steps' = {Superseded(IF t = d THEN [t EXCEPT !.decision = "returned"] ELSE t) :
                              t \in steps}
              /\ returns' = returns + 1
      BY <2>4 DEF Return
    <3>2. d.decision = "pending" /\ ~ d.superseded
      BY <3>1, DeciderShape
    <3>3. s # d => Superseded(s) \in steps'
      BY <3>1
    <3>4. s.superseded => s.round # Round
      BY DEF ChainInv, OneLiveChain, TypeInv, TypeOK, Round
    <3>5. returns' > returns
      BY <3>1 DEF ChainInv, TypeInv, TypeOK
    <3> QED
      BY <3>2, <3>3, <3>4, <3>5 DEF Superseded
  <2>5. CASE \/ Edited
             \/ \E outcome \in Figures : Files(outcome)
             \/ \E u \in Employees(Directory) : Look(u)
    <3>1. steps \subseteq steps'
      BY <2>5 DEF Edited, Files, Submitted, KeptSteps, Look, claimVars
    <3> QED
      BY <3>1
  <2> QED
    BY <2>2, <2>3, <2>4, <2>5 DEF Moves
<1> QED
  BY <1>1, ChainMoving, PTL DEF Moving, HistoryStands

\* No step of the system changes or loses a recorded decision, except that the return of a
\* round marks that round's steps superseded; what is superseded is never touched again.
THEOREM HistoryIsKept == Spec => HistoryStands
BY SpecMoves, HistoryMoving, PTL

\* What is rendered of a submitted claim is what was frozen, which only a submission writes.
LEMMA FiguresMoving == Moving => FiguresHoldStill
<1>1. [Moves]_vars => [status # "draft" /\ status' # "draft" => Displayed' = Displayed]_vars
  <2> SUFFICES ASSUME Moves, status # "draft", status' # "draft"
               PROVE  frozen' = frozen
    BY DEF Displayed
  <2> QED
    BY DEF Moves, Edited, Files, OwnDraft, Look, Approve, Reject, Return, Decided, claimVars
<1> QED
  BY <1>1, PTL DEF Moving, FiguresHoldStill

\* Between a submission and the return to draft, what every surface renders never moves.
THEOREM FiguresAreHeld == Spec => FiguresHoldStill
BY SpecMoves, FiguresMoving, PTL

=============================================================================
