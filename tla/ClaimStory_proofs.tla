-------------------------- MODULE ClaimStory_proofs --------------------------
(***************************************************************************)
(* What a claim's rows tell of it: its levels decide in order, its status  *)
(* is the one its steps say, its trail accounts for both; below Finance    *)
(* nobody is asked about their own claim; and the workflow implements      *)
(* SettlementPromise. For every employee master, matrix, set of bills and  *)
(* number of returns.                                                      *)
(***************************************************************************)
EXTENDS ClaimWorkflow_proofs, FiniteSetTheorems

-----------------------------------------------------------------------------
(* The shape of a decision *)

\* The claim is with the approvers, s is the step it waits on, and a decision makes it r.
Decides(s, r) ==
    /\ status \in Awaiting
    /\ s \in Pending /\ s \in Step /\ s.approver # NoOne
    /\ \A t \in Pending : s.sequence <= t.sequence
    /\ r.sequence = s.sequence /\ r.approver = s.approver /\ r.role = s.role
    /\ r.decision # "pending"
    /\ CurrentRoundSteps' = (CurrentRoundSteps \ {s}) \cup {r}
    /\ Pending' = LaterThan(s)

\* A decision that stays in the round decides its front step, and leaves the later ones waiting.
LEMMA DecisionDecides ==
    ASSUME ChainInv, NEW u \in Employees(Directory), NEW s \in steps, MayDecide(u, s),
           NEW d \in Decision \ {"pending"}, UNCHANGED returns,
           steps' = (steps \ {s}) \cup {[s EXCEPT !.decision = d]},
           NEW to \in {"verified", "pending_finance", "pending_approval", "rejected"},
           MayFollow(status, to)
    PROVE  \E r : Decides(s, r) /\ r.decision = d
<1> DEFINE r == [s EXCEPT !.decision = d]
<1>1. /\ s \in CurrentRoundSteps /\ s \in Pending /\ s \in Step /\ s.approver = u
      /\ \A t \in Pending : s.sequence <= t.sequence
  BY DeciderShape
<1>2. /\ r.decision = d /\ r.sequence = s.sequence /\ r.approver = s.approver /\ r.role = s.role
      /\ CurrentRoundSteps' = (CurrentRoundSteps \ {s}) \cup {r}
  BY <1>1, DecisionShape
<1> HIDE DEF r
<1>3. status \in Awaiting
  <2>1. status # "draft"
    BY <1>1 DEF ChainInv, OneLiveChain
  <2> QED
    BY <2>1 DEF MayFollow, Transitions, Awaiting
<1>4. Pending' = Pending \ {s}
  BY <1>2 DEF Pending
<1>5. Pending \ {s} = LaterThan(s)
  <2>1. \A t \in Pending \ {s} : t.sequence # s.sequence
    BY <1>1 DEF ChainInv, OneLiveChain, Pending, CurrentRoundSteps
  <2>2. \A t \in Pending : t.sequence \in Nat
    BY DEF Pending, CurrentRoundSteps, ChainInv, TypeInv, TypeOK, Step
  <2> QED
    BY <1>1, <2>1, <2>2 DEF LaterThan
<1>6. s.approver # NoOne
  BY <1>1, WorkflowAssumption
<1>7. Decides(s, r)
  BY <1>1, <1>2, <1>3, <1>4, <1>5, <1>6 DEF Decides
<1> QED
  BY <1>2, <1>7

LEMMA ApproveDecides ==
    ASSUME ChainInv, NEW u \in Employees(Directory), Approve(u)
    PROVE  \E s, r : /\ Decides(s, r) /\ r.decision = "approved"
                     /\ status' = TargetStatus(s)
<1>1. PICK s \in steps :
          /\ MayDecide(u, s)
          /\ steps' = (steps \ {s}) \cup {[s EXCEPT !.decision = "approved"]}
          /\ MayFollow(status, TargetStatus(s))
          /\ status' = TargetStatus(s)
          /\ UNCHANGED returns
  BY DEF Approve, Decided
<1>2. TargetStatus(s) \in {"verified", "pending_finance", "pending_approval"}
  BY DEF TargetStatus
<1>3. \E r : Decides(s, r) /\ r.decision = "approved"
  BY <1>1, <1>2, DecisionDecides DEF Decision
<1> QED
  BY <1>1, <1>3

LEMMA RejectDecides ==
    ASSUME ChainInv, NEW u \in Employees(Directory), Reject(u)
    PROVE  \E s, r : Decides(s, r) /\ r.decision = "rejected" /\ status' = "rejected"
<1>1. PICK s \in steps :
          /\ MayDecide(u, s)
          /\ steps' = (steps \ {s}) \cup {[s EXCEPT !.decision = "rejected"]}
          /\ MayFollow(status, "rejected")
          /\ status' = "rejected"
          /\ UNCHANGED returns
  BY DEF Reject, Decided
<1>2. \E r : Decides(s, r) /\ r.decision = "rejected"
  BY <1>1, DecisionDecides DEF Decision
<1> QED
  BY <1>1, <1>2

\* A return leaves no step live.
LEMMA ReturnEmpties ==
    ASSUME ChainInv, NEW u \in Employees(Directory), Return(u)
    PROVE  CurrentRoundSteps' = {} /\ Pending' = {} /\ status' = "draft"
<1>1. ChainInv' /\ status' = "draft"
  BY ChainReturn DEF Return, Decided
<1> QED
  BY <1>1 DEF ChainInv, OneLiveChain, Pending

\* A submission's steps wait, but for those that nobody fills; the last one does wait.
LEMMA SubmitOpens ==
    ASSUME ChainInv, NEW outcome \in Figures, Files(outcome)
    PROVE  /\ status' = "pending_approval"
           /\ \A s \in CurrentRoundSteps' :
                 s.decision = IF s.approver = NoOne THEN "approved" ELSE "pending"
           /\ Pending' # {}
<1> DEFINE value == NetReimbursable(outcome)
           chain == ChainFor(value)
           row(i) == StepRow(i, chain[i])
<1>1. status' = "pending_approval"
  BY DEF Files, Submitted
<1>2. Covered(Matrix, value) /\ CurrentRoundSteps' = {row(i) : i \in DOMAIN chain}
  BY SubmitShape
<1>3. \A i \in DOMAIN chain :
         /\ row(i).approver = chain[i].approver
         /\ row(i).decision = IF row(i).approver = NoOne THEN "approved" ELSE "pending"
  BY DEF StepRow
<1> HIDE DEF row
<1>4. Len(chain) \in DOMAIN chain /\ chain[Len(chain)].approver # NoOne
  <2>1. /\ chain \in Seq([role : Role, approver : Employees(Directory) \cup {NoOne}])
        /\ Len(chain) \in 1..(Len(FullChain) + 1)
        /\ chain[Len(chain)].approver # NoOne
    BY <1>2, ChainType
  <2> HIDE DEF chain
  <2> QED
    BY <2>1, LenProperties
<1> HIDE DEF chain
<1>5. row(Len(chain)) \in Pending'
  BY <1>2, <1>3, <1>4 DEF Pending
<1> QED
  BY <1>1, <1>2, <1>3, <1>5

\* Nothing else touches the steps or the status.
LEMMA OthersLeaveRows ==
    ASSUME \/ Edited
           \/ \E u \in Employees(Directory) : Look(u)
           \/ UNCHANGED vars
    PROVE  UNCHANGED <<status, version, returns, steps, CurrentRoundSteps, Pending,
                       inbox, trail, claimant>>
<1>1. UNCHANGED <<status, version, returns, steps, inbox, trail, claimant>>
  BY DEF Edited, Look, claimVars, vars
<1> QED
  BY <1>1 DEF CurrentRoundSteps, Pending, Round

-----------------------------------------------------------------------------
(* Levels decide in order *)

LEMMA OrderStep ==
    ASSUME ChainInv, DecidedInOrder, [Moves]_vars
    PROVE  DecidedInOrder'
<1>1. ASSUME NEW s, NEW r, Decides(s, r)
      PROVE  DecidedInOrder'
  <2> SUFFICES ASSUME NEW x \in CurrentRoundSteps', NEW y \in CurrentRoundSteps',
                      x.sequence < y.sequence, y.decision # "pending", y.approver # NoOne
               PROVE  x.decision = "approved"
    BY DEF DecidedInOrder
  <2>1. ASSUME NEW t \in CurrentRoundSteps, t # s, t.sequence < s.sequence
        PROVE  t.decision = "approved"
    <3>1. t \notin Pending
      BY <1>1, <2>1 DEF Decides, Pending, CurrentRoundSteps, ChainInv, TypeInv, TypeOK, Step
    <3> QED
      BY <1>1, <3>1 DEF Pending, Decides, Awaiting, ChainInv, LiveDecisions
  <2>2. ASSUME NEW t \in CurrentRoundSteps, s.sequence < t.sequence
        PROVE  t.decision = "pending" \/ t.approver = NoOne
    BY <1>1, <2>2 DEF Decides, Pending, DecidedInOrder
  <2>3. CASE y = r
    <3>1. x # r
      BY <1>1, <2>3 DEF Decides, CurrentRoundSteps, Step
    <3> QED
      BY <1>1, <2>1, <2>3, <3>1 DEF Decides
  <2>4. CASE y # r /\ x = r
    BY <1>1, <2>2, <2>4 DEF Decides
  <2>5. CASE y # r /\ x # r
    BY <1>1, <2>5 DEF Decides, DecidedInOrder
  <2> QED
    BY <2>3, <2>4, <2>5
<1>2. ASSUME NEW outcome \in Figures, Files(outcome)
      PROVE  DecidedInOrder'
  BY <1>2, SubmitOpens DEF DecidedInOrder
<1>3. ASSUME NEW u \in Employees(Directory), Return(u)
      PROVE  DecidedInOrder'
  BY <1>3, ReturnEmpties DEF DecidedInOrder
<1>4. ASSUME NEW u \in Employees(Directory), Approve(u) \/ Reject(u)
      PROVE  DecidedInOrder'
  BY <1>1, <1>4, ApproveDecides, RejectDecides
<1>5. CASE UNCHANGED CurrentRoundSteps
  BY <1>5 DEF DecidedInOrder
<1> QED
  BY <1>2, <1>3, <1>4, <1>5, OthersLeaveRows DEF Moves

\* A chain is opened with every level that anybody fills undecided.
LEMMA OrderMoving == Moving => []DecidedInOrder
<1>1. Init => DecidedInOrder
  BY DEF Init, DecidedInOrder, CurrentRoundSteps
<1>2. ChainInv /\ DecidedInOrder /\ [Moves]_vars => DecidedInOrder'
  BY OrderStep
<1> QED
  BY <1>1, <1>2, ChainMoving, PTL DEF Moving

\* However many levels the matrix asks: nobody has decided a step while a level below it was
\* still to be asked, or had turned the claim down.
THEOREM LevelsDecideInOrder == Spec => []DecidedInOrder
BY SpecMoves, OrderMoving, PTL

-----------------------------------------------------------------------------
(* The status is what the steps say *)

\* The part of StatusMatchesChain that has to be carried along.
StatusInv ==
    /\ status \in Awaiting => Pending # {}
    /\ status = "pending_finance" => \E s \in Pending : IsFront(s) /\ s.role = "Finance"
    /\ status = "rejected" => \E r : {s \in CurrentRoundSteps : s.decision = "rejected"} = {r}

LEMMA StatusStep ==
    ASSUME ChainInv, StatusInv, [Moves]_vars
    PROVE  StatusInv'
<1>1. ASSUME NEW u \in Employees(Directory), Approve(u)
      PROVE  StatusInv'
  <2>1. PICK s, r : Decides(s, r) /\ r.decision = "approved" /\ status' = TargetStatus(s)
    BY <1>1, ApproveDecides
  <2>2. /\ TargetStatus(s) \in Awaiting => LaterThan(s) # {}
        /\ TargetStatus(s) # "rejected"
        /\ TargetStatus(s) = "pending_finance" =>
              \E t \in LaterThan(s) : IsFirstOf(t, LaterThan(s)) /\ t.role = "Finance"
    BY DEF TargetStatus, Awaiting, FirstOf, IsFirstOf
  <2>3. Pending' = LaterThan(s)
    BY <2>1 DEF Decides
  <2>4. \A t : IsFirstOf(t, LaterThan(s)) => IsFront(t)'
    BY <2>3 DEF IsFront, IsFirstOf
  <2> QED
    BY <2>1, <2>2, <2>3, <2>4 DEF StatusInv
<1>2. ASSUME NEW u \in Employees(Directory), Reject(u)
      PROVE  StatusInv'
  <2>1. PICK s, r : Decides(s, r) /\ r.decision = "rejected" /\ status' = "rejected"
    BY <1>2, RejectDecides
  <2>2. \A t \in CurrentRoundSteps : t.decision # "rejected"
    BY <2>1 DEF Decides, Awaiting, ChainInv, LiveDecisions
  <2>3. {t \in CurrentRoundSteps' : t.decision = "rejected"} = {r}
    BY <2>1, <2>2 DEF Decides
  <2> QED
    BY <2>1, <2>3 DEF StatusInv, Awaiting
<1>3. ASSUME NEW u \in Employees(Directory), Return(u)
      PROVE  StatusInv'
  BY <1>3, ReturnEmpties DEF StatusInv, Awaiting
<1>4. ASSUME NEW outcome \in Figures, Files(outcome)
      PROVE  StatusInv'
  BY <1>4, SubmitOpens DEF StatusInv
<1>5. CASE UNCHANGED <<status, CurrentRoundSteps, Pending>>
  BY <1>5 DEF StatusInv, IsFront
<1> QED
  BY <1>1, <1>2, <1>3, <1>4, <1>5, OthersLeaveRows DEF Moves

\* A draft has no live step, and what is carried along gives the rest.
LEMMA StatusMoving == Moving => []StatusMatchesChain
<1>1. Init => StatusInv
  BY DEF Init, StatusInv, Awaiting
<1>2. ChainInv /\ StatusInv /\ [Moves]_vars => StatusInv'
  BY StatusStep
<1>3. ASSUME ChainInv, StatusInv
      PROVE  StatusMatchesChain
  <2> DEFINE rejections == {s \in CurrentRoundSteps : s.decision = "rejected"}
  <2>1. status # "rejected" => rejections = {}
    BY <1>3 DEF ChainInv, LiveDecisions
  <2>2. status = "rejected" => Cardinality(rejections) = 1
    BY <1>3, FS_Singleton DEF StatusInv
  <2> QED
    BY <1>3, <2>1, <2>2
    DEF StatusMatchesChain, StatusInv, ChainInv, VerifiedWaitsOnNobody, Awaiting
<1> QED
  BY <1>1, <1>2, <1>3, ChainMoving, PTL DEF Moving

\* The status column and the approval steps, which every decision writes separately, agree in
\* every reachable state.
THEOREM StatusTellsTheChain == Spec => []StatusMatchesChain
BY SpecMoves, StatusMoving, PTL

-----------------------------------------------------------------------------
(* Where a submitted claim can be stuck *)

\* Finance is the last level, asked of somebody, and waits as long as anybody does; while it is
\* the only one waiting the claim says so, unless it was the only one asked.
FinanceInv ==
    /\ \A s, t \in CurrentRoundSteps : s.role = "Finance" => t.sequence <= s.sequence
    /\ status \in Awaiting => \E s \in Pending : s.role = "Finance"
    /\ status = "pending_approval" /\ AskedBelowFinance => \E s \in Pending : s.role # "Finance"
    /\ status = "pending_finance" => AskedBelowFinance

\* A new chain asks Finance last, and below it waits on everybody it asks.
LEMMA FinanceSubmit ==
    ASSUME FinanceIsNotInTheMatrix, ChainInv, NEW outcome \in Figures, Files(outcome)
    PROVE  FinanceInv'
<1> DEFINE value == NetReimbursable(outcome)
           roles == RolesForValue(Matrix, value)
           chain == ChainFor(value)
           row(i) == StepRow(i, chain[i])
           n == Len(roles)
<1>1. Covered(Matrix, value) /\ CurrentRoundSteps' = {row(i) : i \in DOMAIN chain}
  BY SubmitShape
<1> HIDE DEF value
<1>2. roles \in Seq(Role) /\ n \in Nat /\ DOMAIN roles = 1..n
  BY <1>1, RolesType, LenProperties
<1>3. \A i \in 1..n : roles[i] # "Finance"
  <2>1. PICK i \in DOMAIN Matrix : roles = Matrix[i].roles
    BY <1>1, RolesForValueType
  <2> QED
    BY <1>2, <2>1 DEF FinanceIsNotInTheMatrix, RolesIn
<1>4. /\ DOMAIN chain = 1..(n + 1)
      /\ \A i \in 1..n : chain[i].role # "Finance"
      /\ chain[n + 1].role = "Finance" /\ chain[n + 1].approver # NoOne
  <2>1. chain = [i \in 1..(n + 1) |->
                   IF i <= n
                   THEN [role |-> roles[i], approver |-> Nearest(Directory, claimant, roles[i])]
                   ELSE [role |-> "Finance", approver |-> FirstFinance(Directory)]]
    BY ChainIs
  <2> HIDE DEF chain, roles
  <2> QED
    BY <1>2, <1>3, <2>1, FirstFinanceType
<1>5. \A i \in DOMAIN chain :
          /\ row(i).sequence = i
          /\ row(i).role = chain[i].role
          /\ row(i).approver = chain[i].approver
  BY DEF StepRow
<1>6. status' = "pending_approval"
  BY SubmitOpens
<1>7. \A s \in CurrentRoundSteps' : s.approver # NoOne => s \in Pending'
  <2>1. \A s \in CurrentRoundSteps' : s.approver # NoOne => s.decision = "pending"
    BY SubmitOpens
  <2> QED
    BY <2>1 DEF Pending
<1> HIDE DEF row, chain, roles
<1>8. \A s, t \in CurrentRoundSteps' : s.role = "Finance" => t.sequence <= s.sequence
  <2>1. \A s \in CurrentRoundSteps' :
            s.sequence \in 1..(n + 1) /\ (s.role = "Finance" => s.sequence = n + 1)
    BY <1>1, <1>2, <1>4, <1>5
  <2> HIDE DEF n
  <2> QED
    BY <1>2, <2>1
<1>9. \E s \in Pending' : s.role = "Finance"
  <2>1. n + 1 \in DOMAIN chain
    BY <1>2, <1>4
  <2>2. row(n + 1) \in CurrentRoundSteps' /\ row(n + 1).role = "Finance"
        /\ row(n + 1).approver # NoOne
    BY <1>1, <1>4, <1>5, <2>1
  <2> QED
    BY <1>7, <2>2
<1> QED
  BY <1>6, <1>7, <1>8, <1>9 DEF FinanceInv, AskedBelowFinance

\* An approval hands the claim to the next level, and to Finance only when no other is left.
LEMMA FinanceApprove ==
    ASSUME ChainInv, FinanceInv, NEW u \in Employees(Directory), Approve(u)
    PROVE  FinanceInv'
<1>1. PICK s, r : Decides(s, r) /\ r.decision = "approved" /\ status' = TargetStatus(s)
  BY ApproveDecides
<1>2. /\ s \in Pending /\ s \in CurrentRoundSteps /\ s \in Step /\ s.approver # NoOne
      /\ r.sequence = s.sequence /\ r.approver = s.approver /\ r.role = s.role
      /\ CurrentRoundSteps' = (CurrentRoundSteps \ {s}) \cup {r}
      /\ Pending' = LaterThan(s)
      /\ status \in Awaiting
  BY <1>1 DEF Decides, Pending
<1>3. \A t \in CurrentRoundSteps : t.sequence \in Nat
  BY DEF CurrentRoundSteps, ChainInv, TypeInv, TypeOK, Step
<1>4. /\ \A x, y \in CurrentRoundSteps : x.role = "Finance" => y.sequence <= x.sequence
      /\ \E x \in Pending : x.role = "Finance"
  BY <1>2 DEF FinanceInv
<1>5. AskedBelowFinance' <=> AskedBelowFinance
  BY <1>2 DEF AskedBelowFinance
<1>6. \A x, y \in CurrentRoundSteps' : x.role = "Finance" => y.sequence <= x.sequence
  <2>1. \A x \in CurrentRoundSteps' :
            \E y \in CurrentRoundSteps : y.sequence = x.sequence /\ y.role = x.role
    BY <1>2
  <2> QED
    BY <1>4, <2>1
<1>7. \A t \in LaterThan(s) : t \in Pending /\ t \in CurrentRoundSteps /\ s.sequence < t.sequence
  BY <1>2, <1>3 DEF LaterThan, Pending
<1>8. ASSUME LaterThan(s) # {}
      PROVE  s.role # "Finance" /\ AskedBelowFinance /\ \E g \in LaterThan(s) : g.role = "Finance"
  <2>1. PICK t \in LaterThan(s) : TRUE
    BY <1>8
  <2>2. s.role # "Finance"
    BY <1>2, <1>3, <1>4, <1>7, <2>1
  <2>3. PICK g \in Pending : g.role = "Finance"
    BY <1>4
  <2>4. g \in CurrentRoundSteps
    BY <2>3 DEF Pending
  <2>5. g \in LaterThan(s)
    BY <1>2, <1>3, <1>4, <1>7, <2>1, <2>3, <2>4 DEF LaterThan
  <2> QED
    BY <1>2, <2>2, <2>3, <2>5 DEF AskedBelowFinance
<1>9. CASE status' = "pending_approval"
  <2>1. LaterThan(s) # {} /\ \A t \in LaterThan(s) : IsFirstOf(t, LaterThan(s)) => t.role # "Finance"
    BY <1>1, <1>9 DEF TargetStatus, FirstOf
  <2>2. PICK g \in LaterThan(s) : g.role = "Finance"
    BY <1>8, <2>1
  <2>3. PICK t \in LaterThan(s) : ~ (g.sequence <= t.sequence)
    BY <2>1, <2>2 DEF IsFirstOf
  <2>4. t.role # "Finance"
    BY <1>4, <1>7, <2>2, <2>3
  <2> QED
    BY <1>2, <1>6, <1>9, <2>2, <2>3, <2>4 DEF FinanceInv
<1>10. CASE status' = "pending_finance"
  <2>1. LaterThan(s) # {}
    BY <1>1, <1>10 DEF TargetStatus
  <2> QED
    BY <1>2, <1>5, <1>6, <1>8, <1>10, <2>1 DEF FinanceInv
<1>11. CASE status' = "verified"
  BY <1>6, <1>11 DEF FinanceInv, Awaiting
<1> QED
  BY <1>1, <1>9, <1>10, <1>11 DEF TargetStatus

\* The other decisions end the wait; nothing else touches it.
LEMMA FinanceStep ==
    ASSUME FinanceIsNotInTheMatrix, ChainInv, FinanceInv, [Moves]_vars
    PROVE  FinanceInv'
<1>1. ASSUME NEW u \in Employees(Directory), Reject(u)
      PROVE  FinanceInv'
  <2>1. PICK s, r : Decides(s, r) /\ status' = "rejected"
    BY <1>1, RejectDecides
  <2>2. \A x \in CurrentRoundSteps' :
            \E y \in CurrentRoundSteps : y.sequence = x.sequence /\ y.role = x.role
    BY <2>1 DEF Decides, Pending
  <2>3. \A x, y \in CurrentRoundSteps : x.role = "Finance" => y.sequence <= x.sequence
    BY DEF FinanceInv
  <2>4. \A x, y \in CurrentRoundSteps' : x.role = "Finance" => y.sequence <= x.sequence
    BY <2>2, <2>3
  <2> QED
    BY <2>1, <2>4 DEF FinanceInv, Awaiting
<1>2. ASSUME NEW u \in Employees(Directory), Return(u)
      PROVE  FinanceInv'
  BY <1>2, ReturnEmpties DEF FinanceInv, Awaiting
<1>3. CASE UNCHANGED <<status, CurrentRoundSteps, Pending>>
  BY <1>3 DEF FinanceInv, AskedBelowFinance
<1> QED
  BY <1>1, <1>2, <1>3, FinanceSubmit, FinanceApprove, OthersLeaveRows DEF Moves

\* What is carried along decides whether the step in front can be approved.
LEMMA FinanceTells ==
    ASSUME ChainInv, StatusInv, FinanceInv
    PROVE  StuckExactlyWhenUnasked
<1> SUFFICES ASSUME status \in Awaiting
             PROVE  FrontCanApprove <=> AskedBelowFinance
  BY DEF StuckExactlyWhenUnasked
<1>1. \A s \in Pending : /\ s \in CurrentRoundSteps /\ s.sequence \in Nat
                         /\ s.approver # NoOne
  BY DEF Pending, CurrentRoundSteps, ChainInv, TypeInv, TypeOK, Addressed, Step
<1>2. \A s \in Pending : s.role = "Finance" => LaterThan(s) = {}
  <2> SUFFICES ASSUME NEW s \in Pending, s.role = "Finance", NEW t \in LaterThan(s)
               PROVE  FALSE
    OBVIOUS
  <2>1. t \in Pending /\ t.sequence > s.sequence
    BY DEF LaterThan
  <2> QED
    BY <1>1, <2>1 DEF FinanceInv
<1>3. ASSUME ~ AskedBelowFinance
      PROVE  ~ FrontCanApprove
  <2>1. \A s \in Pending : s.role = "Finance"
    BY <1>1, <1>3 DEF AskedBelowFinance
  <2>2. \A s \in Pending : TargetStatus(s) = "verified"
    BY <1>2, <2>1 DEF TargetStatus
  <2>3. status = "pending_approval"
    BY <1>3 DEF FinanceInv, Awaiting
  <2>4. ~ MayFollow("pending_approval", "verified")
    BY DEF MayFollow, Transitions
  <2> QED
    BY <2>2, <2>3, <2>4 DEF FrontCanApprove
<1>4. ASSUME AskedBelowFinance, status = "pending_finance"
      PROVE  FrontCanApprove
  <2>1. PICK s \in Pending : IsFront(s) /\ s.role = "Finance"
    BY <1>4 DEF StatusInv
  <2>2. TargetStatus(s) = "verified"
    BY <1>2, <2>1 DEF TargetStatus
  <2>3. MayFollow("pending_finance", "verified")
    BY DEF MayFollow, Transitions
  <2> QED
    BY <1>1, <1>4, <2>1, <2>2, <2>3 DEF FrontCanApprove
<1>5. ASSUME AskedBelowFinance, status = "pending_approval"
      PROVE  FrontCanApprove
  <2>1. PICK g \in Pending, t \in Pending : g.role = "Finance" /\ t.role # "Finance"
    BY <1>5 DEF FinanceInv, Awaiting
  <2>2. PICK s \in Pending : \A x \in Pending : s.sequence <= x.sequence
    <3> DEFINE S == {x.sequence : x \in Pending}
    <3>1. S \in SUBSET Nat /\ S # {}
      BY <1>1, <2>1
    <3>2. PICK n \in S : \A m \in S : n <= m
      <4> HIDE DEF S
      <4> QED
        BY <3>1, Least
    <3> QED
      BY <3>2
  <2>3. s.sequence < g.sequence
    <3>1. s.sequence <= g.sequence /\ s.sequence <= t.sequence
      BY <2>2
    <3>2. t.sequence <= g.sequence
      BY <1>1, <2>1 DEF FinanceInv
    <3>3. t.sequence # g.sequence
      BY <1>1, <2>1 DEF ChainInv, OneLiveChain, CurrentRoundSteps
    <3> QED
      BY <1>1, <3>1, <3>2, <3>3
  <2>4. LaterThan(s) # {}
    BY <1>1, <2>1, <2>3 DEF LaterThan
  <2>5. TargetStatus(s) \in {"pending_finance", "pending_approval"}
    BY <2>4 DEF TargetStatus
  <2>6. MayFollow(status, TargetStatus(s))
    BY <1>5, <2>5 DEF MayFollow, Transitions
  <2> QED
    BY <1>1, <2>2, <2>6 DEF FrontCanApprove, IsFront, IsFirstOf
<1> QED
  BY <1>3, <1>4, <1>5 DEF Awaiting

\* A draft waits on nobody, and each move of the claim keeps what is carried along.
LEMMA FinanceMoving ==
    ASSUME FinanceIsNotInTheMatrix
    PROVE  Moving => []StuckExactlyWhenUnasked
<1>1. Init => FinanceInv /\ StatusInv
  BY DEF Init, FinanceInv, AskedBelowFinance, StatusInv, CurrentRoundSteps, Awaiting
<1>2. ChainInv /\ FinanceInv /\ [Moves]_vars => FinanceInv'
  BY FinanceStep
<1>3. ChainInv /\ StatusInv /\ [Moves]_vars => StatusInv'
  BY StatusStep
<1>4. ChainInv /\ StatusInv /\ FinanceInv => StuckExactlyWhenUnasked
  BY FinanceTells
<1> QED
  BY <1>1, <1>2, <1>3, <1>4, ChainMoving, PTL DEF Moving

\* With a matrix that leaves Finance to the end, the claims that get stuck are those that only
\* Finance is asked about; whatever the levels of any other, each can pass it on.
THEOREM OnlyUnaskedClaimsStick ==
    ASSUME FinanceIsNotInTheMatrix
    PROVE  Spec => []StuckExactlyWhenUnasked
BY FinanceMoving, SpecMoves, PTL

-----------------------------------------------------------------------------
(* The trail *)

Returned(events) == {i \in DOMAIN events : events[i].action = "approval_returned"}

\* One event more, and what it adds to the returns.
LEMMA TrailGrows ==
    ASSUME TypeOK, TrailAccountsForClaim, NEW action \in Actions, NEW to \in ClaimStatus,
           trail' = Recorded(action, to), status' = to, version' = version + 1,
           returns' = IF action = "approval_returned" THEN returns + 1 ELSE returns
    PROVE  TrailAccountsForClaim'
<1> DEFINE E == [action : Actions, status : ClaimStatus]
           event == [action |-> action, status |-> to]
           n == Len(trail)
<1>1. /\ trail \in Seq(E) /\ event \in E /\ n \in Nat /\ DOMAIN trail = 1..n
      /\ trail' = Append(trail, event)
      /\ version \in Nat /\ returns \in Nat /\ n = version - 1
  BY LenProperties DEF TypeOK, Recorded, TrailAccountsForClaim
<1>2. /\ event.action = action /\ event.status = to
      /\ Cardinality(Returned(trail)) = returns
  BY DEF TrailAccountsForClaim, Returned
<1> HIDE DEF E, event, n
<1>3. /\ Len(trail') = n + 1 /\ DOMAIN trail' = 1..(n + 1)
      /\ trail'[n + 1] = event
      /\ \A i \in 1..n : trail'[i] = trail[i]
  <2>1. /\ Append(trail, event) \in Seq(E)
        /\ Len(Append(trail, event)) = Len(trail) + 1
        /\ \A i \in 1..Len(trail) : Append(trail, event)[i] = trail[i]
        /\ Append(trail, event)[Len(trail) + 1] = event
    BY <1>1, AppendProperties
  <2>2. DOMAIN Append(trail, event) = 1..Len(Append(trail, event))
    BY <2>1, LenProperties
  <2> QED
    BY <1>1, <2>1, <2>2 DEF n
<1>4. IsFiniteSet(Returned(trail)) /\ n + 1 \notin Returned(trail)
  <2>1. IsFiniteSet(1..n)
    BY <1>1, FS_Interval
  <2>2. Returned(trail) \in SUBSET (1..n)
    BY <1>1 DEF Returned
  <2> QED
    BY <1>1, <2>1, <2>2, FS_Subset
<1>5. Returned(trail') = IF action = "approval_returned" THEN Returned(trail) \cup {n + 1}
                         ELSE Returned(trail)
  BY <1>1, <1>2, <1>3 DEF Returned
<1>6. Cardinality(Returned(trail) \cup {n + 1}) = returns + 1
  BY <1>2, <1>4, FS_AddElement
<1>7. Cardinality(Returned(trail')) = returns'
  BY <1>2, <1>5, <1>6
<1>8. Len(trail') = version' - 1
  BY <1>1, <1>3
<1>9. trail'[Len(trail')].status = status'
  BY <1>1, <1>2, <1>3
<1> QED
  BY <1>7, <1>8, <1>9 DEF TrailAccountsForClaim, Returned

LEMMA TrailStep ==
    ASSUME TypeInv, TrailAccountsForClaim, [Moves]_vars
    PROVE  TrailAccountsForClaim'
<1>1. TypeOK
  BY DEF TypeInv
<1>2. ASSUME NEW outcome \in Figures, Files(outcome)
      PROVE  TrailAccountsForClaim'
  <2>1. /\ trail' = Recorded("claim_submitted", "pending_approval")
        /\ status' = "pending_approval" /\ version' = version + 1 /\ returns' = returns
    BY <1>2 DEF Files, Submitted
  <2> QED
    BY <1>1, <2>1, TrailGrows DEF Actions, ClaimStatus
<1>3. ASSUME NEW u \in Employees(Directory), Approve(u)
      PROVE  TrailAccountsForClaim'
  <2>1. PICK s \in steps :
            /\ trail' = Recorded("approval_approved", TargetStatus(s))
            /\ status' = TargetStatus(s) /\ version' = version + 1 /\ returns' = returns
    BY <1>3 DEF Approve, Decided
  <2>2. TargetStatus(s) \in ClaimStatus
    BY DEF TargetStatus, ClaimStatus
  <2> QED
    BY <1>1, <2>1, <2>2, TrailGrows DEF Actions
<1>4. ASSUME NEW u \in Employees(Directory), Reject(u)
      PROVE  TrailAccountsForClaim'
  <2>1. /\ trail' = Recorded("approval_rejected", "rejected")
        /\ status' = "rejected" /\ version' = version + 1 /\ returns' = returns
    BY <1>4 DEF Reject, Decided
  <2> QED
    BY <1>1, <2>1, TrailGrows DEF Actions, ClaimStatus
<1>5. ASSUME NEW u \in Employees(Directory), Return(u)
      PROVE  TrailAccountsForClaim'
  <2>1. /\ trail' = Recorded("approval_returned", "draft")
        /\ status' = "draft" /\ version' = version + 1 /\ returns' = returns + 1
    BY <1>5 DEF Return, Decided
  <2> QED
    BY <1>1, <2>1, TrailGrows DEF Actions, ClaimStatus
<1>6. CASE UNCHANGED <<status, version, returns, trail>>
  BY <1>6 DEF TrailAccountsForClaim
<1> QED
  BY <1>2, <1>3, <1>4, <1>5, <1>6, OthersLeaveRows DEF Moves

\* A new claim is at its first version and has no trail.
LEMMA TrailMoving == Moving => []TrailAccountsForClaim
<1>1. Init => TrailAccountsForClaim
  <2> SUFFICES ASSUME Init PROVE TrailAccountsForClaim
    OBVIOUS
  <2>1. trail = <<>> /\ version = 1 /\ returns = 0
    BY DEF Init
  <2>2. Returned(<<>>) = {}
    BY DEF Returned
  <2> QED
    BY <2>1, <2>2, FS_EmptySet DEF TrailAccountsForClaim, Returned
<1> QED
  BY <1>1, TypeMoving, TrailStep, PTL DEF Moving

\* The append-only trail has one event for each version of the claim after its first, names
\* the status the claim is in, and counts the returns.
THEOREM TrailTellsTheClaim == Spec => []TrailAccountsForClaim
BY SpecMoves, TrailMoving, PTL

-----------------------------------------------------------------------------
(* The inboxes *)

Message == [to : Employees(Directory), kind : Kinds]

\* What Notified adds to the inboxes.
LEMMA NotifiedAdds ==
    ASSUME TypeOK, NEW kind \in Kinds, NEW next,
           \A s \in next : s.approver \in Employees(Directory)
    PROVE  LET after == Notified(kind, next)
               n == Len(inbox)
           IN  /\ n \in Nat /\ DOMAIN inbox = 1..n
               /\ SubSeq(after, 1, n) = inbox
               /\ n + 1 \in DOMAIN after /\ after[n + 1].to = claimant
               /\ next # {} => after[Len(after)] =
                     [to |-> (CHOOSE s \in next : TRUE).approver,
                      kind |-> "awaiting_your_approval"]
<1> DEFINE n == Len(inbox)
           first == [to |-> claimant, kind |-> kind]
           second == [to |-> (CHOOSE s \in next : TRUE).approver,
                      kind |-> "awaiting_your_approval"]
           rest == IF next = {} THEN <<>> ELSE <<second>>
           after == inbox \o <<first>> \o rest
<1>1. inbox \in Seq(Message) /\ first \in Message /\ first.to = claimant
  BY WorkflowAssumption DEF TypeOK, Message
<1>2. next # {} => second \in Message
  BY DEF Message, Kinds
<1>3. Notified(kind, next) = after
  BY DEF Notified
<1>4. n \in Nat /\ DOMAIN inbox = 1..n
  BY <1>1, LenProperties
<1> HIDE DEF first, second, n
<1>5. /\ <<first>> \in Seq(Message) /\ Len(<<first>>) = 1 /\ <<first>>[1] = first
      /\ rest \in Seq(Message)
      /\ Len(rest) = IF next = {} THEN 0 ELSE 1
      /\ next # {} => rest[1] = second
  BY <1>1, <1>2
<1> HIDE DEF rest
<1> DEFINE told == inbox \o <<first>>
<1>6. /\ told \in Seq(Message) /\ Len(told) = n + 1
      /\ \A i \in 1..n : told[i] = inbox[i]
      /\ told[n + 1] = first
  <2>1. /\ told \in Seq(Message)
        /\ Len(told) = Len(inbox) + Len(<<first>>)
        /\ \A i \in 1..(Len(inbox) + Len(<<first>>)) :
              told[i] = IF i <= Len(inbox) THEN inbox[i] ELSE <<first>>[i - Len(inbox)]
    BY <1>1, <1>5, ConcatProperties
  <2> QED
    BY <1>4, <1>5, <2>1 DEF n
<1> HIDE DEF told
<1>7. /\ after \in Seq(Message) /\ Len(after) = n + 1 + Len(rest)
      /\ \A i \in 1..(n + 1) : after[i] = told[i]
      /\ next # {} => after[n + 2] = second /\ Len(after) = n + 2
  <2>1. /\ told \o rest \in Seq(Message)
        /\ Len(told \o rest) = Len(told) + Len(rest)
        /\ \A i \in 1..(Len(told) + Len(rest)) :
              (told \o rest)[i] = IF i <= Len(told) THEN told[i] ELSE rest[i - Len(told)]
    BY <1>5, <1>6, ConcatProperties
  <2>2. after = told \o rest
    BY DEF told
  <2> HIDE DEF after
  <2> QED
    BY <1>4, <1>5, <1>6, <2>1, <2>2
<1> HIDE DEF after
<1>8. SubSeq(after, 1, n) = inbox
  <2>1. /\ SubSeq(after, 1, n) \in Seq(Message)
        /\ Len(SubSeq(after, 1, n)) = n
        /\ \A i \in 1..n : SubSeq(after, 1, n)[i] = after[i]
    BY <1>4, <1>5, <1>7, SubSeqProperties
  <2>2. \A i \in 1..n : SubSeq(after, 1, n)[i] = inbox[i]
    BY <1>4, <1>6, <1>7, <2>1
  <2> QED
    BY <1>1, <2>1, <2>2, SeqEqual DEF n
<1>9. n + 1 \in DOMAIN after /\ after[n + 1].to = claimant
  BY <1>1, <1>4, <1>5, <1>6, <1>7, LenProperties
<1>10. next # {} => after[Len(after)] = second
  BY <1>7
<1> QED
  BY <1>3, <1>4, <1>8, <1>9, <1>10 DEF n, second

\* What EveryoneIsTold says of a step.
Told ==
    /\ SubSeq(inbox', 1, Len(inbox)) = inbox
    /\ version' # version =>
           \E i \in DOMAIN inbox' \ DOMAIN inbox : inbox'[i].to = claimant
    /\ \A s \in steps' :
           IsFront(s)' /\ ~ IsFront(s) /\ status' \in Awaiting =>
               inbox'[Len(inbox')] = [to |-> s.approver, kind |-> "awaiting_your_approval"]

\* The step a claim waits on is one, and addressed to an employee.
LEMMA FrontIsOne ==
    ASSUME ChainInv'
    PROVE  /\ \A s \in FirstOf(Pending') : s.approver \in Employees(Directory)
           /\ \A s : IsFront(s)' => FirstOf(Pending') = {s}
<1>1. \A s \in Pending' : s \in CurrentRoundSteps' /\ s \in steps' /\ s.round = Round'
  BY DEF Pending, CurrentRoundSteps
<1>2. \A s \in steps' : s \in Step
  BY DEF ChainInv, TypeInv, TypeOK
<1>3. \A s \in Pending' : s.approver \in Employees(Directory)
  BY <1>1, <1>2 DEF Pending, ChainInv, TypeInv, Addressed, Step
<1>4. \A s, t \in Pending' : s.sequence = t.sequence => s = t
  BY <1>1 DEF ChainInv, OneLiveChain
<1>5. ASSUME NEW s, IsFront(s)'
      PROVE  FirstOf(Pending') = {s}
  <2>1. s \in Pending' /\ \A t \in Pending' : s.sequence <= t.sequence
    BY <1>5 DEF IsFront, IsFirstOf
  <2>2. \A t \in Pending' : t.sequence \in Nat
    BY <1>1, <1>2 DEF Step
  <2>3. \A t \in FirstOf(Pending') : t = s
    BY <1>4, <2>1, <2>2 DEF FirstOf, IsFirstOf
  <2>4. s \in FirstOf(Pending')
    BY <2>1 DEF FirstOf, IsFirstOf
  <2> QED
    BY <2>3, <2>4
<1> QED
  BY <1>3, <1>5 DEF FirstOf

\* A change of the claim that notifies the claimant and the one it comes to tells everyone.
LEMMA NotifyingTells ==
    ASSUME TypeOK, ChainInv', NEW kind \in Kinds, NEW next, inbox' = Notified(kind, next),
           next = FirstOf(Pending') \/ (next = {} /\ status' \notin Awaiting)
    PROVE  Told
<1>1. \A s \in next : s.approver \in Employees(Directory)
  BY FrontIsOne
<1>2. /\ Len(inbox) \in Nat /\ DOMAIN inbox = 1..Len(inbox)
      /\ SubSeq(inbox', 1, Len(inbox)) = inbox
      /\ Len(inbox) + 1 \in DOMAIN inbox' /\ inbox'[Len(inbox) + 1].to = claimant
      /\ next # {} => inbox'[Len(inbox')] =
            [to |-> (CHOOSE s \in next : TRUE).approver, kind |-> "awaiting_your_approval"]
  BY <1>1, NotifiedAdds
<1>3. \E i \in DOMAIN inbox' \ DOMAIN inbox : inbox'[i].to = claimant
  BY <1>2
<1>4. ASSUME NEW s \in steps', IsFront(s)', status' \in Awaiting
      PROVE  inbox'[Len(inbox')] = [to |-> s.approver, kind |-> "awaiting_your_approval"]
  <2>1. next = {s}
    BY <1>4, FrontIsOne
  <2>2. (CHOOSE x \in next : TRUE) = s
    BY <2>1
  <2> QED
    BY <1>2, <2>1, <2>2
<1> QED
  BY <1>2, <1>3, <1>4 DEF Told

\* Each move that changes the claim notifies, and no other touches the inboxes.
LEMMA ToldMoving == Moving => EveryoneIsTold
<1>1. ASSUME ChainInv, ChainInv', Moves
      PROVE  Told
  <2>1. TypeOK
    BY <1>1 DEF ChainInv, TypeInv
  <2>2. ASSUME NEW outcome \in Figures, Files(outcome)
        PROVE  Told
    <3> DEFINE value == NetReimbursable(outcome)
               rows == {StepRow(i, ChainFor(value)[i]) : i \in DOMAIN ChainFor(value)}
    <3>1. inbox' = Notified("claim_submitted", FirstOf({s \in rows : s.decision = "pending"}))
      BY <2>2 DEF Files, Submitted
    <3>2. CurrentRoundSteps' = rows
      BY <1>1, <2>2, SubmitShape
    <3> HIDE DEF rows
    <3>3. Pending' = {s \in rows : s.decision = "pending"}
      BY <3>2 DEF Pending
    <3> QED
      BY <1>1, <2>1, <3>1, <3>3, NotifyingTells DEF Kinds
  <2>3. ASSUME NEW u \in Employees(Directory), Approve(u)
        PROVE  Told
    <3>1. PICK s \in steps :
              /\ MayDecide(u, s)
              /\ steps' = (steps \ {s}) \cup {[s EXCEPT !.decision = "approved"]}
              /\ MayFollow(status, TargetStatus(s))
              /\ inbox' = Notified(IF TargetStatus(s) = "verified" THEN "claim_verified"
                                   ELSE "claim_approved", FirstOf(LaterThan(s)))
              /\ UNCHANGED returns
      BY <2>3 DEF Approve, Decided
    <3>2. TargetStatus(s) \in {"verified", "pending_finance", "pending_approval"}
      BY DEF TargetStatus
    <3>3. Pending' = LaterThan(s)
      BY <1>1, <3>1, <3>2, DecisionDecides DEF Decides, Decision
    <3>4. (IF TargetStatus(s) = "verified" THEN "claim_verified" ELSE "claim_approved") \in Kinds
      BY DEF Kinds
    <3> QED
      BY <1>1, <2>1, <3>1, <3>3, <3>4, NotifyingTells
  <2>4. ASSUME NEW u \in Employees(Directory), Reject(u)
        PROVE  Told
    <3>1. inbox' = Notified("claim_rejected", {}) /\ status' = "rejected"
      BY <2>4 DEF Reject, Decided
    <3> QED
      BY <1>1, <2>1, <3>1, NotifyingTells DEF Kinds, Awaiting
  <2>5. ASSUME NEW u \in Employees(Directory), Return(u)
        PROVE  Told
    <3>1. inbox' = Notified("claim_returned", {}) /\ status' = "draft"
      BY <2>5 DEF Return, Decided
    <3> QED
      BY <1>1, <2>1, <3>1, NotifyingTells DEF Kinds, Awaiting
  <2>6. CASE UNCHANGED <<version, steps, Pending, inbox>>
    <3>1. SubSeq(inbox, 1, Len(inbox)) = inbox
      BY <2>1, SubSeqFull DEF TypeOK
    <3>2. \A s : IsFront(s)' = IsFront(s)
      BY <2>6 DEF IsFront
    <3> QED
      BY <2>6, <3>1, <3>2 DEF Told
  <2> QED
    BY <1>1, <2>2, <2>3, <2>4, <2>5, <2>6, OthersLeaveRows DEF Moves
<1>2. ChainInv /\ ChainInv' /\ [Moves]_vars => [Told]_vars
  BY <1>1
<1> QED
  BY <1>2, ChainMoving, PTL DEF Moving, EveryoneIsTold, Told

\* Whatever happens to the claim, the claimant is told of it, and whoever it comes to is told
\* last; no message is ever taken back.
THEOREM NobodyIsForgotten == Spec => EveryoneIsTold
BY SpecMoves, ToldMoving, PTL

-----------------------------------------------------------------------------
(* Nobody decides their own claim below Finance *)

\* Whoever a line that can be followed leads to, it never leads back to its start.
LEMMA NearestIsSomeoneElse ==
    ASSUME NEW e \in Employees(Directory), NEW role, ~ LineBroken(Directory, e)
    PROVE  Nearest(Directory, e, role) # e
<1>1. e # NoOne
  BY WorkflowAssumption
<1>2. \A n \in 1..MaxDepth : Line(Directory, e)[n] # e
  BY <1>1 DEF LineBroken
<1> QED
  BY <1>1, <1>2, NearestIs

\* The level of a chain that is asked of the claimant, if any, is Finance.
LEMMA ChainAsksOthers ==
    ASSUME NEW value, CanRoute(Directory, Matrix, claimant, value), claimant \in Claimants,
           NEW i \in DOMAIN ChainFor(value), ChainFor(value)[i].approver = claimant
    PROVE  ChainFor(value)[i].role = "Finance"
<1> DEFINE roles == RolesForValue(Matrix, value)
<1>1. claimant \in Employees(Directory) /\ ~ LineBroken(Directory, claimant)
  BY WorkflowAssumption DEF CanRoute
<1>2. ChainFor(value) =
          [k \in 1..(Len(roles) + 1) |->
              IF k <= Len(roles)
              THEN [role |-> roles[k], approver |-> Nearest(Directory, claimant, roles[k])]
              ELSE [role |-> "Finance", approver |-> FirstFinance(Directory)]]
  BY ChainIs
<1>3. Nearest(Directory, claimant, roles[i]) # claimant
  BY <1>1, NearestIsSomeoneElse
<1> HIDE DEF roles
<1> QED
  BY <1>2, <1>3

\* A step below Finance is addressed when it is written, and to somebody on the line.
LEMMA OthersMoving == Moving => []BusinessLevelsAreOthers
<1>1. Init => BusinessLevelsAreOthers
  BY DEF Init, BusinessLevelsAreOthers
<1>2. ChainInv /\ BusinessLevelsAreOthers /\ [Moves]_vars => BusinessLevelsAreOthers'
  <2> SUFFICES ASSUME ChainInv, BusinessLevelsAreOthers, [Moves]_vars
               PROVE  BusinessLevelsAreOthers'
    OBVIOUS
  <2>1. CASE /\ UNCHANGED <<claimant, steps>>
    BY <2>1 DEF BusinessLevelsAreOthers
  <2>2. ASSUME NEW outcome \in Figures, Files(outcome)
        PROVE  BusinessLevelsAreOthers'
    <3> DEFINE value == NetReimbursable(outcome)
               chain == ChainFor(value)
               rows == {StepRow(i, chain[i]) : i \in DOMAIN chain}
    <3>1. CanRoute(Directory, Matrix, claimant, value) /\ Covered(Matrix, value)
      BY <2>2 DEF Files, CanRoute
    <3>2. steps' = steps \cup rows /\ claimant' = claimant
      BY <2>2 DEF Files, Submitted, KeptSteps
    <3>3. TypeOK /\ claimant \in Claimants
      BY DEF ChainInv, TypeInv, TypeOK
    <3> HIDE DEF value
    <3>4. \A i \in DOMAIN chain :
              StepRow(i, chain[i]).approver = claimant => StepRow(i, chain[i]).role = "Finance"
      <4> SUFFICES ASSUME NEW i \in DOMAIN chain, StepRow(i, chain[i]).approver = claimant
                   PROVE  StepRow(i, chain[i]).role = "Finance"
        OBVIOUS
      <4>1. /\ StepRow(i, chain[i]).role = chain[i].role
            /\ StepRow(i, chain[i]).approver = chain[i].approver
        BY <3>1, <3>3, RowType
      <4> QED
        BY <3>1, <3>3, <4>1, ChainAsksOthers
    <3> HIDE DEF chain
    <3> QED
      BY <3>2, <3>4 DEF BusinessLevelsAreOthers
  <2>3. ASSUME NEW u \in Employees(Directory), Approve(u) \/ Reject(u) \/ Return(u)
        PROVE  BusinessLevelsAreOthers'
    <3>1. claimant' = claimant
      BY <2>3 DEF Approve, Reject, Return, Decided
    <3>2. \A t \in steps' : \E s \in steps : t.approver = s.approver /\ t.role = s.role
      <4>1. \A s \in steps, d \in Decision :
                /\ s \in Step
                /\ [s EXCEPT !.decision = d] \in Step
                /\ [s EXCEPT !.decision = d].approver = s.approver
                /\ [s EXCEPT !.decision = d].role = s.role
        BY DEF ChainInv, TypeInv, TypeOK, Step
      <4>2. CASE Approve(u)
        BY <4>1, <4>2 DEF Approve, Decision
      <4>3. CASE Reject(u)
        BY <4>1, <4>3 DEF Reject, Decision
      <4>4. CASE Return(u)
        <5>1. \A t \in Step : Superseded(t).approver = t.approver /\ Superseded(t).role = t.role
          BY DEF Superseded, Step
        <5>2. PICK d \in steps :
                  steps' = {Superseded(IF t = d THEN [t EXCEPT !.decision = "returned"] ELSE t) :
                              t \in steps}
          BY <4>4 DEF Return
        <5>3. \A t \in steps :
                  LET r == IF t = d THEN [t EXCEPT !.decision = "returned"] ELSE t IN
                  r \in Step /\ r.approver = t.approver /\ r.role = t.role
          BY <4>1 DEF Decision
        <5> SUFFICES ASSUME NEW t \in steps'
                     PROVE  \E s \in steps : t.approver = s.approver /\ t.role = s.role
          OBVIOUS
        <5>4. PICK s \in steps :
                  t = Superseded(IF s = d THEN [s EXCEPT !.decision = "returned"] ELSE s)
          BY <5>2
        <5> DEFINE r == IF s = d THEN [s EXCEPT !.decision = "returned"] ELSE s
        <5>5. r \in Step /\ r.approver = s.approver /\ r.role = s.role /\ t = Superseded(r)
          BY <5>3, <5>4
        <5> HIDE DEF r
        <5>6. t.approver = s.approver /\ t.role = s.role
          BY <5>1, <5>5
        <5> QED
          BY <5>6
      <4> QED
        BY <2>3, <4>2, <4>3, <4>4
    <3> QED
      BY <3>1, <3>2 DEF BusinessLevelsAreOthers
  <2> QED
    BY <2>1, <2>2, <2>3 DEF Moves, vars, Edited, Look, claimVars
<1> QED
  BY <1>1, <1>2, ChainMoving, PTL DEF Moving

\* Below Finance, no step of any round was ever addressed to the claimant.
THEOREM LevelsAreOthers == Spec => []BusinessLevelsAreOthers
BY SpecMoves, OthersMoving, PTL

-----------------------------------------------------------------------------
(* The workflow implements the promise *)

\* What the promise sees of the claim.
Phase ==
    IF status = "draft" THEN "claimant"
    ELSE IF status \in Awaiting THEN "levels"
    ELSE IF status = "rejected" THEN "refused" ELSE "settled"

Asked == {s.sequence : s \in {t \in CurrentRoundSteps : t.approver # NoOne}}

Agreed ==
    {s.sequence : s \in {t \in CurrentRoundSteps :
                            t.approver # NoOne /\ t.decision = "approved"}}

\* No step stands further along than the longest chain is long.
WithinLevels == \A s \in steps : s.sequence \in 1..(Len(FullChain) + 1)

\* A chain's positions are levels of the promise.
LEMMA PositionsAreLevels ==
    ASSUME NEW value, Covered(Matrix, value)
    PROVE  /\ DOMAIN ChainFor(value) \subseteq 1..(Len(FullChain) + 1)
           /\ \E i \in DOMAIN ChainFor(value) : ChainFor(value)[i].approver # NoOne
<1> DEFINE chain == ChainFor(value)
<1>1. /\ chain \in Seq([role : Role, approver : Employees(Directory) \cup {NoOne}])
      /\ Len(chain) \in 1..(Len(FullChain) + 1)
      /\ chain[Len(chain)].approver # NoOne
  BY ChainType
<1> HIDE DEF chain
<1>2. DOMAIN chain = 1..Len(chain) /\ Len(FullChain) \in Nat
  BY <1>1, LenProperties DEF FullChain
<1> QED
  BY <1>1, <1>2 DEF chain

\* A return leaves every step where it stood in the chain.
LEMMA ReturnKeepsPlaces ==
    ASSUME ChainInv, NEW u \in Employees(Directory), Return(u)
    PROVE  /\ \A t \in steps' : \E s \in steps : t.sequence = s.sequence
           /\ CurrentRoundSteps' = {}
           /\ UNCHANGED frozen
           /\ status' = "draft"
<1>1. status' = "draft" /\ UNCHANGED frozen
  BY DEF Return, Decided
<1>2. CurrentRoundSteps' = {}
  BY <1>1, ChainReturn DEF ChainInv, OneLiveChain
<1>3. PICK d \in steps :
          steps' = {Superseded(IF t = d THEN [t EXCEPT !.decision = "returned"] ELSE t) :
                      t \in steps}
  BY DEF Return
<1>4. \A t \in steps :
          LET r == IF t = d THEN [t EXCEPT !.decision = "returned"] ELSE t IN
          r \in Step /\ r.sequence = t.sequence
  BY DEF ChainInv, TypeInv, TypeOK, Step, Decision
<1>5. \A t \in Step : Superseded(t).sequence = t.sequence
  BY SupersededIs
<1> QED
  BY <1>1, <1>2, <1>3, <1>4, <1>5

\* Positions stay within the levels of the promise.
LEMMA LevelsInv ==
    ASSUME ChainInv, WithinLevels, [Moves]_vars
    PROVE  WithinLevels'
<1>1. CASE UNCHANGED steps
  BY <1>1 DEF WithinLevels
<1>2. ASSUME NEW outcome \in Figures, Files(outcome)
      PROVE  WithinLevels'
  <2> DEFINE value == NetReimbursable(outcome)
             chain == ChainFor(value)
             rows == {StepRow(i, chain[i]) : i \in DOMAIN chain}
  <2>1. Covered(Matrix, value) /\ steps' = steps \cup rows /\ TypeOK
    BY <1>2 DEF Files, Submitted, CanRoute, KeptSteps, ChainInv, TypeInv
  <2> HIDE DEF value
  <2>2. \A i \in DOMAIN chain : StepRow(i, chain[i]).sequence = i
    BY <2>1, RowType
  <2>3. DOMAIN chain \subseteq 1..(Len(FullChain) + 1)
    BY <2>1, PositionsAreLevels
  <2> HIDE DEF chain
  <2> QED
    BY <2>1, <2>2, <2>3 DEF WithinLevels
<1>3. ASSUME NEW u \in Employees(Directory), Approve(u) \/ Reject(u)
      PROVE  WithinLevels'
  <2>1. PICK s \in steps, d \in Decision :
            steps' = (steps \ {s}) \cup {[s EXCEPT !.decision = d]}
    BY <1>3 DEF Approve, Reject, Decision
  <2>2. [s EXCEPT !.decision = d].sequence = s.sequence
    BY DEF ChainInv, TypeInv, TypeOK, Step
  <2> QED
    BY <2>1, <2>2 DEF WithinLevels
<1>4. ASSUME NEW u \in Employees(Directory), Return(u)
      PROVE  WithinLevels'
  BY <1>4, ReturnKeepsPlaces DEF WithinLevels
<1> QED
  BY <1>1, <1>2, <1>3, <1>4 DEF Moves, vars, Edited, Look, claimVars

\* Where u may decide, the claim is with the levels and it is the turn of u's.
LEMMA ItIsTheirTurn ==
    ASSUME ChainInv, WithinLevels, NEW u \in Employees(Directory), NEW s \in steps,
           MayDecide(u, s), status \in Awaiting
    PROVE  /\ s.sequence \in 1..(Len(FullChain) + 1)
           /\ s.sequence \in Asked \ Agreed
           /\ \A other \in Asked \ Agreed : s.sequence <= other
<1>1. /\ s \in CurrentRoundSteps /\ s \in Pending /\ s.decision = "pending"
      /\ s.approver = u
      /\ \A t \in Pending : s.sequence <= t.sequence
  BY DeciderShape
<1>2. s.approver # NoOne
  BY <1>1, WorkflowAssumption
<1>3. \A t \in CurrentRoundSteps : t.sequence = s.sequence => t = s
  BY <1>1 DEF ChainInv, OneLiveChain, CurrentRoundSteps
<1>4. s.sequence \in Asked \ Agreed
  BY <1>1, <1>2, <1>3 DEF Asked, Agreed
<1>5. status # "rejected"
  BY DEF Awaiting
<1>6. ASSUME NEW other \in Asked \ Agreed
      PROVE  s.sequence <= other
  <2>1. PICK t \in CurrentRoundSteps : t.approver # NoOne /\ t.sequence = other
    BY <1>6 DEF Asked
  <2>2. t \in Pending
    BY <1>5, <1>6, <2>1 DEF Agreed, ChainInv, LiveDecisions, Pending
  <2> QED
    BY <1>1, <2>1, <2>2
<1> QED
  BY <1>1, <1>4, <1>6 DEF WithinLevels

\* An approval is an agreement, and the last one settles the claim.
LEMMA ApproveAgrees ==
    ASSUME ChainInv, WithinLevels, NEW u \in Employees(Directory), Approve(u)
    PROVE  \E level \in 1..(Len(FullChain) + 1) : Promise!Agree(level)
<1>1. PICK s \in steps :
          /\ MayDecide(u, s)
          /\ steps' = (steps \ {s}) \cup {[s EXCEPT !.decision = "approved"]}
          /\ MayFollow(status, TargetStatus(s))
          /\ status' = TargetStatus(s)
          /\ UNCHANGED <<frozen, returns>>
  BY DEF Approve, Decided
<1> DEFINE r == [s EXCEPT !.decision = "approved"]
<1>2. /\ s \in CurrentRoundSteps /\ s \in Pending /\ s.decision = "pending" /\ s.approver = u
      /\ \A t \in Pending : s.sequence <= t.sequence
  BY <1>1, DeciderShape
<1>3. status # "draft"
  BY <1>2 DEF ChainInv, OneLiveChain
<1>4. /\ TargetStatus(s) \in {"verified", "pending_finance", "pending_approval"}
      /\ TargetStatus(s) = "verified" <=> LaterThan(s) = {}
  BY DEF TargetStatus
<1>5. status \in Awaiting /\ status # "rejected"
  BY <1>1, <1>3, <1>4 DEF MayFollow, Transitions, Awaiting
<1>6. /\ r.decision = "approved" /\ r.sequence = s.sequence /\ r.approver = s.approver
      /\ CurrentRoundSteps' = (CurrentRoundSteps \ {s}) \cup {r}
  BY <1>1, <1>2, DecisionShape DEF Decision
<1> HIDE DEF r
<1>7. s.approver # NoOne
  BY <1>2, WorkflowAssumption
<1>8. Asked' = Asked
  BY <1>2, <1>6 DEF Asked
<1>9. Agreed' = Agreed \cup {s.sequence}
  BY <1>2, <1>6, <1>7 DEF Agreed
<1>10. LaterThan(s) = {} <=> Agreed' = Asked
  <2>1. ASSUME LaterThan(s) = {}
        PROVE  Agreed' = Asked
    <3>1. ASSUME NEW t \in CurrentRoundSteps, t.approver # NoOne
          PROVE  t.sequence \in Agreed'
      <4>1. CASE t \in Pending
        <5>1. t.sequence = s.sequence
          BY <1>2, <2>1, <4>1
          DEF LaterThan, Pending, CurrentRoundSteps, ChainInv, TypeInv, TypeOK, Step
        <5> QED
          BY <1>9, <5>1
      <4>2. CASE t \notin Pending
        BY <1>5, <1>9, <3>1, <4>2 DEF Agreed, Pending, ChainInv, LiveDecisions
      <4> QED
        BY <4>1, <4>2
    <3> QED
      BY <1>2, <1>7, <1>9, <3>1 DEF Asked, Agreed
  <2>2. ASSUME NEW t \in LaterThan(s)
        PROVE  Agreed' # Asked
    <3>1. t \in CurrentRoundSteps /\ t.decision = "pending" /\ t.approver # NoOne
      BY DEF LaterThan, Pending, CurrentRoundSteps, ChainInv, TypeInv, Addressed
    <3>2. t.sequence # s.sequence
      BY <1>2, <3>1 DEF LaterThan, CurrentRoundSteps, ChainInv, TypeInv, TypeOK, Step
    <3>3. \A x \in CurrentRoundSteps : x.sequence = t.sequence => x = t
      BY <3>1 DEF ChainInv, OneLiveChain, CurrentRoundSteps
    <3>4. t.sequence \notin Agreed'
      BY <1>9, <3>1, <3>2, <3>3 DEF Agreed
    <3> QED
      BY <3>1, <3>4 DEF Asked
  <2> QED
    BY <2>1, <2>2
<1>11. Phase = "levels" /\ Phase' = IF Agreed' = Asked THEN "settled" ELSE "levels"
  BY <1>1, <1>4, <1>5, <1>10 DEF Phase, Awaiting
<1>12. /\ s.sequence \in 1..(Len(FullChain) + 1)
       /\ s.sequence \in Asked \ Agreed
       /\ \A other \in Asked \ Agreed : s.sequence <= other
  BY <1>1, <1>5, ItIsTheirTurn
<1> QED
  BY <1>1, <1>8, <1>9, <1>11, <1>12
  DEF Promise!Agree, Promise!Turn, Phase, Asked, Agreed

\* A rejection is a refusal.
LEMMA RejectRefuses ==
    ASSUME ChainInv, WithinLevels, NEW u \in Employees(Directory), Reject(u)
    PROVE  \E level \in 1..(Len(FullChain) + 1) : Promise!Refuse(level)
<1>1. PICK s \in steps :
          /\ MayDecide(u, s)
          /\ steps' = (steps \ {s}) \cup {[s EXCEPT !.decision = "rejected"]}
          /\ MayFollow(status, "rejected")
          /\ status' = "rejected"
          /\ UNCHANGED <<frozen, returns>>
  BY DEF Reject, Decided
<1> DEFINE r == [s EXCEPT !.decision = "rejected"]
<1>2. s \in CurrentRoundSteps /\ s.decision = "pending"
  BY <1>1, DeciderShape
<1>3. /\ r.decision = "rejected" /\ r.sequence = s.sequence /\ r.approver = s.approver
      /\ CurrentRoundSteps' = (CurrentRoundSteps \ {s}) \cup {r}
  BY <1>1, <1>2, DecisionShape DEF Decision
<1> HIDE DEF r
<1>4. Asked' = Asked /\ Agreed' = Agreed
  BY <1>2, <1>3 DEF Asked, Agreed
<1>5. status \in Awaiting
  BY <1>1 DEF MayFollow, Transitions, Awaiting
<1>6. Phase = "levels" /\ Phase' = "refused"
  BY <1>1, <1>5 DEF Phase, Awaiting
<1>7. /\ s.sequence \in 1..(Len(FullChain) + 1)
      /\ s.sequence \in Asked \ Agreed
      /\ \A other \in Asked \ Agreed : s.sequence <= other
  BY <1>1, <1>5, ItIsTheirTurn
<1> QED
  BY <1>1, <1>4, <1>6, <1>7
  DEF Promise!Refuse, Promise!Turn, Phase, Asked, Agreed

\* A return sends the claim back, and no agreement given so far counts.
LEMMA ReturnSendsBack ==
    ASSUME ChainInv, WithinLevels, NEW u \in Employees(Directory), Return(u)
    PROVE  \E level \in 1..(Len(FullChain) + 1) : Promise!SendBack(level)
<1>1. PICK s \in steps : MayDecide(u, s) /\ MayFollow(status, "draft")
  BY DEF Return, Decided
<1>2. status \in Awaiting
  BY <1>1 DEF MayFollow, Transitions, Awaiting
<1>3. CurrentRoundSteps' = {} /\ status' = "draft" /\ UNCHANGED frozen
  BY ReturnKeepsPlaces
<1>4. Phase = "levels" /\ Phase' = "claimant" /\ Asked' = {} /\ Agreed' = {}
  BY <1>2, <1>3 DEF Phase, Awaiting, Asked, Agreed
<1>5. /\ s.sequence \in 1..(Len(FullChain) + 1)
      /\ s.sequence \in Asked \ Agreed
      /\ \A other \in Asked \ Agreed : s.sequence <= other
  BY <1>1, <1>2, ItIsTheirTurn
<1> QED
  BY <1>3, <1>4, <1>5
  DEF Promise!SendBack, Promise!Turn, Phase, Asked, Agreed

\* A submission files the figures and asks at least one level about them.
LEMMA SubmitFiles ==
    ASSUME ChainInv, NEW outcome \in Figures, Files(outcome)
    PROVE  Promise!File
<1> DEFINE value == NetReimbursable(outcome)
           chain == ChainFor(value)
           rows == {StepRow(i, chain[i]) : i \in DOMAIN chain}
<1>1. Covered(Matrix, value) /\ CurrentRoundSteps' = rows
  BY SubmitShape
<1>2. status = "draft" /\ status' = "pending_approval" /\ frozen' = outcome /\ TypeOK
  BY DEF Files, Submitted, OwnDraft, ChainInv, TypeInv
<1> HIDE DEF value
<1>3. \A i \in DOMAIN chain :
          /\ StepRow(i, chain[i]).sequence = i
          /\ StepRow(i, chain[i]).approver = chain[i].approver
          /\ StepRow(i, chain[i]).decision =
                IF StepRow(i, chain[i]).approver = NoOne THEN "approved" ELSE "pending"
  BY <1>1, <1>2, RowType
<1>4. /\ DOMAIN chain \subseteq 1..(Len(FullChain) + 1)
      /\ \E i \in DOMAIN chain : chain[i].approver # NoOne
  BY <1>1, PositionsAreLevels
<1> HIDE DEF chain
<1>5. Asked' \in (SUBSET (1..(Len(FullChain) + 1))) \ {{}}
  <2>1. Asked' \subseteq 1..(Len(FullChain) + 1)
    BY <1>1, <1>3, <1>4 DEF Asked
  <2>2. PICK i \in DOMAIN chain : chain[i].approver # NoOne
    BY <1>4
  <2>3. \E t \in CurrentRoundSteps' : t.approver # NoOne
    BY <1>1, <1>3, <2>2
  <2>4. Asked' # {}
    BY <2>3 DEF Asked
  <2> QED
    BY <2>1, <2>4
<1>6. Agreed' = {}
  BY <1>1, <1>3 DEF Agreed
<1>7. Phase = "claimant" /\ Phase' = "levels" /\ frozen' \in Figures
  BY <1>2 DEF Phase, Awaiting
<1> QED
  BY <1>5, <1>6, <1>7 DEF Promise!File, Phase, Asked, Agreed

\* Every step of the workflow is a step of the promise or invisible to it.
LEMMA PromiseStep ==
    ASSUME ChainInv, WithinLevels, [Moves]_vars
    PROVE  [Promise!Next]_(Promise!vars)
<1>1. CASE UNCHANGED <<status, frozen, steps, returns>>
  <2>1. UNCHANGED <<Phase, frozen, Asked, Agreed>>
    BY <1>1 DEF Phase, Asked, Agreed, CurrentRoundSteps, Round
  <2> QED
    BY <2>1 DEF Promise!vars, Phase, Asked, Agreed
<1>2. ASSUME NEW outcome \in Figures, Files(outcome)
      PROVE  Promise!Next
  BY <1>2, SubmitFiles DEF Promise!Next
<1>3. ASSUME NEW u \in Employees(Directory), Approve(u) \/ Reject(u) \/ Return(u)
      PROVE  Promise!Next
  BY <1>3, ApproveAgrees, RejectRefuses, ReturnSendsBack DEF Promise!Next
<1> QED
  BY <1>1, <1>2, <1>3 DEF Moves, vars, Edited, Look, claimVars

\* A new claim is one with the claimant, and every move from there is the promise's.
LEMMA PromiseMoving == Moving => KeepsPromise
<1>1. Init => Promise!Init
  <2> SUFFICES ASSUME Init
               PROVE  Promise!Init
    OBVIOUS
  <2>1. CurrentRoundSteps = {} /\ Phase = "claimant" /\ frozen \in Figures
    BY DEF Init, CurrentRoundSteps, Phase, Nothing, Figures
  <2> QED
    BY <2>1 DEF Promise!Init, Phase
<1>2. Init => WithinLevels
  BY DEF Init, WithinLevels
<1>3. Moving => []WithinLevels
  <2>1. ChainInv /\ WithinLevels /\ [Moves]_vars => WithinLevels'
    BY LevelsInv
  <2> QED
    BY <1>2, <2>1, ChainMoving, PTL DEF Moving
<1>4. ChainInv /\ WithinLevels /\ [Moves]_vars => [Promise!Next]_(Promise!vars)
  BY PromiseStep
<1> QED
  BY <1>1, <1>3, <1>4, ChainMoving, PTL DEF Moving, KeepsPromise, Promise!Spec

\* The workflow implements the promise: whatever the organisation and the bills, its steps are
\* the filings, agreements, refusals and returns of SettlementPromise, in an order it allows.
THEOREM PromiseIsKept == Spec => KeepsPromise
BY SpecMoves, PromiseMoving, PTL
=============================================================================
