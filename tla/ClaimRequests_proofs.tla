------------------------- MODULE ClaimRequests_proofs -------------------------
(***************************************************************************)
(* Theorems about ClaimRequests: what ClaimWorkflow promises of handlers   *)
(* run one at a time holds of handlers in flight together, for any number  *)
(* of them, as long as no two decisions on the claim are.                  *)
(***************************************************************************)
EXTENDS ClaimRequests, ClaimStory_proofs

-----------------------------------------------------------------------------
(* What requests in flight hold *)

\* At most one decision on the claim is in flight.  Nothing in the program sees to it, and
\* with two the claim goes astray: it is what the theorems assume of the approvers.
OneDecisionOpen ==
    \A d, e \in Decidings : open[d].at = "deciding" /\ open[e].at = "deciding" => d = e

\* Each round that was submitted has a first level, which the next one's rows would repeat.
FirstLevels ==
    \A k \in Nat \ {0} :
        k <= returns \/ (k = Round /\ status # "draft") =>
            \E s \in steps : s.round = k /\ s.sequence = 1

HoldsEdit(q) == q.at \in {"upload", "remove", "withdraw"} /\ q.line \in Lines

Routable(outcome) ==
    outcome \in Figures /\ CanRoute(Directory, Matrix, claimant, NetReimbursable(outcome))

HoldsFigures(q) == q.at = "evaluated" /\ Routable(q.outcome)

\* The row is that of the claim, unless a submission came first.
HoldsDraft(q) ==
    /\ q.at = "loaded"
    /\ Routable(q.outcome)
    /\ q.row.returns \in Nat /\ q.row.returns <= returns
    /\ q.row.returns = returns /\ status = "draft" => q.row = Row

\* The row is that of the claim, and what was found of it still is so.
HoldsDecision(q) ==
    /\ q.at = "deciding"
    /\ q.decision \in {"approved", "rejected", "returned"}
    /\ q.decision = "returned" => returns < MaxReturns
    /\ q.row = Row
    /\ q.step \in steps
    /\ MayFollow(status, LeadsTo(q.decision, TargetStatus(q.step)))
    /\ \E u \in Employees(Directory) : MayDecide(u, q.step) /\ q.figures = shown[u].figures

Holds(r, q) ==
    \/ q = Idle
    \/ r \in Filings /\ (HoldsEdit(q) \/ HoldsFigures(q) \/ HoldsDraft(q))
    \/ r \in Decidings /\ HoldsDecision(q)

RequestsInv ==
    /\ ChainInv
    /\ FirstLevels
    /\ open = [r \in Requests |-> open[r]]
    /\ \A r \in Requests : Holds(r, open[r])

-----------------------------------------------------------------------------
(* What a request in flight writes is what its handler alone would have *)

\* On a row that is the claim's, a handler sees what it sees of the claim.
LEMMA SeenIsTheClaim ==
    ASSUME NEW row, row = Row, NEW s
    PROVE  /\ Seen(row)!TargetStatus(s) = TargetStatus(s)
           /\ Seen(row)!LaterThan(s) = LaterThan(s)
<1>1. row.returns = returns /\ row.steps = steps
  BY DEF Row
<1>2. Seen(row)!CurrentRoundSteps = CurrentRoundSteps
  BY <1>1 DEF Seen!CurrentRoundSteps, Seen!Round, CurrentRoundSteps, Round
<1>3. Seen(row)!Pending = Pending
  BY <1>2 DEF Seen!Pending, Pending
<1>4. Seen(row)!LaterThan(s) = LaterThan(s)
  BY <1>3 DEF Seen!LaterThan, LaterThan
<1>5. Seen(row)!FirstOf(LaterThan(s)) = FirstOf(LaterThan(s))
  BY DEF Seen!FirstOf, FirstOf, Seen!IsFirstOf, IsFirstOf
<1> QED
  BY <1>4, <1>5 DEF Seen!TargetStatus, TargetStatus

\* A late edit of the draft is an edit.
LEMMA EditMoves ==
    ASSUME RequestsInv, NEW r \in Filings, WriteEdit(r)
    PROVE  Edited
<1>1. open[r].line \in Lines
  <2>1. open[r].at \in {"upload", "remove", "withdraw"} /\ Holds(r, open[r])
    BY DEF WriteEdit, RequestsInv, Requests
  <2> QED
    BY <2>1 DEF Holds, HoldsEdit, HoldsFigures, HoldsDraft, HoldsDecision, Idle
<1>2. draft \subseteq Lines /\ withdrawn \subseteq Lines
  BY DEF RequestsInv, ChainInv, TypeInv, TypeOK
<1> QED
  BY <1>1, <1>2 DEF WriteEdit, Edited

\* A submission whose rows repeat none was loaded from the claim as it is.
LEMMA SubmissionMoves ==
    ASSUME RequestsInv, NEW r \in Filings, WriteSubmission(r)
    PROVE  \E outcome \in Figures : Files(outcome)
<1> DEFINE q == open[r]
           chain == ChainFor(NetReimbursable(q.outcome))
           seen(i) == Seen(q.row)!StepRow(i, chain[i])
           rows == {seen(i) : i \in DOMAIN chain}
<1>1. HoldsDraft(q)
  <2>1. q.at = "loaded" /\ Holds(r, q)
    BY DEF WriteSubmission, RequestsInv, Requests
  <2> HIDE DEF q
  <2> QED
    BY <2>1 DEF Holds, HoldsEdit, HoldsFigures, HoldsDecision, Idle
<1>2. 1 \in DOMAIN chain
  <2> DEFINE value == NetReimbursable(q.outcome)
  <2>1. Covered(Matrix, value)
    BY <1>1 DEF HoldsDraft, Routable, CanRoute
  <2> HIDE DEF value
  <2>2. ChainFor(value) \in Seq([role : Role, approver : Employees(Directory) \cup {NoOne}])
        /\ Len(ChainFor(value)) \in 1..(Len(FullChain) + 1)
    BY <2>1, ChainType
  <2>3. 1 \in DOMAIN ChainFor(value)
    BY <2>2, LenProperties
  <2> QED
    BY <2>3 DEF value
<1> HIDE DEF chain
<1>3. \A i \in DOMAIN chain : seen(i) =
          [round |-> q.row.returns + 1, sequence |-> i, role |-> chain[i].role,
           approver |-> chain[i].approver,
           decision |-> IF chain[i].approver = NoOne THEN "approved" ELSE "pending",
           superseded |-> FALSE]
  BY DEF Seen!StepRow, Seen!RoundOfSubmission, Seen!Round, Seen!NoOne, NoOne
<1>4. /\ FreeOf(rows)
      /\ frozen' = q.outcome
      /\ steps' = KeptSteps \cup rows
      /\ status' = "pending_approval"
      /\ version' = q.row.version + 1
      /\ trail' = Recorded("claim_submitted", "pending_approval")
      /\ inbox' = Notified("claim_submitted", FirstOf({s \in rows : s.decision = "pending"}))
      /\ UNCHANGED <<claimant, draft, withdrawn, returns, shown, signed>>
  BY DEF WriteSubmission, chain
<1>5. returns \in Nat /\ Round = returns + 1
  BY DEF RequestsInv, ChainInv, TypeInv, TypeOK, Round
<1>6. q.row.returns = returns /\ status = "draft"
  <2> SUFFICES ASSUME ~ (q.row.returns = returns /\ status = "draft")
               PROVE  FALSE
    OBVIOUS
  <2> DEFINE k == q.row.returns + 1
  <2>1. k \in Nat \ {0} /\ (k <= returns \/ (k = Round /\ status # "draft"))
    BY <1>1, <1>5 DEF HoldsDraft
  <2>2. PICK s \in steps : s.round = k /\ s.sequence = 1
    BY <2>1 DEF RequestsInv, FirstLevels
  <2>3. seen(1) \in rows /\ seen(1).round = k /\ seen(1).sequence = 1
    <3>1. seen(1) \in rows
      BY <1>2
    <3>2. seen(1).round = k /\ seen(1).sequence = 1
      <4> HIDE DEF seen
      <4> QED BY <1>2, <1>3
    <3> QED
      BY <3>1, <3>2
  <2> HIDE DEF rows, seen, k
  <2> QED
    BY <1>4, <2>2, <2>3 DEF FreeOf
<1>7. q.row = Row
  BY <1>1, <1>6 DEF HoldsDraft
<1>8. q.row.version = version
  BY <1>7 DEF Row
<1>9. \A i \in DOMAIN chain : seen(i) = StepRow(i, chain[i])
  BY <1>3, <1>5, <1>6 DEF StepRow, RoundOfSubmission
<1> HIDE DEF seen
<1>10. rows = {StepRow(i, chain[i]) : i \in DOMAIN chain}
  BY <1>9
<1> HIDE DEF rows
<1>11. Submitted(q.outcome)
  BY <1>4, <1>8, <1>10 DEF Submitted, chain
<1> QED
  BY <1>1, <1>6, <1>11 DEF HoldsDraft, Routable, Files, OwnDraft

\* What a decision d on step s writes over step t, where it ends the round or not.
Rewritten(t, s, d, ends) ==
    [t EXCEPT !.decision = IF t.round = s.round /\ t.sequence = s.sequence THEN d ELSE @,
              !.superseded = @ \/ (ends /\ t.round = Round)]

Plainly(t, s, d) == IF t = s THEN [t EXCEPT !.decision = d] ELSE t

\* Its own step is decided, and every other stays, unless the decision ends the round.
LEMMA DecidedRowsAre ==
    ASSUME ChainInv, NEW s \in steps, NEW d \in Decision, NEW ends \in BOOLEAN, NEW t \in steps
    PROVE  Rewritten(t, s, d, ends) =
               IF ends THEN Superseded(Plainly(t, s, d)) ELSE Plainly(t, s, d)
<1>1. t \in Step /\ s \in Step /\ t.superseded \in BOOLEAN
  BY DEF ChainInv, TypeInv, TypeOK, Step
<1>2. (t.round = s.round /\ t.sequence = s.sequence) <=> t = s
  BY DEF ChainInv, OneLiveChain
<1> DEFINE plain == Plainly(t, s, d)
           after == Rewritten(t, s, d, ends)
<1> SUFFICES after = IF ends THEN Superseded(plain) ELSE plain
  OBVIOUS
<1>3. /\ after = [t EXCEPT !.decision = IF t = s THEN d ELSE t.decision,
                           !.superseded = t.superseded \/ (ends /\ t.round = Round)]
      /\ plain \in Step /\ plain.round = t.round
      /\ plain = [t EXCEPT !.decision = IF t = s THEN d ELSE t.decision]
  BY <1>1, <1>2 DEF Step, Rewritten, Plainly
<1> HIDE DEF plain, after
<1>4. CASE ~ ends
  <2>1. (t.superseded \/ (ends /\ t.round = Round)) = t.superseded
    BY <1>1, <1>4
  <2> QED
    BY <1>1, <1>2, <1>3, <1>4, <2>1 DEF Step
<1>5. CASE ends /\ t.round = Round
  BY <1>1, <1>2, <1>3, <1>5 DEF Superseded, Step
<1>6. CASE ends /\ t.round # Round
  <2>1. (t.superseded \/ (ends /\ t.round = Round)) = t.superseded
    BY <1>1, <1>6
  <2> QED
    BY <1>1, <1>2, <1>3, <1>6, <2>1 DEF Superseded, Step
<1> QED
  BY <1>4, <1>5, <1>6

\* A decision written from the claim as it is, is the handler's.
LEMMA DecisionMoves ==
    ASSUME RequestsInv, NEW r \in Decidings, WriteDecision(r)
    PROVE  \E u \in Employees(Directory) : Approve(u) \/ Reject(u) \/ Return(u)
<1> DEFINE q == open[r]
           s == q.step
           to == LeadsTo(q.decision, TargetStatus(s))
           ends == q.decision = "returned"
           after(t) == Rewritten(t, s, q.decision, ends)
           plain(t) == Plainly(t, s, q.decision)
<1>1. ChainInv /\ HoldsDecision(q)
  <2>1. q.at = "deciding" /\ Holds(r, q) /\ ChainInv
    BY DEF WriteDecision, RequestsInv, Requests
  <2> HIDE DEF q
  <2> QED
    BY <2>1 DEF Holds, HoldsEdit, HoldsFigures, HoldsDraft, Idle
<1> HIDE DEF q
<1>2. /\ q.row = Row /\ s \in steps /\ MayFollow(status, to)
      /\ q.decision \in {"approved", "rejected", "returned"}
      /\ q.decision = "returned" => returns < MaxReturns
  BY <1>1 DEF HoldsDecision
<1>3. PICK u \in Employees(Directory) : MayDecide(u, s) /\ q.figures = shown[u].figures
  BY <1>1 DEF HoldsDecision
<1>4. q.row.status = status /\ q.row.version = version /\ q.row.returns = returns
  BY <1>2 DEF Row
<1>5. Seen(q.row)!TargetStatus(s) = TargetStatus(s) /\ Seen(q.row)!LaterThan(s) = LaterThan(s)
  BY <1>2, SeenIsTheClaim
<1> HIDE DEF s
<1>6. /\ steps' = {after(t) : t \in steps}
      /\ returns' = IF ends THEN returns + 1 ELSE returns
      /\ status' = to
      /\ version' = version + 1
      /\ trail' = Recorded(Event(q.decision), to)
      /\ inbox' = Notified(Kind(q.decision, to),
                           IF q.decision = "approved" THEN FirstOf(LaterThan(s)) ELSE {})
      /\ signed' = IF q.decision = "approved"
                   THEN signed \cup {[round |-> s.round, sequence |-> s.sequence,
                                      figures |-> q.figures]}
                   ELSE signed
      /\ UNCHANGED <<claimant, draft, withdrawn, frozen, shown>>
  BY <1>4, <1>5 DEF WriteDecision, Rewritten, q, s, Round
<1>7. \A t \in steps : after(t) = IF ends THEN Superseded(plain(t)) ELSE plain(t)
  <2> SUFFICES ASSUME NEW t \in steps
               PROVE  after(t) = IF ends THEN Superseded(plain(t)) ELSE plain(t)
    OBVIOUS
  <2>1. ends \in BOOLEAN /\ q.decision \in Decision
    BY <1>2 DEF Decision
  <2> HIDE DEF ends
  <2> QED
    BY <1>1, <1>2, <2>1, DecidedRowsAre
<1> HIDE DEF after
<1>8. CASE q.decision = "approved"
  <2>1. to = TargetStatus(s) /\ Event(q.decision) = "approval_approved"
    BY <1>8 DEF LeadsTo, Event
  <2>2. Kind(q.decision, to) =
            IF TargetStatus(s) = "verified" THEN "claim_verified" ELSE "claim_approved"
    BY <1>8, <2>1 DEF Kind
  <2>3. steps' = {plain(t) : t \in steps}
    <3>1. \A t \in steps : after(t) = plain(t)
      BY <1>7, <1>8
    <3> HIDE DEF plain
    <3> QED
      BY <1>6, <3>1
  <2>4. steps' = (steps \ {s}) \cup {[s EXCEPT !.decision = "approved"]}
    BY <1>2, <1>8, <2>3 DEF Plainly
  <2> HIDE DEF to
  <2>5. Approve(u)
    BY <1>2, <1>3, <1>6, <1>8, <2>1, <2>2, <2>4 DEF Approve, Decided
  <2> QED
    BY <2>5
<1>9. CASE q.decision = "rejected"
  <2>1. to = "rejected" /\ Event(q.decision) = "approval_rejected"
    BY <1>9 DEF LeadsTo, Event
  <2>2. Kind(q.decision, to) = "claim_rejected"
    BY <1>9, <2>1 DEF Kind
  <2>3. steps' = {plain(t) : t \in steps}
    <3>1. \A t \in steps : after(t) = plain(t)
      BY <1>7, <1>9
    <3> HIDE DEF plain
    <3> QED
      BY <1>6, <3>1
  <2>4. steps' = (steps \ {s}) \cup {[s EXCEPT !.decision = "rejected"]}
    BY <1>2, <1>9, <2>3 DEF Plainly
  <2> HIDE DEF to
  <2>5. Reject(u)
    BY <1>2, <1>3, <1>6, <1>9, <2>1, <2>2, <2>4 DEF Reject, Decided
  <2> QED
    BY <2>5
<1>10. CASE q.decision = "returned"
  <2>1. to = "draft" /\ Event(q.decision) = "approval_returned"
    BY <1>10 DEF LeadsTo, Event
  <2>2. Kind(q.decision, to) = "claim_returned"
    BY <1>10, <2>1 DEF Kind
  <2>3. steps' = {Superseded(IF t = s THEN [t EXCEPT !.decision = "returned"] ELSE t) :
                    t \in steps}
    <3>1. \A t \in steps :
              after(t) = Superseded(IF t = s THEN [t EXCEPT !.decision = "returned"] ELSE t)
      BY <1>7, <1>10 DEF Plainly
    <3> QED
      BY <1>6, <3>1
  <2> HIDE DEF to
  <2>5. Return(u)
    BY <1>2, <1>3, <1>6, <1>10, <2>1, <2>2, <2>3 DEF Return, Decided
  <2> QED
    BY <2>5
<1> QED
  BY <1>2, <1>8, <1>9, <1>10

\* Whatever request takes a step, the claim moves as its handlers move it.
LEMMA RequestsMove ==
    ASSUME RequestsInv, [RequestsNext]_requestVars
    PROVE  [Moves]_vars
<1>1. ASSUME NEW r \in Filings, WriteEdit(r)
      PROVE  Moves
  BY <1>1, EditMoves DEF Moves
<1>2. ASSUME NEW r \in Filings, WriteSubmission(r)
      PROVE  Moves
  BY <1>2, SubmissionMoves DEF Moves
<1>3. ASSUME NEW r \in Decidings, WriteDecision(r)
      PROVE  Moves
  BY <1>3, DecisionMoves DEF Moves
<1>4. CASE Crash
  <2>1. draft \subseteq Lines
    BY DEF RequestsInv, ChainInv, TypeInv, TypeOK
  <2>2. Edited
    BY <1>4, <2>1 DEF Crash, Edited
  <2> QED
    BY <2>2 DEF Moves
<1>5. ASSUME NEW u \in Employees(Directory), Look(u)
      PROVE  Moves
  BY <1>5 DEF Moves
<1>6. CASE UNCHANGED vars
  BY <1>6
<1> QED
  BY <1>1, <1>2, <1>3, <1>4, <1>5, <1>6
  DEF RequestsNext, requestVars, OpenEdit, EvaluateDraft, LoadForSubmission, OpenDecision, Reads,
      Fail

-----------------------------------------------------------------------------
(* What requests hold stays so, whatever the others do *)

\* A step of the claim keeps the first levels of its rounds, and opens one when it opens a round.
LEMMA FirstLevelsStep ==
    ASSUME ChainInv, FirstLevels, [Moves]_vars
    PROVE  FirstLevels'
<1>1. returns \in Nat /\ Round = returns + 1
  BY DEF ChainInv, TypeInv, TypeOK, Round
<1>2. CASE UNCHANGED <<status, returns, steps>>
  BY <1>2 DEF FirstLevels, Round
<1>3. ASSUME NEW outcome \in Figures, Files(outcome)
      PROVE  FirstLevels'
  <2> DEFINE value == NetReimbursable(outcome)
             chain == ChainFor(value)
  <2>1. /\ Covered(Matrix, value)
        /\ steps' = steps \cup {StepRow(i, chain[i]) : i \in DOMAIN chain}
        /\ returns' = returns
    BY <1>3 DEF Files, Submitted, CanRoute, KeptSteps
  <2> HIDE DEF value
  <2>2. 1 \in DOMAIN chain
    <3>1. /\ chain \in Seq([role : Role, approver : Employees(Directory) \cup {NoOne}])
          /\ Len(chain) \in 1..(Len(FullChain) + 1)
      BY <2>1, ChainType
    <3> HIDE DEF chain
    <3> QED
      BY <3>1, LenProperties
  <2>3. StepRow(1, chain[1]).round = Round /\ StepRow(1, chain[1]).sequence = 1
    BY DEF StepRow, RoundOfSubmission
  <2> HIDE DEF chain
  <2> DEFINE row(i) == StepRow(i, chain[i])
  <2>4. row(1) \in steps' /\ row(1).round = Round /\ row(1).sequence = 1
    BY <2>1, <2>2, <2>3
  <2> HIDE DEF row
  <2>5. steps \subseteq steps'
    BY <2>1
  <2> SUFFICES ASSUME NEW k \in Nat \ {0}, k <= returns' \/ k = Round'
               PROVE  \E s \in steps' : s.round = k /\ s.sequence = 1
    BY DEF FirstLevels
  <2>6. k <= returns \/ k = Round
    BY <2>1 DEF Round
  <2> QED
    BY <2>4, <2>5, <2>6 DEF FirstLevels
<1>4. ASSUME NEW u \in Employees(Directory), Approve(u) \/ Reject(u) \/ Return(u)
      PROVE  FirstLevels'
  <2>1. PICK s \in steps : MayDecide(u, s)
    BY <1>4 DEF Approve, Reject, Return
  <2>2. status # "draft"
    BY <2>1, DeciderShape DEF ChainInv, OneLiveChain
  <2>3. \A t \in steps : \E x \in steps' : x.round = t.round /\ x.sequence = t.sequence
    <3>1. CASE Approve(u) \/ Reject(u)
      <4>1. PICK x \in steps, d \in Decision :
                steps' = (steps \ {x}) \cup {[x EXCEPT !.decision = d]}
        BY <3>1 DEF Approve, Reject, Decision
      <4>2. /\ [x EXCEPT !.decision = d].round = x.round
            /\ [x EXCEPT !.decision = d].sequence = x.sequence
        BY DEF ChainInv, TypeInv, TypeOK, Step
      <4> QED
        BY <4>1, <4>2
    <3>2. CASE Return(u)
      <4>1. PICK d \in steps :
                steps' = {Superseded(IF t = d THEN [t EXCEPT !.decision = "returned"] ELSE t) :
                            t \in steps}
        BY <3>2 DEF Return
      <4> DEFINE r(t) == IF t = d THEN [t EXCEPT !.decision = "returned"] ELSE t
      <4>2. \A t \in steps :
                r(t) \in Step /\ r(t).round = t.round /\ r(t).sequence = t.sequence
        BY DEF ChainInv, TypeInv, TypeOK, Step, Decision
      <4>3. steps' = {Superseded(r(t)) : t \in steps}
        BY <4>1
      <4> HIDE DEF r
      <4>4. \A t \in steps :
                /\ Superseded(r(t)) \in steps'
                /\ Superseded(r(t)).round = t.round /\ Superseded(r(t)).sequence = t.sequence
        BY <4>2, <4>3, SupersededIs
      <4> QED
        BY <4>4
    <3> QED
      BY <1>4, <3>1, <3>2
  <2>4. returns' = returns \/ (returns' = returns + 1 /\ status' = "draft")
    BY <1>4 DEF Approve, Reject, Return, Decided
  <2> SUFFICES ASSUME NEW k \in Nat \ {0}, k <= returns' \/ (k = Round' /\ status' # "draft")
               PROVE  \E x \in steps' : x.round = k /\ x.sequence = 1
    BY DEF FirstLevels
  <2>5. k <= returns \/ k = Round
    BY <1>1, <2>4 DEF Round
  <2>6. PICK t \in steps : t.round = k /\ t.sequence = 1
    BY <2>2, <2>5 DEF FirstLevels
  <2> QED
    BY <2>3, <2>6
<1> QED
  BY <1>2, <1>3, <1>4 DEF Moves, vars, Edited, Look, claimVars

\* The claim's own columns, which what is held depends on.
ClaimStands == UNCHANGED <<claimant, status, version, returns, steps, frozen>>

\* A screen that is up to date with a submitted claim has nothing more to show.
LEMMA HeldWhileClaimStands ==
    ASSUME ChainInv, NEW r, NEW q, Holds(r, q), ClaimStands,
           UNCHANGED shown \/ \E u \in Employees(Directory) : Look(u)
    PROVE  Holds(r, q)'
<1>1. UNCHANGED <<Row, CurrentRoundSteps, Pending, Round>>
  BY DEF ClaimStands, Row, CurrentRoundSteps, Pending, Round
<1>2. Routable(q.outcome)' <=> Routable(q.outcome)
  BY DEF ClaimStands, Routable
<1>3. HoldsFigures(q)' <=> HoldsFigures(q)
  BY <1>2 DEF HoldsFigures
<1>4. HoldsDraft(q)' <=> HoldsDraft(q)
  BY <1>1, <1>2 DEF HoldsDraft, ClaimStands
<1>5. ASSUME HoldsDecision(q)
      PROVE  HoldsDecision(q)'
  <2> DEFINE s == q.step
  <2>1. PICK u \in Employees(Directory) : MayDecide(u, s) /\ q.figures = shown[u].figures
    BY <1>5 DEF HoldsDecision
  <2>2. s \in steps /\ shown[u].version = version /\ status # "draft"
    <3>1. s \in steps
      BY <1>5 DEF HoldsDecision
    <3> QED
      BY <2>1, <3>1, DeciderShape DEF ChainInv, OneLiveChain
  <2>3. shown'[u] = shown[u]
    <3>1. ASSUME NEW v \in Employees(Directory), Look(v)
          PROVE  shown'[u] = shown[u]
      <4>1. /\ shown[v] # [version |-> version, figures |-> Displayed]
            /\ shown' = [shown EXCEPT ![v] = [version |-> version, figures |-> Displayed]]
        BY <3>1 DEF Look
      <4>2. shown[u] = [version |-> version, figures |-> Displayed]
        <5>1. shown[u] \in [version : Nat, figures : Figures]
          BY DEF ChainInv, TypeInv, TypeOK
        <5>2. Displayed = frozen /\ shown[u].figures = frozen
          BY <2>2 DEF Displayed, ChainInv, Screens
        <5> QED
          BY <2>2, <5>1, <5>2
      <4>3. u # v
        BY <4>1, <4>2
      <4> QED
        BY <4>1, <4>3
    <3> QED
      BY <3>1
  <2>4. MayDecide(u, s)'
    BY <1>1, <2>1, <2>3 DEF MayDecide, IsFront, UpToDate, ClaimStands
  <2>5. TargetStatus(s)' = TargetStatus(s)
    BY <1>1 DEF TargetStatus, LaterThan
  <2> HIDE DEF s
  <2>6. MayFollow(status, LeadsTo(q.decision, TargetStatus(s)))'
    BY <1>5, <2>5 DEF HoldsDecision, ClaimStands, s
  <2> QED
    BY <1>1, <1>5, <2>1, <2>3, <2>4, <2>6 DEF HoldsDecision, ClaimStands, s
<1> QED
  BY <1>3, <1>4, <1>5 DEF Holds, HoldsEdit

\* A submission or a decision leaves what was read for another submission no longer the
\* claim's, and it is known by its round or by the status.
LEMMA HeldWhenClaimMoves ==
    ASSUME ChainInv, NEW r, NEW q, Holds(r, q), ~ HoldsDecision(q), UNCHANGED claimant,
           \/ returns' = returns /\ status' # "draft"
           \/ returns' = returns + 1
    PROVE  Holds(r, q)'
<1>1. Routable(q.outcome)' <=> Routable(q.outcome)
  BY DEF Routable
<1>2. HoldsFigures(q)' <=> HoldsFigures(q)
  BY <1>1 DEF HoldsFigures
<1>3. ASSUME HoldsDraft(q)
      PROVE  HoldsDraft(q)'
  <2>1. returns \in Nat
    BY DEF ChainInv, TypeInv, TypeOK
  <2>2. q.at = "loaded" /\ Routable(q.outcome) /\ q.row.returns \in Nat /\ q.row.returns <= returns
    BY <1>3 DEF HoldsDraft
  <2>3. q.row.returns <= returns' /\ ~ (q.row.returns = returns' /\ status' = "draft")
    BY <2>1, <2>2
  <2> QED
    BY <1>1, <2>2, <2>3 DEF HoldsDraft
<1> QED
  BY <1>2, <1>3 DEF Holds, HoldsEdit

\* A request that reads or ends while the claim stands leaves the others as they are.
LEMMA HeldWhileOthersRead ==
    ASSUME RequestsInv, NEW r \in Requests, NEW read, Holds(r, read),
           open' = [open EXCEPT ![r] = read], ClaimStands, UNCHANGED shown
    PROVE  (open = [e \in Requests |-> open[e]])' /\ (\A e \in Requests : Holds(e, open[e]))'
<1>1. open = [e \in Requests |-> open[e]] /\ ChainInv /\ \A e \in Requests : Holds(e, open[e])
  BY DEF RequestsInv
<1>2. (open = [e \in Requests |-> open[e]])'
  BY <1>1
<1>3. \A e \in Requests : open'[e] = IF e = r THEN read ELSE open[e]
  BY <1>1
<1>4. ASSUME NEW e \in Requests
      PROVE  Holds(e, open[e])'
  <2> DEFINE q == IF e = r THEN read ELSE open[e]
  <2>1. Holds(e, q)
    BY <1>1
  <2> HIDE DEF q
  <2>2. open'[e] = q
    BY <1>3 DEF q
  <2> SUFFICES ASSUME NEW p, p = open'[e]
               PROVE  Holds(e, p)'
    OBVIOUS
  <2> QED
    BY <1>1, <2>1, <2>2, HeldWhileClaimStands
<1> QED
  BY <1>2, <1>4

\* A request that writes ends, and the others, which hold no decision or see the claim stand,
\* go on holding what they held.
LEMMA HeldWhileOneWrites ==
    ASSUME RequestsInv, NEW r \in Requests, Ends(r), UNCHANGED claimant,
           \A e \in Requests \ {r} : ~ HoldsDecision(open[e]),
           \/ returns' = returns /\ status' # "draft"
           \/ returns' = returns + 1
    PROVE  (open = [e \in Requests |-> open[e]])' /\ (\A e \in Requests : Holds(e, open[e]))'
<1>1. open = [e \in Requests |-> open[e]] /\ ChainInv /\ \A e \in Requests : Holds(e, open[e])
  BY DEF RequestsInv
<1>2. (open = [e \in Requests |-> open[e]])'
  BY <1>1 DEF Ends
<1>3. \A e \in Requests : open'[e] = IF e = r THEN Idle ELSE open[e]
  BY <1>1 DEF Ends
<1>4. ASSUME NEW e \in Requests, NEW p, p = open'[e]
      PROVE  Holds(e, p)'
  <2>1. CASE e = r
    BY <1>3, <1>4, <2>1 DEF Holds, Idle
  <2>2. CASE e # r
    <3>1. p = open[e] /\ Holds(e, p) /\ ~ HoldsDecision(p)
      BY <1>1, <1>3, <1>4, <2>2
    <3> QED
      BY <1>1, <3>1, HeldWhenClaimMoves
  <2> QED
    BY <2>1, <2>2
<1>5. ASSUME NEW e \in Requests
      PROVE  Holds(e, open[e])'
  <2> SUFFICES ASSUME NEW p, p = open'[e]
               PROVE  Holds(e, p)'
    OBVIOUS
  <2> QED
    BY <1>4
<1> QED
  BY <1>2, <1>5

\* What a request has just read of the claim holds.
LEMMA WhatIsReadHolds ==
    ASSUME RequestsInv
    PROVE  /\ \A r \in Filings, edit \in {"upload", "remove", "withdraw"}, l \in Lines :
                  Holds(r, [at |-> edit, line |-> l])
           /\ \A r \in Filings : EvaluateDraft(r) =>
                  Holds(r, [at |-> "evaluated", outcome |-> Outcome])
           /\ \A r \in Filings : LoadForSubmission(r) =>
                  Holds(r, [at |-> "loaded", outcome |-> open[r].outcome, row |-> Row])
           /\ \A r \in Decidings, u \in Employees(Directory),
                 decision \in {"approved", "rejected", "returned"}, s \in steps :
                  /\ decision = "returned" => returns < MaxReturns
                  /\ MayDecide(u, s)
                  /\ MayFollow(status, LeadsTo(decision, TargetStatus(s)))
                  => Holds(r, [at |-> "deciding", decision |-> decision, step |-> s, row |-> Row,
                               figures |-> shown[u].figures])
<1>1. \A r \in Filings, edit \in {"upload", "remove", "withdraw"}, l \in Lines :
          Holds(r, [at |-> edit, line |-> l])
  BY DEF Holds, HoldsEdit
<1>2. ASSUME NEW r \in Filings, EvaluateDraft(r)
      PROVE  Holds(r, [at |-> "evaluated", outcome |-> Outcome])
  <2>1. Routable(Outcome)
    BY <1>2, OutcomeType DEF EvaluateDraft, Routable
  <2> DEFINE q == [at |-> "evaluated", outcome |-> Outcome]
  <2>2. q.at = "evaluated" /\ q.outcome = Outcome
    OBVIOUS
  <2> HIDE DEF q
  <2>3. Holds(r, q)
    BY <2>1, <2>2 DEF Holds, HoldsFigures
  <2> QED
    BY <2>3 DEF q
<1>3. ASSUME NEW r \in Filings, LoadForSubmission(r)
      PROVE  Holds(r, [at |-> "loaded", outcome |-> open[r].outcome, row |-> Row])
  <2> DEFINE q == [at |-> "loaded", outcome |-> open[r].outcome, row |-> Row]
  <2>1. open[r].at = "evaluated" /\ Holds(r, open[r])
    BY <1>3 DEF LoadForSubmission, RequestsInv, Requests
  <2>2. Routable(open[r].outcome)
    BY <2>1 DEF Holds, HoldsEdit, HoldsFigures, HoldsDraft, HoldsDecision, Idle
  <2>3. Row.returns = returns /\ returns \in Nat
    BY DEF Row, RequestsInv, ChainInv, TypeInv, TypeOK
  <2>4. q.at = "loaded" /\ q.outcome = open[r].outcome /\ q.row = Row
    OBVIOUS
  <2> HIDE DEF q
  <2>5. Holds(r, q)
    BY <2>2, <2>3, <2>4 DEF Holds, HoldsDraft
  <2> QED
    BY <2>5 DEF q
<1>4. ASSUME NEW r \in Decidings, NEW u \in Employees(Directory),
             NEW decision \in {"approved", "rejected", "returned"}, NEW s \in steps,
             decision = "returned" => returns < MaxReturns, MayDecide(u, s),
             MayFollow(status, LeadsTo(decision, TargetStatus(s)))
      PROVE  Holds(r, [at |-> "deciding", decision |-> decision, step |-> s, row |-> Row,
                       figures |-> shown[u].figures])
  <2> DEFINE q == [at |-> "deciding", decision |-> decision, step |-> s, row |-> Row,
                   figures |-> shown[u].figures]
  <2>1. /\ q.at = "deciding" /\ q.decision = decision /\ q.step = s /\ q.row = Row
        /\ q.figures = shown[u].figures
    OBVIOUS
  <2> HIDE DEF q
  <2>2. Holds(r, q)
    BY <1>4, <2>1 DEF Holds, HoldsDecision
  <2> QED
    BY <2>2 DEF q
<1> QED
  BY <1>1, <1>2, <1>3, <1>4

\* Reading, failing and ending leave the claim as it is.
LEMMA RequestsInvStep ==
    ASSUME RequestsInv, OneDecisionOpen, [RequestsNext]_requestVars
    PROVE  RequestsInv'
<1> DEFINE Held == open = [e \in Requests |-> open[e]] /\ \A e \in Requests : Holds(e, open[e])
<1>1. ChainInv' /\ FirstLevels'
  BY RequestsMove, ChainStep, FirstLevelsStep DEF RequestsInv
<1>2. Held /\ ChainInv
  BY DEF RequestsInv
<1>3. UNCHANGED vars => ClaimStands /\ UNCHANGED shown
  BY DEF vars, ClaimStands
<1>4. ASSUME NEW r \in Requests, NEW read, Holds(r, read), Reads(r, read)
      PROVE  Held'
  BY <1>3, <1>4, HeldWhileOthersRead DEF Reads
<1>5. \A r \in Requests : Holds(r, Idle)
  BY DEF Holds
<1>6. ASSUME NEW r \in Filings,
             \/ \E edit \in {"upload", "remove", "withdraw"}, l \in Lines : OpenEdit(r, edit, l)
             \/ EvaluateDraft(r)
             \/ LoadForSubmission(r)
      PROVE  Held'
  <2>1. r \in Requests
    BY DEF Requests
  <2>2. CASE \E edit \in {"upload", "remove", "withdraw"}, l \in Lines : OpenEdit(r, edit, l)
    <3>1. PICK edit \in {"upload", "remove", "withdraw"}, l \in Lines :
              Reads(r, [at |-> edit, line |-> l])
      BY <2>2 DEF OpenEdit
    <3> QED
      BY <1>4, <2>1, <3>1, WhatIsReadHolds
  <2>3. CASE EvaluateDraft(r)
    <3>1. Reads(r, [at |-> "evaluated", outcome |-> Outcome])
      BY <2>3 DEF EvaluateDraft
    <3> QED
      BY <1>3, <2>1, <2>3, <3>1, WhatIsReadHolds, HeldWhileOthersRead DEF Reads
  <2>4. CASE LoadForSubmission(r)
    <3>1. Reads(r, [at |-> "loaded", outcome |-> open[r].outcome, row |-> Row])
      BY <2>4 DEF LoadForSubmission
    <3> QED
      BY <1>3, <2>1, <2>4, <3>1, WhatIsReadHolds, HeldWhileOthersRead DEF Reads
  <2> QED
    BY <1>6, <2>2, <2>3, <2>4
<1>7. ASSUME NEW r \in Decidings, NEW u \in Employees(Directory),
             NEW decision \in {"approved", "rejected", "returned"}, OpenDecision(r, u, decision)
      PROVE  Held'
  <2>1. r \in Requests
    BY DEF Requests
  <2>2. PICK s \in steps :
            /\ decision = "returned" => returns < MaxReturns
            /\ MayDecide(u, s)
            /\ MayFollow(status, LeadsTo(decision, TargetStatus(s)))
            /\ Reads(r, [at |-> "deciding", decision |-> decision, step |-> s, row |-> Row,
                         figures |-> shown[u].figures])
    BY <1>7 DEF OpenDecision
  <2> DEFINE read == [at |-> "deciding", decision |-> decision, step |-> s, row |-> Row,
                      figures |-> shown[u].figures]
  <2>3. Holds(r, read)
    BY <2>2, WhatIsReadHolds
  <2>4. Reads(r, read)
    BY <2>2
  <2> HIDE DEF read
  <2> QED
    BY <1>3, <2>1, <2>3, <2>4, HeldWhileOthersRead DEF Reads
<1>8. ASSUME NEW r \in Requests, Ends(r), ClaimStands, UNCHANGED shown
      PROVE  Held'
  BY <1>5, <1>8, HeldWhileOthersRead DEF Ends
<1>9. ASSUME NEW r \in Filings, WriteSubmission(r)
      PROVE  Held'
  <2>1. status = "draft"
    BY <1>9, SubmissionMoves DEF Files, OwnDraft
  <2>2. \A q : ~ HoldsDecision(q)
    <3> SUFFICES ASSUME NEW q, HoldsDecision(q)
                 PROVE  FALSE
      OBVIOUS
    <3>1. PICK u \in Employees(Directory) : q.step \in steps /\ MayDecide(u, q.step)
      BY DEF HoldsDecision
    <3>2. CurrentRoundSteps # {}
      BY <1>2, <3>1, DeciderShape
    <3> QED
      BY <1>2, <2>1, <3>2 DEF ChainInv, OneLiveChain
  <2>3. /\ r \in Requests /\ Ends(r)
        /\ claimant' = claimant /\ returns' = returns /\ status' = "pending_approval"
    BY <1>9 DEF WriteSubmission, Requests
  <2> QED
    BY <2>2, <2>3, HeldWhileOneWrites
<1>10. ASSUME NEW r \in Decidings, WriteDecision(r)
       PROVE  Held'
  <2>1. r \in Requests /\ open[r].at = "deciding" /\ Ends(r)
    BY <1>10 DEF WriteDecision, Requests
  <2>2. \A e \in Requests \ {r} : ~ HoldsDecision(open[e])
    <3> SUFFICES ASSUME NEW e \in Requests, HoldsDecision(open[e])
                 PROVE  e = r
      OBVIOUS
    <3>1. open[e].at = "deciding" /\ Holds(e, open[e])
      BY <1>2 DEF HoldsDecision
    <3>2. e \in Decidings
      BY <3>1 DEF Holds, HoldsEdit, HoldsFigures, HoldsDraft, Idle
    <3> QED
      BY <2>1, <3>1, <3>2 DEF OneDecisionOpen
  <2>3. PICK u \in Employees(Directory) : Approve(u) \/ Reject(u) \/ Return(u)
    BY <1>10, DecisionMoves
  <2>4. PICK s \in steps : MayDecide(u, s)
    BY <2>3 DEF Approve, Reject, Return
  <2>5. /\ claimant' = claimant
        /\ (returns' = returns /\ status' # "draft") \/ returns' = returns + 1
    <3>1. \A t : TargetStatus(t) # "draft"
      BY DEF TargetStatus
    <3> QED
      BY <2>3, <3>1 DEF Approve, Reject, Return, Decided
  <2> QED
    BY <2>1, <2>2, <2>5, HeldWhileOneWrites
<1>11. ASSUME Crash
       PROVE  Held'
  <2>1. open' = [r \in Requests |-> Idle]
    BY <1>11 DEF Crash
  <2> QED
    BY <2>1 DEF Holds
<1>12. ASSUME UNCHANGED open, ClaimStands,
              UNCHANGED shown \/ \E u \in Employees(Directory) : Look(u)
       PROVE  Held'
  <2>1. ASSUME NEW e \in Requests, NEW p, p = open'[e]
        PROVE  Holds(e, p)'
    <3>1. Holds(e, p)
      BY <1>2, <1>12, <2>1
    <3> QED
      BY <1>2, <1>12, <3>1, HeldWhileClaimStands
  <2>2. ASSUME NEW e \in Requests
        PROVE  Holds(e, open[e])'
    <3> SUFFICES ASSUME NEW p, p = open'[e]
                 PROVE  Holds(e, p)'
      OBVIOUS
    <3> QED
      BY <2>1
  <2> QED
    BY <1>2, <1>12, <2>2
<1>13. ASSUME UNCHANGED requestVars
       PROVE  Held'
  <2>1. UNCHANGED vars /\ UNCHANGED open
    BY <1>13 DEF requestVars
  <2> QED
    BY <1>3, <1>12, <2>1
<1>14. Held'
  <2>1. ASSUME NEW r \in Filings, WriteEdit(r)
        PROVE  Held'
    <3>1. r \in Requests /\ Ends(r) /\ ClaimStands /\ UNCHANGED shown
      BY <2>1 DEF WriteEdit, Requests, ClaimStands, claimVars
    <3> QED
      BY <1>8, <3>1
  <2>2. ASSUME NEW r \in Requests, Fail(r)
        PROVE  Held'
    <3>1. Ends(r) /\ UNCHANGED vars
      BY <2>2 DEF Fail
    <3> QED
      BY <1>3, <1>8, <3>1
  <2>3. ASSUME NEW u \in Employees(Directory), Look(u), UNCHANGED open
        PROVE  Held'
    <3>1. ClaimStands
      BY <2>3 DEF Look, claimVars, ClaimStands
    <3> QED
      BY <1>12, <2>3, <3>1
  <2> HIDE DEF Held
  <2> QED
    BY <1>6, <1>7, <1>9, <1>10, <1>11, <1>13, <2>1, <2>2, <2>3 DEF RequestsNext
<1> QED
  BY <1>1, <1>14 DEF RequestsInv

LEMMA RequestsInvInit == RequestsInit => RequestsInv
<1> SUFFICES ASSUME RequestsInit
             PROVE  RequestsInv
  OBVIOUS
<1>1. ChainInv
  BY ChainInit DEF RequestsInit
<1>2. FirstLevels
  BY DEF RequestsInit, Init, FirstLevels, Round
<1>3. open = [r \in Requests |-> open[r]] /\ \A r \in Requests : Holds(r, open[r])
  BY DEF RequestsInit, Holds
<1> QED
  BY <1>1, <1>2, <1>3 DEF RequestsInv

-----------------------------------------------------------------------------
(* What it gives *)

LEMMA RequestsInvAlways == RequestsSpec /\ []OneDecisionOpen => []RequestsInv
BY RequestsInvInit, RequestsInvStep, PTL DEF RequestsSpec

\* However many requests read, wait, fail, die with the process and write late: while no two
\* decisions are in flight the claim moves only as its handlers, run alone, would move it, but
\* that drafts are edited late and submitted at figures evaluated before.
THEOREM RequestsMoveTheClaim == RequestsSpec /\ []OneDecisionOpen => Moving
<1>1. RequestsInit => Init
  BY DEF RequestsInit
<1> QED
  BY <1>1, RequestsInvAlways, RequestsMove, PTL DEF RequestsSpec, Moving

\* The claim's rows keep their types, and each request in flight holds what its handler reads.
THEOREM RequestsTypeCorrect == RequestsSpec /\ []OneDecisionOpen => []RequestsTypeOK
<1>1. ASSUME RequestsInv
      PROVE  RequestsTypeOK
  <2>1. TypeOK /\ \A r \in Requests : Holds(r, open[r])
    BY <1>1 DEF RequestsInv, ChainInv, TypeInv
  <2>2. steps \subseteq Step
    BY <2>1 DEF TypeOK
  <2> QED
    BY <2>1, <2>2
    DEF RequestsTypeOK, Holds, HoldsEdit, HoldsFigures, HoldsDraft, HoldsDecision, Routable
<1> QED
  BY <1>1, RequestsInvAlways, PTL

\* Two tabs that submit one draft write one chain: the second meets the unique constraint, even
\* when the claim was returned in between.
THEOREM RequestsKeepOneChain == RequestsSpec /\ []OneDecisionOpen => []OneLiveChain
<1>1. ChainInv => OneLiveChain
  BY DEF ChainInv
<1> QED
  BY <1>1, RequestsMoveTheClaim, ChainMoving, PTL

\* An approval in flight while the draft is edited and screens are opened is given to the
\* figures that are on record when it lands.
THEOREM RequestsKeepFigures == RequestsSpec /\ []OneDecisionOpen => []ApprovedFiguresStand
<1>1. ChainInv => ApprovedFiguresStand
  BY DEF ChainInv
<1> QED
  BY <1>1, RequestsMoveTheClaim, ChainMoving, PTL

\* The status, which a late write may leave out as unchanged, is the one the steps say.
THEOREM RequestsTellTheChain == RequestsSpec /\ []OneDecisionOpen => []StatusMatchesChain
BY RequestsMoveTheClaim, StatusMoving, PTL

\* No event of the trail is lost or written twice: the version counts them, whoever read it when.
THEOREM RequestsTellTheTrail == RequestsSpec /\ []OneDecisionOpen => []TrailAccountsForClaim
BY RequestsMoveTheClaim, TrailMoving, PTL

\* A late upload, removal or withdrawal moves no figure that a surface renders of a submitted claim.
THEOREM RequestsHoldFigures == RequestsSpec /\ []OneDecisionOpen => FiguresHoldStill
BY RequestsMoveTheClaim, FiguresMoving, PTL

\* The handlers in flight together still implement the promise.
THEOREM RequestsKeepThePromise == RequestsSpec /\ []OneDecisionOpen => KeepsPromise
BY RequestsMoveTheClaim, PromiseMoving, PTL

\* So do the other properties of the workflow survive requests in flight: decisions in order and
\* kept, verified claims earned, levels asked of others, and everyone told.
THEOREM RequestsKeepTheRest ==
    RequestsSpec /\ []OneDecisionOpen =>
        /\ [](DecidedInOrder /\ VerifiedWasEarned /\ BusinessLevelsAreOthers)
        /\ HistoryStands
        /\ EveryoneIsTold
BY RequestsMoveTheClaim, OrderMoving, VerifiedIsSigned, ChainMoving, OthersMoving, HistoryMoving,
   ToldMoving, PTL

\* Requests in flight strand no claim that the workflow alone would not: only one that Finance
\* alone is asked about cannot be approved on.
THEOREM RequestsStrandNoOther ==
    ASSUME FinanceIsNotInTheMatrix
    PROVE  RequestsSpec /\ []OneDecisionOpen => []StuckExactlyWhenUnasked
BY RequestsMoveTheClaim, FinanceMoving, PTL
=============================================================================
