------------------------- MODULE SettlementPromise -------------------------
(***************************************************************************)
(* What a settlement claim promises the people around it, with no tables,  *)
(* versions, rounds or screens.                                            *)
(*                                                                         *)
(* The claimant files figures, and filing them decides which levels are    *)
(* asked.  The levels agree one at a time, in order, to exactly those      *)
(* figures; the last agreement settles the claim.  Anyone whose turn it is *)
(* may send the claim back instead, after which no agreement given so far  *)
(* counts, or refuse it for good.                                          *)
(***************************************************************************)
EXTENDS Naturals

CONSTANTS
    Figures,    \* what a claim can say
    Levels      \* the levels that can be asked, in order: a set of naturals

VARIABLES
    phase,      \* with the claimant, with the levels, or settled one way or the other
    figures,    \* what was filed last
    asked,      \* the levels asked about it
    agreed      \* those that have agreed to it

vars == <<phase, figures, asked, agreed>>

Init ==
    /\ phase = "claimant"
    /\ figures \in Figures
    /\ asked = {}
    /\ agreed = {}

File ==
    /\ phase = "claimant"
    /\ phase' = "levels"
    /\ figures' \in Figures
    /\ asked' \in (SUBSET Levels) \ {{}}
    /\ agreed' = {}

\* It is the turn of the first level asked that has not agreed.
Turn(level) ==
    /\ phase = "levels"
    /\ level \in asked \ agreed
    /\ \A other \in asked \ agreed : level <= other

Agree(level) ==
    /\ Turn(level)
    /\ agreed' = agreed \cup {level}
    /\ phase' = IF agreed' = asked THEN "settled" ELSE "levels"
    /\ UNCHANGED <<figures, asked>>

SendBack(level) ==
    /\ Turn(level)
    /\ phase' = "claimant"
    /\ asked' = {}
    /\ agreed' = {}
    /\ UNCHANGED figures

Refuse(level) ==
    /\ Turn(level)
    /\ phase' = "refused"
    /\ UNCHANGED <<figures, asked, agreed>>

Next ==
    \/ File
    \/ \E level \in Levels : Agree(level) \/ SendBack(level) \/ Refuse(level)

Spec == Init /\ [][Next]_vars
=============================================================================
