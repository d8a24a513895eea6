---------------------------- MODULE RoutingCases ----------------------------
(***************************************************************************)
(* Routing on every small organisation: who is asked when one claimant's   *)
(* claim, of a value that edits to its evidence move up and down, is       *)
(* routed through a reporting line that nobody has checked.                *)
(***************************************************************************)
EXTENDS Routing, FiniteSets

CONSTANTS
    Codes,      \* the codes in the employee master
    Claimants,  \* those who claim
    Missing,    \* codes that managers are given and the master lacks
    Roles,      \* the roles its people hold
    Matrix,     \* the approval matrix
    Values      \* what claims come to

ASSUME RoutingCasesAssumption ==
    /\ Codes \cup Missing \subseteq Nat \ {NoOne}
    /\ IsFiniteSet(Codes \cup Missing)
    /\ Codes \cap Missing = {}
    /\ Claimants \subseteq Codes
    /\ Cardinality(Codes) <= MaxDepth
    /\ Roles \subseteq Role
    /\ Values \subseteq Nat

\* How the published matrix is laid out: each band begins no lower than the one before it and
\* asks the first so many levels of the full chain, no fewer than the one before it.
ASSUME MatrixAssumption ==
    /\ Matrix \in Seq([min : Nat, max : Nat, roles : Seq(Role)])
    /\ \A i \in DOMAIN Matrix :
          /\ Len(Matrix[i].roles) <= Len(FullChain)
          /\ \A n \in DOMAIN Matrix[i].roles : Matrix[i].roles[n] = FullChain[n]
    /\ \A i, j \in DOMAIN Matrix :
          i < j => /\ Matrix[i].min <= Matrix[j].min
                   /\ Len(Matrix[i].roles) <= Len(Matrix[j].roles)

VARIABLES
    dir,            \* the employee master
    claimant,       \* whose claim it is
    value,          \* what it comes to, after disallowances
    international   \* whether its trip leaves the country

vars == <<dir, claimant, value, international>>

Init ==
    /\ \E manager \in [Codes -> Codes \cup Missing \cup {NoOne}], role \in [Codes -> Roles] :
          dir = [manager |-> manager, role |-> role]
    /\ claimant \in Claimants
    /\ value \in Values
    /\ international \in BOOLEAN

\* A bill added, corrected or withdrawn: the chain is resolved again.
Reprice ==
    /\ value' \in Values \ {value}
    /\ UNCHANGED <<dir, claimant, international>>

Next == Reprice

Spec == Init /\ [][Next]_vars

-----------------------------------------------------------------------------
(* The reporting line as a set *)

Everyone == Codes \cup Missing

\* Everyone above a: who is in every set that a's manager is in, and the manager of each of
\* its members.
Above(a) ==
    {e \in Everyone :
        \A above \in SUBSET Everyone :
            (\A c \in Codes :
                (c = a \/ c \in above) /\ dir.manager[c] # NoOne => dir.manager[c] \in above)
            => e \in above}

\* Routing refuses exactly the lines it cannot follow to their top: those that leave the
\* master, and those that come round again, whether or not to the person they started from.
BrokenLinesAreRefused ==
    LineBroken(dir, claimant) <=> \E e \in Above(claimant) : e \in Missing \/ e \in Above(e)

\* On any line that can be followed, each business level goes to someone above the claimant
\* who holds its role, with nobody of that role between the two; never to the claimant; and
\* it is skipped only when nobody above holds it.
LevelsComeFromAbove ==
    LET above == Above(claimant)
        chain == ResolveChain(dir, Matrix, claimant, value, international)
        Holds(e, role) == e \in Codes /\ dir.role[e] = role /\ e \in above
    IN  CanRoute(dir, Matrix, claimant, value) =>
            \A i \in 1..(Len(chain) - 1) :
                LET a == chain[i].approver
                    role == chain[i].role
                IN  /\ a # claimant
                    /\ IF a = NoOne THEN \A e \in Codes : ~ Holds(e, role)
                       ELSE /\ Holds(a, role)
                            /\ \A e \in Codes : Holds(e, role) => e = a \/ e \in Above(a)

\* The chain asks no level twice, and asks the levels in the order of the matrix: no step
\* has a role that a later step's level comes before.
LevelsAscend ==
    LET chain == ResolveChain(dir, Matrix, claimant, value, international)
        Rank(role) == CHOOSE n \in 1..5 : (FullChain \o <<"Finance">>)[n] = role
    IN  CanRoute(dir, Matrix, claimant, value) =>
            \A i, j \in DOMAIN chain : i < j => Rank(chain[i].role) < Rank(chain[j].role)

\* A claim that comes to more is never asked of fewer levels.
MoreMoneyNeverShedsALevel ==
    [][CanRoute(dir, Matrix, claimant, value) /\ Covered(Matrix, value') /\ value < value' =>
          RolesIn(Required(Matrix, value, international))
              \subseteq RolesIn(Required(Matrix, value', international))]_vars

\* Finance verifies every claim, whatever its value: a claimant whose line can be followed
\* gets a chain at every amount a claim can come to.
EveryValueIsRouted ==
    ~ LineBroken(dir, claimant) => CanRoute(dir, Matrix, claimant, value)
=============================================================================
