------------------------ MODULE RoutingCases_proofs ------------------------
(***************************************************************************)
(* Theorems about routing: for every employee master that an import may    *)
(* leave, however broken its reporting lines, for every amount a claim may *)
(* come to, and for every matrix laid out as the published one is.         *)
(***************************************************************************)
EXTENDS RoutingCases, Routing_proofs, FiniteSetTheorems

\* What a reporting line runs over, the end of it included.
Reached == Everyone \cup {NoOne}

\* A master in which everyone has a manager or nobody, and a claim of one of its claimants.
CasesTypeOK ==
    /\ dir \in [manager : [Codes -> Reached], role : [Codes -> Roles]]
    /\ claimant \in Claimants
    /\ value \in Values
    /\ international \in BOOLEAN

\* Routing starts, and goes on, with such a master and such a claim: whatever an edit of the
\* evidence makes the claim come to.
THEOREM CasesTypeCorrect == Spec => []CasesTypeOK
<1>1. Init => CasesTypeOK
  BY DEF Init, CasesTypeOK, Reached, Everyone
<1>2. CasesTypeOK /\ [Next]_vars => CasesTypeOK'
  BY DEF CasesTypeOK, Next, Reprice, vars
<1> QED
  BY <1>1, <1>2, PTL DEF Spec

-----------------------------------------------------------------------------
(* The matrix *)

\* The matrix asks the beginning of the full chain at every value it covers.
LEMMA MatrixBegins ==
    ASSUME NEW v, Covered(Matrix, v)
    PROVE  BeginsFullChain(RolesForValue(Matrix, v))
<1>1. PICK i \in DOMAIN Matrix : RolesForValue(Matrix, v) = Matrix[i].roles
  BY FirstBand, MatrixAssumption
<1>2. Matrix[i].roles \in Seq(Role)
  <2>1. Matrix[i] \in [min : Nat, max : Nat, roles : Seq(Role)]
    BY MatrixAssumption, ElementOfSeq, LenProperties
  <2> QED
    BY <2>1
<1> QED
  BY <1>1, <1>2, MatrixAssumption DEF BeginsFullChain

\* A greater value is never in an earlier band: no fewer levels are asked of it.
LEMMA MoreAsksNoFewer ==
    ASSUME NEW v \in Nat, NEW w \in Nat, v < w, Covered(Matrix, v), Covered(Matrix, w)
    PROVE  Len(RolesForValue(Matrix, v)) <= Len(RolesForValue(Matrix, w))
<1>1. PICK i \in DOMAIN Matrix :
          /\ Covers(Matrix[i], v)
          /\ \A k \in 1..(i - 1) : ~ Covers(Matrix[k], v)
          /\ RolesForValue(Matrix, v) = Matrix[i].roles
  BY FirstBand, MatrixAssumption
<1>2. PICK j \in DOMAIN Matrix :
          /\ Covers(Matrix[j], w)
          /\ \A k \in 1..(j - 1) : ~ Covers(Matrix[k], w)
          /\ RolesForValue(Matrix, w) = Matrix[j].roles
  BY FirstBand, MatrixAssumption
<1>3. /\ DOMAIN Matrix = 1..Len(Matrix)
      /\ Len(Matrix) \in Nat
      /\ Matrix[i] \in [min : Nat, max : Nat, roles : Seq(Role)]
      /\ Matrix[j] \in [min : Nat, max : Nat, roles : Seq(Role)]
  BY MatrixAssumption, LenProperties, ElementOfSeq
<1>4. i <= j
  <2> SUFFICES ASSUME j < i
               PROVE  FALSE
    BY <1>3
  <2>1. ~ Covers(Matrix[j], v)
    BY <1>1, <1>3
  <2>2. Matrix[j].min <= Matrix[i].min
    BY MatrixAssumption
  <2>3. Matrix[i].min <= v
    BY <1>1 DEF Covers
  <2>4. Matrix[j].max = NoMax \/ w <= Matrix[j].max
    BY <1>2 DEF Covers
  <2>5. /\ Matrix[j].min \in Nat /\ Matrix[i].min \in Nat /\ Matrix[j].max \in Nat
    BY <1>3
  <2> QED
    BY <2>1, <2>2, <2>3, <2>4, <2>5 DEF Covers
<1>5. /\ Len(Matrix[i].roles) \in Nat
      /\ i < j => Len(Matrix[i].roles) <= Len(Matrix[j].roles)
  BY <1>3, MatrixAssumption, LenProperties
<1>6. i = j \/ i < j
  BY <1>3, <1>4
<1> QED
  BY <1>1, <1>2, <1>5, <1>6

\* The levels of a longer beginning of the full chain include those of a shorter one.
LEMMA LongerHasMore ==
    ASSUME NEW r, NEW s, BeginsFullChain(r), BeginsFullChain(s), Len(r) <= Len(s)
    PROVE  RolesIn(r) \subseteq RolesIn(s)
<1>1. /\ DOMAIN r = 1..Len(r) /\ DOMAIN s = 1..Len(s)
      /\ Len(r) \in Nat /\ Len(s) \in Nat
  BY LenProperties DEF BeginsFullChain
<1>2. \A n \in DOMAIN r : n \in DOMAIN s /\ s[n] = r[n]
  BY <1>1 DEF BeginsFullChain
<1> QED
  BY <1>2 DEF RolesIn

\* A claim that comes to more is never asked of fewer levels.
THEOREM MoreMoneyAsksNoFewer == Spec => MoreMoneyNeverShedsALevel
<1> DEFINE Keeps ==
             CanRoute(dir, Matrix, claimant, value) /\ Covered(Matrix, value') /\ value < value'
                 => RolesIn(Required(Matrix, value, international))
                        \subseteq RolesIn(Required(Matrix, value', international))
<1>1. CasesTypeOK /\ CasesTypeOK' /\ [Next]_vars => [Keeps]_vars
  <2> SUFFICES ASSUME CasesTypeOK, CasesTypeOK', Covered(Matrix, value),
                      Covered(Matrix, value'), value < value'
               PROVE  RolesIn(Required(Matrix, value, international))
                          \subseteq RolesIn(Required(Matrix, value', international))
    BY DEF CanRoute
  <2> DEFINE r == Required(Matrix, value, international)
             s == Required(Matrix, value', international)
  <2>1. value \in Nat /\ value' \in Nat /\ international \in BOOLEAN
    BY RoutingCasesAssumption DEF CasesTypeOK
  <2>2. /\ BeginsFullChain(RolesForValue(Matrix, value))
        /\ BeginsFullChain(RolesForValue(Matrix, value'))
    BY MatrixBegins
  <2>3. BeginsFullChain(r) /\ BeginsFullChain(s)
    BY <2>1, <2>2, RequiredIs
  <2>4. Len(r) <= Len(s)
    <3>1. CASE international
      <4>1. Len(r) = 4 /\ Len(s) = 4
        BY <2>1, <2>2, <3>1, RequiredIs
      <4> HIDE DEF r, s
      <4> QED
        BY <4>1
    <3>2. CASE ~ international
      BY <2>1, <2>2, <3>2, RequiredIs, MoreAsksNoFewer
    <3> QED
      BY <3>1, <3>2
  <2> QED
    BY <2>3, <2>4, LongerHasMore
<1>2. Spec => [][Next]_vars
  BY DEF Spec
<1> QED
  BY <1>1, <1>2, CasesTypeCorrect, PTL DEF MoreMoneyNeverShedsALevel

\* The level of each role: the four of the full chain, then Finance.
Level(role) == CHOOSE n \in 1..5 : (FullChain \o <<"Finance">>)[n] = role

\* The business roles come before Finance, in the order of the full chain.
LEMMA LevelsAre ==
    /\ \A n \in 1..4 : Level(FullChain[n]) = n
    /\ Level("Finance") = 5
<1> DEFINE all == FullChain \o <<"Finance">>
<1>1. /\ all[1] = "Reporting Manager"
      /\ all[2] = "Head of Department"
      /\ all[3] = "Head of Division"
      /\ all[4] = "MD"
      /\ all[5] = "Finance"
  BY DEF FullChain
<1>2. \A n \in 1..4 : FullChain[n] = all[n]
  <2>1. \A n \in 1..4 : n = 1 \/ n = 2 \/ n = 3 \/ n = 4
    OBVIOUS
  <2>2. /\ FullChain[1] = "Reporting Manager"
        /\ FullChain[2] = "Head of Department"
        /\ FullChain[3] = "Head of Division"
        /\ FullChain[4] = "MD"
    BY DEF FullChain
  <2> HIDE DEF all
  <2> QED
    BY <1>1, <2>1, <2>2
<1>3. \A m, n \in 1..5 : all[m] = all[n] => m = n
  <2>1. \A n \in 1..5 : n = 1 \/ n = 2 \/ n = 3 \/ n = 4 \/ n = 5
    OBVIOUS
  <2> HIDE DEF all
  <2> QED
    BY <1>1, <2>1
<1>4. \A n \in 1..5 : Level(all[n]) = n
  <2> TAKE n \in 1..5
  <2>1. Level(all[n]) = CHOOSE m \in 1..5 : all[m] = all[n]
    BY DEF Level
  <2> HIDE DEF all
  <2> QED
    BY <1>3, <2>1
<1>5. Level("Finance") = 5
  <2>1. 5 \in 1..5
    OBVIOUS
  <2> HIDE DEF all
  <2>2. Level(all[5]) = 5
    BY <1>4, <2>1
  <2> QED
    BY <1>1, <2>2, Zenon
<1> HIDE DEF all
<1> QED
  BY <1>2, <1>4, <1>5

\* The chain of a claim the matrix covers: its levels, then Finance.
LEMMA ChainIs ==
    ASSUME NEW roles, roles = Required(Matrix, value, international), BeginsFullChain(roles)
    PROVE  /\ Len(roles) \in 0..4
           /\ \A n \in 1..Len(roles) : roles[n] = FullChain[n]
           /\ ResolveChain(dir, Matrix, claimant, value, international) =
                  [i \in 1..(Len(roles) + 1) |->
                      IF i <= Len(roles)
                      THEN [role |-> roles[i], approver |-> Nearest(dir, claimant, roles[i])]
                      ELSE [role |-> "Finance", approver |-> FirstFinance(dir)]]
<1>1. /\ Len(roles) \in Nat /\ Len(roles) <= 4
      /\ DOMAIN roles = 1..Len(roles)
  BY FullChainIs, LenProperties DEF BeginsFullChain
<1>2. Len(roles) \in 0..4
  <2> HIDE DEF BeginsFullChain
  <2> QED BY <1>1
<1> QED
  BY <1>1, <1>2 DEF BeginsFullChain, ResolveChain

\* The chain asks no level twice, and asks the levels in the order of the matrix.
THEOREM ChainsAscend == Spec => []LevelsAscend
<1>1. CasesTypeOK => LevelsAscend
  <2> SUFFICES ASSUME CasesTypeOK, CanRoute(dir, Matrix, claimant, value)
               PROVE  LevelsAscend
    BY DEF LevelsAscend
  <2> DEFINE roles == Required(Matrix, value, international)
             chain == ResolveChain(dir, Matrix, claimant, value, international)
  <2>1. BeginsFullChain(roles)
    BY MatrixBegins, RequiredIs DEF CanRoute, CasesTypeOK
  <2>2. /\ Len(roles) \in 0..4
        /\ \A n \in 1..Len(roles) : roles[n] = FullChain[n]
        /\ chain = [i \in 1..(Len(roles) + 1) |->
                      IF i <= Len(roles)
                      THEN [role |-> roles[i], approver |-> Nearest(dir, claimant, roles[i])]
                      ELSE [role |-> "Finance", approver |-> FirstFinance(dir)]]
    <3> HIDE DEF roles
    <3> QED BY <2>1, ChainIs DEF roles
  <2> HIDE DEF roles, chain
  <2>3. DOMAIN chain = 1..(Len(roles) + 1)
    BY <2>2
  <2>4. \A i \in DOMAIN chain :
            Level(chain[i].role) = IF i <= Len(roles) THEN i ELSE 5
    <3> TAKE i \in DOMAIN chain
    <3>1. CASE i <= Len(roles)
      <4>1. i \in 1..4 /\ chain[i].role = FullChain[i]
        BY <2>2, <2>3, <3>1
      <4> QED
        BY <3>1, <4>1, LevelsAre
    <3>2. CASE ~ i <= Len(roles)
      <4>1. chain[i].role = "Finance"
        BY <2>2, <2>3, <3>2
      <4> QED
        BY <3>2, <4>1, LevelsAre
    <3> QED
      BY <3>1, <3>2
  <2>5. \A i, j \in DOMAIN chain : i < j => Level(chain[i].role) < Level(chain[j].role)
    <3> SUFFICES ASSUME NEW i \in DOMAIN chain, NEW j \in DOMAIN chain, i < j
                 PROVE  Level(chain[i].role) < Level(chain[j].role)
      OBVIOUS
    <3>1. i \in 1..5 /\ j \in 1..5 /\ i <= Len(roles)
      BY <2>2, <2>3
    <3>2. Level(chain[i].role) = i
      BY <2>4, <3>1
    <3>3. Level(chain[j].role) = j \/ Level(chain[j].role) = 5
      BY <2>4
    <3> QED
      BY <3>1, <3>2, <3>3
  <2> QED
    BY <2>5 DEF LevelsAscend, chain, Level
<1> QED
  BY <1>1, CasesTypeCorrect, PTL

-----------------------------------------------------------------------------
(* The reporting line and the set of those above *)

\* The n-th person above x.
Up(x, n) == Climb(dir, Reached, x, n)

\* The way up starts at x and goes from manager to manager, or to no one.
LEMMA UpIs ==
    ASSUME CasesTypeOK, NEW x \in Reached
    PROVE  /\ Up(x, 0) = x
           /\ \A n \in Nat :
                 /\ Up(x, n) \in Reached
                 /\ Up(x, n + 1) = IF Up(x, n) \in Codes THEN dir.manager[Up(x, n)] ELSE NoOne
           /\ \A m, n \in Nat : Up(x, m + n) = Up(Up(x, m), n)
           /\ \A n \in 0..MaxDepth : Line(dir, x)[n] = Up(x, n)
           /\ \A m, n \in Nat : m < n /\ Up(x, n) # NoOne => Up(x, m) \in Codes
<1>1. Employees(dir) = Codes
  BY DEF CasesTypeOK, Employees
<1>2. \A y \in Reached : Superior(dir, y) \in Reached
  BY <1>1 DEF Superior, CasesTypeOK, Reached
<1>3. NoOne \notin Employees(dir)
  BY <1>1, RoutingCasesAssumption
<1>4. /\ Up(x, 0) = x
      /\ \A n \in Nat : Up(x, n) \in Reached /\ Up(x, n + 1) = Superior(dir, Up(x, n))
  BY <1>2, ClimbIs DEF Up
<1>5. \A m, n \in Nat : Up(x, m + n) = Up(Up(x, m), n)
  BY <1>2, ClimbOn DEF Up
<1>6. \A n \in 0..MaxDepth : Line(dir, x)[n] = Up(x, n)
  BY <1>2, LineClimbs DEF Up
<1>7. \A m, n \in Nat : m < n /\ Up(x, n) # NoOne => Up(x, m) \in Codes
  BY <1>1, <1>2, <1>3, ClimbStays DEF Up
<1> QED
  BY <1>1, <1>4, <1>5, <1>6, <1>7 DEF Superior

\* Those above x are those met on the way up.
LEMMA AboveIs ==
    ASSUME CasesTypeOK, NEW x \in Everyone, NEW y \in Everyone
    PROVE  y \in Above(x) <=> \E k \in Nat \ {0} : Up(x, k) = y
<1> DEFINE Closed(above) ==
             \A c \in Codes :
                (c = x \/ c \in above) /\ dir.manager[c] # NoOne => dir.manager[c] \in above
           met == {e \in Everyone : \E k \in Nat \ {0} : Up(x, k) = e}
<1>1. x \in Reached /\ NoOne \notin Everyone
  BY RoutingCasesAssumption DEF Reached, Everyone
<1>2. /\ Up(x, 0) = x
      /\ \A n \in Nat :
            Up(x, n + 1) = IF Up(x, n) \in Codes THEN dir.manager[Up(x, n)] ELSE NoOne
  BY <1>1, UpIs
<1>3. y \in Above(x) <=> \A above \in SUBSET Everyone : Closed(above) => y \in above
  BY DEF Above
<1>4. ASSUME y \in Above(x)
      PROVE  \E k \in Nat \ {0} : Up(x, k) = y
  <2>1. Closed(met)
    <3> SUFFICES ASSUME NEW c \in Codes, c = x \/ c \in met, dir.manager[c] # NoOne
                 PROVE  dir.manager[c] \in met
      OBVIOUS
    <3>1. PICK k \in Nat : Up(x, k) = c
      BY <1>2
    <3>2. Up(x, k + 1) = dir.manager[c] /\ k + 1 \in Nat \ {0}
      BY <1>2, <3>1
    <3>3. dir.manager[c] \in Everyone
      BY DEF CasesTypeOK, Reached
    <3> QED
      BY <3>2, <3>3
  <2>2. met \in SUBSET Everyone
    OBVIOUS
  <2>3. y \in met
    <3> HIDE DEF met, Closed
    <3> QED BY <1>3, <1>4, <2>1, <2>2
  <2> QED
    BY <2>3
<1>5. ASSUME NEW k \in Nat \ {0}, Up(x, k) = y
      PROVE  y \in Above(x)
  <2> SUFFICES ASSUME NEW above \in SUBSET Everyone, Closed(above)
               PROVE  y \in above
    <3> HIDE DEF Closed
    <3> QED BY <1>3
  <2> DEFINE S == {n \in Nat : Up(x, n + 1) \in above \cup {NoOne}}
  <2>1. 0 \in S
    <3>1. Up(x, 0 + 1) = IF x \in Codes THEN dir.manager[x] ELSE NoOne
      BY <1>2
    <3> QED
      BY <3>1
  <2>2. \A n \in Nat : n \in S => n + 1 \in S
    <3> SUFFICES ASSUME NEW n \in Nat, Up(x, n + 1) \in above \cup {NoOne}
                 PROVE  Up(x, (n + 1) + 1) \in above \cup {NoOne}
      OBVIOUS
    <3>1. Up(x, (n + 1) + 1) =
              IF Up(x, n + 1) \in Codes THEN dir.manager[Up(x, n + 1)] ELSE NoOne
      <4>1. n + 1 \in Nat
        OBVIOUS
      <4> QED
        BY <1>2, <4>1
    <3>2. NoOne \notin Codes
      BY RoutingCasesAssumption
    <3> QED
      BY <3>1, <3>2
  <2>3. Nat \subseteq S
    <3> HIDE DEF S
    <3> QED BY <2>1, <2>2, Inductive
  <2>4. k - 1 \in S /\ (k - 1) + 1 = k
    BY <2>3
  <2>5. y \in above \cup {NoOne}
    BY <1>5, <2>4
  <2> QED
    BY <1>1, <2>5
<1> QED
  BY <1>4, <1>5

\* Those above someone above are above.
LEMMA AboveGoesOn ==
    ASSUME CasesTypeOK, NEW x \in Everyone, NEW m \in Nat, NEW n \in Nat, m < n,
           Up(x, m) \in Everyone, Up(x, n) \in Everyone
    PROVE  Up(x, n) \in Above(Up(x, m))
<1>1. x \in Reached
  BY DEF Reached
<1>2. n - m \in Nat \ {0} /\ m + (n - m) = n
  OBVIOUS
<1>3. Up(Up(x, m), n - m) = Up(x, n)
  BY <1>1, <1>2, UpIs
<1> QED
  BY <1>2, <1>3, AboveIs

\* Whoever is above x is met before the way up has passed as many people as there are.
LEMMA MetSoon ==
    ASSUME CasesTypeOK, NEW x \in Everyone, NEW y \in Everyone, y \in Above(x)
    PROVE  \E k \in 1..MaxDepth : Up(x, k) = y
<1>1. /\ x \in Reached
      /\ y # NoOne
      /\ IsFiniteSet(Codes)
      /\ Cardinality(Codes) \in Nat
      /\ Cardinality(Codes) <= MaxDepth
      /\ MaxDepth \in Nat
  BY RoutingCasesAssumption, MaxDepthAssumption, FS_Subset, FS_CardinalityType
     DEF Reached, Everyone
<1> DEFINE S == {k \in Nat \ {0} : Up(x, k) = y}
<1>2. PICK k \in S : \A j \in S : k <= j
  <2>1. S \in SUBSET Nat /\ S # {}
    BY AboveIs
  <2> HIDE DEF S
  <2> QED BY <2>1, Least
<1>3. k \in Nat \ {0} /\ Up(x, k) = y
  BY <1>2
<1> DEFINE f == [i \in 0..(k - 1) |-> Up(x, i)]
<1>4. f \in [0..(k - 1) -> Codes]
  BY <1>1, <1>3, UpIs
<1>5. \A i, j \in 0..(k - 1) : i < j => Up(x, i) # Up(x, j)
  <2> SUFFICES ASSUME NEW i \in 0..(k - 1), NEW j \in 0..(k - 1), i < j, Up(x, i) = Up(x, j)
               PROVE  FALSE
    OBVIOUS
  <2>1. /\ k - j \in Nat \ {0}
        /\ j + (k - j) = k
        /\ i + (k - j) \in Nat \ {0}
        /\ i + (k - j) < k
        /\ i \in Nat /\ j \in Nat
    BY <1>3
  <2>2. Up(x, i + (k - j)) = Up(Up(x, i), k - j)
    BY <1>1, <2>1, UpIs
  <2>3. Up(x, j + (k - j)) = Up(Up(x, j), k - j)
    BY <1>1, <2>1, UpIs
  <2>4. Up(x, i + (k - j)) = y
    BY <1>3, <2>1, <2>2, <2>3
  <2>5. i + (k - j) \in S
    BY <2>1, <2>4
  <2> QED
    BY <1>2, <2>1, <2>5
<1>6. f \in Injection(0..(k - 1), Codes)
  <2>1. \A i, j \in 0..(k - 1) : f[i] = f[j] => i = j
    <3> TAKE i, j \in 0..(k - 1)
    <3>1. i < j \/ j < i \/ i = j
      BY <1>3
    <3> QED
      BY <1>5, <3>1
  <2> HIDE DEF f
  <2> QED
    BY <1>4, <2>1 DEF Injection, IsInjective
<1>7. Cardinality(0..(k - 1)) <= Cardinality(Codes)
  <2> HIDE DEF f
  <2> QED BY <1>1, <1>6, FS_Injection
<1>8. Cardinality(0..(k - 1)) = k
  <2>1. 0 \in Int /\ k - 1 \in Int /\ ~ 0 > k - 1 /\ (k - 1) - 0 + 1 = k
    BY <1>3
  <2> QED
    BY <2>1, FS_Interval
<1> QED
  BY <1>1, <1>3, <1>7, <1>8

\* A way up that never leaves the master comes round before the cap.
LEMMA ComesRound ==
    ASSUME CasesTypeOK, NEW x \in Everyone, \A n \in 0..MaxDepth : Up(x, n) \in Codes
    PROVE  \E n \in 1..MaxDepth : \E m \in 0..(n - 1) : Up(x, m) = Up(x, n)
<1>1. /\ IsFiniteSet(Codes)
      /\ Cardinality(Codes) \in Nat
      /\ Cardinality(Codes) <= MaxDepth
      /\ MaxDepth \in Nat
  BY RoutingCasesAssumption, MaxDepthAssumption, FS_Subset, FS_CardinalityType DEF Everyone
<1> DEFINE f == [n \in 0..MaxDepth |-> Up(x, n)]
<1>2. f \in [0..MaxDepth -> Codes]
  OBVIOUS
<1>3. IsFiniteSet(0..MaxDepth) /\ Cardinality(Codes) < Cardinality(0..MaxDepth)
  <2>1. 0 \in Int /\ MaxDepth \in Int /\ ~ 0 > MaxDepth /\ MaxDepth - 0 + 1 = MaxDepth + 1
    BY <1>1
  <2>2. IsFiniteSet(0..MaxDepth) /\ Cardinality(0..MaxDepth) = MaxDepth + 1
    BY <2>1, FS_Interval
  <2> QED
    BY <1>1, <2>2
<1>4. PICK i, j \in 0..MaxDepth : i # j /\ f[i] = f[j]
  <2> HIDE DEF f
  <2> QED BY <1>1, <1>2, <1>3, FS_PigeonHole
<1>5. Up(x, i) = Up(x, j)
  BY <1>4
<1>6. CASE i < j
  <2>1. j \in 1..MaxDepth /\ i \in 0..(j - 1)
    BY <1>1, <1>6
  <2> QED
    BY <1>5, <2>1
<1>7. CASE j < i
  <2>1. i \in 1..MaxDepth /\ j \in 0..(i - 1)
    BY <1>1, <1>7
  <2> QED
    BY <1>5, <2>1
<1> QED
  BY <1>1, <1>4, <1>6, <1>7

\* What routing refuses, in terms of the way up.
LEMMA BrokenIs ==
    ASSUME CasesTypeOK, NEW x \in Codes
    PROVE  LineBroken(dir, x) <=>
              \E n \in 1..MaxDepth :
                 /\ Up(x, n) # NoOne
                 /\ Up(x, n) \notin Codes \/ \E m \in 0..(n - 1) : Up(x, m) = Up(x, n)
<1> DEFINE up == Line(dir, x)
<1>1. x \in Reached /\ Employees(dir) = Codes /\ MaxDepth \in Nat
  BY MaxDepthAssumption DEF Reached, Everyone, CasesTypeOK, Employees
<1>2. Up(x, 0) = x /\ \A n \in 0..MaxDepth : up[n] = Up(x, n)
  BY <1>1, UpIs
<1>3. LineBroken(dir, x) <=>
          \E n \in 1..MaxDepth :
             /\ up[n] # NoOne
             /\ \/ up[n] \notin Employees(dir)
                \/ up[n] = x
                \/ \E m \in 1..(n - 1) : up[m] = up[n]
  BY DEF LineBroken
<1> HIDE DEF up
<1>4. ASSUME NEW n \in 1..MaxDepth
      PROVE  /\ up[n] = Up(x, n)
             /\ (up[n] = x \/ \E m \in 1..(n - 1) : up[m] = up[n])
                    <=> \E m \in 0..(n - 1) : Up(x, m) = Up(x, n)
  <2>1. n \in 0..MaxDepth /\ 0 \in 0..(n - 1)
    BY <1>1
  <2>2. \A m \in 1..(n - 1) : m \in 0..(n - 1)
    BY <1>1
  <2>3. \A m \in 0..(n - 1) : (m = 0 \/ m \in 1..(n - 1)) /\ m \in 0..MaxDepth
    BY <1>1
  <2>4. \A m \in 0..(n - 1) : up[m] = Up(x, m)
    BY <1>2, <2>3
  <2>5. up[n] = Up(x, n)
    BY <1>2, <2>1
  <2> QED
    BY <1>2, <2>1, <2>2, <2>3, <2>4, <2>5
<1> QED
  BY <1>1, <1>3, <1>4

\* A line that leaves the master or comes round is met doing so within the cap, and what is
\* met leaving the master or coming round is above the claimant.
LEMMA BrokenAbove ==
    ASSUME CasesTypeOK, NEW x \in Codes
    PROVE  LineBroken(dir, x) <=> \E e \in Above(x) : e \in Missing \/ e \in Above(e)
<1>1. /\ x \in Reached /\ x \in Everyone
      /\ NoOne \notin Everyone
      /\ MaxDepth \in Nat
  BY RoutingCasesAssumption, MaxDepthAssumption DEF Reached, Everyone
<1>2. /\ Up(x, 0) = x
      /\ \A n \in Nat :
            /\ Up(x, n) \in Reached
            /\ Up(x, n + 1) = IF Up(x, n) \in Codes THEN dir.manager[Up(x, n)] ELSE NoOne
  BY <1>1, UpIs
<1>3. ASSUME LineBroken(dir, x)
      PROVE  \E e \in Above(x) : e \in Missing \/ e \in Above(e)
  <2>1. PICK n \in 1..MaxDepth :
            /\ Up(x, n) # NoOne
            /\ Up(x, n) \notin Codes \/ \E m \in 0..(n - 1) : Up(x, m) = Up(x, n)
    BY <1>3, BrokenIs
  <2>2. n \in Nat \ {0} /\ Up(x, n) \in Everyone
    BY <1>1, <1>2, <2>1 DEF Reached
  <2>3. Up(x, n) \in Above(x)
    BY <1>1, <2>2, AboveIs
  <2>4. CASE Up(x, n) \notin Codes
    BY <2>2, <2>3, <2>4 DEF Everyone
  <2>5. CASE \E m \in 0..(n - 1) : Up(x, m) = Up(x, n)
    <3>1. PICK m \in 0..(n - 1) : Up(x, m) = Up(x, n)
      BY <2>5
    <3>2. m \in Nat /\ n \in Nat /\ m < n
      BY <2>2
    <3>3. Up(x, n) \in Above(Up(x, m))
      BY <1>1, <2>2, <3>1, <3>2, AboveGoesOn
    <3> QED
      BY <2>3, <3>1, <3>3
  <2> QED
    BY <2>1, <2>4, <2>5
<1>4. ASSUME NEW e \in Above(x), e \in Missing
      PROVE  LineBroken(dir, x)
  <2>1. e \in Everyone
    BY DEF Above
  <2>2. PICK n \in 1..MaxDepth : Up(x, n) = e
    BY <1>1, <2>1, MetSoon
  <2>3. e \notin Codes /\ e # NoOne
    BY <1>1, <1>4, <2>1, RoutingCasesAssumption
  <2> QED
    BY <2>2, <2>3, BrokenIs
<1>5. ASSUME NEW e \in Above(x), e \in Above(e)
      PROVE  LineBroken(dir, x)
  <2> DEFINE P == {c \in Codes : e \in Above(c)}
             S == {n \in Nat : Up(x, n) \in P}
  <2>1. e \in Everyone
    BY DEF Above
  <2>2. e \in Codes
    <3>1. e \in Reached
      BY <2>1 DEF Reached
    <3>2. PICK k \in Nat \ {0} : Up(e, k) = e
      BY <1>5, <2>1, AboveIs
    <3>3. Up(e, k) # NoOne /\ 0 < k /\ 0 \in Nat /\ k \in Nat
      BY <1>1, <2>1, <3>2
    <3>4. Up(e, 0) \in Codes /\ Up(e, 0) = e
      BY <3>1, <3>3, UpIs
    <3> QED
      BY <3>4
  <2>3. 0 \in S
    BY <1>2
  <2>4. \A n \in Nat : n \in S => n + 1 \in S
    <3> SUFFICES ASSUME NEW n \in Nat, Up(x, n) \in Codes, e \in Above(Up(x, n))
                 PROVE  Up(x, n + 1) \in P
      OBVIOUS
    <3> DEFINE c == Up(x, n)
    <3>1. c \in Everyone /\ c \in Reached
      BY DEF Everyone, Reached
    <3>2. PICK k \in Nat \ {0} : Up(c, k) = e
      BY <2>1, <3>1, AboveIs
    <3>3. Up(c, 1) = Up(x, n + 1)
      BY <1>1, UpIs
    <3>4. CASE k = 1
      BY <1>5, <2>2, <3>2, <3>3, <3>4
    <3>5. CASE k # 1
      <4>1. 1 \in Nat /\ k \in Nat /\ 1 < k
        BY <3>5
      <4>2. Up(c, 1) \in Codes
        BY <1>1, <2>1, <3>1, <3>2, <4>1, UpIs
      <4>3. Up(c, k) \in Above(Up(c, 1))
        BY <2>1, <3>1, <3>2, <4>1, <4>2, AboveGoesOn DEF Everyone
      <4> QED
        BY <3>2, <3>3, <4>2, <4>3
    <3> QED
      BY <3>4, <3>5
  <2>5. Nat \subseteq S
    <3> HIDE DEF S
    <3> QED BY <2>3, <2>4, Inductive
  <2>6. \A n \in 0..MaxDepth : Up(x, n) \in Codes
    BY <1>1, <2>5
  <2>7. PICK n \in 1..MaxDepth : \E m \in 0..(n - 1) : Up(x, m) = Up(x, n)
    BY <1>1, <2>6, ComesRound
  <2>8. n \in 0..MaxDepth
    BY <1>1
  <2>9. Up(x, n) # NoOne
    BY <2>6, <2>8, RoutingCasesAssumption
  <2> QED
    BY <2>7, <2>9, BrokenIs
<1> QED
  BY <1>3, <1>4, <1>5

\* Routing refuses exactly the lines it cannot follow to their top.
THEOREM BrokenLinesRefused == Spec => []BrokenLinesAreRefused
<1>1. CasesTypeOK => BrokenLinesAreRefused
  BY BrokenAbove, RoutingCasesAssumption DEF BrokenLinesAreRefused, CasesTypeOK
<1> QED
  BY <1>1, CasesTypeCorrect, PTL

\* The nearest holder of a role on a line that can be followed.
LEMMA NearestAbove ==
    ASSUME CasesTypeOK, NEW x \in Codes, ~ LineBroken(dir, x), NEW role, NEW a,
           a = Nearest(dir, x, role)
    PROVE  /\ a # x
           /\ a = NoOne => \A e \in Codes : ~ (dir.role[e] = role /\ e \in Above(x))
           /\ a # NoOne =>
                 /\ a \in Codes /\ dir.role[a] = role /\ a \in Above(x)
                 /\ \A e \in Codes :
                       dir.role[e] = role /\ e \in Above(x) => e = a \/ e \in Above(a)
<1> DEFINE Fill(n) == Up(x, n) \in Codes /\ dir.role[Up(x, n)] = role
<1>1. /\ x \in Reached /\ x \in Everyone
      /\ NoOne \notin Codes
      /\ Employees(dir) = Codes
      /\ MaxDepth \in Nat
  BY RoutingCasesAssumption, MaxDepthAssumption
     DEF Reached, Everyone, CasesTypeOK, Employees
<1>2. \A n \in 1..MaxDepth : Line(dir, x)[n] = Up(x, n) /\ (Fills(dir, x, role, n) <=> Fill(n))
  <2>1. \A n \in 1..MaxDepth : n \in 0..MaxDepth
    BY <1>1
  <2>2. \A n \in 1..MaxDepth : Line(dir, x)[n] = Up(x, n)
    BY <1>1, <2>1, UpIs
  <2> QED
    BY <1>1, <2>2 DEF Fills
<1>3. \A n \in 1..MaxDepth : Up(x, n) # x
  <2> TAKE n \in 1..MaxDepth
  <2>1. 0 \in 0..(n - 1) /\ Up(x, 0) = x /\ x # NoOne
    BY <1>1, UpIs
  <2> QED
    BY <2>1, BrokenIs
<1>4. ASSUME NEW e \in Codes, dir.role[e] = role, e \in Above(x)
      PROVE  \E n \in 1..MaxDepth : Fill(n) /\ Up(x, n) = e
  <2>1. e \in Everyone
    BY DEF Everyone
  <2>2. PICK n \in 1..MaxDepth : Up(x, n) = e
    BY <1>1, <1>4, <2>1, MetSoon
  <2> QED
    BY <1>4, <2>2
<1>5. CASE ~ \E n \in 1..MaxDepth : Fill(n)
  <2>1. ~ \E n \in 1..MaxDepth : Fills(dir, x, role, n)
    BY <1>2, <1>5
  <2>2. a = NoOne
    BY <2>1, NearestIs
  <2> HIDE DEF Fill
  <2> QED
    BY <1>1, <1>4, <1>5, <2>2
<1>6. CASE \E n \in 1..MaxDepth : Fill(n)
  <2>1. \E n \in 1..MaxDepth : Fills(dir, x, role, n)
    BY <1>2, <1>6
  <2>2. PICK n \in 1..MaxDepth :
            /\ Fills(dir, x, role, n)
            /\ \A m \in 1..(n - 1) : ~ Fills(dir, x, role, m)
            /\ Nearest(dir, x, role) = Line(dir, x)[n]
    BY <2>1, NearestIs
  <2>3. Fill(n) /\ a = Up(x, n)
    BY <1>2, <2>2
  <2>4. \A m \in 1..(n - 1) : ~ Fill(m)
    <3>1. \A m \in 1..(n - 1) : m \in 1..MaxDepth
      BY <1>1
    <3> QED
      BY <1>2, <2>2, <3>1
  <2>5. a \in Codes /\ dir.role[a] = role /\ a # NoOne /\ a \in Everyone
    BY <1>1, <2>3 DEF Everyone
  <2>6. n \in Nat \ {0} /\ n \in Nat
    BY <1>1
  <2>7. a \in Above(x)
    BY <1>1, <2>3, <2>5, <2>6, AboveIs
  <2>8. a # x
    BY <1>3, <2>3
  <2>9. ASSUME NEW e \in Codes, dir.role[e] = role, e \in Above(x)
        PROVE  e = a \/ e \in Above(a)
    <3>1. PICK k \in 1..MaxDepth : Fill(k) /\ Up(x, k) = e
      BY <1>4, <2>9
    <3>2. ~ k \in 1..(n - 1)
      <4> HIDE DEF Fill
      <4> QED BY <2>4, <3>1
    <3>3. k = n \/ (n < k /\ k \in Nat)
      BY <1>1, <3>2
    <3>4. e \in Everyone
      BY DEF Everyone
    <3> QED
      BY <1>1, <2>3, <2>5, <2>6, <3>1, <3>3, <3>4, AboveGoesOn
  <2> QED
    BY <2>5, <2>7, <2>8, <2>9
<1> QED
  BY <1>5, <1>6

\* Each business level goes to the nearest holder of its role above the claimant, and is
\* skipped only without one.
THEOREM LevelsFromAbove == Spec => []LevelsComeFromAbove
<1>1. CasesTypeOK => LevelsComeFromAbove
  <2> SUFFICES ASSUME CasesTypeOK, CanRoute(dir, Matrix, claimant, value)
               PROVE  LevelsComeFromAbove
    BY DEF LevelsComeFromAbove
  <2> DEFINE roles == Required(Matrix, value, international)
             chain == ResolveChain(dir, Matrix, claimant, value, international)
             Holds(e, role) == e \in Codes /\ dir.role[e] = role /\ e \in Above(claimant)
  <2>1. BeginsFullChain(roles)
    BY MatrixBegins, RequiredIs DEF CanRoute, CasesTypeOK
  <2>2. /\ Len(roles) \in 0..4
        /\ chain = [i \in 1..(Len(roles) + 1) |->
                      IF i <= Len(roles)
                      THEN [role |-> roles[i], approver |-> Nearest(dir, claimant, roles[i])]
                      ELSE [role |-> "Finance", approver |-> FirstFinance(dir)]]
    <3> HIDE DEF roles
    <3> QED BY <2>1, ChainIs DEF roles
  <2>3. claimant \in Codes /\ ~ LineBroken(dir, claimant)
    BY RoutingCasesAssumption DEF CasesTypeOK, CanRoute
  <2> HIDE DEF roles, chain
  <2>4. Len(chain) = Len(roles) + 1
    BY <2>2
  <2>5. ASSUME NEW i \in 1..(Len(chain) - 1)
        PROVE  LET a == chain[i].approver
                   role == chain[i].role
               IN  /\ a # claimant
                   /\ IF a = NoOne THEN \A e \in Codes : ~ Holds(e, role)
                      ELSE /\ Holds(a, role)
                           /\ \A e \in Codes : Holds(e, role) => e = a \/ e \in Above(a)
    <3>1. chain[i] = [role |-> roles[i], approver |-> Nearest(dir, claimant, roles[i])]
      BY <2>2, <2>4
    <3>2. chain[i].approver = Nearest(dir, claimant, chain[i].role)
      BY <3>1
    <3> QED
      BY <2>3, <3>2, NearestAbove
  <2> QED
    BY <2>5 DEF LevelsComeFromAbove, chain
<1> QED
  BY <1>1, CasesTypeCorrect, PTL
=============================================================================
