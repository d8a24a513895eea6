--------------------------- MODULE Routing_proofs ---------------------------
(***************************************************************************)
(* Lemmas about routing, for every directory and every approval matrix:    *)
(* that its recursive functions are what they are written to be, and what  *)
(* its choices of the nearest, the lowest and the first one choose.        *)
(***************************************************************************)
EXTENDS Routing, Induction_proofs, SequenceTheorems

-----------------------------------------------------------------------------
(* The reporting line *)

\* Who comes next above a code of the employee master; past the top, and above a code that
\* nobody has, there is no one.
Superior(dir, x) == IF x \in Employees(dir) THEN dir.manager[x] ELSE NoOne

\* The line is what it is written to be.
LEMMA LineIs ==
    ASSUME NEW dir, NEW e
    PROVE  /\ Line(dir, e)[0] = e
           /\ \A n \in 1..MaxDepth : Line(dir, e)[n] = Superior(dir, Line(dir, e)[n - 1])
<1> DEFINE X == {e, NoOne} \cup {dir.manager[c] : c \in Employees(dir)}
           G == [n \in 1..MaxDepth |-> [x \in X |-> Superior(dir, x)]]
           up == Line(dir, e)
           Is(f) == f = [n \in 0..MaxDepth |->
                           IF n = 0 THEN e
                           ELSE IF f[n - 1] \in Employees(dir) THEN dir.manager[f[n - 1]]
                           ELSE NoOne]
<1>1. \A x \in X : Superior(dir, x) \in X
  BY DEF Superior
<1>2. G \in [1..MaxDepth -> [X -> X]] /\ e \in X /\ MaxDepth \in Nat
  BY <1>1, MaxDepthAssumption
<1>3. PICK f : Steps(f, MaxDepth, X, e, G)
  <2> HIDE DEF X, G
  <2> QED BY <1>2, StepByStep
<1>4. \A n \in 1..MaxDepth : f[n - 1] \in X /\ G[n][f[n - 1]] = Superior(dir, f[n - 1])
  <2> TAKE n \in 1..MaxDepth
  <2>1. n - 1 \in 0..MaxDepth
    BY <1>2
  <2>2. f[n - 1] \in X
    <3> HIDE DEF X, G
    <3> QED BY <1>3, <2>1 DEF Steps
  <2> QED
    BY <2>2
<1>5. Is(f)
  <2> HIDE DEF X, G
  <2>1. \A n \in 0..MaxDepth :
            f[n] = IF n = 0 THEN e
                   ELSE IF f[n - 1] \in Employees(dir) THEN dir.manager[f[n - 1]]
                   ELSE NoOne
    <3> TAKE n \in 0..MaxDepth
    <3>1. CASE n = 0
      BY <1>3, <3>1 DEF Steps
    <3>2. CASE n \in 1..MaxDepth
      <4>1. f[n] = Superior(dir, f[n - 1])
        BY <1>2, <1>3, <1>4, <3>2 DEF Steps
      <4> QED
        BY <1>2, <3>2, <4>1 DEF Superior
    <3> QED
      BY <1>2, <3>1, <3>2
  <2> QED
    BY <1>3, <2>1 DEF Steps
<1>6. up = CHOOSE g : Is(g)
  BY DEF Line
<1>7. Is(up)
  <2> HIDE DEF Is, up
  <2> QED BY <1>5, <1>6
<1> QED
  <2>1. 0 \in 0..MaxDepth /\ \A n \in 1..MaxDepth : n \in 0..MaxDepth /\ n # 0
    BY <1>2
  <2> HIDE DEF up
  <2> QED
    BY <1>7, <2>1 DEF Superior, up

\* The n-th person above x, however far: the line without its cap. X is a set that the way up
\* stays in.
Climb(dir, X, x, n) ==
    (CHOOSE f : Steps(f, n, X, x, [i \in 1..n |-> [y \in X |-> Superior(dir, y)]]))[n]

\* It begins at x and goes from each person to the one above.
LEMMA ClimbIs ==
    ASSUME NEW dir, NEW X, \A y \in X : Superior(dir, y) \in X, NEW x \in X
    PROVE  /\ Climb(dir, X, x, 0) = x
           /\ \A n \in Nat :
                 /\ Climb(dir, X, x, n) \in X
                 /\ Climb(dir, X, x, n + 1) = Superior(dir, Climb(dir, X, x, n))
<1> DEFINE G(n) == [i \in 1..n |-> [y \in X |-> Superior(dir, y)]]
           f(n) == CHOOSE g : Steps(g, n, X, x, G(n))
           Is(g, n) == /\ g \in [0..n -> X]
                       /\ g[0] = x
                       /\ \A i \in 1..n : g[i] = Superior(dir, g[i - 1])
<1>1. \A n \in Nat : Is(f(n), n)
  <2> TAKE n \in Nat
  <2>1. G(n) \in [1..n -> [X -> X]]
    OBVIOUS
  <2>2. \E g : Steps(g, n, X, x, G(n))
    <3> HIDE DEF G
    <3> QED BY <2>1, StepByStep
  <2>3. Steps(f(n), n, X, x, G(n))
    <3> HIDE DEF G
    <3> QED BY <2>2
  <2> HIDE DEF f
  <2>4. \A i \in 1..n : i - 1 \in 0..n /\ f(n)[i - 1] \in X
    BY <2>3 DEF Steps
  <2> QED
    BY <2>3, <2>4 DEF Steps
<1>2. \A n \in Nat : Climb(dir, X, x, n) = f(n)[n]
  BY DEF Climb
<1> HIDE DEF f
<1>3. \A n \in Nat, i \in Nat : i <= n => f(n)[i] = f(n + 1)[i]
  <2> TAKE n \in Nat
  <2> DEFINE S == {i \in Nat : i <= n => f(n)[i] = f(n + 1)[i]}
  <2>1. Is(f(n), n) /\ Is(f(n + 1), n + 1)
    BY <1>1
  <2>2. 0 \in S
    BY <2>1
  <2>3. \A i \in Nat : i \in S => i + 1 \in S
    <3> SUFFICES ASSUME NEW i \in Nat, i \in S, i + 1 <= n
                 PROVE  f(n)[i + 1] = f(n + 1)[i + 1]
      OBVIOUS
    <3>1. f(n)[i] = f(n + 1)[i]
      OBVIOUS
    <3>2. i + 1 \in 1..n /\ i + 1 \in 1..(n + 1) /\ (i + 1) - 1 = i
      OBVIOUS
    <3> QED
      BY <2>1, <3>1, <3>2
  <2>4. Nat \subseteq S
    <3> HIDE DEF S
    <3> QED BY <2>2, <2>3, Inductive
  <2> QED
    BY <2>4
<1>4. \A n \in Nat : f(n)[n] \in X /\ f(n + 1)[n + 1] = Superior(dir, f(n)[n])
  <2> TAKE n \in Nat
  <2>1. Is(f(n), n) /\ Is(f(n + 1), n + 1)
    BY <1>1
  <2>2. n + 1 \in 1..(n + 1) /\ (n + 1) - 1 = n
    OBVIOUS
  <2>3. f(n + 1)[n] = f(n)[n]
    BY <1>3
  <2> QED
    BY <2>1, <2>2, <2>3
<1>5. f(0)[0] = x
  BY <1>1
<1> QED
  BY <1>2, <1>4, <1>5

\* Climbing on from the m-th person.
LEMMA ClimbOn ==
    ASSUME NEW dir, NEW X, \A y \in X : Superior(dir, y) \in X, NEW x \in X, NEW m \in Nat
    PROVE  \A n \in Nat : Climb(dir, X, x, m + n) = Climb(dir, X, Climb(dir, X, x, m), n)
<1> DEFINE up(y, n) == Climb(dir, X, y, n)
           S == {n \in Nat : up(x, m + n) = up(up(x, m), n)}
<1>1. \A y \in X :
          /\ up(y, 0) = y
          /\ \A n \in Nat : up(y, n) \in X /\ up(y, n + 1) = Superior(dir, up(y, n))
  BY ClimbIs
<1> HIDE DEF up
<1>2. 0 \in S
  BY <1>1
<1>3. \A n \in Nat : n \in S => n + 1 \in S
  <2> SUFFICES ASSUME NEW n \in Nat, up(x, m + n) = up(up(x, m), n)
               PROVE  up(x, m + (n + 1)) = up(up(x, m), n + 1)
    OBVIOUS
  <2>1. m + n \in Nat /\ m + (n + 1) = (m + n) + 1
    OBVIOUS
  <2>2. up(x, m) \in X
    BY <1>1
  <2>3. up(x, (m + n) + 1) = Superior(dir, up(x, m + n))
    BY <1>1, <2>1
  <2>4. up(up(x, m), n + 1) = Superior(dir, up(up(x, m), n))
    BY <1>1, <2>2
  <2> QED
    BY <2>1, <2>3, <2>4
<1>4. Nat \subseteq S
  <2> HIDE DEF S
  <2> QED BY <1>2, <1>3, Inductive
<1> QED
  BY <1>4 DEF up

\* As far as the cap lets it go, the line is the way up.
LEMMA LineClimbs ==
    ASSUME NEW dir, NEW X, \A y \in X : Superior(dir, y) \in X, NEW x \in X
    PROVE  \A n \in 0..MaxDepth : Line(dir, x)[n] = Climb(dir, X, x, n)
<1> DEFINE up(n) == Climb(dir, X, x, n)
           S == {n \in Nat : n <= MaxDepth => Line(dir, x)[n] = up(n)}
<1>1. up(0) = x /\ \A n \in Nat : up(n + 1) = Superior(dir, up(n))
  BY ClimbIs
<1> HIDE DEF up
<1>2. 0 \in S
  BY <1>1, LineIs
<1>3. \A n \in Nat : n \in S => n + 1 \in S
  <2> SUFFICES ASSUME NEW n \in Nat, n \in S, n + 1 <= MaxDepth
               PROVE  Line(dir, x)[n + 1] = up(n + 1)
    OBVIOUS
  <2>1. Line(dir, x)[n] = up(n)
    BY MaxDepthAssumption
  <2>2. n + 1 \in 1..MaxDepth /\ (n + 1) - 1 = n
    BY MaxDepthAssumption
  <2>3. Line(dir, x)[n + 1] = Superior(dir, Line(dir, x)[n])
    BY <2>2, LineIs
  <2> QED
    BY <1>1, <2>1, <2>3
<1>4. Nat \subseteq S
  <2> HIDE DEF S
  <2> QED BY <1>2, <1>3, Inductive
<1> QED
  BY <1>4, MaxDepthAssumption DEF up

\* Below someone who is met on the way up, everyone met is in the employee master.
LEMMA ClimbStays ==
    ASSUME NEW dir, NEW X, \A y \in X : Superior(dir, y) \in X, NEW x \in X,
           NoOne \notin Employees(dir), NEW n \in Nat, Climb(dir, X, x, n) # NoOne,
           NEW m \in Nat, m < n
    PROVE  Climb(dir, X, x, m) \in Employees(dir)
<1> DEFINE up(i) == Climb(dir, X, x, i)
           S == {i \in Nat : up((m + 1) + i) = NoOne}
<1>1. \A i \in Nat : up(i + 1) = Superior(dir, up(i))
  BY ClimbIs
<1> HIDE DEF up
<1> SUFFICES ASSUME up(m) \notin Employees(dir)
             PROVE  up(n) = NoOne
  BY DEF up
<1>2. 0 \in S
  BY <1>1 DEF Superior
<1>3. \A i \in Nat : i \in S => i + 1 \in S
  <2> SUFFICES ASSUME NEW i \in Nat, up((m + 1) + i) = NoOne
               PROVE  up((m + 1) + (i + 1)) = NoOne
    OBVIOUS
  <2>1. (m + 1) + i \in Nat /\ (m + 1) + (i + 1) = ((m + 1) + i) + 1
    OBVIOUS
  <2> QED
    BY <1>1, <2>1 DEF Superior
<1>4. Nat \subseteq S
  <2> HIDE DEF S
  <2> QED BY <1>2, <1>3, Inductive
<1>5. n - (m + 1) \in Nat /\ (m + 1) + (n - (m + 1)) = n
  OBVIOUS
<1> QED
  BY <1>4, <1>5

\* Who fills a role on the line, n levels up.
Fills(dir, e, role, n) ==
    Line(dir, e)[n] \in Employees(dir) /\ dir.role[Line(dir, e)[n]] = role

\* The nearest holder of a role stands on the line with nobody of that role below; without
\* one, nobody on the line holds it.
LEMMA NearestIs ==
    ASSUME NEW dir, NEW e, NEW role
    PROVE  IF \E n \in 1..MaxDepth : Fills(dir, e, role, n)
           THEN \E n \in 1..MaxDepth :
                   /\ Fills(dir, e, role, n)
                   /\ \A m \in 1..(n - 1) : ~ Fills(dir, e, role, m)
                   /\ Nearest(dir, e, role) = Line(dir, e)[n]
           ELSE Nearest(dir, e, role) = NoOne
<1> DEFINE up == Line(dir, e)
           F(n) == Fills(dir, e, role, n)
           S == {n \in 1..MaxDepth : F(n)}
           First(n) == n \in 1..MaxDepth /\ F(n) /\ \A m \in 1..(n - 1) : ~ F(m)
<1>1. Nearest(dir, e, role) =
          IF \E n \in 1..MaxDepth : F(n)
          THEN up[CHOOSE n \in 1..MaxDepth : F(n) /\ \A m \in 1..(n - 1) : ~ F(m)]
          ELSE NoOne
  BY DEF Nearest, Fills
<1>2. CASE ~ \E n \in 1..MaxDepth : F(n)
  BY <1>1, <1>2
<1>3. CASE \E n \in 1..MaxDepth : F(n)
  <2> HIDE DEF F
  <2>1. S \in SUBSET Nat /\ S # {}
    BY <1>3, MaxDepthAssumption
  <2>2. PICK n \in S : \A m \in S : n <= m
    <3> HIDE DEF S
    <3> QED BY <2>1, Least
  <2>3. First(n)
    BY <2>2, MaxDepthAssumption
  <2> DEFINE k == CHOOSE j \in 1..MaxDepth : F(j) /\ \A m \in 1..(j - 1) : ~ F(m)
  <2>4. First(k)
    BY <2>3
  <2>5. Nearest(dir, e, role) = up[k]
    BY <1>1, <1>3
  <2>6. /\ k \in 1..MaxDepth
        /\ F(k)
        /\ \A m \in 1..(k - 1) : ~ F(m)
    <3> HIDE DEF k
    <3> QED BY <2>4
  <2> HIDE DEF k
  <2> QED
    BY <1>3, <2>5, <2>6 DEF F
<1> QED
  BY <1>2, <1>3

\* The nearest holder of a role is somebody in the employee master, or nobody is.
LEMMA NearestIsSomeone ==
    ASSUME NEW dir, NEW e, NEW role
    PROVE  Nearest(dir, e, role) \in Employees(dir) \cup {NoOne}
BY NearestIs DEF Fills

\* Finance verification is addressed to somebody in Finance.
LEMMA FirstFinanceIs ==
    ASSUME NEW dir, Employees(dir) \subseteq Nat,
           \E e \in Employees(dir) : dir.role[e] = "Finance"
    PROVE  /\ FirstFinance(dir) \in Employees(dir)
           /\ dir.role[FirstFinance(dir)] = "Finance"
<1> DEFINE finance == {e \in Employees(dir) : dir.role[e] = "Finance"}
<1>1. finance \in SUBSET Nat /\ finance # {}
  OBVIOUS
<1>2. FirstFinance(dir) = CHOOSE e \in finance : \A f \in finance : e <= f
  BY <1>1 DEF FirstFinance
<1>3. PICK e \in finance : \A f \in finance : e <= f
  BY <1>1, Least
<1>4. FirstFinance(dir) \in finance
  <2> HIDE DEF finance
  <2> QED BY <1>2, <1>3
<1> QED
  BY <1>4

-----------------------------------------------------------------------------
(* The approval matrix *)

\* The roles at a value are those of the first band that covers it.
LEMMA FirstBand ==
    ASSUME NEW T, NEW matrix \in Seq(T), NEW value, Covered(matrix, value)
    PROVE  \E i \in DOMAIN matrix :
              /\ Covers(matrix[i], value)
              /\ \A j \in 1..(i - 1) : ~ Covers(matrix[j], value)
              /\ RolesForValue(matrix, value) = matrix[i].roles
<1> DEFINE S == {i \in DOMAIN matrix : Covers(matrix[i], value)}
           First(i) ==
             /\ i \in DOMAIN matrix
             /\ Covers(matrix[i], value)
             /\ \A j \in 1..(i - 1) : ~ Covers(matrix[j], value)
<1>1. DOMAIN matrix = 1..Len(matrix) /\ Len(matrix) \in Nat
  BY LenProperties
<1>2. PICK i \in S : \A j \in S : i <= j
  <2>1. S \in SUBSET Nat /\ S # {}
    BY <1>1 DEF Covered
  <2> QED
    BY <2>1, Least
<1>3. First(i)
  BY <1>1, <1>2
<1> DEFINE k == CHOOSE j \in DOMAIN matrix :
                   /\ Covers(matrix[j], value)
                   /\ \A m \in 1..(j - 1) : ~ Covers(matrix[m], value)
<1>4. First(k)
  BY <1>3
<1>5. RolesForValue(matrix, value) = matrix[k].roles
  BY DEF RolesForValue
<1> HIDE DEF k
<1> QED
  BY <1>4, <1>5

\* Roles that begin the full chain, the first level first.
BeginsFullChain(roles) ==
    /\ roles \in Seq(Role)
    /\ Len(roles) <= Len(FullChain)
    /\ \A n \in DOMAIN roles : roles[n] = FullChain[n]

\* The full chain: four levels, no two the same.
LEMMA FullChainIs ==
    /\ Len(FullChain) = 4
    /\ \A n \in 1..4 : FullChain[n] \in Role
    /\ \A m, n \in 1..4 : FullChain[m] = FullChain[n] => m = n
<1>1. Len(FullChain) = 4
  BY DEF FullChain
<1>2. /\ FullChain[1] = "Reporting Manager"
      /\ FullChain[2] = "Head of Department"
      /\ FullChain[3] = "Head of Division"
      /\ FullChain[4] = "MD"
  BY DEF FullChain
<1>3. \A n \in 1..4 : n = 1 \/ n = 2 \/ n = 3 \/ n = 4
  OBVIOUS
<1> QED
  BY <1>1, <1>2, <1>3 DEF Role

\* Looking for the n-th level in the beginning of the full chain, and adding it where it is
\* missing, leaves a beginning of the full chain at least as long.
LEMMA LevelAdded ==
    ASSUME NEW roles, BeginsFullChain(roles), NEW n \in 1..4, n - 1 <= Len(roles),
           NEW more,
           more = IF FullChain[n] \in RolesIn(roles) THEN roles
                  ELSE Append(roles, FullChain[n])
    PROVE  BeginsFullChain(more) /\ n <= Len(more)
<1>1. /\ roles \in Seq(Role)
      /\ Len(roles) \in Nat /\ Len(roles) <= 4
      /\ DOMAIN roles = 1..Len(roles)
      /\ \A i \in 1..Len(roles) : roles[i] = FullChain[i]
  BY LenProperties, FullChainIs DEF BeginsFullChain
<1>2. CASE n <= Len(roles)
  <2>1. n \in DOMAIN roles /\ roles[n] = FullChain[n]
    BY <1>1, <1>2
  <2>2. FullChain[n] \in RolesIn(roles)
    BY <2>1 DEF RolesIn
  <2> QED
    BY <1>2, <2>2
<1>3. CASE ~ n <= Len(roles)
  <2>1. Len(roles) = n - 1
    BY <1>1, <1>3
  <2>2. FullChain[n] \notin RolesIn(roles)
    BY <1>1, <2>1, FullChainIs DEF RolesIn
  <2>3. /\ more \in Seq(Role)
        /\ Len(more) = n
        /\ \A i \in 1..(n - 1) : more[i] = roles[i]
        /\ more[n] = FullChain[n]
    BY <1>1, <2>1, <2>2, FullChainIs, AppendProperties
  <2>4. \A i \in DOMAIN more : more[i] = FullChain[i]
    BY <1>1, <2>1, <2>3, LenProperties
  <2> QED
    BY <2>3, <2>4, FullChainIs DEF BeginsFullChain
<1> QED
  BY <1>2, <1>3

\* The roles after the next level of the full chain was looked for among them.
WithLevel(roles, n) ==
    IF FullChain[n] \in RolesIn(roles) THEN roles ELSE Append(roles, FullChain[n])

\* International travel takes the levels of the full chain one by one.
LEMMA InternationalAsks ==
    ASSUME NEW matrix, NEW value, RolesForValue(matrix, value) \in Seq(Role)
    PROVE  \E asked :
              /\ asked[0] = RolesForValue(matrix, value)
              /\ \A n \in 1..4 : asked[n] = WithLevel(asked[n - 1], n)
              /\ Required(matrix, value, TRUE) = asked[4]
<1> DEFINE roles == RolesForValue(matrix, value)
           G == [n \in 1..4 |-> [r \in Seq(Role) |-> WithLevel(r, n)]]
           Is(f) == f = [n \in 0..Len(FullChain) |->
                           IF n = 0 THEN roles
                           ELSE IF FullChain[n] \in RolesIn(f[n - 1]) THEN f[n - 1]
                           ELSE Append(f[n - 1], FullChain[n])]
           asked == CHOOSE f : Is(f)
<1>1. \A n \in 1..4, r \in Seq(Role) : WithLevel(r, n) \in Seq(Role)
  BY FullChainIs, AppendProperties DEF WithLevel
<1>2. G \in [1..4 -> [Seq(Role) -> Seq(Role)]]
  BY <1>1
<1>3. PICK f : Steps(f, 4, Seq(Role), roles, G)
  <2> HIDE DEF roles, G
  <2> QED BY <1>2, StepByStep DEF roles
<1>4. \A n \in 1..4 : f[n] = WithLevel(f[n - 1], n)
  <2> TAKE n \in 1..4
  <2>1. f[n - 1] \in Seq(Role) /\ f[n] = G[n][f[n - 1]]
    <3> HIDE DEF G
    <3> QED BY <1>3 DEF Steps
  <2> QED
    BY <2>1
<1>5. Is(f)
  <2> HIDE DEF G, roles
  <2>1. \A n \in 0..4 :
            f[n] = IF n = 0 THEN roles
                   ELSE IF FullChain[n] \in RolesIn(f[n - 1]) THEN f[n - 1]
                   ELSE Append(f[n - 1], FullChain[n])
    <3> TAKE n \in 0..4
    <3>1. CASE n = 0
      BY <1>3, <3>1 DEF Steps
    <3>2. CASE n \in 1..4
      BY <1>4, <3>2 DEF WithLevel
    <3> QED
      BY <3>1, <3>2
  <2> QED
    BY <1>3, <2>1, FullChainIs DEF Steps
<1>6. Is(asked)
  <2> HIDE DEF Is
  <2> QED BY <1>5
<1>7. /\ asked[0] = roles
      /\ \A n \in 1..4 : asked[n] = WithLevel(asked[n - 1], n)
  <2> HIDE DEF asked, roles
  <2>1. /\ asked[0] = roles
        /\ \A n \in 1..4 :
              asked[n] = IF FullChain[n] \in RolesIn(asked[n - 1]) THEN asked[n - 1]
                         ELSE Append(asked[n - 1], FullChain[n])
    <3>1. 0 \in 0..4 /\ \A n \in 1..4 : n \in 0..4 /\ n # 0
      OBVIOUS
    <3> QED
      BY <1>6, <3>1, FullChainIs
  <2> QED
    BY <2>1 DEF WithLevel
<1>8. Required(matrix, value, TRUE) = asked[4]
  BY FullChainIs DEF Required
<1> HIDE DEF asked
<1> QED
  BY <1>7, <1>8

\* Where the matrix asks a beginning of the full chain, a domestic claim is asked just that and
\* an international one the whole of it.
LEMMA RequiredIs ==
    ASSUME NEW matrix, NEW value, NEW international \in BOOLEAN,
           BeginsFullChain(RolesForValue(matrix, value))
    PROVE  /\ BeginsFullChain(Required(matrix, value, international))
           /\ international => Len(Required(matrix, value, international)) = 4
           /\ ~ international =>
                  Required(matrix, value, international) = RolesForValue(matrix, value)
<1> DEFINE roles == RolesForValue(matrix, value)
<1>1. CASE ~ international
  BY <1>1 DEF Required
<1>2. CASE international
  <2>1. roles \in Seq(Role)
    BY DEF BeginsFullChain
  <2>2. PICK asked :
            /\ asked[0] = roles
            /\ \A n \in 1..4 : asked[n] = WithLevel(asked[n - 1], n)
            /\ Required(matrix, value, TRUE) = asked[4]
    BY <2>1, InternationalAsks
  <2>3. \A n \in 1..4 :
            BeginsFullChain(asked[n - 1]) /\ n - 1 <= Len(asked[n - 1])
                => BeginsFullChain(asked[n]) /\ n <= Len(asked[n])
    <3> TAKE n \in 1..4
    <3>1. asked[n] = WithLevel(asked[n - 1], n)
      BY <2>2
    <3> QED
      BY <3>1, LevelAdded DEF WithLevel
  <2>4. BeginsFullChain(asked[0]) /\ 0 <= Len(asked[0])
    BY <2>1, <2>2, LenProperties
  <2>5. BeginsFullChain(asked[1]) /\ 1 <= Len(asked[1])
    BY <2>3, <2>4
  <2>6. BeginsFullChain(asked[2]) /\ 2 <= Len(asked[2])
    BY <2>3, <2>5
  <2>7. BeginsFullChain(asked[3]) /\ 3 <= Len(asked[3])
    BY <2>3, <2>6
  <2>8. BeginsFullChain(asked[4]) /\ 4 <= Len(asked[4])
    BY <2>3, <2>7
  <2>9. Len(asked[4]) = 4
    <3>1. Len(asked[4]) \in Nat /\ Len(asked[4]) <= 4
      BY <2>8, FullChainIs, LenProperties DEF BeginsFullChain
    <3>2. 4 <= Len(asked[4])
      BY <2>8, Zenon
    <3>3. \A k \in Nat : k <= 4 /\ 4 <= k => k = 4
      OBVIOUS
    <3> QED
      BY <3>1, <3>2, <3>3, Zenon
  <2> QED
    BY <1>2, <2>2, <2>8, <2>9
<1> QED
  BY <1>1, <1>2
=============================================================================
