-------------------------- MODULE Settlement_proofs --------------------------
(***************************************************************************)
(* What the draft of a claim comes to, for every policy and every set of   *)
(* bills: how the bills are read and their tax is shared out, what the     *)
(* engine leaves of a line and of a day's meals, and what is settled; that *)
(* the bills cover it, and that neither withdrawing lines nor receipts     *)
(* that come again add to it.                                              *)
(***************************************************************************)
EXTENDS Settlement, Induction_proofs, SequenceTheorems

\* A line whose figures are numbers.
Priced(line) ==
    /\ line.gross \in Nat /\ line.share \in Int /\ line.nights \in Nat
    /\ line.head \in Heads /\ line.day \in Days \cup {NoDay}

\* Claims so far are a number for each day.
Tallied(tally) == tally \in [Days -> Nat]

\* The price of a night is a number of the right kind.
LEMMA HalfEvenIsNat ==
    ASSUME NEW a \in Nat, NEW n \in Nat \ {0}
    PROVE  HalfEven(a, n) \in Nat
<1>1. a \div n \in Nat
  OBVIOUS
<1> QED
  BY <1>1 DEF HalfEven

\* A stay never loses a negative amount.
LEMMA OverTariffIsNat ==
    ASSUME NEW line, Priced(line)
    PROVE  OverTariff(line) \in Nat
<1> DEFINE nights == IF line.nights = 0 THEN 1 ELSE line.nights
           perNight == HalfEven(line.gross, nights)
<1>1. nights \in Nat \ {0}
  BY DEF Priced
<1>2. perNight \in Nat
  BY <1>1, HalfEvenIsNat DEF Priced
<1>3. \A over \in Nat : over * nights \in Nat
  BY <1>1
<1>4. TariffLimit \in Int /\ (perNight > TariffLimit => perNight - TariffLimit \in Nat)
  BY <1>2, PolicyAssumption DEF NoLimit
<1>5. \/ OverTariff(line) = 0
      \/ perNight > TariffLimit /\ OverTariff(line) = (perNight - TariffLimit) * nights
  BY DEF OverTariff
<1> HIDE DEF nights, perNight
<1> QED
  BY <1>3, <1>4, <1>5

\* A meal loses what would pass the day's cap.
LEMMA OverDailyCapIs ==
    ASSUME NEW line, Priced(line), NEW tally, Tallied(tally)
    PROVE  /\ OverDailyCap(line, tally) \in Nat
           /\ line.head = "meals" /\ MealCap # NoLimit /\ line.day # NoDay =>
                 tally[line.day] + Claimable(line) - OverDailyCap(line, tally) <= MealCap
<1>1. Claimable(line) \in Int
  BY DEF Claimable, Priced
<1> QED
  BY <1>1, PolicyAssumption DEF OverDailyCap, Priced, Tallied, NoLimit, NoDay

\* A line without a worth, or with a negative one, is not disallowed more than it is worth; one
\* that keeps something lost at least what its day's cap takes.
LEMMA WhatIsAllowed ==
    ASSUME NEW line, Priced(line), NEW tally, Tallied(tally)
    PROVE  LET outcome == EvaluateOne(line, tally)
           IN  /\ outcome.allowed \in Nat /\ outcome.disallowed \in Int
               /\ outcome.disallowed <= Claimable(line)
               /\ outcome.allowed = Claimable(line) - outcome.disallowed
               /\ Claimable(line) \in Nat => outcome.disallowed \in Nat
               /\ outcome.allowed > 0 => OverDailyCap(line, tally) <= outcome.disallowed
<1> DEFINE worth == Claimable(line)
           removed == Removed(line, tally)
           lost == Disallowed(line, tally)
<1>1. worth \in Int
  BY DEF Claimable, Priced
<1>2. removed \in Int /\ OverDailyCap(line, tally) \in Nat
      /\ (worth \in Nat => removed >= OverDailyCap(line, tally))
      /\ (worth < 0 => removed >= worth)
  <2>1. NonReimbursable(line) \in {0, worth}
    BY DEF NonReimbursable
  <2>2. OverTariff(line) \in Nat /\ OverDailyCap(line, tally) \in Nat
    BY OverTariffIsNat, OverDailyCapIs
  <2>3. removed = OverTariff(line) + OverDailyCap(line, tally) + NonReimbursable(line)
    BY DEF Removed
  <2> HIDE DEF worth, removed
  <2> QED
    BY <1>1, <2>1, <2>2, <2>3
<1>3. lost = IF removed < worth THEN removed ELSE worth
  BY DEF Disallowed
<1>4. EvaluateOne(line, tally).disallowed = lost /\ EvaluateOne(line, tally).allowed = worth - lost
  BY DEF EvaluateOne
<1> HIDE DEF worth, removed, lost
<1>5. /\ lost \in Int /\ lost <= worth
      /\ worth \in Nat => lost \in Nat
      /\ worth - lost > 0 => OverDailyCap(line, tally) <= lost
  BY <1>1, <1>2, <1>3
<1> QED
  BY <1>1, <1>4, <1>5 DEF worth

\* Whatever rules fire, and however many: what is allowed of a line and what is disallowed are
\* naturals that add up to what was claimed (_evaluate_one of policy/engine.py).
THEOREM LinesAreSplit ==
    ASSUME NEW line, Priced(line), Claimable(line) \in Nat, NEW tally, Tallied(tally)
    PROVE  LET outcome == EvaluateOne(line, tally)
           IN  /\ outcome.allowed \in 0..Claimable(line)
               /\ outcome.disallowed \in 0..Claimable(line)
               /\ outcome.allowed + outcome.disallowed = Claimable(line)
<1> DEFINE outcome == EvaluateOne(line, tally)
<1>1. /\ outcome.allowed \in Nat /\ outcome.disallowed \in Nat
      /\ outcome.disallowed <= Claimable(line)
      /\ outcome.allowed = Claimable(line) - outcome.disallowed
  BY WhatIsAllowed
<1> HIDE DEF outcome
<1>2. /\ outcome.allowed \in 0..Claimable(line)
      /\ outcome.disallowed \in 0..Claimable(line)
      /\ outcome.allowed + outcome.disallowed = Claimable(line)
  BY <1>1
<1> QED
  BY <1>2 DEF outcome

-----------------------------------------------------------------------------
(* Sequences that are put together step by step *)

\* The rows that can be read are rows, each with an amount.
LEMMA ReadableIs ==
    ASSUME NEW T, NEW rows \in Seq(T)
    PROVE  Readable(rows) \in Seq({r \in T : r.amount # Unread})
<1> DEFINE N == Len(rows)
           X == Seq({r \in T : r.amount # Unread})
           After(s, n) == IF rows[n].amount = Unread THEN s ELSE Append(s, rows[n])
           G == [n \in 1..N |-> [s \in X |-> After(s, n)]]
           Is(f) == f = [n \in 0..N |->
                           IF n = 0 THEN <<>>
                           ELSE IF rows[n].amount = Unread THEN f[n - 1]
                           ELSE Append(f[n - 1], rows[n])]
           found == CHOOSE f : Is(f)
<1>1. N \in Nat /\ \A n \in 1..N : rows[n] \in T
  BY LenProperties, ElementOfSeq
<1>2. <<>> \in X
  BY EmptySeq
<1>3. \A n \in 1..N, s \in X : After(s, n) \in X
  BY <1>1, AppendProperties
<1>4. G \in [1..N -> [X -> X]]
  <2> HIDE DEF X, After
  <2> QED BY <1>3
<1>5. PICK f : Steps(f, N, X, <<>>, G)
  <2> HIDE DEF X, G, N
  <2> QED BY <1>1, <1>2, <1>4, StepByStep
<1>6. \A n \in 1..N : f[n - 1] \in X /\ f[n] = After(f[n - 1], n)
  <2> TAKE n \in 1..N
  <2>1. n - 1 \in 0..N
    BY <1>1
  <2>2. f[n - 1] \in X /\ f[n] = G[n][f[n - 1]]
    <3> HIDE DEF X, G
    <3> QED BY <1>5, <2>1 DEF Steps
  <2> HIDE DEF X, After
  <2> QED
    BY <2>2
<1>7. Is(f)
  <2> HIDE DEF X, G
  <2>1. \A n \in 0..N :
            f[n] = IF n = 0 THEN <<>>
                   ELSE IF rows[n].amount = Unread THEN f[n - 1]
                   ELSE Append(f[n - 1], rows[n])
    <3> TAKE n \in 0..N
    <3>1. CASE n = 0
      BY <1>5, <3>1 DEF Steps
    <3>2. CASE n # 0
      <4>1. n \in 1..N
        BY <1>1, <3>2
      <4> QED
        BY <1>6, <3>2, <4>1
    <3> QED
      BY <3>1, <3>2
  <2> QED
    BY <1>5, <2>1 DEF Steps
<1>8. Readable(rows) = found[N]
  BY DEF Readable
<1>9. Is(found)
  <2> HIDE DEF Is
  <2> QED BY <1>7
<1> HIDE DEF found
<1> DEFINE S == {n \in Nat : n <= N => found[n] \in X}
<1>10. 0 \in S
  BY <1>1, <1>2, <1>9
<1>11. \A n \in Nat : n \in S => n + 1 \in S
  <2> SUFFICES ASSUME NEW n \in Nat, n \in S, n + 1 <= N
               PROVE  found[n + 1] \in X
    <3> HIDE DEF X
    <3> QED OBVIOUS
  <2>1. n + 1 \in 1..N /\ n + 1 # 0 /\ (n + 1) - 1 = n
    BY <1>1
  <2>2. found[n + 1] = After(found[n], n + 1)
    <3>1. n + 1 \in 0..N
      BY <2>1
    <3>2. found[n + 1] = IF n + 1 = 0 THEN <<>>
                         ELSE IF rows[n + 1].amount = Unread THEN found[(n + 1) - 1]
                         ELSE Append(found[(n + 1) - 1], rows[n + 1])
      BY <1>9, <3>1
    <3> QED
      BY <2>1, <3>2
  <2>3. found[n] \in X
    <3> HIDE DEF X
    <3> QED BY <1>1
  <2> HIDE DEF X, After
  <2> QED
    BY <1>3, <2>1, <2>2, <2>3
<1>12. N \in S
  <2> HIDE DEF S
  <2> QED BY <1>1, <1>10, <1>11, Inductive
<1> HIDE DEF X
<1> QED
  BY <1>1, <1>8, <1>12 DEF X

\* A sequence of sequences, made one, step by step.
Flattens(flat, seqs, X) ==
    /\ flat[0] = <<>>
    /\ \A n \in 1..Len(seqs) : flat[n] = flat[n - 1] \o seqs[n]
    /\ \A n \in 0..Len(seqs) : flat[n] \in Seq(X)
    /\ FlattenSeq(seqs) = flat[Len(seqs)]

\* The library's flattening by its definition.
LEMMA FlattenIs ==
    ASSUME NEW X, NEW seqs \in Seq(Seq(X))
    PROVE  \E flat : Flattens(flat, seqs, X)
<1> DEFINE N == Len(seqs)
           Y == Seq(X)
           G == [n \in 1..N |-> [s \in Y |-> s \o seqs[n]]]
           Is(f) == f = [n \in 1..N |-> IF n = 1 THEN seqs[n] ELSE f[n - 1] \o seqs[n]]
           flatten == CHOOSE f : Is(f)
<1>1. N \in Nat /\ \A n \in 1..N : seqs[n] \in Y
  BY LenProperties, ElementOfSeq
<1>2. <<>> \in Y
  BY EmptySeq
<1>3. \A n \in 1..N, s \in Y : s \o seqs[n] \in Y
  BY <1>1, ConcatProperties
<1>4. G \in [1..N -> [Y -> Y]]
  <2> HIDE DEF Y
  <2> QED BY <1>3
<1>5. PICK f : Steps(f, N, Y, <<>>, G)
  <2> HIDE DEF Y, G, N
  <2> QED BY <1>1, <1>2, <1>4, StepByStep
<1>6. \A n \in 1..N : f[n - 1] \in Y /\ f[n] = f[n - 1] \o seqs[n]
  <2> TAKE n \in 1..N
  <2>1. n - 1 \in 0..N
    BY <1>1
  <2>2. f[n - 1] \in Y /\ f[n] = G[n][f[n - 1]]
    <3> HIDE DEF Y, G
    <3> QED BY <1>5, <2>1 DEF Steps
  <2> HIDE DEF Y
  <2> QED
    BY <2>2
<1>7. CASE N = 0
  <2>1. FlattenSeq(seqs) = seqs /\ seqs = <<>>
    BY <1>7, EmptySeq DEF FlattenSeq
  <2>2. f[0] = <<>> /\ \A n \in 0..N : f[n] \in Y
    <3> HIDE DEF Y, G
    <3> QED BY <1>5 DEF Steps
  <2>3. Flattens(f, seqs, X)
    BY <1>6, <1>7, <2>1, <2>2 DEF Flattens
  <2> QED
    BY <2>3
<1>8. CASE N # 0
  <2>1. FlattenSeq(seqs) = flatten[N]
    BY <1>8 DEF FlattenSeq
  <2>2. f[0] = <<>> /\ \A n \in 0..N : f[n] \in Y
    <3> HIDE DEF Y, G
    <3> QED BY <1>5 DEF Steps
  <2>3. Is([n \in 1..N |-> f[n]])
    <3>1. \A n \in 1..N : f[n] = IF n = 1 THEN seqs[n] ELSE f[n - 1] \o seqs[n]
      <4> TAKE n \in 1..N
      <4>1. CASE n = 1
        <5>1. f[1] = <<>> \o seqs[1]
          <6>1. n - 1 = 0
            BY <4>1
          <6>2. f[n] = f[n - 1] \o seqs[n]
            BY <1>6
          <6> QED
            BY <2>2, <4>1, <6>1, <6>2
        <5>2. seqs[1] \in Seq(X)
          BY <1>1, <4>1
        <5> QED
          BY <4>1, <5>1, <5>2, ConcatEmptySeq
      <4>2. CASE n # 1
        BY <1>6, <4>2
      <4> QED
        BY <4>1, <4>2
    <3>2. \A n \in 1..N : n # 1 => n - 1 \in 1..N
      BY <1>1
    <3> QED
      BY <3>1, <3>2
  <2>4. Is(flatten)
    <3> HIDE DEF Is
    <3> QED BY <2>3
  <2> HIDE DEF flatten
  <2> DEFINE S == {n \in Nat : n \in 1..N => flatten[n] = f[n]}
  <2>5. 0 \in S
    OBVIOUS
  <2>6. \A n \in Nat : n \in S => n + 1 \in S
    <3> SUFFICES ASSUME NEW n \in Nat, n \in S, n + 1 \in 1..N
                 PROVE  flatten[n + 1] = f[n + 1]
      OBVIOUS
    <3>1. CASE n = 0
      <4>1. 1 \in 1..N /\ 1 - 1 = 0
        BY <1>1, <3>1
      <4>2. seqs[1] \in Seq(X) /\ f[1] = f[1 - 1] \o seqs[1]
        BY <1>1, <1>6, <4>1
      <4>3. flatten[1] = seqs[1]
        BY <2>4, <4>1
      <4>4. f[1] = seqs[1]
        BY <2>2, <4>1, <4>2, ConcatEmptySeq
      <4>5. n + 1 = 1
        BY <3>1
      <4> QED
        BY <4>3, <4>4, <4>5
    <3>2. CASE n # 0
      <4>1. n \in 1..N /\ n + 1 # 1 /\ (n + 1) - 1 = n
        BY <1>1, <3>2
      <4>2. flatten[n + 1] = flatten[n] \o seqs[n + 1] /\ f[n + 1] = f[n] \o seqs[n + 1]
        BY <1>6, <2>4, <4>1
      <4> QED
        BY <4>1, <4>2
    <3> QED
      BY <3>1, <3>2
  <2>7. N \in S
    <3> HIDE DEF S
    <3> QED BY <1>1, <2>5, <2>6, Inductive
  <2>8. FlattenSeq(seqs) = f[N]
    BY <1>1, <1>8, <2>1, <2>7
  <2> HIDE DEF Y, N
  <2>9. Flattens(f, seqs, X)
    BY <1>6, <2>2, <2>8 DEF Flattens, Y, N
  <2> QED
    BY <2>9
<1> QED
  BY <1>7, <1>8

\* A set in order has as many places as elements, and an element in each.
LEMMA SortedIs ==
    ASSUME NEW S, IsFiniteSet(S), NEW place, \A x \in S : place[x] \in Nat,
           \A x, y \in S : place[x] = place[y] => x = y
    PROVE  /\ DOMAIN Sorted(S, place) = 1..Cardinality(S)
           /\ Cardinality(S) \in Nat
           /\ \A n \in 1..Cardinality(S) :
                 /\ Sorted(S, place)[n] \in S
                 /\ Cardinality({y \in S : place[y] < place[Sorted(S, place)[n]]}) = n - 1
<1>1. Cardinality(S) \in Nat
  BY FS_CardinalityType
<1>2. ASSUME NEW n \in 1..Cardinality(S)
      PROVE  /\ Sorted(S, place)[n] \in S
             /\ Cardinality({y \in S : place[y] < place[Sorted(S, place)[n]]}) = n - 1
  <2> DEFINE At(x) == Cardinality({y \in S : place[y] < place[x]}) = n - 1
  <2>1. \E x \in S : At(x)
    BY Ranked
  <2>2. Sorted(S, place)[n] = CHOOSE x \in S : At(x)
    BY DEF Sorted
  <2>3. (CHOOSE x \in S : At(x)) \in S /\ At(CHOOSE x \in S : At(x))
    <3> HIDE DEF At
    <3> QED BY <2>1
  <2> QED
    BY <2>2, <2>3
<1> QED
  BY <1>1, <1>2 DEF Sorted

-----------------------------------------------------------------------------
(* What a bill is read as *)

ItemType ==
    [label : STRING, amount : Nat, merchant : STRING, day : Dated, clock : Int, no : Int,
     nights : Nat, payer : {"claimant", "other", "nobody"},
     payment : {"company", "own", "silent"}]

\* A result that is claimed is made of charges, and a bill adds a tax to them only where it is a
\* folio, by what its total exceeds the charges.
ReadAs(b, result) ==
    result.status = "extracted" =>
        /\ result.items \in Seq(ItemType)
        /\ \/ TaxOf(result) = 0
           \/ /\ b.kind = "hotel"
              /\ b.subtotal # Unread
              /\ b.subtotal < b.total
              /\ TaxOf(result) = b.total - b.subtotal
              /\ Amounts(result.items) = Amounts(Readable(b.rows))
              /\ SumFunction(Amounts(result.items)) = b.subtotal

\* Charges are from somebody.
LEMMA MerchantIs ==
    ASSUME NEW b \in BillType
    PROVE  MerchantOf(b) \in STRING
BY DEF MerchantOf, VendorName, BillType

\* A charge says what its bill says.
LEMMA ChargeIs ==
    ASSUME NEW b \in BillType, NEW label \in STRING, NEW amount \in Nat
    PROVE  Charge(b, label, amount) \in ItemType
BY MerchantIs DEF Charge, BillType, ItemType, Dated

\* A bill that is read as one charge.
LEMMA OneCharge ==
    ASSUME NEW item \in ItemType
    PROVE  <<item>> \in Seq(ItemType)
OBVIOUS

\* What the readers set apart from that leaves it a charge.
LEMMA ChargeStays ==
    ASSUME NEW item \in ItemType, NEW day \in Dated, NEW nights \in Nat
    PROVE  /\ [item EXCEPT !.day = day, !.clock = Unread] \in ItemType
           /\ [item EXCEPT !.clock = Unread, !.nights = nights] \in ItemType
           /\ [item EXCEPT !.clock = Unread, !.payer = "nobody", !.day = day,
                            !.nights = nights] \in ItemType
<1>1. \A c \in ItemType : [c EXCEPT !.day = day] \in ItemType
  BY DEF ItemType
<1>2. \A c \in ItemType : [c EXCEPT !.clock = Unread] \in ItemType
  BY DEF ItemType, Unread
<1>3. \A c \in ItemType : [c EXCEPT !.nights = nights] \in ItemType
  BY DEF ItemType
<1>4. \A c \in ItemType : [c EXCEPT !.payer = "nobody"] \in ItemType
  BY DEF ItemType
<1>5. [item EXCEPT !.day = day, !.clock = Unread] =
          [[item EXCEPT !.day = day] EXCEPT !.clock = Unread]
  BY DEF ItemType
<1>6. [item EXCEPT !.clock = Unread, !.nights = nights] =
          [[item EXCEPT !.clock = Unread] EXCEPT !.nights = nights]
  BY DEF ItemType
<1>7. [item EXCEPT !.clock = Unread, !.payer = "nobody", !.day = day, !.nights = nights] =
          [[[[item EXCEPT !.clock = Unread] EXCEPT !.payer = "nobody"]
              EXCEPT !.day = day] EXCEPT !.nights = nights]
  BY DEF ItemType
<1> QED
  BY <1>1, <1>2, <1>3, <1>4, <1>5, <1>6, <1>7, Zenon

\* The fields that count.
LEMMA BillIs ==
    ASSUME NEW b \in BillType
    PROVE  /\ b.label \in STRING /\ b.nights \in Nat
           /\ b.total \in Nat \cup {Unread} /\ b.subtotal \in Nat \cup {Unread}
           /\ b.rows \in Seq([label : STRING, amount : Nat \cup {Unread}, day : Dated])
           /\ b.typed \in Seq([label : STRING, amount : Nat, day : Dated, nights : Nat])
BY DEF BillType

\* It comes to what the bill states as its total.
Whole(b, result) ==
    result.status = "extracted" /\ b.total # Unread /\ b.subtotal =< b.total =>
        SumFunction(Amounts(result.items)) + TaxOf(result) = b.total

\* It comes to no more than the larger of the sums that the bill states.
Within(b, result) ==
    result.status = "extracted" =>
        SumFunction(Amounts(result.items)) + TaxOf(result) =<
            IF b.total > b.subtotal THEN b.total ELSE Positive(b.subtotal)

\* One charge of the total, checked against the total or against nothing, is the whole bill.
LEMMA TotalIsWhole ==
    ASSUME NEW b \in BillType, b.total # Unread, NEW item \in ItemType, item.amount = b.total,
           NEW result,
           result.status = "extracted" =>
              /\ result.items = <<item>>
              /\ result.subtotal \in {b.total, Unread}
              /\ result.total = b.total
    PROVE  ReadAs(b, result) /\ Whole(b, result) /\ Within(b, result)
<1> SUFFICES ASSUME result.status = "extracted"
             PROVE  ReadAs(b, result) /\ Whole(b, result) /\ Within(b, result)
  BY DEF ReadAs, Whole, Within
<1>1. b.total \in Nat /\ b.subtotal \in Int
  BY BillIs DEF Unread
<1>2. TaxOf(result) = 0
  BY <1>1 DEF TaxOf
<1>3. result.items \in Seq(ItemType)
  BY OneCharge
<1>4. SumFunction(Amounts(result.items)) = b.total
  <2> DEFINE amounts == Amounts(<<item>>)
  <2>1. DOMAIN amounts = {1} /\ amounts[1] = b.total
    BY DEF Amounts
  <2> HIDE DEF amounts
  <2>2. IsFiniteSet({1})
    BY FS_Singleton
  <2>3. SumFunctionOnSet(amounts, {1}) = b.total + SumFunctionOnSet(amounts, {1} \ {1})
    BY <1>1, <2>1, <2>2, SumOut
  <2>4. SumFunctionOnSet(amounts, {}) = 0
    BY FS_EmptySet, SumStep
  <2>5. {1} \ {1} = {}
    OBVIOUS
  <2>6. SumFunctionOnSet(amounts, {1}) = b.total
    <3>1. SumFunctionOnSet(amounts, {1} \ {1}) = 0
      BY <2>4, <2>5
    <3> QED
      BY <1>1, <2>3, <3>1
  <2>7. SumFunction(amounts) = SumFunctionOnSet(amounts, {1})
    BY <2>1 DEF SumFunction
  <2> QED
    BY <2>6, <2>7 DEF amounts
<1>5. b.total <= IF b.total > b.subtotal THEN b.total ELSE Positive(b.subtotal)
  BY <1>1 DEF Positive
<1> QED
  BY <1>1, <1>2, <1>3, <1>4, <1>5 DEF ReadAs, Whole, Within

\* A document that needs input brings nothing.
LEMMA InputIsNeeded ==
    ASSUME NEW b, NEW result, result.status # "extracted"
    PROVE  ReadAs(b, result) /\ Whole(b, result) /\ Within(b, result)
BY DEF ReadAs, Whole, Within

\* A ride is one charge with its tax in it.
LEMMA RideIs ==
    ASSUME NEW b \in BillType
    PROVE  ReadAs(b, ReadRide(b)) /\ Whole(b, ReadRide(b)) /\ Within(b, ReadRide(b))
<1> DEFINE charge == [Charge(b, b.label, b.total) EXCEPT !.no = Unread]
<1>1. CASE b.total = Unread
  BY <1>1, InputIsNeeded DEF ReadRide, NeedsInput
<1>2. CASE b.total # Unread
  <2>1. b.total \in Nat /\ Charge(b, b.label, b.total) \in ItemType
    BY <1>2, BillIs, ChargeIs
  <2>2. charge \in ItemType /\ charge.amount = b.total
    BY <2>1 DEF ItemType, Unread, Charge
  <2> HIDE DEF charge
  <2>3. ReadRide(b).status = "extracted" =>
          /\ ReadRide(b).items = <<charge>>
          /\ ReadRide(b).subtotal \in {b.total, Unread}
          /\ ReadRide(b).total = b.total
    BY <1>2 DEF ReadRide, FromItems, NeedsInput, charge
  <2> QED
    BY <1>2, <2>2, <2>3, TotalIsWhole
<1> QED
  BY <1>1, <1>2

\* So is a photographed restaurant bill.
LEMMA RestaurantBillIs ==
    ASSUME NEW b \in BillType
    PROVE  ReadAs(b, ReadRestaurantBill(b)) /\ Whole(b, ReadRestaurantBill(b)) /\ Within(b, ReadRestaurantBill(b))
<1> DEFINE charge == [Charge(b, b.label, b.total) EXCEPT !.payer = "nobody"]
<1>1. CASE b.total = Unread
  BY <1>1, InputIsNeeded DEF ReadRestaurantBill, NeedsInput
<1>2. CASE b.total # Unread
  <2>1. b.total \in Nat /\ Charge(b, b.label, b.total) \in ItemType
    BY <1>2, BillIs, ChargeIs
  <2>2. charge \in ItemType /\ charge.amount = b.total
    BY <2>1 DEF ItemType, Charge
  <2> HIDE DEF charge
  <2>3. ReadRestaurantBill(b).status = "extracted" =>
          /\ ReadRestaurantBill(b).items = <<charge>>
          /\ ReadRestaurantBill(b).subtotal \in {b.total, Unread}
          /\ ReadRestaurantBill(b).total = b.total
    BY <1>2 DEF ReadRestaurantBill, FromItems, NeedsInput, charge
  <2> QED
    BY <1>2, <2>2, <2>3, TotalIsWhole
<1> QED
  BY <1>1, <1>2

\* And any bill the generic reader reads.
LEMMA GenericIs ==
    ASSUME NEW b \in BillType
    PROVE  ReadAs(b, ReadGeneric(b)) /\ Whole(b, ReadGeneric(b)) /\ Within(b, ReadGeneric(b))
<1> DEFINE charge == [Charge(b, b.label, b.total) EXCEPT
                         !.nights = IF b.kind = "hotel" THEN b.nights ELSE 0]
<1>1. CASE b.total = Unread
  BY <1>1, InputIsNeeded DEF ReadGeneric, NeedsInput
<1>2. CASE b.total # Unread
  <2>1. b.total \in Nat /\ Charge(b, b.label, b.total) \in ItemType
    BY <1>2, BillIs, ChargeIs
  <2>2. charge \in ItemType /\ charge.amount = b.total
    BY <2>1, BillIs DEF ItemType, Charge
  <2> HIDE DEF charge
  <2>3. ReadGeneric(b).status = "extracted" =>
          /\ ReadGeneric(b).items = <<charge>>
          /\ ReadGeneric(b).subtotal \in {b.total, Unread}
          /\ ReadGeneric(b).total = b.total
    BY <1>2 DEF ReadGeneric, FromItems, NeedsInput, charge
  <2> QED
    BY <1>2, <2>2, <2>3, TotalIsWhole
<1> QED
  BY <1>1, <1>2

\* The charges of rows that can be read.
LEMMA ChargesAre ==
    ASSUME NEW b \in BillType
    PROVE  /\ Readable(b.rows) \in Seq([label : STRING, amount : Nat, day : Dated])
           /\ \A i \in DOMAIN Readable(b.rows) :
                 LET row == Readable(b.rows)[i] IN
                 /\ row.label \in STRING /\ row.amount \in Nat /\ row.day \in Dated
                 /\ Charge(b, row.label, row.amount) \in ItemType
<1> DEFINE T == [label : STRING, amount : Nat \cup {Unread}, day : Dated]
           R == [label : STRING, amount : Nat, day : Dated]
           rows == Readable(b.rows)
<1>1. {r \in T : r.amount # Unread} \subseteq R
  OBVIOUS
<1>2. rows \in Seq({r \in T : r.amount # Unread})
  BY BillIs, ReadableIs
<1>3. rows \in Seq(R)
  <2> HIDE DEF T, R, rows
  <2> QED BY <1>1, <1>2, SeqMonotonic
<1>4. \A i \in DOMAIN rows : rows[i] \in R
  <2> HIDE DEF R, rows
  <2> QED BY <1>3, ElementOfSeq, LenProperties
<1>5. \A r \in R : r.label \in STRING /\ r.amount \in Nat /\ r.day \in Dated
  OBVIOUS
<1> HIDE DEF R, rows
<1>6. \A i \in DOMAIN rows : Charge(b, rows[i].label, rows[i].amount) \in ItemType
  BY <1>4, <1>5, ChargeIs
<1> QED
  BY <1>3, <1>4, <1>5, <1>6 DEF R, rows

\* An e-ticket states nothing but its charges.
LEMMA FlightsAre ==
    ASSUME NEW b \in BillType
    PROVE  ReadAs(b, ReadFlights(b))
<1> DEFINE flown == Readable(b.rows)
           charge(i) == [Charge(b, flown[i].label, flown[i].amount) EXCEPT
                            !.day = flown[i].day, !.clock = Unread]
           items == [i \in DOMAIN flown |-> charge(i)]
<1>1. CASE flown = <<>>
  BY <1>1, InputIsNeeded DEF ReadFlights, NeedsInput
<1>2. CASE flown # <<>>
  <2>1. \A i \in DOMAIN flown : charge(i) \in ItemType
    <3> TAKE i \in DOMAIN flown
    <3>1. Charge(b, flown[i].label, flown[i].amount) \in ItemType /\ flown[i].day \in Dated
      BY ChargesAre
    <3> QED
      BY <3>1, ChargeStays
  <2>2. DOMAIN flown = 1..Len(flown) /\ Len(flown) \in Nat
    BY ChargesAre, LenProperties
  <2> HIDE DEF charge
  <2>3. items \in Seq(ItemType)
    <3>1. items \in [1..Len(flown) -> ItemType]
      BY <2>1, <2>2
    <3> HIDE DEF items, flown
    <3> QED BY <2>2, <3>1, IsASeq
  <2>4. ReadFlights(b).status = "extracted" =>
           ReadFlights(b).items = items /\ ReadFlights(b).subtotal = Unread
    BY <1>2 DEF ReadFlights, FromItems, NeedsInput, charge
  <2> QED
    BY <2>3, <2>4 DEF ReadAs, TaxOf
<1> QED
  BY <1>1, <1>2

\* A folio is its charges, which add up to its sub total, and the tax that its total adds.
LEMMA FolioIs ==
    ASSUME NEW b \in BillType, b.kind = "hotel"
    PROVE  /\ ReadAs(b, ReadFolio(b)) /\ Whole(b, ReadFolio(b)) /\ Within(b, ReadFolio(b))
           /\ /\ b.subtotal # Unread
              /\ Readable(b.rows) # <<>>
              /\ SumFunction(Amounts(Readable(b.rows))) # b.subtotal
              => ReadFolio(b).status # "extracted" /\ ReadFolio(b).items # <<>>
<1> DEFINE charged == Readable(b.rows)
           charge(i) == [Charge(b, charged[i].label, charged[i].amount) EXCEPT
                            !.clock = Unread,
                            !.nights = IF charged[i].label \in RoomRows THEN b.nights ELSE 0]
           items == [i \in DOMAIN charged |-> charge(i)]
           amounts == Amounts(items)
           result == ReadFolio(b)
<1>1. CASE b.subtotal = Unread
  BY <1>1, InputIsNeeded DEF ReadFolio, NeedsInput
<1>2. CASE b.subtotal # Unread
  <2>1. \A i \in DOMAIN charged : charge(i) \in ItemType /\ charge(i).amount = charged[i].amount
    <3> TAKE i \in DOMAIN charged
    <3>1. Charge(b, charged[i].label, charged[i].amount) \in ItemType /\ b.nights \in Nat
      BY ChargesAre, BillIs
    <3>2. charge(i).amount = charged[i].amount
      BY DEF Charge
    <3>3. (IF charged[i].label \in RoomRows THEN b.nights ELSE 0) \in Nat
      BY <3>1
    <3>4. charge(i) \in ItemType
      BY <3>1, <3>3, ChargeStays DEF Dated, NoDay
    <3> QED
      BY <3>2, <3>4
  <2>2. DOMAIN charged = 1..Len(charged) /\ Len(charged) \in Nat
    BY ChargesAre, LenProperties
  <2>3. result = FromItems(items, b.subtotal, b.total, amounts)
    BY <1>2 DEF ReadFolio
  <2> HIDE DEF charge, result
  <2>4. items \in Seq(ItemType)
    <3>1. items \in [1..Len(charged) -> ItemType]
      BY <2>1, <2>2
    <3> HIDE DEF items, charged
    <3> QED BY <2>2, <3>1, IsASeq
  <2>5. amounts = Amounts(charged)
    BY <2>1 DEF Amounts
  <2>6. charged # <<>> => items # <<>>
    <3>1. DOMAIN items = DOMAIN charged
      OBVIOUS
    <3>2. charged # <<>> => Len(charged) # 0
      BY <2>2, ChargesAre, EmptySeq
    <3>3. charged # <<>> => 1 \in DOMAIN items
      BY <2>2, <3>1, <3>2
    <3>4. DOMAIN <<>> = {}
      OBVIOUS
    <3> HIDE DEF items, charged
    <3> QED
      BY <3>3, <3>4
  <2> HIDE DEF items, amounts, charged
  <2>7. IF SumFunction(amounts) = b.subtotal
        THEN /\ result.status = "extracted" /\ result.items = items
             /\ result.subtotal = b.subtotal /\ result.total = b.total
        ELSE result.status # "extracted" /\ result.items = items
    BY <1>2, <2>3 DEF FromItems, NeedsInput, Reconciles
  <2>8. Amounts(items) = amounts
    BY DEF amounts
  <2>9. b.subtotal \in Nat /\ b.total \in Nat \cup {Unread}
    BY <1>2, BillIs
  <2>10. result.status = "extracted" =>
           TaxOf(result) = IF b.total = Unread \/ b.total < b.subtotal THEN 0
                           ELSE b.total - b.subtotal
    BY <1>2, <2>7 DEF TaxOf
  <2>11. ReadAs(b, result)
    <3> SUFFICES ASSUME result.status = "extracted", TaxOf(result) # 0
                 PROVE  /\ b.subtotal < b.total
                        /\ TaxOf(result) = b.total - b.subtotal
      BY <1>2, <2>4, <2>5, <2>7, <2>8 DEF ReadAs, charged
    <3> QED
      BY <2>9, <2>10
  <2>12. Whole(b, result)
    <3> SUFFICES ASSUME result.status = "extracted", b.total # Unread, b.subtotal <= b.total
                 PROVE  SumFunction(Amounts(result.items)) + TaxOf(result) = b.total
      BY DEF Whole
    <3>1. SumFunction(Amounts(result.items)) = b.subtotal
      BY <2>7, <2>8
    <3>2. TaxOf(result) = b.total - b.subtotal
      BY <2>9, <2>10
    <3> QED
      BY <2>9, <3>1, <3>2
  <2>13. Within(b, result)
    <3> SUFFICES ASSUME result.status = "extracted"
                 PROVE  SumFunction(Amounts(result.items)) + TaxOf(result) =<
                            IF b.total > b.subtotal THEN b.total ELSE Positive(b.subtotal)
      BY DEF Within
    <3>1. SumFunction(Amounts(result.items)) = b.subtotal
      BY <2>7, <2>8
    <3> QED
      BY <2>9, <2>10, <3>1 DEF Positive, Unread
  <2> QED
    BY <1>2, <2>5, <2>6, <2>7, <2>11, <2>12, <2>13 DEF result, charged
<1> QED
  BY <1>1, <1>2

\* What the claimant entered brings no tax.
LEMMA TypedIs ==
    ASSUME NEW b \in BillType
    PROVE  ReadAs(b, AsResult(b))
<1> DEFINE charge(i) == [Charge(b, b.typed[i].label, b.typed[i].amount) EXCEPT
                            !.clock = Unread, !.payer = "nobody",
                            !.day = b.typed[i].day, !.nights = b.typed[i].nights]
           items == [i \in DOMAIN b.typed |-> charge(i)]
           T == [label : STRING, amount : Nat, day : Dated, nights : Nat]
<1>1. b.typed \in Seq(T)
  BY BillIs
<1>2. \A i \in DOMAIN b.typed : charge(i) \in ItemType
  <2> TAKE i \in DOMAIN b.typed
  <2>1. b.typed[i] \in T
    <3> HIDE DEF T
    <3> QED BY <1>1, ElementOfSeq, LenProperties
  <2>2. Charge(b, b.typed[i].label, b.typed[i].amount) \in ItemType
    BY <2>1, ChargeIs
  <2> QED
    BY <2>1, <2>2, ChargeStays
<1>3. DOMAIN b.typed = 1..Len(b.typed) /\ Len(b.typed) \in Nat
  <2> HIDE DEF T
  <2> QED BY <1>1, LenProperties
<1> HIDE DEF charge
<1>4. items \in Seq(ItemType)
  <2>1. items \in [1..Len(b.typed) -> ItemType]
    BY <1>2, <1>3
  <2> HIDE DEF items
  <2> QED BY <1>3, <2>1, IsASeq
<1>5. AsResult(b).items = items /\ AsResult(b).subtotal = Unread
  BY DEF AsResult, charge
<1> QED
  BY <1>4, <1>5 DEF ReadAs, TaxOf

\* However a bill is read.
LEMMA ReadIs ==
    ASSUME NEW b \in BillType, b.kind \in Producing
    PROVE  /\ ReadAs(b, Read(b))
           /\ b.kind # "flight" /\ b.typed = <<>> => Whole(b, Read(b))
           /\ /\ b.kind = "hotel" /\ b.known /\ b.typed = <<>>
              /\ Readable(b.rows) # <<>>
              /\ b.subtotal # Unread
              /\ SumFunction(Amounts(Readable(b.rows))) # b.subtotal
              => Read(b).status # "extracted"
<1>1. /\ ReadAs(b, ReadSpecific(b))
      /\ b.kind # "flight" => Whole(b, ReadSpecific(b))
  <2>1. CASE ~b.known
    <3>1. ReadSpecific(b) = NeedsInput(<<>>)
      BY <2>1 DEF ReadSpecific
    <3> QED
      BY <3>1, InputIsNeeded DEF NeedsInput
  <2>2. CASE b.known /\ b.kind \in {"cab", "forward"}
    BY <2>2, RideIs DEF ReadSpecific
  <2>3. CASE b.known /\ b.kind = "flight"
    BY <2>3, FlightsAre DEF ReadSpecific
  <2>4. CASE b.known /\ b.kind = "hotel"
    BY <2>4, FolioIs DEF ReadSpecific
  <2>5. CASE b.known /\ b.kind = "restaurant"
    BY <2>5, RestaurantBillIs DEF ReadSpecific
  <2> QED
    BY <2>1, <2>2, <2>3, <2>4, <2>5 DEF Producing
<1>2. /\ ReadAs(b, Extract(b))
      /\ b.kind # "flight" => Whole(b, Extract(b))
  BY <1>1, GenericIs DEF Extract
<1>3. /\ b.kind = "hotel" /\ b.known
      /\ Readable(b.rows) # <<>>
      /\ b.subtotal # Unread
      /\ SumFunction(Amounts(Readable(b.rows))) # b.subtotal
      => Extract(b).status # "extracted"
  <2> SUFFICES ASSUME b.kind = "hotel", b.known, Readable(b.rows) # <<>>, b.subtotal # Unread,
                      SumFunction(Amounts(Readable(b.rows))) # b.subtotal
               PROVE  Extract(b).status # "extracted"
    OBVIOUS
  <2>1. ReadFolio(b).status # "extracted" /\ ReadFolio(b).items # <<>>
    BY FolioIs
  <2>2. ReadSpecific(b) = ReadFolio(b)
    BY DEF ReadSpecific
  <2> QED
    BY <2>1, <2>2 DEF Extract, FallbackAllowed
<1> QED
  BY <1>2, <1>3, TypedIs DEF Read

-----------------------------------------------------------------------------
(* A bill's tax on its charges *)

\* Rounding to the nearest adds half a unit at most.
LEMMA HalfUpIs ==
    ASSUME NEW a \in Nat, NEW n \in Nat \ {0}
    PROVE  HalfUp(a, n) \in Nat /\ (2 * n) * HalfUp(a, n) <= 2 * a + n
<1> DEFINE x == 2 * a + n
           y == 2 * n
<1>1. x \in Nat /\ y \in Nat \ {0} /\ y > 0
  OBVIOUS
<1> HIDE DEF x, y
<1>2. x \div y \in Nat /\ y * (x \div y) <= x
  BY <1>1
<1> QED
  BY <1>2 DEF HalfUp, x, y

\* Rounding every share adds half a unit for each charge at most.
LEMMA RoundedIs ==
    ASSUME NEW N \in Nat \ {0}, NEW amounts \in [1..N -> Nat], NEW S \in Nat \ {0},
           SumFunctionOnSet(amounts, 1..N) = S, NEW tax \in Nat,
           NEW rounded, \A i \in 1..N : rounded[i] = HalfUp(amounts[i] * tax, S)
    PROVE  /\ \A i \in 1..N : rounded[i] \in Nat
           /\ SumFunctionOnSet(rounded, 1..N) \in Nat
           /\ 2 * SumFunctionOnSet(rounded, 1..N) <= 2 * tax + N
<1> DEFINE D == 1..N
           S2 == 2 * S
           tax2 == 2 * tax
           f == [i \in D |-> S2 * rounded[i]]
           g == [i \in D |-> tax2 * amounts[i]]
           one == [i \in D |-> 1]
           h == [i \in D |-> S * one[i]]
           k == [i \in D |-> g[i] + h[i]]
           sum(e) == SumFunctionOnSet(e, D)
<1>1. IsFiniteSet(D) /\ Cardinality(D) = N
  BY FS_Interval
<1>2. \A a, b \in Nat : a * b \in Nat
  OBVIOUS
<1>3. S2 \in Nat /\ tax2 \in Nat /\ S2 \in Int /\ tax2 \in Int /\ S \in Int
  OBVIOUS
<1>4. \A i \in D : amounts[i] \in Nat /\ amounts[i] * tax \in Nat
  BY <1>2
<1>5. \A i \in D : rounded[i] \in Nat /\ S2 * rounded[i] <= 2 * (amounts[i] * tax) + S
  BY <1>4, HalfUpIs
<1>6. \A i \in D : tax2 * amounts[i] = 2 * (amounts[i] * tax)
  BY <1>4
<1> HIDE DEF S2, tax2, D
<1>7. \A i \in D : /\ f[i] = S2 * rounded[i] /\ g[i] = tax2 * amounts[i]
                   /\ one[i] = 1 /\ h[i] = S * one[i] /\ k[i] = g[i] + h[i]
  OBVIOUS
<1> HIDE DEF f, g, one, h, k
<1>8. \A i \in D : /\ rounded[i] \in Int /\ amounts[i] \in Int /\ one[i] \in Int
                   /\ f[i] \in Int /\ g[i] \in Int /\ h[i] \in Int /\ k[i] \in Int
  <2> TAKE i \in D
  <2>1. rounded[i] \in Nat /\ amounts[i] \in Nat
    BY <1>4, <1>5
  <2>2. S2 * rounded[i] \in Nat /\ tax2 * amounts[i] \in Nat
    BY <1>2, <1>3, <2>1
  <2>3. h[i] = S /\ one[i] = 1
    BY <1>3, <1>7
  <2>4. f[i] \in Nat /\ g[i] \in Nat
    BY <1>7, <2>2
  <2>5. k[i] = g[i] + h[i]
    BY <1>7
  <2>6. rounded[i] \in Int /\ amounts[i] \in Int
    BY <2>1
  <2>7. one[i] \in Int /\ h[i] \in Int
    BY <1>3, <2>3
  <2>8. f[i] \in Int /\ g[i] \in Int
    BY <2>4
  <2>9. k[i] \in Int
    BY <2>5, <2>7, <2>8
  <2> QED
    BY <2>6, <2>7, <2>8, <2>9
<1>9. \A i \in D : f[i] <= k[i]
  <2> TAKE i \in D
  <2>1. h[i] = S
    BY <1>3, <1>7
  <2>2. f[i] <= g[i] + S
    BY <1>5, <1>6, <1>7
  <2> QED
    BY <1>7, <2>1, <2>2
<1>10. sum(rounded) \in Nat
  <2>1. \A i \in D : rounded[i] \in Nat
    BY <1>5
  <2> QED
    BY <1>1, <1>8, <2>1, SumType
<1>11. sum(f) <= sum(k)
  BY <1>1, <1>8, <1>9, SumsCompare
<1>12. sum(f) = S2 * sum(rounded)
  <2>1. \A i \in D : rounded[i] \in Int /\ f[i] = S2 * rounded[i]
    BY <1>7, <1>8
  <2> QED
    BY <1>1, <1>3, <2>1, SumsScale
<1>13. sum(g) = tax2 * S
  <2>1. sum(amounts) = S
    BY DEF D
  <2>2. \A i \in D : amounts[i] \in Int /\ g[i] = tax2 * amounts[i]
    BY <1>7, <1>8
  <2>3. \A c \in Int : (\A i \in D : amounts[i] \in Int /\ g[i] = c * amounts[i]) =>
                         sum(g) = c * sum(amounts)
    BY <1>1, SumsScale
  <2>4. sum(g) = tax2 * sum(amounts)
    BY <1>3, <2>2, <2>3
  <2> QED
    BY <2>1, <2>4
<1>14. sum(h) = S * N
  <2>1. sum(one) = N
    BY <1>1, <1>7, SumOfOnes
  <2>2. \A i \in D : one[i] \in Int /\ h[i] = S * one[i]
    BY <1>7, <1>8
  <2>3. sum(h) = S * sum(one)
    BY <1>1, <1>3, <2>2, SumsScale
  <2> QED
    BY <2>1, <2>3
<1>15. sum(k) = sum(g) + sum(h)
  <2>1. \A i \in D : k[i] \in Int /\ g[i] \in Int /\ h[i] \in Int /\ k[i] = g[i] + h[i]
    BY <1>7, <1>8
  <2> QED
    BY <1>1, <2>1, SumsAdd
<1> HIDE DEF sum
<1>16. 2 * sum(rounded) <= 2 * tax + N
  <2> DEFINE x == 2 * sum(rounded)
             y == 2 * tax + N
  <2>1. x \in Nat /\ y \in Nat
    BY <1>10
  <2>2. S2 * sum(rounded) = S * x /\ tax2 * S + S * N = S * y
    BY <1>10 DEF S2, tax2
  <2>3. S * x <= S * y
    BY <1>11, <1>12, <1>13, <1>14, <1>15, <2>2
  <2> HIDE DEF x, y
  <2>4. x <= y
    BY <2>1, <2>3
  <2> QED
    BY <2>4 DEF x, y
<1> QED
  BY <1>5, <1>10, <1>16 DEF sum, D

\* The shares add up to the tax, and no charge is left with less than nothing.
LEMMA ApportionIs ==
    ASSUME NEW N \in Nat \ {0}, NEW amounts \in [1..N -> Nat], NEW S \in Nat \ {0},
           SumFunction(amounts) = S, NEW tax \in Nat,
           \E j \in 1..N : N <= 2 * amounts[j]
    PROVE  LET shares == ApportionTax(amounts, tax) IN
           /\ shares \in [1..N -> Int]
           /\ \A i \in 1..N : amounts[i] + shares[i] \in Nat
           /\ SumFunction(shares) = tax
<1> DEFINE rounded == [i \in 1..N |-> HalfUp(amounts[i] * tax, S)]
           First(i) == /\ \A j \in 1..N : amounts[j] <= amounts[i]
                       /\ \A j \in 1..i - 1 : amounts[j] < amounts[i]
           largest == CHOOSE i \in 1..N : First(i)
           left == tax - SumFunction(rounded)
           shares == [rounded EXCEPT ![largest] = @ + left]
<1>1. ApportionTax(amounts, tax) = shares
  BY DEF ApportionTax
<1>2. largest \in 1..N /\ First(largest)
  <2>1. \E i \in 1..N : First(i)
    BY FirstLargest
  <2> HIDE DEF First
  <2> QED BY <2>1
<1>3. SumFunction(rounded) = SumFunctionOnSet(rounded, 1..N)
      /\ SumFunctionOnSet(amounts, 1..N) = S
  BY DEF SumFunction
<1>4. /\ \A i \in 1..N : rounded[i] \in Nat
      /\ SumFunction(rounded) \in Nat
      /\ 2 * SumFunction(rounded) <= 2 * tax + N
  <2>1. \A i \in 1..N : rounded[i] = HalfUp(amounts[i] * tax, S)
    OBVIOUS
  <2> HIDE DEF rounded
  <2> QED BY <1>3, <2>1, RoundedIs
<1>5. DOMAIN rounded = 1..N
  OBVIOUS
<1>6. N <= 2 * amounts[largest] /\ amounts[largest] \in Nat
  <2>1. PICK j \in 1..N : N <= 2 * amounts[j]
    OBVIOUS
  <2> HIDE DEF largest
  <2>2. amounts[j] \in Nat /\ amounts[largest] \in Nat /\ amounts[j] <= amounts[largest]
    BY <1>2
  <2> QED
    BY <2>1, <2>2
<1> HIDE DEF rounded, largest, First
<1>7. left \in Int /\ 2 * left >= -N
  BY <1>4
<1>8. /\ shares[largest] = rounded[largest] + left
      /\ \A i \in 1..N \ {largest} : shares[i] = rounded[i]
      /\ shares = [i \in 1..N |-> shares[i]]
  BY <1>2, <1>5
<1> HIDE DEF left, shares
<1>9. ASSUME NEW i \in 1..N
      PROVE  shares[i] \in Int /\ amounts[i] + shares[i] \in Nat
  <2>1. amounts[i] \in Nat /\ rounded[i] \in Nat
    BY <1>4
  <2>2. CASE i = largest
    <3>1. shares[i] = rounded[i] + left
      BY <1>8, <2>2
    <3>2. amounts[i] \in Nat /\ N <= 2 * amounts[i]
      BY <1>6, <2>2
    <3>3. \A a, r \in Nat : N <= 2 * a => r + left \in Int /\ a + (r + left) \in Nat
      BY <1>7
    <3> QED
      BY <2>1, <3>1, <3>2, <3>3
  <2>3. CASE i # largest
    <3>1. shares[i] = rounded[i]
      BY <1>8, <2>3
    <3> QED
      BY <2>1, <3>1
  <2> QED
    BY <2>2, <2>3
<1>10. SumFunction(shares) = tax
  <2>1. IsFiniteSet(1..N)
    BY FS_Interval
  <2>2. SumFunctionOnSet(shares, 1..N) = SumFunctionOnSet(rounded, 1..N) + left
    <3> DEFINE D == 1..N
    <3>1. /\ IsFiniteSet(D) /\ largest \in D /\ left \in Int
          /\ \A i \in D : rounded[i] \in Int
          /\ shares[largest] = rounded[largest] + left
          /\ \A i \in D \ {largest} : shares[i] = rounded[i]
      <4>1. \A i \in D : rounded[i] \in Int
        BY <1>4
      <4> QED
        BY <1>2, <1>7, <1>8, <2>1, <4>1
    <3> HIDE DEF D
    <3>2. SumFunctionOnSet(shares, D) = SumFunctionOnSet(rounded, D) + left
      BY <3>1, SumChanged
    <3> QED
      BY <3>2 DEF D
  <2>3. SumFunction(shares) = SumFunctionOnSet(shares, 1..N)
    <3>1. DOMAIN shares = 1..N
      BY <1>8
    <3> QED
      BY <3>1 DEF SumFunction
  <2> QED
    BY <1>3, <1>4, <2>2, <2>3 DEF left
<1> QED
  BY <1>1, <1>8, <1>9, <1>10

\* Every charge gets a share that leaves it a worth, and the shares are the tax that is added.
LEMMA SharesAre ==
    ASSUME NEW b \in BillType, TaxCanBeShared(b), NEW result, ReadAs(b, result),
           result.status = "extracted"
    PROVE  LET paired == WithTaxShares(result) IN
           /\ DOMAIN paired = 1..Len(result.items)
           /\ \A i \in 1..Len(result.items) :
                 /\ paired[i].item = result.items[i]
                 /\ paired[i].share \in Int
                 /\ result.items[i].amount + paired[i].share \in Nat
           /\ SumFunction([i \in DOMAIN paired |-> paired[i].share]) = TaxOf(result)
<1> DEFINE items == result.items
           N == Len(items)
           amounts == Amounts(items)
           tax == TaxOf(result)
           shares == IF amounts = <<>> \/ tax = 0 THEN [i \in DOMAIN amounts |-> 0]
                     ELSE ApportionTax(amounts, tax)
           paired == WithTaxShares(result)
<1>1. items \in Seq(ItemType)
  BY DEF ReadAs
<1>2. N \in Nat /\ DOMAIN items = 1..N /\ \A i \in 1..N : items[i] \in ItemType
  <2> HIDE DEF items
  <2> QED BY <1>1, LenProperties, ElementOfSeq
<1>3. amounts \in [1..N -> Nat] /\ \A i \in 1..N : amounts[i] = items[i].amount
  <2>1. \A i \in 1..N : items[i].amount \in Nat
    BY <1>2 DEF ItemType
  <2> QED
    BY <1>2, <2>1 DEF Amounts
<1>4. paired = [i \in 1..N |-> [item |-> items[i], share |-> shares[i]]]
  <2>1. DOMAIN amounts = 1..N
    BY <1>3
  <2> QED
    BY <2>1 DEF WithTaxShares
<1>5. /\ shares \in [1..N -> Int]
      /\ \A i \in 1..N : amounts[i] + shares[i] \in Nat
      /\ SumFunction(shares) = tax
  <2>1. CASE tax = 0
    <3>1. shares = [i \in 1..N |-> 0]
      BY <1>3, <2>1
    <3>2. IsFiniteSet(1..N)
      BY <1>2, FS_Interval
    <3> HIDE DEF shares
    <3>3. SumFunction(shares) = SumFunctionOnSet(shares, 1..N)
      BY <3>1 DEF SumFunction
    <3>4. SumFunctionOnSet(shares, 1..N) = SumFunctionOnSet(shares, {})
      <4> DEFINE D == 1..N
      <4>1. \A x \in D : shares[x] \in Int /\ shares[x] = 0
        BY <3>1
      <4>2. {} \in SUBSET D /\ D \ {} = D
        OBVIOUS
      <4> HIDE DEF D
      <4> QED
        BY <3>2, <4>1, <4>2, SumOfSome DEF D
    <3>5. SumFunctionOnSet(shares, {}) = 0
      BY FS_EmptySet, SumStep
    <3>6. \A i \in 1..N : shares[i] \in Int /\ amounts[i] + shares[i] \in Nat
      BY <1>3, <3>1
    <3> QED
      BY <2>1, <3>1, <3>3, <3>4, <3>5, <3>6
  <2>2. CASE tax # 0
    <3>1. /\ b.kind = "hotel" /\ b.subtotal # Unread /\ b.subtotal < b.total
          /\ tax = b.total - b.subtotal
          /\ amounts = Amounts(Readable(b.rows))
          /\ SumFunction(amounts) = b.subtotal
      BY <2>2 DEF ReadAs
    <3>2. b.subtotal \in Nat /\ b.total \in Nat
      BY <3>1, BillIs DEF Unread
    <3>3. tax \in Nat
      BY <3>1, <3>2
    <3>4. /\ b.subtotal > 0
          /\ \A i \in DOMAIN amounts : \E j \in DOMAIN amounts : Len(amounts) <= 2 * amounts[j]
      BY <3>1 DEF TaxCanBeShared
    <3>5. N # 0
      <4> SUFFICES ASSUME N = 0 PROVE FALSE
        OBVIOUS
      <4>1. DOMAIN amounts = {}
        BY <1>3
      <4>2. SumFunction(amounts) = 0
        BY <4>1, FS_EmptySet, SumStep DEF SumFunction
      <4> QED
        BY <3>1, <3>2, <3>4, <4>2
    <3>6. Len(amounts) = N /\ DOMAIN amounts = 1..N
      <4>1. amounts \in Seq(Nat) /\ DOMAIN amounts = 1..N
        <5> HIDE DEF amounts, N
        <5> QED BY <1>2, <1>3, IsASeq
      <4> HIDE DEF amounts, N
      <4> QED BY <1>2, <4>1, LenProperties
    <3>7. \E j \in 1..N : N <= 2 * amounts[j]
      <4>1. 1 \in DOMAIN amounts
        BY <1>2, <3>5, <3>6
      <4> HIDE DEF amounts, N
      <4> QED BY <3>4, <3>6, <4>1
    <3>8. amounts # <<>>
      <4>1. 1 \in DOMAIN amounts
        BY <1>2, <3>5, <3>6
      <4> QED
        BY <4>1
    <3>9. shares = ApportionTax(amounts, tax)
      BY <2>2, <3>8
    <3> HIDE DEF amounts, shares, tax, N
    <3>10. N \in Nat \ {0} /\ b.subtotal \in Nat \ {0}
      BY <1>2, <3>2, <3>4, <3>5
    <3> QED
      BY <1>3, <3>1, <3>3, <3>7, <3>9, <3>10, ApportionIs
  <2> QED
    BY <2>1, <2>2
<1> HIDE DEF items, N, amounts, tax, shares, paired
<1>6. [i \in DOMAIN paired |-> paired[i].share] = shares
  <2>1. shares = [i \in 1..N |-> shares[i]]
    BY <1>5
  <2> QED
    BY <1>4, <2>1
<1>7. /\ DOMAIN paired = 1..N
      /\ \A i \in 1..N : paired[i].item = items[i] /\ paired[i].share = shares[i]
  BY <1>4
<1>8. /\ \A i \in 1..N : /\ paired[i].item = items[i] /\ paired[i].share \in Int
                         /\ items[i].amount + paired[i].share \in Nat
      /\ SumFunction([i \in DOMAIN paired |-> paired[i].share]) = tax
  BY <1>3, <1>5, <1>6, <1>7
<1> QED
  BY <1>7, <1>8 DEF items, N, tax, paired

-----------------------------------------------------------------------------
(* The charges a trip's bills bring *)

EntryType ==
    {entry \in [item : ItemType, share : Int, kind : Producing, proof : Nat, hosted : BOOLEAN] :
        entry.item.amount + entry.share \in Nat}

\* The bills of a trip, as long as none is changed but by forwarding it.
SoundBills(bs) ==
    /\ IsFiniteSet(bs)
    /\ \A b \in bs : b \in BillType /\ TaxCanBeShared(b)
    /\ \A a, b \in bs : a.file = b.file => a = b

\* What a bill brings.
LEMMA EntriesOfAre ==
    ASSUME NEW b \in BillType, TaxCanBeShared(b)
    PROVE  EntriesOf(b) \in Seq(EntryType)
<1>1. CASE b.kind \notin Producing \/ Read(b).status # "extracted"
  BY <1>1, EmptySeq DEF EntriesOf
<1>2. CASE b.kind \in Producing /\ Read(b).status = "extracted"
  <2> DEFINE result == Read(b)
             items == result.items
             N == Len(items)
             paired == WithTaxShares(result)
             entry(i) == [item |-> paired[i].item, share |-> paired[i].share, kind |-> b.kind,
                          proof |-> b.file, hosted |-> b.hosted]
  <2>1. ReadAs(b, result) /\ items \in Seq(ItemType)
    BY <1>2, ReadIs DEF ReadAs
  <2>2. EntriesOf(b) = [i \in DOMAIN paired |-> entry(i)]
    BY <1>2 DEF EntriesOf
  <2> HIDE DEF result
  <2>3. /\ DOMAIN paired = 1..N
        /\ \A i \in 1..N : /\ paired[i].item = items[i]
                            /\ paired[i].share \in Int
                            /\ items[i].amount + paired[i].share \in Nat
    BY <1>2, <2>1, SharesAre DEF result
  <2>4. N \in Nat /\ \A i \in 1..N : items[i] \in ItemType
    <3> HIDE DEF items
    <3> QED BY <2>1, LenProperties, ElementOfSeq
  <2> HIDE DEF paired, items, N
  <2>5. \A i \in 1..N : entry(i) \in EntryType
    <3> TAKE i \in 1..N
    <3>1. b.file \in Nat /\ b.hosted \in BOOLEAN
      BY DEF BillType
    <3> QED
      BY <1>2, <2>3, <2>4, <3>1 DEF EntryType
  <2>6. EntriesOf(b) \in [1..N -> EntryType]
    <3> HIDE DEF entry
    <3> QED BY <2>2, <2>3, <2>5
  <2> QED
    BY <2>4, <2>6, IsASeq
<1> QED
  BY <1>1, <1>2

\* What they all bring, in the order of their files.
LEMMA EntriesAre ==
    ASSUME NEW bs, SoundBills(bs), NEW X, \A b \in bs : EntriesOf(b) \in Seq(X)
    PROVE  Entries(bs) \in Seq(X)
<1> DEFINE ordered == InOrder(bs)
           place == [b \in bs |-> b.file]
           N == Cardinality(bs)
           each == [n \in DOMAIN ordered |-> EntriesOf(ordered[n])]
<1>1. /\ IsFiniteSet(bs)
      /\ \A b \in bs : place[b] = b.file /\ place[b] \in Nat
      /\ \A a, b \in bs : place[a] = place[b] => a = b
  BY DEF SoundBills, BillType
<1>2. ordered = Sorted(bs, place)
  BY DEF InOrder
<1> HIDE DEF place, ordered
<1>3. /\ DOMAIN ordered = 1..N /\ N \in Nat
      /\ \A n \in 1..N : ordered[n] \in bs
  BY <1>1, <1>2, SortedIs
<1>4. \A n \in 1..N : EntriesOf(ordered[n]) \in Seq(X)
  BY <1>3
<1>5. each \in Seq(Seq(X))
  <2>1. each \in [1..N -> Seq(X)]
    BY <1>3, <1>4
  <2> HIDE DEF each, N
  <2> QED BY <1>3, <2>1, IsASeq
<1>6. Entries(bs) = FlattenSeq(each)
  BY DEF Entries, ordered
<1> HIDE DEF each
<1>7. PICK flat : Flattens(flat, each, X)
  BY <1>5, FlattenIs
<1>8. Len(each) \in Nat
  BY <1>5, LenProperties
<1> QED
  BY <1>6, <1>7, <1>8 DEF Flattens

-----------------------------------------------------------------------------
(* The lines of a claim *)

\* A line the engine can judge. One that policy looks at was paid by the claimant.
SoundLine(line) ==
    /\ line \in LineType
    /\ Claimable(line) \in Nat
    /\ line.preset = "none" => line.paidBy = "Employee"

\* A charge is drafted as one.
LEMMA LineIs ==
    ASSUME NEW entry \in EntryType
    PROVE  SoundLine(DraftLine(entry))
<1> DEFINE line == DraftLine(entry)
<1>1. /\ entry.item \in ItemType /\ entry.share \in Int /\ entry.kind \in Producing
      /\ entry.proof \in Nat /\ entry.item.amount + entry.share \in Nat
  BY DEF EntryType
<1>2. /\ entry.item.label \in STRING /\ entry.item.amount \in Nat
      /\ entry.item.day \in Dated /\ entry.item.nights \in Nat
  BY <1>1 DEF ItemType
<1>3. ClassifyHead(entry) \in Heads
  <2>1. CASE entry.kind \in {"cab", "forward", "flight"}
    BY <2>1 DEF ClassifyHead, Heads
  <2>2. CASE entry.kind = "hotel"
    BY <2>2 DEF ClassifyHead, Heads
  <2>3. CASE entry.kind = "restaurant"
    BY <2>3 DEF ClassifyHead, Heads
  <2> QED
    BY <1>1, <2>1, <2>2, <2>3 DEF Producing
<1>4. DerivePaidBy(entry.item) \in {"Company", "Employee"}
  BY DEF DerivePaidBy
<1>5. /\ Preset(entry) \in {"none", "withdrawn", "rejected", "memo"}
      /\ Preset(entry) = "none" => DerivePaidBy(entry.item) = "Employee"
  BY <1>4 DEF Preset
<1>6. line \in LineType
  BY <1>1, <1>2, <1>3, <1>4, <1>5 DEF DraftLine, LineType
<1>7. /\ Claimable(line) = entry.item.amount + entry.share
      /\ line.preset = Preset(entry) /\ line.paidBy = DerivePaidBy(entry.item)
  BY DEF DraftLine, Claimable
<1> HIDE DEF line
<1>8. SoundLine(line)
  BY <1>1, <1>5, <1>6, <1>7 DEF SoundLine
<1> QED
  BY <1>8 DEF line

\* So are a trip's.
LEMMA DraftIs ==
    ASSUME NEW bs, SoundBills(bs)
    PROVE  /\ IsFiniteSet(DOMAIN DraftLines(bs))
           /\ \A n \in DOMAIN DraftLines(bs) : SoundLine(DraftLines(bs)[n])
<1> DEFINE entries == Entries(bs)
           place == [i \in Kept(entries) |-> i]
           kept == Sorted(Kept(entries), place)
           N == Cardinality(Kept(entries))
<1>1. entries \in Seq(EntryType)
  BY EntriesAre, EntriesOfAre DEF SoundBills
<1>2. Len(entries) \in Nat /\ \A i \in DOMAIN entries : entries[i] \in EntryType
  BY <1>1, LenProperties, ElementOfSeq
<1>3. DOMAIN entries = 1..Len(entries)
  BY <1>1, LenProperties
<1>4. Kept(entries) \subseteq DOMAIN entries /\ IsFiniteSet(Kept(entries))
  <2>1. Kept(entries) \subseteq DOMAIN entries
    BY DEF Kept
  <2> HIDE DEF entries
  <2>2. IsFiniteSet(1..Len(entries))
    BY <1>2, FS_Interval
  <2> QED
    BY <1>3, <2>1, <2>2, FS_Subset
<1>5. DraftLines(bs) = [n \in DOMAIN kept |-> DraftLine(entries[kept[n]])]
  BY DEF DraftLines
<1> HIDE DEF entries
<1>6. /\ \A i \in Kept(entries) : place[i] = i /\ place[i] \in Nat
      /\ \A i, j \in Kept(entries) : place[i] = place[j] => i = j
  BY <1>2, <1>3, <1>4
<1> HIDE DEF place
<1>7. /\ DOMAIN kept = 1..N /\ N \in Nat
      /\ \A n \in 1..N : kept[n] \in Kept(entries)
  BY <1>4, <1>6, SortedIs
<1> HIDE DEF kept, N
<1>8. \A n \in 1..N : SoundLine(DraftLine(entries[kept[n]]))
  BY <1>2, <1>4, <1>7, LineIs
<1>9. IsFiniteSet(1..N)
  BY <1>7, FS_Interval
<1> QED
  BY <1>5, <1>7, <1>8, <1>9

-----------------------------------------------------------------------------
(* What is evaluated *)

\* What becomes of a line: settled before policy it is worth nothing; judged, what is allowed
\* and what is disallowed are what was claimed.
Judged(line, outcome) ==
    /\ outcome \in OutcomeType
    /\ IF line.preset # "none" THEN outcome = Excluded(line.preset)
       ELSE /\ outcome.status \in {"allowed", "disallowed", "held"}
            /\ outcome.allowed + outcome.disallowed = Claimable(line)

\* The inductive invariant of an evaluation: bills that can be read, lines that can be judged,
\* and outcomes that follow from them.
Evaluated ==
    /\ SoundBills(bills)
    /\ withdrawn \subseteq STRING
    /\ phase \in {"reading", "judging", "settled"}
    /\ IsFiniteSet(DOMAIN lines)
    /\ \A i \in DOMAIN lines : SoundLine(lines[i])
    /\ DOMAIN outcomes \subseteq DOMAIN lines
    /\ \A i \in DOMAIN outcomes : Judged(lines[i], outcomes[i])
    /\ claimed \in [Days -> Nat]

\* A line that can be judged is priced.
LEMMA SoundLineIsPriced ==
    ASSUME NEW line, SoundLine(line)
    PROVE  Priced(line)
BY DEF SoundLine, LineType, Priced, Dated

\* A line is judged in one of these ways.
LEMMA OutcomeIs ==
    ASSUME NEW line, SoundLine(line), Tallied(claimed)
    PROVE  Judged(line, OutcomeOf(line))
<1>1. CASE line.preset # "none"
  <2>1. line.preset \in {"withdrawn", "rejected", "memo"}
    BY <1>1 DEF SoundLine, LineType
  <2> QED
    BY <1>1, <2>1 DEF OutcomeOf, Excluded, Judged, OutcomeType
<1>2. CASE line.preset = "none"
  <2> DEFINE o == EvaluateOne(line, claimed)
  <2>1. OutcomeOf(line) = o
    BY <1>2 DEF OutcomeOf
  <2>2. Claimable(line) \in Nat
    BY DEF SoundLine
  <2>3. /\ o.allowed \in Nat /\ o.disallowed \in Nat
        /\ o.allowed = Claimable(line) - o.disallowed
    BY <2>2, SoundLineIsPriced, WhatIsAllowed
  <2>4. o.status \in {"allowed", "disallowed", "held"}
    BY DEF EvaluateOne
  <2>5. o = [status |-> o.status, allowed |-> o.allowed, disallowed |-> o.disallowed]
    BY DEF EvaluateOne
  <2> HIDE DEF o
  <2>6. o \in OutcomeType
    BY <2>3, <2>4, <2>5 DEF OutcomeType
  <2>7. o.allowed + o.disallowed = Claimable(line)
    BY <2>2, <2>3
  <2> QED
    BY <1>2, <2>1, <2>4, <2>6, <2>7 DEF Judged
<1> QED
  BY <1>1, <1>2

\* What judging a line adds.
LEMMA JudgeIs ==
    ASSUME NEW i \in DOMAIN lines, Judge(i)
    PROVE  /\ i \notin DOMAIN outcomes
           /\ DOMAIN outcomes' = DOMAIN outcomes \cup {i}
           /\ outcomes'[i] = OutcomeOf(lines[i])
           /\ \A j \in DOMAIN outcomes : outcomes'[j] = outcomes[j]
           /\ lines' = lines
BY DEF Judge, IsNext

\* A bill that is forwarded is a bill like the first.
LEMMA ForwardIs ==
    ASSUME Evaluated, NEW b \in bills, NEW file \in Files, NEW kind \in Kinds,
           NEW sender \in Senders \cup {b.sender}, Forward(b, file, kind, sender)
    PROVE  SoundBills(bills')
<1> DEFINE copy == [b EXCEPT !.file = file, !.kind = kind, !.sender = sender]
<1>1. /\ b \in BillType /\ TaxCanBeShared(b) /\ IsFiniteSet(bills)
      /\ file \in Nat /\ sender \in STRING
      /\ \A other \in bills : other.file # file
      /\ bills' = bills \cup {copy}
      /\ kind = b.kind \/ kind = "forward"
  BY SettlementAssumption DEF Evaluated, SoundBills, Forward, BillType
<1>2. copy \in BillType
  <2>1. [b EXCEPT !.file = file] \in BillType
    BY <1>1 DEF BillType
  <2>2. \A c \in BillType : [c EXCEPT !.kind = kind] \in BillType
    BY DEF BillType
  <2>3. \A c \in BillType : [c EXCEPT !.sender = sender] \in BillType
    BY <1>1 DEF BillType
  <2>4. copy = [[[b EXCEPT !.file = file] EXCEPT !.kind = kind] EXCEPT !.sender = sender]
    BY <1>1 DEF BillType
  <2> QED
    BY <2>1, <2>2, <2>3, <2>4, Zenon
<1>3. /\ copy.file = file /\ copy.kind = kind /\ copy.rows = b.rows
      /\ copy.subtotal = b.subtotal /\ copy.total = b.total
  BY <1>1 DEF BillType
<1> HIDE DEF copy
<1>4. TaxCanBeShared(copy)
  BY <1>1, <1>3 DEF TaxCanBeShared
<1>5. IsFiniteSet(bills')
  BY <1>1, FS_AddElement
<1>6. \A a, c \in bills' : a.file = c.file => a = c
  BY <1>1, <1>3 DEF Evaluated, SoundBills
<1> QED
  BY <1>1, <1>2, <1>4, <1>5, <1>6 DEF Evaluated, SoundBills

\* It is an invariant, whatever is withdrawn and forwarded.
LEMMA EvaluatedIsInvariant == Spec => []Evaluated
<1>1. Init => Evaluated
  <2> SUFFICES ASSUME Init PROVE Evaluated
    OBVIOUS
  <2>1. SoundBills(bills)
    BY TripsAssumption DEF Init, SoundBills
  <2>2. claimed \in [Days -> Nat]
    BY DEF Init, NothingClaimed
  <2>3. DOMAIN lines = {} /\ DOMAIN outcomes = {}
    BY DEF Init
  <2>4. IsFiniteSet(DOMAIN lines)
    BY <2>3, FS_EmptySet
  <2> QED
    BY <2>1, <2>2, <2>3, <2>4 DEF Init, Evaluated
<1>2. ASSUME Evaluated, [Next]_vars
      PROVE  Evaluated'
  <2>1. CASE Draft
    <3>1. IsFiniteSet(DOMAIN lines') /\ \A n \in DOMAIN lines' : SoundLine(lines'[n])
      BY <1>2, <2>1, DraftIs DEF Draft, Evaluated
    <3>2. DOMAIN outcomes' = {} /\ claimed' \in [Days -> Nat] /\ phase' = "judging"
      BY <2>1 DEF Draft, NothingClaimed
    <3>3. bills' = bills /\ withdrawn' = withdrawn
      BY <2>1 DEF Draft
    <3> QED
      BY <1>2, <3>1, <3>2, <3>3 DEF Evaluated
  <2>2. ASSUME NEW i \in DOMAIN lines, Judge(i)
        PROVE  Evaluated'
    <3> DEFINE o == OutcomeOf(lines[i])
    <3>1. Judged(lines[i], o)
      BY <1>2, OutcomeIs DEF Evaluated, Tallied
    <3>2. o.allowed \in Nat
      BY <3>1 DEF Judged, OutcomeType
    <3>3. claimed' \in [Days -> Nat]
      <4>1. CountsTowards(lines[i], o) \in Nat
        BY <3>2 DEF CountsTowards
      <4>2. claimed' = [d \in Days |-> IF d = lines[i].day
                                       THEN claimed[d] + CountsTowards(lines[i], o)
                                       ELSE claimed[d]]
        BY <2>2 DEF Judge
      <4> HIDE DEF o
      <4> QED
        BY <1>2, <4>1, <4>2 DEF Evaluated
    <3> HIDE DEF o
    <3>4. \A j \in DOMAIN outcomes' : Judged(lines'[j], outcomes'[j])
      BY <1>2, <2>2, <3>1, JudgeIs DEF Evaluated, o
    <3>5. bills' = bills /\ withdrawn' = withdrawn /\ phase' = phase /\ lines' = lines
      BY <2>2 DEF Judge
    <3>6. DOMAIN outcomes' \subseteq DOMAIN lines'
      BY <1>2, <2>2, JudgeIs DEF Evaluated
    <3> QED
      BY <1>2, <3>3, <3>4, <3>5, <3>6 DEF Evaluated
  <2>3. CASE Settle
    BY <1>2, <2>3 DEF Settle, Evaluated
  <2>4. ASSUME NEW what, Changing(what), withdrawn' \subseteq STRING, SoundBills(bills')
        PROVE  Evaluated'
    <3>1. DOMAIN lines' = {} /\ DOMAIN outcomes' = {} /\ phase' = "reading"
      BY <2>4 DEF Changing
    <3>2. claimed' \in [Days -> Nat]
      BY <2>4 DEF Changing, NothingClaimed
    <3>3. IsFiniteSet(DOMAIN lines')
      BY <3>1, FS_EmptySet
    <3> QED
      BY <2>4, <3>1, <3>2, <3>3 DEF Evaluated
  <2>5. ASSUME NEW i \in DOMAIN lines, Withdraw(lines[i].label)
        PROVE  Evaluated'
    <3>1. lines[i].label \in STRING
      BY <1>2 DEF Evaluated, SoundLine, LineType
    <3>2. withdrawn' \subseteq STRING /\ bills' = bills /\ Changing("withdrawn")
      BY <1>2, <2>5, <3>1 DEF Withdraw, Evaluated
    <3> QED
      BY <1>2, <2>4, <3>2 DEF Evaluated
  <2>6. ASSUME NEW b \in bills, NEW file \in Files, NEW kind \in Kinds,
               NEW sender \in Senders \cup {b.sender}, Forward(b, file, kind, sender)
        PROVE  Evaluated'
    <3>1. SoundBills(bills')
      BY <1>2, <2>6, ForwardIs
    <3>2. withdrawn' \subseteq STRING /\ \E what : Changing(what)
      BY <1>2, <2>6 DEF Forward, Evaluated
    <3> QED
      BY <2>4, <3>1, <3>2
  <2>7. CASE UNCHANGED vars
    BY <1>2, <2>7 DEF vars, Evaluated
  <2> QED
    BY <1>2, <2>1, <2>2, <2>3, <2>5, <2>6, <2>7 DEF Next
<1> QED
  BY <1>1, <1>2, PTL DEF Spec

-----------------------------------------------------------------------------
(* The settlement *)

\* The settlement is the summary of what was evaluated.
Settled ==
    /\ {summary.payable, summary.recoverable, summary.gross} \subseteq Nat
    /\ phase = "settled" => DOMAIN outcomes = DOMAIN lines /\ summary = Summary

\* The lines that count are those that policy gets to see.
LEMMA CountedAre ==
    ASSUME Evaluated, DOMAIN outcomes = DOMAIN lines
    PROVE  Counted = Reimbursed /\ Reimbursed = {i \in DOMAIN lines : lines[i].preset = "none"}
<1>1. \A i \in DOMAIN lines : SoundLine(lines[i]) /\ Judged(lines[i], outcomes[i])
  BY DEF Evaluated
<1>2. ASSUME NEW i \in DOMAIN lines
      PROVE  /\ outcomes[i].status \notin {"rejected", "withdrawn", "memo"}
                    <=> lines[i].preset = "none"
             /\ lines[i].preset = "none" => lines[i].paidBy = "Employee"
  <2>1. CASE lines[i].preset = "none"
    BY <1>1, <2>1 DEF SoundLine, Judged
  <2>2. CASE lines[i].preset # "none"
    <3>1. lines[i].preset \in {"withdrawn", "rejected", "memo"}
      BY <1>1, <2>2 DEF SoundLine, LineType
    <3>2. outcomes[i].status = lines[i].preset
      BY <1>1, <2>2 DEF Judged, Excluded
    <3> QED
      BY <2>2, <3>1, <3>2
  <2> QED
    BY <2>1, <2>2
<1> QED
  BY <1>2 DEF Counted, Reimbursed

\* The figures a summary is made of.
LEMMA SummaryIs ==
    ASSUME Evaluated, DOMAIN outcomes = DOMAIN lines
    PROVE  /\ Summary.gross \in Nat /\ Summary.disallowed \in Nat
           /\ Summary.net = Summary.gross - Summary.disallowed
           /\ Summary.payable = Positive(Summary.net - Advance)
           /\ Summary.recoverable = Positive(Advance - Summary.net)
           /\ Summary.net = SumFunction([i \in DOMAIN outcomes |-> outcomes[i].allowed])
<1> DEFINE D == DOMAIN lines
           worth == [i \in DOMAIN lines |-> Claimable(lines[i])]
           lost == [i \in DOMAIN outcomes |-> outcomes[i].disallowed]
           got == [i \in DOMAIN outcomes |-> outcomes[i].allowed]
           sum(f, T) == SumFunctionOnSet(f, T)
<1>1. /\ IsFiniteSet(D) /\ DOMAIN outcomes = D
      /\ \A i \in D : SoundLine(lines[i]) /\ Judged(lines[i], outcomes[i])
  BY DEF Evaluated
<1>2. \A i \in D : worth[i] \in Nat /\ lost[i] \in Nat /\ got[i] \in Nat
  BY <1>1 DEF SoundLine, Judged, OutcomeType
<1>3. Counted = Reimbursed /\ Reimbursed \subseteq D
  BY CountedAre
<1>4. \A i \in Reimbursed : worth[i] = lost[i] + got[i]
  <2> TAKE i \in Reimbursed
  <2>1. i \in D /\ outcomes[i].status \notin {"rejected", "withdrawn", "memo"}
    BY <1>1 DEF Reimbursed
  <2>2. lines[i].preset \in {"none", "withdrawn", "rejected", "memo"}
    BY <1>1, <2>1 DEF SoundLine, LineType
  <2>3. lines[i].preset = "none"
    BY <1>1, <2>1, <2>2 DEF Judged, Excluded
  <2>4. outcomes[i].allowed + outcomes[i].disallowed = Claimable(lines[i])
    BY <1>1, <2>1, <2>3 DEF Judged
  <2>5. worth[i] = Claimable(lines[i]) /\ lost[i] = outcomes[i].disallowed
        /\ got[i] = outcomes[i].allowed /\ lost[i] \in Nat /\ got[i] \in Nat
    BY <1>1, <1>2, <2>1
  <2> HIDE DEF worth, lost, got
  <2> QED
    BY <2>4, <2>5
<1>5. \A i \in D \ Reimbursed : got[i] = 0
  <2> TAKE i \in D \ Reimbursed
  <2>1. outcomes[i].status \in {"rejected", "withdrawn", "memo"}
    BY <1>1 DEF Reimbursed
  <2>2. outcomes[i] = Excluded(lines[i].preset)
    BY <1>1, <2>1 DEF Judged
  <2> QED
    BY <1>1, <2>2 DEF Excluded
<1>6. /\ Summary.gross = sum(worth, Reimbursed)
      /\ Summary.disallowed = sum(lost, Reimbursed)
      /\ Summary.net = Summary.gross - Summary.disallowed
      /\ Summary.payable = Positive(Summary.gross - Summary.disallowed - Advance)
      /\ Summary.recoverable = Positive(Advance - (Summary.gross - Summary.disallowed))
  BY <1>3 DEF Summary
<1>7. SumFunction(got) = sum(got, D)
  BY <1>1 DEF SumFunction
<1> HIDE DEF worth, lost, got, D
<1>8. IsFiniteSet(Reimbursed)
  BY <1>1, <1>3, FS_Subset
<1>9. /\ sum(worth, Reimbursed) \in Nat /\ sum(lost, Reimbursed) \in Nat
      /\ sum(got, Reimbursed) \in Nat
  <2>1. \A i \in Reimbursed : /\ worth[i] \in Int /\ lost[i] \in Int /\ got[i] \in Int
                              /\ worth[i] \in Nat /\ lost[i] \in Nat /\ got[i] \in Nat
    BY <1>2, <1>3
  <2> QED
    BY <1>8, <2>1, SumType
<1>10. sum(worth, Reimbursed) = sum(lost, Reimbursed) + sum(got, Reimbursed)
  <2>1. \A i \in Reimbursed : /\ worth[i] \in Int /\ lost[i] \in Int /\ got[i] \in Int
                              /\ worth[i] = lost[i] + got[i]
    BY <1>2, <1>3, <1>4
  <2> QED
    BY <1>8, <2>1, SumsAdd
<1>11. sum(got, D) = sum(got, Reimbursed)
  <2>1. \A i \in D : got[i] \in Int
    BY <1>2
  <2> QED
    BY <1>1, <1>3, <1>5, <2>1, SumOfSome
<1> HIDE DEF sum
<1>12. Summary.net = sum(got, Reimbursed)
  BY <1>6, <1>9, <1>10
<1>13. Summary.payable = Positive(Summary.net - Advance)
       /\ Summary.recoverable = Positive(Advance - Summary.net)
  BY <1>6
<1> QED
  BY <1>6, <1>7, <1>9, <1>11, <1>12, <1>13 DEF got

\* It is an invariant as well.
LEMMA SettledIsInvariant == Spec => []Settled
<1>1. Init => Settled
  BY DEF Init, NoSummary, Settled
<1>2. ASSUME Evaluated, Settled, [Next]_vars
      PROVE  Settled'
  <2>1. CASE Settle
    <3>1. /\ Summary.gross \in Nat /\ Summary.disallowed \in Nat
          /\ Summary.net = Summary.gross - Summary.disallowed
          /\ Summary.payable = Positive(Summary.net - Advance)
          /\ Summary.recoverable = Positive(Advance - Summary.net)
      BY <1>2, <2>1, SummaryIs DEF Settle
    <3>2. Summary.payable \in Nat /\ Summary.recoverable \in Nat
      BY <3>1, SettlementAssumption DEF Positive
    <3>3. Summary' = Summary
      BY <2>1 DEF Settle, Summary, Counted, Reimbursed
    <3> QED
      BY <2>1, <3>1, <3>2, <3>3 DEF Settle, Settled
  <2>2. CASE UNCHANGED vars
    <3>1. Summary' = Summary
      BY <2>2 DEF vars, Summary, Counted, Reimbursed
    <3> QED
      BY <1>2, <2>2, <3>1 DEF vars, Settled
  <2>3. ASSUME phase' # "settled", summary' = summary
        PROVE  Settled'
    BY <1>2, <2>3 DEF Settled
  <2>4. Draft => phase' # "settled" /\ summary' = summary
    BY DEF Draft
  <2>5. \A i \in DOMAIN lines : Judge(i) => phase' # "settled" /\ summary' = summary
    BY DEF Judge
  <2>6. \A what : Changing(what) => phase' # "settled" /\ summary' = summary
    BY DEF Changing
  <2>7. \A i \in DOMAIN lines :
            Withdraw(lines[i].label) => phase' # "settled" /\ summary' = summary
    BY <2>6 DEF Withdraw
  <2>8. \A b \in bills, file \in Files, kind \in Kinds :
            \A sender \in Senders \cup {b.sender} :
            Forward(b, file, kind, sender) => phase' # "settled" /\ summary' = summary
    BY <2>6 DEF Forward
  <2> QED
    BY <1>2, <2>1, <2>2, <2>3, <2>4, <2>5, <2>7, <2>8 DEF Next
<1> QED
  BY <1>1, <1>2, EvaluatedIsInvariant, PTL DEF Spec

\* Whatever the trip's bills say, as long as they are readable as bills, and whatever is
\* withdrawn and forwarded: every line the pipeline drafts can be judged, and no outcome and no
\* figure that is paid or recovered is negative.
THEOREM SettlementTypeCorrect == Spec => []SettlementTypeOK
<1>1. Evaluated /\ Settled => SettlementTypeOK
  BY DEF Evaluated, Settled, SettlementTypeOK, SoundLine, Judged
<1> QED
  BY <1>1, EvaluatedIsInvariant, SettledIsInvariant, PTL

\* The net is what the lines are allowed, and it is either paid or recovered against the advance,
\* for every claim (summarise).
THEOREM NetIsAllowed == Spec => []NetIsWhatIsAllowed
<1>1. Evaluated /\ Settled => NetIsWhatIsAllowed
  <2> SUFFICES ASSUME Evaluated, Settled, phase = "settled"
               PROVE  /\ summary.net = SumFunction([i \in DOMAIN outcomes |-> outcomes[i].allowed])
                      /\ summary.payable - summary.recoverable = summary.net - Advance
                      /\ summary.payable = 0 \/ summary.recoverable = 0
    BY DEF NetIsWhatIsAllowed
  <2>1. DOMAIN outcomes = DOMAIN lines /\ summary = Summary
    BY DEF Settled
  <2>2. /\ summary.net \in Int
        /\ summary.payable = Positive(summary.net - Advance)
        /\ summary.recoverable = Positive(Advance - summary.net)
        /\ summary.net = SumFunction([i \in DOMAIN outcomes |-> outcomes[i].allowed])
    BY <2>1, SummaryIs
  <2>3. /\ summary.payable - summary.recoverable = summary.net - Advance
        /\ summary.payable = 0 \/ summary.recoverable = 0
    BY <2>2, SettlementAssumption DEF Positive
  <2> QED
    BY <2>2, <2>3
<1> QED
  BY <1>1, EvaluatedIsInvariant, SettledIsInvariant, PTL

-----------------------------------------------------------------------------
(* The day's cap *)

Got == [i \in DOMAIN outcomes |-> outcomes[i].allowed]

Worth == [i \in DOMAIN lines |-> Claimable(lines[i])]

\* The meals of a day that can be paid.
Payable(d) == {i \in Meals(d) : lines[i].label \notin NeverPaid}

Cost(d) == SumFunctionOnSet(Worth, Payable(d))

\* The running total of a day is what its meals judged so far are allowed, and that is the smaller
\* of the cap and what they cost.
DaysAddUp ==
    MealCap # NoLimit =>
        \A d \in Days :
            /\ claimed[d] = SumFunctionOnSet(Got, Meals(d))
            /\ claimed[d] = IF Cost(d) < MealCap THEN Cost(d) ELSE MealCap

\* What a meal is allowed: what is left of the day's cap, at most.
LEMMA MealIsAllowed ==
    ASSUME NEW line, SoundLine(line), line.head = "meals", line.preset = "none",
           line.day \in Days, MealCap # NoLimit, Tallied(claimed), claimed[line.day] <= MealCap
    PROVE  LET left == MealCap - claimed[line.day] IN
           OutcomeOf(line).allowed =
               IF line.label \in NeverPaid THEN 0
               ELSE IF Claimable(line) < left THEN Claimable(line) ELSE left
<1> DEFINE worth == Claimable(line)
           so == claimed[line.day]
           removed == Removed(line, claimed)
           lost == Disallowed(line, claimed)
           over == OverDailyCap(line, claimed)
<1>1. worth \in Nat /\ so \in Nat /\ MealCap \in Nat /\ so <= MealCap
  BY PolicyAssumption DEF SoundLine, Tallied, NoLimit
<1>2. OutcomeOf(line).allowed = worth - lost
  BY DEF OutcomeOf, EvaluateOne
<1>3. lost = IF removed < worth THEN removed ELSE worth
  BY DEF Disallowed
<1>4. OverTariff(line) = 0
  BY DEF OverTariff
<1>5. over = IF so + worth > MealCap THEN so + worth - MealCap ELSE 0
  <2>1. line.day # NoDay
    BY SettlementAssumption DEF NoDay
  <2> QED
    BY <2>1 DEF OverDailyCap
<1>6. removed = OverTariff(line) + over + NonReimbursable(line)
  BY DEF Removed
<1>7. NonReimbursable(line) = IF line.label \in NeverPaid THEN worth ELSE 0
  BY DEF NonReimbursable
<1> HIDE DEF worth, so, removed, lost, over
<1>8. CASE line.label \in NeverPaid
  <2>1. NonReimbursable(line) = worth
    BY <1>7, <1>8
  <2>2. lost = worth
    BY <1>1, <1>3, <1>4, <1>5, <1>6, <2>1
  <2>3. worth - lost = 0
    BY <1>1, <2>2
  <2> QED
    BY <1>2, <1>8, <2>3 DEF worth
<1>9. CASE line.label \notin NeverPaid
  <2>1. NonReimbursable(line) = 0
    BY <1>7, <1>9
  <2>2. worth - lost = IF worth < MealCap - so THEN worth ELSE MealCap - so
    BY <1>1, <1>3, <1>4, <1>5, <1>6, <2>1
  <2> QED
    BY <1>2, <1>9, <2>2 DEF worth, so
<1> QED
  BY <1>8, <1>9

\* A day's figures, as long as its meals are what they were.
LEMMA DayStays ==
    ASSUME Evaluated, lines' = lines, NEW d, Meals(d)' = Meals(d),
           \A i \in Meals(d) : /\ i \in DOMAIN outcomes'
                              /\ outcomes'[i].allowed = outcomes[i].allowed
    PROVE  /\ SumFunctionOnSet(Got', Meals(d)') = SumFunctionOnSet(Got, Meals(d))
           /\ Cost(d)' = Cost(d)
<1>1. IsFiniteSet(Meals(d)) /\ Meals(d) \subseteq DOMAIN outcomes
  <2>1. Meals(d) \subseteq DOMAIN outcomes /\ DOMAIN outcomes \subseteq DOMAIN lines
    BY DEF Meals, Evaluated
  <2> QED
    BY <2>1, FS_Subset DEF Evaluated
<1>2. \A i \in Meals(d) : Got[i] \in Int /\ Got[i] = Got'[i]
  BY <1>1 DEF Got, Evaluated, Judged, OutcomeType
<1>3. Payable(d)' = Payable(d) /\ Worth' = Worth
  BY DEF Payable, Worth
<1> HIDE DEF Got, Meals, Worth, Payable
<1>4. SumFunctionOnSet(Got', Meals(d)) = SumFunctionOnSet(Got, Meals(d))
  BY <1>1, <1>2, SumsSame
<1> QED
  BY <1>3, <1>4 DEF Cost

\* A meal that is judged adds what it is allowed to its day.
LEMMA MealJudged ==
    ASSUME Evaluated, DaysAddUp, MealCap # NoLimit, NEW i \in DOMAIN lines, Judge(i),
           NEW d \in Days, lines[i].head = "meals", lines[i].day = d, lines[i].preset = "none"
    PROVE  /\ claimed'[d] = SumFunctionOnSet(Got', Meals(d)')
           /\ claimed'[d] = IF Cost(d)' < MealCap THEN Cost(d)' ELSE MealCap
<1> DEFINE line == lines[i]
           o == OutcomeOf(line)
           M == Meals(d)
           P == Payable(d)
           G == Got'
           worth == Claimable(line)
           sum(f, T) == SumFunctionOnSet(f, T)
<1>1. SoundLine(line) /\ Tallied(claimed) /\ IsFiniteSet(DOMAIN lines)
  BY DEF Evaluated, Tallied
<1>2. /\ i \notin DOMAIN outcomes
      /\ DOMAIN outcomes' = DOMAIN outcomes \cup {i}
      /\ outcomes'[i] = o
      /\ \A j \in DOMAIN outcomes : outcomes'[j] = outcomes[j]
      /\ lines' = lines
  BY JudgeIs
<1>3. /\ claimed[d] = sum(Got, M) /\ claimed[d] = IF Cost(d) < MealCap THEN Cost(d) ELSE MealCap
      /\ claimed[d] \in Nat /\ MealCap \in Nat /\ worth \in Nat
  BY PolicyAssumption DEF DaysAddUp, Evaluated, NoLimit, SoundLine
<1>4. /\ M \subseteq DOMAIN outcomes /\ IsFiniteSet(M) /\ i \notin M
      /\ P \subseteq M /\ IsFiniteSet(P) /\ i \notin P /\ M \subseteq DOMAIN lines
  <2>1. M \subseteq DOMAIN outcomes /\ DOMAIN outcomes \subseteq DOMAIN lines /\ P \subseteq M
    BY DEF Meals, Payable, Evaluated
  <2> QED
    BY <1>1, <1>2, <2>1, FS_Subset
<1>5. Meals(d)' = M \cup {i}
  BY <1>2 DEF Meals
<1>6. Payable(d)' = IF line.label \in NeverPaid THEN P ELSE P \cup {i}
  BY <1>2, <1>5 DEF Payable
<1>7. Worth' = Worth /\ Worth[i] = worth /\ \A j \in DOMAIN lines : Worth[j] \in Int
  BY <1>2 DEF Worth, Evaluated, SoundLine
<1>8. /\ \A j \in M : G[j] = Got[j] /\ G[j] \in Int
      /\ G[i] = o.allowed
  <2>1. \A j \in DOMAIN outcomes : outcomes[j].allowed \in Int
    BY DEF Evaluated, Judged, OutcomeType
  <2> QED
    BY <1>2, <1>4, <2>1 DEF Got
<1>9. o.allowed \in Nat
  BY <1>1, OutcomeIs DEF Judged, OutcomeType
<1>10. claimed'[d] = claimed[d] + o.allowed
  <2>1. claimed'[d] = claimed[d] + CountsTowards(line, o)
    BY DEF Judge
  <2>2. CountsTowards(line, o) = o.allowed
    <3>1. line.day # NoDay
      BY SettlementAssumption DEF NoDay
    <3>2. CASE o.allowed > 0
      BY <3>1, <3>2 DEF CountsTowards
    <3>3. CASE ~ o.allowed > 0
      BY <1>9, <3>3 DEF CountsTowards
    <3> QED
      BY <3>2, <3>3
  <2> QED
    BY <2>1, <2>2
<1>11. o.allowed = IF line.label \in NeverPaid THEN 0
                   ELSE IF worth < MealCap - claimed[d] THEN worth ELSE MealCap - claimed[d]
  <2>1. claimed[d] <= MealCap
    <3> HIDE DEF worth, sum, M
    <3>1. CASE Cost(d) < MealCap
      BY <1>3, <3>1
    <3>2. CASE ~ Cost(d) < MealCap
      BY <1>3, <3>2
    <3> QED
      BY <3>1, <3>2
  <2> QED
    BY <1>1, <2>1, MealIsAllowed
<1>12. Cost(d) = sum(Worth, P) /\ Cost(d)' = sum(Worth, Payable(d)')
  BY <1>7 DEF Cost
<1> HIDE DEF line, o, M, P, G, worth, Got, Worth
<1>13. sum(G, Meals(d)') = claimed[d] + o.allowed
  <2>1. \A j \in M \cup {i} : G[j] \in Int
    BY <1>8, <1>9
  <2>2. sum(G, M \cup {i}) = sum(G, M) + G[i]
    BY <1>4, <2>1, SumIn
  <2>3. sum(G, M) = sum(Got, M)
    BY <1>4, <1>8, SumsSame
  <2> HIDE DEF sum
  <2> QED
    BY <1>3, <1>5, <1>8, <2>2, <2>3
<1>14. sum(Worth, P) \in Int
  BY <1>4, <1>7, SumType
<1>15. ASSUME line.label \notin NeverPaid
       PROVE  sum(Worth, Payable(d)') = sum(Worth, P) + worth
  <2>1. \A j \in P \cup {i} : Worth[j] \in Int
    BY <1>4, <1>7
  <2>2. sum(Worth, P \cup {i}) = sum(Worth, P) + Worth[i]
    BY <1>4, <2>1, SumIn
  <2> HIDE DEF sum
  <2> QED
    BY <1>6, <1>7, <1>15, <2>2
<1> HIDE DEF sum
<1>16. claimed'[d] = IF Cost(d)' < MealCap THEN Cost(d)' ELSE MealCap
  <2>1. CASE line.label \in NeverPaid
    <3>1. Cost(d)' = Cost(d)
      BY <1>6, <1>12, <2>1
    <3>2. claimed'[d] = claimed[d]
      BY <1>3, <1>10, <1>11, <2>1
    <3> QED
      BY <1>3, <3>1, <3>2
  <2>2. CASE line.label \notin NeverPaid
    <3>1. Cost(d)' = Cost(d) + worth /\ Cost(d) \in Int
      BY <1>12, <1>14, <1>15, <2>2
    <3>2. claimed'[d] = claimed[d] + (IF worth < MealCap - claimed[d] THEN worth
                                      ELSE MealCap - claimed[d])
      BY <1>10, <1>11, <2>2
    <3>3. claimed[d] = IF Cost(d) < MealCap THEN Cost(d) ELSE MealCap
      BY <1>3
    <3> DEFINE c == Cost(d)
               after == Cost(d)'
               t == claimed[d]
    <3> HIDE DEF c, after, t
    <3>4. after = c + worth /\ c \in Int /\ t = IF c < MealCap THEN c ELSE MealCap
      BY <3>1, <3>3 DEF c, after, t
    <3>5. claimed'[d] = t + (IF worth < MealCap - t THEN worth ELSE MealCap - t)
      BY <3>2 DEF t
    <3>6. t + (IF worth < MealCap - t THEN worth ELSE MealCap - t) =
              IF after < MealCap THEN after ELSE MealCap
      BY <1>3, <3>4
    <3> QED
      BY <3>5, <3>6 DEF after
  <2> QED
    BY <2>1, <2>2
<1> QED
  BY <1>10, <1>13, <1>16 DEF G, sum

\* Any other line leaves a day as it is.
LEMMA OtherJudged ==
    ASSUME Evaluated, NEW i \in DOMAIN lines, Judge(i), NEW d \in Days,
           ~ (lines[i].head = "meals" /\ lines[i].day = d /\ lines[i].preset = "none")
    PROVE  /\ claimed'[d] = claimed[d]
           /\ Meals(d)' = Meals(d)
<1>1. /\ DOMAIN outcomes' = DOMAIN outcomes \cup {i}
      /\ lines' = lines
  BY JudgeIs
<1>2. Meals(d)' = Meals(d)
  BY <1>1 DEF Meals
<1>3. claimed'[d] = IF d = lines[i].day THEN claimed[d] + CountsTowards(lines[i], OutcomeOf(lines[i]))
                    ELSE claimed[d]
  BY DEF Judge
<1>4. d = lines[i].day => CountsTowards(lines[i], OutcomeOf(lines[i])) = 0
  <2>1. CASE lines[i].head # "meals"
    BY <2>1 DEF CountsTowards
  <2>2. CASE lines[i].preset # "none"
    <3>1. OutcomeOf(lines[i]).allowed = 0
      BY <2>2 DEF OutcomeOf, Excluded
    <3> QED
      BY <3>1 DEF CountsTowards
  <2> QED
    BY <2>1, <2>2
<1>5. claimed[d] \in Nat
  BY DEF Evaluated
<1> QED
  BY <1>2, <1>3, <1>4, <1>5

\* Before a line is judged the days are empty.
LEMMA DaysBegin ==
    ASSUME outcomes' = <<>>, claimed' = NothingClaimed
    PROVE  DaysAddUp'
<1> SUFFICES ASSUME MealCap # NoLimit, NEW d \in Days
             PROVE  /\ claimed'[d] = SumFunctionOnSet(Got', Meals(d)')
                    /\ claimed'[d] = IF Cost(d)' < MealCap THEN Cost(d)' ELSE MealCap
  BY DEF DaysAddUp
<1>1. Meals(d)' = {} /\ Payable(d)' = {}
  BY DEF Meals, Payable
<1>2. claimed'[d] = 0
  BY DEF NothingClaimed
<1>3. SumFunctionOnSet(Got', {}) = 0 /\ SumFunctionOnSet(Worth', {}) = 0
  BY FS_EmptySet, SumStep
<1>4. Cost(d)' = 0
  BY <1>1, <1>3 DEF Cost
<1>5. MealCap \in Nat
  BY PolicyAssumption DEF NoLimit
<1> QED
  BY <1>1, <1>2, <1>3, <1>4, <1>5

\* The days add up however their meals come.
LEMMA DaysAddUpIsInvariant == Spec => []DaysAddUp
<1>1. Init => DaysAddUp
  <2> SUFFICES ASSUME Init, MealCap # NoLimit, NEW d \in Days
               PROVE  /\ claimed[d] = SumFunctionOnSet(Got, Meals(d))
                      /\ claimed[d] = IF Cost(d) < MealCap THEN Cost(d) ELSE MealCap
    BY DEF DaysAddUp
  <2>1. Meals(d) = {} /\ Payable(d) = {} /\ claimed[d] = 0
    BY DEF Init, NothingClaimed, Meals, Payable
  <2>2. SumFunctionOnSet(Got, {}) = 0 /\ SumFunctionOnSet(Worth, {}) = 0
    BY FS_EmptySet, SumStep
  <2>3. Cost(d) = 0
    BY <2>1, <2>2 DEF Cost
  <2>4. MealCap \in Nat
    BY PolicyAssumption DEF NoLimit
  <2> QED
    BY <2>1, <2>2, <2>3, <2>4
<1>2. ASSUME Evaluated, DaysAddUp, [Next]_vars
      PROVE  DaysAddUp'
  <2>1. ASSUME lines' = lines, outcomes' = outcomes, claimed' = claimed
        PROVE  DaysAddUp'
    <3> SUFFICES ASSUME MealCap # NoLimit, NEW d \in Days
                 PROVE  /\ claimed'[d] = SumFunctionOnSet(Got', Meals(d)')
                        /\ claimed'[d] = IF Cost(d)' < MealCap THEN Cost(d)' ELSE MealCap
      BY DEF DaysAddUp
    <3>1. Meals(d)' = Meals(d) /\ Payable(d)' = Payable(d) /\ Got' = Got /\ Worth' = Worth
      BY <2>1 DEF Meals, Payable, Got, Worth
    <3> QED
      BY <1>2, <2>1, <3>1 DEF DaysAddUp, Cost
  <2>2. ASSUME NEW i \in DOMAIN lines, Judge(i)
        PROVE  DaysAddUp'
    <3> SUFFICES ASSUME MealCap # NoLimit, NEW d \in Days
                 PROVE  /\ claimed'[d] = SumFunctionOnSet(Got', Meals(d)')
                        /\ claimed'[d] = IF Cost(d)' < MealCap THEN Cost(d)' ELSE MealCap
      BY DEF DaysAddUp
    <3>1. CASE lines[i].head = "meals" /\ lines[i].day = d /\ lines[i].preset = "none"
      BY <1>2, <2>2, <3>1, MealJudged
    <3>2. CASE ~ (lines[i].head = "meals" /\ lines[i].day = d /\ lines[i].preset = "none")
      <4>1. claimed'[d] = claimed[d] /\ Meals(d)' = Meals(d) /\ lines' = lines
        BY <1>2, <2>2, <3>2, OtherJudged, JudgeIs
      <4>2. \A j \in Meals(d) : /\ j \in DOMAIN outcomes'
                                /\ outcomes'[j].allowed = outcomes[j].allowed
        BY <2>2, JudgeIs DEF Meals
      <4>3. /\ SumFunctionOnSet(Got', Meals(d)') = SumFunctionOnSet(Got, Meals(d))
            /\ Cost(d)' = Cost(d)
        BY <1>2, <4>1, <4>2, DayStays
      <4> QED
        BY <1>2, <4>1, <4>3 DEF DaysAddUp
    <3> QED
      BY <3>1, <3>2
  <2>3. Draft => DaysAddUp'
    BY DaysBegin DEF Draft
  <2>4. Settle \/ UNCHANGED vars => DaysAddUp'
    BY <2>1 DEF Settle, vars
  <2>5. \A what : Changing(what) => DaysAddUp'
    BY DaysBegin DEF Changing
  <2>6. \A i \in DOMAIN lines : Withdraw(lines[i].label) => DaysAddUp'
    BY <2>5 DEF Withdraw
  <2>7. \A b \in bills, file \in Files, kind \in Kinds : \A sender \in Senders \cup {b.sender} :
            Forward(b, file, kind, sender) => DaysAddUp'
    BY <2>5 DEF Forward
  <2> QED
    BY <1>2, <2>2, <2>3, <2>4, <2>6, <2>7 DEF Next
<1> QED
  BY <1>1, <1>2, EvaluatedIsInvariant, PTL DEF Spec

\* For every policy, every evidence and every order of the meals: the total that the judging of
\* a day's meals carries along never passes the day's cap.
THEOREM DaysStayCapped == Spec => []RunningTotalWithinCap
<1>1. Evaluated /\ DaysAddUp => RunningTotalWithinCap
  <2> SUFFICES ASSUME Evaluated, DaysAddUp, MealCap # NoLimit, NEW d \in Days
               PROVE  claimed[d] <= MealCap
    BY DEF RunningTotalWithinCap
  <2>1. MealCap \in Nat /\ claimed[d] \in Nat
    BY PolicyAssumption DEF NoLimit, Evaluated
  <2>2. claimed[d] = IF Cost(d) < MealCap THEN Cost(d) ELSE MealCap
    BY DEF DaysAddUp
  <2>3. CASE Cost(d) < MealCap
    BY <2>1, <2>2, <2>3
  <2>4. CASE ~ Cost(d) < MealCap
    BY <2>1, <2>2, <2>4
  <2> QED
    BY <2>3, <2>4
<1> QED
  BY <1>1, EvaluatedIsInvariant, DaysAddUpIsInvariant, PTL

\* However many meals a day has, and in whatever order they are judged: a settled day was allowed
\* the smaller of its cap and what its meals that can be paid cost, exactly.
THEOREM DaysArePaidInFull == Spec => []DayIsCapped
<1>1. DaysAddUp => DayIsCapped
  BY DEF DaysAddUp, DayIsCapped, Cost, Payable, Got, Worth
<1> QED
  BY <1>1, DaysAddUpIsInvariant, PTL

-----------------------------------------------------------------------------
(* What a bill comes to *)

\* What the charges of a bill are claimed at.
Brought(b) ==
    LET entries == EntriesOf(b)
    IN  [i \in DOMAIN entries |-> entries[i].item.amount + entries[i].share]

\* The entries of a bill come to its charges and the tax that its total adds.
LEMMA EntriesComeTo ==
    ASSUME NEW b \in BillType, TaxCanBeShared(b), b.kind \in Producing,
           Read(b).status = "extracted"
    PROVE  SumFunction(Brought(b)) = SumFunction(Amounts(Read(b).items)) + TaxOf(Read(b))
<1> DEFINE result == Read(b)
           items == result.items
           N == Len(items)
           paired == WithTaxShares(result)
           entry(i) == [item |-> paired[i].item, share |-> paired[i].share, kind |-> b.kind,
                        proof |-> b.file, hosted |-> b.hosted]
           entries == EntriesOf(b)
           shares == [i \in DOMAIN paired |-> paired[i].share]
           amounts == Amounts(items)
           both == Brought(b)
<1>1. result.status = "extracted"
  OBVIOUS
<1>2. /\ entries = [i \in DOMAIN paired |-> entry(i)]
      /\ both = [i \in DOMAIN entries |-> entries[i].item.amount + entries[i].share]
  BY <1>1 DEF EntriesOf, Brought
<1>3. ReadAs(b, result) /\ items \in Seq(ItemType)
  BY <1>1, ReadIs DEF ReadAs
<1> HIDE DEF result, entries, both
<1>4. /\ DOMAIN paired = 1..N
      /\ \A i \in 1..N : paired[i].item = items[i] /\ paired[i].share \in Int
      /\ SumFunction(shares) = TaxOf(result)
  BY <1>1, <1>3, SharesAre
<1>5. N \in Nat /\ DOMAIN items = 1..N /\ \A i \in 1..N : items[i].amount \in Nat
  <2>1. \A x \in ItemType : x.amount \in Nat
    BY DEF ItemType
  <2> HIDE DEF items
  <2> QED BY <1>3, <2>1, LenProperties, ElementOfSeq
<1> HIDE DEF paired, items, N
<1>6. DOMAIN entries = 1..N /\ DOMAIN shares = 1..N /\ DOMAIN amounts = 1..N
      /\ DOMAIN both = 1..N
  BY <1>2, <1>4, <1>5 DEF Amounts
<1>7. \A i \in 1..N : /\ both[i] = items[i].amount + paired[i].share
                      /\ amounts[i] = items[i].amount /\ shares[i] = paired[i].share
  BY <1>2, <1>4, <1>5, <1>6 DEF Amounts
<1> HIDE DEF amounts, shares
<1>8. /\ SumFunction(both) = SumFunctionOnSet(both, 1..N)
      /\ SumFunction(amounts) = SumFunctionOnSet(amounts, 1..N)
      /\ SumFunction(shares) = SumFunctionOnSet(shares, 1..N)
  BY <1>6 DEF SumFunction
<1> DEFINE D == 1..N
<1>9. IsFiniteSet(D)
  BY <1>5, FS_Interval
<1>10. \A i \in D : /\ both[i] \in Int /\ amounts[i] \in Int /\ shares[i] \in Int
                    /\ both[i] = amounts[i] + shares[i]
  BY <1>4, <1>5, <1>7
<1>11. SumFunctionOnSet(both, D) = SumFunctionOnSet(amounts, D) + SumFunctionOnSet(shares, D)
  <2> HIDE DEF D
  <2> QED BY <1>9, <1>10, SumsAdd
<1> QED
  BY <1>4, <1>8, <1>11 DEF amounts, items, result, both

\* A bill that states a total is claimed at it.
LEMMA EntriesComeToTotal ==
    ASSUME NEW b \in BillType, TaxCanBeShared(b), b.kind # "flight", b.typed = <<>>,
           EntriesOf(b) # <<>>, b.total # Unread, b.subtotal <= b.total
    PROVE  SumFunction(Brought(b)) = b.total
<1>1. b.kind \in Producing /\ Read(b).status = "extracted"
  BY DEF EntriesOf
<1>2. SumFunction(Amounts(Read(b).items)) + TaxOf(Read(b)) = b.total
  BY <1>1, ReadIs DEF Whole
<1> QED
  BY <1>1, <1>2, EntriesComeTo

-----------------------------------------------------------------------------
(* No more than the bills *)

\* What a reader takes for the payer, and how the bill was paid.
PaidAs(result, payer, payment) ==
    result.status = "extracted" =>
        \A i \in DOMAIN result.items : /\ result.items[i].payer = payer
                                       /\ result.items[i].payment = payment

\* Every charge of a bill names the same payer.
LEMMA PayersAre ==
    ASSUME NEW b \in BillType, b.kind \in Producing
    PROVE  PaidAs(Read(b), PayerFound(b), b.payment)
<1>1. \A result : result.status # "extracted" => PaidAs(result, PayerFound(b), b.payment)
  BY DEF PaidAs
<1>2. \A items, payer : NeedsInput(items).status # "extracted"
  BY DEF NeedsInput
<1>3. \A label, amount : /\ Charge(b, label, amount).payer = b.payer
                         /\ Charge(b, label, amount).payment = b.payment
  BY DEF Charge
<1>4. PaidAs(ReadGeneric(b), b.payer, b.payment)
  <2> DEFINE charge == [Charge(b, b.label, b.total) EXCEPT
                           !.nights = IF b.kind = "hotel" THEN b.nights ELSE 0]
  <2>1. charge.payer = b.payer /\ charge.payment = b.payment
    BY DEF Charge
  <2> HIDE DEF charge
  <2>2. ReadGeneric(b).status = "extracted" => ReadGeneric(b).items = <<charge>>
    BY DEF ReadGeneric, FromItems, NeedsInput, charge
  <2> QED
    BY <2>1, <2>2 DEF PaidAs
<1>5. PaidAs(ReadRide(b), b.payer, b.payment)
  <2> DEFINE charge == [Charge(b, b.label, b.total) EXCEPT !.no = Unread]
  <2>1. charge.payer = b.payer /\ charge.payment = b.payment
    BY DEF Charge
  <2> HIDE DEF charge
  <2>2. ReadRide(b).status = "extracted" => ReadRide(b).items = <<charge>>
    BY DEF ReadRide, FromItems, NeedsInput, charge
  <2> QED
    BY <2>1, <2>2 DEF PaidAs
<1>6. PaidAs(ReadRestaurantBill(b), "nobody", b.payment)
  <2> DEFINE charge == [Charge(b, b.label, b.total) EXCEPT !.payer = "nobody"]
  <2>1. charge.payer = "nobody" /\ charge.payment = b.payment
    BY DEF Charge
  <2> HIDE DEF charge
  <2>2. ReadRestaurantBill(b).status = "extracted" => ReadRestaurantBill(b).items = <<charge>>
    BY DEF ReadRestaurantBill, FromItems, NeedsInput, charge
  <2> QED
    BY <2>1, <2>2 DEF PaidAs
<1>7. PaidAs(ReadFlights(b), b.payer, b.payment)
  <2> DEFINE flown == Readable(b.rows)
             items == [i \in DOMAIN flown |->
                         [Charge(b, flown[i].label, flown[i].amount) EXCEPT
                             !.day = flown[i].day, !.clock = Unread]]
  <2>1. \A i \in DOMAIN items : items[i].payer = b.payer /\ items[i].payment = b.payment
    BY DEF Charge
  <2> HIDE DEF items
  <2>2. ReadFlights(b).status = "extracted" => ReadFlights(b).items = items
    BY DEF ReadFlights, FromItems, NeedsInput, items
  <2> QED
    BY <2>1, <2>2 DEF PaidAs
<1>8. PaidAs(ReadFolio(b), b.payer, b.payment)
  <2> DEFINE charged == Readable(b.rows)
             items == [i \in DOMAIN charged |->
                         [Charge(b, charged[i].label, charged[i].amount) EXCEPT
                             !.clock = Unread,
                             !.nights = IF charged[i].label \in RoomRows THEN b.nights ELSE 0]]
  <2>1. \A i \in DOMAIN items : items[i].payer = b.payer /\ items[i].payment = b.payment
    BY DEF Charge
  <2> HIDE DEF items
  <2>2. ReadFolio(b).status = "extracted" => ReadFolio(b).items = items
    BY DEF ReadFolio, FromItems, NeedsInput, items
  <2> QED
    BY <2>1, <2>2 DEF PaidAs
<1>9. PaidAs(AsResult(b), "nobody", b.payment)
  <2> DEFINE items == [i \in DOMAIN b.typed |->
                          [Charge(b, b.typed[i].label, b.typed[i].amount) EXCEPT
                              !.clock = Unread, !.payer = "nobody",
                              !.day = b.typed[i].day, !.nights = b.typed[i].nights]]
  <2>1. \A i \in DOMAIN items : items[i].payer = "nobody" /\ items[i].payment = b.payment
    BY DEF Charge
  <2> HIDE DEF items
  <2>2. AsResult(b).items = items
    BY DEF AsResult, items
  <2> QED
    BY <2>1, <2>2 DEF PaidAs
<1>10. CASE b.typed # <<>>
  BY <1>9, <1>10 DEF Read, PayerFound
<1>11. CASE b.typed = <<>> /\ b.kind = "restaurant" /\ b.known
  <2>1. PayerFound(b) = "nobody" /\ ReadSpecific(b) = ReadRestaurantBill(b)
    BY <1>11 DEF PayerFound, ReadSpecific
  <2>2. Read(b) \in {ReadSpecific(b), ReadGeneric(b)}
    BY <1>11 DEF Read, Extract
  <2>3. Read(b) = ReadGeneric(b) => Read(b) = ReadSpecific(b) \/ Read(b).status # "extracted"
    <3> SUFFICES ASSUME FallbackAllowed(ReadRestaurantBill(b)),
                        ReadGeneric(b).status = "extracted"
                 PROVE  FALSE
      BY <1>11, <2>1 DEF Read, Extract
    <3>1. ReadRestaurantBill(b).items = <<>>
      BY DEF FallbackAllowed
    <3>2. CASE b.total = Unread
      BY <3>2, <1>2 DEF ReadGeneric
    <3>3. CASE b.total # Unread
      <4> DEFINE charge == [Charge(b, b.label, b.total) EXCEPT !.payer = "nobody"]
             summed == IF Components(b) = <<>> THEN <<b.total>> ELSE Components(b)
      <4>1. ReadRestaurantBill(b) = FromItems(<<charge>>, b.total, b.total, summed)
        BY <3>3 DEF ReadRestaurantBill
      <4> HIDE DEF charge, summed
      <4>2. FromItems(<<charge>>, b.total, b.total, summed).items = <<charge>>
        BY DEF FromItems, NeedsInput
      <4> QED
        BY <3>1, <4>1, <4>2
    <3> QED
      BY <3>2, <3>3
  <2> QED
    BY <1>1, <1>6, <2>1, <2>2, <2>3
<1>12. CASE b.typed = <<>> /\ ~(b.kind = "restaurant" /\ b.known)
  <2>1. PayerFound(b) = b.payer
    BY <1>12 DEF PayerFound
  <2>2. PaidAs(ReadSpecific(b), b.payer, b.payment)
    <3>1. CASE ~b.known
      BY <1>1, <1>2, <2>1, <3>1 DEF ReadSpecific
    <3>2. CASE b.known /\ b.kind \in {"cab", "forward"}
      BY <1>5, <3>2 DEF ReadSpecific
    <3>3. CASE b.known /\ b.kind = "flight"
      BY <1>7, <3>3 DEF ReadSpecific
    <3>4. CASE b.known /\ b.kind = "hotel"
      BY <1>8, <3>4 DEF ReadSpecific
    <3> QED
      BY <1>12, <3>1, <3>2, <3>3, <3>4 DEF Producing
  <2> QED
    BY <1>4, <1>12, <2>1, <2>2 DEF Read, Extract
<1> QED
  BY <1>10, <1>11, <1>12

\* However a bill is read, it comes to no more than it says.
LEMMA ReadWithin ==
    ASSUME NEW b \in BillType, b.kind \in Producing, Read(b).status = "extracted"
    PROVE  SumFunction(Amounts(Read(b).items)) + TaxOf(Read(b)) <= Printed(b)
<1> DEFINE flown == Readable(b.rows)
<1>1. CASE b.typed # <<>>
  <2> DEFINE T == [label : STRING, amount : Nat, day : Dated, nights : Nat]
             amounts == Amounts(b.typed)
  <2>1. Read(b) = AsResult(b) /\ Printed(b) = SumFunction(amounts)
    BY <1>1 DEF Read, Printed
  <2>2. TaxOf(AsResult(b)) = 0
    BY DEF AsResult, TaxOf
  <2>3. Amounts(AsResult(b).items) = amounts
    BY DEF AsResult, Amounts, Charge
  <2>4. b.typed \in Seq(T) /\ \A r \in T : r.amount \in Nat
    BY BillIs
  <2>5. DOMAIN b.typed = 1..Len(b.typed) /\ Len(b.typed) \in Nat
        /\ \A i \in 1..Len(b.typed) : b.typed[i] \in T
    <3> HIDE DEF T
    <3> QED BY <2>4, LenProperties, ElementOfSeq
  <2>6. \A i \in DOMAIN amounts : amounts[i] \in Int
    BY <2>4, <2>5 DEF Amounts
  <2>7. IsFiniteSet(DOMAIN amounts)
    BY <2>5, FS_Interval DEF Amounts
  <2> HIDE DEF amounts
  <2>8. SumFunction(amounts) \in Int
    BY <2>6, <2>7, SumType DEF SumFunction
  <2> QED
    BY <2>1, <2>2, <2>3, <2>8
<1>2. CASE b.typed = <<>> /\ b.kind = "flight" /\ b.known /\ flown # <<>>
  <2> DEFINE amounts == Amounts(flown)
             items == [i \in DOMAIN flown |->
                         [Charge(b, flown[i].label, flown[i].amount) EXCEPT
                             !.day = flown[i].day, !.clock = Unread]]
  <2>1. Printed(b) = SumFunction(amounts)
    BY <1>2 DEF Printed
  <2>2. Amounts(items) = amounts
    BY DEF Amounts, Charge
  <2> HIDE DEF items
  <2>3. /\ ReadFlights(b).status = "extracted" /\ ReadFlights(b).items = items
        /\ ReadFlights(b).subtotal = Unread
    BY <1>2 DEF ReadFlights, FromItems, Reconciles, items
  <2>4. ReadSpecific(b) = ReadFlights(b)
    BY <1>2 DEF ReadSpecific
  <2>5. Read(b) = ReadFlights(b)
    BY <1>2, <2>3, <2>4 DEF Read, Extract, FallbackAllowed
  <2>6. TaxOf(Read(b)) = 0
    BY <2>3, <2>5 DEF TaxOf
  <2>7. DOMAIN amounts = DOMAIN flown /\ \A i \in DOMAIN amounts : amounts[i] \in Int
    <3>1. \A i \in DOMAIN flown : flown[i].amount \in Nat
      BY ChargesAre
    <3>2. amounts = [i \in DOMAIN flown |-> flown[i].amount]
      BY DEF Amounts
    <3> HIDE DEF flown, amounts
    <3> QED
      BY <3>1, <3>2
  <2>8. IsFiniteSet(DOMAIN flown)
    <3>1. DOMAIN flown = 1..Len(flown) /\ Len(flown) \in Nat
      BY ChargesAre, LenProperties
    <3> QED
      BY <3>1, FS_Interval
  <2> HIDE DEF amounts
  <2>9. SumFunction(amounts) \in Int
    BY <2>7, <2>8, SumType DEF SumFunction
  <2> QED
    BY <2>1, <2>2, <2>3, <2>5, <2>6, <2>9
<1>3. CASE b.typed = <<>> /\ ~(b.kind = "flight" /\ b.known /\ flown # <<>>)
  <2>1. Printed(b) = IF b.total > b.subtotal THEN b.total ELSE Positive(b.subtotal)
    BY <1>3 DEF Printed
  <2>2. Within(b, ReadGeneric(b))
    BY GenericIs
  <2>3. Within(b, ReadSpecific(b))
    <3>1. CASE ~b.known
      BY <3>1, InputIsNeeded DEF ReadSpecific, NeedsInput
    <3>2. CASE b.known /\ b.kind \in {"cab", "forward"}
      BY <3>2, RideIs DEF ReadSpecific
    <3>3. CASE b.known /\ b.kind = "flight"
      <4>1. ReadFlights(b) = NeedsInput(<<>>)
        BY <1>3, <3>3 DEF ReadFlights
      <4> QED
        BY <3>3, <4>1, InputIsNeeded DEF ReadSpecific, NeedsInput
    <3>4. CASE b.known /\ b.kind = "hotel"
      BY <3>4, FolioIs DEF ReadSpecific
    <3>5. CASE b.known /\ b.kind = "restaurant"
      BY <3>5, RestaurantBillIs DEF ReadSpecific
    <3> QED
      BY <3>1, <3>2, <3>3, <3>4, <3>5 DEF Producing
  <2> QED
    BY <1>3, <2>1, <2>2, <2>3 DEF Read, Extract, Within
<1> QED
  BY <1>1, <1>2, <1>3

\* A receipt reads the same however often it comes under one name.
LEMMA PaperReads ==
    ASSUME NEW b \in BillType, b.kind \in Producing
    PROVE  LET p == PaperOf(b) IN
           /\ p \in BillType /\ p.kind \in Producing /\ Read(p) = Read(b)
           /\ TaxCanBeShared(b) => TaxCanBeShared(p)
<1> DEFINE p == PaperOf(b)
           kind == IF b.kind = "forward" THEN "cab" ELSE b.kind
           merchant == MerchantOf(b)
<1>1. p \in BillType /\ p.kind = kind /\ p.sender = merchant
  <2>1. [b EXCEPT !.file = 0] \in BillType /\ [b EXCEPT !.file = 0].kind = b.kind
    BY DEF BillType
  <2>2. kind \in Kinds /\ merchant \in STRING
    BY MerchantIs DEF Producing, Kinds
  <2>3. p = [[[b EXCEPT !.file = 0] EXCEPT !.sender = merchant] EXCEPT !.kind = kind]
    BY DEF PaperOf, BillType
  <2> HIDE DEF kind, merchant, p
  <2>4. \A c \in BillType : /\ [c EXCEPT !.sender = merchant] \in BillType
                            /\ [c EXCEPT !.sender = merchant].sender = merchant
    BY <2>2 DEF BillType
  <2>5. \A c \in BillType : /\ [c EXCEPT !.kind = kind] \in BillType
                            /\ [c EXCEPT !.kind = kind].kind = kind
                            /\ [c EXCEPT !.kind = kind].sender = c.sender
    BY <2>2 DEF BillType
  <2> QED
    BY <2>1, <2>3, <2>4, <2>5, Zenon
<1>2. /\ p.known = b.known /\ p.label = b.label /\ p.rows = b.rows /\ p.subtotal = b.subtotal
      /\ p.total = b.total /\ p.parts = b.parts /\ p.merchant = b.merchant /\ p.day = b.day
      /\ p.clock = b.clock /\ p.no = b.no /\ p.nights = b.nights /\ p.payer = b.payer
      /\ p.payment = b.payment /\ p.typed = b.typed /\ p.branded = b.branded
  BY DEF PaperOf, BillType
<1> HIDE DEF p
<1>3. MerchantOf(p) = MerchantOf(b)
  <2> DEFINE Charged(c) == c.known /\ \E i \in DOMAIN c.rows : c.rows[i].amount # Unread
             Itself(c) == \/ c.typed # <<>>
                          \/ c.kind = "restaurant" /\ c.known
                          \/ c.kind = "flight" /\ Charged(c)
             Folio(c) == c.kind = "hotel" /\ c.subtotal # Unread /\ Charged(c)
  <2>1. \A c : MerchantOf(c) = IF Itself(c) THEN c.merchant
                               ELSE IF Folio(c) THEN c.sender
                               ELSE IF c.branded THEN c.merchant ELSE c.sender
    BY DEF MerchantOf, VendorName
  <2>2. (Itself(p) <=> Itself(b)) /\ (Folio(p) <=> Folio(b))
    BY <1>1, <1>2
  <2> HIDE DEF Charged, Itself, Folio
  <2> QED
    BY <1>1, <1>2, <2>1, <2>2
<1>4. \A label, amount : Charge(p, label, amount) = Charge(b, label, amount)
  BY <1>2, <1>3 DEF Charge
<1>5. Components(p) = Components(b)
  BY <1>2 DEF Components
<1>6. ReadRide(p) = ReadRide(b)
  BY <1>2, <1>4 DEF ReadRide
<1>7. ReadFlights(p) = ReadFlights(b)
  <2> DEFINE Item(c, i) ==
                 [Charge(c, Readable(c.rows)[i].label, Readable(c.rows)[i].amount) EXCEPT
                      !.day = Readable(c.rows)[i].day, !.clock = Unread]
             Items(c) == [i \in DOMAIN Readable(c.rows) |-> Item(c, i)]
  <2>1. Items(p) = Items(b)
    <3>1. Readable(p.rows) = Readable(b.rows)
      BY <1>2
    <3>2. ASSUME NEW i
          PROVE  Item(p, i) = Item(b, i)
      <4>1. Charge(p, Readable(b.rows)[i].label, Readable(b.rows)[i].amount) =
                Charge(b, Readable(b.rows)[i].label, Readable(b.rows)[i].amount)
        BY <1>4
      <4> QED
        BY <1>2, <3>1, <4>1, Zenon
    <3> HIDE DEF Item
    <3> QED
      BY <3>1, <3>2
  <2>2. \A c : ReadFlights(c) = IF Readable(c.rows) = <<>> THEN NeedsInput(<<>>)
                         ELSE FromItems(Items(c), Unread, SumFunction(Amounts(Items(c))),
                                        Amounts(Items(c)))
    BY DEF ReadFlights
  <2> HIDE DEF Items
  <2> QED
    BY <1>2, <2>1, <2>2
<1>8. ReadFolio(p) = ReadFolio(b)
  <2> DEFINE Item(c, i) ==
                 [Charge(c, Readable(c.rows)[i].label, Readable(c.rows)[i].amount) EXCEPT
                      !.clock = Unread,
                      !.nights = IF Readable(c.rows)[i].label \in RoomRows
                                 THEN c.nights ELSE 0]
             Items(c) == [i \in DOMAIN Readable(c.rows) |-> Item(c, i)]
  <2>1. Items(p) = Items(b)
    <3>1. Readable(p.rows) = Readable(b.rows)
      BY <1>2
    <3>2. ASSUME NEW i
          PROVE  Item(p, i) = Item(b, i)
      <4>1. Charge(p, Readable(b.rows)[i].label, Readable(b.rows)[i].amount) =
                Charge(b, Readable(b.rows)[i].label, Readable(b.rows)[i].amount)
        BY <1>4
      <4> QED
        BY <1>2, <3>1, <4>1, Zenon
    <3> HIDE DEF Item
    <3> QED
      BY <3>1, <3>2
  <2>2. \A c : ReadFolio(c) = IF c.subtotal = Unread THEN NeedsInput(<<>>)
                         ELSE FromItems(Items(c), c.subtotal, c.total,
                                        Amounts(Items(c)))
    BY DEF ReadFolio
  <2> HIDE DEF Items
  <2> QED
    BY <1>2, <2>1, <2>2
<1>9. ReadRestaurantBill(p) = ReadRestaurantBill(b)
  BY <1>2, <1>4, <1>5 DEF ReadRestaurantBill
<1>10. ReadGeneric(p) = ReadGeneric(b)
  BY <1>1, <1>2, <1>4, <1>5 DEF ReadGeneric
<1>11. AsResult(p) = AsResult(b)
  <2> DEFINE Item(c, i) ==
                 [Charge(c, c.typed[i].label, c.typed[i].amount) EXCEPT
                      !.clock = Unread, !.payer = "nobody",
                      !.day = c.typed[i].day, !.nights = c.typed[i].nights]
             Items(c) == [i \in DOMAIN c.typed |-> Item(c, i)]
  <2>1. Items(p) = Items(b)
    <3>1. ASSUME NEW i
          PROVE  Item(p, i) = Item(b, i)
      <4>1. Charge(p, b.typed[i].label, b.typed[i].amount) =
                Charge(b, b.typed[i].label, b.typed[i].amount)
        BY <1>4
      <4> QED
        BY <1>2, <4>1, Zenon
    <3> HIDE DEF Item
    <3> QED
      BY <1>2, <3>1
  <2>2. \A c : AsResult(c) = [status |-> "extracted", subtotal |-> Unread, total |-> Unread,
                              items |-> Items(c)]
    BY DEF AsResult
  <2> HIDE DEF Items
  <2> QED
    BY <2>1, <2>2
<1>12. ReadSpecific(p) = ReadSpecific(b)
  <2>1. CASE ~b.known
    BY <1>2, <2>1 DEF ReadSpecific
  <2>2. CASE b.known /\ b.kind \in {"cab", "forward"}
    BY <1>1, <1>2, <1>6, <2>2 DEF ReadSpecific
  <2>3. CASE b.known /\ b.kind = "flight"
    BY <1>1, <1>2, <1>7, <2>3 DEF ReadSpecific
  <2>4. CASE b.known /\ b.kind = "hotel"
    BY <1>1, <1>2, <1>8, <2>4 DEF ReadSpecific
  <2>5. CASE b.known /\ b.kind = "restaurant"
    BY <1>1, <1>2, <1>9, <2>5 DEF ReadSpecific
  <2> QED
    BY <2>1, <2>2, <2>3, <2>4, <2>5 DEF Producing
<1>13. Read(p) = Read(b)
  BY <1>2, <1>10, <1>11, <1>12 DEF Read, Extract
<1>14. TaxCanBeShared(b) => TaxCanBeShared(p)
  BY <1>1, <1>2 DEF TaxCanBeShared
<1> QED
  BY <1>1, <1>13, <1>14 DEF p, Producing

\* What a bill brings is what it is read as, with the tax; nothing if it is not read.
LEMMA ChargesBrought ==
    ASSUME NEW b \in BillType, TaxCanBeShared(b), NEW k \in DOMAIN EntriesOf(b)
    PROVE  /\ b.kind \in Producing /\ Read(b).status = "extracted"
           /\ k \in DOMAIN Read(b).items
           /\ EntriesOf(b)[k].item = Read(b).items[k]
           /\ EntriesOf(b)[k].item.amount + EntriesOf(b)[k].share \in Nat
<1> DEFINE result == Read(b)
           paired == WithTaxShares(result)
<1>1. b.kind \in Producing /\ result.status = "extracted"
  BY DEF EntriesOf
<1>2. /\ DOMAIN EntriesOf(b) = DOMAIN paired
      /\ EntriesOf(b)[k].item = paired[k].item /\ EntriesOf(b)[k].share = paired[k].share
  BY <1>1 DEF EntriesOf
<1>3. ReadAs(b, result)
  BY <1>1, ReadIs
<1> HIDE DEF result
<1>4. /\ DOMAIN paired = 1..Len(result.items)
      /\ \A i \in 1..Len(result.items) :
            /\ paired[i].item = result.items[i]
            /\ result.items[i].amount + paired[i].share \in Nat
  BY <1>1, <1>3, SharesAre
<1>5. DOMAIN result.items = 1..Len(result.items)
  <2> DEFINE items == result.items
  <2>1. items \in Seq(ItemType)
    BY <1>1, <1>3 DEF ReadAs
  <2> HIDE DEF items
  <2>2. DOMAIN items = 1..Len(items)
    BY <2>1, LenProperties
  <2> QED
    BY <2>2 DEF items
<1> HIDE DEF paired
<1>6. k \in 1..Len(result.items)
  BY <1>2, <1>4
<1> QED
  BY <1>1, <1>2, <1>4, <1>5, <1>6 DEF result

\* A receipt brings the same however often it comes under one name.
LEMMA PaperBrings ==
    ASSUME NEW b \in BillType, b.kind \in Producing, NEW k \in DOMAIN EntriesOf(b)
    PROVE  LET p == PaperOf(b) IN
           /\ k \in DOMAIN EntriesOf(p)
           /\ EntriesOf(p)[k].item = EntriesOf(b)[k].item
           /\ EntriesOf(p)[k].share = EntriesOf(b)[k].share
<1> DEFINE p == PaperOf(b)
           paired == WithTaxShares(Read(b))
<1>1. p.kind \in Producing /\ Read(p) = Read(b)
  BY PaperReads
<1>2. Read(b).status = "extracted"
  BY DEF EntriesOf
<1> HIDE DEF p
<1>3. EntriesOf(b) = [i \in DOMAIN paired |->
          [item |-> paired[i].item, share |-> paired[i].share, kind |-> b.kind,
           proof |-> b.file, hosted |-> b.hosted]]
  BY <1>2 DEF EntriesOf
<1>4. EntriesOf(p) = [i \in DOMAIN paired |->
          [item |-> paired[i].item, share |-> paired[i].share, kind |-> p.kind,
           proof |-> p.file, hosted |-> p.hosted]]
  BY <1>1, <1>2 DEF EntriesOf
<1> HIDE DEF paired
<1> QED
  BY <1>3, <1>4 DEF p

-----------------------------------------------------------------------------
(* The charges of a trip in their order, each transaction once *)

\* Where the elements of the sequences are in the one they make.
Placed(flat, seqs, m) ==
    /\ \A i \in 1..Len(flat[m]) :
          \E n \in 1..m : \E k \in 1..Len(seqs[n]) :
              i = Len(flat[n - 1]) + k /\ flat[m][i] = seqs[n][k]
    /\ \A n \in 1..m : \A k \in 1..Len(seqs[n]) :
          /\ Len(flat[n - 1]) + k \in 1..Len(flat[m])
          /\ flat[m][Len(flat[n - 1]) + k] = seqs[n][k]

LEMMA FlatPlaces ==
    ASSUME NEW X, NEW seqs \in Seq(Seq(X)), NEW flat, Flattens(flat, seqs, X)
    PROVE  \A m \in 0..Len(seqs) : Placed(flat, seqs, m)
<1> DEFINE N == Len(seqs)
           S == {m \in Nat : m <= N => Placed(flat, seqs, m)}
<1>1. N \in Nat /\ (\A n \in 1..N : seqs[n] \in Seq(X))
  BY LenProperties, ElementOfSeq
<1>2. /\ flat[0] = <<>>
      /\ \A n \in 1..N : flat[n] = flat[n - 1] \o seqs[n]
      /\ \A n \in 0..N : flat[n] \in Seq(X) /\ Len(flat[n]) \in Nat
  BY LenProperties DEF Flattens
<1>3. \A n \in 1..N : Len(seqs[n]) \in Nat
  BY <1>1, LenProperties
<1> HIDE DEF N
<1>4. 0 \in S
  <2>1. Len(flat[0]) = 0
    BY <1>2, EmptySeq
  <2> QED
    BY <2>1 DEF Placed
<1>5. ASSUME NEW m \in Nat, m \in S
      PROVE  m + 1 \in S
  <2> SUFFICES ASSUME m + 1 <= N
               PROVE  Placed(flat, seqs, m + 1)
    OBVIOUS
  <2> DEFINE old == flat[m]
             add == seqs[m + 1]
             new == flat[m + 1]
  <2>1. m \in 0..N /\ m + 1 \in 1..N /\ (m + 1) - 1 = m /\ m <= N
    BY <1>1
  <2>2. new = old \o add /\ old \in Seq(X) /\ add \in Seq(X)
        /\ Len(old) \in Nat /\ Len(add) \in Nat
    BY <1>1, <1>2, <1>3, <2>1
  <2>3. Placed(flat, seqs, m)
    BY <1>5, <2>1
  <2>4. /\ Len(new) = Len(old) + Len(add)
        /\ \A i \in 1..Len(old) : new[i] = old[i]
        /\ \A k \in 1..Len(add) : new[Len(old) + k] = add[k]
    <3> HIDE DEF old, add, new
    <3>1. /\ Len(new) = Len(old) + Len(add)
          /\ \A i \in 1..Len(old) + Len(add) :
                new[i] = IF i <= Len(old) THEN old[i] ELSE add[i - Len(old)]
      BY <2>2, ConcatProperties
    <3>2. \A i \in 1..Len(old) : i \in 1..Len(old) + Len(add) /\ i <= Len(old)
      BY <2>2
    <3>3. \A k \in 1..Len(add) : /\ Len(old) + k \in 1..Len(old) + Len(add)
                                 /\ ~ Len(old) + k <= Len(old)
                                 /\ (Len(old) + k) - Len(old) = k
      BY <2>2
    <3> QED
      BY <3>1, <3>2, <3>3
  <2>5. \A n \in 1..m : n \in 1..m + 1
    OBVIOUS
  <2>6. \A n \in 1..m + 1 : n \in 1..m \/ n = m + 1
    OBVIOUS
  <2>7. ASSUME NEW i \in 1..Len(new)
        PROVE  \E n \in 1..m + 1 : \E k \in 1..Len(seqs[n]) :
                   i = Len(flat[n - 1]) + k /\ new[i] = seqs[n][k]
    <3>1. CASE i <= Len(old)
      <4>1. i \in 1..Len(old)
        BY <2>2, <2>4, <3>1
      <4>2. PICK n \in 1..m : \E k \in 1..Len(seqs[n]) :
                i = Len(flat[n - 1]) + k /\ old[i] = seqs[n][k]
        BY <2>3, <4>1 DEF Placed
      <4> QED
        BY <2>4, <2>5, <4>1, <4>2
    <3>2. CASE i > Len(old)
      <4> DEFINE k == i - Len(old)
      <4> HIDE DEF old, add, new
      <4>1. k \in 1..Len(add) /\ i = Len(old) + k
        BY <2>2, <2>4, <3>2
      <4> HIDE DEF k
      <4>2. new[i] = add[k] /\ m + 1 \in 1..m + 1
        BY <2>4, <4>1
      <4>3. flat[(m + 1) - 1] = old
        BY <2>1 DEF old
      <4> QED
        BY <4>1, <4>2, <4>3 DEF add
    <3> QED
      BY <2>2, <2>4, <3>1, <3>2
  <2>8. ASSUME NEW n \in 1..m + 1, NEW k \in 1..Len(seqs[n])
        PROVE  /\ Len(flat[n - 1]) + k \in 1..Len(new)
               /\ new[Len(flat[n - 1]) + k] = seqs[n][k]
    <3>1. CASE n \in 1..m
      <4>1. /\ Len(flat[n - 1]) + k \in 1..Len(old)
            /\ old[Len(flat[n - 1]) + k] = seqs[n][k]
        BY <2>3, <3>1 DEF Placed
      <4> DEFINE i == Len(flat[n - 1]) + k
      <4> HIDE DEF i, old, add, new
      <4>2. i \in 1..Len(old) /\ old[i] = seqs[n][k]
        BY <4>1 DEF i
      <4>3. i \in 1..Len(new) /\ new[i] = seqs[n][k]
        BY <2>2, <2>4, <4>2
      <4> QED
        BY <4>3 DEF i
    <3>2. CASE n = m + 1
      <4>1. flat[n - 1] = old /\ seqs[n] = add
        BY <2>1, <3>2
      <4> HIDE DEF old, add, new
      <4>2. k \in 1..Len(add)
        BY <4>1
      <4>3. Len(old) + k \in 1..Len(new) /\ new[Len(old) + k] = add[k]
        BY <2>2, <2>4, <4>2
      <4> QED
        BY <4>1, <4>3
    <3> QED
      BY <2>6, <3>1, <3>2
  <2> HIDE DEF new
  <2> QED
    BY <2>7, <2>8 DEF Placed, new
<1>6. \A m \in Nat : m \in S
  <2> HIDE DEF S
  <2> QED BY <1>4, <1>5, Inductive
<1>7. \A m \in 0..N : m \in Nat /\ m <= N
  BY <1>1
<1> QED
  BY <1>6, <1>7 DEF N

\* What comes before another in the order has a smaller place.
LEMMA SortedInOrder ==
    ASSUME NEW S, IsFiniteSet(S), NEW place, \A x \in S : place[x] \in Nat,
           \A x, y \in S : place[x] = place[y] => x = y,
           NEW n \in 1..Cardinality(S), NEW m \in 1..Cardinality(S),
           place[Sorted(S, place)[n]] < place[Sorted(S, place)[m]]
    PROVE  n < m
<1> DEFINE x == Sorted(S, place)[n]
           z == Sorted(S, place)[m]
           A == {y \in S : place[y] < place[x]}
           B == {y \in S : place[y] < place[z]}
<1>1. /\ Cardinality(S) \in Nat /\ x \in S /\ z \in S
      /\ Cardinality(A) = n - 1 /\ Cardinality(B) = m - 1
  BY SortedIs
<1>2. place[x] \in Nat /\ place[z] \in Nat /\ place[x] < place[z]
  BY <1>1
<1> HIDE DEF x, z
<1>3. A \in SUBSET B
  BY <1>2
<1>4. x \in B /\ x \notin A
  BY <1>1, <1>2
<1>5. IsFiniteSet(B)
  BY FS_Subset
<1> HIDE DEF A, B
<1>6. Cardinality(A) <= Cardinality(B) /\ (Cardinality(B) = Cardinality(A) => B = A)
  BY <1>3, <1>5, FS_Subset
<1> QED
  BY <1>1, <1>4, <1>6

\* Every element of a set has a place in its order.
LEMMA SortedIsAll ==
    ASSUME NEW S, IsFiniteSet(S), NEW place, \A x \in S : place[x] \in Nat,
           \A x, y \in S : place[x] = place[y] => x = y
    PROVE  \A x \in S : \E n \in 1..Cardinality(S) : Sorted(S, place)[n] = x
<1> DEFINE N == Cardinality(S)
           T == 1..N
           f == [n \in T |-> Sorted(S, place)[n]]
           below(x) == Cardinality({y \in S : place[y] < place[x]})
<1>1. N \in Nat /\ \A n \in T : Sorted(S, place)[n] \in S /\ below(Sorted(S, place)[n]) = n - 1
  BY SortedIs
<1> HIDE DEF below
<1>2. \A n \in T : f[n] \in S /\ below(f[n]) = n - 1
  BY <1>1
<1>3. f \in [T -> S]
  BY <1>1
<1> HIDE DEF f
<1>4. \A n, m \in T : f[n] = f[m] => n = m
  <2> TAKE n, m \in T
  <2>1. f[n] = f[m] => n - 1 = m - 1
    BY <1>2
  <2>2. n \in Int /\ m \in Int
    OBVIOUS
  <2> QED
    BY <2>1, <2>2
<1>5. Cardinality(T) = N /\ IsFiniteSet(T)
  BY <1>1, FS_Interval
<1> HIDE DEF T
<1>6. f \in Injection(T, S)
  BY <1>3, <1>4 DEF Injection, IsInjective
<1>7. f \in Surjection(T, S)
  BY <1>5, <1>6, FS_Injection DEF N
<1>8. \A x \in S : \E n \in T : f[n] = x
  BY <1>7 DEF Surjection
<1> QED
  BY <1>8 DEF f, T

\* The charges of a trip are those of its bills: each comes after the others of its bill that are
\* above it and after all of the bills before its own, and none is missing.
LEMMA EntriesPlaced ==
    ASSUME NEW bs, SoundBills(bs)
    PROVE  /\ \A i \in DOMAIN Entries(bs) :
                 \E b \in bs : \E k \in DOMAIN EntriesOf(b) :
                     /\ Entries(bs)[i] = EntriesOf(b)[k]
                     /\ \A j \in 1..k - 1 : \E l \in 1..i - 1 : Entries(bs)[l] = EntriesOf(b)[j]
                     /\ \A c \in bs : c.file < b.file =>
                           \A j \in DOMAIN EntriesOf(c) :
                              \E l \in 1..i - 1 : Entries(bs)[l] = EntriesOf(c)[j]
           /\ \A b \in bs : \A k \in DOMAIN EntriesOf(b) :
                 \E i \in DOMAIN Entries(bs) : Entries(bs)[i] = EntriesOf(b)[k]
<1> DEFINE ordered == InOrder(bs)
           place == [b \in bs |-> b.file]
           N == Cardinality(bs)
           each == [n \in DOMAIN ordered |-> EntriesOf(ordered[n])]
           entries == Entries(bs)
<1>1. /\ IsFiniteSet(bs)
      /\ \A b \in bs : place[b] = b.file /\ place[b] \in Nat /\ EntriesOf(b) \in Seq(EntryType)
      /\ \A a, b \in bs : place[a] = place[b] => a = b
  BY EntriesOfAre DEF SoundBills, BillType
<1>2. ordered = Sorted(bs, place)
  BY DEF InOrder
<1> HIDE DEF place, ordered
<1>3. /\ DOMAIN ordered = 1..N /\ N \in Nat
      /\ \A n \in 1..N : ordered[n] \in bs
      /\ \A b \in bs : \E n \in 1..N : ordered[n] = b
  <2>1. /\ DOMAIN ordered = 1..N /\ N \in Nat
        /\ \A n \in 1..N : ordered[n] \in bs
    BY <1>1, <1>2, SortedIs
  <2>2. \A b \in bs : \E n \in 1..N : ordered[n] = b
    BY <1>1, <1>2, SortedIsAll
  <2> QED
    BY <2>1, <2>2
<1>4. /\ \A n \in 1..N : each[n] = EntriesOf(ordered[n]) /\ each[n] \in Seq(EntryType)
      /\ each \in [1..N -> Seq(EntryType)]
  BY <1>1, <1>3
<1>5. entries = FlattenSeq(each)
  BY DEF Entries, ordered
<1> HIDE DEF each, N, entries
<1>6. each \in Seq(Seq(EntryType)) /\ Len(each) = N
  <2>1. each \in Seq(Seq(EntryType)) /\ DOMAIN each = 1..N
    BY <1>3, <1>4, IsASeq
  <2> QED
    BY <1>3, <2>1, LenProperties
<1>7. PICK flat : Flattens(flat, each, EntryType)
  BY <1>6, FlattenIs
<1>8. /\ Placed(flat, each, N) /\ (\A m \in 0..N : Placed(flat, each, m))
      /\ entries = flat[N] /\ entries \in Seq(EntryType)
  <2>1. N \in 0..N /\ \A m \in 0..N : Placed(flat, each, m)
    BY <1>3, <1>6, <1>7, FlatPlaces
  <2>2. flat[Len(each)] = FlattenSeq(each) /\ flat[Len(each)] \in Seq(EntryType)
    BY <1>3, <1>6, <1>7 DEF Flattens
  <2> QED
    BY <1>5, <1>6, <2>1, <2>2
<1>9. /\ DOMAIN entries = 1..Len(entries)
      /\ \A n \in 1..N : Len(each[n]) \in Nat /\ DOMAIN each[n] = 1..Len(each[n])
      /\ \A n \in 1..N : Len(flat[n - 1]) \in Nat
  <2>1. \A n \in 1..N : n - 1 \in 0..N
    BY <1>3
  <2> QED
    BY <1>4, <1>6, <1>7, <1>8, <2>1, LenProperties DEF Flattens
<1>10. ASSUME NEW i \in DOMAIN entries
       PROVE  \E b \in bs : \E k \in DOMAIN EntriesOf(b) :
                  /\ entries[i] = EntriesOf(b)[k]
                  /\ \A j \in 1..k - 1 : \E l \in 1..i - 1 : entries[l] = EntriesOf(b)[j]
                  /\ \A c \in bs : c.file < b.file =>
                        \A j \in DOMAIN EntriesOf(c) :
                           \E l \in 1..i - 1 : entries[l] = EntriesOf(c)[j]
  <2>1. PICK n \in 1..N : \E k \in 1..Len(each[n]) :
            i = Len(flat[n - 1]) + k /\ entries[i] = each[n][k]
    BY <1>8, <1>9 DEF Placed
  <2>2. PICK k \in 1..Len(each[n]) :
            i = Len(flat[n - 1]) + k /\ entries[i] = each[n][k]
    BY <2>1
  <2> DEFINE b == ordered[n]
  <2>3. b \in bs /\ EntriesOf(b) = each[n] /\ k \in DOMAIN EntriesOf(b)
    BY <1>3, <1>4, <1>9
  <2>4. ASSUME NEW j \in 1..k - 1
        PROVE  \E l \in 1..i - 1 : entries[l] = EntriesOf(b)[j]
    <3> DEFINE l == Len(flat[n - 1]) + j
    <3>1. j \in 1..Len(each[n]) /\ l \in 1..i - 1
      BY <1>9, <2>2
    <3>2. entries[l] = each[n][j]
      BY <1>8, <3>1 DEF Placed
    <3> QED
      BY <2>3, <3>1, <3>2
  <2>5. ASSUME NEW c \in bs, c.file < b.file, NEW j \in DOMAIN EntriesOf(c)
        PROVE  \E l \in 1..i - 1 : entries[l] = EntriesOf(c)[j]
    <3>1. PICK q \in 1..N : ordered[q] = c
      BY <1>3
    <3>2. q < n
      <4>1. place[Sorted(bs, place)[q]] < place[Sorted(bs, place)[n]]
        BY <1>1, <1>2, <2>3, <2>5, <3>1
      <4> QED
        BY <1>1, <4>1, SortedInOrder DEF N
    <3> DEFINE l == Len(flat[q - 1]) + j
    <3>3. EntriesOf(c) = each[q] /\ j \in 1..Len(each[q])
      BY <1>4, <1>9, <3>1
    <3>4. n - 1 \in 0..N /\ q \in 1..n - 1
      BY <1>3, <3>2
    <3>5. l \in 1..Len(flat[n - 1])
      BY <1>8, <3>3, <3>4 DEF Placed
    <3>6. entries[l] = each[q][j]
      BY <1>8, <3>3 DEF Placed
    <3> HIDE DEF l
    <3>7. l \in 1..i - 1
      BY <1>9, <2>2, <3>5
    <3> QED
      BY <3>3, <3>6, <3>7
  <2> HIDE DEF b
  <2> QED
    BY <2>2, <2>3, <2>4, <2>5
<1>11. ASSUME NEW b \in bs, NEW k \in DOMAIN EntriesOf(b)
       PROVE  \E i \in DOMAIN entries : entries[i] = EntriesOf(b)[k]
  <2>1. PICK n \in 1..N : ordered[n] = b
    BY <1>3
  <2>2. EntriesOf(b) = each[n] /\ k \in 1..Len(each[n])
    BY <1>4, <1>9, <2>1
  <2>3. /\ Len(flat[n - 1]) + k \in 1..Len(entries)
        /\ entries[Len(flat[n - 1]) + k] = each[n][k]
    BY <1>8, <2>2 DEF Placed
  <2> QED
    BY <1>9, <2>2, <2>3
<1> QED
  BY <1>10, <1>11 DEF entries

\* The charges of a trip, each transaction once, before anything is settled about them.
Charges(bs) ==
    LET entries == Entries(bs)
        kept    == Sorted(Kept(entries), [i \in Kept(entries) |-> i])
    IN  [n \in DOMAIN kept |-> entries[kept[n]]]

\* The first of its fingerprint among the charges of its bill.
FirstOf(b, k) ==
    \A j \in 1..k - 1 : Fingerprint(EntriesOf(b)[j]) # Fingerprint(EntriesOf(b)[k])

\* Every transaction of the bills is charged, once, as the first charge of it on the first of the
\* bills that have it says.
LEMMA ChargesKept ==
    ASSUME NEW bs, SoundBills(bs)
    PROVE  /\ IsFiniteSet(DOMAIN Charges(bs))
           /\ DOMAIN DraftLines(bs) = DOMAIN Charges(bs)
           /\ \A n \in DOMAIN Charges(bs) :
                 /\ Charges(bs)[n] \in EntryType
                 /\ DraftLines(bs)[n] = DraftLine(Charges(bs)[n])
                 /\ \E b \in bs : \E k \in DOMAIN EntriesOf(b) :
                       Charges(bs)[n] = EntriesOf(b)[k] /\ FirstOf(b, k)
           /\ \A b \in bs : \A k \in DOMAIN EntriesOf(b) :
                 \E n \in DOMAIN Charges(bs) :
                     Fingerprint(Charges(bs)[n]) = Fingerprint(EntriesOf(b)[k])
           /\ \A n, m \in DOMAIN Charges(bs) :
                 Fingerprint(Charges(bs)[n]) = Fingerprint(Charges(bs)[m]) => n = m
           /\ \A n \in DOMAIN Charges(bs) : \A d \in bs : \A l \in DOMAIN EntriesOf(d) :
                 Fingerprint(Charges(bs)[n]) = Fingerprint(EntriesOf(d)[l]) =>
                     Charges(bs)[n].proof <= d.file
<1> DEFINE entries == Entries(bs)
           K == Kept(entries)
           place == [i \in K |-> i]
           kept == Sorted(K, place)
           N == Cardinality(K)
           print(i) == Fingerprint(entries[i])
<1>1. /\ DOMAIN entries = 1..Len(entries) /\ Len(entries) \in Nat
      /\ \A i \in DOMAIN entries : entries[i] \in EntryType
  <2>1. entries \in Seq(EntryType)
    BY EntriesAre, EntriesOfAre DEF SoundBills
  <2> HIDE DEF entries
  <2> QED
    BY <2>1, LenProperties, ElementOfSeq
<1>2. /\ \A i \in DOMAIN entries :
            \E b \in bs : \E k \in DOMAIN EntriesOf(b) :
                /\ entries[i] = EntriesOf(b)[k]
                /\ \A j \in 1..k - 1 : \E l \in 1..i - 1 : entries[l] = EntriesOf(b)[j]
                /\ \A c \in bs : c.file < b.file =>
                      \A j \in DOMAIN EntriesOf(c) :
                         \E l \in 1..i - 1 : entries[l] = EntriesOf(c)[j]
      /\ \A b \in bs : \A k \in DOMAIN EntriesOf(b) :
            \E i \in DOMAIN entries : entries[i] = EntriesOf(b)[k]
  BY EntriesPlaced
<1>3. /\ DraftLines(bs) = [n \in DOMAIN kept |-> DraftLine(entries[kept[n]])]
      /\ Charges(bs) = [n \in DOMAIN kept |-> entries[kept[n]]]
  BY DEF DraftLines, Charges
<1>4. \A i \in DOMAIN entries : i \in K <=> \A j \in 1..i - 1 : print(j) # print(i)
  BY DEF Kept
<1>5. K \subseteq DOMAIN entries
  BY DEF Kept
<1> HIDE DEF entries, K, print
<1>6. IsFiniteSet(K) /\ \A i \in K : i \in Nat /\ i >= 1
  <2>1. IsFiniteSet(1..Len(entries))
    BY <1>1, FS_Interval
  <2> QED
    BY <1>1, <1>5, <2>1, FS_Subset
<1>7. /\ \A i \in K : place[i] = i /\ place[i] \in Nat
      /\ \A i, j \in K : place[i] = place[j] => i = j
  BY <1>6
<1> HIDE DEF place
<1>8. /\ DOMAIN kept = 1..N /\ N \in Nat
      /\ \A n \in 1..N : kept[n] \in K /\ Cardinality({y \in K : place[y] < place[kept[n]]}) = n - 1
  BY <1>6, <1>7, SortedIs
<1>9. \A i \in K : \E n \in 1..N : kept[n] = i
  BY <1>6, <1>7, SortedIsAll
<1> HIDE DEF kept, N
<1>10. /\ DOMAIN Charges(bs) = 1..N /\ DOMAIN DraftLines(bs) = 1..N
       /\ \A n \in 1..N : /\ Charges(bs)[n] = entries[kept[n]]
                          /\ DraftLines(bs)[n] = DraftLine(Charges(bs)[n])
                          /\ kept[n] \in DOMAIN entries /\ kept[n] \in K
                          /\ Fingerprint(Charges(bs)[n]) = print(kept[n])
  BY <1>3, <1>5, <1>8 DEF print
<1>11. ASSUME NEW n \in 1..N
       PROVE  \E b \in bs : \E k \in DOMAIN EntriesOf(b) :
                  Charges(bs)[n] = EntriesOf(b)[k] /\ FirstOf(b, k)
  <2>1. kept[n] \in K /\ kept[n] \in DOMAIN entries /\ Charges(bs)[n] = entries[kept[n]]
    BY <1>10
  <2>2. PICK b \in bs : \E k \in DOMAIN EntriesOf(b) :
            /\ entries[kept[n]] = EntriesOf(b)[k]
            /\ \A j \in 1..k - 1 : \E l \in 1..kept[n] - 1 : entries[l] = EntriesOf(b)[j]
    BY <1>2, <2>1
  <2>3. PICK k \in DOMAIN EntriesOf(b) :
            /\ entries[kept[n]] = EntriesOf(b)[k]
            /\ \A j \in 1..k - 1 : \E l \in 1..kept[n] - 1 : entries[l] = EntriesOf(b)[j]
    BY <2>2
  <2>4. ASSUME NEW j \in 1..k - 1
        PROVE  Fingerprint(EntriesOf(b)[j]) # Fingerprint(EntriesOf(b)[k])
    <3>1. PICK l \in 1..kept[n] - 1 : entries[l] = EntriesOf(b)[j]
      BY <2>3
    <3>2. print(l) # print(kept[n])
      BY <1>4, <2>1
    <3> QED
      BY <2>3, <3>1, <3>2 DEF print
  <2> QED
    BY <2>1, <2>3, <2>4 DEF FirstOf
<1>12. ASSUME NEW b \in bs, NEW k \in DOMAIN EntriesOf(b)
       PROVE  \E n \in 1..N : Fingerprint(Charges(bs)[n]) = Fingerprint(EntriesOf(b)[k])
  <2> DEFINE Same == {i \in DOMAIN entries : print(i) = Fingerprint(EntriesOf(b)[k])}
  <2>1. Same \subseteq Nat /\ Same # {}
    BY <1>1, <1>2 DEF print
  <2>2. PICK i \in Same : \A j \in Same : i <= j
    BY <2>1, Least
  <2>3. i \in K
    <3>1. ASSUME NEW j \in 1..i - 1
          PROVE  print(j) # print(i)
      <4>1. j \in DOMAIN entries /\ ~ i <= j
        BY <1>1
      <4> QED
        BY <2>2, <4>1
    <3> QED
      BY <1>4, <3>1
  <2>4. PICK n \in 1..N : kept[n] = i
    BY <1>9, <2>3
  <2> QED
    BY <1>10, <2>4
<1>13. ASSUME NEW n \in 1..N, NEW m \in 1..N,
              Fingerprint(Charges(bs)[n]) = Fingerprint(Charges(bs)[m])
       PROVE  n = m
  <2>1. print(kept[n]) = print(kept[m]) /\ kept[n] \in K /\ kept[m] \in K
    BY <1>10, <1>13
  <2>2. kept[n] = kept[m]
    <3>1. kept[n] < kept[m] => kept[n] \in 1..kept[m] - 1
      BY <1>6, <2>1
    <3>2. kept[m] < kept[n] => kept[m] \in 1..kept[n] - 1
      BY <1>6, <2>1
    <3>3. kept[n] < kept[m] \/ kept[m] < kept[n] \/ kept[n] = kept[m]
      BY <1>6, <2>1
    <3> QED
      BY <1>4, <1>5, <2>1, <3>1, <3>2, <3>3
  <2>3. n - 1 = m - 1
    BY <1>8, <2>2
  <2> QED
    BY <2>3
<1>14. ASSUME NEW n \in 1..N, NEW d \in bs, NEW l \in DOMAIN EntriesOf(d),
              Fingerprint(Charges(bs)[n]) = Fingerprint(EntriesOf(d)[l])
       PROVE  Charges(bs)[n].proof <= d.file
  <2> DEFINE i == kept[n]
  <2>1. i \in K /\ i \in DOMAIN entries /\ Charges(bs)[n] = entries[i]
    BY <1>10
  <2> HIDE DEF i
  <2>2. PICK b \in bs :
            /\ \E k \in DOMAIN EntriesOf(b) : entries[i] = EntriesOf(b)[k]
            /\ \A c \in bs : c.file < b.file =>
                  \A j \in DOMAIN EntriesOf(c) :
                     \E p \in 1..i - 1 : entries[p] = EntriesOf(c)[j]
    BY <1>2, <2>1
  <2>3. entries[i].proof = b.file
    BY <2>2 DEF EntriesOf
  <2>4. b.file \in Nat /\ d.file \in Nat
    BY DEF SoundBills, BillType
  <2>5. ~ d.file < b.file
    <3>1. ASSUME d.file < b.file
          PROVE  FALSE
      <4>1. PICK p \in 1..i - 1 : entries[p] = EntriesOf(d)[l]
        BY <2>2, <3>1
      <4>2. print(p) = print(i)
        BY <1>14, <2>1, <4>1 DEF print
      <4> QED
        BY <1>4, <2>1, <4>2
    <3> QED
      BY <3>1
  <2> QED
    BY <2>1, <2>3, <2>4, <2>5
<1> QED
  <2>1. \A n \in 1..N : Charges(bs)[n] \in EntryType
    BY <1>1, <1>10
  <2>2. IsFiniteSet(1..N)
    BY <1>8, FS_Interval
  <2> QED
    BY <1>10, <1>11, <1>12, <1>13, <1>14, <2>1, <2>2

\* The lines of a draft come from charges of the bills, no two of them the same transaction.
ComeFrom(bs, from) ==
    /\ \A n \in DOMAIN DraftLines(bs) :
          /\ DraftLines(bs)[n] = DraftLine(from[n])
          /\ \E b \in bs : \E k \in DOMAIN EntriesOf(b) : from[n] = EntriesOf(b)[k]
    /\ \A n, m \in DOMAIN DraftLines(bs) : Fingerprint(from[n]) = Fingerprint(from[m]) => n = m

LEMMA LinesComeFrom ==
    ASSUME NEW bs, SoundBills(bs)
    PROVE  \E from : ComeFrom(bs, from)
<1>1. ComeFrom(bs, Charges(bs))
  BY ChargesKept DEF ComeFrom
<1> QED
  BY <1>1

\* Once drafted, the lines are those of the bills the claim has.
Drafted == phase # "reading" => lines = DraftLines(bills)

LEMMA DraftStays ==
    ASSUME bills' = bills, withdrawn' = withdrawn
    PROVE  DraftLines(bills)' = DraftLines(bills)
<1> DEFINE entries == Entries(bills)
           kept == Sorted(Kept(entries), [i \in Kept(entries) |-> i])
           line(n) == DraftLine(entries[kept[n]])
<1>1. DOMAIN kept' = DOMAIN kept /\ \A n : line(n)' = line(n)
  <2>1. entries' = entries /\ kept' = kept
    OBVIOUS
  <2>2. \A n : /\ (entries[kept[n]])' = entries[kept[n]]
               /\ Preset(entries[kept[n]])' = Preset(entries[kept[n]])
    BY <2>1 DEF Preset
  <2> QED
    BY <2>1, <2>2 DEF DraftLine
<1>2. /\ DraftLines(bills) = [n \in DOMAIN kept |-> line(n)]
      /\ DraftLines(bills)' = [n \in DOMAIN kept' |-> line(n)']
  BY DEF DraftLines
<1> HIDE DEF line, kept
<1> QED
  BY <1>1, <1>2

LEMMA DraftedIsInvariant == Spec => []Drafted
<1>1. Init => Drafted
  BY DEF Init, Drafted
<1>2. ASSUME Drafted, [Next]_vars
      PROVE  Drafted'
  <2>1. ASSUME phase # "reading", lines' = lines, bills' = bills, withdrawn' = withdrawn
        PROVE  Drafted'
    BY <1>2, <2>1, DraftStays DEF Drafted
  <2>2. CASE Draft
    <3>1. DraftLines(bills)' = DraftLines(bills)
      BY <2>2, DraftStays DEF Draft
    <3> QED
      BY <2>2, <3>1 DEF Draft, Drafted
  <2>3. CASE Settle
    BY <2>1, <2>3 DEF Settle
  <2>4. \A i \in DOMAIN lines : Judge(i) => Drafted'
    BY <2>1 DEF Judge
  <2>5. \A what : Changing(what) => Drafted'
    BY DEF Changing, Drafted
  <2>6. \A i \in DOMAIN lines : Withdraw(lines[i].label) => Drafted'
    BY <2>5 DEF Withdraw
  <2>7. \A b \in bills, file \in Files, kind \in Kinds : \A sender \in Senders \cup {b.sender} :
            Forward(b, file, kind, sender) => Drafted'
    BY <2>5 DEF Forward
  <2>8. CASE UNCHANGED vars
    <3>1. DraftLines(bills)' = DraftLines(bills)
      BY <2>8, DraftStays DEF vars
    <3> QED
      BY <1>2, <2>8, <3>1 DEF vars, Drafted
  <2> QED
    BY <1>2, <2>2, <2>3, <2>4, <2>6, <2>7, <2>8 DEF Next
<1> QED
  BY <1>1, <1>2, PTL DEF Spec

\* The amounts of a list come to a number.
LEMMA AmountsComeTo ==
    ASSUME NEW amounts, NEW n \in Nat, DOMAIN amounts = 1..n, \A i \in 1..n : amounts[i] \in Nat
    PROVE  SumFunction(amounts) \in Nat
<1> DEFINE T == 1..n
<1>1. IsFiniteSet(T)
  BY FS_Interval
<1>2. \A i \in T : amounts[i] \in Int /\ amounts[i] \in Nat
  OBVIOUS
<1> HIDE DEF T
<1>3. SumFunctionOnSet(amounts, T) \in Nat
  BY <1>1, <1>2, SumType
<1> QED
  BY <1>3 DEF SumFunction, T

\* What a bill says it comes to is a number.
LEMMA PrintedIsNat ==
    ASSUME NEW b \in BillType
    PROVE  Printed(b) \in Nat
<1>1. SumFunction(Amounts(b.typed)) \in Nat
  <2> DEFINE T == [label : STRING, amount : Nat, day : Dated, nights : Nat]
             typed == b.typed
  <2>1. typed \in Seq(T) /\ \A r \in T : r.amount \in Nat
    BY BillIs
  <2> HIDE DEF T, typed
  <2>2. DOMAIN typed = 1..Len(typed) /\ Len(typed) \in Nat
        /\ \A i \in 1..Len(typed) : typed[i] \in T
    BY <2>1, LenProperties, ElementOfSeq
  <2> DEFINE amounts == Amounts(typed)
  <2>3. DOMAIN amounts = 1..Len(typed) /\ \A i \in 1..Len(typed) : amounts[i] \in Nat
    BY <2>1, <2>2 DEF Amounts
  <2> HIDE DEF amounts
  <2>4. SumFunction(amounts) \in Nat
    BY <2>2, <2>3, AmountsComeTo
  <2> QED
    BY <2>4 DEF typed, amounts
<1>2. SumFunction(Amounts(Readable(b.rows))) \in Nat
  <2> DEFINE rows == Readable(b.rows)
             amounts == Amounts(rows)
  <2>1. DOMAIN rows = 1..Len(rows) /\ Len(rows) \in Nat
    BY ChargesAre, LenProperties
  <2>2. DOMAIN amounts = DOMAIN rows /\ \A i \in DOMAIN rows : amounts[i] \in Nat
    BY ChargesAre DEF Amounts
  <2> HIDE DEF rows, amounts
  <2>3. SumFunction(amounts) \in Nat
    <3>1. DOMAIN amounts = 1..Len(rows) /\ \A i \in 1..Len(rows) : amounts[i] \in Nat
      BY <2>1, <2>2
    <3> QED
      BY <2>1, <3>1, AmountsComeTo
  <2> QED
    BY <2>3 DEF rows, amounts
<1>3. b.total \in Int /\ b.subtotal \in Int /\ (b.total > b.subtotal => b.total \in Nat)
  BY BillIs DEF Unread
<1> QED
  BY <1>1, <1>2, <1>3 DEF Printed, Positive

\* The lines of one paper are allowed no more than it says.
LEMMA PaperWithin ==
    ASSUME NEW G, IsFiniteSet(G), NEW got, NEW place, NEW p \in BillType, TaxCanBeShared(p),
           p.kind \in Producing, Read(p).status = "extracted",
           \A n \in G : /\ got[n] \in Int
                        /\ place[n] \in DOMAIN EntriesOf(p)
                        /\ got[n] <= Brought(p)[place[n]],
           \A n, m \in G : place[n] = place[m] => n = m
    PROVE  SumFunctionOnSet(got, G) <= Printed(p)
<1> DEFINE entries == EntriesOf(p)
           T == DOMAIN EntriesOf(p)
           all == Brought(p)
<1>1. DOMAIN all = T /\ \A k \in T : all[k] = entries[k].item.amount + entries[k].share
  BY DEF Brought
<1>2. \A k \in T : all[k] \in Nat
  BY <1>1, ChargesBrought
<1>3. IsFiniteSet(T)
  <2>1. entries \in Seq(EntryType)
    BY EntriesOfAre
  <2>2. DOMAIN entries = 1..Len(entries) /\ Len(entries) \in Nat
    <3> HIDE DEF entries
    <3> QED BY <2>1, LenProperties
  <2> QED
    BY <2>2, FS_Interval
<1>4. SumFunction(all) = SumFunctionOnSet(all, T)
  BY <1>1 DEF SumFunction
<1>5. SumFunction(all) <= Printed(p)
  BY EntriesComeTo, ReadWithin
<1>6. \A n \in G : got[n] \in Int /\ place[n] \in T /\ got[n] <= all[place[n]]
  OBVIOUS
<1> HIDE DEF all, T
<1>7. SumFunctionOnSet(got, G) <= SumFunctionOnSet(all, T)
  BY <1>2, <1>3, <1>6, SumsInto
<1>8. SumFunctionOnSet(got, G) \in Int /\ SumFunctionOnSet(all, T) \in Int /\ Printed(p) \in Int
  <2>1. \A k \in T : all[k] \in Int
    BY <1>2
  <2> QED
    BY <1>3, <1>6, <2>1, SumType, PrintedIsNat
<1> QED
  BY <1>4, <1>5, <1>7, <1>8

\* However the bills are read, however often they arrive, under whatever names, and whatever policy
\* and the claimant take off: a claim comes to no more than the claimant's own bills say, each
\* counted once under each name that its charges are taken to be from. It is the deduplication of
\* evidence/dedup.py that bounds the lines of a receipt under one name by its own charges, and
\* apportion_tax() that bounds what they are claimed at. A receipt that is read as another
\* vendor's when it comes again is counted again, as the code pays it again: see
\* ForwardsArePaidOnce.
THEOREM ClaimsAreCovered == Spec => []NeverMoreThanTheBills
<1>1. ASSUME Evaluated, Settled, Drafted, phase = "settled"
      PROVE  summary.net <= SumFunctionOnSet([b \in OwnPapers |-> Printed(b)], OwnPapers)
  <2> DEFINE D == DOMAIN lines
             S == {n \in D : lines[n].preset = "none"}
             papers == [b \in OwnPapers |-> Printed(b)]
  <2>1. PICK from : ComeFrom(bills, from)
    BY <1>1, LinesComeFrom DEF Evaluated
  <2>2. /\ \A n \in D : /\ lines[n] = DraftLine(from[n])
                        /\ \E b \in bills : \E k \in DOMAIN EntriesOf(b) :
                               from[n] = EntriesOf(b)[k]
        /\ \A n, m \in D : Fingerprint(from[n]) = Fingerprint(from[m]) => n = m
    BY <1>1, <2>1 DEF ComeFrom, Drafted
  <2> DEFINE bill == [n \in D |-> CHOOSE b \in bills : \E k \in DOMAIN EntriesOf(b) :
                                      from[n] = EntriesOf(b)[k]]
             place == [n \in D |-> CHOOSE k \in DOMAIN EntriesOf(bill[n]) :
                                      from[n] = EntriesOf(bill[n])[k]]
             paper == [n \in D |-> PaperOf(bill[n])]
  <2>3. ASSUME NEW n \in D
        PROVE  /\ bill[n] \in bills /\ place[n] \in DOMAIN EntriesOf(bill[n])
               /\ from[n] = EntriesOf(bill[n])[place[n]]
    <3>1. bill[n] \in bills /\ \E k \in DOMAIN EntriesOf(bill[n]) : from[n] = EntriesOf(bill[n])[k]
      BY <2>2
    <3> HIDE DEF bill
    <3> QED
      BY <3>1
  <2>4. \A n \in D : paper[n] = PaperOf(bill[n])
    OBVIOUS
  <2> HIDE DEF bill, place, paper
  <2>5. ASSUME NEW n \in D
        PROVE  LET p == paper[n] IN
               /\ p \in BillType /\ TaxCanBeShared(p) /\ p.kind \in Producing
               /\ Read(p).status = "extracted"
               /\ place[n] \in DOMAIN EntriesOf(p)
               /\ EntriesOf(p)[place[n]].item = from[n].item
               /\ Brought(p)[place[n]] = Claimable(lines[n])
               /\ lines[n].preset = "none" => p \in OwnPapers
    <3> DEFINE b == bill[n]
               p == paper[n]
               k == place[n]
    <3>1. b \in BillType /\ TaxCanBeShared(b) /\ b \in bills /\ k \in DOMAIN EntriesOf(b)
      BY <1>1, <2>3 DEF Evaluated, SoundBills
    <3>2. /\ b.kind \in Producing /\ Read(b).status = "extracted"
          /\ k \in DOMAIN Read(b).items /\ from[n].item = Read(b).items[k]
      BY <2>3, <3>1, ChargesBrought
    <3>3. /\ p \in BillType /\ TaxCanBeShared(p) /\ p.kind \in Producing
          /\ Read(p) = Read(b)
      BY <2>4, <3>1, <3>2, PaperReads
    <3>4. /\ k \in DOMAIN EntriesOf(p)
          /\ EntriesOf(p)[k].item = from[n].item /\ EntriesOf(p)[k].share = from[n].share
      BY <2>3, <2>4, <3>1, <3>2, PaperBrings
    <3>5. Brought(p)[k] = from[n].item.amount + from[n].share
      BY <3>4 DEF Brought
    <3>6. Claimable(lines[n]) = from[n].item.amount + from[n].share
      BY <2>2 DEF DraftLine, Claimable
    <3>7. ASSUME lines[n].preset = "none"
          PROVE  p \in OwnPapers
      <4>1. from[n].item.payer = PayerFound(b) /\ from[n].item.payment = b.payment
        BY <3>1, <3>2, PayersAre DEF PaidAs
      <4>2. Preset(from[n]) = "none"
        BY <2>2, <3>7 DEF DraftLine
      <4>3. PayerFound(b) # "other" /\ b.payment # "company"
        BY <4>1, <4>2 DEF Preset, DerivePaidBy
      <4>4. b.kind # "context"
        BY <3>2 DEF Producing
      <4> HIDE DEF b, p
      <4>5. p = PaperOf(b)
        BY <2>4 DEF b, p
      <4> QED
        BY <3>1, <4>3, <4>4, <4>5 DEF OwnPapers
    <3> QED
      BY <3>2, <3>3, <3>4, <3>5, <3>6, <3>7
  <2>6. IsFiniteSet(D) /\ IsFiniteSet(S) /\ S \subseteq D /\ DOMAIN outcomes = D
    <3>1. IsFiniteSet(D) /\ DOMAIN outcomes = D
      BY <1>1 DEF Evaluated, Settled
    <3>2. S \subseteq D
      OBVIOUS
    <3> QED
      BY <3>1, <3>2, FS_Subset
  <2>7. \A n \in D : /\ Got[n] \in Int /\ Got[n] <= Claimable(lines[n])
                     /\ lines[n].preset # "none" => Got[n] = 0
    <3> TAKE n \in D
    <3>1. /\ Judged(lines[n], outcomes[n]) /\ Claimable(lines[n]) \in Nat
          /\ Got[n] = outcomes[n].allowed
      BY <1>1, <2>6 DEF Evaluated, SoundLine, Got
    <3>2. outcomes[n].allowed \in Nat /\ outcomes[n].disallowed \in Nat
      BY <3>1 DEF Judged, OutcomeType
    <3>3. CASE lines[n].preset # "none"
      <4>1. outcomes[n].allowed = 0
        BY <3>1, <3>3 DEF Judged, Excluded
      <4> QED
        BY <3>1, <4>1
    <3>4. CASE lines[n].preset = "none"
      <4>1. outcomes[n].allowed + outcomes[n].disallowed = Claimable(lines[n])
        BY <3>1, <3>4 DEF Judged
      <4> QED
        BY <3>1, <3>2, <3>4, <4>1
    <3> QED
      BY <3>3, <3>4
  <2>8. summary.net = SumFunctionOnSet(Got, S)
    <3>1. summary.net = SumFunctionOnSet(Got, D)
      BY <1>1, <2>6, SummaryIs DEF Settled, SumFunction, Got
    <3>2. \A n \in D \ S : Got[n] = 0
      BY <2>7
    <3>3. \A n \in D : Got[n] \in Int
      BY <2>7
    <3> HIDE DEF D, S
    <3> QED
      BY <2>6, <3>1, <3>2, <3>3, SumOfSome
  <2>9. IsFiniteSet(OwnPapers) /\ \A p \in OwnPapers : papers[p] \in Nat /\ papers[p] = Printed(p)
    <3> DEFINE own == {x \in bills : x.kind # "context" /\ PayerFound(x) # "other"
                                       /\ x.payment # "company"}
    <3>1. own \subseteq bills /\ IsFiniteSet(bills) /\ \A b \in bills : b \in BillType
      BY <1>1 DEF Evaluated, SoundBills
    <3>2. IsFiniteSet(own)
      BY <3>1, FS_Subset
    <3>3. OwnPapers = {PaperOf(b) : b \in own}
      BY DEF OwnPapers
    <3>4. \A b \in own : PaperOf(b) \in BillType
      BY <3>1, PaperReads DEF BillType, Kinds
    <3> DEFINE made == [b \in own |-> PaperOf(b)]
    <3> HIDE DEF own
    <3>5. made \in Surjection(own, OwnPapers)
      BY <3>3 DEF Surjection
    <3>6. IsFiniteSet(OwnPapers)
      BY <3>2, <3>5, FS_Surjection
    <3> QED
      BY <3>3, <3>4, <3>6, PrintedIsNat
  <2> DEFINE each == [p \in OwnPapers |-> SumFunctionOnSet(Got, Group(paper, S, p))]
  <2>10. ASSUME NEW p \in OwnPapers
         PROVE  each[p] \in Int /\ each[p] <= papers[p]
    <3> DEFINE G == Group(paper, S, p)
    <3>1. /\ G \subseteq S /\ IsFiniteSet(G)
          /\ \A n \in G : n \in D /\ paper[n] = p /\ Got[n] \in Int
      <4>1. G \subseteq S /\ \A n \in G : n \in D /\ paper[n] = p
        BY DEF Group
      <4> HIDE DEF G, S, D
      <4> QED
        BY <2>6, <2>7, <4>1, FS_Subset
    <3>2. each[p] = SumFunctionOnSet(Got, G)
      OBVIOUS
    <3> HIDE DEF G, S, D, each
    <3>3. CASE G = {}
      <4>1. each[p] = 0
        BY <3>2, <3>3, FS_EmptySet, SumStep
      <4> QED
        BY <2>9, <4>1
    <3>4. CASE G # {}
      <4>1. PICK n \in G : TRUE
        BY <3>4
      <4>2. p \in BillType /\ TaxCanBeShared(p) /\ p.kind \in Producing
            /\ Read(p).status = "extracted"
        BY <2>5, <3>1
      <4>3. \A m \in G : /\ Got[m] \in Int /\ place[m] \in DOMAIN EntriesOf(p)
                         /\ Got[m] <= Brought(p)[place[m]]
        BY <2>5, <2>7, <3>1
      <4>4. \A m, l \in G : place[m] = place[l] => m = l
        <5> TAKE m, l \in G
        <5> SUFFICES ASSUME place[m] = place[l] PROVE m = l
          OBVIOUS
        <5>1. from[m].item = EntriesOf(p)[place[m]].item
              /\ from[l].item = EntriesOf(p)[place[l]].item
          BY <2>5, <3>1
        <5>2. Fingerprint(from[m]) = Fingerprint(from[l])
          BY <5>1 DEF Fingerprint
        <5> QED
          BY <2>2, <3>1, <5>2
      <4>5. SumFunctionOnSet(Got, G) <= Printed(p)
        BY <3>1, <4>2, <4>3, <4>4, PaperWithin
      <4>6. SumFunctionOnSet(Got, G) \in Int
        BY <3>1, SumType
      <4> QED
        BY <2>9, <3>2, <4>5, <4>6
    <3> QED
      BY <3>3, <3>4
  <2>11. \A n \in S : Got[n] \in Int /\ paper[n] \in OwnPapers
    BY <2>5, <2>7
  <2>12. \A p \in OwnPapers : each[p] = SumFunctionOnSet(Got, Group(paper, S, p))
    OBVIOUS
  <2> HIDE DEF S, D, each, papers
  <2>13. SumFunctionOnSet(Got, S) = SumFunctionOnSet(each, OwnPapers)
    BY <2>6, <2>9, <2>11, <2>12, SumsGrouped
  <2>14. SumFunctionOnSet(each, OwnPapers) <= SumFunctionOnSet(papers, OwnPapers)
    <3>1. \A p \in OwnPapers : each[p] \in Int /\ papers[p] \in Int /\ each[p] <= papers[p]
      BY <2>9, <2>10
    <3> QED
      BY <2>9, <3>1, SumsCompare
  <2> QED
    BY <2>8, <2>13, <2>14 DEF papers
<1>2. Evaluated /\ Settled /\ Drafted => NeverMoreThanTheBills
  BY <1>1 DEF NeverMoreThanTheBills
<1> QED
  BY <1>2, EvaluatedIsInvariant, SettledIsInvariant, DraftedIsInvariant, PTL

-----------------------------------------------------------------------------
(* What a claim comes to if some lines are withdrawn *)

\* The line policy sees of a charge, whether or not it gets to see it.
AsLine(entry) ==
    [head |-> ClassifyHead(entry), label |-> entry.item.label, gross |-> entry.item.amount,
     share |-> entry.share, paidBy |-> DerivePaidBy(entry.item), day |-> entry.item.day,
     nights |-> entry.item.nights, proof |-> entry.proof, preset |-> "none"]

\* A line that shares a day's cap with others.
UnderCap(line) == MealCap # NoLimit /\ line.head = "meals" /\ line.day # NoDay

\* The charges policy gets to see if the labels W are withdrawn.
Open(bs, W) ==
    {n \in DOMAIN Charges(bs) : LET item == Charges(bs)[n].item IN
        item.label \notin W /\ item.payer # "other" /\ DerivePaidBy(item) # "Company"}

Solos(bs, S) == {n \in S : ~UnderCap(AsLine(Charges(bs)[n]))}

\* What a line gets that has the rules to itself.
Alone(line) == EvaluateOne(line, NothingClaimed).allowed

Alones(bs) == [n \in DOMAIN Charges(bs) |-> Alone(AsLine(Charges(bs)[n]))]

Worths(bs) == [n \in DOMAIN Charges(bs) |-> Claimable(AsLine(Charges(bs)[n]))]

Shared(bs, S) == {n \in S : UnderCap(AsLine(Charges(bs)[n]))}

DayOf(bs) == [n \in DOMAIN Charges(bs) |-> Charges(bs)[n].item.day]

MealDays(bs) == {DayOf(bs)[n] : n \in Shared(bs, DOMAIN Charges(bs))}

\* The meals of a day that can be paid.
Eaten(bs, S, d) ==
    {n \in Shared(bs, S) : DayOf(bs)[n] = d /\ Charges(bs)[n].item.label \notin NeverPaid}

Capped(cost) == IF cost < MealCap THEN cost ELSE MealCap

ByDay(bs, S) == [d \in MealDays(bs) |-> Capped(SumFunctionOnSet(Worths(bs), Eaten(bs, S, d)))]

\* The net of a claim in closed form.
NetIf(bs, W) ==
    SumFunctionOnSet(Alones(bs), Solos(bs, Open(bs, W)))
        + SumFunctionOnSet(ByDay(bs, Open(bs, W)), MealDays(bs))

\* Whatever is settled about a charge, policy looks at the same line of it.
LEMMA SameLine ==
    ASSUME NEW entry \in EntryType
    PROVE  LET line == DraftLine(entry)
               plain == AsLine(entry)
           IN  /\ line.head = plain.head /\ line.day = plain.day /\ line.label = plain.label
               /\ Claimable(line) = Claimable(plain)
               /\ UnderCap(line) = UnderCap(plain)
               /\ Alone(line) = Alone(plain)
               /\ Priced(plain) /\ Claimable(plain) \in Nat /\ Alone(plain) \in Nat
               /\ UnderCap(plain) => plain.day \in Days
<1> DEFINE line == DraftLine(entry)
           plain == AsLine(entry)
<1>1. /\ line.head = plain.head /\ line.label = plain.label /\ line.gross = plain.gross
      /\ line.share = plain.share /\ line.day = plain.day /\ line.nights = plain.nights
  BY DEF DraftLine, AsLine
<1>2. SoundLine(line)
  BY LineIs
<1> HIDE DEF line, plain
<1>3. Claimable(line) = Claimable(plain) /\ UnderCap(line) = UnderCap(plain)
  BY <1>1 DEF Claimable, UnderCap
<1>4. Alone(line) = Alone(plain)
  <2>1. OverTariff(line) = OverTariff(plain) /\ NonReimbursable(line) = NonReimbursable(plain)
        /\ OverDailyCap(line, NothingClaimed) = OverDailyCap(plain, NothingClaimed)
    BY <1>1, <1>3 DEF OverTariff, NonReimbursable, OverDailyCap
  <2>2. Disallowed(line, NothingClaimed) = Disallowed(plain, NothingClaimed)
    BY <1>3, <2>1 DEF Disallowed, Removed
  <2> QED
    BY <1>3, <2>2 DEF Alone, EvaluateOne
<1>5. Priced(plain) /\ Claimable(plain) \in Nat /\ Priced(line)
  BY <1>1, <1>2, <1>3, SoundLineIsPriced DEF SoundLine, Priced
<1>6. Alone(plain) \in Nat
  <2>1. Tallied(NothingClaimed)
    BY DEF Tallied, NothingClaimed
  <2> QED
    BY <1>5, <2>1, WhatIsAllowed DEF Alone
<1>7. UnderCap(plain) => plain.day \in Days
  BY <1>5 DEF UnderCap, Priced
<1> QED
  BY <1>1, <1>3, <1>4, <1>5, <1>6, <1>7 DEF line, plain

\* What the numbers of the closed form are.
LEMMA ClosedFormIs ==
    ASSUME NEW bs, SoundBills(bs), NEW W
    PROVE  /\ IsFiniteSet(DOMAIN Charges(bs)) /\ IsFiniteSet(MealDays(bs))
           /\ Open(bs, W) \subseteq DOMAIN Charges(bs)
           /\ \A n \in DOMAIN Charges(bs) : Alones(bs)[n] \in Nat /\ Worths(bs)[n] \in Nat
<1>1. /\ IsFiniteSet(DOMAIN Charges(bs))
      /\ \A n \in DOMAIN Charges(bs) : Charges(bs)[n] \in EntryType
  BY ChargesKept
<1>2. Shared(bs, DOMAIN Charges(bs)) \subseteq DOMAIN Charges(bs)
  BY DEF Shared
<1>3. IsFiniteSet(MealDays(bs))
  <2> DEFINE S == Shared(bs, DOMAIN Charges(bs))
             made == [n \in S |-> DayOf(bs)[n]]
  <2>1. MealDays(bs) = {DayOf(bs)[n] : n \in S}
    BY DEF MealDays
  <2>2. IsFiniteSet(S)
    BY <1>1, <1>2, FS_Subset
  <2> HIDE DEF S
  <2>3. made \in Surjection(S, MealDays(bs))
    BY <2>1 DEF Surjection
  <2> QED
    BY <2>2, <2>3, FS_Surjection
<1>4. Open(bs, W) \subseteq DOMAIN Charges(bs)
  BY DEF Open
<1>5. \A n \in DOMAIN Charges(bs) : Alones(bs)[n] \in Nat /\ Worths(bs)[n] \in Nat
  BY <1>1, SameLine DEF Alones, Worths
<1> QED
  BY <1>1, <1>3, <1>4, <1>5

\* A sum of naturals over fewer elements is not larger.
LEMMA SumOfFewer ==
    ASSUME NEW f, NEW S, IsFiniteSet(S), \A x \in S : f[x] \in Nat, NEW T \in SUBSET S
    PROVE  SumFunctionOnSet(f, T) \in Nat /\ SumFunctionOnSet(f, T) <= SumFunctionOnSet(f, S)
<1> DEFINE rest == S \ T
<1>1. IsFiniteSet(T) /\ IsFiniteSet(rest) /\ T \cap rest = {} /\ S = T \cup rest
  BY FS_Subset
<1>2. \A x \in T \cup rest : f[x] \in Int /\ f[x] \in Nat
  OBVIOUS
<1> HIDE DEF rest
<1>3. SumFunctionOnSet(f, T) \in Nat /\ SumFunctionOnSet(f, rest) \in Nat
  BY <1>1, <1>2, SumType
<1>4. SumFunctionOnSet(f, T \cup rest) = SumFunctionOnSet(f, T) + SumFunctionOnSet(f, rest)
  BY <1>1, <1>2, SumUnion
<1> QED
  BY <1>1, <1>3, <1>4

\* The more is withdrawn, the less a claim comes to: a withdrawn meal leaves the others of its
\* day no more than it was allowed itself.
LEMMA NetShrinks ==
    ASSUME NEW bs, SoundBills(bs), NEW V, NEW W \in SUBSET V
    PROVE  NetIf(bs, V) <= NetIf(bs, W)
<1> DEFINE all == DOMAIN Charges(bs)
           fewer == Open(bs, V)
           more == Open(bs, W)
           days == MealDays(bs)
<1>1. /\ IsFiniteSet(all) /\ IsFiniteSet(days)
      /\ fewer \subseteq more /\ more \subseteq all
      /\ \A n \in all : Alones(bs)[n] \in Nat /\ Worths(bs)[n] \in Nat
  <2>1. fewer \subseteq more
    BY DEF Open
  <2> QED
    BY <2>1, ClosedFormIs
<1> HIDE DEF all, fewer, more, days
<1>2. /\ SumFunctionOnSet(Alones(bs), Solos(bs, fewer)) \in Nat
      /\ SumFunctionOnSet(Alones(bs), Solos(bs, more)) \in Nat
      /\ SumFunctionOnSet(Alones(bs), Solos(bs, fewer))
             <= SumFunctionOnSet(Alones(bs), Solos(bs, more))
  <2>1. Solos(bs, fewer) \subseteq Solos(bs, more) /\ Solos(bs, more) \subseteq all
    BY <1>1 DEF Solos
  <2>2. IsFiniteSet(Solos(bs, more)) /\ \A n \in Solos(bs, more) : Alones(bs)[n] \in Nat
    BY <1>1, <2>1, FS_Subset
  <2> QED
    BY <2>1, <2>2, SumOfFewer
<1>3. ASSUME NEW d \in days
      PROVE  /\ ByDay(bs, fewer)[d] \in Int /\ ByDay(bs, more)[d] \in Int
             /\ ByDay(bs, fewer)[d] <= ByDay(bs, more)[d]
  <2> DEFINE less == SumFunctionOnSet(Worths(bs), Eaten(bs, fewer, d))
             full == SumFunctionOnSet(Worths(bs), Eaten(bs, more, d))
  <2>1. Eaten(bs, fewer, d) \subseteq Eaten(bs, more, d) /\ Eaten(bs, more, d) \subseteq all
    BY <1>1 DEF Eaten, Shared
  <2>2. /\ IsFiniteSet(Eaten(bs, more, d))
        /\ \A n \in Eaten(bs, more, d) : Worths(bs)[n] \in Nat
    BY <1>1, <2>1, FS_Subset
  <2>3. less \in Nat /\ full \in Nat /\ less <= full
    BY <2>1, <2>2, SumOfFewer
  <2>4. ByDay(bs, fewer)[d] = Capped(less) /\ ByDay(bs, more)[d] = Capped(full)
    BY DEF ByDay, days
  <2>5. MealCap \in Int
    BY PolicyAssumption DEF NoLimit
  <2> HIDE DEF less, full
  <2> QED
    BY <2>3, <2>4, <2>5 DEF Capped
<1>4. /\ SumFunctionOnSet(ByDay(bs, fewer), days) \in Int
      /\ SumFunctionOnSet(ByDay(bs, more), days) \in Int
      /\ SumFunctionOnSet(ByDay(bs, fewer), days) <= SumFunctionOnSet(ByDay(bs, more), days)
  <2>1. \A d \in days : ByDay(bs, fewer)[d] \in Int /\ ByDay(bs, more)[d] \in Int
    BY <1>3
  <2> QED
    BY <1>1, <1>3, <2>1, SumType, SumsCompare
<1> QED
  BY <1>2, <1>4 DEF NetIf, fewer, more, days

\* A line that shares no cap is judged as if it were the only one.
AloneJudged ==
    \A i \in DOMAIN outcomes :
        lines[i].preset = "none" /\ ~UnderCap(lines[i]) => outcomes[i].allowed = Alone(lines[i])

LEMMA AloneIs ==
    ASSUME NEW line, line.preset = "none", ~UnderCap(line)
    PROVE  OutcomeOf(line).allowed = Alone(line)
<1>1. OverDailyCap(line, claimed) = 0 /\ OverDailyCap(line, NothingClaimed) = 0
  BY DEF OverDailyCap, UnderCap
<1>2. Disallowed(line, claimed) = Disallowed(line, NothingClaimed)
  BY <1>1 DEF Disallowed, Removed
<1> QED
  BY <1>2 DEF OutcomeOf, EvaluateOne, Alone

LEMMA AloneJudgedIsInvariant == Spec => []AloneJudged
<1>1. Init => AloneJudged
  BY DEF Init, AloneJudged
<1>2. ASSUME AloneJudged, [Next]_vars
      PROVE  AloneJudged'
  <2> SUFFICES ASSUME NEW i \in DOMAIN outcomes', (lines[i].preset)' = "none",
                      ~UnderCap(lines[i])'
               PROVE  (outcomes[i].allowed)' = Alone(lines[i])'
    BY DEF AloneJudged
  <2>1. ASSUME lines' = lines, i \in DOMAIN outcomes, outcomes'[i] = outcomes[i]
        PROVE  (outcomes[i].allowed)' = Alone(lines[i])'
    <3>1. UnderCap(lines[i])' = UnderCap(lines[i]) /\ Alone(lines[i])' = Alone(lines[i])
      BY <2>1
    <3> QED
      BY <1>2, <2>1, <3>1 DEF AloneJudged
  <2>2. ASSUME outcomes' = <<>>
        PROVE  FALSE
    BY <2>2
  <2>3. ASSUME NEW j \in DOMAIN lines, Judge(j)
        PROVE  (outcomes[i].allowed)' = Alone(lines[i])'
    <3>1. CASE i = j
      <4>1. lines' = lines /\ outcomes'[i] = OutcomeOf(lines[i])
        BY <2>3, <3>1, JudgeIs
      <4>2. lines[i].preset = "none" /\ ~UnderCap(lines[i])
        BY <4>1
      <4> QED
        BY <4>1, <4>2, AloneIs
    <3>2. CASE i # j
      BY <2>1, <2>3, <3>2, JudgeIs
    <3> QED
      BY <3>1, <3>2
  <2>4. Draft => FALSE
    BY <2>2 DEF Draft
  <2>5. Settle \/ UNCHANGED vars => (outcomes[i].allowed)' = Alone(lines[i])'
    BY <2>1 DEF Settle, vars
  <2>6. \A what : Changing(what) => FALSE
    BY <2>2 DEF Changing
  <2>7. \A j \in DOMAIN lines : Withdraw(lines[j].label) => FALSE
    BY <2>6 DEF Withdraw
  <2>8. \A b \in bills, file \in Files, kind \in Kinds : \A sender \in Senders \cup {b.sender} :
            Forward(b, file, kind, sender) => FALSE
    BY <2>6 DEF Forward
  <2> QED
    BY <1>2, <2>3, <2>4, <2>5, <2>7, <2>8 DEF Next
<1> QED
  BY <1>1, <1>2, PTL DEF Spec

\* A settled claim comes to the closed form.
LEMMA NetIs ==
    ASSUME Evaluated, Settled, Drafted, DaysAddUp, AloneJudged, phase = "settled"
    PROVE  summary.net = NetIf(bills, withdrawn)
<1> DEFINE D == DOMAIN lines
           S == Open(bills, withdrawn)
           solos == Solos(bills, S)
           shared == Shared(bills, S)
           days == MealDays(bills)
           line(n) == AsLine(Charges(bills)[n])
           sum(f, T) == SumFunctionOnSet(f, T)
<1>1. /\ SoundBills(bills) /\ IsFiniteSet(D) /\ DOMAIN outcomes = D
      /\ DOMAIN Charges(bills) = D
      /\ \A n \in D : /\ Charges(bills)[n] \in EntryType
                      /\ lines[n] = DraftLine(Charges(bills)[n])
  BY ChargesKept DEF Evaluated, Settled, Drafted
<1>2. \A n \in D : /\ lines[n].head = line(n).head /\ lines[n].day = line(n).day
                   /\ lines[n].label = line(n).label
                   /\ Claimable(lines[n]) = Claimable(line(n))
                   /\ UnderCap(lines[n]) = UnderCap(line(n))
                   /\ Alone(lines[n]) = Alone(line(n))
                   /\ UnderCap(line(n)) => line(n).day \in Days
  BY <1>1, SameLine
<1>3. /\ S \subseteq D
      /\ \A n \in D : n \in S <=> lines[n].preset = "none"
  <2>1. S \subseteq D
    BY <1>1 DEF Open
  <2>2. ASSUME NEW n \in D
        PROVE  n \in S <=> lines[n].preset = "none"
    <3>1. lines[n].preset = Preset(Charges(bills)[n])
      BY <1>1 DEF DraftLine
    <3> QED
      BY <1>1, <3>1 DEF Open, Preset
  <2> QED
    BY <2>1, <2>2
<1>4. \A n \in D : line(n).day = DayOf(bills)[n] /\ line(n).label = Charges(bills)[n].item.label
  BY <1>1 DEF AsLine, DayOf
<1>5. /\ solos \cup shared = S /\ solos \cap shared = {}
      /\ \A n \in solos : ~UnderCap(line(n))
      /\ \A n \in shared : UnderCap(line(n))
  BY DEF Solos, Shared
<1>6. \A n \in D : /\ Got[n] \in Int /\ (lines[n].preset # "none" => Got[n] = 0)
                   /\ (lines[n].preset = "none" /\ ~UnderCap(lines[n]) =>
                          Got[n] = Alone(lines[n]))
  <2> TAKE n \in D
  <2>1. Judged(lines[n], outcomes[n]) /\ Got[n] = outcomes[n].allowed
    BY <1>1 DEF Evaluated, Got
  <2>2. Got[n] \in Int
    BY <2>1 DEF Judged, OutcomeType
  <2>3. lines[n].preset # "none" => Got[n] = 0
    BY <2>1 DEF Judged, Excluded
  <2>4. lines[n].preset = "none" /\ ~UnderCap(lines[n]) => Got[n] = Alone(lines[n])
    BY <1>1, <2>1 DEF AloneJudged
  <2> QED
    BY <2>2, <2>3, <2>4
<1>7. \A n \in D : Worth[n] = Worths(bills)[n] /\ Alones(bills)[n] = Alone(line(n))
                   /\ Worths(bills)[n] \in Int
  <2>1. \A n \in D : Worths(bills)[n] \in Nat
    BY <1>1, ClosedFormIs
  <2> QED
    BY <1>1, <1>2, <2>1 DEF Worth, Worths, Alones
<1>8. summary.net = sum(Got, S)
  <2>1. summary.net = sum(Got, D)
    BY <1>1, SummaryIs DEF Settled, SumFunction, Got
  <2>2. \A n \in D \ S : Got[n] = 0
    BY <1>3, <1>6
  <2>3. \A n \in D : Got[n] \in Int
    BY <1>6
  <2> HIDE DEF D, S
  <2> QED
    BY <1>1, <1>3, <2>1, <2>2, <2>3, SumOfSome
<1> HIDE DEF S, line
<1>9. sum(Got, S) = sum(Got, solos) + sum(Got, shared)
  <2>1. IsFiniteSet(solos) /\ IsFiniteSet(shared)
    <3>1. solos \subseteq D /\ shared \subseteq D
      BY <1>3, <1>5
    <3> QED
      BY <1>1, <3>1, FS_Subset
  <2>2. \A n \in solos \cup shared : Got[n] \in Int
    BY <1>3, <1>5, <1>6
  <2> HIDE DEF D, solos, shared
  <2>3. sum(Got, solos \cup shared) = sum(Got, solos) + sum(Got, shared)
    BY <1>5, <2>1, <2>2, SumUnion
  <2> QED
    BY <1>5, <2>3
<1>10. sum(Got, solos) = sum(Alones(bills), solos)
  <2>1. \A n \in solos : n \in D /\ lines[n].preset = "none" /\ ~UnderCap(lines[n])
    BY <1>2, <1>3, <1>5
  <2>2. \A n \in solos : Got[n] \in Int /\ Got[n] = Alones(bills)[n]
    BY <1>2, <1>6, <1>7, <2>1
  <2>3. IsFiniteSet(solos)
    <3>1. solos \subseteq D
      BY <2>1
    <3> QED
      BY <1>1, <3>1, FS_Subset
  <2> HIDE DEF solos
  <2> QED
    BY <2>2, <2>3, SumsSame
<1>11. ASSUME NEW d \in days
       PROVE  ByDay(bills, S)[d] = sum(Got, Group(DayOf(bills), shared, d))
  <2>1. PICK m \in D : UnderCap(line(m)) /\ d = DayOf(bills)[m]
    BY <1>1 DEF MealDays, Shared, line
  <2>2. MealCap # NoLimit /\ d \in Days /\ d # NoDay
    <3>1. d \in Days /\ MealCap # NoLimit
      BY <1>2, <1>4, <2>1 DEF UnderCap
    <3> QED
      BY <3>1, SettlementAssumption DEF NoDay
  <2>3. /\ claimed[d] = sum(Got, Meals(d))
        /\ claimed[d] = IF Cost(d) < MealCap THEN Cost(d) ELSE MealCap
    BY <2>2 DEF DaysAddUp
  <2>4. \A n \in shared : n \in D
    BY <1>3, <1>5
  <2>5. Meals(d) = Group(DayOf(bills), shared, d)
    <3>1. \A n \in D : n \in shared <=> /\ lines[n].preset = "none"
                                        /\ lines[n].head = "meals" /\ lines[n].day # NoDay
      <4> TAKE n \in D
      <4>1. n \in shared <=> n \in S /\ UnderCap(line(n))
        BY DEF Shared, line
      <4>2. UnderCap(line(n)) <=> UnderCap(lines[n])
        BY <1>2
      <4> QED
        BY <1>3, <2>2, <4>1, <4>2 DEF UnderCap
    <3>2. \A n \in D : lines[n].day = DayOf(bills)[n]
      BY <1>2, <1>4
    <3> HIDE DEF shared
    <3>3. \A n : n \in Meals(d) <=> n \in Group(DayOf(bills), shared, d)
      BY <1>1, <2>2, <2>4, <3>1, <3>2 DEF Meals, Group
    <3> QED
      BY <3>3 DEF Meals, Group
  <2>6. Payable(d) = Eaten(bills, S, d)
    <3>1. \A n \in shared : lines[n].label = Charges(bills)[n].item.label
      BY <1>2, <1>4, <2>4
    <3>2. Eaten(bills, S, d) = {n \in Meals(d) : Charges(bills)[n].item.label \notin NeverPaid}
      BY <2>5 DEF Eaten, Group
    <3>3. \A n \in Meals(d) : n \in shared
      BY <2>5 DEF Group
    <3> HIDE DEF shared
    <3> QED
      BY <3>1, <3>2, <3>3 DEF Payable
  <2>7. Cost(d) = sum(Worths(bills), Eaten(bills, S, d))
    <3>1. Eaten(bills, S, d) \subseteq D /\ IsFiniteSet(Eaten(bills, S, d))
      <4>1. Eaten(bills, S, d) \subseteq D
        BY <2>4 DEF Eaten
      <4> QED
        BY <1>1, <4>1, FS_Subset
    <3>2. \A n \in Eaten(bills, S, d) : Worths(bills)[n] \in Int /\ Worth[n] = Worths(bills)[n]
                                         /\ Worth[n] \in Int
      BY <1>7, <3>1
    <3> HIDE DEF D
    <3> QED
      BY <2>6, <3>1, <3>2, SumsSame DEF Cost
  <2> QED
    BY <2>3, <2>5, <2>7 DEF ByDay, Capped
<1>12. sum(Got, shared) = sum(ByDay(bills, S), days)
  <2>1. IsFiniteSet(shared) /\ IsFiniteSet(days) /\ shared \subseteq D
    <3>1. shared \subseteq D
      BY <1>3, <1>5
    <3> QED
      BY <1>1, <3>1, FS_Subset, ClosedFormIs
  <2>2. \A n \in shared : Got[n] \in Int /\ DayOf(bills)[n] \in days
    <3> TAKE n \in shared
    <3>1. n \in Shared(bills, DOMAIN Charges(bills))
      BY <1>1, <2>1 DEF Shared
    <3> QED
      BY <1>6, <2>1, <3>1 DEF MealDays
  <2> HIDE DEF shared, days, D
  <2> QED
    BY <1>11, <2>1, <2>2, SumsGrouped
<1> QED
  BY <1>8, <1>9, <1>10, <1>12 DEF NetIf, S

\* What a change of the evidence may be.
ChangeNames == {"withdrawn", "forwarded", "renamed"}

\* The receipt that a forward adds, and what that is called.
Copy(b, file, kind, sender) == [b EXCEPT !.file = file, !.kind = kind, !.sender = sender]

CalledAs(b, copy) == IF MerchantOf(copy) = MerchantOf(b) THEN "forwarded" ELSE "renamed"

LEMMA ForwardAdds ==
    ASSUME Evaluated, NEW b \in bills, NEW file \in Files, NEW kind \in Kinds,
           NEW sender \in Senders \cup {b.sender}, Forward(b, file, kind, sender)
    PROVE  /\ b \in BillType /\ bills' = bills \cup {Copy(b, file, kind, sender)}
           /\ kind = b.kind \/ (kind = "forward" /\ b.kind = "cab")
           /\ Changing(CalledAs(b, Copy(b, file, kind, sender)))
           /\ CalledAs(b, Copy(b, file, kind, sender)) \in ChangeNames
           /\ withdrawn' = withdrawn
<1>1. b \in BillType
  BY DEF Evaluated, SoundBills
<1>2. /\ Changing(CalledAs(b, Copy(b, file, kind, sender)))
      /\ bills' = bills \cup {Copy(b, file, kind, sender)}
      /\ kind = b.kind \/ (kind = "forward" /\ b.kind = "cab")
      /\ withdrawn' = withdrawn
  BY Zenon DEF Forward, Copy, CalledAs
<1>3. CalledAs(b, Copy(b, file, kind, sender)) \in ChangeNames
  BY DEF CalledAs, ChangeNames
<1> QED
  BY <1>1, <1>2, <1>3

\* The claim before the last withdrawal was that of the same bills with fewer lines withdrawn.
Remembered ==
    /\ change \in Seq(ChangeNames)
    /\ LastChange = "withdrawn" => \E W \in SUBSET withdrawn : before.net = NetIf(bills, W)

LEMMA RememberedIsInvariant == Spec => []Remembered
<1>1. Init => Remembered
  BY EmptySeq DEF Init, Remembered, LastChange
<1>2. ASSUME Evaluated, Settled, Drafted, DaysAddUp, AloneJudged, Remembered, [Next]_vars
      PROVE  Remembered'
  <2>1. ASSUME UNCHANGED <<bills, withdrawn, before, change>>
        PROVE  Remembered'
    BY <1>2, <2>1 DEF Remembered, LastChange
  <2>2. ASSUME NEW what \in ChangeNames, Changing(what)
        PROVE  /\ change' \in Seq(ChangeNames)
               /\ LastChange' = what
               /\ before'.net = NetIf(bills, withdrawn)
    <3>1. change \in Seq(ChangeNames) /\ change' = Append(change, what)
      BY <1>2, <2>2 DEF Remembered, Changing
    <3>2. /\ change' \in Seq(ChangeNames) /\ Len(change') = Len(change) + 1
          /\ Len(change) \in Nat /\ change'[Len(change')] = what
      BY <3>1, AppendProperties, LenProperties
    <3>3. change' # <<>>
      BY <3>2, EmptySeq
    <3>4. before' = summary /\ summary.net = NetIf(bills, withdrawn)
      BY <1>2, <2>2, NetIs DEF Changing
    <3> QED
      BY <3>2, <3>3, <3>4 DEF LastChange
  <2>3. ASSUME NEW i \in DOMAIN lines, Withdraw(lines[i].label)
        PROVE  Remembered'
    <3>1. /\ change' \in Seq(ChangeNames)
          /\ before'.net = NetIf(bills, withdrawn)
      BY <2>2, <2>3 DEF Withdraw, ChangeNames
    <3>2. bills' = bills /\ withdrawn \in SUBSET withdrawn'
      BY <2>3 DEF Withdraw
    <3> QED
      BY <3>1, <3>2 DEF Remembered
  <2>4. ASSUME NEW b \in bills, NEW file \in Files, NEW kind \in Kinds,
               NEW sender \in Senders \cup {b.sender}, Forward(b, file, kind, sender)
        PROVE  Remembered'
    <3> DEFINE what == CalledAs(b, Copy(b, file, kind, sender))
    <3>1. what \in ChangeNames /\ Changing(what) /\ what # "withdrawn"
      BY <1>2, <2>4, ForwardAdds DEF CalledAs
    <3> HIDE DEF what
    <3>2. change' \in Seq(ChangeNames) /\ LastChange' # "withdrawn"
      BY <2>2, <3>1
    <3> QED
      BY <3>2 DEF Remembered
  <2>5. Draft \/ Settle \/ UNCHANGED vars => Remembered'
    BY <2>1 DEF Draft, Settle, vars
  <2>6. \A i \in DOMAIN lines : Judge(i) => Remembered'
    BY <2>1 DEF Judge
  <2> QED
    BY <1>2, <2>3, <2>4, <2>5, <2>6 DEF Next
<1> QED
  BY <1>1, <1>2, EvaluatedIsInvariant, SettledIsInvariant, DraftedIsInvariant,
     DaysAddUpIsInvariant, AloneJudgedIsInvariant, PTL DEF Spec

\* For every policy and every evidence: a line that the claimant withdraws never leaves the claim
\* worth more, whatever room it makes under the cap of its day.
THEOREM WithdrawalsNeverPay == Spec => []WithdrawingNeverPaysMore
<1>1. Evaluated /\ Settled /\ Drafted /\ DaysAddUp /\ AloneJudged /\ Remembered =>
          WithdrawingNeverPaysMore
  <2> SUFFICES ASSUME Evaluated, Settled, Drafted, DaysAddUp, AloneJudged, Remembered,
                      phase = "settled", LastChange = "withdrawn"
               PROVE  summary.net <= before.net
    BY DEF WithdrawingNeverPaysMore
  <2>1. PICK W \in SUBSET withdrawn : before.net = NetIf(bills, W)
    BY DEF Remembered
  <2>2. summary.net = NetIf(bills, withdrawn)
    BY NetIs
  <2>3. SoundBills(bills)
    BY DEF Evaluated
  <2> QED
    BY <2>1, <2>2, <2>3, NetShrinks
<1> QED
  BY <1>1, EvaluatedIsInvariant, SettledIsInvariant, DraftedIsInvariant, DaysAddUpIsInvariant,
     AloneJudgedIsInvariant, RememberedIsInvariant, PTL

-----------------------------------------------------------------------------
(* A receipt that comes again *)

\* Every receipt among the bills is one of the others.
Covered(bs, cs) == \A b \in bs : \E c \in cs : PaperOf(c) = PaperOf(b)

\* Charges of which policy and settlement see the same.
Alike(x, y) == x.item = y.item /\ x.share = y.share /\ ClassifyHead(x) = ClassifyHead(y)

\* The charges of bs are among those of cs.
Among(bs, cs, h) ==
    /\ \A n \in DOMAIN Charges(bs) :
          h[n] \in DOMAIN Charges(cs) /\ Alike(Charges(bs)[n], Charges(cs)[h[n]])
    /\ \A n, m \in DOMAIN Charges(bs) : h[n] = h[m] => n = m

\* Bills of one receipt bring the same charges.
LEMMA SameCharges ==
    ASSUME NEW b \in BillType, TaxCanBeShared(b), NEW c \in BillType, TaxCanBeShared(c),
           PaperOf(b) = PaperOf(c), NEW k \in DOMAIN EntriesOf(b)
    PROVE  /\ k \in DOMAIN EntriesOf(c)
           /\ Alike(EntriesOf(b)[k], EntriesOf(c)[k])
           /\ EntriesOf(b)[k].kind = "hotel" <=> EntriesOf(c)[k].kind = "hotel"
<1> DEFINE p == PaperOf(b)
           OneOf(x) == IF x = "forward" THEN "cab" ELSE x
<1>1. \A d \in BillType : PaperOf(d).kind = OneOf(d.kind) /\ PaperOf(d).hosted = d.hosted
  <2> TAKE d \in BillType
  <2>1. PaperOf(d).kind = OneOf(d.kind)
    BY DEF PaperOf, BillType
  <2>2. PaperOf(d).hosted = d.hosted
    BY DEF PaperOf, BillType
  <2> QED
    BY <2>1, <2>2
<1>2. b.hosted = c.hosted /\ OneOf(b.kind) = OneOf(c.kind)
  BY <1>1
<1>3. b.kind \in Producing /\ c.kind \in Producing
  <2>1. b.kind \in Producing
    BY ChargesBrought
  <2>2. c.kind \in Kinds
    BY DEF BillType
  <2> QED
    BY <1>2, <2>1, <2>2 DEF Producing, Kinds
<1>4. k \in DOMAIN EntriesOf(p) /\ EntriesOf(p)[k].item = EntriesOf(b)[k].item
      /\ EntriesOf(p)[k].share = EntriesOf(b)[k].share
  BY <1>3, PaperBrings
<1>5. /\ p \in BillType /\ p.kind \in Producing /\ Read(p) = Read(b)
      /\ PaperOf(c) = p /\ Read(p) = Read(c)
  <2>1. p \in BillType /\ p.kind \in Producing /\ Read(p) = Read(b)
    BY <1>3, PaperReads
  <2>2. PaperOf(c) = p /\ Read(PaperOf(c)) = Read(c)
    BY <1>3, PaperReads
  <2> QED
    BY <2>1, <2>2
<1>6. k \in DOMAIN EntriesOf(c)
  <2> DEFINE paired == WithTaxShares(Read(b))
  <2>1. Read(b).status = "extracted" /\ DOMAIN EntriesOf(b) = DOMAIN paired
    BY <1>3 DEF EntriesOf
  <2>2. DOMAIN EntriesOf(c) = DOMAIN paired
    BY <1>3, <1>5, <2>1 DEF EntriesOf
  <2> QED
    BY <2>1, <2>2
<1>7. /\ EntriesOf(p)[k].item = EntriesOf(c)[k].item
      /\ EntriesOf(p)[k].share = EntriesOf(c)[k].share
  BY <1>3, <1>5, <1>6, PaperBrings
<1>8. \A d \in BillType : \A j \in DOMAIN EntriesOf(d) :
          EntriesOf(d)[j].kind = d.kind /\ EntriesOf(d)[j].hosted = d.hosted
  BY DEF EntriesOf
<1>9. EntriesOf(b)[k].kind = b.kind /\ EntriesOf(b)[k].hosted = b.hosted
      /\ EntriesOf(c)[k].kind = c.kind /\ EntriesOf(c)[k].hosted = c.hosted
  BY <1>6, <1>8
<1>10. EntriesOf(b)[k].item = EntriesOf(c)[k].item /\ EntriesOf(b)[k].share = EntriesOf(c)[k].share
  BY <1>4, <1>7
<1>11. b.kind = c.kind \/ (b.kind \in {"cab", "forward"} /\ c.kind \in {"cab", "forward"})
  BY <1>2
<1>12. ClassifyHead(EntriesOf(b)[k]) = ClassifyHead(EntriesOf(c)[k])
  BY <1>2, <1>9, <1>10, <1>11 DEF ClassifyHead
<1> QED
  BY <1>6, <1>9, <1>10, <1>11, <1>12 DEF Alike

\* Two charges of one receipt that are the first of their fingerprint, and have it in common, are
\* the same one.
LEMMA SameFirst ==
    ASSUME NEW b \in BillType, TaxCanBeShared(b), NEW d \in BillType, TaxCanBeShared(d),
           PaperOf(d) = PaperOf(b),
           NEW k \in DOMAIN EntriesOf(b), FirstOf(b, k),
           NEW l \in DOMAIN EntriesOf(d), FirstOf(d, l),
           Fingerprint(EntriesOf(d)[l]) = Fingerprint(EntriesOf(b)[k])
    PROVE  k = l
<1>1. /\ k \in DOMAIN EntriesOf(d) /\ Alike(EntriesOf(b)[k], EntriesOf(d)[k])
      /\ l \in DOMAIN EntriesOf(b) /\ Alike(EntriesOf(d)[l], EntriesOf(b)[l])
  BY SameCharges
<1>2. \A x, y : x.item = y.item => Fingerprint(x) = Fingerprint(y)
  BY DEF Fingerprint
<1>3. k \in Nat /\ l \in Nat /\ k >= 1 /\ l >= 1
  <2> DEFINE es == EntriesOf(b)
  <2>1. es \in Seq(EntryType)
    BY EntriesOfAre
  <2> HIDE DEF es
  <2>2. DOMAIN es = 1..Len(es) /\ Len(es) \in Nat
    BY <2>1, LenProperties
  <2>3. k \in 1..Len(es) /\ l \in 1..Len(es)
    BY <1>1, <2>2 DEF es
  <2> QED
    BY <2>2, <2>3
<1>4. /\ Fingerprint(EntriesOf(d)[k]) = Fingerprint(EntriesOf(b)[k])
      /\ Fingerprint(EntriesOf(b)[l]) = Fingerprint(EntriesOf(d)[l])
  BY <1>1, <1>2 DEF Alike
<1>5. ~ k < l
  <2>1. k < l => k \in 1..l - 1
    BY <1>3
  <2> QED
    BY <1>4, <2>1 DEF FirstOf
<1>6. ~ l < k
  <2>1. l < k => l \in 1..k - 1
    BY <1>3
  <2> QED
    BY <1>4, <2>1 DEF FirstOf
<1> QED
  BY <1>3, <1>5, <1>6

\* Where no receipt passes for another, the charge kept of a receipt says the same, whichever of
\* its files came first.
LEMMA ChargesAreAmong ==
    ASSUME NEW bs, SoundBills(bs), NEW cs, SoundBills(cs), Apart(cs), Covered(bs, cs)
    PROVE  \E h : Among(bs, cs, h)
<1> DEFINE D == DOMAIN Charges(bs)
           E == DOMAIN Charges(cs)
           h == [n \in D |-> CHOOSE m \in E : Alike(Charges(bs)[n], Charges(cs)[m])]
<1>1. \A b \in bs \cup cs : b \in BillType /\ TaxCanBeShared(b)
  BY DEF SoundBills
<1>2. ASSUME NEW n \in D
      PROVE  \E m \in E : Alike(Charges(bs)[n], Charges(cs)[m])
  <2>1. PICK b \in bs : \E k \in DOMAIN EntriesOf(b) :
            Charges(bs)[n] = EntriesOf(b)[k] /\ FirstOf(b, k)
    BY ChargesKept
  <2>2. PICK k \in DOMAIN EntriesOf(b) : Charges(bs)[n] = EntriesOf(b)[k] /\ FirstOf(b, k)
    BY <2>1
  <2>3. PICK c \in cs : PaperOf(c) = PaperOf(b)
    BY DEF Covered
  <2>4. k \in DOMAIN EntriesOf(c) /\ Alike(EntriesOf(b)[k], EntriesOf(c)[k])
    BY <1>1, <2>3, SameCharges
  <2>5. PICK m \in E : Fingerprint(Charges(cs)[m]) = Fingerprint(EntriesOf(c)[k])
    BY <2>4, ChargesKept
  <2>6. PICK d \in cs : \E l \in DOMAIN EntriesOf(d) :
            Charges(cs)[m] = EntriesOf(d)[l] /\ FirstOf(d, l)
    BY ChargesKept
  <2>7. PICK l \in DOMAIN EntriesOf(d) : Charges(cs)[m] = EntriesOf(d)[l] /\ FirstOf(d, l)
    BY <2>6
  <2>8. PaperOf(d) = PaperOf(b)
    BY <2>3, <2>4, <2>5, <2>7 DEF Apart
  <2>9. \A x, y : x.item = y.item => Fingerprint(x) = Fingerprint(y)
    BY DEF Fingerprint
  <2>10. Fingerprint(EntriesOf(d)[l]) = Fingerprint(EntriesOf(b)[k])
    BY <2>4, <2>5, <2>7, <2>9 DEF Alike
  <2>11. /\ k \in DOMAIN EntriesOf(d) /\ Alike(EntriesOf(b)[k], EntriesOf(d)[k])
         /\ l \in DOMAIN EntriesOf(b) /\ Alike(EntriesOf(d)[l], EntriesOf(b)[l])
    BY <1>1, <2>8, SameCharges
  <2>12. k = l
    BY <1>1, <2>2, <2>7, <2>8, <2>10, SameFirst
  <2> QED
    BY <2>2, <2>7, <2>11, <2>12
<1>3. \A n \in D : h[n] \in E /\ Alike(Charges(bs)[n], Charges(cs)[h[n]])
  <2> TAKE n \in D
  <2>1. h[n] = CHOOSE m \in E : Alike(Charges(bs)[n], Charges(cs)[m])
    OBVIOUS
  <2> HIDE DEF h, D, E
  <2> QED
    BY <1>2, <2>1
<1> HIDE DEF h
<1>4. ASSUME NEW n \in D, NEW m \in D, h[n] = h[m]
      PROVE  n = m
  <2>1. Charges(bs)[n].item = Charges(bs)[m].item
    BY <1>3, <1>4 DEF Alike
  <2>2. Fingerprint(Charges(bs)[n]) = Fingerprint(Charges(bs)[m])
    BY <2>1 DEF Fingerprint
  <2> QED
    BY <2>2, ChargesKept
<1> QED
  BY <1>3, <1>4 DEF Among

-----------------------------------------------------------------------------
(* The whole bill *)

\* Where one charge of a bill is kept, so is every other that is the first of its fingerprint on
\* it: an earlier bill that had the one would be the same receipt and have had the other.
LEMMA KeptTogether ==
    ASSUME NEW bs, SoundBills(bs), Apart(bs), NEW b \in bs,
           NEW m \in DOMAIN Charges(bs), Charges(bs)[m].proof = b.file,
           NEW k \in DOMAIN EntriesOf(b), FirstOf(b, k)
    PROVE  \E n \in DOMAIN Charges(bs) : Charges(bs)[n] = EntriesOf(b)[k]
<1>1. /\ \A c \in bs : c \in BillType /\ TaxCanBeShared(c) /\ c.file \in Nat
      /\ \A a, c \in bs : a.file = c.file => a = c
  BY DEF SoundBills, BillType
<1>0. \A c \in BillType : \A j \in DOMAIN EntriesOf(c) : EntriesOf(c)[j].proof = c.file
  BY DEF EntriesOf
<1>2. PICK j \in DOMAIN EntriesOf(b) : Charges(bs)[m] = EntriesOf(b)[j]
  <2>1. PICK c \in bs : \E j \in DOMAIN EntriesOf(c) : Charges(bs)[m] = EntriesOf(c)[j]
    BY ChargesKept
  <2>2. c = b
    BY <1>0, <1>1, <2>1
  <2> QED
    BY <2>1, <2>2
<1>3. PICK n \in DOMAIN Charges(bs) : Fingerprint(Charges(bs)[n]) = Fingerprint(EntriesOf(b)[k])
  BY ChargesKept
<1>4. PICK d \in bs : \E l \in DOMAIN EntriesOf(d) :
          Charges(bs)[n] = EntriesOf(d)[l] /\ FirstOf(d, l)
  BY ChargesKept
<1>5. PICK l \in DOMAIN EntriesOf(d) : Charges(bs)[n] = EntriesOf(d)[l] /\ FirstOf(d, l)
  BY <1>4
<1>6. PaperOf(d) = PaperOf(b)
  BY <1>3, <1>5 DEF Apart
<1>7. l = k
  BY <1>1, <1>3, <1>5, <1>6, SameFirst
<1>8. j \in DOMAIN EntriesOf(d) /\ Alike(EntriesOf(b)[j], EntriesOf(d)[j])
  BY <1>1, <1>6, SameCharges
<1>9. d.file <= b.file
  <2>1. Charges(bs)[n].proof = d.file
    BY <1>0, <1>1, <1>5
  <2>2. Charges(bs)[n].proof <= b.file
    BY <1>3, ChargesKept
  <2> QED
    BY <2>1, <2>2
<1>10. b.file <= d.file
  <2>1. Fingerprint(Charges(bs)[m]) = Fingerprint(EntriesOf(d)[j])
    BY <1>2, <1>8 DEF Alike, Fingerprint
  <2> QED
    BY <1>8, <2>1, ChargesKept
<1>11. d = b
  BY <1>1, <1>9, <1>10
<1> QED
  BY <1>5, <1>7, <1>11

\* The lines of a bill are those of its charges that were kept.
LEMMA LinesOfAre ==
    ASSUME Evaluated, Drafted, phase # "reading", NEW b \in bills
    PROVE  /\ DOMAIN lines = DOMAIN Charges(bills) /\ IsFiniteSet(LinesOf(b))
           /\ LinesOf(b) = {n \in DOMAIN Charges(bills) : Charges(bills)[n].proof = b.file}
           /\ \A n \in LinesOf(b) :
                 /\ Claimable(lines[n]) = ClaimOf(Charges(bills)[n])
                 /\ \E k \in DOMAIN EntriesOf(b) :
                       Charges(bills)[n] = EntriesOf(b)[k] /\ FirstOf(b, k)
<1>1. SoundBills(bills) /\ lines = DraftLines(bills)
  BY DEF Evaluated, Drafted
<1>2. /\ DOMAIN lines = DOMAIN Charges(bills) /\ IsFiniteSet(DOMAIN Charges(bills))
      /\ \A n \in DOMAIN lines : lines[n] = DraftLine(Charges(bills)[n])
  BY <1>1, ChargesKept
<1>3. \A n \in DOMAIN lines : /\ lines[n].proof = Charges(bills)[n].proof
                              /\ Claimable(lines[n]) = ClaimOf(Charges(bills)[n])
  BY <1>2 DEF DraftLine, Claimable, ClaimOf
<1>4. LinesOf(b) = {n \in DOMAIN Charges(bills) : Charges(bills)[n].proof = b.file}
  BY <1>2, <1>3 DEF LinesOf
<1>5. IsFiniteSet(LinesOf(b))
  BY <1>2, <1>4, FS_Subset
<1>6. ASSUME NEW n \in LinesOf(b)
      PROVE  \E k \in DOMAIN EntriesOf(b) :
                 Charges(bills)[n] = EntriesOf(b)[k] /\ FirstOf(b, k)
  <2>1. PICK c \in bills : \E k \in DOMAIN EntriesOf(c) :
            Charges(bills)[n] = EntriesOf(c)[k] /\ FirstOf(c, k)
    BY <1>1, <1>4, ChargesKept
  <2>2. c.file = b.file
    BY <1>4, <2>1 DEF EntriesOf
  <2>3. c = b
    BY <1>1, <2>2 DEF SoundBills
  <2> QED
    BY <2>1, <2>3
<1> QED
  BY <1>2, <1>3, <1>4, <1>5, <1>6

\* They come to the charges of the bill that are the first of their fingerprint on it.
LEMMA LinesComeTo ==
    ASSUME Evaluated, Drafted, phase # "reading", Apart(bills), NEW b \in bills,
           LinesOf(b) # {}
    PROVE  SumFunctionOnSet([n \in DOMAIN lines |-> Claimable(lines[n])], LinesOf(b))
               = SumFunctionOnSet(Brought(b), DOMAIN EntriesOf(b) \ Collapsed(EntriesOf(b)))
<1> DEFINE S == LinesOf(b)
           D == DOMAIN EntriesOf(b)
           T == D \ Collapsed(EntriesOf(b))
           worth == [n \in DOMAIN lines |-> Claimable(lines[n])]
           brought == Brought(b)
           Is(n, k) == Charges(bills)[n] = EntriesOf(b)[k]
           h == [n \in S |-> CHOOSE k \in T : Is(n, k)]
           g == [k \in T |-> CHOOSE n \in S : Is(n, k)]
<1>1. /\ SoundBills(bills) /\ b \in BillType /\ TaxCanBeShared(b)
      /\ DOMAIN lines = DOMAIN Charges(bills) /\ IsFiniteSet(S) /\ S \subseteq DOMAIN lines
      /\ \A n \in S : Charges(bills)[n].proof = b.file
      /\ \A n \in DOMAIN Charges(bills) : Charges(bills)[n].proof = b.file => n \in S
  BY LinesOfAre DEF Evaluated, SoundBills
<1>2. /\ IsFiniteSet(D)
      /\ \A k \in D : k \in Nat /\ k >= 1 /\ EntriesOf(b)[k] \in EntryType
  <2> DEFINE es == EntriesOf(b)
  <2>1. es \in Seq(EntryType)
    BY <1>1, EntriesOfAre
  <2> HIDE DEF es
  <2>2. DOMAIN es = 1..Len(es) /\ Len(es) \in Nat /\ \A k \in 1..Len(es) : es[k] \in EntryType
    BY <2>1, LenProperties, ElementOfSeq
  <2>3. IsFiniteSet(1..Len(es)) /\ \A k \in 1..Len(es) : k \in Nat /\ k >= 1
    BY <2>2, FS_Interval
  <2> QED
    BY <2>2, <2>3 DEF es
<1>3. \A k \in D : /\ k \in T <=> FirstOf(b, k)
                   /\ brought[k] = ClaimOf(EntriesOf(b)[k]) /\ brought[k] \in Nat
                   /\ EntriesOf(b)[k].proof = b.file
  <2> TAKE k \in D
  <2>1. k \in T <=> FirstOf(b, k)
    BY DEF Collapsed, FirstOf
  <2>2. brought[k] = ClaimOf(EntriesOf(b)[k]) /\ brought[k] \in Nat
    BY <1>2 DEF Brought, ClaimOf, EntryType
  <2>3. EntriesOf(b)[k].proof = b.file
    BY DEF EntriesOf
  <2> QED
    BY <2>1, <2>2, <2>3
<1>4. ASSUME NEW n \in S
      PROVE  /\ h[n] \in T /\ Is(n, h[n]) /\ worth[n] = ClaimOf(Charges(bills)[n])
  <2>1. \E k \in T : Is(n, k)
    BY <1>3, LinesOfAre
  <2>2. worth[n] = ClaimOf(Charges(bills)[n])
    BY <1>1, LinesOfAre
  <2>3. h[n] = CHOOSE k \in T : Is(n, k)
    OBVIOUS
  <2> HIDE DEF h, T, Is, worth
  <2> QED
    BY <2>1, <2>2, <2>3
<1>5. ASSUME NEW k \in T
      PROVE  g[k] \in S /\ Is(g[k], k)
  <2>1. PICK m \in S : TRUE
    OBVIOUS
  <2>2. PICK n \in DOMAIN Charges(bills) : Is(n, k)
    BY <1>1, <1>3, <2>1, KeptTogether
  <2>3. \E x \in S : Is(x, k)
    BY <1>1, <1>3, <2>2
  <2>4. g[k] = CHOOSE x \in S : Is(x, k)
    OBVIOUS
  <2> HIDE DEF g, S, Is
  <2> QED
    BY <2>3, <2>4
<1>6. T \subseteq D /\ IsFiniteSet(T)
  BY <1>2, FS_Subset
<1> HIDE DEF h, g, T
<1>7. \A n, m \in S : h[n] = h[m] => n = m
  <2> TAKE n, m \in S
  <2>1. h[n] = h[m] => Fingerprint(Charges(bills)[n]) = Fingerprint(Charges(bills)[m])
    BY <1>4
  <2>2. n \in DOMAIN Charges(bills) /\ m \in DOMAIN Charges(bills)
    BY <1>1
  <2> QED
    BY <1>1, <2>1, <2>2, ChargesKept
<1>8. \A k, l \in T : g[k] = g[l] => k = l
  <2> TAKE k, l \in T
  <2>1. g[k] = g[l] => EntriesOf(b)[k] = EntriesOf(b)[l]
    BY <1>5
  <2>2. k \in D /\ l \in D /\ FirstOf(b, k) /\ FirstOf(b, l)
    BY <1>3, <1>6
  <2> QED
    BY <1>1, <2>1, <2>2, SameFirst
<1>9. /\ \A n \in S : worth[n] \in Nat /\ worth[n] = brought[h[n]]
      /\ \A k \in T : brought[k] \in Nat /\ brought[k] = worth[g[k]]
  <2>1. \A n \in S : worth[n] \in Nat /\ worth[n] = brought[h[n]]
    BY <1>3, <1>4, <1>6
  <2>2. \A k \in T : brought[k] \in Nat /\ brought[k] = worth[g[k]]
    BY <1>3, <1>4, <1>5, <1>6
  <2> QED
    BY <2>1, <2>2
<1> HIDE DEF S, Is, worth, brought, D
<1>10. SumFunctionOnSet(worth, S) <= SumFunctionOnSet(brought, T)
  <2>1. \A n \in S : worth[n] \in Int /\ h[n] \in T /\ worth[n] <= brought[h[n]]
    BY <1>4, <1>9
  <2>2. \A k \in T : brought[k] \in Nat
    BY <1>9
  <2> QED
    BY <1>1, <1>6, <1>7, <2>1, <2>2, SumsInto
<1>11. SumFunctionOnSet(brought, T) <= SumFunctionOnSet(worth, S)
  <2>1. \A k \in T : brought[k] \in Int /\ g[k] \in S /\ brought[k] <= worth[g[k]]
    BY <1>5, <1>9
  <2>2. \A n \in S : worth[n] \in Nat
    BY <1>9
  <2> QED
    BY <1>1, <1>6, <1>8, <2>1, <2>2, SumsInto
<1>12. SumFunctionOnSet(worth, S) \in Int /\ SumFunctionOnSet(brought, T) \in Int
  BY <1>1, <1>6, <1>9, SumType
<1>13. SumFunctionOnSet(worth, S) = SumFunctionOnSet(brought, T)
  BY <1>10, <1>11, <1>12
<1> QED
  BY <1>13 DEF S, T, worth, brought, D

\* For every evidence whose bills do not pass for one another: what is drafted of a bill comes to
\* its printed total, to the last unit of its tax, short of exactly those charges that an equal
\* one on the same bill stands for, or nothing of it is drafted; and a folio that was found not
\* to add up is not drafted by any reader.
THEOREM BillsAreClaimedWhole == Spec => []WholeBillIsClaimed
<1>1. Evaluated /\ Drafted => WholeBillIsClaimed
  <2> SUFFICES ASSUME Evaluated, Drafted, phase = "settled", Apart(bills),
                      NEW b \in bills, b.kind # "flight", b.typed = <<>>
               PROVE  LET charges == Readable(b.rows) IN
                      /\ LinesOf(b) # {} /\ b.total # Unread /\ b.subtotal <= b.total =>
                           SumFunctionOnSet([n \in DOMAIN lines |-> Claimable(lines[n])],
                                            LinesOf(b))
                              = b.total - ShortBy(EntriesOf(b))
                      /\ /\ b.kind = "hotel" /\ b.known
                         /\ charges # <<>>
                         /\ b.subtotal # Unread /\ SumFunction(Amounts(charges)) # b.subtotal
                         => LinesOf(b) = {}
    BY DEF WholeBillIsClaimed
  <2> DEFINE D == DOMAIN EntriesOf(b)
             C == Collapsed(EntriesOf(b))
             brought == Brought(b)
  <2>1. b \in BillType /\ TaxCanBeShared(b)
    BY DEF Evaluated, SoundBills
  <2>2. ASSUME b.kind = "hotel", b.known, Readable(b.rows) # <<>>, b.subtotal # Unread,
               SumFunction(Amounts(Readable(b.rows))) # b.subtotal
        PROVE  LinesOf(b) = {}
    <3>1. Read(b).status # "extracted"
      BY <2>1, <2>2, ReadIs DEF Producing
    <3>2. EntriesOf(b) = <<>>
      BY <3>1 DEF EntriesOf
    <3>3. D = {}
      BY <3>2
    <3> QED
      BY <3>3, LinesOfAre
  <2>3. ASSUME LinesOf(b) # {}, b.total # Unread, b.subtotal <= b.total
        PROVE  SumFunctionOnSet([n \in DOMAIN lines |-> Claimable(lines[n])], LinesOf(b))
                   = b.total - SumFunctionOnSet(brought, C)
    <3>1. D # {}
      BY <2>3, LinesOfAre
    <3>2. /\ SumFunction(brought) = b.total /\ SumFunction(brought) = SumFunctionOnSet(brought, D)
          /\ b.total \in Nat
      <4>1. EntriesOf(b) # <<>>
        BY <3>1
      <4>2. SumFunction(brought) = b.total
        BY <2>1, <2>3, <4>1, EntriesComeToTotal
      <4>3. DOMAIN brought = D
        BY DEF Brought
      <4>4. SumFunction(brought) = SumFunctionOnSet(brought, D)
        BY <4>3 DEF SumFunction
      <4> QED
        BY <2>1, <2>3, <4>2, <4>4, BillIs
    <3>3. IsFiniteSet(D) /\ \A k \in D : brought[k] \in Int
      <4> DEFINE es == EntriesOf(b)
      <4>1. es \in Seq(EntryType)
        BY <2>1, EntriesOfAre
      <4> HIDE DEF es
      <4>2. DOMAIN es = 1..Len(es) /\ Len(es) \in Nat
            /\ \A k \in 1..Len(es) : es[k] \in EntryType
        BY <4>1, LenProperties, ElementOfSeq
      <4>3. IsFiniteSet(1..Len(es))
        BY <4>2, FS_Interval
      <4>4. \A k \in DOMAIN es : es[k].item.amount + es[k].share \in Int
        BY <4>2 DEF EntryType
      <4>5. brought = [k \in DOMAIN es |-> es[k].item.amount + es[k].share]
        BY DEF Brought, es
      <4> QED
        BY <4>2, <4>3, <4>4, <4>5 DEF es
    <3>4. C \subseteq D
      BY DEF Collapsed
    <3> HIDE DEF D, C, brought
    <3>5. IsFiniteSet(D \ C) /\ IsFiniteSet(C)
      BY <3>3, <3>4, FS_Subset
    <3>6. SumFunctionOnSet(brought, D)
              = SumFunctionOnSet(brought, D \ C) + SumFunctionOnSet(brought, C)
      <4>1. (D \ C) \cup C = D /\ (D \ C) \cap C = {}
        BY <3>4
      <4> QED
        BY <3>3, <3>5, <4>1, SumUnion
    <3>7. SumFunctionOnSet(brought, D \ C) \in Int /\ SumFunctionOnSet(brought, C) \in Int
      BY <3>3, <3>4, <3>5, SumType
    <3>8. SumFunctionOnSet([n \in DOMAIN lines |-> Claimable(lines[n])], LinesOf(b))
              = SumFunctionOnSet(brought, D \ C)
      BY <2>3, LinesComeTo DEF brought, D, C
    <3> QED
      BY <3>2, <3>6, <3>7, <3>8
  <2>4. ShortBy(EntriesOf(b)) = SumFunctionOnSet(brought, C)
    <3>1. [k \in DOMAIN EntriesOf(b) |-> ClaimOf(EntriesOf(b)[k])] = brought
      BY DEF Brought, ClaimOf
    <3> QED
      BY <3>1 DEF ShortBy
  <2> QED
    BY <2>2, <2>3, <2>4
<1> QED
  BY <1>1, EvaluatedIsInvariant, DraftedIsInvariant, PTL

-----------------------------------------------------------------------------
(* The settlement of bills that bring the same *)

\* No night is covered by the one and not by the other.
LEMMA GapsStay ==
    ASSUME NEW bs, SoundBills(bs), NEW cs, SoundBills(cs), Covered(bs, cs)
    PROVE  CoverageGaps(cs) \subseteq CoverageGaps(bs)
<1> DEFINE IsStay(x) == x.kind = "hotel" /\ x.item.nights > 0 /\ x.item.day # NoDay
           Slept(x) == x.item.day .. x.item.day + x.item.nights - 1
           Stays(as) == {i \in DOMAIN Entries(as) : IsStay(Entries(as)[i])}
<1>1. \A as : CoverageGaps(as) = Nights \ UNION {Slept(Entries(as)[i]) : i \in Stays(as)}
  BY DEF CoverageGaps
<1>2. ASSUME NEW i \in Stays(bs)
      PROVE  \E j \in Stays(cs) : Slept(Entries(cs)[j]) = Slept(Entries(bs)[i])
  <2>1. PICK b \in bs : \E k \in DOMAIN EntriesOf(b) : Entries(bs)[i] = EntriesOf(b)[k]
    BY EntriesPlaced
  <2>2. PICK k \in DOMAIN EntriesOf(b) : Entries(bs)[i] = EntriesOf(b)[k]
    BY <2>1
  <2>3. PICK c \in cs : PaperOf(c) = PaperOf(b)
    BY DEF Covered
  <2>4. /\ k \in DOMAIN EntriesOf(c) /\ Alike(EntriesOf(b)[k], EntriesOf(c)[k])
        /\ EntriesOf(b)[k].kind = "hotel" <=> EntriesOf(c)[k].kind = "hotel"
    BY <2>3, SameCharges DEF SoundBills
  <2>5. PICK j \in DOMAIN Entries(cs) : Entries(cs)[j] = EntriesOf(c)[k]
    BY <2>4, EntriesPlaced
  <2>6. /\ Entries(cs)[j].item = Entries(bs)[i].item
        /\ Entries(cs)[j].kind = "hotel" <=> Entries(bs)[i].kind = "hotel"
    BY <2>2, <2>4, <2>5 DEF Alike
  <2> QED
    BY <2>6
<1> HIDE DEF Stays, Slept
<1> QED
  BY <1>1, <1>2

\* Policy judges lines of charges that are alike in the same way.
LEMMA AlikeLines ==
    ASSUME NEW x, NEW y, Alike(x, y)
    PROVE  /\ Claimable(AsLine(x)) = Claimable(AsLine(y))
           /\ UnderCap(AsLine(x)) = UnderCap(AsLine(y))
           /\ Alone(AsLine(x)) = Alone(AsLine(y))
<1> DEFINE a == AsLine(x)
           b == AsLine(y)
<1>1. /\ a.head = b.head /\ a.label = b.label /\ a.gross = b.gross /\ a.share = b.share
      /\ a.day = b.day /\ a.nights = b.nights
  BY DEF AsLine, Alike
<1> HIDE DEF a, b
<1>2. Claimable(a) = Claimable(b) /\ UnderCap(a) = UnderCap(b)
  BY <1>1 DEF Claimable, UnderCap
<1>3. OverTariff(a) = OverTariff(b) /\ NonReimbursable(a) = NonReimbursable(b)
      /\ OverDailyCap(a, NothingClaimed) = OverDailyCap(b, NothingClaimed)
  BY <1>1, <1>2 DEF OverTariff, NonReimbursable, OverDailyCap
<1>4. Disallowed(a, NothingClaimed) = Disallowed(b, NothingClaimed)
  BY <1>2, <1>3 DEF Disallowed, Removed
<1>5. Alone(a) = Alone(b)
  BY <1>2, <1>4 DEF Alone, EvaluateOne
<1> QED
  BY <1>2, <1>5 DEF a, b

\* What the company paid.
ByCompany(bs) == {n \in DOMAIN Charges(bs) : DerivePaidBy(Charges(bs)[n].item) = "Company"}

\* The summary in closed form.
GrossIf(bs, W) == SumFunctionOnSet(Worths(bs), Open(bs, W))
MemoIf(bs) == SumFunctionOnSet(Worths(bs), ByCompany(bs))
SummaryIf(bs, W) ==
    [gross |-> GrossIf(bs, W), memo |-> MemoIf(bs),
     disallowed |-> GrossIf(bs, W) - NetIf(bs, W), net |-> NetIf(bs, W),
     payable |-> Positive(NetIf(bs, W) - Advance),
     recoverable |-> Positive(Advance - NetIf(bs, W)),
     gaps |-> CoverageGaps(bs)]

\* More charges come to no less.
LEMMA MoreIsNoLess ==
    ASSUME NEW bs, SoundBills(bs), NEW cs, SoundBills(cs), NEW h, Among(bs, cs, h), NEW W
    PROVE  /\ NetIf(bs, W) \in Int /\ GrossIf(bs, W) \in Int /\ MemoIf(bs) \in Int
           /\ NetIf(bs, W) <= NetIf(cs, W)
           /\ GrossIf(bs, W) <= GrossIf(cs, W)
           /\ MemoIf(bs) <= MemoIf(cs)
<1> DEFINE D == DOMAIN Charges(bs)
           E == DOMAIN Charges(cs)
           S == Open(bs, W)
           T == Open(cs, W)
<1>1. /\ IsFiniteSet(D) /\ IsFiniteSet(E) /\ IsFiniteSet(MealDays(bs)) /\ IsFiniteSet(MealDays(cs))
      /\ S \subseteq D /\ T \subseteq E
      /\ \A n \in D : Alones(bs)[n] \in Nat /\ Worths(bs)[n] \in Nat
      /\ \A n \in E : Alones(cs)[n] \in Nat /\ Worths(cs)[n] \in Nat
  BY ClosedFormIs
<1>2. \A n \in D : h[n] \in E /\ Alike(Charges(bs)[n], Charges(cs)[h[n]])
  BY DEF Among
<1>3. \A n, m \in D : h[n] = h[m] => n = m
  BY DEF Among
<1>4. \A n \in D : /\ Alones(bs)[n] = Alones(cs)[h[n]] /\ Worths(bs)[n] = Worths(cs)[h[n]]
                   /\ UnderCap(AsLine(Charges(bs)[n])) = UnderCap(AsLine(Charges(cs)[h[n]]))
                   /\ Charges(bs)[n].item = Charges(cs)[h[n]].item
                   /\ DayOf(bs)[n] = DayOf(cs)[h[n]]
  BY <1>2, AlikeLines DEF Alones, Worths, DayOf, Alike
<1>5. \A n \in S : h[n] \in T
  BY <1>1, <1>2, <1>4 DEF Open
<1> HIDE DEF D, E, S, T
<1>6. \A A \in SUBSET D : \A B \in SUBSET E : (\A n \in A : h[n] \in B) =>
          /\ SumFunctionOnSet(Worths(bs), A) \in Nat
          /\ SumFunctionOnSet(Alones(bs), A) \in Nat
          /\ SumFunctionOnSet(Worths(bs), A) <= SumFunctionOnSet(Worths(cs), B)
          /\ SumFunctionOnSet(Alones(bs), A) <= SumFunctionOnSet(Alones(cs), B)
  <2> SUFFICES ASSUME NEW A \in SUBSET D, NEW B \in SUBSET E, \A n \in A : h[n] \in B
               PROVE  /\ SumFunctionOnSet(Worths(bs), A) \in Nat
                      /\ SumFunctionOnSet(Alones(bs), A) \in Nat
                      /\ SumFunctionOnSet(Worths(bs), A) <= SumFunctionOnSet(Worths(cs), B)
                      /\ SumFunctionOnSet(Alones(bs), A) <= SumFunctionOnSet(Alones(cs), B)
    OBVIOUS
  <2>1. IsFiniteSet(A) /\ IsFiniteSet(B)
    BY <1>1, FS_Subset
  <2>2. /\ \A x, y \in A : h[x] = h[y] => x = y
        /\ \A x \in A : /\ Worths(bs)[x] \in Int /\ Worths(bs)[x] \in Nat
                        /\ Alones(bs)[x] \in Int /\ Alones(bs)[x] \in Nat
                        /\ h[x] \in B
                        /\ Worths(bs)[x] <= Worths(cs)[h[x]]
                        /\ Alones(bs)[x] <= Alones(cs)[h[x]]
    <3>1. \A x \in A : Worths(bs)[x] \in Nat /\ Alones(bs)[x] \in Nat
      BY <1>1
    <3>2. \A x \in A : Worths(bs)[x] = Worths(cs)[h[x]] /\ Alones(bs)[x] = Alones(cs)[h[x]]
      BY <1>4
    <3> QED
      BY <1>3, <3>1, <3>2
  <2>3. \A y \in B : Worths(cs)[y] \in Nat /\ Alones(cs)[y] \in Nat
    BY <1>1
  <2>4. SumFunctionOnSet(Worths(bs), A) \in Nat /\ SumFunctionOnSet(Alones(bs), A) \in Nat
    BY <2>1, <2>2, SumType
  <2>5. SumFunctionOnSet(Worths(bs), A) <= SumFunctionOnSet(Worths(cs), B)
    BY <2>1, <2>2, <2>3, SumsInto
  <2>6. SumFunctionOnSet(Alones(bs), A) <= SumFunctionOnSet(Alones(cs), B)
    BY <2>1, <2>2, <2>3, SumsInto
  <2> QED
    BY <2>4, <2>5, <2>6
<1>7. GrossIf(bs, W) \in Int /\ GrossIf(bs, W) <= GrossIf(cs, W)
  BY <1>1, <1>5, <1>6 DEF GrossIf, S, T
<1>8. MemoIf(bs) \in Int /\ MemoIf(bs) <= MemoIf(cs)
  <2>1. ByCompany(bs) \subseteq D /\ ByCompany(cs) \subseteq E
    BY DEF ByCompany, D, E
  <2>2. \A n \in ByCompany(bs) : h[n] \in ByCompany(cs)
    BY <1>2, <1>4, <2>1 DEF ByCompany, E
  <2> QED
    BY <1>6, <2>1, <2>2 DEF MemoIf
<1>9. /\ SumFunctionOnSet(Alones(bs), Solos(bs, S)) \in Nat
      /\ SumFunctionOnSet(Alones(bs), Solos(bs, S)) <= SumFunctionOnSet(Alones(cs), Solos(cs, T))
  <2>1. Solos(bs, S) \subseteq D /\ Solos(cs, T) \subseteq E
    BY <1>1 DEF Solos
  <2>2. \A n \in Solos(bs, S) : h[n] \in Solos(cs, T)
    BY <1>1, <1>4, <1>5 DEF Solos
  <2> QED
    BY <1>6, <2>1, <2>2
<1>10. ASSUME NEW d
       PROVE  /\ SumFunctionOnSet(Worths(bs), Eaten(bs, S, d)) \in Nat
              /\ SumFunctionOnSet(Worths(cs), Eaten(cs, T, d)) \in Nat
              /\ SumFunctionOnSet(Worths(bs), Eaten(bs, S, d))
                     <= SumFunctionOnSet(Worths(cs), Eaten(cs, T, d))
  <2>1. Eaten(bs, S, d) \subseteq D /\ Eaten(cs, T, d) \subseteq E
    BY <1>1 DEF Eaten, Shared
  <2>2. \A n \in Eaten(bs, S, d) : h[n] \in Eaten(cs, T, d)
    BY <1>1, <1>4, <1>5 DEF Eaten, Shared
  <2>3. SumFunctionOnSet(Worths(cs), Eaten(cs, T, d)) \in Nat
    <3>1. IsFiniteSet(Eaten(cs, T, d)) /\ \A n \in Eaten(cs, T, d) : Worths(cs)[n] \in Int
                                                                 /\ Worths(cs)[n] \in Nat
      BY <1>1, <2>1, FS_Subset
    <3> QED
      BY <3>1, SumType
  <2> QED
    BY <1>6, <2>1, <2>2, <2>3
<1>11. MealCap \in Int
  BY PolicyAssumption DEF NoLimit
<1>12. MealDays(bs) \subseteq MealDays(cs)
  <2> SUFFICES ASSUME NEW n \in Shared(bs, D)
               PROVE  DayOf(bs)[n] \in MealDays(cs)
    BY DEF MealDays, D
  <2>1. n \in D /\ UnderCap(AsLine(Charges(bs)[n]))
    BY DEF Shared
  <2>2. h[n] \in Shared(cs, E)
    BY <1>2, <1>4, <2>1 DEF Shared
  <2> QED
    BY <1>4, <2>1, <2>2 DEF MealDays, E
<1>13. \A d \in MealDays(bs) : /\ ByDay(bs, S)[d] \in Int
                               /\ ByDay(bs, S)[d] <= ByDay(cs, T)[d]
  <2> TAKE d \in MealDays(bs)
  <2> DEFINE less == SumFunctionOnSet(Worths(bs), Eaten(bs, S, d))
             full == SumFunctionOnSet(Worths(cs), Eaten(cs, T, d))
  <2>1. ByDay(bs, S)[d] = Capped(less) /\ ByDay(cs, T)[d] = Capped(full)
    BY <1>12 DEF ByDay
  <2>2. less \in Nat /\ full \in Nat /\ less <= full
    BY <1>10
  <2> HIDE DEF less, full
  <2> QED
    BY <1>11, <2>1, <2>2 DEF Capped
<1>14. MealCap # NoLimit => MealCap \in Nat
  BY PolicyAssumption
<1>15. \A d \in MealDays(cs) : ByDay(cs, T)[d] \in Nat
  <2> TAKE d \in MealDays(cs)
  <2> DEFINE full == SumFunctionOnSet(Worths(cs), Eaten(cs, T, d))
  <2>1. ByDay(cs, T)[d] = Capped(full)
    BY DEF ByDay
  <2>2. full \in Nat
    BY <1>10
  <2>3. MealCap # NoLimit
    BY DEF MealDays, Shared, UnderCap
  <2> HIDE DEF full
  <2> QED
    BY <1>14, <2>1, <2>2, <2>3 DEF Capped
<1>16. /\ SumFunctionOnSet(ByDay(bs, S), MealDays(bs)) \in Int
       /\ SumFunctionOnSet(ByDay(bs, S), MealDays(bs))
              <= SumFunctionOnSet(ByDay(cs, T), MealDays(cs))
  <2> DEFINE same == [d \in MealDays(bs) |-> d]
  <2>1. /\ \A d \in MealDays(bs) : /\ ByDay(bs, S)[d] \in Int /\ same[d] \in MealDays(cs)
                                   /\ ByDay(bs, S)[d] <= ByDay(cs, T)[same[d]]
        /\ \A d, e \in MealDays(bs) : same[d] = same[e] => d = e
    BY <1>12, <1>13
  <2> HIDE DEF same
  <2>2. SumFunctionOnSet(ByDay(bs, S), MealDays(bs))
            <= SumFunctionOnSet(ByDay(cs, T), MealDays(cs))
    BY <1>1, <1>15, <2>1, SumsInto
  <2> QED
    BY <1>1, <1>13, <2>2, SumType
<1>17. SumFunctionOnSet(Alones(cs), Solos(cs, T)) \in Int
       /\ SumFunctionOnSet(ByDay(cs, T), MealDays(cs)) \in Int
  <2>1. Solos(cs, T) \subseteq E
    BY <1>1 DEF Solos
  <2>2. IsFiniteSet(Solos(cs, T)) /\ \A n \in Solos(cs, T) : Alones(cs)[n] \in Int
    BY <1>1, <2>1, FS_Subset
  <2>3. \A d \in MealDays(cs) : ByDay(cs, T)[d] \in Int
    BY <1>15
  <2> QED
    BY <1>1, <2>2, <2>3, SumType
<1>18. NetIf(bs, W) \in Int /\ NetIf(bs, W) <= NetIf(cs, W)
  BY <1>9, <1>16, <1>17 DEF NetIf, S, T
<1> QED
  BY <1>7, <1>8, <1>18

\* The same receipts come to the same settlement.
LEMMA SameSummary ==
    ASSUME NEW bs, SoundBills(bs), Apart(bs), NEW cs, SoundBills(cs), Apart(cs),
           Covered(bs, cs), Covered(cs, bs), NEW W
    PROVE  SummaryIf(bs, W) = SummaryIf(cs, W)
<1>1. PICK h : Among(bs, cs, h)
  BY ChargesAreAmong
<1>2. PICK g : Among(cs, bs, g)
  BY ChargesAreAmong
<1>3. /\ NetIf(bs, W) \in Int /\ GrossIf(bs, W) \in Int /\ MemoIf(bs) \in Int
      /\ NetIf(bs, W) <= NetIf(cs, W) /\ GrossIf(bs, W) <= GrossIf(cs, W)
      /\ MemoIf(bs) <= MemoIf(cs)
  BY <1>1, MoreIsNoLess
<1>4. /\ NetIf(cs, W) \in Int /\ GrossIf(cs, W) \in Int /\ MemoIf(cs) \in Int
      /\ NetIf(cs, W) <= NetIf(bs, W) /\ GrossIf(cs, W) <= GrossIf(bs, W)
      /\ MemoIf(cs) <= MemoIf(bs)
  BY <1>2, MoreIsNoLess
<1>5. NetIf(bs, W) = NetIf(cs, W) /\ GrossIf(bs, W) = GrossIf(cs, W) /\ MemoIf(bs) = MemoIf(cs)
  BY <1>3, <1>4
<1>6. CoverageGaps(bs) = CoverageGaps(cs)
  BY GapsStay
<1> QED
  BY <1>5, <1>6 DEF SummaryIf

\* A settlement is the closed form.
LEMMA SettlementIs ==
    ASSUME Evaluated, Settled, Drafted, DaysAddUp, AloneJudged, phase = "settled"
    PROVE  summary = SummaryIf(bills, withdrawn)
<1> DEFINE D == DOMAIN lines
           claimable == [i \in DOMAIN lines |-> Claimable(lines[i])]
           paid == {i \in DOMAIN lines : lines[i].paidBy = "Company"}
           lost == [i \in DOMAIN outcomes |-> outcomes[i].disallowed]
           gross == SumFunctionOnSet(claimable, Counted)
           disallowed == SumFunctionOnSet(lost, Reimbursed)
           net == NetIf(bills, withdrawn)
<1>1. /\ SoundBills(bills) /\ IsFiniteSet(D) /\ DOMAIN outcomes = D
      /\ DOMAIN Charges(bills) = D
      /\ \A n \in D : /\ Charges(bills)[n] \in EntryType
                      /\ lines[n] = DraftLine(Charges(bills)[n])
  BY ChargesKept DEF Evaluated, Settled, Drafted
<1>2. summary = [gross |-> gross, memo |-> SumFunctionOnSet(claimable, paid),
                 disallowed |-> disallowed, net |-> gross - disallowed,
                 payable |-> Positive(gross - disallowed - Advance),
                 recoverable |-> Positive(Advance - (gross - disallowed)),
                 gaps |-> CoverageGaps(bills)]
  BY DEF Settled, Summary
<1>3. /\ gross \in Nat /\ disallowed \in Nat /\ gross - disallowed = net
  <2>1. summary.net = net
    BY NetIs
  <2>2. Summary.gross \in Nat /\ Summary.disallowed \in Nat /\ summary = Summary
    BY <1>1, SummaryIs DEF Settled
  <2>3. /\ summary.gross = gross /\ summary.disallowed = disallowed
        /\ summary.net = gross - disallowed
    BY <1>2
  <2> QED
    BY <2>1, <2>2, <2>3
<1>4. \A n \in D : claimable[n] = Worths(bills)[n] /\ claimable[n] \in Int
                   /\ Worths(bills)[n] \in Int
  <2> TAKE n \in D
  <2>1. claimable[n] = Claimable(AsLine(Charges(bills)[n]))
    BY <1>1, SameLine
  <2>2. Worths(bills)[n] = Claimable(AsLine(Charges(bills)[n])) /\ Worths(bills)[n] \in Nat
    BY <1>1, ClosedFormIs DEF Worths
  <2> QED
    BY <2>1, <2>2
<1>5. Counted = Open(bills, withdrawn)
  <2>1. Counted = {n \in D : lines[n].preset = "none"}
    BY <1>1, CountedAre
  <2>2. ASSUME NEW n \in D
        PROVE  n \in Open(bills, withdrawn) <=> lines[n].preset = "none"
    <3>1. lines[n].preset = Preset(Charges(bills)[n])
      BY <1>1 DEF DraftLine
    <3> QED
      BY <1>1, <3>1 DEF Open, Preset
  <2>3. Open(bills, withdrawn) \subseteq D
    BY <1>1 DEF Open
  <2> QED
    BY <2>1, <2>2, <2>3
<1>6. paid = ByCompany(bills)
  <2>1. \A n \in D : lines[n].paidBy = DerivePaidBy(Charges(bills)[n].item)
    BY <1>1 DEF DraftLine
  <2> QED
    BY <1>1, <2>1 DEF ByCompany
<1> HIDE DEF claimable
<1>7. \A T \in SUBSET D : SumFunctionOnSet(claimable, T) = SumFunctionOnSet(Worths(bills), T)
  <2> TAKE T \in SUBSET D
  <2>1. IsFiniteSet(T)
    BY <1>1, FS_Subset
  <2>2. \A n \in T : claimable[n] \in Int /\ claimable[n] = Worths(bills)[n]
    BY <1>4
  <2> QED
    BY <2>1, <2>2, SumsSame
<1>8. gross = GrossIf(bills, withdrawn)
  <2>1. Counted \subseteq D
    BY <1>1, CountedAre
  <2> QED
    BY <1>5, <1>7, <2>1 DEF GrossIf
<1>9. SumFunctionOnSet(claimable, paid) = MemoIf(bills)
  <2>1. paid \subseteq D
    OBVIOUS
  <2> QED
    BY <1>6, <1>7, <2>1 DEF MemoIf
<1> HIDE DEF gross, disallowed, net, paid
<1>10. disallowed = gross - net
  BY <1>3
<1> QED
  BY <1>2, <1>3, <1>8, <1>9, <1>10 DEF SummaryIf, net

\* The settlement before the last forward is what the bills come to now.
Repeated ==
    /\ change \in Seq(ChangeNames)
    /\ LastChange = "forwarded" /\ Apart(bills) => before = SummaryIf(bills, withdrawn)

\* A receipt that comes again under the same name is covered by the first and covers it.
LEMMA ForwardCovers ==
    ASSUME Evaluated, NEW b \in bills, NEW file \in Files, NEW kind \in Kinds,
           NEW sender \in Senders \cup {b.sender}, Forward(b, file, kind, sender),
           CalledAs(b, Copy(b, file, kind, sender)) = "forwarded"
    PROVE  bills \subseteq bills' /\ Covered(bills, bills') /\ Covered(bills', bills)
<1> DEFINE copy == Copy(b, file, kind, sender)
           merchant == MerchantOf(b)
<1>1. /\ b \in BillType /\ bills' = bills \cup {copy}
      /\ kind = b.kind \/ (kind = "forward" /\ b.kind = "cab")
  BY ForwardAdds
<1>2. PaperOf(copy) = PaperOf(b)
  <2>1. MerchantOf(copy) = merchant
    BY DEF CalledAs
  <2>2. PaperOf(copy) = [copy EXCEPT !.file = 0, !.sender = merchant,
                                     !.kind = IF @ = "forward" THEN "cab" ELSE @]
    BY <2>1 DEF PaperOf
  <2>3. PaperOf(b) = [b EXCEPT !.file = 0, !.sender = merchant,
                               !.kind = IF @ = "forward" THEN "cab" ELSE @]
    BY DEF PaperOf
  <2> DEFINE same == IF kind = "forward" THEN "cab" ELSE kind
             read == IF b.kind = "forward" THEN "cab" ELSE b.kind
  <2>4. same = read
    BY <1>1
  <2> HIDE DEF merchant
  <2>5. [copy EXCEPT !.file = 0, !.sender = merchant,
                     !.kind = IF @ = "forward" THEN "cab" ELSE @]
            = [b EXCEPT !.file = 0, !.sender = merchant, !.kind = same]
    BY <1>1 DEF BillType, Copy
  <2>6. [b EXCEPT !.file = 0, !.sender = merchant, !.kind = IF @ = "forward" THEN "cab" ELSE @]
            = [b EXCEPT !.file = 0, !.sender = merchant, !.kind = read]
    BY <1>1 DEF BillType
  <2> HIDE DEF same, read, copy
  <2> QED
    BY <2>2, <2>3, <2>4, <2>5, <2>6
<1> HIDE DEF copy
<1> QED
  BY <1>1, <1>2 DEF Covered

LEMMA RepeatedIsInvariant == Spec => []Repeated
<1>1. Init => Repeated
  BY EmptySeq DEF Init, Repeated, LastChange
<1>2. ASSUME Evaluated, Settled, Drafted, DaysAddUp, AloneJudged, Repeated, [Next]_vars
      PROVE  Repeated'
  <2>1. ASSUME UNCHANGED <<bills, withdrawn, before, change>>
        PROVE  Repeated'
    <3>1. SummaryIf(bills, withdrawn)' = SummaryIf(bills, withdrawn) /\ Apart(bills)' = Apart(bills)
      BY <2>1
    <3> QED
      BY <1>2, <2>1, <3>1 DEF Repeated, LastChange
  <2>2. ASSUME NEW what \in ChangeNames, Changing(what)
        PROVE  /\ change' \in Seq(ChangeNames)
               /\ LastChange' = what
               /\ before' = SummaryIf(bills, withdrawn)
    <3>1. change \in Seq(ChangeNames) /\ change' = Append(change, what)
      BY <1>2, <2>2 DEF Repeated, Changing
    <3>2. /\ change' \in Seq(ChangeNames) /\ Len(change') = Len(change) + 1
          /\ Len(change) \in Nat /\ change'[Len(change')] = what
      BY <3>1, AppendProperties, LenProperties
    <3>3. change' # <<>>
      BY <3>2, EmptySeq
    <3>4. before' = summary /\ summary = SummaryIf(bills, withdrawn)
      BY <1>2, <2>2, SettlementIs DEF Changing
    <3> QED
      BY <3>2, <3>3, <3>4 DEF LastChange
  <2>3. ASSUME NEW i \in DOMAIN lines, Withdraw(lines[i].label)
        PROVE  Repeated'
    <3>1. "withdrawn" \in ChangeNames /\ Changing("withdrawn")
      BY <2>3 DEF Withdraw, ChangeNames
    <3>2. LastChange' = "withdrawn" /\ change' \in Seq(ChangeNames)
      BY <2>2, <3>1
    <3> QED
      BY <3>2 DEF Repeated
  <2>4. ASSUME NEW b \in bills, NEW file \in Files, NEW kind \in Kinds,
               NEW sender \in Senders \cup {b.sender}, Forward(b, file, kind, sender)
        PROVE  Repeated'
    <3> DEFINE what == CalledAs(b, Copy(b, file, kind, sender))
    <3>1. what \in ChangeNames /\ Changing(what) /\ withdrawn' = withdrawn
      BY <1>2, <2>4, ForwardAdds
    <3>2. /\ change' \in Seq(ChangeNames)
          /\ before' = SummaryIf(bills, withdrawn)
          /\ LastChange' = what
      BY <2>2, <3>1
    <3>3. SoundBills(bills) /\ SoundBills(bills')
      BY <1>2, <2>4, ForwardIs DEF Evaluated
    <3>4. what = "forwarded" => bills \subseteq bills' /\ Covered(bills, bills') /\ Covered(bills', bills)
      BY <1>2, <2>4, ForwardCovers
    <3>5. ASSUME what = "forwarded", Apart(bills')
          PROVE  before' = SummaryIf(bills', withdrawn')
      <4>1. Apart(bills)
        BY <3>4, <3>5 DEF Apart
      <4>2. SummaryIf(bills, withdrawn) = SummaryIf(bills', withdrawn)
        BY <3>3, <3>4, <3>5, <4>1, SameSummary
      <4> QED
        BY <3>2, <3>1, <4>2
    <3> HIDE DEF what
    <3> QED
      BY <3>2, <3>5 DEF Repeated
  <2>5. Draft \/ Settle \/ UNCHANGED vars => Repeated'
    BY <2>1 DEF Draft, Settle, vars
  <2>6. \A i \in DOMAIN lines : Judge(i) => Repeated'
    BY <2>1 DEF Judge
  <2> QED
    BY <1>2, <2>3, <2>4, <2>5, <2>6 DEF Next
<1> QED
  BY <1>1, <1>2, EvaluatedIsInvariant, SettledIsInvariant, DraftedIsInvariant,
     DaysAddUpIsInvariant, AloneJudgedIsInvariant, PTL DEF Spec

\* For every policy and every evidence: a receipt that arrives again, its charges still from whoever
\* they were from, changes no figure, whether its file's name puts it before or after the first and
\* whatever else is withdrawn or forwarded under whatever name, as long as it passes for no other
\* receipt. Of a receipt that is read under another name this is false: see ForwardsArePaidOnce.
THEOREM ForwardsNeverPay == Spec => []ForwardsUnderOneNameArePaidOnce
<1>1. Evaluated /\ Settled /\ Drafted /\ DaysAddUp /\ AloneJudged /\ Repeated =>
          ForwardsUnderOneNameArePaidOnce
  BY SettlementIs DEF Repeated, ForwardsUnderOneNameArePaidOnce
<1> QED
  BY <1>1, EvaluatedIsInvariant, SettledIsInvariant, DraftedIsInvariant, DaysAddUpIsInvariant,
     AloneJudgedIsInvariant, RepeatedIsInvariant, PTL
=============================================================================
