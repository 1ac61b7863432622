----------------------------- MODULE DataProofs ------------------------------
(***************************************************************************)
(* Facts about sequences, sorting, folds and division, on which            *)
(* ReportProofs rests.                                                     *)
(***************************************************************************)
EXTENDS Ranking, PageText, RunData, TLAPS, FiniteSetTheorems, SequenceTheorems

(* A non-empty set of natural numbers has a least element. *)
LEMMA LeastNatural ==
  ASSUME NEW S \in SUBSET Nat, S # {}
  PROVE  Min(S) \in S /\ \A y \in S : Min(S) <= y
<1>1. PICK x \in S : \A y \in S : ~(<<y, x>> \in OpToRel(<, Nat))
  BY NatLessThanWellFounded, WFMin
<1>2. ASSUME NEW y \in S, y < x PROVE FALSE
  <2>1. <<y, x>> \in OpToRel(<, Nat)
    BY <1>2 DEF OpToRel
  <2> QED
    BY <1>1, <2>1
<1>3. \A y \in S : x <= y
  BY <1>2
<1> QED
  BY <1>3 DEF Min

(* Induction, for a property that is written as a set. *)
LEMMA NaturalInduction ==
  ASSUME NEW S \in SUBSET Nat, 0 \in S, \A n \in S : n + 1 \in S
  PROVE  S = Nat
<1> SUFFICES ASSUME Nat \ S # {} PROVE FALSE
  OBVIOUS
<1> DEFINE x == Min(Nat \ S)
<1>1. x \in Nat \ S /\ \A y \in Nat \ S : x <= y
  BY LeastNatural
<1> HIDE DEF x
<1>2. x # 0 /\ x - 1 \in Nat /\ x - 1 + 1 = x
  BY <1>1
<1>3. x - 1 \in S
  BY <1>1, <1>2
<1> QED
  BY <1>1, <1>2, <1>3

(* A bounded, non-empty set of natural numbers has a greatest element. *)
LEMMA GreatestNatural ==
  ASSUME NEW S \in SUBSET Nat, S # {}, NEW n \in Nat, \A y \in S : y <= n
  PROVE  Max(S) \in S /\ \A y \in S : y <= Max(S)
<1> DEFINE D == {d \in Nat : n - d \in S}
<1>1. PICK y \in S : TRUE
  OBVIOUS
<1>2. n - y \in D
  OBVIOUS
<1>3. Min(D) \in D /\ \A d \in D : Min(D) <= d
  BY <1>2, LeastNatural
<1>4. n - Min(D) \in S
  BY <1>3
<1>5. \A z \in S : n - z \in D
  OBVIOUS
<1>6. \A z \in S : z <= n - Min(D)
  BY <1>3, <1>5
<1> QED
  BY <1>4, <1>6 DEF Max

-----------------------------------------------------------------------------
(* Sorting. *)

(* The places in a finite order are taken, each by one element. *)
LEMMA EveryPlaceIsTaken ==
  ASSUME NEW S, IsFiniteSet(S), NEW r \in [S -> 1..Cardinality(S)],
         \A x, y \in S : r[x] = r[y] => x = y
  PROVE  \A k \in 1..Cardinality(S) : \E x \in S : r[x] = k
<1>1. Cardinality(S) \in Nat
  BY FS_CardinalityType
<1>2. r \in Injection(S, 1..Cardinality(S))
  BY DEF Injection, IsInjective
<1>3. IsFiniteSet(1..Cardinality(S)) /\ Cardinality(1..Cardinality(S)) = Cardinality(S)
  BY <1>1, FS_Interval
<1>4. r \in Surjection(S, 1..Cardinality(S))
  BY <1>2, <1>3, FS_Injection
<1> QED
  BY <1>4 DEF Surjection

StrictOrder(S, before) ==
  /\ \A x \in S : <<x, x>> \notin before
  /\ \A x, y, z \in S : <<x, y>> \in before /\ <<y, z>> \in before => <<x, z>> \in before
  /\ \A x, y \in S : x = y \/ <<x, y>> \in before \/ <<y, x>> \in before

(* Sorted has every element once, in the order. *)
LEMMA SortedIs ==
  ASSUME NEW S, IsFiniteSet(S), NEW before, StrictOrder(S, before)
  PROVE  /\ Cardinality(S) \in Nat
         /\ Sorted(S, before) \in [1..Cardinality(S) -> S]
         /\ \A i, j \in 1..Cardinality(S) :
              i < j => <<Sorted(S, before)[i], Sorted(S, before)[j]>> \in before
         /\ \A x \in S : \E k \in 1..Cardinality(S) : Sorted(S, before)[k] = x
<1> DEFINE n == Cardinality(S)
           Below(x) == {y \in S : <<y, x>> \in before}
           r == [x \in S |-> Cardinality(Below(x)) + 1]
           Right(s) == s \in [1..n -> S] /\ \A i, j \in 1..n : i < j => <<s[i], s[j]>> \in before
<1>1. n \in Nat
  BY FS_CardinalityType
<1>2. ASSUME NEW x \in S
      PROVE  IsFiniteSet(Below(x)) /\ Cardinality(Below(x)) \in Nat /\ Cardinality(Below(x)) < n
  <2>1. Below(x) \in SUBSET S /\ x \notin Below(x)
    BY DEF StrictOrder
  <2>2. IsFiniteSet(Below(x)) /\ Cardinality(Below(x)) <= n /\ Cardinality(Below(x)) # n
    BY <2>1, FS_Subset
  <2> QED
    BY <1>1, <2>2, FS_CardinalityType
<1>3. r \in [S -> 1..n]
  <2> HIDE DEF Below
  <2>1. \A x \in S : Cardinality(Below(x)) + 1 \in 1..n
    BY <1>1, <1>2
  <2> QED
    BY <2>1
<1>4. ASSUME NEW x \in S, NEW y \in S, <<x, y>> \in before
      PROVE  r[x] < r[y]
  <2>1. Below(x) \in SUBSET Below(y) /\ x \in Below(y) /\ x \notin Below(x)
    BY <1>4 DEF StrictOrder
  <2>2. IsFiniteSet(Below(y)) /\ Cardinality(Below(x)) \in Nat /\ Cardinality(Below(y)) \in Nat
    BY <1>2
  <2> DEFINE B == Below(y)
             A == Below(x)
  <2>3. A \in SUBSET B /\ A # B /\ IsFiniteSet(B)
    BY <2>1, <2>2
  <2> HIDE DEF A, B
  <2>4. Cardinality(A) <= Cardinality(B) /\ Cardinality(A) # Cardinality(B)
    BY <2>3, FS_Subset
  <2> QED
    BY <2>2, <2>4 DEF A, B
<1> HIDE DEF r, Below
<1>5. \A x, y \in S : r[x] = r[y] => x = y
  <2> SUFFICES ASSUME NEW x \in S, NEW y \in S, r[x] = r[y] PROVE x = y
    OBVIOUS
  <2>1. r[x] \in Nat /\ r[y] \in Nat
    BY <1>1, <1>3
  <2>2. <<x, y>> \notin before /\ <<y, x>> \notin before
    BY <1>4, <2>1
  <2> QED
    BY <2>2 DEF StrictOrder
<1>6. \A k \in 1..n : \E x \in S : r[x] = k
  BY <1>3, <1>5, EveryPlaceIsTaken
<1>7. PICK f \in [1..n -> S] : \A k \in 1..n : r[f[k]] = k
  <2>1. [k \in 1..n |-> CHOOSE x \in S : r[x] = k] \in [1..n -> S]
    BY <1>6
  <2> QED
    BY <1>6, <2>1
<1>8. Right(f)
  <2> SUFFICES ASSUME NEW i \in 1..n, NEW j \in 1..n, i < j
               PROVE  <<f[i], f[j]>> \in before
    OBVIOUS
  <2>1. f[i] \in S /\ f[j] \in S /\ r[f[i]] = i /\ r[f[j]] = j
    BY <1>7
  <2>2. f[i] # f[j] /\ <<f[j], f[i]>> \notin before
    BY <1>1, <1>4, <2>1
  <2> QED
    BY <2>1, <2>2 DEF StrictOrder
<1>9. Right(Sorted(S, before))
  <2>1. \E s \in [1..n -> S] : \A i, j \in DOMAIN s : i < j => <<s[i], s[j]>> \in before
    BY <1>8
  <2> QED
    BY <2>1 DEF Sorted
<1>10. \A x \in S : \E k \in 1..n : Sorted(S, before)[k] = x
  <2> DEFINE s == Sorted(S, before)
  <2>1. s \in [1..n -> S] /\ \A i, j \in 1..n : i < j => <<s[i], s[j]>> \in before
    BY <1>9
  <2> HIDE DEF s
  <2>2. \A i, j \in 1..n : s[i] = s[j] => i = j
    <3> SUFFICES ASSUME NEW i \in 1..n, NEW j \in 1..n, s[i] = s[j], i # j PROVE FALSE
      OBVIOUS
    <3>1. <<s[i], s[i]>> \in before /\ s[i] \in S
      BY <1>1, <2>1
    <3> QED
      BY <3>1 DEF StrictOrder
  <2>3. s \in Injection(1..n, S)
    BY <2>1, <2>2 DEF Injection, IsInjective
  <2>4. Cardinality(1..n) = n
    BY <1>1, FS_Interval
  <2>5. s \in Surjection(1..n, S)
    BY <2>3, <2>4, FS_Injection
  <2> QED
    BY <2>5 DEF s, Surjection
<1> QED
  BY <1>1, <1>9, <1>10

(* Picked has every place once, in the order of the places. *)
IsPicking(order, s, n, places) ==
  /\ IsFiniteSet(places) /\ Cardinality(places) \in Nat /\ Cardinality(places) <= n
  /\ order \in [1..Cardinality(places) -> places]
  /\ \A i, j \in 1..Cardinality(places) : i < j => order[i] < order[j]
  /\ \A p \in places : \E k \in 1..Cardinality(places) : order[k] = p
  /\ Picked(s, places) = [k \in 1..Cardinality(places) |-> s[order[k]]]

LEMMA PickedIs ==
  ASSUME NEW s, NEW n \in Nat, NEW places \in SUBSET (1..n)
  PROVE  \E order : IsPicking(order, s, n, places)
<1> DEFINE before == {p \in places \X places : p[1] < p[2]}
           order == Sorted(places, before)
           m == Cardinality(places)
<1>1. IsFiniteSet(places) /\ m <= n
  <2>1. IsFiniteSet(1..n) /\ Cardinality(1..n) = n
    BY FS_Interval
  <2> QED
    BY <2>1, FS_Subset
<1>2. \A x, y \in places : <<x, y>> \in before <=> x < y
  OBVIOUS
<1>3. StrictOrder(places, before)
  <2>1. \A x \in places : x \in Nat
    OBVIOUS
  <2> QED
    BY <1>2, <2>1 DEF StrictOrder
<1> HIDE DEF before
<1>4. /\ m \in Nat /\ order \in [1..m -> places]
      /\ \A i, j \in 1..m : i < j => <<order[i], order[j]>> \in before
      /\ \A p \in places : \E k \in 1..m : order[k] = p
  BY <1>1, <1>3, SortedIs
<1>5. Picked(s, places) = [k \in 1..m |-> s[order[k]]]
  BY <1>4 DEF Picked, before
<1> HIDE DEF order
<1>6. \A i, j \in 1..m : i < j => order[i] < order[j]
  BY <1>2, <1>4
<1>7. IsPicking(order, s, n, places)
  BY <1>1, <1>4, <1>5, <1>6 DEF IsPicking
<1> QED
  BY <1>7

-----------------------------------------------------------------------------
(* Division.  Quotients by a variable are beyond the arithmetic of the      *)
(* provers: they are taken as what division leaves (Quotient), and products *)
(* are compared with ProductMonotone.                                       *)

LEMMA Quotient ==
  ASSUME NEW a \in Nat, NEW b \in Nat \ {0}
  PROVE  /\ a \div b \in Nat
         /\ b * (a \div b) <= a
         /\ a < b * (a \div b) + b
OBVIOUS

LEMMA ProductMonotone ==
  ASSUME NEW a \in Nat, NEW b \in Nat, NEW c \in Nat, a <= b
  PROVE  c * a <= c * b
OBVIOUS

(* The quotient is the only such number. *)
LEMMA QuotientIs ==
  ASSUME NEW a \in Nat, NEW b \in Nat \ {0}, NEW q \in Nat,
         b * q <= a, a < b * q + b
  PROVE  a \div b = q
OBVIOUS

LEMMA QuotientMonotone ==
  ASSUME NEW a \in Nat, NEW c \in Nat, NEW b \in Nat \ {0}, a <= c
  PROVE  a \div b <= c \div b
OBVIOUS

LEMMA QuotientBound ==
  ASSUME NEW a \in Nat, NEW b \in Nat \ {0}, NEW q \in Nat, a < b * q + b
  PROVE  a \div b <= q
OBVIOUS

(* The quotient reaches its bound exactly when the product does. *)
LEMMA QuotientReaches ==
  ASSUME NEW a \in Nat, NEW b \in Nat \ {0}, NEW n \in Nat, a < b * n + b
  PROVE  /\ a \div b \in 0..n
         /\ a \div b = n <=> b * n <= a
<1>1. PICK q \in Nat : q = a \div b
  BY Quotient
<1>2. b * q <= a /\ q <= n
  BY <1>1, Quotient, QuotientBound
<1>3. b * n <= a => q = n
  BY <1>1, QuotientIs
<1>4. q = n => b * n <= a
  BY <1>2
<1>5. q \in 0..n /\ (q = n <=> b * n <= a)
  BY <1>2, <1>3, <1>4
<1> QED
  BY <1>1, <1>5, Zenon

LEMMA RoundDivNatural ==
  ASSUME NEW a \in Nat, NEW b \in Nat \ {0}
  PROVE  RoundDiv(a, b) \in Nat
BY Quotient DEF RoundDiv

(* Rounding keeps the order, and a bound that is a whole number. *)
LEMMA RoundDivMonotone ==
  ASSUME NEW a \in Nat, NEW c \in Nat, NEW b \in Nat \ {0}, a <= c
  PROVE  RoundDiv(a, b) <= RoundDiv(c, b)
BY QuotientMonotone DEF RoundDiv

LEMMA RoundDivWhole ==
  ASSUME NEW q \in Nat, NEW b \in Nat \ {0}
  PROVE  RoundDiv(q * b, b) = q
<1>1. q * b \in Nat /\ 2 * (q * b) = (2 * b) * q
  OBVIOUS
<1>2. DEFINE a == 2 * (q * b) + b
<1>3. a \in Nat /\ 2 * b \in Nat \ {0} /\ (2 * b) * q <= a /\ a < (2 * b) * q + 2 * b
  BY <1>1
<1> QED
  BY <1>3, QuotientIs DEF RoundDiv

LEMMA RoundDivBound ==
  ASSUME NEW a \in Nat, NEW b \in Nat \ {0}, NEW q \in Nat, a <= q * b
  PROVE  RoundDiv(a, b) <= q
<1>1. q * b \in Nat
  OBVIOUS
<1> QED
  BY <1>1, RoundDivMonotone, RoundDivWhole

-----------------------------------------------------------------------------
(* Folds. *)

LEMMA InductionTo ==
  ASSUME NEW n \in Nat, NEW S, 0 \in S, \A k \in 1..n : k - 1 \in S => k \in S
  PROVE  \A k \in 0..n : k \in S
<1> DEFINE T == {k \in Nat : k <= n => k \in S}
<1>1. 0 \in T
  OBVIOUS
<1>2. ASSUME NEW k \in T PROVE k + 1 \in T
  <2> SUFFICES ASSUME k + 1 <= n PROVE k + 1 \in S
    OBVIOUS
  <2>1. k \in S /\ k + 1 \in 1..n /\ (k + 1) - 1 = k
    OBVIOUS
  <2> QED
    BY <2>1
<1>3. T = Nat
  <2> HIDE DEF T
  <2>1. T \in SUBSET Nat
    BY DEF T
  <2> QED
    BY <1>1, <1>2, <2>1, NaturalInduction
<1> QED
  BY <1>3

(* FoldLeft goes through the sets 1..n, 1..(n-1), ... of what is left. *)
Iterates(it, base, step, m) ==
  it = [s \in SUBSET (1..m) |-> IF s = {} THEN base ELSE step[Max(s)][it[s \ {Max(s)}]]]

LEMMA GreatestIs ==
  ASSUME NEW m \in Nat, NEW s \in SUBSET (1..m), m \in s
  PROVE  Max(s) = m
<1>1. \A y \in s : m >= y
  OBVIOUS
<1>2. \A x \in s : (\A y \in s : x >= y) => x = m
  OBVIOUS
<1> QED
  BY <1>1, <1>2 DEF Max

LEMMA IterationStep ==
  ASSUME NEW X, NEW base \in X, NEW m \in Nat, NEW step, step[m + 1] \in [X -> X],
         NEW f \in [SUBSET (1..m) -> X], Iterates(f, base, step, m)
  PROVE  \E it \in [SUBSET (1..(m+1)) -> X] : Iterates(it, base, step, m + 1)
<1> DEFINE it == [s \in SUBSET (1..(m+1)) |->
                    IF m + 1 \in s THEN step[m + 1][f[s \ {m + 1}]] ELSE f[s]]
<1>1. \A s \in SUBSET (1..(m+1)) :
        IF m + 1 \in s THEN s \ {m + 1} \in SUBSET (1..m) ELSE s \in SUBSET (1..m)
  OBVIOUS
<1>2. it \in [SUBSET (1..(m+1)) -> X]
  BY <1>1
<1>3. ASSUME NEW s \in SUBSET (1..(m+1)), s # {}
      PROVE  it[s] = step[Max(s)][it[s \ {Max(s)}]]
  <2>1. CASE m + 1 \in s
    <3>1. Max(s) = m + 1
      BY <2>1, GreatestIs
    <3>2. s \ {m + 1} \in SUBSET (1..m) /\ s \ {m + 1} \in SUBSET (1..(m+1)) /\ m + 1 \notin s \ {m + 1}
      BY <1>1, <2>1
    <3> QED
      BY <2>1, <3>1, <3>2
  <2>2. CASE m + 1 \notin s
    <3>1. s \in SUBSET (1..m) /\ s \ {Max(s)} \in SUBSET (1..m) /\ s \ {Max(s)} \in SUBSET (1..(m+1))
             /\ m + 1 \notin s \ {Max(s)}
      BY <1>1, <2>2
    <3>2. f[s] = step[Max(s)][f[s \ {Max(s)}]]
      BY <1>3, <3>1 DEF Iterates
    <3> QED
      BY <2>2, <3>1, <3>2
  <2> QED
    BY <2>1, <2>2
<1>4. it[{}] = base
  <2>1. {} \in SUBSET (1..m) /\ {} \in SUBSET (1..(m+1)) /\ m + 1 \notin {}
    OBVIOUS
  <2>2. f[{}] = base
    BY <2>1 DEF Iterates
  <2> QED
    BY <2>1, <2>2
<1>5. Iterates(it, base, step, m + 1)
  BY <1>3, <1>4 DEF Iterates
<1> QED
  BY <1>2, <1>5

LEMMA Iteration ==
  ASSUME NEW X, NEW base \in X, NEW n \in Nat, NEW step \in [1..n -> [X -> X]]
  PROVE  \E it \in [SUBSET (1..n) -> X] : Iterates(it, base, step, n)
<1> DEFINE S == {m \in Nat : \E it \in [SUBSET (1..m) -> X] : Iterates(it, base, step, m)}
<1>1. 0 \in S
  <2>1. SUBSET (1..0) = {{}}
    OBVIOUS
  <2>2. Iterates([s \in SUBSET (1..0) |-> base], base, step, 0)
    BY <2>1 DEF Iterates
  <2> QED
    BY <2>2
<1>2. ASSUME NEW k \in 1..n, k - 1 \in S PROVE k \in S
  <2>1. PICK m \in Nat : m = k - 1 /\ k = m + 1
    OBVIOUS
  <2>2. PICK f \in [SUBSET (1..m) -> X] : Iterates(f, base, step, m)
    BY <1>2, <2>1
  <2>3. step[m + 1] \in [X -> X]
    BY <2>1
  <2>4. \E it \in [SUBSET (1..(m+1)) -> X] : Iterates(it, base, step, m + 1)
    BY <2>2, <2>3, IterationStep
  <2> QED
    BY <2>1, <2>4
<1> HIDE DEF S
<1>3. \A k \in 0..n : k \in S
  <2>1. \A k \in 1..n : k - 1 \in S => k \in S
    BY <1>2
  <2> QED
    BY <1>1, <2>1, InductionTo
<1>4. n \in S
  BY <1>3
<1> QED
  BY <1>4 DEF S

LEMMA IterationPlaces ==
  ASSUME NEW n \in Nat
  PROVE  /\ 1..0 = {} /\ {} \in SUBSET (1..n)
         /\ \A k \in 1..n : /\ 1..k # {} /\ 1..k \in SUBSET (1..n) /\ Max(1..k) = k
                            /\ (1..k) \ {k} = 1..(k-1)
         /\ \A s \in SUBSET (1..n) : s # {} => Max(s) \in 1..n /\ s \ {Max(s)} \in SUBSET (1..n)
<1>1. ASSUME NEW k \in 1..n PROVE Max(1..k) = k
  BY GreatestIs
<1>2. ASSUME NEW s \in SUBSET (1..n), s # {} PROVE Max(s) \in 1..n
  <2>1. s \in SUBSET Nat /\ \A y \in s : y <= n
    OBVIOUS
  <2>2. Max(s) \in s
    BY <1>2, <2>1, GreatestNatural
  <2> QED
    BY <2>2
<1>3. 1..0 = {} /\ {} \in SUBSET (1..n)
  OBVIOUS
<1>4. \A k \in 1..n : 1..k # {} /\ 1..k \in SUBSET (1..n) /\ (1..k) \ {k} = 1..(k-1)
  OBVIOUS
<1>5. \A s \in SUBSET (1..n) : s \ {Max(s)} \in SUBSET (1..n)
  OBVIOUS
<1> QED
  BY <1>1, <1>2, <1>3, <1>4, <1>5

(* Every step stays within a set. *)
LEMMA StepsStay ==
  ASSUME NEW X, NEW n \in Nat, NEW iter, iter[1..0] \in X,
         \A k \in 1..n : iter[1..(k-1)] \in X => iter[1..k] \in X
  PROVE  \A k \in 0..n : iter[1..k] \in X
<1> DEFINE S == {k \in Nat : iter[1..k] \in X}
<1>1. 0 \in S
  OBVIOUS
<1>2. \A k \in 1..n : k - 1 \in S => k \in S
  OBVIOUS
<1>3. \A k \in 0..n : k \in S
  <2> HIDE DEF S
  <2> QED
    BY <1>1, <1>2, InductionTo
<1> QED
  BY <1>3

(* What Total computes, one element after the other. *)
LEMMA TotalSteps ==
  ASSUME NEW s \in Seq(Int)
  PROVE  \E acc \in [0..Len(s) -> Int] :
           /\ acc[0] = 0 /\ Total(s) = acc[Len(s)]
           /\ \A k \in 1..Len(s) : acc[k] = Plus(acc[k - 1], s[k])
<1> DEFINE n == Len(s)
           X == Int
           base == 0
           Eq(it) == it = [t \in SUBSET (1..n) |->
                             IF t = {} THEN base ELSE Plus(it[t \ {Max(t)}], s[Max(t)])]
           iter == CHOOSE it : Eq(it)
<1>1. n \in Nat /\ DOMAIN s = 1..n /\ \A k \in 1..n : s[k] \in Int
  OBVIOUS
<1>2. Total(s) = iter[1..n]
  BY <1>1 DEF Total, FoldLeft, MapThenFoldSet
<1>3. base \in X /\ \A y \in X, e \in Int : Plus(y, e) \in X
  BY DEF Plus
<1> HIDE DEF X, base
<1>4. PICK step \in [1..n -> [X -> X]] :
        \A k \in 1..n, y \in X : step[k][y] = Plus(y, s[k])
  <2>1. [k \in 1..n |-> [y \in X |-> Plus(y, s[k])]] \in [1..n -> [X -> X]]
    BY <1>1, <1>3
  <2> QED
    BY <2>1
<1>5. PICK it \in [SUBSET (1..n) -> X] : Iterates(it, base, step, n)
  BY <1>1, <1>3, <1>4, Iteration
<1>6. Eq(it)
  <2>1. ASSUME NEW t \in SUBSET (1..n), t # {}
        PROVE  it[t] = Plus(it[t \ {Max(t)}], s[Max(t)])
    <3>1. Max(t) \in 1..n /\ t \ {Max(t)} \in SUBSET (1..n)
      BY <1>1, <2>1, IterationPlaces
    <3>2. it[t] = step[Max(t)][it[t \ {Max(t)}]]
      BY <1>5, <2>1 DEF Iterates
    <3> QED
      BY <1>4, <1>5, <3>1, <3>2
  <2> QED
    BY <1>5, <2>1 DEF Iterates
<1>7. Eq(iter)
  BY <1>6
<1> HIDE DEF iter
<1>8. iter[1..0] = base
  BY <1>1, <1>7, IterationPlaces
<1>9. ASSUME NEW k \in 1..n PROVE iter[1..k] = Plus(iter[1..(k-1)], s[k])
  <2>1. 1..k # {} /\ 1..k \in SUBSET (1..n) /\ Max(1..k) = k /\ (1..k) \ {k} = 1..(k-1)
    BY <1>1, IterationPlaces
  <2>2. iter[1..k] = Plus(iter[(1..k) \ {Max(1..k)}], s[Max(1..k)])
    BY <1>7, <2>1
  <2> QED
    BY <2>1, <2>2
<1>10. \A k \in 0..n : iter[1..k] \in X
  <2>1. iter[1..0] \in X
    BY <1>3, <1>8
  <2>2. \A k \in 1..n : iter[1..(k-1)] \in X => iter[1..k] \in X
    BY <1>1, <1>3, <1>9
  <2> QED
    BY <1>1, <2>1, <2>2, StepsStay
<1> DEFINE acc == [k \in 0..n |-> iter[1..k]]
<1>11. acc \in [0..n -> X] /\ acc[0] = base /\ acc[n] = iter[1..n]
         /\ \A k \in 1..n : acc[k] = iter[1..k] /\ acc[k - 1] = iter[1..(k-1)]
  BY <1>1, <1>8, <1>10
<1>12. \A k \in 1..n : acc[k] = Plus(acc[k - 1], s[k])
  BY <1>9, <1>11
<1> HIDE DEF acc
<1> QED
  BY <1>2, <1>11, <1>12 DEF X, base

-----------------------------------------------------------------------------
(* Sequences. *)

Distinct(s) == \A i, j \in DOMAIN s : s[i] = s[j] => i = j
Starts(s, t) == Len(s) <= Len(t) /\ \A i \in 1..Len(s) : t[i] = s[i]

(* A cut list is a beginning of the list. *)
LEMMA CutIs ==
  ASSUME NEW S, NEW s \in Seq(S), NEW n \in Nat, n <= Len(s)
  PROVE  /\ SubSeq(s, 1, n) \in Seq(S) /\ Len(SubSeq(s, 1, n)) = n
         /\ Starts(SubSeq(s, 1, n), s)
         /\ Distinct(s) => Distinct(SubSeq(s, 1, n))
<1>1. \A i \in 1..n : s[i] \in S
  OBVIOUS
<1>2. SubSeq(s, 1, n) \in Seq(S)
  BY <1>1, SubSeqProperties
<1>3. PICK t \in Seq(S) : t = SubSeq(s, 1, n)
  BY <1>2
<1>4. Len(t) = n /\ \A i \in 1..n : t[i] = s[i]
  <2>1. \A i \in 1..(n - 1 + 1) : SubSeq(s, 1, n)[i] = s[1 + i - 1]
    BY <1>1, SubSeqProperties
  <2>2. Len(SubSeq(s, 1, n)) = IF 1 <= n THEN n - 1 + 1 ELSE 0
    BY <1>1, SubSeqProperties
  <2> QED
    BY <1>3, <2>1, <2>2
<1> QED
  BY <1>3, <1>4 DEF Starts, Distinct

IsOne(u, e) == u = <<e>> /\ Len(u) = 1 /\ u[1] = e

LEMMA OneIs ==
  ASSUME NEW S, NEW e \in S
  PROVE  \E u \in Seq(S) : IsOne(u, e)
<1> DEFINE u == <<e>>
<1>1. u \in Seq(S)
  OBVIOUS
<1>2. Len(u) = 1 /\ u[1] = e
  OBVIOUS
<1>3. IsOne(u, e)
  BY Zenon, <1>2 DEF IsOne
<1> HIDE DEF u
<1> QED
  BY Zenon, <1>1, <1>3

IsAppend(u, s, e) ==
  u = Append(s, e) /\ Len(u) = Len(s) + 1 /\ u[Len(s) + 1] = e /\ \A i \in 1..Len(s) : u[i] = s[i]

LEMMA AppendedIs ==
  ASSUME NEW S, NEW s \in Seq(S), NEW e \in S
  PROVE  \E u \in Seq(S) : IsAppend(u, s, e)
<1> DEFINE u == Append(s, e)
<1>1. u \in Seq(S)
  BY AppendProperties
<1>2. Len(u) = Len(s) + 1 /\ u[Len(s) + 1] = e /\ \A i \in 1..Len(s) : u[i] = s[i]
  BY AppendProperties
<1>3. IsAppend(u, s, e)
  BY Zenon, <1>2 DEF IsAppend
<1> HIDE DEF u
<1> QED
  BY Zenon, <1>1, <1>3

IsConcat(u, s, t) ==
  /\ u = s \o t /\ Len(u) = Len(s) + Len(t)
  /\ \A i \in 1..(Len(s) + Len(t)) : u[i] = IF i <= Len(s) THEN s[i] ELSE t[i - Len(s)]

LEMMA ConcatIs ==
  ASSUME NEW S, NEW s \in Seq(S), NEW t \in Seq(S)
  PROVE  \E u \in Seq(S) : IsConcat(u, s, t)
<1>1. s \o t \in Seq(S)
  BY ConcatProperties
<1>2. Len(s \o t) = Len(s) + Len(t)
  BY ConcatProperties
<1>3. \A i \in 1..(Len(s) + Len(t)) : (s \o t)[i] = IF i <= Len(s) THEN s[i] ELSE t[i - Len(s)]
  BY ConcatProperties
<1> DEFINE u == s \o t
<1> HIDE DEF u
<1>4. u \in Seq(S) /\ Len(u) = Len(s) + Len(t)
        /\ \A i \in 1..(Len(s) + Len(t)) : u[i] = IF i <= Len(s) THEN s[i] ELSE t[i - Len(s)]
  BY <1>1, <1>2, <1>3 DEF u
<1> QED
  BY <1>4 DEF u, IsConcat

-----------------------------------------------------------------------------
(* Texts. *)

LEMMA TrimLeftIs ==
  ASSUME NEW S, NEW text \in Seq(S), NEW chars
  PROVE  /\ TrimLeft(text, chars) \in Seq(S)
         /\ text # <<>> /\ text[1] \notin chars => TrimLeft(text, chars) = text
<1> DEFINE places == {i \in DOMAIN text : text[i] \notin chars} \union {Len(text) + 1}
           first == Min(places)
<1>1. Len(text) \in Nat /\ DOMAIN text = 1..Len(text)
  OBVIOUS
<1>2. places \in SUBSET Nat /\ places # {} /\ places \in SUBSET (1..(Len(text) + 1))
  BY <1>1
<1>3. first \in places /\ \A y \in places : first <= y
  BY <1>2, LeastNatural
<1>4. first \in 1..(Len(text) + 1)
  BY <1>2, <1>3
<1>5. TrimLeft(text, chars) = SubSeq(text, first, Len(text))
  BY DEF TrimLeft
<1>6. ASSUME text # <<>>, text[1] \notin chars PROVE first = 1
  <2>1. 1 \in places
    BY <1>1, <1>6
  <2> HIDE DEF places, first
  <2> QED
    BY <1>3, <1>4, <2>1
<1> HIDE DEF first
<1>7. SubSeq(text, first, Len(text)) \in Seq(S)
  BY <1>1, <1>4, SubSeqProperties
<1>8. SubSeq(text, 1, Len(text)) = text
  BY SubSeqFull
<1> QED
  BY <1>5, <1>6, <1>7, <1>8

LEMMA WithoutFirst ==
  ASSUME NEW S, NEW s \in Seq(S), NEW n \in Nat, Len(s) = 1 + n
  PROVE  \A i \in 1..n : SubSeq(s, 2, 1 + n)[i] = s[i + 1]
OBVIOUS

(* One character is trimmed. *)
LEMMA TrimLeftOne ==
  ASSUME NEW S, NEW text \in Seq(S), NEW chars, NEW char \in S, char \in chars,
         text # <<>>, text[1] \notin chars,
         NEW both \in Seq(S), both = <<char>> \o text
  PROVE  TrimLeft(both, chars) = text
<1> DEFINE places == {i \in DOMAIN both : both[i] \notin chars} \union {Len(both) + 1}
           first == Min(places)
<1>1. PICK n \in Nat \ {0} : n = Len(text)
  OBVIOUS
<1>2. PICK one \in Seq(S) : IsOne(one, char)
  BY OneIs
<1>3. /\ Len(both) = 1 + n /\ both[1] = char /\ DOMAIN both = 1..(1 + n)
      /\ \A i \in 1..n : both[i + 1] = text[i]
  <2>1. PICK u \in Seq(S) : IsConcat(u, one, text)
    BY ConcatIs
  <2>2. both = u
    BY Zenon, <1>2, <2>1 DEF IsOne, IsConcat
  <2>3. /\ Len(u) = 1 + n /\ u[1] = char
        /\ \A i \in 1..(1 + n) : u[i] = IF i <= 1 THEN one[i] ELSE text[i - 1]
    BY <1>1, <1>2, <2>1 DEF IsOne, IsConcat
  <2>4. ASSUME NEW i \in 1..n PROVE u[i + 1] = text[i]
    <3>1. i + 1 \in 1..(1 + n) /\ ~(i + 1 <= 1) /\ (i + 1) - 1 = i
      OBVIOUS
    <3> QED
      BY <2>3, <3>1
  <2> QED
    BY <2>2, <2>3, <2>4
<1>4. 2 \in places /\ 1 \notin places /\ places \in SUBSET Nat /\ 0 \notin places
  <2>1. both[2] = text[1]
    <3>1. 1 \in 1..n /\ 1 + 1 = 2
      OBVIOUS
    <3> QED
      BY <1>3, <3>1
  <2> QED
    BY <1>1, <1>3, <2>1
<1>5. first \in places /\ \A y \in places : first <= y
  BY <1>4, LeastNatural
<1>6. first = 2
  <2> HIDE DEF places, first
  <2>1. first \in Nat /\ first # 0 /\ first # 1 /\ first <= 2
    BY <1>4, <1>5
  <2> QED
    BY <2>1
<1>7. TrimLeft(both, chars) = SubSeq(both, 2, 1 + n)
  BY <1>3, <1>6 DEF TrimLeft
<1>8. SubSeq(both, 2, 1 + n) = text
  <2>1. \A i \in 2..(1 + n) : both[i] \in S
    BY <1>3
  <2>2. 2 \in Int /\ 1 + n \in Int /\ 2 <= 1 + n /\ (1 + n) - 2 + 1 = n
    OBVIOUS
  <2>3. SubSeq(both, 2, 1 + n) \in Seq(S)
    BY <2>1, <2>2, SubSeqProperties
  <2>4. Len(SubSeq(both, 2, 1 + n)) = n
    <3>1. Len(SubSeq(both, 2, 1 + n)) = IF 2 <= 1 + n THEN (1 + n) - 2 + 1 ELSE 0
      BY <2>1, <2>2, SubSeqProperties
    <3> QED
      BY <2>2, <3>1
  <2>5. \A i \in 1..n : SubSeq(both, 2, 1 + n)[i] = both[i + 1]
    BY <1>3, WithoutFirst
  <2>6. PICK cut \in Seq(S) :
          /\ cut = SubSeq(both, 2, 1 + n) /\ Len(cut) = n
          /\ \A i \in 1..n : cut[i] = both[i + 1]
    BY Zenon, <2>3, <2>4, <2>5
  <2>7. \A i \in 1..n : cut[i] = text[i]
    BY Zenon, <1>3, <2>6
  <2>8. cut = text
    BY <1>1, <2>6, <2>7, SeqEqual
  <2> QED
    BY <2>6, <2>8
<1> QED
  BY <1>7, <1>8

LEMMA ReverseIs ==
  ASSUME NEW S, NEW text \in Seq(S)
  PROVE  /\ Reverse(text) \in Seq(S) /\ Len(Reverse(text)) = Len(text)
         /\ Reverse(Reverse(text)) = text
         /\ text # <<>> => Reverse(text) # <<>> /\ Reverse(text)[1] = text[Len(text)]
<1>1. Len(text) \in Nat
  OBVIOUS
<1>2. Reverse(text) \in Seq(S) /\ Len(Reverse(text)) = Len(text)
        /\ \A i \in 1..Len(text) : Reverse(text)[i] = text[Len(text) - i + 1]
  BY <1>1 DEF Reverse
<1>3. Reverse(Reverse(text)) \in Seq(S) /\ Len(Reverse(Reverse(text))) = Len(text)
        /\ \A i \in 1..Len(text) : Reverse(Reverse(text))[i] = text[i]
  <2> DEFINE r == Reverse(text)
  <2>1. r \in Seq(S) /\ Len(r) = Len(text)
           /\ \A i \in 1..Len(text) : r[i] = text[Len(text) - i + 1]
    BY <1>2
  <2> HIDE DEF r
  <2>2. Reverse(r) \in Seq(S) /\ Len(Reverse(r)) = Len(text)
          /\ \A i \in 1..Len(text) : Reverse(r)[i] = r[Len(text) - i + 1]
    BY <1>1, <2>1 DEF Reverse
  <2>3. \A i \in 1..Len(text) : /\ Len(text) - i + 1 \in 1..Len(text)
                                /\ Len(text) - (Len(text) - i + 1) + 1 = i
    BY <1>1
  <2>4. \A i \in 1..Len(text) : r[Len(text) - i + 1] = text[i]
    BY <2>1, <2>3
  <2> QED
    BY <2>2, <2>4 DEF r
<1>4. Reverse(Reverse(text)) = text
  BY <1>3, SeqEqual
<1>5. text # <<>> => Len(text) # 0
  OBVIOUS
<1> QED
  BY <1>1, <1>2, <1>4, <1>5

LEMMA TrimRightIs ==
  ASSUME NEW S, NEW text \in Seq(S), NEW chars
  PROVE  /\ TrimRight(text, chars) \in Seq(S)
         /\ text # <<>> /\ text[Len(text)] \notin chars => TrimRight(text, chars) = text
BY ReverseIs, TrimLeftIs DEF TrimRight

LEMMA Slash == "/" \in Char
BY CharAssumption

(* A slash, and a slash before a text. *)
Rooted(text, length) == Len(text) = length /\ text[1] = "/"
Below(path, text, n) == Rooted(path, n + 1) /\ \A i \in 1..n : path[i + 1] = text[i]

LEMMA SlashIs == \E slash \in Seq(Char) : slash = <<"/">> /\ Rooted(slash, 1)
<1>1. PICK slash \in Seq(Char) : IsOne(slash, "/")
  BY Slash, OneIs
<1> QED
  BY Zenon, <1>1 DEF IsOne, Rooted

LEMMA SlashBefore ==
  ASSUME NEW slash \in Seq(Char), Rooted(slash, 1), NEW text \in Seq(Char),
         NEW n \in Nat, n = Len(text)
  PROVE  \E path \in Seq(Char) : path = slash \o text /\ Below(path, text, n)
<1>1. PICK path \in Seq(Char) : IsConcat(path, slash, text)
  BY ConcatIs
<1>2. /\ path = slash \o text
      /\ Len(path) = 1 + n /\ \A i \in 1..(1 + n) : path[i] = IF i <= 1 THEN slash[i] ELSE text[i - 1]
  BY Zenon, <1>1 DEF IsConcat, Rooted
<1>3. Len(path) = n + 1 /\ path[1] = "/"
  BY <1>2 DEF Rooted
<1>4. ASSUME NEW i \in 1..n PROVE path[i + 1] = text[i]
  <2>1. i + 1 \in 1..(1 + n) /\ ~(i + 1 <= 1) /\ (i + 1) - 1 = i
    OBVIOUS
  <2> QED
    BY <1>2, <2>1
<1>5. Rooted(path, n + 1)
  BY Zenon, <1>3 DEF Rooted
<1> QED
  BY Zenon, <1>2, <1>4, <1>5 DEF Below

(* The base path that main makes begins and ends with a slash, and has none *)
(* in between,                                                               *)
LEMMA RawBasePathIs ==
  ASSUME NEW uuid \in Seq(Char \ {"/"}) \ {<<>>}
  PROVE  \E raw \in Seq(Char), tail \in Seq(Char), n \in Nat :
           /\ n = Len(uuid) /\ raw = RawBasePath(uuid) /\ raw = <<"/">> \o tail
           /\ Len(raw) = n + 2 /\ raw[1] = "/" /\ raw[n + 2] = "/"
           /\ Len(tail) = n + 1 /\ tail[n + 1] = "/" /\ \A i \in 1..n : tail[i] = uuid[i]
<1>1. PICK n \in Nat \ {0} : n = Len(uuid)
  OBVIOUS
<1>2. uuid \in Seq(Char) /\ \A i \in 1..n : uuid[i] \in Char /\ uuid[i] # "/"
  <2>1. \A i \in 1..n : uuid[i] \in Char /\ uuid[i] # "/"
    BY <1>1
  <2> QED
    BY <1>1, <2>1
<1>3. PICK slash \in Seq(Char) : slash = <<"/">> /\ Rooted(slash, 1)
  BY SlashIs
<1>4. PICK tail \in Seq(Char) :
        /\ tail = Append(uuid, "/") /\ Len(tail) = n + 1 /\ tail[n + 1] = "/"
        /\ \A i \in 1..n : tail[i] = uuid[i]
  <2>1. PICK tail \in Seq(Char) : IsAppend(tail, uuid, "/")
    BY <1>2, Slash, AppendedIs
  <2> QED
    BY Zenon, <1>1, <2>1 DEF IsAppend
<1>5. PICK path \in Seq(Char) :
        path = slash \o uuid /\ Rooted(path, n + 1) /\ \A i \in 1..n : path[i + 1] = uuid[i]
  <2>1. PICK text \in Seq(Char), k \in Nat : text = uuid /\ k = n /\ k = Len(text)
    BY <1>1, <1>2
  <2>2. \E path \in Seq(Char) : path = slash \o text /\ Below(path, text, k)
    BY <1>3, <2>1, SlashBefore
  <2> QED
    BY Zenon, <2>1, <2>2 DEF Below
<1>6. PICK raw \in Seq(Char) :
        /\ raw = Append(path, "/") /\ Len(raw) = n + 2 /\ raw[n + 2] = "/"
        /\ \A i \in 1..(n + 1) : raw[i] = path[i]
  <2>1. (n + 1) + 1 = n + 2 /\ Len(path) = n + 1
    BY <1>5 DEF Rooted
  <2>2. PICK raw \in Seq(Char) : IsAppend(raw, path, "/")
    BY <1>5, Slash, AppendedIs
  <2> QED
    BY Zenon, <2>1, <2>2 DEF IsAppend
<1>7. PICK both \in Seq(Char) :
        /\ both = slash \o tail /\ Len(both) = n + 2 /\ both[1] = "/"
        /\ \A i \in 1..(n + 1) : both[i + 1] = tail[i]
  <2>1. PICK k \in Nat : k = n + 1 /\ k + 1 = n + 2
    OBVIOUS
  <2>2. k = Len(tail)
    BY Zenon, <1>4, <2>1
  <2>3. \E both \in Seq(Char) : both = slash \o tail /\ Below(both, tail, k)
    BY <1>3, <2>2, SlashBefore
  <2> QED
    BY Zenon, <2>1, <2>3 DEF Below, Rooted
<1>8. raw = both
  <2>1. ASSUME NEW i \in 1..(n + 2) PROVE raw[i] = both[i]
    <3>1. CASE i = 1
      BY <1>5, <1>6, <1>7, <3>1 DEF Rooted
    <3>2. CASE i = n + 2
      <4>1. n + 1 \in 1..(n + 1) /\ (n + 1) + 1 = i
        BY <3>2
      <4> QED
        BY <1>4, <1>6, <1>7, <3>2, <4>1
    <3>3. CASE i # 1 /\ i # n + 2
      <4>1. PICK k \in 1..n : k = i - 1 /\ i = k + 1
        BY <3>3
      <4>2. k + 1 \in 1..(n + 1) /\ k \in 1..(n + 1)
        OBVIOUS
      <4> QED
        BY <1>4, <1>5, <1>6, <1>7, <4>1, <4>2
    <3> QED
      BY <3>1, <3>2, <3>3
  <2> QED
    BY <1>6, <1>7, <2>1, SeqEqual
<1>9. raw = RawBasePath(uuid) /\ raw = <<"/">> \o tail /\ raw[1] = "/"
  BY Zenon, <1>3, <1>5, <1>6, <1>7, <1>8 DEF RawBasePath
<1> QED
  BY <1>1, <1>4, <1>6, <1>9

(* so that the server leaves it as it is, *)
LEMMA ServerBasePathIs ==
  ASSUME NEW uuid \in Seq(Char \ {"/"}) \ {<<>>}
  PROVE  ServerBasePath(RawBasePath(uuid)) = RawBasePath(uuid)
<1>1. PICK raw \in Seq(Char), tail \in Seq(Char), n \in Nat :
        /\ n = Len(uuid) /\ raw = RawBasePath(uuid) /\ raw = <<"/">> \o tail
        /\ Len(raw) = n + 2 /\ raw[1] = "/" /\ raw[n + 2] = "/"
        /\ Len(tail) = n + 1 /\ tail[n + 1] = "/" /\ \A i \in 1..n : tail[i] = uuid[i]
  BY RawBasePathIs
<1>2. /\ n # 0 /\ uuid \in Seq(Char) /\ uuid # <<>>
      /\ \A i \in 1..n : uuid[i] \in Char /\ uuid[i] # "/"
  <2>1. n # 0 /\ \A i \in 1..n : uuid[i] \in Char /\ uuid[i] # "/"
    BY <1>1
  <2> QED
    BY <1>1, <2>1
<1>3. TrimLeft(raw, {"/"}) = tail
  <2>1. tail # <<>> /\ tail[1] \notin {"/"}
    BY <1>1, <1>2
  <2>2. PICK char \in Char : char = "/" /\ char \in {"/"}
    BY Slash
  <2>3. raw = <<char>> \o tail
    BY Zenon, <1>1, <2>2
  <2> QED
    BY <2>1, <2>2, <2>3, TrimLeftOne
<1>4. PICK back \in Seq(Char) :
        /\ back = Reverse(uuid) /\ Len(back) = n /\ Reverse(back) = uuid
        /\ back # <<>> /\ back[1] = uuid[n] /\ \A i \in 1..n : back[i] = uuid[n - i + 1]
  <2>1. Reverse(uuid) \in Seq(Char) /\ Len(Reverse(uuid)) = n /\ Reverse(Reverse(uuid)) = uuid
          /\ Reverse(uuid) # <<>> /\ Reverse(uuid)[1] = uuid[n]
    BY <1>1, <1>2, ReverseIs
  <2>2. \A i \in 1..n : Reverse(uuid)[i] = uuid[n - i + 1]
    BY <1>1, <1>2 DEF Reverse
  <2> QED
    BY <2>1, <2>2
<1>5. PICK turned \in Seq(Char) :
        /\ turned = Reverse(tail) /\ Len(turned) = n + 1
        /\ \A i \in 1..(n + 1) : turned[i] = tail[n + 1 - i + 1]
  <2>1. Reverse(tail) \in Seq(Char) /\ Len(Reverse(tail)) = n + 1
    BY <1>1, ReverseIs
  <2>2. \A i \in 1..(n + 1) : Reverse(tail)[i] = tail[n + 1 - i + 1]
    BY <1>1 DEF Reverse
  <2> QED
    BY <2>1, <2>2
<1>6. PICK slash \in Seq(Char) : slash = <<"/">> /\ Rooted(slash, 1)
  BY SlashIs
<1>7. PICK both \in Seq(Char) :
        /\ both = slash \o back /\ Len(both) = n + 1 /\ both[1] = "/"
        /\ \A i \in 1..n : both[i + 1] = back[i]
  <2>1. PICK both \in Seq(Char) :
          both = slash \o back /\ Below(both, back, n)
    BY <1>4, <1>6, SlashBefore
  <2> QED
    BY Zenon, <2>1 DEF Below, Rooted
<1>8. turned = both
  <2>1. ASSUME NEW i \in 1..(n + 1) PROVE turned[i] = both[i]
    <3>1. CASE i = 1
      <4>1. n + 1 - i + 1 = n + 1
        BY <3>1
      <4> QED
        BY <1>1, <1>5, <1>7, <3>1, <4>1
    <3>2. CASE i # 1
      <4>1. PICK k \in 1..n : k = i - 1 /\ i = k + 1
        BY <3>2
      <4>2. PICK j \in 1..n : j = n - k + 1 /\ n + 1 - i + 1 = j
        BY <4>1
      <4>3. turned[i] = tail[j] /\ tail[j] = uuid[j] /\ both[i] = back[k] /\ back[k] = uuid[j]
        BY <1>1, <1>4, <1>5, <1>7, <4>1, <4>2
      <4> QED
        BY <4>3
    <3> QED
      BY <3>1, <3>2
  <2> QED
    BY <1>5, <1>7, <2>1, SeqEqual
<1>9. TrimLeft(turned, {"/"}) = back
  <2>1. n \in 1..n
    BY <1>2
  <2>2. back[1] \notin {"/"}
    BY <1>2, <1>4, <2>1
  <2>3. PICK char \in Char : char = "/" /\ char \in {"/"}
    BY Slash
  <2>4. turned = <<char>> \o back
    BY Zenon, <1>6, <1>7, <1>8, <2>3
  <2>5. back # <<>>
    BY <1>4
  <2> QED
    BY <2>2, <2>3, <2>4, <2>5, TrimLeftOne
<1>10. Trim(raw, {"/"}) = uuid
  BY <1>3, <1>4, <1>5, <1>9 DEF Trim, TrimRight
<1>11. <<"/">> \o uuid # <<"/">>
  <2>1. PICK path \in Seq(Char) : path = slash \o uuid /\ Rooted(path, n + 1)
    <3>1. \E path \in Seq(Char) : path = slash \o uuid /\ Below(path, uuid, n)
      BY <1>1, <1>2, <1>6, SlashBefore
    <3> QED
      BY Zenon, <3>1 DEF Below
  <2>2. path # slash
    <3>1. Len(path) = n + 1 /\ Len(slash) = 1
      BY Zenon, <1>6, <2>1 DEF Rooted
    <3>2. Len(path) # Len(slash)
      <4>1. n + 1 # 1
        BY <1>2
      <4> QED
        BY Zenon, <3>1, <4>1
    <3> QED
      BY Zenon, <3>2
  <2> QED
    BY Zenon, <1>6, <2>1, <2>2
<1> QED
  BY <1>1, <1>10, <1>11 DEF ServerBasePath, RawBasePath

(* and the page too. *)
LEMMA BasePathIs ==
  ASSUME NEW base \in Seq(Char), base # <<>>, base[1] = "/", base[Len(base)] = "/"
  PROVE  NormalizeBasePath(base) = base
<1>1. Trim(base, PageSpace) = base
  <2> "/" \notin PageSpace
    BY DEF PageSpace
  <2>1. TrimLeft(base, PageSpace) = base
    BY TrimLeftIs
  <2>2. TrimRight(base, PageSpace) = base
    BY TrimRightIs
  <2> QED
    BY <2>1, <2>2 DEF Trim
<1>2. IsPrefix(<<"/">>, base)
  BY DEF IsPrefix
<1>3. IsSuffix(<<"/">>, base)
  <2>1. Reverse(<<"/">>) = <<"/">>
    BY DEF Reverse
  <2>2. Reverse(base) \in Seq(Char) /\ Reverse(base) # <<>> /\ Reverse(base)[1] = "/"
    BY ReverseIs
  <2> QED
    BY <2>1, <2>2 DEF IsSuffix, IsPrefix
<1> QED
  BY <1>1, <1>2, <1>3 DEF NormalizeBasePath

(* A request for a path below the base path reaches the mux without it. *)
LEMMA MuxPathIs ==
  ASSUME NEW base \in Seq(Char), NEW rest \in Seq(Char),
         base # <<>>, base[Len(base)] = "/"
  PROVE  MuxPath(base, base \o rest) = <<"/">> \o rest
<1>1. IsSuffix(<<"/">>, base) /\ IsPrefix(base, base \o rest)
  <2>1. Reverse(<<"/">>) = <<"/">>
    BY DEF Reverse
  <2>2. Reverse(base) \in Seq(Char) /\ Reverse(base) # <<>> /\ Reverse(base)[1] = "/"
    BY ReverseIs
  <2>3. IsSuffix(<<"/">>, base)
    BY <2>1, <2>2 DEF IsSuffix, IsPrefix
  <2>4. Len(base) \in Nat /\ Len(base \o rest) = Len(base) + Len(rest) /\ Len(rest) \in Nat
    BY ConcatProperties
  <2>5. SubSeq(base \o rest, 1, Len(base)) = SubSeq(base, 1, Len(base))
    BY <2>4, SubSeqOfConcat1
  <2> QED
    BY <2>3, <2>4, <2>5 DEF IsPrefix
<1>2. PICK prefix \in Seq(Char) : prefix = Front(base) /\ base = prefix \o <<"/">>
  <2>1. Len(base) \in Nat \ {0}
    BY <1>1
  <2>2. Front(base) \in Seq(Char)
    BY <2>1 DEF Front
  <2>3. PICK one \in Seq(Char) : IsOne(one, "/")
    BY Slash, OneIs
  <2>4. PICK prefix \in Seq(Char) : prefix = Front(base) /\ prefix = SubSeq(base, 1, Len(base) - 1)
    BY <2>2 DEF Front
  <2>5. PICK m \in Nat : m = Len(base) - 1 /\ Len(base) = m + 1 /\ m <= Len(base)
    <3>1. PICK l \in Nat \ {0} : l = Len(base)
      BY Zenon, <2>1
    <3>2. l - 1 \in Nat /\ l = (l - 1) + 1 /\ l - 1 <= l
      OBVIOUS
    <3> QED
      BY Zenon, <3>1, <3>2
  <2>6. Len(prefix) = m /\ \A i \in 1..m : prefix[i] = base[i]
    <3>1. Len(SubSeq(base, 1, m)) = m /\ Starts(SubSeq(base, 1, m), base)
      BY <2>5, CutIs
    <3>2. prefix = SubSeq(base, 1, m)
      BY Zenon, <2>4, <2>5
    <3> QED
      BY Zenon, <3>1, <3>2 DEF Starts
  <2>7. PICK both \in Seq(Char) : IsConcat(both, prefix, one)
    BY ConcatIs
  <2>8. /\ both = prefix \o one /\ Len(both) = m + 1
        /\ \A i \in 1..(m + 1) : both[i] = IF i <= m THEN prefix[i] ELSE one[i - m]
    BY <2>3, <2>6, <2>7 DEF IsConcat, IsOne
  <2>9. ASSUME NEW i \in 1..(m + 1) PROVE both[i] = base[i]
    <3>1. CASE i <= m
      BY <2>6, <2>8, <3>1
    <3>2. CASE i = m + 1
      <4>1. ~(i <= m) /\ i - m = 1
        BY <3>2
      <4> QED
        BY <2>3, <2>5, <2>8, <3>2, <4>1 DEF IsOne
    <3> QED
      BY <3>1, <3>2
  <2>10. both = base
    BY <2>5, <2>8, <2>9, SeqEqual
  <2> QED
    BY Zenon, <2>3, <2>4, <2>8, <2>10 DEF IsOne
<1>3. PICK right \in Seq(Char) :
        right = <<"/">> \o rest /\ Len(right) \in Nat
  <2>1. <<"/">> \in Seq(Char)
    BY Slash
  <2> DEFINE slash == <<"/">>
  <2> HIDE DEF slash
  <2>2. slash \o rest \in Seq(Char)
    BY <2>1, ConcatProperties DEF slash
  <2>3. <<"/">> \o rest \in Seq(Char)
    BY <2>2 DEF slash
  <2>4. \A s \in Seq(Char) : Len(s) \in Nat
    OBVIOUS
  <2> QED
    BY <2>3, <2>4
<1>4. base \o rest = prefix \o right
  <2>1. <<"/">> \in Seq(Char)
    BY Slash
  <2>2. PICK slash \in Seq(Char) : slash = <<"/">>
    BY Zenon, <2>1
  <2>3. \A t, u \in Seq(Char) : (prefix \o t) \o u = prefix \o (t \o u)
    BY SMTT(30), ConcatAssociative
  <2>4. (prefix \o slash) \o rest = prefix \o (slash \o rest)
    BY Zenon, <2>3
  <2> QED
    BY Zenon, <1>2, <1>3, <2>2, <2>4
<1>5. Len(prefix) \in Nat /\ Len(prefix \o right) = Len(prefix) + Len(right)
  BY ConcatProperties
<1>7. SubSeq(prefix \o right, Len(prefix) + 1, Len(prefix) + Len(right)) = SubSeq(right, 1, Len(right))
  BY <1>3, <1>5, SubSeqOfConcat2
<1>8. SubSeq(right, 1, Len(right)) = right
  BY SubSeqFull
<1> QED
  BY <1>1, <1>2, <1>3, <1>4, <1>5, <1>7, <1>8 DEF MuxPath

-----------------------------------------------------------------------------
(* The list of resolvers. *)

PieceReaders(C) == [pieces : Seq(Seq(C)), piece : Seq(C)]
NoPieces == [pieces |-> <<>>, piece |-> <<>>]

(* What Pieces reads before its end. *)
PiecesRead(text, separators) ==
  LET Read(s, char) == ReadPiece(s, char, separators)
  IN FoldLeft(Read, NoPieces, text)

(* One character after the other. *)
ReadsPieces(acc, text, separators, n) ==
  /\ acc[0] = NoPieces /\ PiecesRead(text, separators) = acc[n]
  /\ \A k \in 1..n : acc[k] = ReadPiece(acc[k - 1], text[k], separators)

LEMMA PieceSteps ==
  ASSUME NEW C, NEW text \in Seq(C), NEW separators
  PROVE  \E acc \in [0..Len(text) -> PieceReaders(C)] : ReadsPieces(acc, text, separators, Len(text))
<1> DEFINE n == Len(text)
           X == PieceReaders(C)
           base == NoPieces
           Eq(it) == it = [t \in SUBSET (1..n) |->
                             IF t = {} THEN base
                             ELSE ReadPiece(it[t \ {Max(t)}], text[Max(t)], separators)]
           iter == CHOOSE it : Eq(it)
<1>1. n \in Nat /\ DOMAIN text = 1..n /\ \A k \in 1..n : text[k] \in C
  OBVIOUS
<1>2. PiecesRead(text, separators) = iter[1..n]
  BY <1>1 DEF PiecesRead, FoldLeft, MapThenFoldSet
<1>3. base \in X /\ \A y \in X, e \in C : ReadPiece(y, e, separators) \in X
  <2>1. \A s \in Seq(Seq(C)), e \in Seq(C) : Append(s, e) \in Seq(Seq(C))
    BY AppendProperties
  <2>2. \A s \in Seq(C), e \in C : Append(s, e) \in Seq(C)
    BY AppendProperties
  <2>3. <<>> \in Seq(C) /\ <<>> \in Seq(Seq(C))
    OBVIOUS
  <2> QED
    BY <2>1, <2>2, <2>3 DEF NoPieces, PieceReaders, ReadPiece
<1> HIDE DEF X, base
<1>4. PICK step \in [1..n -> [X -> X]] :
        \A k \in 1..n, y \in X : step[k][y] = ReadPiece(y, text[k], separators)
  <2>1. [k \in 1..n |-> [y \in X |-> ReadPiece(y, text[k], separators)]] \in [1..n -> [X -> X]]
    BY <1>1, <1>3
  <2> QED
    BY <2>1
<1>5. PICK it \in [SUBSET (1..n) -> X] : Iterates(it, base, step, n)
  BY <1>1, <1>3, <1>4, Iteration
<1>6. Eq(it)
  <2>1. ASSUME NEW t \in SUBSET (1..n), t # {}
        PROVE  it[t] = ReadPiece(it[t \ {Max(t)}], text[Max(t)], separators)
    <3>1. Max(t) \in 1..n /\ t \ {Max(t)} \in SUBSET (1..n)
      BY <1>1, <2>1, IterationPlaces
    <3>2. it[t] = step[Max(t)][it[t \ {Max(t)}]]
      BY <1>5, <2>1 DEF Iterates
    <3> QED
      BY <1>4, <1>5, <3>1, <3>2
  <2> QED
    BY <1>5, <2>1 DEF Iterates
<1>7. Eq(iter)
  BY <1>6
<1> HIDE DEF iter
<1>8. iter[1..0] = base
  BY <1>1, <1>7, IterationPlaces
<1>9. ASSUME NEW k \in 1..n
      PROVE  iter[1..k] = ReadPiece(iter[1..(k-1)], text[k], separators)
  <2>1. 1..k # {} /\ 1..k \in SUBSET (1..n) /\ Max(1..k) = k /\ (1..k) \ {k} = 1..(k-1)
    BY <1>1, IterationPlaces
  <2>2. iter[1..k] = ReadPiece(iter[(1..k) \ {Max(1..k)}], text[Max(1..k)], separators)
    BY <1>7, <2>1
  <2> QED
    BY <2>1, <2>2
<1>10. \A k \in 0..n : iter[1..k] \in X
  <2>1. iter[1..0] \in X
    BY <1>3, <1>8
  <2>2. \A k \in 1..n : iter[1..(k-1)] \in X => iter[1..k] \in X
    BY <1>1, <1>3, <1>9
  <2> QED
    BY <1>1, <2>1, <2>2, StepsStay
<1> DEFINE acc == [k \in 0..n |-> iter[1..k]]
<1>11. acc \in [0..n -> X] /\ acc[0] = base /\ acc[n] = iter[1..n]
         /\ \A k \in 1..n : acc[k] = iter[1..k] /\ acc[k - 1] = iter[1..(k-1)]
  BY <1>1, <1>8, <1>10
<1>12. \A k \in 1..n : acc[k] = ReadPiece(acc[k - 1], text[k], separators)
  BY <1>9, <1>11
<1> HIDE DEF acc
<1>13. ReadsPieces(acc, text, separators, n)
  BY Zenon, <1>2, <1>11, <1>12 DEF base, ReadsPieces
<1> QED
  BY Zenon, <1>11, <1>13 DEF X

(* The pieces have no other characters than the text. *)
LEMMA PiecesType ==
  ASSUME NEW C, NEW text \in Seq(C), NEW separators
  PROVE  Pieces(text, separators) \in Seq(Seq(C))
<1>1. PiecesRead(text, separators) \in PieceReaders(C)
  <2>1. PICK acc \in [0..Len(text) -> PieceReaders(C)] :
          PiecesRead(text, separators) = acc[Len(text)]
    BY PieceSteps DEF ReadsPieces
  <2>2. Len(text) \in 0..Len(text)
    OBVIOUS
  <2> QED
    BY <2>1, <2>2
<1>2. PICK end \in PieceReaders(C) : end = PiecesRead(text, separators)
  BY <1>1
<1>3. Pieces(text, separators)
        = IF end.piece = <<>> THEN end.pieces ELSE Append(end.pieces, end.piece)
  BY <1>2 DEF Pieces, PiecesRead, NoPieces
<1>4. PICK pieces \in Seq(Seq(C)), piece \in Seq(C) : pieces = end.pieces /\ piece = end.piece
  BY DEF PieceReaders
<1>5. Append(pieces, piece) \in Seq(Seq(C))
  BY AppendProperties
<1> QED
  BY <1>3, <1>4, <1>5

(* Only separators that the text has matter. *)
LEMMA SamePieces ==
  ASSUME NEW C, NEW text \in Seq(C), NEW one, NEW other,
         \A char \in C : char \in one <=> char \in other
  PROVE  Pieces(text, one) = Pieces(text, other)
<1>1. PICK n \in Nat : n = Len(text) /\ \A k \in 1..n : text[k] \in C
  OBVIOUS
<1>2. PICK acc \in [0..n -> PieceReaders(C)] :
        /\ acc[0] = NoPieces /\ PiecesRead(text, one) = acc[n]
        /\ \A k \in 1..n : acc[k] = ReadPiece(acc[k - 1], text[k], one)
  <2>1. \E acc \in [0..Len(text) -> PieceReaders(C)] : ReadsPieces(acc, text, one, Len(text))
    BY PieceSteps
  <2> QED
    BY Zenon, <1>1, <2>1 DEF ReadsPieces
<1>3. PICK bcc \in [0..n -> PieceReaders(C)] :
        /\ bcc[0] = NoPieces /\ PiecesRead(text, other) = bcc[n]
        /\ \A k \in 1..n : bcc[k] = ReadPiece(bcc[k - 1], text[k], other)
  <2>1. \E bcc \in [0..Len(text) -> PieceReaders(C)] : ReadsPieces(bcc, text, other, Len(text))
    BY PieceSteps
  <2> QED
    BY Zenon, <1>1, <2>1 DEF ReadsPieces
<1> DEFINE S == {k \in 0..n : acc[k] = bcc[k]}
<1>4. 0 \in S
  BY <1>2, <1>3
<1>5. ASSUME NEW k \in 1..n, k - 1 \in S PROVE k \in S
  <2>1. acc[k - 1] = bcc[k - 1]
    BY <1>5
  <2>2. text[k] \in one <=> text[k] \in other
    BY <1>1
  <2>3. acc[k] = bcc[k]
    BY <1>2, <1>3, <2>1, <2>2 DEF ReadPiece
  <2> QED
    BY <2>3
<1>6. n \in S
  <2> HIDE DEF S
  <2>1. \A k \in 0..n : k \in S
    BY <1>4, <1>5, InductionTo
  <2> QED
    BY <2>1
<1>7. PiecesRead(text, one) = PiecesRead(text, other)
  BY <1>2, <1>3, <1>6
<1> QED
  BY <1>7 DEF Pieces, PiecesRead, NoPieces

(* The page counts as many entries as the server finds tokens that are not *)
(* blank, in a text without the characters that only one of them takes for *)
(* a separator or for white space.                                         *)
LEMMA EntriesAreTokens ==
  ASSUME NEW text \in Seq(Char \ {"cr", "bom", "nel"})
  PROVE  LET tokens == NameserverTokens(text)
         IN EntryCount(text)
              = Cardinality({i \in DOMAIN tokens : ~Blank(tokens[i], ServerSpace)})
<1> DEFINE C == Char \ {"cr", "bom", "nel"}
           pieces == Pieces(text, PageSeparators)
           tokens == NameserverTokens(text)
<1>1. \A char \in C : char \in PageSeparators <=> char \in ServerSeparators
  BY DEF PageSeparators, ServerSeparators
<1>2. \A char \in C : char \in PageSpace <=> char \in ServerSpace
  BY DEF PageSpace, ServerSpace
<1>3. pieces = Pieces(text, ServerSeparators)
  BY <1>1, SamePieces
<1>4. ASSUME NEW piece \in Seq(C)
      PROVE  Blank(piece, PageSpace) <=> Blank(piece, ServerSpace)
  <2>1. ToSet(piece) \subseteq C
    BY DEF ToSet
  <2> QED
    BY <1>2, <2>1 DEF Blank
<1>5. pieces \in Seq(Seq(C))
  BY PiecesType
<1> HIDE DEF C, pieces
<1>6. \A i \in DOMAIN pieces : Blank(pieces[i], PageSpace) <=> Blank(pieces[i], ServerSpace)
  BY <1>4, <1>5
<1>7. EntryCount(text) = Cardinality({i \in DOMAIN pieces : ~Blank(pieces[i], ServerSpace)})
  <2>1. {i \in DOMAIN pieces : ~Blank(pieces[i], PageSpace)}
          = {i \in DOMAIN pieces : ~Blank(pieces[i], ServerSpace)}
    BY <1>6
  <2> QED
    BY <2>1 DEF EntryCount, pieces
<1>8. CASE ~Blank(text, ServerSpace)
  <2>1. tokens = pieces
    BY <1>3, <1>8 DEF NameserverTokens
  <2> QED
    BY <1>7, <2>1
<1>9. CASE Blank(text, ServerSpace)
  <2>1. text \in Seq(ServerSpace)
    <3>1. PICK n \in Nat : n = Len(text) /\ DOMAIN text = 1..n
      OBVIOUS
    <3>2. \A i \in 1..n : text[i] \in ServerSpace
      BY <1>9, <3>1 DEF Blank, ToSet
    <3>3. text = [i \in 1..n |-> text[i]]
      BY <3>1
    <3> QED
      BY <3>2, <3>3
  <2>2. Pieces(text, ServerSeparators) \in Seq(Seq(ServerSpace))
    BY <2>1, PiecesType
  <2>3. pieces \in Seq(Seq(ServerSpace))
    BY <1>3, <2>2
  <2>4. ASSUME NEW i \in DOMAIN pieces PROVE Blank(pieces[i], ServerSpace)
    <3>1. PICK piece \in Seq(ServerSpace) : piece = pieces[i]
      BY <2>3
    <3> QED
      BY <3>1 DEF Blank, ToSet
  <2>5. {i \in DOMAIN pieces : ~Blank(pieces[i], ServerSpace)} = {}
    BY <2>4
  <2>6. tokens = <<>> /\ DOMAIN tokens = {}
    BY <1>9 DEF NameserverTokens
  <2>7. {i \in DOMAIN tokens : ~Blank(tokens[i], ServerSpace)} = {}
    BY <2>6
  <2> QED
    BY <1>7, <2>5, <2>7
<1> QED
  BY <1>8, <1>9

-----------------------------------------------------------------------------
(* The selected servers. *)

Server == Address \X Nat
NamedUpTo(entries, k) == {NormalizeNameServer(entries[i]) : i \in 1..k} \ {Rejected}

LEMMA NormalizeType ==
  ASSUME NEW entry \in Entry
  PROVE  /\ NormalizeNameServer(entry) # Rejected => NormalizeNameServer(entry) \in Server
         /\ entry.address \in Public => NormalizeNameServer(entry) # Rejected
<1>1. entry.address \in Address /\ entry.port \in Nat
  BY DEF Entry
<1>2. \A p \in Nat : <<entry.address, p>> \in Server
  BY <1>1 DEF Server
<1>3. \A p \in Nat : <<entry.address, p>> # <<>>
  OBVIOUS
<1> QED
  BY <1>1, <1>2, <1>3 DEF NormalizeNameServer, Rejected

LEMMA AppendIs ==
  ASSUME NEW S, NEW s \in Seq(S), NEW e \in S
  PROVE  /\ Append(s, e) \in Seq(S) /\ Len(Append(s, e)) = Len(s) + 1
         /\ \A i \in 1..Len(s) : Append(s, e)[i] = s[i]
         /\ Append(s, e)[Len(s) + 1] = e
         /\ ToSet(Append(s, e)) = ToSet(s) \cup {e}
         /\ Distinct(s) /\ e \notin ToSet(s) => Distinct(Append(s, e))
<1>1. PICK t \in Seq(S) : t = Append(s, e)
  BY AppendProperties
<1>2. Len(t) = Len(s) + 1 /\ t[Len(s) + 1] = e /\ \A i \in 1..Len(s) : t[i] = s[i]
  BY <1>1, AppendProperties
<1>3. Len(s) \in Nat /\ DOMAIN s = 1..Len(s) /\ DOMAIN t = 1..(Len(s) + 1)
  BY <1>2
<1>4. ToSet(t) = ToSet(s) \cup {e}
  BY <1>2, <1>3 DEF ToSet
<1>5. ASSUME Distinct(s), e \notin ToSet(s) PROVE Distinct(t)
  <2> SUFFICES ASSUME NEW i \in DOMAIN t, NEW j \in DOMAIN t, t[i] = t[j] PROVE i = j
    BY DEF Distinct
  <2>1. \A k \in 1..Len(s) : s[k] # e
    BY <1>3, <1>5 DEF ToSet
  <2> QED
    BY <1>2, <1>3, <1>5, <2>1 DEF Distinct
<1> QED
  BY <1>1, <1>2, <1>4, <1>5

LEMMA DistinctCount ==
  ASSUME NEW S, NEW s \in Seq(S), Distinct(s)
  PROVE  IsFiniteSet(ToSet(s)) /\ Cardinality(ToSet(s)) = Len(s)
<1>1. Len(s) \in Nat /\ DOMAIN s = 1..Len(s) /\ s \in [1..Len(s) -> S]
  OBVIOUS
<1>2. IsFiniteSet(1..Len(s)) /\ Cardinality(1..Len(s)) = Len(s)
  <2>1. PICK n \in Nat : n = Len(s)
    BY <1>1
  <2>2. IsFiniteSet(1..n) /\ Cardinality(1..n) = IF 1 > n THEN 0 ELSE n - 1 + 1
    BY FS_Interval
  <2> QED
    BY <2>1, <2>2
<1>3. s \in [1..Len(s) -> ToSet(s)]
  BY <1>1 DEF ToSet
<1>4. s \in Surjection(1..Len(s), ToSet(s))
  BY <1>1, <1>3 DEF Surjection, ToSet
<1>5. s \in Injection(1..Len(s), ToSet(s))
  BY <1>1, <1>3 DEF Injection, IsInjective, Distinct
<1> QED
  BY <1>2, <1>4, <1>5, FS_Surjection

(* Of two beginnings of a list, one has the elements of the other. *)
LEMMA BeginningsNested ==
  ASSUME NEW S, NEW a \in Seq(S), NEW b \in Seq(S), NEW t \in Seq(S), Starts(a, t), Starts(b, t)
  PROVE  ToSet(a) \subseteq ToSet(b) \/ ToSet(b) \subseteq ToSet(a)
<1>1. Len(a) \in Nat /\ Len(b) \in Nat /\ DOMAIN a = 1..Len(a) /\ DOMAIN b = 1..Len(b)
  OBVIOUS
<1>2. CASE Len(a) <= Len(b)
  BY <1>1, <1>2 DEF Starts, ToSet
<1>3. CASE Len(b) <= Len(a)
  BY <1>1, <1>3 DEF Starts, ToSet
<1> QED
  BY <1>1, <1>2, <1>3

(* What appendUnique has, one entry after the other. *)
LEMMA ServerSteps ==
  ASSUME NEW entries \in Seq(Entry)
  PROVE  \E acc \in [0..Len(entries) -> Seq(Server)] :
           /\ acc[0] = <<>> /\ AppendUnique(entries) = acc[Len(entries)]
           /\ \A k \in 1..Len(entries) : acc[k] = AddServer(acc[k - 1], entries[k])
<1> DEFINE n == Len(entries)
           X == Seq(Server)
           base == <<>>
           Eq(it) == it = [t \in SUBSET (1..n) |->
                             IF t = {} THEN base ELSE AddServer(it[t \ {Max(t)}], entries[Max(t)])]
           iter == CHOOSE it : Eq(it)
<1>1. n \in Nat /\ DOMAIN entries = 1..n /\ \A k \in 1..n : entries[k] \in Entry
  OBVIOUS
<1>2. AppendUnique(entries) = iter[1..n]
  BY <1>1 DEF AppendUnique, FoldLeft, MapThenFoldSet
<1>3. base \in X /\ \A y \in X, e \in Entry : AddServer(y, e) \in X
  <2>1. \A s \in Seq(Server), e \in Server : Append(s, e) \in Seq(Server)
    BY AppendProperties
  <2> QED
    BY <2>1, NormalizeType DEF AddServer
<1> HIDE DEF X, base
<1>4. PICK step \in [1..n -> [X -> X]] :
        \A k \in 1..n, y \in X : step[k][y] = AddServer(y, entries[k])
  <2>1. [k \in 1..n |-> [y \in X |-> AddServer(y, entries[k])]] \in [1..n -> [X -> X]]
    BY <1>1, <1>3
  <2> QED
    BY <2>1
<1>5. PICK it \in [SUBSET (1..n) -> X] : Iterates(it, base, step, n)
  BY <1>1, <1>3, <1>4, Iteration
<1>6. Eq(it)
  <2>1. ASSUME NEW t \in SUBSET (1..n), t # {}
        PROVE  it[t] = AddServer(it[t \ {Max(t)}], entries[Max(t)])
    <3>1. Max(t) \in 1..n /\ t \ {Max(t)} \in SUBSET (1..n)
      BY <1>1, <2>1, IterationPlaces
    <3>2. it[t] = step[Max(t)][it[t \ {Max(t)}]]
      BY <1>5, <2>1 DEF Iterates
    <3> QED
      BY <1>4, <1>5, <3>1, <3>2
  <2> QED
    BY <1>5, <2>1 DEF Iterates
<1>7. Eq(iter)
  BY <1>6
<1> HIDE DEF iter
<1>8. iter[1..0] = base
  BY <1>1, <1>7, IterationPlaces
<1>9. ASSUME NEW k \in 1..n PROVE iter[1..k] = AddServer(iter[1..(k-1)], entries[k])
  <2>1. 1..k # {} /\ 1..k \in SUBSET (1..n) /\ Max(1..k) = k /\ (1..k) \ {k} = 1..(k-1)
    BY <1>1, IterationPlaces
  <2>2. iter[1..k] = AddServer(iter[(1..k) \ {Max(1..k)}], entries[Max(1..k)])
    BY <1>7, <2>1
  <2> QED
    BY <2>1, <2>2
<1>10. \A k \in 0..n : iter[1..k] \in X
  <2>1. iter[1..0] \in X
    BY <1>3, <1>8
  <2>2. \A k \in 1..n : iter[1..(k-1)] \in X => iter[1..k] \in X
    BY <1>1, <1>3, <1>9
  <2> QED
    BY <1>1, <2>1, <2>2, StepsStay
<1> DEFINE acc == [k \in 0..n |-> iter[1..k]]
<1>11. acc \in [0..n -> X] /\ acc[0] = base /\ acc[n] = iter[1..n]
         /\ \A k \in 1..n : acc[k] = iter[1..k] /\ acc[k - 1] = iter[1..(k-1)]
  BY <1>1, <1>8, <1>10
<1>12. \A k \in 1..n : acc[k] = AddServer(acc[k - 1], entries[k])
  BY <1>9, <1>11
<1> HIDE DEF acc
<1> QED
  BY <1>2, <1>11, <1>12 DEF X, base

(* What appendUnique has after each entry: every server named so far, once, *)
(* in front of those that follow.                                           *)
LEMMA UniqueServers ==
  ASSUME NEW entries \in Seq(Entry)
  PROVE  \E acc \in [0..Len(entries) -> Seq(Server)] :
           /\ AppendUnique(entries) = acc[Len(entries)]
           /\ \A k \in 0..Len(entries) : /\ ToSet(acc[k]) = NamedUpTo(entries, k)
                                         /\ Distinct(acc[k])
                                         /\ Starts(acc[k], acc[Len(entries)])
<1> DEFINE n == Len(entries)
<1>1. n \in Nat /\ \A k \in 1..n : entries[k] \in Entry
  OBVIOUS
<1>2. PICK acc \in [0..n -> Seq(Server)] :
        /\ acc[0] = <<>> /\ AppendUnique(entries) = acc[n]
        /\ \A k \in 1..n : acc[k] = AddServer(acc[k - 1], entries[k])
  BY ServerSteps
<1> DEFINE S == {k \in 0..n : /\ ToSet(acc[k]) = NamedUpTo(entries, k) /\ Distinct(acc[k])
                              /\ \A m \in 0..k : Starts(acc[m], acc[k])}
<1>3. 0 \in S
  <2>1. ToSet(acc[0]) = {} /\ Distinct(acc[0]) /\ Starts(acc[0], acc[0])
    BY <1>2 DEF ToSet, Distinct, Starts
  <2>2. NamedUpTo(entries, 0) = {}
    BY DEF NamedUpTo
  <2> QED
    BY <1>1, <2>1, <2>2
<1>4. ASSUME NEW k \in 1..n, k - 1 \in S
      PROVE  k \in S
  <2>1. PICK old \in Seq(Server), new \in Seq(Server), entry \in Entry :
          /\ old = acc[k - 1] /\ new = acc[k] /\ entry = entries[k]
          /\ new = AddServer(old, entry)
    BY <1>1, <1>2
  <2>2. /\ ToSet(old) = NamedUpTo(entries, k - 1) /\ Distinct(old)
        /\ \A m \in 0..(k-1) : Starts(acc[m], old)
    BY <1>4, <2>1
  <2> DEFINE server == NormalizeNameServer(entry)
  <2>3. NamedUpTo(entries, k) = (NamedUpTo(entries, k - 1) \cup {server}) \ {Rejected}
    <3>1. 1..k = 1..(k-1) \cup {k}
      BY <1>1
    <3>2. {NormalizeNameServer(entries[i]) : i \in 1..k}
            = {NormalizeNameServer(entries[i]) : i \in 1..(k-1)} \cup {server}
      BY <2>1, <3>1
    <3> QED
      BY <3>2, Zenon DEF NamedUpTo
  <2>4. new = IF server = Rejected \/ server \in ToSet(old) THEN old ELSE Append(old, server)
    BY <2>1 DEF AddServer
  <2>5. server # Rejected => server \in Server
    BY NormalizeType
  <2>6. Rejected \notin NamedUpTo(entries, k - 1)
    BY DEF NamedUpTo
  <2> HIDE DEF server
  <2>7. ToSet(new) = NamedUpTo(entries, k) /\ Distinct(new) /\ Starts(old, new) /\ Starts(new, new)
    <3>1. CASE server = Rejected \/ server \in ToSet(old)
      BY <2>2, <2>3, <2>4, <2>6, <3>1 DEF Starts
    <3>2. CASE server # Rejected /\ server \notin ToSet(old)
      <4>1. server \in Server /\ new = Append(old, server)
        BY <2>4, <2>5, <3>2
      <4>2. /\ Len(new) = Len(old) + 1 /\ \A i \in 1..Len(old) : new[i] = old[i]
            /\ ToSet(new) = ToSet(old) \cup {server} /\ Distinct(new)
        BY <2>2, <3>2, <4>1, AppendIs
      <4> QED
        BY <2>2, <2>3, <2>6, <3>2, <4>2 DEF Starts
    <3> QED
      BY <3>1, <3>2
  <2>8. \A m \in 0..k : Starts(acc[m], new)
    <3> SUFFICES ASSUME NEW m \in 0..k PROVE Starts(acc[m], new)
      OBVIOUS
    <3>1. CASE m = k
      BY <2>1, <2>7, <3>1
    <3>2. CASE m # k
      <4>1. m \in 0..(k-1) /\ m \in 0..n
        BY <1>1, <3>2
      <4>2. PICK first \in Seq(Server) : first = acc[m]
        BY <4>1
      <4>3. Starts(first, old)
        BY <2>2, <4>1, <4>2
      <4> QED
        BY <2>7, <4>2, <4>3 DEF Starts
    <3> QED
      BY <3>1, <3>2
  <2>9. k \in 0..n
    OBVIOUS
  <2>10. ToSet(acc[k]) = NamedUpTo(entries, k) /\ Distinct(acc[k])
           /\ \A m \in 0..k : Starts(acc[m], acc[k])
    BY <2>1, <2>7, <2>8
  <2> QED
    BY <2>9, <2>10
<1>5. \A k \in 0..n : k \in S
  <2> HIDE DEF S
  <2> QED
    BY <1>1, <1>3, <1>4, InductionTo
<1>6. \A k \in 0..n : ToSet(acc[k]) = NamedUpTo(entries, k) /\ Distinct(acc[k]) /\ Starts(acc[k], acc[n])
  BY <1>1, <1>5
<1> QED
  BY <1>2, <1>6

(* The servers of three lists in a row, those of each in front of the next. *)
AreMerged(first, second, merged, a, b, c) ==
  /\ merged = AppendUnique(a \o b \o c)
  /\ Distinct(merged) /\ Starts(first, merged) /\ Starts(second, merged)
  /\ ToSet(first) = NamedUpTo(a, Len(a))
  /\ ToSet(second) = NamedUpTo(a, Len(a)) \cup NamedUpTo(b, Len(b))
  /\ ToSet(merged) = NamedUpTo(a, Len(a)) \cup NamedUpTo(b, Len(b)) \cup NamedUpTo(c, Len(c))

LEMMA MergedServers ==
  ASSUME NEW a \in Seq(Entry), NEW b \in Seq(Entry), NEW c \in Seq(Entry)
  PROVE  \E first \in Seq(Server), second \in Seq(Server), merged \in Seq(Server) :
           AreMerged(first, second, merged, a, b, c)
<1>1. PICK ab \in Seq(Entry) : IsConcat(ab, a, b)
  BY ConcatIs
<1>2. PICK abc \in Seq(Entry) : IsConcat(abc, ab, c)
  BY ConcatIs
<1>3. PICK l \in Nat, m \in Nat, n \in Nat : l = Len(a) /\ m = Len(b) /\ n = Len(c)
  OBVIOUS
<1>4. PICK acc \in [0..Len(abc) -> Seq(Server)] :
        /\ AppendUnique(abc) = acc[Len(abc)]
        /\ \A k \in 0..Len(abc) : /\ ToSet(acc[k]) = NamedUpTo(abc, k)
                                  /\ Distinct(acc[k]) /\ Starts(acc[k], acc[Len(abc)])
  BY UniqueServers
<1>5. NamedUpTo(abc, l) = NamedUpTo(a, l)
  <2>1. \A i \in 1..l : abc[i] = a[i]
    BY <1>1, <1>2, <1>3 DEF IsConcat
  <2> QED
    BY <2>1 DEF NamedUpTo
<1>6. NamedUpTo(abc, l + m) = NamedUpTo(a, l) \cup NamedUpTo(b, m)
  <2>1. \A i \in 1..l : i \in 1..(l + m) /\ abc[i] = a[i]
    BY <1>1, <1>2, <1>3 DEF IsConcat
  <2>2. \A i \in 1..m : i + l \in 1..(l + m) /\ abc[i + l] = b[i]
    BY <1>1, <1>2, <1>3 DEF IsConcat
  <2>3. \A i \in 1..(l + m) : i \in 1..l \/ (i - l \in 1..m /\ abc[i] = b[i - l])
    BY <1>1, <1>2, <1>3 DEF IsConcat
  <2>4. \A i \in 1..l : NormalizeNameServer(abc[i]) = NormalizeNameServer(a[i])
    BY <2>1
  <2>5. \A i \in 1..m : NormalizeNameServer(abc[i + l]) = NormalizeNameServer(b[i])
    BY <2>2
  <2>6. ASSUME NEW i \in 1..(l + m)
        PROVE  NormalizeNameServer(abc[i])
                 \in {NormalizeNameServer(a[j]) : j \in 1..l} \union {NormalizeNameServer(b[j]) : j \in 1..m}
    <3>1. CASE i \in 1..l
      BY <2>4, <3>1
    <3>2. CASE ~(i \in 1..l)
      <4>1. i - l \in 1..m /\ abc[i] = b[i - l]
        BY <2>3, <3>2
      <4> QED
        BY <4>1
    <3> QED
      BY <3>1, <3>2
  <2>7. ASSUME NEW j \in 1..l
        PROVE  NormalizeNameServer(a[j]) \in {NormalizeNameServer(abc[i]) : i \in 1..(l + m)}
    BY <2>1, <2>4
  <2>8. ASSUME NEW j \in 1..m
        PROVE  NormalizeNameServer(b[j]) \in {NormalizeNameServer(abc[i]) : i \in 1..(l + m)}
    BY <2>2, <2>5
  <2> DEFINE whole == {NormalizeNameServer(abc[i]) : i \in 1..(l + m)}
             left == {NormalizeNameServer(a[j]) : j \in 1..l}
             right == {NormalizeNameServer(b[j]) : j \in 1..m}
  <2>9. whole \subseteq left \union right /\ left \subseteq whole /\ right \subseteq whole
    BY <2>6, <2>7, <2>8
  <2>10. whole = left \union right
    <3> HIDE DEF whole, left, right
    <3> QED
      BY <2>9
  <2> QED
    BY <2>10 DEF NamedUpTo
<1>7. NamedUpTo(abc, l + m + n) = NamedUpTo(abc, l + m) \cup NamedUpTo(c, n)
  <2>1. \A i \in 1..(l + m) : i \in 1..(l + m + n)
    OBVIOUS
  <2>2. \A i \in 1..n : i + l + m \in 1..(l + m + n) /\ abc[i + l + m] = c[i]
    BY <1>1, <1>2, <1>3 DEF IsConcat
  <2>3. \A i \in 1..(l + m + n) : i \in 1..(l + m) \/ (i - l - m \in 1..n /\ abc[i] = c[i - l - m])
    BY <1>1, <1>2, <1>3 DEF IsConcat
  <2> QED
    BY <2>1, <2>2, <2>3 DEF NamedUpTo
<1>8. l \in 0..Len(abc) /\ l + m \in 0..Len(abc) /\ Len(abc) = l + m + n
  BY <1>1, <1>2, <1>3 DEF IsConcat
<1>9. PICK first \in Seq(Server), second \in Seq(Server), merged \in Seq(Server) :
        first = acc[l] /\ second = acc[l + m] /\ merged = acc[l + m + n]
  BY <1>8
<1>10. /\ merged = AppendUnique(abc) /\ Distinct(merged)
       /\ Starts(first, merged) /\ Starts(second, merged)
       /\ ToSet(first) = NamedUpTo(abc, l) /\ ToSet(second) = NamedUpTo(abc, l + m)
       /\ ToSet(merged) = NamedUpTo(abc, l + m + n)
  BY <1>4, <1>8, <1>9
<1>11. abc = a \o b \o c
  BY <1>1, <1>2 DEF IsConcat
<1>12. AreMerged(first, second, merged, a, b, c)
  BY <1>3, <1>5, <1>6, <1>7, <1>10, <1>11 DEF AreMerged
<1> QED
  BY <1>12

LEMMA NoElements ==
  ASSUME NEW S, NEW s \in Seq(S)
  PROVE  s = <<>> <=> ToSet(s) = {}
<1>1. Len(s) \in Nat /\ DOMAIN s = 1..Len(s)
  OBVIOUS
<1>2. ASSUME s # <<>> PROVE ToSet(s) # {}
  <2>1. Len(s) # 0
    BY <1>2
  <2>2. 1 \in DOMAIN s
    BY <1>1, <2>1
  <2> QED
    BY <2>2 DEF ToSet
<1>3. ToSet(<<>>) = {}
  BY DEF ToSet
<1> QED
  BY <1>2, <1>3

-----------------------------------------------------------------------------
(* Statistics. *)

IsRoot(n, r) == r * r <= n /\ n < (r + 1) * (r + 1)

LEMMA RootExists ==
  ASSUME NEW n \in Nat
  PROVE  \E r \in Nat : IsRoot(n, r)
<1> DEFINE S == {r \in Nat : n < (r + 1) * (r + 1)}
<1>1. n \in S
  <2>1. n * n \in Nat /\ (n + 1) * (n + 1) = n * n + 2 * n + 1
    OBVIOUS
  <2> QED
    BY <2>1
<1>2. Min(S) \in S /\ \A y \in S : Min(S) <= y
  BY <1>1, LeastNatural
<1>3. PICK r \in Nat : r \in S /\ \A y \in S : r <= y
  BY <1>2
<1>4. r * r <= n
  <2>1. CASE r = 0
    BY <2>1
  <2>2. CASE r # 0
    <3>1. r - 1 \in Nat /\ r - 1 \notin S /\ (r - 1) + 1 = r
      BY <1>3, <2>2
    <3>2. r * r \in Nat /\ ~(n < r * r)
      BY <3>1
    <3> QED
      BY <3>2
  <2> QED
    BY <2>1, <2>2
<1> QED
  BY <1>3, <1>4 DEF IsRoot

LEMMA RootUnique ==
  ASSUME NEW n \in Nat, NEW r \in Nat, NEW s \in Nat, IsRoot(n, r), IsRoot(n, s)
  PROVE  r = s
<1>1. ASSUME NEW a \in Nat, NEW b \in Nat, IsRoot(n, a), IsRoot(n, b), a < b PROVE FALSE
  <2>1. PICK d \in Nat : b = a + 1 + d
    <3>1. b - a - 1 \in Nat /\ b = a + 1 + (b - a - 1)
      BY <1>1
    <3> QED
      BY <3>1
  <2>2. PICK c \in Nat : c = a + 1
    OBVIOUS
  <2>3. PICK x \in Nat, y \in Nat, z \in Nat : x = c * c /\ y = c * d /\ z = d * d
    OBVIOUS
  <2>4. b * b = x + 2 * y + z
    BY <2>1, <2>2, <2>3
  <2>5. n < x /\ b * b <= n
    BY <1>1, <2>2, <2>3 DEF IsRoot
  <2> QED
    BY <2>3, <2>4, <2>5
<1> QED
  BY <1>1

RootStep(f, n) ==
  IF n = 0 THEN 0
  ELSE LET r == 2 * f[n \div 4] IN IF (r + 1) * (r + 1) <= n THEN r + 1 ELSE r

LEMMA RootStepIs ==
  ASSUME NEW f \in [Nat -> Nat], NEW n \in Nat, \A m \in Nat : m < n => IsRoot(m, f[m])
  PROVE  IsRoot(n, RootStep(f, n)) /\ RootStep(f, n) \in Nat
<1>1. CASE n = 0
  BY <1>1 DEF RootStep, IsRoot
<1>2. CASE n # 0
  <2>1. PICK q \in Nat : q = n \div 4 /\ 4 * q <= n /\ n < 4 * q + 4 /\ q < n
    BY <1>2
  <2>2. PICK s \in Nat : s = f[q] /\ IsRoot(q, s)
    BY <2>1
  <2>3. PICK x \in Nat : x = s * s
    OBVIOUS
  <2>4. /\ (s + 1) * (s + 1) = x + 2 * s + 1 /\ (2 * s) * (2 * s) = 4 * x
        /\ (2 * s + 1) * (2 * s + 1) = 4 * x + 4 * s + 1
        /\ (2 * s + 2) * (2 * s + 2) = 4 * x + 8 * s + 4
    BY <2>3
  <2>5. x <= q /\ q < x + 2 * s + 1
    BY <2>2, <2>3, <2>4 DEF IsRoot
  <2>6. 4 * x <= n /\ n < 4 * x + 8 * s + 4
    BY <2>1, <2>5
  <2>7. RootStep(f, n) = IF 4 * x + 4 * s + 1 <= n THEN 2 * s + 1 ELSE 2 * s
    BY <1>2, <2>1, <2>2, <2>4 DEF RootStep
  <2>8. IsRoot(n, 2 * s) <=> 4 * x <= n /\ n < 4 * x + 4 * s + 1
    BY <2>4 DEF IsRoot
  <2>9. IsRoot(n, 2 * s + 1) <=> 4 * x + 4 * s + 1 <= n /\ n < 4 * x + 8 * s + 4
    <3>1. (2 * s + 1) + 1 = 2 * s + 2
      OBVIOUS
    <3> QED
      BY <2>4, <3>1 DEF IsRoot
  <2> QED
    BY <2>6, <2>7, <2>8, <2>9
<1> QED
  BY <1>1, <1>2

(* Root is the integer square root. *)
LEMMA RootIs ==
  /\ Root \in [Nat -> Nat]
  /\ \A n \in Nat : Root[n] * Root[n] <= n /\ n < (Root[n] + 1) * (Root[n] + 1)
<1> DEFINE Eq(f) == f = [n \in Nat |-> RootStep(f, n)]
<1>1. PICK f \in [Nat -> Nat] : \A n \in Nat : IsRoot(n, f[n])
  <2>1. [n \in Nat |-> CHOOSE r \in Nat : IsRoot(n, r)] \in [Nat -> Nat]
    BY RootExists
  <2>2. \A n \in Nat : IsRoot(n, CHOOSE r \in Nat : IsRoot(n, r))
    BY RootExists
  <2> QED
    BY <2>1, <2>2
<1>2. Eq(f)
  <2>1. \A n \in Nat : RootStep(f, n) = f[n]
    BY <1>1, RootStepIs, RootUnique
  <2> QED
    BY <2>1
<1>3. Root = CHOOSE g : Eq(g)
  BY DEF Root, RootStep
<1>4. Eq(Root)
  BY <1>2, <1>3
<1>5. DOMAIN Root = Nat /\ \A n \in Nat : Root[n] = RootStep(Root, n)
  BY <1>4
<1> DEFINE S == {n \in Nat : \A m \in Nat : m <= n => Root[m] = f[m]}
<1>6. 0 \in S
  <2>1. Root[0] = 0
    BY <1>5 DEF RootStep
  <2>2. f[0] = 0
    BY <1>2 DEF RootStep
  <2> QED
    BY <2>1, <2>2
<1>7. ASSUME NEW n \in S PROVE n + 1 \in S
  <2> SUFFICES Root[n + 1] = f[n + 1]
    OBVIOUS
  <2>1. (n + 1) \div 4 \in Nat /\ (n + 1) \div 4 <= n
    OBVIOUS
  <2>2. Root[(n + 1) \div 4] = f[(n + 1) \div 4]
    BY <2>1
  <2>3. RootStep(Root, n + 1) = RootStep(f, n + 1)
    BY <2>2 DEF RootStep
  <2>4. f[n + 1] = RootStep(f, n + 1)
    BY <1>2
  <2> QED
    BY <1>5, <2>3, <2>4
<1>8. S = Nat
  <2> HIDE DEF S
  <2>1. S \in SUBSET Nat
    BY DEF S
  <2> QED
    BY <1>6, <1>7, <2>1, NaturalInduction
<1>9. \A n \in Nat : Root[n] = f[n]
  BY <1>8
<1>10. \A n \in Nat : Root[n] \in Nat /\ IsRoot(n, Root[n])
  BY <1>1, <1>9
<1>11. Root = [n \in Nat |-> Root[n]]
  BY <1>4
<1>12. Root \in [Nat -> Nat]
  BY <1>10, <1>11
<1> QED
  BY <1>10, <1>12 DEF IsRoot

LEMMA TotalNatural ==
  ASSUME NEW s \in Seq(Nat)
  PROVE  Total(s) \in Nat
<1>1. s \in Seq(Int) /\ Len(s) \in Nat /\ \A k \in 1..Len(s) : s[k] \in Nat
  BY SeqMonotonic
<1>2. PICK acc \in [0..Len(s) -> Int] :
        /\ acc[0] = 0 /\ Total(s) = acc[Len(s)]
        /\ \A k \in 1..Len(s) : acc[k] = Plus(acc[k - 1], s[k])
  BY <1>1, TotalSteps
<1> DEFINE S == {k \in 0..Len(s) : acc[k] \in Nat}
<1>3. 0 \in S
  BY <1>1, <1>2
<1>4. \A k \in 1..Len(s) : k - 1 \in S => k \in S
  BY SMTT(30), <1>1, <1>2 DEF Plus
<1>5. \A k \in 0..Len(s) : k \in S
  <2> HIDE DEF S
  <2> QED
    BY <1>1, <1>3, <1>4, InductionTo
<1> QED
  BY <1>1, <1>2, <1>5

LEMMA AnsweredIs ==
  ASSUME NEW pass \in Seq(Nat \union {Failed})
  PROVE  Answered(pass) \in Seq(Nat) /\ Len(Answered(pass)) <= Len(pass)
<1> DEFINE places == {i \in DOMAIN pass : pass[i] # Failed}
           m == Cardinality(places)
<1>1. Len(pass) \in Nat /\ places \in SUBSET (1..Len(pass))
        /\ \A i \in places : pass[i] \in Nat
  OBVIOUS
<1> HIDE DEF places
<1>2. PICK picking : IsPicking(picking, pass, Len(pass), places)
  BY <1>1, PickedIs
<1>3. PICK order \in [1..m -> places] :
        /\ m \in Nat /\ m <= Len(pass)
        /\ Picked(pass, places) = [k \in 1..m |-> pass[order[k]]]
  BY <1>2 DEF IsPicking
<1>4. [k \in 1..m |-> pass[order[k]]] \in Seq(Nat) /\ Len([k \in 1..m |-> pass[order[k]]]) = m
  <2>1. \A k \in 1..m : pass[order[k]] \in Nat
    BY <1>1, <1>3
  <2>2. PICK g \in [1..m -> Nat] : g = [k \in 1..m |-> pass[order[k]]]
    BY <2>1
  <2>3. g \in Seq(Nat) /\ Len(g) = m
    <3>1. PICK l \in Nat : l = m
      BY <1>3
    <3>2. g \in [1..l -> Nat]
      BY <3>1
    <3> HIDE DEF m
    <3> QED
      BY <3>1, <3>2
  <2> QED
    BY <2>2, <2>3
<1> QED
  BY <1>3, <1>4 DEF Answered, places

LEMMA SummaryIs ==
  ASSUME NEW samples \in Seq(Nat)
  PROVE  LET s == Summary(samples) IN s.avg \in Nat /\ s.median \in Nat /\ s.p95 \in Nat
<1>1. CASE samples = <<>>
  BY <1>1 DEF Summary
<1>2. CASE samples # <<>>
  <2> DEFINE n == Len(samples)
             before == {p \in (1..n) \X (1..n) :
                          \/ samples[p[1]] < samples[p[2]]
                          \/ samples[p[1]] = samples[p[2]] /\ p[1] < p[2]}
             order == Sorted(1..n, before)
             sorted == [k \in 1..n |-> samples[order[k]]]
  <2>1. n \in Nat \ {0} /\ IsFiniteSet(1..n) /\ Cardinality(1..n) = n
          /\ \A k \in 1..n : samples[k] \in Nat
    <3>1. n \in Nat \ {0} /\ \A k \in 1..n : samples[k] \in Nat
      BY <1>2
    <3>2. IsFiniteSet(1..n) /\ Cardinality(1..n) = n
      BY <3>1, FS_Interval
    <3> QED
      BY <3>1, <3>2
  <2>2. StrictOrder(1..n, before)
    <3>1. \A x, y \in 1..n : <<x, y>> \in before
            <=> samples[x] < samples[y] \/ (samples[x] = samples[y] /\ x < y)
      OBVIOUS
    <3> HIDE DEF before
    <3>2. \A x, y \in 1..n : x \in Nat /\ samples[x] \in Nat
      BY <2>1
    <3>3. \A x \in 1..n : <<x, x>> \notin before
      BY <3>1, <3>2
    <3>4. \A x, y, z \in 1..n : <<x, y>> \in before /\ <<y, z>> \in before => <<x, z>> \in before
      BY SMTT(30), <3>1, <3>2
    <3>5. ASSUME NEW x \in 1..n, NEW y \in 1..n
          PROVE  x = y \/ <<x, y>> \in before \/ <<y, x>> \in before
      <4>1. PICK a \in Nat, b \in Nat : a = samples[x] /\ b = samples[y]
        BY <3>2
      <4>2. x = y \/ (a < b \/ (a = b /\ x < y)) \/ (b < a \/ (b = a /\ y < x))
        BY <2>1
      <4> QED
        BY <3>1, <4>1, <4>2
    <3> QED
      BY <3>3, <3>4, <3>5 DEF StrictOrder
  <2> HIDE DEF before
  <2>3. order \in [1..n -> 1..n]
    BY <2>1, <2>2, SortedIs
  <2> HIDE DEF order
  <2>4. sorted \in [1..n -> Nat]
    BY <2>1, <2>3
  <2>5. Summary(samples) =
          [avg |-> RoundDiv(Total(samples), n),
           median |-> IF n % 2 = 1 THEN sorted[n \div 2 + 1]
                      ELSE RoundDiv(sorted[n \div 2] + sorted[n \div 2 + 1], 2),
           p95 |-> sorted[P95Index(n)]]
    BY <1>2 DEF Summary, order, before
  <2> HIDE DEF sorted, n
  <2>6. RoundDiv(Total(samples), n) \in Nat
    BY <2>1, TotalNatural, RoundDivNatural
  <2>7. P95Index(n) \in 1..n
    BY <2>1 DEF P95Index
  <2>8. n % 2 = 1 => n \div 2 + 1 \in 1..n
    BY <2>1
  <2>9. n % 2 # 1 => n \div 2 \in 1..n /\ n \div 2 + 1 \in 1..n
    BY <2>1
  <2>10. ASSUME NEW a \in Nat, NEW b \in Nat PROVE RoundDiv(a + b, 2) \in Nat
    <3>1. a + b \in Nat /\ 2 \in Nat \ {0}
      OBVIOUS
    <3> QED
      BY <3>1, RoundDivNatural
  <2> QED
    BY <2>4, <2>5, <2>6, <2>7, <2>8, <2>9, <2>10
<1> QED
  BY <1>1, <1>2

LEMMA JitterNatural ==
  ASSUME NEW samples \in Seq(Nat)
  PROVE  Jitter(samples) \in Nat
<1> DEFINE n == Len(samples)
           squares == [i \in DOMAIN samples |->
                         (n * samples[i] - Total(samples)) * (n * samples[i] - Total(samples))]
<1>1. n \in Nat /\ DOMAIN samples = 1..n /\ Total(samples) \in Nat
  BY TotalNatural
<1>2. \A x \in Int : x * x \in Nat
  OBVIOUS
<1>3. ASSUME NEW i \in 1..n PROVE squares[i] \in Nat
  <2>1. PICK x \in Int : x = n * samples[i] - Total(samples)
    BY <1>1
  <2> QED
    BY <1>1, <1>2, <2>1
<1>4. squares \in Seq(Nat)
  <2>1. squares \in [1..n -> Nat]
    BY <1>1, <1>3
  <2> HIDE DEF squares
  <2> QED
    BY SMTT(30), <1>1, <2>1
<1>5. Jitter(samples)
        = IF n < 2 THEN 0 ELSE (Root[4 * (Total(squares) \div n)] \div n + 1) \div 2
  BY DEF Jitter
<1> HIDE DEF squares
<1>6. PICK t \in Nat : t = Total(squares)
  BY <1>4, TotalNatural
<1>7. ASSUME n # 0 PROVE Root[4 * (t \div n)] \div n \in Nat
  <2>1. t \div n \in Nat
    BY <1>1, <1>7, Quotient
  <2>2. 4 * (t \div n) \in Nat
    BY <2>1
  <2>3. PICK r \in Nat : r = Root[4 * (t \div n)]
    BY <2>2, RootIs
  <2>4. r \div n \in Nat
    BY <1>1, <1>7, <2>3, Quotient
  <2> QED
    BY <2>3, <2>4
<1>8. ASSUME NEW r \in Nat PROVE (r + 1) \div 2 \in Nat
  BY Quotient
<1> QED
  BY <1>1, <1>5, <1>6, <1>7, <1>8

-----------------------------------------------------------------------------
(* The hostnames of the browser history. *)

(* What Uniq has, one element after the other. *)
LEMMA UniqSteps ==
  ASSUME NEW E, NEW input \in Seq(E)
  PROVE  \E acc \in [0..Len(input) -> Seq(E)] :
           /\ acc[0] = <<>> /\ Uniq(input) = acc[Len(input)]
           /\ \A k \in 1..Len(input) : acc[k] = AddNew(acc[k - 1], input[k])
<1> DEFINE n == Len(input)
           X == Seq(E)
           base == <<>>
           Eq(it) == it = [t \in SUBSET (1..n) |->
                             IF t = {} THEN base ELSE AddNew(it[t \ {Max(t)}], input[Max(t)])]
           iter == CHOOSE it : Eq(it)
<1>1. n \in Nat /\ DOMAIN input = 1..n /\ \A k \in 1..n : input[k] \in E
  OBVIOUS
<1>2. Uniq(input) = iter[1..n]
  BY <1>1 DEF Uniq, FoldLeft, MapThenFoldSet
<1>3. base \in X /\ \A y \in X, e \in E : AddNew(y, e) \in X
  <2>1. <<>> \in Seq(E)
    OBVIOUS
  <2>2. ASSUME NEW y \in Seq(E), NEW e \in E PROVE AddNew(y, e) \in Seq(E)
    BY AppendIs DEF AddNew
  <2> QED
    BY <2>1, <2>2
<1> HIDE DEF X, base
<1>4. PICK step \in [1..n -> [X -> X]] :
        \A k \in 1..n, y \in X : step[k][y] = AddNew(y, input[k])
  <2>1. [k \in 1..n |-> [y \in X |-> AddNew(y, input[k])]] \in [1..n -> [X -> X]]
    BY <1>1, <1>3
  <2> QED
    BY <2>1
<1>5. PICK it \in [SUBSET (1..n) -> X] : Iterates(it, base, step, n)
  BY <1>1, <1>3, <1>4, Iteration
<1>6. Eq(it)
  <2>1. ASSUME NEW t \in SUBSET (1..n), t # {}
        PROVE  it[t] = AddNew(it[t \ {Max(t)}], input[Max(t)])
    <3>1. Max(t) \in 1..n /\ t \ {Max(t)} \in SUBSET (1..n)
      BY <1>1, <2>1, IterationPlaces
    <3>2. it[t] = step[Max(t)][it[t \ {Max(t)}]]
      BY <1>5, <2>1 DEF Iterates
    <3> QED
      BY <1>4, <1>5, <3>1, <3>2
  <2> QED
    BY <1>5, <2>1 DEF Iterates
<1>7. Eq(iter)
  BY <1>6
<1> HIDE DEF iter
<1>8. iter[1..0] = base
  BY <1>1, <1>7, IterationPlaces
<1>9. ASSUME NEW k \in 1..n PROVE iter[1..k] = AddNew(iter[1..(k-1)], input[k])
  <2>1. 1..k # {} /\ 1..k \in SUBSET (1..n) /\ Max(1..k) = k /\ (1..k) \ {k} = 1..(k-1)
    BY <1>1, IterationPlaces
  <2>2. iter[1..k] = AddNew(iter[(1..k) \ {Max(1..k)}], input[Max(1..k)])
    BY <1>7, <2>1
  <2> QED
    BY <2>1, <2>2
<1>10. \A k \in 0..n : iter[1..k] \in X
  <2>1. iter[1..0] \in X
    BY <1>3, <1>8
  <2>2. \A k \in 1..n : iter[1..(k-1)] \in X => iter[1..k] \in X
    BY <1>1, <1>3, <1>9
  <2> QED
    BY <1>1, <2>1, <2>2, StepsStay
<1> DEFINE acc == [k \in 0..n |-> iter[1..k]]
<1>11. acc \in [0..n -> X] /\ acc[0] = base /\ acc[n] = iter[1..n]
         /\ \A k \in 1..n : acc[k] = iter[1..k] /\ acc[k - 1] = iter[1..(k-1)]
  BY <1>1, <1>8, <1>10
<1>12. \A k \in 1..n : acc[k] = AddNew(acc[k - 1], input[k])
  BY <1>9, <1>11
<1> HIDE DEF acc
<1> QED
  BY <1>2, <1>11, <1>12 DEF X, base

(* Uniq keeps every element, once. *)
LEMMA UniqIs ==
  ASSUME NEW E, NEW input \in Seq(E)
  PROVE  Uniq(input) \in Seq(E) /\ Distinct(Uniq(input)) /\ ToSet(Uniq(input)) = ToSet(input)
<1>1. PICK n \in Nat : n = Len(input) /\ DOMAIN input = 1..n
  OBVIOUS
<1>2. PICK acc \in [0..n -> Seq(E)] :
        /\ acc[0] = <<>> /\ Uniq(input) = acc[n]
        /\ \A k \in 1..n : acc[k] = AddNew(acc[k - 1], input[k])
  BY <1>1, UniqSteps
<1> DEFINE Upto(k) == {input[i] : i \in 1..k}
           S == {k \in 0..n : Distinct(acc[k]) /\ ToSet(acc[k]) = Upto(k)}
<1>3. 0 \in S
  <2>1. Distinct(<<>>) /\ ToSet(<<>>) = {} /\ Upto(0) = {}
    BY DEF Distinct, ToSet
  <2> QED
    BY <1>2, <2>1
<1>4. ASSUME NEW k \in 1..n, k - 1 \in S PROVE k \in S
  <2>1. PICK h \in 0..n : h = k - 1 /\ k = h + 1
    OBVIOUS
  <2>2. PICK old \in Seq(E), next \in E :
          old = acc[h] /\ next = input[k] /\ acc[k] = AddNew(old, next)
    BY <1>1, <1>2, <2>1
  <2>3. Distinct(old) /\ ToSet(old) = Upto(h)
    BY <1>4, <2>1, <2>2
  <2>4. Upto(k) = Upto(h) \union {next}
    BY <2>1, <2>2
  <2> HIDE DEF Upto
  <2>5. Distinct(acc[k]) /\ ToSet(acc[k]) = Upto(k)
    <3>1. CASE next \in ToSet(old)
      BY <2>2, <2>3, <2>4, <3>1 DEF AddNew
    <3>2. CASE next \notin ToSet(old)
      BY <2>2, <2>3, <2>4, <3>2, AppendIs DEF AddNew
    <3> QED
      BY <3>1, <3>2
  <2> QED
    BY <2>5
<1>5. n \in S
  <2> HIDE DEF S
  <2>1. \A k \in 0..n : k \in S
    BY <1>3, <1>4, InductionTo
  <2> QED
    BY <2>1
<1>6. Upto(n) = ToSet(input)
  BY <1>1 DEF ToSet
<1> QED
  BY <1>2, <1>5, <1>6

(* What ExternalHostnames has, one URL after the other. *)
LEMMA ExternalSteps ==
  ASSUME NEW urls \in Seq(Url)
  PROVE  \E acc \in [0..Len(urls) -> Seq(STRING)] :
           /\ acc[0] = <<>> /\ ExternalHostnames(urls) = acc[Len(urls)]
           /\ \A k \in 1..Len(urls) : acc[k] = AddExternal(acc[k - 1], urls[k])
<1> DEFINE n == Len(urls)
           X == Seq(STRING)
           base == <<>>
           Eq(it) == it = [t \in SUBSET (1..n) |->
                             IF t = {} THEN base ELSE AddExternal(it[t \ {Max(t)}], urls[Max(t)])]
           iter == CHOOSE it : Eq(it)
<1>1. n \in Nat /\ DOMAIN urls = 1..n /\ \A k \in 1..n : urls[k] \in Url
  OBVIOUS
<1>2. ExternalHostnames(urls) = iter[1..n]
  BY <1>1 DEF ExternalHostnames, FoldLeft, MapThenFoldSet
<1>3. base \in X /\ \A y \in X, e \in Url : AddExternal(y, e) \in X
  <2>1. <<>> \in Seq(STRING)
    OBVIOUS
  <2>2. ASSUME NEW y \in Seq(STRING), NEW e \in Url PROVE AddExternal(y, e) \in Seq(STRING)
    <3>1. e.host \in STRING
      BY DEF Url
    <3> QED
      BY <3>1, AppendIs DEF AddExternal
  <2> QED
    BY <2>1, <2>2
<1> HIDE DEF X, base
<1>4. PICK step \in [1..n -> [X -> X]] :
        \A k \in 1..n, y \in X : step[k][y] = AddExternal(y, urls[k])
  <2>1. [k \in 1..n |-> [y \in X |-> AddExternal(y, urls[k])]] \in [1..n -> [X -> X]]
    BY <1>1, <1>3
  <2> QED
    BY <2>1
<1>5. PICK it \in [SUBSET (1..n) -> X] : Iterates(it, base, step, n)
  BY <1>1, <1>3, <1>4, Iteration
<1>6. Eq(it)
  <2>1. ASSUME NEW t \in SUBSET (1..n), t # {}
        PROVE  it[t] = AddExternal(it[t \ {Max(t)}], urls[Max(t)])
    <3>1. Max(t) \in 1..n /\ t \ {Max(t)} \in SUBSET (1..n)
      BY <1>1, <2>1, IterationPlaces
    <3>2. it[t] = step[Max(t)][it[t \ {Max(t)}]]
      BY <1>5, <2>1 DEF Iterates
    <3> QED
      BY <1>4, <1>5, <3>1, <3>2
  <2> QED
    BY <1>5, <2>1 DEF Iterates
<1>7. Eq(iter)
  BY <1>6
<1> HIDE DEF iter
<1>8. iter[1..0] = base
  BY <1>1, <1>7, IterationPlaces
<1>9. ASSUME NEW k \in 1..n PROVE iter[1..k] = AddExternal(iter[1..(k-1)], urls[k])
  <2>1. 1..k # {} /\ 1..k \in SUBSET (1..n) /\ Max(1..k) = k /\ (1..k) \ {k} = 1..(k-1)
    BY <1>1, IterationPlaces
  <2>2. iter[1..k] = AddExternal(iter[(1..k) \ {Max(1..k)}], urls[Max(1..k)])
    BY <1>7, <2>1
  <2> QED
    BY <2>1, <2>2
<1>10. \A k \in 0..n : iter[1..k] \in X
  <2>1. iter[1..0] \in X
    BY <1>3, <1>8
  <2>2. \A k \in 1..n : iter[1..(k-1)] \in X => iter[1..k] \in X
    BY <1>1, <1>3, <1>9
  <2> QED
    BY <1>1, <2>1, <2>2, StepsStay
<1> DEFINE acc == [k \in 0..n |-> iter[1..k]]
<1>11. acc \in [0..n -> X] /\ acc[0] = base /\ acc[n] = iter[1..n]
         /\ \A k \in 1..n : acc[k] = iter[1..k] /\ acc[k - 1] = iter[1..(k-1)]
  BY <1>1, <1>8, <1>10
<1>12. \A k \in 1..n : acc[k] = AddExternal(acc[k - 1], urls[k])
  BY <1>9, <1>11
<1> HIDE DEF acc
<1> QED
  BY <1>2, <1>11, <1>12 DEF X, base

LEMMA ExternalIs ==
  ASSUME NEW urls \in Seq(Url)
  PROVE  /\ ExternalHostnames(urls) \in Seq(STRING)
         /\ \A host : host \in ToSet(ExternalHostnames(urls))
                       <=> \E url \in ToSet(urls) : url.external /\ url.host = host
<1>1. PICK n \in Nat : n = Len(urls) /\ DOMAIN urls = 1..n
  OBVIOUS
<1>2. PICK acc \in [0..n -> Seq(STRING)] :
        /\ acc[0] = <<>> /\ ExternalHostnames(urls) = acc[n]
        /\ \A k \in 1..n : acc[k] = AddExternal(acc[k - 1], urls[k])
  BY <1>1, ExternalSteps
<1> DEFINE Has(k, host) == \E i \in 1..k : urls[i].external /\ urls[i].host = host
           Right(k, hosts) == \A host : host \in ToSet(hosts) <=> Has(k, host)
           S == {k \in 0..n : Right(k, acc[k])}
<1>3. 0 \in S
  <2>1. ToSet(<<>>) = {} /\ \A host : ~Has(0, host)
    BY DEF ToSet
  <2> HIDE DEF Has
  <2>2. Right(0, acc[0])
    BY <1>2, <2>1
  <2> HIDE DEF Right
  <2> QED
    BY <2>2
<1>4. ASSUME NEW k \in 1..n, k - 1 \in S PROVE k \in S
  <2>1. PICK h \in 0..n : h = k - 1 /\ k = h + 1
    OBVIOUS
  <2>2. PICK old \in Seq(STRING), url \in Url :
          old = acc[h] /\ url = urls[k] /\ acc[k] = AddExternal(old, url)
    BY <1>1, <1>2, <2>1
  <2>3. Right(h, old)
    BY <1>4, <2>1, <2>2
  <2>4. \A host : Has(k, host) <=> Has(h, host) \/ (url.external /\ url.host = host)
    <3>1. \A i : i \in 1..k <=> i \in 1..h \/ i = k
      BY <2>1
    <3> QED
      BY <2>2, <3>1
  <2> HIDE DEF Has
  <2>5. Right(k, acc[k])
    <3>1. url.host \in STRING
      BY DEF Url
    <3>2. CASE url.external
      <4>1. ToSet(acc[k]) = ToSet(old) \union {url.host}
        BY SMTT(30), <2>2, <3>1, <3>2, AppendIs DEF AddExternal
      <4> QED
        BY <2>3, <2>4, <3>2, <4>1
    <3>3. CASE ~url.external
      <4>1. acc[k] = old
        BY <2>2, <3>3 DEF AddExternal
      <4> QED
        BY <2>3, <2>4, <3>3, <4>1
    <3> QED
      BY <3>2, <3>3
  <2> HIDE DEF Right
  <2> QED
    BY <2>5
<1>5. n \in S
  <2> HIDE DEF S
  <2>1. \A k \in 0..n : k \in S
    BY <1>3, <1>4, InductionTo
  <2> QED
    BY <2>1
<1> HIDE DEF Right
<1>6. Right(n, ExternalHostnames(urls))
  BY <1>2, <1>5
<1>7. \A host : Has(n, host) <=> \E url \in ToSet(urls) : url.external /\ url.host = host
  BY <1>1 DEF ToSet
<1> HIDE DEF Has
<1> QED
  BY <1>2, <1>6, <1>7 DEF Right

(* Every outcome of Random is as long as it is asked to be, or has every   *)
(* hostname; and it has none twice.                                        *)
LEMMA RandomIs ==
  ASSUME NEW E, NEW input \in Seq(E), Distinct(input), NEW count \in Nat
  PROVE  /\ Random(count, input) # {}
         /\ \A hosts \in Random(count, input) :
              /\ hosts \in Seq(E) /\ Distinct(hosts) /\ ToSet(hosts) \subseteq ToSet(input)
              /\ Len(hosts) = count \/ ToSet(hosts) = ToSet(input)
<1> DEFINE n == Len(input)
           size == IF count < n THEN count ELSE n
           Roll(f) == f \in [1..size -> 1..n] /\ \A i, j \in 1..size : f[i] = f[j] => i = j
           Hosts(f) == [i \in 1..size |-> input[f[i]]]
<1>1. n \in Nat /\ DOMAIN input = 1..n /\ input \in [1..n -> E]
  OBVIOUS
<1>2. size \in Nat /\ size <= n /\ (size = count \/ size = n)
  BY <1>1
<1>3. \A hosts : hosts \in Random(count, input) <=> \E f : Roll(f) /\ hosts = Hosts(f)
  <2>1. Random(count, input) =
          {Hosts(f) : f \in {g \in [1..size -> DOMAIN input] :
                                \A i, j \in 1..size : g[i] = g[j] => i = j}}
    BY Zenon DEF Random
  <2> HIDE DEF size, n
  <2> QED
    BY <1>1, <2>1
<1> HIDE DEF size, n
<1>4. Roll([i \in 1..size |-> i])
  BY <1>1, <1>2
<1>5. Random(count, input) # {}
  <2> HIDE DEF Roll, Hosts
  <2>1. PICK f : Roll(f)
    BY <1>4
  <2>2. Hosts(f) \in Random(count, input)
    BY <1>3, <2>1
  <2> QED
    BY <2>2
<1>6. ASSUME NEW hosts \in Random(count, input)
      PROVE  /\ hosts \in Seq(E) /\ Distinct(hosts) /\ ToSet(hosts) \subseteq ToSet(input)
             /\ Len(hosts) = count \/ ToSet(hosts) = ToSet(input)
  <2>1. PICK f : Roll(f) /\ hosts = Hosts(f)
    BY <1>3
  <2>2. /\ hosts \in Seq(E) /\ Len(hosts) = size /\ DOMAIN hosts = 1..size
        /\ \A i \in 1..size : hosts[i] = input[f[i]] /\ f[i] \in 1..n
    <3>1. \A i \in 1..size : f[i] \in 1..n /\ input[f[i]] \in E
      BY <1>1, <2>1
    <3>2. hosts = [i \in 1..size |-> input[f[i]]]
      BY <2>1
    <3>3. hosts \in [1..size -> E] /\ \A i \in 1..size : hosts[i] = input[f[i]]
      BY <3>1, <3>2
    <3>4. DOMAIN hosts = 1..size /\ Len(hosts) = size
      BY <1>2, <3>2
    <3>5. hosts \in Seq(E)
      BY <1>2, <3>3
    <3> QED
      BY <3>1, <3>3, <3>4, <3>5
  <2>3. Distinct(hosts)
    BY <1>1, <2>1, <2>2 DEF Distinct
  <2>4. ToSet(hosts) \subseteq ToSet(input)
    BY <1>1, <2>2 DEF ToSet
  <2>5. size # count => ToSet(hosts) = ToSet(input)
    <3> SUFFICES ASSUME size = n PROVE ToSet(hosts) = ToSet(input)
      BY <1>2
    <3>1. IsFiniteSet(1..n) /\ Cardinality(1..n) = n
      <4>1. PICK l \in Nat : l = n
        BY <1>1
      <4>2. IsFiniteSet(1..l) /\ Cardinality(1..l) = l
        BY FS_Interval
      <4> QED
        BY <4>1, <4>2
    <3>2. PICK T : T = 1..n
      OBVIOUS
    <3>3. IsFiniteSet(T) /\ f \in [T -> 1..Cardinality(T)]
            /\ \A x, y \in T : f[x] = f[y] => x = y
      BY <2>1, <3>1, <3>2
    <3>4. \A k \in 1..Cardinality(T) : \E x \in T : f[x] = k
      BY <3>3, EveryPlaceIsTaken
    <3>5. \A k \in 1..n : \E x \in 1..n : f[x] = k
      BY <3>1, <3>2, <3>4
    <3>6. ASSUME NEW e \in ToSet(input) PROVE e \in ToSet(hosts)
      <4>1. PICK k \in 1..n : e = input[k]
        BY <1>1, <3>6 DEF ToSet
      <4>2. PICK x \in 1..n : f[x] = k
        BY <3>5
      <4> QED
        BY <2>2, <4>1, <4>2 DEF ToSet
    <3> QED
      BY <2>4, <3>6
  <2> QED
    BY <2>2, <2>3, <2>4, <2>5
<1> QED
  BY <1>5, <1>6

(* The built-in hostnames go round. *)
LEMMA FallbackIs ==
  ASSUME NEW count \in Nat
  PROVE  /\ FallbackHostnames(count) \in Seq(STRING) /\ Len(FallbackHostnames(count)) = count
         /\ count <= Len(Domains) => Distinct(FallbackHostnames(count))
<1>1. PICK d \in Nat \ {0} : d = Len(Domains) /\ DOMAIN Domains = 1..d
  BY RunDataAssumption
<1>2. \A i \in 1..d : Domains[i] \in STRING
  BY <1>1, RunDataAssumption
<1> DEFINE hosts == FallbackHostnames(count)
<1>3. \A i \in 1..count : ((i - 1) % d) + 1 \in 1..d
  <2> TAKE i \in 1..count
  <2>1. PICK j \in Nat : j = i - 1
    OBVIOUS
  <2>2. j % d \in 0..(d - 1)
    OBVIOUS
  <2> QED
    BY <2>1, <2>2
<1>4. /\ DOMAIN hosts = 1..count
      /\ \A i \in 1..count : hosts[i] = Domains[((i - 1) % d) + 1] /\ hosts[i] \in STRING
  BY <1>1, <1>2, <1>3 DEF FallbackHostnames
<1>5. hosts \in Seq(STRING) /\ Len(hosts) = count
  BY <1>1, <1>2, <1>3 DEF FallbackHostnames
<1>6. ASSUME count <= d PROVE Distinct(hosts)
  <2>1. \A i \in 1..count : ((i - 1) % d) + 1 = i
    <3> TAKE i \in 1..count
    <3>1. PICK j \in Nat : j = i - 1 /\ j < d /\ i = j + 1
      BY <1>6
    <3>2. j % d = j
      BY <3>1
    <3> QED
      BY <3>1, <3>2
  <2> HIDE DEF hosts
  <2>2. \A i \in 1..count : hosts[i] = Domains[i] /\ i \in 1..d
    BY <1>4, <1>6, <2>1
  <2> QED
    BY <1>1, <1>4, <2>2, RunDataAssumption DEF Distinct
<1> QED
  BY <1>1, <1>5, <1>6

-----------------------------------------------------------------------------
(* CSV: a reader of the export. *)

Cells == Seq(Seq(Char))
Readers == [rows : Seq(Cells), row : Cells, cell : Seq(Char), quoted : BOOLEAN,
            pending : BOOLEAN, ended : BOOLEAN]

(* A reader with what it has read, and whether it is inside quotes, that has *)
(* not just ended a row with a carriage return.                              *)
Reader(rows, row, cell, quoted, pending) ==
  [rows |-> rows, row |-> row, cell |-> cell, quoted |-> quoted, pending |-> pending,
   ended |-> FALSE]

Reads(s, text) == FoldLeft(CsvRead, s, text)

(* What it makes of a character. *)
LEMMA ReaderSteps ==
  ASSUME NEW rows, NEW row, NEW cell
  PROVE  /\ CsvRead(Reader(rows, row, cell, FALSE, FALSE), "quote") = Reader(rows, row, cell, TRUE, FALSE)
         /\ CsvRead(Reader(rows, row, cell, TRUE, FALSE), "quote") = Reader(rows, row, cell, TRUE, TRUE)
         /\ CsvRead(Reader(rows, row, cell, TRUE, TRUE), "quote")
              = Reader(rows, row, Append(cell, "quote"), TRUE, FALSE)
<1>1. CsvRead(Reader(rows, row, cell, FALSE, FALSE), "quote") = Reader(rows, row, cell, TRUE, FALSE)
  BY DEF CsvRead, Reader
<1>2. CsvRead(Reader(rows, row, cell, TRUE, FALSE), "quote") = Reader(rows, row, cell, TRUE, TRUE)
  BY DEF CsvRead, Reader
<1>3. CsvRead(Reader(rows, row, cell, TRUE, TRUE), "quote")
        = Reader(rows, row, Append(cell, "quote"), TRUE, FALSE)
  BY DEF CsvRead, Reader
<1> QED
  BY Zenon, <1>1, <1>2, <1>3

(* The ends of a cell and of a row. *)
EndsCell(rows, row, cell, q) ==
  CsvRead(Reader(rows, row, cell, q, q), ",") = Reader(rows, Append(row, cell), <<>>, FALSE, FALSE)
EndsRow(rows, row, cell, q) ==
  CsvRead(Reader(rows, row, cell, q, q), "newline")
    = Reader(Append(rows, Append(row, cell)), <<>>, <<>>, FALSE, FALSE)

LEMMA ReaderEnds ==
  ASSUME NEW rows, NEW row, NEW cell, NEW q \in BOOLEAN
  PROVE  EndsCell(rows, row, cell, q) /\ EndsRow(rows, row, cell, q)
<1>1. EndsCell(rows, row, cell, q)
  BY DEF CsvRead, Reader, CsvStart, EndsCell
<1>2. EndsRow(rows, row, cell, q)
  BY DEF CsvRead, Reader, CsvStart, EndsRow
<1> QED
  BY <1>1, <1>2

LEMMA ReaderType ==
  ASSUME NEW s \in Readers, NEW char \in Char
  PROVE  /\ CsvRead(s, char) \in Readers
         /\ \/ CsvRead(s, char).rows = s.rows
            \/ \E row \in Cells : CsvRead(s, char).rows = Append(s.rows, row)
<1> DEFINE AsRead(a, b, c, q, p, e) == [rows |-> a, row |-> b, cell |-> c, quoted |-> q,
                                           pending |-> p, ended |-> e]
<1>1. /\ s.rows \in Seq(Cells) /\ s.row \in Cells /\ s.cell \in Seq(Char)
      /\ s.quoted \in BOOLEAN /\ s.pending \in BOOLEAN /\ s.ended \in BOOLEAN
      /\ s = AsRead(s.rows, s.row, s.cell, s.quoted, s.pending, s.ended)
  BY DEF Readers
<1>2. PICK row \in Cells : row = Append(s.row, s.cell)
  BY <1>1, AppendIs DEF Cells
<1>3. PICK rows \in Seq(Cells) : rows = Append(s.rows, row)
  BY <1>1, AppendIs
<1>4. PICK cell \in Seq(Char) : cell = Append(s.cell, char)
  BY <1>1, AppendIs
<1>5. <<>> \in Cells /\ <<>> \in Seq(Char)
  BY DEF Cells
<1> HIDE DEF Cells
<1>6. \/ CsvRead(s, char) = AsRead(s.rows, s.row, s.cell, TRUE, s.pending, FALSE)
      \/ CsvRead(s, char) = AsRead(s.rows, s.row, s.cell, s.quoted, TRUE, s.ended)
      \/ CsvRead(s, char) = AsRead(s.rows, s.row, s.cell, s.quoted, s.pending, FALSE)
      \/ CsvRead(s, char) = AsRead(s.rows, s.row, cell, s.quoted, FALSE, FALSE)
      \/ CsvRead(s, char) = AsRead(s.rows, row, <<>>, FALSE, FALSE, FALSE)
      \/ \E e \in BOOLEAN : CsvRead(s, char) = AsRead(rows, <<>>, <<>>, FALSE, FALSE, e)
  <2>1. CASE char = "quote"
    BY <1>1, <1>4, <2>1 DEF CsvRead
  <2>2. CASE char = ","
    BY <1>1, <1>2, <1>4, <2>2 DEF CsvRead, CsvStart
  <2>3. CASE char = "newline"
    BY <1>1, <1>2, <1>3, <1>4, <2>3 DEF CsvRead, CsvStart
  <2>4. CASE char = "cr"
    BY <1>1, <1>2, <1>3, <1>4, <2>4 DEF CsvRead, CsvStart
  <2>5. CASE char \notin {"quote", ",", "newline", "cr"}
    BY <1>1, <1>4, <2>5 DEF CsvRead
  <2> QED
    BY <2>1, <2>2, <2>3, <2>4, <2>5
<1>7. \A a \in Seq(Cells), b \in Cells, c \in Seq(Char), q, p, e \in BOOLEAN :
        AsRead(a, b, c, q, p, e) \in Readers /\ AsRead(a, b, c, q, p, e).rows = a
  BY DEF Readers
<1> HIDE DEF AsRead
<1>8. s.rows \in Seq(Cells) /\ rows \in Seq(Cells) /\ TRUE \in BOOLEAN /\ FALSE \in BOOLEAN
  BY <1>1, <1>3
<1> DEFINE Good(r) == r \in Readers /\ (r.rows = s.rows \/ r.rows = rows)
<1>9. \A a, b, c, q, p, e : /\ a = s.rows \/ a = rows
                           /\ b \in Cells /\ c \in Seq(Char)
                           /\ q \in BOOLEAN /\ p \in BOOLEAN /\ e \in BOOLEAN
                           => Good(AsRead(a, b, c, q, p, e))
  <2> HIDE DEF Good
  <2> SUFFICES ASSUME NEW a, a = s.rows \/ a = rows, NEW b \in Cells, NEW c \in Seq(Char),
                      NEW q \in BOOLEAN, NEW p \in BOOLEAN, NEW e \in BOOLEAN
               PROVE  Good(AsRead(a, b, c, q, p, e))
    BY Zenon
  <2>1. a \in Seq(Cells)
    BY <1>8
  <2>2. PICK r : r = AsRead(a, b, c, q, p, e)
    BY Zenon
  <2>3. r \in Readers /\ r.rows = a
    <3>1. AsRead(a, b, c, q, p, e) \in Readers /\ AsRead(a, b, c, q, p, e).rows = a
      BY <1>7, <2>1
    <3> QED
      BY Zenon, <2>2, <3>1
  <2>4. Good(r)
    BY Zenon, <2>3 DEF Good
  <2> QED
    BY Zenon, <2>2, <2>4
<1> HIDE DEF Good
<1>10. Good(CsvRead(s, char))
  <2>1. CASE CsvRead(s, char) = AsRead(s.rows, s.row, s.cell, TRUE, s.pending, FALSE)
    BY Zenon, <1>1, <1>8, <1>9, <2>1
  <2>2. CASE CsvRead(s, char) = AsRead(s.rows, s.row, s.cell, s.quoted, TRUE, s.ended)
    BY Zenon, <1>1, <1>8, <1>9, <2>2
  <2>3. CASE CsvRead(s, char) = AsRead(s.rows, s.row, s.cell, s.quoted, s.pending, FALSE)
    BY Zenon, <1>1, <1>8, <1>9, <2>3
  <2>4. CASE CsvRead(s, char) = AsRead(s.rows, s.row, cell, s.quoted, FALSE, FALSE)
    BY Zenon, <1>1, <1>4, <1>8, <1>9, <2>4
  <2>5. CASE CsvRead(s, char) = AsRead(s.rows, row, <<>>, FALSE, FALSE, FALSE)
    BY Zenon, <1>2, <1>5, <1>8, <1>9, <2>5
  <2>6. CASE \E e \in BOOLEAN : CsvRead(s, char) = AsRead(rows, <<>>, <<>>, FALSE, FALSE, e)
    BY Zenon, <1>5, <1>8, <1>9, <2>6
  <2> QED
    BY Zenon, <1>6, <2>1, <2>2, <2>3, <2>4, <2>5, <2>6
<1> QED
  BY Zenon, <1>2, <1>3, <1>10 DEF Good

(* A text, one character after the other. *)
LEMMA ReadingSteps ==
  ASSUME NEW s \in Readers, NEW text \in Seq(Char)
  PROVE  \E acc \in [0..Len(text) -> Readers] :
           /\ acc[0] = s /\ Reads(s, text) = acc[Len(text)]
           /\ \A k \in 1..Len(text) : acc[k] = CsvRead(acc[k - 1], text[k])
<1> DEFINE n == Len(text)
           X == Readers
           base == s
           Eq(it) == it = [t \in SUBSET (1..n) |->
                             IF t = {} THEN base ELSE CsvRead(it[t \ {Max(t)}], text[Max(t)])]
           iter == CHOOSE it : Eq(it)
<1>1. n \in Nat /\ DOMAIN text = 1..n /\ \A k \in 1..n : text[k] \in Char
  OBVIOUS
<1>2. Reads(s, text) = iter[1..n]
  BY <1>1 DEF Reads, FoldLeft, MapThenFoldSet
<1>3. base \in X /\ \A y \in X, e \in Char : CsvRead(y, e) \in X
  BY ReaderType
<1> HIDE DEF X, base
<1>4. PICK step \in [1..n -> [X -> X]] :
        \A k \in 1..n, y \in X : step[k][y] = CsvRead(y, text[k])
  <2>1. [k \in 1..n |-> [y \in X |-> CsvRead(y, text[k])]] \in [1..n -> [X -> X]]
    BY <1>1, <1>3
  <2> QED
    BY <2>1
<1>5. PICK it \in [SUBSET (1..n) -> X] : Iterates(it, base, step, n)
  BY <1>1, <1>3, <1>4, Iteration
<1>6. Eq(it)
  <2>1. ASSUME NEW t \in SUBSET (1..n), t # {}
        PROVE  it[t] = CsvRead(it[t \ {Max(t)}], text[Max(t)])
    <3>1. Max(t) \in 1..n /\ t \ {Max(t)} \in SUBSET (1..n)
      BY <1>1, <2>1, IterationPlaces
    <3>2. it[t] = step[Max(t)][it[t \ {Max(t)}]]
      BY <1>5, <2>1 DEF Iterates
    <3> QED
      BY <1>4, <1>5, <3>1, <3>2
  <2> QED
    BY <1>5, <2>1 DEF Iterates
<1>7. Eq(iter)
  BY <1>6
<1> HIDE DEF iter
<1>8. iter[1..0] = base
  BY <1>1, <1>7, IterationPlaces
<1>9. ASSUME NEW k \in 1..n PROVE iter[1..k] = CsvRead(iter[1..(k-1)], text[k])
  <2>1. 1..k # {} /\ 1..k \in SUBSET (1..n) /\ Max(1..k) = k /\ (1..k) \ {k} = 1..(k-1)
    BY <1>1, IterationPlaces
  <2>2. iter[1..k] = CsvRead(iter[(1..k) \ {Max(1..k)}], text[Max(1..k)])
    BY <1>7, <2>1
  <2> QED
    BY <2>1, <2>2
<1>10. \A k \in 0..n : iter[1..k] \in X
  <2>1. iter[1..0] \in X
    BY <1>3, <1>8
  <2>2. \A k \in 1..n : iter[1..(k-1)] \in X => iter[1..k] \in X
    BY <1>1, <1>3, <1>9
  <2> QED
    BY <1>1, <2>1, <2>2, StepsStay
<1> DEFINE acc == [k \in 0..n |-> iter[1..k]]
<1>11. acc \in [0..n -> X] /\ acc[0] = base /\ acc[n] = iter[1..n]
         /\ \A k \in 1..n : acc[k] = iter[1..k] /\ acc[k - 1] = iter[1..(k-1)]
  BY <1>1, <1>8, <1>10
<1>12. \A k \in 1..n : acc[k] = CsvRead(acc[k - 1], text[k])
  BY <1>9, <1>11
<1> HIDE DEF acc
<1> QED
  BY <1>2, <1>11, <1>12 DEF X, base

(* No other steps lead through a text. *)
Leads(acc, s, text, n) ==
  acc[0] = s /\ \A k \in 1..n : acc[k] = CsvRead(acc[k - 1], text[k])

LEMMA ReadsAre ==
  ASSUME NEW s \in Readers, NEW text \in Seq(Char), NEW n \in Nat, n = Len(text),
         NEW acc, Leads(acc, s, text, n)
  PROVE  Reads(s, text) = acc[n] /\ Reads(s, text) \in Readers
<1>1. PICK bcc \in [0..n -> Readers] :
        /\ bcc[0] = s /\ Reads(s, text) = bcc[n]
        /\ \A k \in 1..n : bcc[k] = CsvRead(bcc[k - 1], text[k])
  BY ReadingSteps
<1> DEFINE S == {k \in 0..n : acc[k] = bcc[k]}
<1>2. 0 \in S
  BY <1>1 DEF Leads
<1>3. ASSUME NEW k \in 1..n, k - 1 \in S PROVE k \in S
  <2>1. acc[k - 1] = bcc[k - 1]
    BY <1>3
  <2>2. acc[k] = bcc[k]
    BY <1>1, <2>1 DEF Leads
  <2> QED
    BY <2>2
<1>4. \A k \in 0..n : k \in S
  <2> HIDE DEF S
  <2> QED
    BY <1>2, <1>3, InductionTo
<1> QED
  BY <1>1, <1>4

(* Nothing, a character, and one text after another. *)
LEMMA ReadsOne ==
  ASSUME NEW s \in Readers, NEW char \in Char
  PROVE  Reads(s, <<char>>) = CsvRead(s, char) /\ <<char>> \in Seq(Char)
<1>1. <<char>> \in Seq(Char) /\ Len(<<char>>) = 1 /\ <<char>>[1] = char
  OBVIOUS
<1> DEFINE acc == [k \in 0..1 |-> IF k = 0 THEN s ELSE CsvRead(s, char)]
<1>2. acc[0] = s /\ acc[1] = CsvRead(s, char)
  OBVIOUS
<1> HIDE DEF acc
<1>3. \A k \in 1..1 : acc[k] = CsvRead(acc[k - 1], <<char>>[k])
  <2>1. \A k \in 1..1 : k = 1 /\ k - 1 = 0
    OBVIOUS
  <2> QED
    BY <1>1, <1>2, <2>1
<1>4. Leads(acc, s, <<char>>, 1)
  BY <1>2, <1>3 DEF Leads
<1>5. 1 \in Nat /\ 1 = Len(<<char>>)
  BY <1>1
<1>6. Reads(s, <<char>>) = acc[1]
  BY <1>1, <1>4, <1>5, ReadsAre
<1> QED
  BY <1>1, <1>2, <1>6

LEMMA ReadsBoth ==
  ASSUME NEW s \in Readers, NEW t \in Seq(Char), NEW u \in Seq(Char)
  PROVE  /\ Reads(s, t) \in Readers /\ t \o u \in Seq(Char)
         /\ Reads(s, t \o u) = Reads(Reads(s, t), u)
<1>1. PICK both \in Seq(Char) : IsConcat(both, t, u)
  BY ConcatIs
<1>2. PICK m \in Nat, n \in Nat : m = Len(t) /\ n = Len(u)
  OBVIOUS
<1>3. /\ both = t \o u /\ Len(both) = m + n
      /\ \A i \in 1..(m + n) : both[i] = IF i <= m THEN t[i] ELSE u[i - m]
  BY <1>1, <1>2 DEF IsConcat
<1>4. PICK acc \in [0..m -> Readers] :
        /\ acc[0] = s /\ Reads(s, t) = acc[m]
        /\ \A k \in 1..m : acc[k] = CsvRead(acc[k - 1], t[k])
  BY <1>2, ReadingSteps
<1>5. PICK mid \in Readers : mid = Reads(s, t) /\ mid = acc[m]
  BY <1>4
<1>6. PICK bcc \in [0..n -> Readers] :
        /\ bcc[0] = mid /\ Reads(mid, u) = bcc[n]
        /\ \A k \in 1..n : bcc[k] = CsvRead(bcc[k - 1], u[k])
  BY <1>2, ReadingSteps
<1> DEFINE ccc == [k \in 0..(m + n) |-> IF k <= m THEN acc[k] ELSE bcc[k - m]]
<1>7. /\ \A k \in 0..m : ccc[k] = acc[k]
      /\ \A k \in 0..n : ccc[k + m] = bcc[k]
  <2>1. ASSUME NEW k \in 0..m PROVE ccc[k] = acc[k]
    OBVIOUS
  <2>2. ASSUME NEW k \in 0..n PROVE ccc[k + m] = bcc[k]
    <3>1. CASE k = 0
      BY <1>5, <1>6, <3>1
    <3>2. CASE k # 0
      <4>1. k + m \in 0..(m + n) /\ ~(k + m <= m) /\ (k + m) - m = k
        BY <3>2
      <4> QED
        BY <4>1
    <3> QED
      BY <3>1, <3>2
  <2> QED
    BY <2>1, <2>2
<1> HIDE DEF ccc
<1>8. ASSUME NEW k \in 1..(m + n) PROVE ccc[k] = CsvRead(ccc[k - 1], both[k])
  <2>1. CASE k <= m
    <3>1. k \in 1..m /\ k \in 0..m /\ k - 1 \in 0..m
      BY <2>1
    <3>2. ccc[k] = acc[k] /\ ccc[k - 1] = acc[k - 1]
      BY <1>7, <3>1
    <3>3. both[k] = t[k]
      BY <1>3, <2>1
    <3> QED
      BY <1>4, <3>1, <3>2, <3>3
  <2>2. CASE ~(k <= m)
    <3>1. PICK j \in 1..n : k = j + m /\ j = k - m
      BY <2>2
    <3>2. j \in 0..n /\ j - 1 \in 0..n /\ k - 1 = (j - 1) + m
      BY <3>1
    <3>3. ccc[j + m] = bcc[j] /\ ccc[(j - 1) + m] = bcc[j - 1]
      BY <1>7, <3>2
    <3>4. both[k] = u[j]
      BY <1>3, <2>2, <3>1
    <3>5. bcc[j] = CsvRead(bcc[j - 1], u[j])
      BY <1>6
    <3> QED
      BY <3>1, <3>2, <3>3, <3>4, <3>5
  <2> QED
    BY <2>1, <2>2
<1>9. ccc[0] = s /\ ccc[m + n] = bcc[n]
  <2>1. 0 \in 0..m /\ n \in 0..n /\ n + m = m + n
    OBVIOUS
  <2> QED
    BY <1>4, <1>7, <2>1
<1>10. Reads(s, both) = ccc[m + n]
  <2>1. m + n \in Nat /\ m + n = Len(both)
    BY <1>3
  <2>2. Leads(ccc, s, both, m + n)
    BY <1>8, <1>9 DEF Leads
  <2> QED
    BY <2>1, <2>2, ReadsAre
<1> QED
  BY <1>3, <1>5, <1>6, <1>9, <1>10

(* The first elements of a sequence. *)
First(s, k) == SubSeq(s, 1, k)

LEMMA FirstIs ==
  ASSUME NEW S, NEW s \in Seq(S)
  PROVE  /\ First(s, 0) = <<>> /\ First(s, Len(s)) = s
         /\ \A k \in 1..Len(s) : First(s, k) = Append(First(s, k - 1), s[k])
<1>1. First(s, 0) = <<>>
  BY SubSeqEmpty DEF First
<1>2. First(s, Len(s)) = s
  BY SubSeqFull DEF First
<1>3. ASSUME NEW k \in 1..Len(s) PROVE First(s, k) = Append(First(s, k - 1), s[k])
  <2>1. PICK n \in Nat : n = Len(s)
    OBVIOUS
  <2>2. \A i \in 1..n : s[i] \in S
    BY <2>1
  <2>3. PICK h \in Nat : h = k - 1 /\ k = h + 1 /\ k \in 1..n /\ h <= n
    BY <2>1
  <2>4. PICK t \in Seq(S) : t = SubSeq(s, 1, h) /\ Len(t) = h /\ \A i \in 1..h : t[i] = s[i]
    <3>1. SubSeq(s, 1, h) \in Seq(S) /\ Len(SubSeq(s, 1, h)) = h /\ Starts(SubSeq(s, 1, h), s)
      BY <2>1, <2>3, CutIs
    <3> QED
      BY <3>1 DEF Starts
  <2>5. PICK u \in Seq(S) : u = SubSeq(s, 1, k) /\ Len(u) = k /\ \A i \in 1..k : u[i] = s[i]
    <3>1. k \in Nat /\ k <= Len(s)
      BY <2>1, <2>3
    <3>2. SubSeq(s, 1, k) \in Seq(S) /\ Len(SubSeq(s, 1, k)) = k /\ Starts(SubSeq(s, 1, k), s)
      BY <3>1, CutIs
    <3> QED
      BY <3>2 DEF Starts
  <2>6. PICK e \in S : e = s[k]
    BY <2>2, <2>3
  <2>7. PICK v \in Seq(S) : v = Append(t, e)
    BY AppendIs
  <2>8. Len(v) = h + 1 /\ v[h + 1] = e /\ \A i \in 1..h : v[i] = t[i]
    BY <2>4, <2>7, AppendIs
  <2>9. \A i \in 1..k : u[i] = v[i]
    BY <2>3, <2>4, <2>5, <2>6, <2>8
  <2>10. u = v
    <3>1. Len(u) = Len(v) /\ \A i \in 1..Len(u) : u[i] = v[i]
      BY <2>3, <2>5, <2>8, <2>9
    <3> QED
      BY <3>1, SeqEqual
  <2> QED
    BY <2>3, <2>4, <2>5, <2>6, <2>7, <2>10 DEF First
<1> QED
  BY <1>1, <1>2, <1>3

LEMMA FirstType ==
  ASSUME NEW S, NEW s \in Seq(S), NEW k \in 0..Len(s)
  PROVE  First(s, k) \in Seq(S)
<1>1. k \in Nat /\ k <= Len(s)
  OBVIOUS
<1> QED
  BY <1>1, CutIs DEF First

LEMMA ReaderIs ==
  ASSUME NEW rows \in Seq(Cells), NEW row \in Cells, NEW cell \in Seq(Char),
         NEW q \in BOOLEAN, NEW p \in BOOLEAN
  PROVE  Reader(rows, row, cell, q, p) \in Readers
BY DEF Reader, Readers

(* A character is taken as it is, outside and inside quotes. *)
TakenOutside(rows, row, cell, char) ==
  CsvRead(Reader(rows, row, cell, FALSE, FALSE), char) = Reader(rows, row, Append(cell, char), FALSE, FALSE)
TakenInside(rows, row, cell, char) ==
  CsvRead(Reader(rows, row, cell, TRUE, FALSE), char) = Reader(rows, row, Append(cell, char), TRUE, FALSE)

LEMMA ReaderTakes ==
  ASSUME NEW rows, NEW row, NEW cell, NEW char, char # "quote"
  PROVE  /\ TakenInside(rows, row, cell, char)
         /\ char \notin {",", "newline", "cr"} => TakenOutside(rows, row, cell, char)
<1>1. TakenInside(rows, row, cell, char)
  BY DEF CsvRead, Reader, TakenInside
<1>2. char \notin {",", "newline", "cr"} => TakenOutside(rows, row, cell, char)
  BY DEF CsvRead, Reader, TakenOutside
<1> QED
  BY <1>1, <1>2

LEMMA ReadsTwo ==
  ASSUME NEW s \in Readers, NEW t \in Seq(Char), NEW u \in Seq(Char),
         NEW mid \in Readers, Reads(s, t) = mid
  PROVE  t \o u \in Seq(Char) /\ Reads(s, t \o u) = Reads(mid, u)
BY ReadsBoth

(* A text as it is, without the characters that matter. *)
LEMMA PlainIs ==
  ASSUME NEW rows \in Seq(Cells), NEW row \in Cells, NEW text \in Seq(Char),
         ~NeedsQuotes(text), ~BareReturn(text)
  PROVE  Reads(Reader(rows, row, <<>>, FALSE, FALSE), text) = Reader(rows, row, text, FALSE, FALSE)
<1> DEFINE s == Reader(rows, row, <<>>, FALSE, FALSE)
<1>1. PICK n \in Nat : n = Len(text) /\ DOMAIN text = 1..n
  OBVIOUS
<1>2. \A k \in 1..n : text[k] \notin {"quote", ",", "newline", "cr"}
  BY <1>1 DEF NeedsQuotes, BareReturn, ToSet
<1>3. s \in Readers
  <2>1. <<>> \in Seq(Char)
    OBVIOUS
  <2> QED
    BY <2>1, ReaderIs
<1> DEFINE acc == [k \in 0..n |-> Reader(rows, row, First(text, k), FALSE, FALSE)]
<1>4. acc[0] = s /\ acc[n] = Reader(rows, row, text, FALSE, FALSE)
  <2>1. First(text, 0) = <<>> /\ First(text, n) = text
    BY <1>1, FirstIs
  <2>2. /\ acc[0] = Reader(rows, row, First(text, 0), FALSE, FALSE)
        /\ acc[n] = Reader(rows, row, First(text, n), FALSE, FALSE)
    OBVIOUS
  <2> QED
    BY Zenon, <2>1, <2>2
<1>5. ASSUME NEW k \in 1..n PROVE acc[k] = CsvRead(acc[k - 1], text[k])
  <2>1. First(text, k) = Append(First(text, k - 1), text[k])
    BY <1>1, FirstIs
  <2>2. CsvRead(Reader(rows, row, First(text, k - 1), FALSE, FALSE), text[k])
          = Reader(rows, row, Append(First(text, k - 1), text[k]), FALSE, FALSE)
    <3>1. text[k] # "quote" /\ text[k] \notin {",", "newline", "cr"}
      BY <1>2
    <3>2. TakenOutside(rows, row, First(text, k - 1), text[k])
      BY <3>1, ReaderTakes
    <3> QED
      BY Zenon, <3>2 DEF TakenOutside
  <2>3. /\ acc[k] = Reader(rows, row, First(text, k), FALSE, FALSE)
        /\ acc[k - 1] = Reader(rows, row, First(text, k - 1), FALSE, FALSE)
    OBVIOUS
  <2> QED
    BY Zenon, <2>1, <2>2, <2>3
<1> HIDE DEF acc, s
<1>6. Leads(acc, s, text, n)
  BY <1>4, <1>5 DEF Leads
<1>7. Reads(s, text) = acc[n]
  BY <1>1, <1>3, <1>6, ReadsAre
<1> QED
  BY <1>4, <1>7 DEF s

LEMMA QuoteType ==
  ASSUME NEW text \in Seq(Char), NEW char \in Char
  PROVE  Quote(text, char) \in Seq(Char)
<1>1. <<char, char>> \in Seq(Char) /\ <<char>> \in Seq(Char)
  OBVIOUS
<1> QED
  BY <1>1, ConcatProperties DEF Quote

LEMMA SpecialChars == "quote" \in Char /\ "," \in Char /\ "newline" \in Char
BY CharAssumption

LEMMA OneChar == \A char \in Char : <<char>> \in Seq(Char)
OBVIOUS

(* A text in quotes, one character after the other. *)
LEMMA QuoteSteps ==
  ASSUME NEW text \in Seq(Char)
  PROVE  \E acc \in [0..Len(text) -> Seq(Char)] :
           /\ acc[0] = <<"quote">> /\ FoldLeft(Quote, <<"quote">>, text) = acc[Len(text)]
           /\ \A k \in 1..Len(text) : acc[k] = Quote(acc[k - 1], text[k])
<1> DEFINE n == Len(text)
           X == Seq(Char)
           base == <<"quote">>
           Eq(it) == it = [t \in SUBSET (1..n) |->
                             IF t = {} THEN base ELSE Quote(it[t \ {Max(t)}], text[Max(t)])]
           iter == CHOOSE it : Eq(it)
<1>1. n \in Nat /\ DOMAIN text = 1..n /\ \A k \in 1..n : text[k] \in Char
  OBVIOUS
<1>2. FoldLeft(Quote, <<"quote">>, text) = iter[1..n]
  BY <1>1 DEF FoldLeft, MapThenFoldSet
<1>3. base \in X /\ \A y \in X, e \in Char : Quote(y, e) \in X
  BY QuoteType, OneChar, SpecialChars
<1> HIDE DEF X, base
<1>4. PICK step \in [1..n -> [X -> X]] :
        \A k \in 1..n, y \in X : step[k][y] = Quote(y, text[k])
  <2>1. [k \in 1..n |-> [y \in X |-> Quote(y, text[k])]] \in [1..n -> [X -> X]]
    BY <1>1, <1>3
  <2> QED
    BY <2>1
<1>5. PICK it \in [SUBSET (1..n) -> X] : Iterates(it, base, step, n)
  BY <1>1, <1>3, <1>4, Iteration
<1>6. Eq(it)
  <2>1. ASSUME NEW t \in SUBSET (1..n), t # {}
        PROVE  it[t] = Quote(it[t \ {Max(t)}], text[Max(t)])
    <3>1. Max(t) \in 1..n /\ t \ {Max(t)} \in SUBSET (1..n)
      BY <1>1, <2>1, IterationPlaces
    <3>2. it[t] = step[Max(t)][it[t \ {Max(t)}]]
      BY <1>5, <2>1 DEF Iterates
    <3> QED
      BY <1>4, <1>5, <3>1, <3>2
  <2> QED
    BY <1>5, <2>1 DEF Iterates
<1>7. Eq(iter)
  BY <1>6
<1> HIDE DEF iter
<1>8. iter[1..0] = base
  BY <1>1, <1>7, IterationPlaces
<1>9. ASSUME NEW k \in 1..n PROVE iter[1..k] = Quote(iter[1..(k-1)], text[k])
  <2>1. 1..k # {} /\ 1..k \in SUBSET (1..n) /\ Max(1..k) = k /\ (1..k) \ {k} = 1..(k-1)
    BY <1>1, IterationPlaces
  <2>2. iter[1..k] = Quote(iter[(1..k) \ {Max(1..k)}], text[Max(1..k)])
    BY <1>7, <2>1
  <2> QED
    BY <2>1, <2>2
<1>10. \A k \in 0..n : iter[1..k] \in X
  <2>1. iter[1..0] \in X
    BY <1>3, <1>8
  <2>2. \A k \in 1..n : iter[1..(k-1)] \in X => iter[1..k] \in X
    BY <1>1, <1>3, <1>9
  <2> QED
    BY <1>1, <2>1, <2>2, StepsStay
<1> DEFINE acc == [k \in 0..n |-> iter[1..k]]
<1>11. acc \in [0..n -> X] /\ acc[0] = base /\ acc[n] = iter[1..n]
         /\ \A k \in 1..n : acc[k] = iter[1..k] /\ acc[k - 1] = iter[1..(k-1)]
  BY <1>1, <1>8, <1>10
<1>12. \A k \in 1..n : acc[k] = Quote(acc[k - 1], text[k])
  BY <1>9, <1>11
<1> HIDE DEF acc
<1> QED
  BY <1>2, <1>11, <1>12 DEF X, base

(* A text in quotes: the quotes in it are doubled, and nothing else ends it. *)
LEMMA QuotedIs ==
  ASSUME NEW rows \in Seq(Cells), NEW row \in Cells, NEW text \in Seq(Char)
  PROVE  LET quoted == FoldLeft(Quote, <<"quote">>, text) \o <<"quote">>
         IN quoted \in Seq(Char)
              /\ Reads(Reader(rows, row, <<>>, FALSE, FALSE), quoted) = Reader(rows, row, text, TRUE, TRUE)
<1> DEFINE s == Reader(rows, row, <<>>, FALSE, FALSE)
           Inside(cell) == Reader(rows, row, cell, TRUE, FALSE)
<1>1. PICK n \in Nat : n = Len(text) /\ DOMAIN text = 1..n
  OBVIOUS
<1>2. PICK acc \in [0..n -> Seq(Char)] :
        /\ acc[0] = <<"quote">> /\ FoldLeft(Quote, <<"quote">>, text) = acc[n]
        /\ \A k \in 1..n : acc[k] = Quote(acc[k - 1], text[k])
  BY <1>1, QuoteSteps
<1>3. "quote" \in Char
  BY SpecialChars
<1>4. s \in Readers
  <2>1. <<>> \in Seq(Char)
    OBVIOUS
  <2> QED
    BY <2>1, ReaderIs
<1>5. \A k \in 0..n : First(text, k) \in Seq(Char) /\ Inside(First(text, k)) \in Readers
  BY <1>1, FirstType, ReaderIs
<1> HIDE DEF s, Inside
<1> DEFINE S == {k \in 0..n : Reads(s, acc[k]) = Inside(First(text, k))}
<1>6. 0 \in S
  <2>1. Reads(s, <<"quote">>) = CsvRead(s, "quote")
    BY <1>3, <1>4, ReadsOne
  <2>2. CsvRead(s, "quote") = Inside(<<>>)
    BY Zenon, ReaderSteps DEF s, Inside
  <2>3. First(text, 0) = <<>>
    BY FirstIs
  <2>4. Reads(s, acc[0]) = Inside(First(text, 0))
    BY Zenon, <1>2, <2>1, <2>2, <2>3
  <2> QED
    BY <2>4
<1>7. ASSUME NEW k \in 1..n, k - 1 \in S PROVE k \in S
  <2>1. PICK h \in 0..n : h = k - 1
    OBVIOUS
  <2>2. PICK cell \in Seq(Char), char \in Char, before \in Seq(Char) :
          cell = First(text, h) /\ char = text[k] /\ before = acc[h]
    BY <1>1, <1>5
  <2>3. Reads(s, before) = Inside(cell) /\ Inside(cell) \in Readers
    BY <1>5, <1>7, <2>1, <2>2
  <2>4. First(text, k) = Append(cell, char) /\ acc[k] = Quote(before, char)
    BY <1>1, <1>2, <2>1, <2>2, FirstIs
  <2>5. Reads(s, Quote(before, char)) = Inside(Append(cell, char))
    <3>1. CASE char # "quote"
      <4>1. Quote(before, char) = before \o <<char>>
        BY <3>1 DEF Quote
      <4>2. Reads(s, before \o <<char>>) = Reads(Inside(cell), <<char>>)
        <5>1. PICK one \in Seq(Char) : one = <<char>>
          BY OneChar
        <5>2. PICK mid \in Readers : mid = Inside(cell)
          BY <2>3
        <5>3. Reads(s, before) = mid
          BY <2>3, <5>2
        <5>4. Reads(s, before \o one) = Reads(mid, one)
          BY <1>4, <5>3, ReadsTwo
        <5> QED
          BY <5>1, <5>2, <5>4
      <4>3. Reads(Inside(cell), <<char>>) = CsvRead(Inside(cell), char)
        BY <2>3, ReadsOne
      <4>4. CsvRead(Inside(cell), char) = Inside(Append(cell, char))
        <5>1. TakenInside(rows, row, cell, char)
          BY <3>1, ReaderTakes
        <5> QED
          BY Zenon, <5>1 DEF Inside, TakenInside
      <4> QED
        BY <4>1, <4>2, <4>3, <4>4
    <3>2. CASE char = "quote"
      <4>1. Quote(before, char) = before \o <<char, char>>
        BY <3>2 DEF Quote
      <4>2. PICK one \in Seq(Char) : one = <<char>>
        BY OneChar
      <4>3. <<char, char>> = one \o one /\ <<char, char>> \in Seq(Char)
        BY <4>2
      <4>4. PICK pair \in Seq(Char) : pair = <<char, char>> /\ pair = one \o one
        BY <4>3
      <4>5. Reads(s, before \o pair) = Reads(Inside(cell), pair)
        BY <1>4, <2>3, ReadsBoth
      <4>6. Reads(Inside(cell), one \o one) = Reads(Reads(Inside(cell), one), one)
              /\ Reads(Inside(cell), one) \in Readers
        BY <2>3, ReadsBoth
      <4>7. Reads(Inside(cell), one) = CsvRead(Inside(cell), char)
        BY <2>3, <4>2, ReadsOne
      <4>8. Reads(Reads(Inside(cell), one), one) = CsvRead(CsvRead(Inside(cell), char), char)
        BY <4>2, <4>6, <4>7, ReadsOne
      <4>9. CsvRead(CsvRead(Inside(cell), char), char) = Inside(Append(cell, char))
        <5>1. CsvRead(Inside(cell), "quote") = Reader(rows, row, cell, TRUE, TRUE)
          BY Zenon, ReaderSteps DEF Inside
        <5>2. CsvRead(Reader(rows, row, cell, TRUE, TRUE), "quote") = Inside(Append(cell, "quote"))
          BY Zenon, ReaderSteps DEF Inside
        <5> QED
          BY Zenon, <3>2, <5>1, <5>2
      <4> QED
        BY <4>1, <4>4, <4>5, <4>6, <4>8, <4>9
    <3> QED
      BY <3>1, <3>2
  <2> QED
    <3>1. Reads(s, acc[k]) = Inside(First(text, k))
      BY Zenon, <2>4, <2>5
    <3> QED
      BY <3>1
<1>8. n \in S
  <2> HIDE DEF S
  <2>1. \A k \in 0..n : k \in S
    BY <1>6, <1>7, InductionTo
  <2> QED
    BY <2>1
<1>9. Reads(s, acc[n]) = Inside(text) /\ acc[n] \in Seq(Char) /\ Inside(text) \in Readers
  BY <1>1, <1>5, <1>8, FirstIs
<1>10. /\ acc[n] \o <<"quote">> \in Seq(Char)
       /\ Reads(s, acc[n] \o <<"quote">>) = Reads(Inside(text), <<"quote">>)
  <2>1. PICK one \in Seq(Char) : one = <<"quote">>
    BY <1>3, OneChar
  <2>2. PICK before \in Seq(Char) : before = acc[n]
    BY <1>9
  <2>3. PICK mid \in Readers : mid = Inside(text)
    BY <1>9
  <2>4. Reads(s, before) = mid
    BY <1>9, <2>2, <2>3
  <2>5. before \o one \in Seq(Char) /\ Reads(s, before \o one) = Reads(mid, one)
    BY <1>4, <2>4, ReadsTwo
  <2> QED
    BY <2>1, <2>2, <2>3, <2>5
<1>11. Reads(Inside(text), <<"quote">>) = Reader(rows, row, text, TRUE, TRUE)
  BY Zenon, <1>3, <1>9, ReadsOne, ReaderSteps DEF Inside
<1> QED
  BY <1>2, <1>10, <1>11 DEF s

(* However a cell is written, *)
LEMMA EscapeType ==
  ASSUME NEW text \in Seq(Char)
  PROVE  EscapeCsv(text) \in Seq(Char)
<1>1. <<>> \in Seq(Cells) /\ <<>> \in Cells
  BY DEF Cells
<1>2. FoldLeft(Quote, <<"quote">>, text) \o <<"quote">> \in Seq(Char)
  BY <1>1, QuotedIs
<1> QED
  BY <1>2 DEF EscapeCsv

(* it is read as it was, *)
LEMMA CellIs ==
  ASSUME NEW rows \in Seq(Cells), NEW row \in Cells, NEW text \in Seq(Char),
         ~BareReturn(text)
  PROVE  \E q \in BOOLEAN :
           Reads(Reader(rows, row, <<>>, FALSE, FALSE), EscapeCsv(text)) = Reader(rows, row, text, q, q)
<1>1. CASE NeedsQuotes(text)
  <2>1. EscapeCsv(text) = FoldLeft(Quote, <<"quote">>, text) \o <<"quote">>
    BY <1>1 DEF EscapeCsv
  <2> QED
    BY <2>1, QuotedIs
<1>2. CASE ~NeedsQuotes(text)
  <2>1. EscapeCsv(text) = text
    BY <1>2 DEF EscapeCsv
  <2> QED
    BY <1>2, <2>1, PlainIs
<1> QED
  BY <1>1, <1>2

(* unless it has a bare carriage return.  A row that was read wrong stays. *)
Spoilt(s, n, line) == n \in 1..Len(s.rows) /\ s.rows[n] # line

LEMMA SpoiltStep ==
  ASSUME NEW s \in Readers, NEW char \in Char, NEW n, NEW line, Spoilt(s, n, line)
  PROVE  Spoilt(CsvRead(s, char), n, line)
<1>1. CASE CsvRead(s, char).rows = s.rows
  BY <1>1 DEF Spoilt
<1>2. CASE \E row \in Cells : CsvRead(s, char).rows = Append(s.rows, row)
  <2>1. PICK row \in Cells : CsvRead(s, char).rows = Append(s.rows, row)
    BY <1>2
  <2>2. PICK rows \in Seq(Cells), m \in Nat : rows = s.rows /\ m = Len(rows)
    BY DEF Readers
  <2>3. /\ Len(Append(rows, row)) = m + 1
        /\ \A i \in 1..m : Append(rows, row)[i] = rows[i]
    BY <2>2, AppendProperties
  <2>4. n \in 1..m /\ rows[n] # line
    BY <2>2 DEF Spoilt
  <2>5. n \in 1..(m + 1) /\ Append(rows, row)[n] # line
    BY <2>3, <2>4
  <2> QED
    BY <2>1, <2>2, <2>3, <2>5 DEF Spoilt
<1> QED
  BY <1>1, <1>2, ReaderType

LEMMA SpoiltStays ==
  ASSUME NEW s \in Readers, NEW t \in Seq(Char), NEW u \in Seq(Char), NEW n, NEW line,
         Spoilt(Reads(s, t), n, line)
  PROVE  t \o u \in Seq(Char) /\ Spoilt(Reads(s, t \o u), n, line)
<1>1. PICK mid \in Readers : mid = Reads(s, t) /\ Reads(s, t \o u) = Reads(mid, u)
  BY ReadsBoth
<1>2. PICK m \in Nat : m = Len(u) /\ \A k \in 1..m : u[k] \in Char
  OBVIOUS
<1>3. PICK acc \in [0..m -> Readers] :
        /\ acc[0] = mid /\ Reads(mid, u) = acc[m]
        /\ \A k \in 1..m : acc[k] = CsvRead(acc[k - 1], u[k])
  BY <1>2, ReadingSteps
<1> DEFINE S == {k \in 0..m : Spoilt(acc[k], n, line)}
<1>4. 0 \in S
  BY <1>1, <1>3
<1>5. ASSUME NEW k \in 1..m, k - 1 \in S PROVE k \in S
  <2>1. PICK a \in Readers, char \in Char : a = acc[k - 1] /\ char = u[k]
    BY <1>2, <1>3
  <2>2. Spoilt(a, n, line)
    BY <1>5, <2>1
  <2>3. Spoilt(CsvRead(a, char), n, line)
    BY <2>2, SpoiltStep
  <2>4. Spoilt(acc[k], n, line)
    BY <1>3, <2>1, <2>3
  <2> QED
    BY <2>4
<1>6. m \in S
  <2> HIDE DEF S
  <2>1. \A k \in 0..m : k \in S
    BY <1>4, <1>5, InductionTo
  <2> QED
    BY <2>1
<1>7. t \o u \in Seq(Char)
  BY ReadsBoth
<1> QED
  BY <1>1, <1>3, <1>6, <1>7

(* A carriage return outside quotes ends a row. *)
ReturnEndsRow(rows, row, cell) ==
  CsvRead(Reader(rows, row, cell, FALSE, FALSE), "cr").rows = Append(rows, Append(row, cell))

LEMMA ReaderReturns ==
  ASSUME NEW rows, NEW row, NEW cell
  PROVE  ReturnEndsRow(rows, row, cell)
BY DEF ReturnEndsRow, CsvRead, Reader, CsvStart

(* The row ends within the cell. *)
LEMMA BareSpoils ==
  ASSUME NEW rows \in Seq(Cells), NEW row \in Cells, NEW text \in Seq(Char), BareReturn(text),
         NEW line \in Cells, NEW m \in Nat, m = Len(row), line[m + 1] = text
  PROVE  Spoilt(Reads(Reader(rows, row, <<>>, FALSE, FALSE), text), Len(rows) + 1, line)
<1> DEFINE s == Reader(rows, row, <<>>, FALSE, FALSE)
<1>1. PICK n \in Nat : n = Len(text) /\ DOMAIN text = 1..n /\ \A k \in 1..n : text[k] \in Char
  OBVIOUS
<1>2. \A k \in 1..n : text[k] \notin {"quote", ",", "newline"}
  BY <1>1 DEF BareReturn, NeedsQuotes, ToSet
<1>3. PICK r \in 1..n : text[r] = "cr" /\ \A k \in 1..n : text[k] = "cr" => r <= k
  <2> DEFINE R == {k \in 1..n : text[k] = "cr"}
  <2>1. R \in SUBSET Nat /\ R # {}
    BY <1>1 DEF BareReturn, ToSet
  <2>2. Min(R) \in R /\ \A k \in R : Min(R) <= k
    BY <2>1, LeastNatural
  <2> QED
    BY <2>2
<1>4. s \in Readers
  <2>1. <<>> \in Seq(Char)
    OBVIOUS
  <2> QED
    BY <2>1, ReaderIs
<1>5. PICK acc \in [0..n -> Readers] :
        /\ acc[0] = s /\ Reads(s, text) = acc[n]
        /\ \A k \in 1..n : acc[k] = CsvRead(acc[k - 1], text[k])
  <2> HIDE DEF s
  <2>1. \E acc \in [0..Len(text) -> Readers] :
          /\ acc[0] = s /\ Reads(s, text) = acc[Len(text)]
          /\ \A k \in 1..Len(text) : acc[k] = CsvRead(acc[k - 1], text[k])
    BY <1>4, ReadingSteps
  <2> QED
    BY Zenon, <1>1, <2>1
<1> DEFINE Before(k) == Reader(rows, row, First(text, k), FALSE, FALSE)
           N == Len(rows) + 1
           S == {k \in 0..n : /\ k < r => acc[k] = Before(k)
                              /\ k >= r => Spoilt(acc[k], N, line)}
<1>6. 0 \in S
  <2>1. First(text, 0) = <<>>
    BY FirstIs
  <2>2. acc[0] = Before(0)
    BY Zenon, <1>5, <2>1
  <2> HIDE DEF Before
  <2> QED
    BY <2>2
<1>7. ASSUME NEW k \in 1..n, k - 1 \in S PROVE k \in S
  <2>1. PICK h \in 0..n : h = k - 1 /\ k = h + 1
    OBVIOUS
  <2>2. acc[k] = CsvRead(acc[h], text[k]) /\ First(text, k) = Append(First(text, h), text[k])
    <3>1. k \in 1..Len(text)
      BY <1>1
    <3>2. First(text, k) = Append(First(text, k - 1), text[k])
      BY <3>1, FirstIs
    <3> QED
      BY Zenon, <1>5, <2>1, <3>2
  <2>3. CASE k < r
    <3>1. acc[h] = Before(h)
      <4> HIDE DEF Before
      <4>1. h < r /\ h \in S
        BY <1>7, <2>1, <2>3
      <4> QED
        BY <4>1
    <3>2. text[k] # "quote" /\ text[k] \notin {",", "newline", "cr"}
      <4>1. text[k] # "cr"
        BY <1>3, <2>3
      <4> QED
        BY <1>2, <4>1
    <3>3. TakenOutside(rows, row, First(text, h), text[k])
      BY <3>2, ReaderTakes
    <3>4. acc[k] = Before(k)
      BY Zenon, <2>2, <3>1, <3>3 DEF TakenOutside
    <3> HIDE DEF Before
    <3> QED
      BY <2>3, <3>4
  <2>4. CASE k = r
    <3>1. acc[h] = Before(h)
      <4> HIDE DEF Before
      <4>1. h < r /\ h \in S
        BY <1>7, <2>1, <2>4
      <4> QED
        BY <4>1
    <3>2. PICK cell \in Seq(Char) : cell = First(text, h) /\ Len(cell) = h
      <4>1. h \in Nat /\ h <= Len(text)
        BY <1>1
      <4> QED
        BY <4>1, CutIs DEF First
    <3>3. cell # text
      BY <1>1, <2>1, <3>2
    <3>4. PICK ended \in Cells : ended = Append(row, cell) /\ ended[m + 1] = cell
      BY AppendProperties DEF Cells
    <3>5. ended # line
      BY <3>3, <3>4
    <3>6. PICK all \in Seq(Cells) :
            all = Append(rows, ended) /\ Len(all) = N /\ all[N] = ended
      BY AppendProperties
    <3>7. acc[k].rows = all
      <4>1. ReturnEndsRow(rows, row, cell)
        BY ReaderReturns
      <4>2. CsvRead(Reader(rows, row, cell, FALSE, FALSE), "cr").rows = all
        BY Zenon, <3>4, <3>6, <4>1 DEF ReturnEndsRow
      <4>3. acc[k] = CsvRead(Reader(rows, row, cell, FALSE, FALSE), "cr")
        BY Zenon, <1>3, <2>2, <2>4, <3>1, <3>2
      <4> QED
        BY Zenon, <4>2, <4>3
    <3>8. Len(rows) \in Nat /\ N \in 1..N
      OBVIOUS
    <3>9. Spoilt(acc[k], N, line)
      BY <3>5, <3>6, <3>7, <3>8 DEF Spoilt
    <3> HIDE DEF Before, N
    <3> QED
      BY <2>4, <3>9
  <2>5. CASE k > r
    <3>1. PICK a \in Readers, char \in Char : a = acc[h] /\ char = text[k]
      BY <1>1, <1>5
    <3>2. Spoilt(a, N, line)
      <4> HIDE DEF Before, N
      <4>1. h >= r /\ h \in S
        BY <1>7, <2>1, <2>5
      <4> QED
        BY <3>1, <4>1
    <3>3. Spoilt(CsvRead(a, char), N, line)
      BY <3>2, SpoiltStep
    <3>4. Spoilt(acc[k], N, line)
      BY Zenon, <2>2, <3>1, <3>3
    <3> HIDE DEF Before, N
    <3> QED
      BY <2>5, <3>4
  <2>6. k < r \/ k = r \/ k > r
    <3>1. k \in Nat /\ r \in Nat
      OBVIOUS
    <3> QED
      BY <3>1
  <2> QED
    BY Zenon, <2>3, <2>4, <2>5, <2>6
<1>8. n \in S
  <2> HIDE DEF S
  <2>1. \A k \in 0..n : k \in S
    BY <1>6, <1>7, InductionTo
  <2> QED
    BY <2>1
<1>9. Spoilt(acc[n], N, line)
  BY <1>8
<1> QED
  BY <1>5, <1>9

LEMMA CellType ==
  ASSUME NEW line \in Seq(Char), NEW cell \in Seq(Char)
  PROVE  AddCell(line, cell) \in Seq(Char)
<1>1. EscapeCsv(cell) \in Seq(Char)
  BY EscapeType
<1>2. <<",">> \in Seq(Char)
  BY SpecialChars, OneChar
<1> QED
  BY <1>1, <1>2, ConcatProperties DEF AddCell

(* A line, one cell after the other. *)
LEMMA CellSteps ==
  ASSUME NEW first \in Seq(Char), NEW cells \in Seq(Seq(Char))
  PROVE  \E acc \in [0..Len(cells) -> Seq(Char)] :
           /\ acc[0] = first /\ FoldLeft(AddCell, first, cells) = acc[Len(cells)]
           /\ \A k \in 1..Len(cells) : acc[k] = AddCell(acc[k - 1], cells[k])
<1> DEFINE n == Len(cells)
           X == Seq(Char)
           base == first
           Eq(it) == it = [t \in SUBSET (1..n) |->
                             IF t = {} THEN base ELSE AddCell(it[t \ {Max(t)}], cells[Max(t)])]
           iter == CHOOSE it : Eq(it)
<1>1. n \in Nat /\ DOMAIN cells = 1..n /\ \A k \in 1..n : cells[k] \in Seq(Char)
  OBVIOUS
<1>2. FoldLeft(AddCell, first, cells) = iter[1..n]
  BY <1>1 DEF FoldLeft, MapThenFoldSet
<1>3. base \in X /\ \A y \in X, e \in Seq(Char) : AddCell(y, e) \in X
  BY CellType
<1> HIDE DEF X, base
<1>4. PICK step \in [1..n -> [X -> X]] :
        \A k \in 1..n, y \in X : step[k][y] = AddCell(y, cells[k])
  <2>1. [k \in 1..n |-> [y \in X |-> AddCell(y, cells[k])]] \in [1..n -> [X -> X]]
    BY <1>1, <1>3
  <2> QED
    BY <2>1
<1>5. PICK it \in [SUBSET (1..n) -> X] : Iterates(it, base, step, n)
  BY <1>1, <1>3, <1>4, Iteration
<1>6. Eq(it)
  <2>1. ASSUME NEW t \in SUBSET (1..n), t # {}
        PROVE  it[t] = AddCell(it[t \ {Max(t)}], cells[Max(t)])
    <3>1. Max(t) \in 1..n /\ t \ {Max(t)} \in SUBSET (1..n)
      BY <1>1, <2>1, IterationPlaces
    <3>2. it[t] = step[Max(t)][it[t \ {Max(t)}]]
      BY <1>5, <2>1 DEF Iterates
    <3> QED
      BY <1>4, <1>5, <3>1, <3>2
  <2> QED
    BY <1>5, <2>1 DEF Iterates
<1>7. Eq(iter)
  BY <1>6
<1> HIDE DEF iter
<1>8. iter[1..0] = base
  BY <1>1, <1>7, IterationPlaces
<1>9. ASSUME NEW k \in 1..n PROVE iter[1..k] = AddCell(iter[1..(k-1)], cells[k])
  <2>1. 1..k # {} /\ 1..k \in SUBSET (1..n) /\ Max(1..k) = k /\ (1..k) \ {k} = 1..(k-1)
    BY <1>1, IterationPlaces
  <2>2. iter[1..k] = AddCell(iter[(1..k) \ {Max(1..k)}], cells[Max(1..k)])
    BY <1>7, <2>1
  <2> QED
    BY <2>1, <2>2
<1>10. \A k \in 0..n : iter[1..k] \in X
  <2>1. iter[1..0] \in X
    BY <1>3, <1>8
  <2>2. \A k \in 1..n : iter[1..(k-1)] \in X => iter[1..k] \in X
    BY <1>1, <1>3, <1>9
  <2> QED
    BY <1>1, <2>1, <2>2, StepsStay
<1> DEFINE acc == [k \in 0..n |-> iter[1..k]]
<1>11. acc \in [0..n -> X] /\ acc[0] = base /\ acc[n] = iter[1..n]
         /\ \A k \in 1..n : acc[k] = iter[1..k] /\ acc[k - 1] = iter[1..(k-1)]
  BY <1>1, <1>8, <1>10
<1>12. \A k \in 1..n : acc[k] = AddCell(acc[k - 1], cells[k])
  BY <1>9, <1>11
<1> HIDE DEF acc
<1> QED
  BY <1>2, <1>11, <1>12 DEF X, base

(* A line is read up to the end of its last cell, *)
EndsLine(s, text, rows, line) ==
  \E row \in Cells, cell \in Seq(Char), q \in BOOLEAN :
    Append(row, cell) = line /\ Reads(s, text) = Reader(rows, row, cell, q, q)

(* and the next cell is read after a comma. *)
LEMMA CommaAfter ==
  ASSUME NEW s \in Readers, NEW text \in Seq(Char), NEW rows \in Seq(Cells), NEW line \in Cells,
         NEW cell \in Seq(Char), EndsLine(s, text, rows, line)
  PROVE  Reads(s, AddCell(text, cell)) = Reads(Reader(rows, line, <<>>, FALSE, FALSE), EscapeCsv(cell))
<1>1. PICK row \in Cells, c \in Seq(Char), q \in BOOLEAN :
        Append(row, c) = line /\ Reads(s, text) = Reader(rows, row, c, q, q)
  BY DEF EndsLine
<1>2. PICK a \in Readers : a = Reader(rows, row, c, q, q)
  BY ReaderIs
<1>3. PICK b \in Readers : b = Reader(rows, line, <<>>, FALSE, FALSE)
  <2>1. <<>> \in Seq(Char)
    OBVIOUS
  <2> QED
    BY <2>1, ReaderIs
<1>4. CsvRead(a, ",") = b
  <2>1. EndsCell(rows, row, c, q)
    BY ReaderEnds
  <2> QED
    BY Zenon, <1>1, <1>2, <1>3, <2>1 DEF EndsCell
<1>5. PICK comma \in Seq(Char) : comma = <<",">>
  BY SpecialChars, OneChar
<1>6. Reads(a, comma) = b
  BY <1>4, <1>5, SpecialChars, ReadsOne
<1>7. Reads(s, text) = a
  BY <1>1, <1>2
<1>8. PICK t \in Seq(Char) : t = text \o comma /\ Reads(s, t) = b
  <2>1. text \o comma \in Seq(Char) /\ Reads(s, text \o comma) = Reads(a, comma)
    BY <1>7, ReadsTwo
  <2> QED
    BY <1>6, <2>1
<1>9. PICK u \in Seq(Char) : u = EscapeCsv(cell)
  BY EscapeType
<1>10. Reads(s, t \o u) = Reads(b, u)
  <2>1. Reads(s, t) = b
    BY <1>8
  <2> QED
    BY <2>1, ReadsTwo
<1>11. AddCell(text, cell) = t \o u
  BY <1>5, <1>8, <1>9 DEF AddCell
<1> QED
  BY Zenon, <1>3, <1>9, <1>10, <1>11

LEMMA CellAfter ==
  ASSUME NEW s \in Readers, NEW text \in Seq(Char), NEW rows \in Seq(Cells), NEW line \in Cells,
         NEW cell \in Seq(Char), EndsLine(s, text, rows, line), ~BareReturn(cell)
  PROVE  EndsLine(s, AddCell(text, cell), rows, Append(line, cell))
<1>1. PICK p \in BOOLEAN :
        Reads(Reader(rows, line, <<>>, FALSE, FALSE), EscapeCsv(cell)) = Reader(rows, line, cell, p, p)
  BY CellIs
<1>2. Reads(s, AddCell(text, cell)) = Reader(rows, line, cell, p, p)
  BY Zenon, <1>1, CommaAfter
<1> QED
  BY Zenon, <1>2 DEF EndsLine

LEMMA CellSpoils ==
  ASSUME NEW s \in Readers, NEW text \in Seq(Char), NEW rows \in Seq(Cells), NEW read \in Cells,
         NEW cell \in Seq(Char), EndsLine(s, text, rows, read), BareReturn(cell),
         NEW line \in Cells, NEW m \in Nat, m = Len(read), line[m + 1] = cell
  PROVE  Spoilt(Reads(s, AddCell(text, cell)), Len(rows) + 1, line)
<1>1. EscapeCsv(cell) = cell
  BY DEF BareReturn, EscapeCsv
<1>2. Spoilt(Reads(Reader(rows, read, <<>>, FALSE, FALSE), cell), Len(rows) + 1, line)
  BY BareSpoils
<1>3. Reads(s, AddCell(text, cell)) = Reads(Reader(rows, read, <<>>, FALSE, FALSE), cell)
  <2>1. Reads(s, AddCell(text, cell)) = Reads(Reader(rows, read, <<>>, FALSE, FALSE), EscapeCsv(cell))
    BY CommaAfter
  <2> QED
    BY Zenon, <1>1, <2>1
<1> QED
  BY Zenon, <1>2, <1>3

(* What is read of a line, once its first n cells are. *)
Whole(line, n) == \A c \in 1..n : ~BareReturn(line[c])
LineRead(s, text, rows, line, n) ==
  /\ Whole(line, n) => EndsLine(s, text, rows, First(line, n))
  /\ ~Whole(line, n) => Spoilt(Reads(s, text), Len(rows) + 1, line)

LEMMA WholeNext ==
  ASSUME NEW line, NEW n \in Nat
  PROVE  Whole(line, n + 1) <=> Whole(line, n) /\ ~BareReturn(line[n + 1])
<1>1. \A c : c \in 1..(n + 1) <=> c \in 1..n \/ c = n + 1
  OBVIOUS
<1> QED
  BY Zenon, <1>1 DEF Whole

LEMMA LineReadOn ==
  ASSUME NEW s \in Readers, NEW text \in Seq(Char), NEW rows \in Seq(Cells), NEW line \in Cells,
         NEW n \in Nat, n <= Len(line), NEW cell \in Seq(Char), cell = line[n + 1],
         First(line, n + 1) = Append(First(line, n), cell), LineRead(s, text, rows, line, n)
  PROVE  LineRead(s, AddCell(text, cell), rows, line, n + 1)
<1>1. PICK read \in Cells : read = First(line, n) /\ Len(read) = n
  BY CutIs DEF First, Cells
<1>2. CASE Whole(line, n) /\ ~BareReturn(cell)
  <2>1. EndsLine(s, text, rows, read)
    BY Zenon, <1>1, <1>2 DEF LineRead
  <2>2. EndsLine(s, AddCell(text, cell), rows, Append(read, cell))
    BY <1>2, <2>1, CellAfter
  <2>3. EndsLine(s, AddCell(text, cell), rows, First(line, n + 1))
    BY Zenon, <1>1, <2>2
  <2>4. Whole(line, n + 1)
    BY Zenon, <1>2, WholeNext
  <2> QED
    BY Zenon, <2>3, <2>4 DEF LineRead
<1>3. CASE Whole(line, n) /\ BareReturn(cell)
  <2>1. EndsLine(s, text, rows, read)
    BY Zenon, <1>1, <1>3 DEF LineRead
  <2>2. Spoilt(Reads(s, AddCell(text, cell)), Len(rows) + 1, line)
    BY <1>1, <1>3, <2>1, CellSpoils
  <2>3. ~Whole(line, n + 1)
    BY Zenon, <1>3, WholeNext
  <2> QED
    BY Zenon, <2>2, <2>3 DEF LineRead
<1>4. CASE ~Whole(line, n)
  <2>1. Spoilt(Reads(s, text), Len(rows) + 1, line)
    BY Zenon, <1>4 DEF LineRead
  <2>2. PICK comma \in Seq(Char), u \in Seq(Char) : comma = <<",">> /\ u = EscapeCsv(cell)
    BY SpecialChars, OneChar, EscapeType
  <2>3. PICK t \in Seq(Char) :
          t = text \o comma /\ Spoilt(Reads(s, t), Len(rows) + 1, line)
    BY <2>1, SpoiltStays
  <2>4. Spoilt(Reads(s, t \o u), Len(rows) + 1, line)
    BY <2>3, SpoiltStays
  <2>5. AddCell(text, cell) = t \o u
    BY <2>2, <2>3 DEF AddCell
  <2>6. ~Whole(line, n + 1)
    BY Zenon, <1>4, WholeNext
  <2> QED
    BY Zenon, <2>4, <2>5, <2>6 DEF LineRead
<1> QED
  BY Zenon, <1>2, <1>3, <1>4

(* The pieces of a sequence that is not empty. *)
ArePieces(s, first, rest, m) ==
  /\ first = Head(s) /\ rest = Tail(s) /\ m = Len(rest) /\ Len(s) = m + 1
  /\ Append(<<>>, first) = First(s, 1) /\ First(s, m + 1) = s /\ first = s[1]
  /\ \A k \in 1..m : First(s, k + 1) = Append(First(s, k), rest[k]) /\ rest[k] = s[k + 1]

LEMMA PiecesOf ==
  ASSUME NEW S, NEW s \in Seq(S), s # <<>>
  PROVE  \E first \in S, rest \in Seq(S), m \in Nat : ArePieces(s, first, rest, m)
<1>1. PICK n \in Nat \ {0} : n = Len(s)
  OBVIOUS
<1>2. /\ Head(s) \in S /\ Tail(s) \in Seq(S) /\ Len(Tail(s)) = n - 1
      /\ \A i \in 1..(n - 1) : Tail(s)[i] = s[i + 1]
  BY <1>1, HeadTailProperties
<1>3. Head(s) = s[1]
  BY <1>1
<1>4. PICK first \in S, rest \in Seq(S), m \in Nat :
        /\ first = Head(s) /\ rest = Tail(s) /\ m = n - 1 /\ n = m + 1
        /\ first = s[1] /\ Len(rest) = m
        /\ \A i \in 1..m : rest[i] = s[i + 1]
  <2>1. n - 1 \in Nat /\ n = (n - 1) + 1
    OBVIOUS
  <2> QED
    BY <1>2, <1>3, <2>1
<1>5. /\ First(s, 0) = <<>> /\ First(s, n) = s
      /\ \A k \in 1..n : First(s, k) = Append(First(s, k - 1), s[k])
  BY <1>1, FirstIs
<1>6. Append(<<>>, first) = First(s, 1)
  <2>1. 1 \in 1..n /\ 1 - 1 = 0
    OBVIOUS
  <2> QED
    BY <1>4, <1>5, <2>1
<1>7. ASSUME NEW k \in 1..m PROVE First(s, k + 1) = Append(First(s, k), rest[k])
  <2>1. k + 1 \in 1..n /\ (k + 1) - 1 = k
    BY <1>4
  <2> QED
    BY <1>4, <1>5, <2>1
<1>8. ArePieces(s, first, rest, m)
  BY <1>1, <1>4, <1>5, <1>6, <1>7 DEF ArePieces
<1> QED
  BY <1>8

LEMMA LineIs ==
  ASSUME NEW rows \in Seq(Cells), NEW line \in Cells \ {<<>>}
  PROVE  /\ CsvLine(line) \in Seq(Char)
         /\ LineRead(Reader(rows, <<>>, <<>>, FALSE, FALSE), CsvLine(line), rows, line, Len(line))
<1>1. PICK s \in Readers : s = Reader(rows, <<>>, <<>>, FALSE, FALSE)
  <2>1. <<>> \in Seq(Char) /\ <<>> \in Cells
    BY DEF Cells
  <2> QED
    BY <2>1, ReaderIs
<1>2. line \in Seq(Seq(Char)) /\ line # <<>>
  BY DEF Cells
<1>3. PICK first \in Seq(Char), rest \in Seq(Seq(Char)), m \in Nat : ArePieces(line, first, rest, m)
  BY <1>2, PiecesOf
<1>4. /\ first = Head(line) /\ rest = Tail(line) /\ m = Len(rest) /\ Len(line) = m + 1
      /\ Append(<<>>, first) = First(line, 1) /\ First(line, m + 1) = line /\ first = line[1]
      /\ \A k \in 1..m : First(line, k + 1) = Append(First(line, k), rest[k]) /\ rest[k] = line[k + 1]
  BY <1>3 DEF ArePieces
<1>5. PICK text \in Seq(Char) : text = EscapeCsv(first) /\ LineRead(s, text, rows, line, 1)
  <2>1. PICK text \in Seq(Char) : text = EscapeCsv(first)
    BY EscapeType
  <2>2. <<>> \in Cells /\ Len(<<>>) = 0
    BY DEF Cells
  <2>3. Whole(line, 1) <=> ~BareReturn(first)
    <3>1. \A c : c \in 1..1 <=> c = 1
      OBVIOUS
    <3> QED
      BY Zenon, <1>4, <3>1 DEF Whole
  <2>4. CASE ~BareReturn(first)
    <3>1. PICK q \in BOOLEAN :
            Reads(Reader(rows, <<>>, <<>>, FALSE, FALSE), EscapeCsv(first)) = Reader(rows, <<>>, first, q, q)
      BY <2>2, <2>4, CellIs
    <3>2. Reads(s, text) = Reader(rows, <<>>, first, q, q)
      BY Zenon, <1>1, <2>1, <3>1
    <3>3. EndsLine(s, text, rows, First(line, 1))
      BY Zenon, <1>4, <2>2, <3>2 DEF EndsLine
    <3>4. LineRead(s, text, rows, line, 1)
      BY Zenon, <2>3, <2>4, <3>3 DEF LineRead
    <3> QED
      BY <2>1, <3>4
  <2>5. CASE BareReturn(first)
    <3>1. EscapeCsv(first) = first
      BY <2>5 DEF BareReturn, EscapeCsv
    <3>2. 0 \in Nat /\ 0 = Len(<<>>) /\ line[0 + 1] = first
      BY <1>4
    <3>3. Spoilt(Reads(Reader(rows, <<>>, <<>>, FALSE, FALSE), first), Len(rows) + 1, line)
      BY <2>2, <2>5, <3>2, BareSpoils
    <3>4. Spoilt(Reads(s, text), Len(rows) + 1, line)
      BY Zenon, <1>1, <2>1, <3>1, <3>3
    <3>5. LineRead(s, text, rows, line, 1)
      BY Zenon, <2>3, <2>5, <3>4 DEF LineRead
    <3> QED
      BY <2>1, <3>5
  <2> QED
    BY <2>4, <2>5
<1>6. PICK acc \in [0..m -> Seq(Char)] :
        /\ acc[0] = text /\ FoldLeft(AddCell, text, rest) = acc[m]
        /\ \A k \in 1..m : acc[k] = AddCell(acc[k - 1], rest[k])
  <2>1. \E acc \in [0..Len(rest) -> Seq(Char)] :
          /\ acc[0] = text /\ FoldLeft(AddCell, text, rest) = acc[Len(rest)]
          /\ \A k \in 1..Len(rest) : acc[k] = AddCell(acc[k - 1], rest[k])
    BY CellSteps
  <2>2. m = Len(rest)
    BY <1>4
  <2> QED
    BY <2>1, <2>2
<1>7. CsvLine(line) = acc[m]
  BY <1>4, <1>5, <1>6 DEF CsvLine
<1> DEFINE S == {k \in 0..m : LineRead(s, acc[k], rows, line, k + 1)}
<1>8. 0 \in S
  <2>1. LineRead(s, acc[0], rows, line, 0 + 1)
    <3>1. 0 + 1 = 1
      OBVIOUS
    <3> QED
      BY Zenon, <1>5, <1>6, <3>1
  <2> QED
    BY <2>1
<1>9. ASSUME NEW k \in 1..m, k - 1 \in S PROVE k \in S
  <2>1. PICK h \in 0..m : h = k - 1 /\ h + 1 = k
    OBVIOUS
  <2>2. PICK before \in Seq(Char), cell \in Seq(Char) : before = acc[h] /\ cell = rest[k]
    <3>1. k \in 1..Len(rest)
      BY <1>4
    <3> QED
      BY <3>1
  <2>3. LineRead(s, before, rows, line, k)
    BY <1>9, <2>1, <2>2
  <2>4. /\ k \in Nat /\ k <= Len(line) /\ cell = line[k + 1] /\ acc[k] = AddCell(before, cell)
        /\ First(line, k + 1) = Append(First(line, k), cell)
    BY <1>4, <1>6, <2>1, <2>2
  <2>5. LineRead(s, AddCell(before, cell), rows, line, k + 1)
    BY <2>3, <2>4, LineReadOn
  <2>6. LineRead(s, acc[k], rows, line, k + 1)
    BY Zenon, <2>4, <2>5
  <2> QED
    BY <2>6
<1>10. LineRead(s, acc[m], rows, line, Len(line))
  <2> HIDE DEF S
  <2>1. \A k \in 0..m : k \in S
    BY <1>8, <1>9, InductionTo
  <2>2. m \in S
    BY <2>1
  <2>3. LineRead(s, acc[m], rows, line, m + 1)
    BY <2>2 DEF S
  <2> QED
    BY Zenon, <1>4, <2>3
<1>11. CsvLine(line) \in Seq(Char)
  <2>1. m \in 0..m
    OBVIOUS
  <2> QED
    BY <1>6, <1>7, <2>1
<1> QED
  BY Zenon, <1>1, <1>7, <1>10, <1>11

LEMMA LineType ==
  ASSUME NEW text \in Seq(Char), NEW line \in Cells \ {<<>>}
  PROVE  AddLine(text, line) \in Seq(Char)
<1>1. CsvLine(line) \in Seq(Char)
  <2>1. <<>> \in Seq(Cells)
    OBVIOUS
  <2> QED
    BY <2>1, LineIs
<1>2. <<"newline">> \in Seq(Char)
  BY SpecialChars, OneChar
<1> QED
  BY <1>1, <1>2, ConcatProperties DEF AddLine

(* A text, one line after the other. *)
LEMMA LineSteps ==
  ASSUME NEW first \in Seq(Char), NEW lines \in Seq(Cells \ {<<>>})
  PROVE  \E acc \in [0..Len(lines) -> Seq(Char)] :
           /\ acc[0] = first /\ FoldLeft(AddLine, first, lines) = acc[Len(lines)]
           /\ \A k \in 1..Len(lines) : acc[k] = AddLine(acc[k - 1], lines[k])
<1> DEFINE n == Len(lines)
           X == Seq(Char)
           base == first
           Eq(it) == it = [t \in SUBSET (1..n) |->
                             IF t = {} THEN base ELSE AddLine(it[t \ {Max(t)}], lines[Max(t)])]
           iter == CHOOSE it : Eq(it)
<1>1. n \in Nat /\ DOMAIN lines = 1..n /\ \A k \in 1..n : lines[k] \in Cells \ {<<>>}
  OBVIOUS
<1>2. FoldLeft(AddLine, first, lines) = iter[1..n]
  BY <1>1 DEF FoldLeft, MapThenFoldSet
<1>3. base \in X /\ \A y \in X, e \in Cells \ {<<>>} : AddLine(y, e) \in X
  BY LineType
<1> HIDE DEF X, base
<1>4. PICK step \in [1..n -> [X -> X]] :
        \A k \in 1..n, y \in X : step[k][y] = AddLine(y, lines[k])
  <2>1. [k \in 1..n |-> [y \in X |-> AddLine(y, lines[k])]] \in [1..n -> [X -> X]]
    BY <1>1, <1>3
  <2> QED
    BY <2>1
<1>5. PICK it \in [SUBSET (1..n) -> X] : Iterates(it, base, step, n)
  BY <1>1, <1>3, <1>4, Iteration
<1>6. Eq(it)
  <2>1. ASSUME NEW t \in SUBSET (1..n), t # {}
        PROVE  it[t] = AddLine(it[t \ {Max(t)}], lines[Max(t)])
    <3>1. Max(t) \in 1..n /\ t \ {Max(t)} \in SUBSET (1..n)
      BY <1>1, <2>1, IterationPlaces
    <3>2. it[t] = step[Max(t)][it[t \ {Max(t)}]]
      BY <1>5, <2>1 DEF Iterates
    <3> QED
      BY <1>4, <1>5, <3>1, <3>2
  <2> QED
    BY <1>5, <2>1 DEF Iterates
<1>7. Eq(iter)
  BY <1>6
<1> HIDE DEF iter
<1>8. iter[1..0] = base
  BY <1>1, <1>7, IterationPlaces
<1>9. ASSUME NEW k \in 1..n PROVE iter[1..k] = AddLine(iter[1..(k-1)], lines[k])
  <2>1. 1..k # {} /\ 1..k \in SUBSET (1..n) /\ Max(1..k) = k /\ (1..k) \ {k} = 1..(k-1)
    BY <1>1, IterationPlaces
  <2>2. iter[1..k] = AddLine(iter[(1..k) \ {Max(1..k)}], lines[Max(1..k)])
    BY <1>7, <2>1
  <2> QED
    BY <2>1, <2>2
<1>10. \A k \in 0..n : iter[1..k] \in X
  <2>1. iter[1..0] \in X
    BY <1>3, <1>8
  <2>2. \A k \in 1..n : iter[1..(k-1)] \in X => iter[1..k] \in X
    BY <1>1, <1>3, <1>9
  <2> QED
    BY <1>1, <2>1, <2>2, StepsStay
<1> DEFINE acc == [k \in 0..n |-> iter[1..k]]
<1>11. acc \in [0..n -> X] /\ acc[0] = base /\ acc[n] = iter[1..n]
         /\ \A k \in 1..n : acc[k] = iter[1..k] /\ acc[k - 1] = iter[1..(k-1)]
  BY <1>1, <1>8, <1>10
<1>12. \A k \in 1..n : acc[k] = AddLine(acc[k - 1], lines[k])
  BY <1>9, <1>11
<1> HIDE DEF acc
<1> QED
  BY <1>2, <1>11, <1>12 DEF X, base

(* A text is read up to the end of its last line, *)
EndsText(s, text, lines) ==
  \E rows \in Seq(Cells), row \in Cells, cell \in Seq(Char), q \in BOOLEAN :
    Append(rows, Append(row, cell)) = lines /\ Reads(s, text) = Reader(rows, row, cell, q, q)

(* and the next line is read after a line feed. *)
LEMMA FeedAfter ==
  ASSUME NEW s \in Readers, NEW text \in Seq(Char), NEW lines \in Seq(Cells),
         NEW line \in Cells \ {<<>>}, EndsText(s, text, lines)
  PROVE  Reads(s, AddLine(text, line)) = Reads(Reader(lines, <<>>, <<>>, FALSE, FALSE), CsvLine(line))
<1>1. PICK rows \in Seq(Cells), row \in Cells, c \in Seq(Char), q \in BOOLEAN :
        Append(rows, Append(row, c)) = lines /\ Reads(s, text) = Reader(rows, row, c, q, q)
  BY DEF EndsText
<1>2. PICK a \in Readers : a = Reader(rows, row, c, q, q)
  BY ReaderIs
<1>3. PICK b \in Readers : b = Reader(lines, <<>>, <<>>, FALSE, FALSE)
  <2>1. <<>> \in Seq(Char) /\ <<>> \in Cells
    BY DEF Cells
  <2> QED
    BY <2>1, ReaderIs
<1>4. CsvRead(a, "newline") = b
  <2>1. EndsRow(rows, row, c, q)
    BY ReaderEnds
  <2> QED
    BY Zenon, <1>1, <1>2, <1>3, <2>1 DEF EndsRow
<1>5. PICK end \in Seq(Char) : end = <<"newline">>
  BY SpecialChars, OneChar
<1>6. Reads(a, end) = b
  BY <1>4, <1>5, SpecialChars, ReadsOne
<1>7. Reads(s, text) = a
  BY <1>1, <1>2
<1>8. PICK t \in Seq(Char) : t = text \o end /\ Reads(s, t) = b
  <2>1. text \o end \in Seq(Char) /\ Reads(s, text \o end) = Reads(a, end)
    BY <1>7, ReadsTwo
  <2> QED
    BY <1>6, <2>1
<1>9. PICK u \in Seq(Char) : u = CsvLine(line)
  <2>1. <<>> \in Seq(Cells)
    OBVIOUS
  <2> QED
    BY <2>1, LineIs
<1>10. Reads(s, t \o u) = Reads(b, u)
  <2>1. Reads(s, t) = b
    BY <1>8
  <2> QED
    BY <2>1, ReadsTwo
<1>11. AddLine(text, line) = t \o u
  BY <1>5, <1>8, <1>9 DEF AddLine
<1> QED
  BY Zenon, <1>3, <1>9, <1>10, <1>11

(* What is read of a text, once its first n lines are. *)
WholeLines(lines, n) == \A l \in 1..n : Whole(lines[l], Len(lines[l]))
Lost(end, lines) == \E l \in 1..Len(lines) : Spoilt(end, l, lines[l])
TextRead(s, text, lines, n) ==
  /\ WholeLines(lines, n) => EndsText(s, text, First(lines, n))
  /\ ~WholeLines(lines, n) => Lost(Reads(s, text), lines)

LEMMA WholeLinesNext ==
  ASSUME NEW lines, NEW n \in Nat
  PROVE  WholeLines(lines, n + 1) <=> WholeLines(lines, n) /\ Whole(lines[n + 1], Len(lines[n + 1]))
<1>1. \A c : c \in 1..(n + 1) <=> c \in 1..n \/ c = n + 1
  OBVIOUS
<1> QED
  BY Zenon, <1>1 DEF WholeLines

LEMMA TextReadOn ==
  ASSUME NEW s \in Readers, NEW text \in Seq(Char), NEW lines \in Seq(Cells), NEW n \in Nat,
         n + 1 <= Len(lines), NEW line \in Cells \ {<<>>}, line = lines[n + 1],
         First(lines, n + 1) = Append(First(lines, n), line), TextRead(s, text, lines, n)
  PROVE  TextRead(s, AddLine(text, line), lines, n + 1)
<1>1. PICK read \in Seq(Cells) : read = First(lines, n) /\ Len(read) = n
  <2>1. n <= Len(lines)
    OBVIOUS
  <2>2. First(lines, n) \in Seq(Cells) /\ Len(First(lines, n)) = n
    BY <2>1, CutIs DEF First
  <2> QED
    BY Zenon, <2>2
<1>2. PICK b \in Readers : b = Reader(read, <<>>, <<>>, FALSE, FALSE)
  <2>1. <<>> \in Seq(Char) /\ <<>> \in Cells
    BY DEF Cells
  <2> QED
    BY <2>1, ReaderIs
<1>3. PICK u \in Seq(Char) : u = CsvLine(line) /\ LineRead(b, u, read, line, Len(line))
  <2>1. /\ CsvLine(line) \in Seq(Char)
        /\ LineRead(Reader(read, <<>>, <<>>, FALSE, FALSE), CsvLine(line), read, line, Len(line))
    BY LineIs
  <2> QED
    BY Zenon, <1>2, <2>1
<1>4. CASE WholeLines(lines, n) /\ Whole(line, Len(line))
  <2>1. EndsText(s, text, read)
    BY Zenon, <1>1, <1>4 DEF TextRead
  <2>2. EndsLine(b, u, read, First(line, Len(line)))
    BY Zenon, <1>3, <1>4 DEF LineRead
  <2>3. First(line, Len(line)) = line
    BY FirstIs DEF Cells
  <2>4. PICK r \in Cells, cell \in Seq(Char), p \in BOOLEAN :
          Append(r, cell) = line /\ Reads(b, u) = Reader(read, r, cell, p, p)
    BY Zenon, <2>2, <2>3 DEF EndsLine
  <2>5. Reads(s, AddLine(text, line)) = Reads(Reader(read, <<>>, <<>>, FALSE, FALSE), CsvLine(line))
    BY <2>1, FeedAfter
  <2>6. Reads(s, AddLine(text, line)) = Reader(read, r, cell, p, p)
    BY Zenon, <1>2, <1>3, <2>4, <2>5
  <2>7. EndsText(s, AddLine(text, line), First(lines, n + 1))
    BY Zenon, <1>1, <2>4, <2>6 DEF EndsText
  <2>8. WholeLines(lines, n + 1)
    BY Zenon, <1>4, WholeLinesNext
  <2> QED
    BY Zenon, <2>7, <2>8 DEF TextRead
<1>5. CASE WholeLines(lines, n) /\ ~Whole(line, Len(line))
  <2>1. EndsText(s, text, read)
    BY Zenon, <1>1, <1>5 DEF TextRead
  <2>2. Spoilt(Reads(b, u), Len(read) + 1, line)
    BY Zenon, <1>3, <1>5 DEF LineRead
  <2>3. Reads(s, AddLine(text, line)) = Reads(Reader(read, <<>>, <<>>, FALSE, FALSE), CsvLine(line))
    BY <2>1, FeedAfter
  <2>4. Spoilt(Reads(s, AddLine(text, line)), n + 1, lines[n + 1])
    BY Zenon, <1>1, <1>2, <1>3, <2>2, <2>3
  <2>5. n + 1 \in 1..Len(lines)
    OBVIOUS
  <2>6. Lost(Reads(s, AddLine(text, line)), lines)
    BY Zenon, <2>4, <2>5 DEF Lost
  <2>7. ~WholeLines(lines, n + 1)
    BY Zenon, <1>5, WholeLinesNext
  <2> QED
    BY Zenon, <2>6, <2>7 DEF TextRead
<1>6. CASE ~WholeLines(lines, n)
  <2>1. PICK l \in 1..Len(lines) : Spoilt(Reads(s, text), l, lines[l])
    BY Zenon, <1>6 DEF TextRead, Lost
  <2>2. PICK end \in Seq(Char) : end = <<"newline">>
    BY SpecialChars, OneChar
  <2>3. PICK t \in Seq(Char) : t = text \o end /\ Spoilt(Reads(s, t), l, lines[l])
    BY <2>1, SpoiltStays
  <2>4. Spoilt(Reads(s, t \o u), l, lines[l])
    BY <2>3, SpoiltStays
  <2>5. AddLine(text, line) = t \o u
    BY <1>3, <2>2, <2>3 DEF AddLine
  <2>6. Lost(Reads(s, AddLine(text, line)), lines)
    BY Zenon, <2>4, <2>5 DEF Lost
  <2>7. ~WholeLines(lines, n + 1)
    BY Zenon, <1>6, WholeLinesNext
  <2> QED
    BY Zenon, <2>6, <2>7 DEF TextRead
<1> QED
  BY Zenon, <1>4, <1>5, <1>6

(* Whatever the cells are, a reader of the export gets them, unless one has *)
(* a bare carriage return.                                                  *)
LEMMA CsvIs ==
  ASSUME NEW lines \in Seq(Cells \ {<<>>}) \ {<<>>}
  PROVE  (CsvParsed(CsvText(lines)) = lines)
           <=> ~(\E l \in DOMAIN lines : \E c \in DOMAIN lines[l] : BareReturn(lines[l][c]))
<1>1. PICK s \in Readers : s = Reader(<<>>, <<>>, <<>>, FALSE, FALSE) /\ s = CsvStart
  <2>1. <<>> \in Seq(Char) /\ <<>> \in Cells /\ <<>> \in Seq(Cells)
    BY DEF Cells
  <2>2. Reader(<<>>, <<>>, <<>>, FALSE, FALSE) = CsvStart
    BY DEF Reader, CsvStart
  <2> QED
    BY <2>1, <2>2, ReaderIs
<1>2. PICK first \in Cells \ {<<>>}, rest \in Seq(Cells \ {<<>>}), m \in Nat :
        ArePieces(lines, first, rest, m)
  BY PiecesOf
<1>3. /\ first = Head(lines) /\ rest = Tail(lines) /\ m = Len(rest) /\ Len(lines) = m + 1
      /\ Append(<<>>, first) = First(lines, 1) /\ First(lines, m + 1) = lines /\ first = lines[1]
      /\ \A k \in 1..m : First(lines, k + 1) = Append(First(lines, k), rest[k]) /\ rest[k] = lines[k + 1]
  BY <1>2 DEF ArePieces
<1>4. lines \in Seq(Cells) /\ \A l \in 1..(m + 1) : lines[l] \in Cells
  <2>1. \A i \in 1..Len(lines) : lines[i] \in Cells
    OBVIOUS
  <2> QED
    BY <1>3, <2>1
<1>5. PICK text \in Seq(Char) : text = CsvLine(first) /\ TextRead(s, text, lines, 1)
  <2>1. <<>> \in Seq(Cells) /\ Len(<<>>) + 1 = 1
    OBVIOUS
  <2>2. PICK text \in Seq(Char) :
          text = CsvLine(first) /\ LineRead(s, text, <<>>, first, Len(first))
    BY <1>1, <2>1, LineIs
  <2>3. WholeLines(lines, 1) <=> Whole(first, Len(first))
    <3>1. \A c : c \in 1..1 <=> c = 1
      OBVIOUS
    <3> QED
      BY Zenon, <1>3, <3>1 DEF WholeLines
  <2>4. CASE Whole(first, Len(first))
    <3>1. First(first, Len(first)) = first
      BY FirstIs DEF Cells
    <3>2. EndsLine(s, text, <<>>, first)
      BY Zenon, <2>2, <2>4, <3>1 DEF LineRead
    <3>3. PICK row \in Cells, cell \in Seq(Char), q \in BOOLEAN :
            Append(row, cell) = first /\ Reads(s, text) = Reader(<<>>, row, cell, q, q)
      BY Zenon, <3>2 DEF EndsLine
    <3>4. EndsText(s, text, First(lines, 1))
      BY Zenon, <1>3, <2>1, <3>3 DEF EndsText
    <3>5. TextRead(s, text, lines, 1)
      BY Zenon, <2>3, <2>4, <3>4 DEF TextRead
    <3> QED
      BY <2>2, <3>5
  <2>5. CASE ~Whole(first, Len(first))
    <3>1. Spoilt(Reads(s, text), Len(<<>>) + 1, first)
      BY Zenon, <2>2, <2>5 DEF LineRead
    <3>2. Spoilt(Reads(s, text), 1, lines[1])
      BY Zenon, <1>3, <2>1, <3>1
    <3>3. 1 \in 1..Len(lines)
      BY <1>3
    <3>4. TextRead(s, text, lines, 1)
      BY Zenon, <2>3, <2>5, <3>2, <3>3 DEF TextRead, Lost
    <3> QED
      BY <2>2, <3>4
  <2> QED
    BY <2>4, <2>5
<1>6. PICK acc \in [0..m -> Seq(Char)] :
        /\ acc[0] = text /\ FoldLeft(AddLine, text, rest) = acc[m]
        /\ \A k \in 1..m : acc[k] = AddLine(acc[k - 1], rest[k])
  <2>1. \E acc \in [0..Len(rest) -> Seq(Char)] :
          /\ acc[0] = text /\ FoldLeft(AddLine, text, rest) = acc[Len(rest)]
          /\ \A k \in 1..Len(rest) : acc[k] = AddLine(acc[k - 1], rest[k])
    BY LineSteps
  <2>2. m = Len(rest)
    BY <1>3
  <2> QED
    BY <2>1, <2>2
<1>7. CsvText(lines) = acc[m]
  BY <1>3, <1>5, <1>6 DEF CsvText
<1> DEFINE S == {k \in 0..m : TextRead(s, acc[k], lines, k + 1)}
<1>8. 0 \in S
  <2>1. TextRead(s, acc[0], lines, 0 + 1)
    <3>1. 0 + 1 = 1
      OBVIOUS
    <3> QED
      BY Zenon, <1>5, <1>6, <3>1
  <2> QED
    BY <2>1
<1>9. ASSUME NEW k \in 1..m, k - 1 \in S PROVE k \in S
  <2>1. PICK h \in 0..m : h = k - 1 /\ h + 1 = k
    OBVIOUS
  <2>2. PICK before \in Seq(Char), line \in Cells \ {<<>>} : before = acc[h] /\ line = rest[k]
    <3>1. k \in 1..Len(rest)
      BY <1>3
    <3> QED
      BY <3>1
  <2>3. TextRead(s, before, lines, k)
    BY <1>9, <2>1, <2>2
  <2>4. /\ k \in Nat /\ k + 1 <= Len(lines) /\ line = lines[k + 1]
        /\ acc[k] = AddLine(before, line) /\ First(lines, k + 1) = Append(First(lines, k), line)
    BY <1>3, <1>6, <2>1, <2>2
  <2>5. TextRead(s, AddLine(before, line), lines, k + 1)
    BY <1>4, <2>3, <2>4, TextReadOn
  <2>6. TextRead(s, acc[k], lines, k + 1)
    BY Zenon, <2>4, <2>5
  <2> QED
    BY <2>6
<1>10. TextRead(s, CsvText(lines), lines, m + 1)
  <2> HIDE DEF S
  <2>1. \A k \in 0..m : k \in S
    BY <1>8, <1>9, InductionTo
  <2>2. m \in S
    BY <2>1
  <2>3. TextRead(s, acc[m], lines, m + 1)
    BY <2>2 DEF S
  <2> QED
    BY Zenon, <1>7, <2>3
<1> DEFINE broken == \E l \in DOMAIN lines : \E c \in DOMAIN lines[l] : BareReturn(lines[l][c])
<1>11. WholeLines(lines, m + 1) <=> ~broken
  <2>1. DOMAIN lines = 1..(m + 1)
    BY <1>3, <1>4
  <2>2. \A l \in 1..(m + 1) : DOMAIN lines[l] = 1..Len(lines[l])
    BY <1>4 DEF Cells
  <2> QED
    BY Zenon, <2>1, <2>2 DEF WholeLines, Whole
<1>12. PICK end \in Readers :
         /\ end = Reads(s, CsvText(lines))
         /\ CsvParsed(CsvText(lines)) = Append(end.rows, Append(end.row, end.cell))
  <2>1. m \in 0..m
    OBVIOUS
  <2>2. CsvText(lines) \in Seq(Char)
    BY <1>6, <1>7, <2>1
  <2>3. Reads(s, CsvText(lines)) \in Readers
    BY <2>2, ReadsBoth
  <2>4. Reads(s, CsvText(lines)) = FoldLeft(CsvRead, CsvStart, CsvText(lines))
    BY Zenon, <1>1 DEF Reads
  <2> QED
    BY Zenon, <2>3, <2>4 DEF CsvParsed
<1>13. ASSUME ~broken PROVE CsvParsed(CsvText(lines)) = lines
  <2>1. EndsText(s, CsvText(lines), lines)
    BY Zenon, <1>3, <1>10, <1>11, <1>13 DEF TextRead
  <2>2. PICK rows \in Seq(Cells), row \in Cells, cell \in Seq(Char), q \in BOOLEAN :
          /\ Append(rows, Append(row, cell)) = lines
          /\ Reads(s, CsvText(lines)) = Reader(rows, row, cell, q, q)
    BY Zenon, <2>1 DEF EndsText
  <2>3. end.rows = rows /\ end.row = row /\ end.cell = cell
    BY <1>12, <2>2 DEF Reader
  <2> QED
    BY Zenon, <1>12, <2>2, <2>3
<1>14. ASSUME broken PROVE CsvParsed(CsvText(lines)) # lines
  <2>1. Lost(end, lines)
    BY Zenon, <1>10, <1>11, <1>12, <1>14 DEF TextRead
  <2>2. PICK l : l \in 1..Len(end.rows) /\ end.rows[l] # lines[l]
    BY Zenon, <2>1 DEF Lost, Spoilt
  <2>3. PICK rows \in Seq(Cells), row \in Cells : rows = end.rows /\ row = Append(end.row, end.cell)
    <3>1. end.rows \in Seq(Cells) /\ end.row \in Seq(Seq(Char)) /\ end.cell \in Seq(Char)
      BY DEF Readers, Cells
    <3>2. Append(end.row, end.cell) \in Cells
      BY <3>1, AppendProperties DEF Cells
    <3> QED
      BY Zenon, <3>1, <3>2
  <2>4. Append(rows, row)[l] = rows[l]
    BY <2>2, <2>3, AppendProperties
  <2> QED
    BY Zenon, <1>12, <2>2, <2>3, <2>4
<1> QED
  BY Zenon, <1>13, <1>14
=============================================================================
