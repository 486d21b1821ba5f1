---------------------------- MODULE AlarmsProofs ----------------------------
(***************************************************************************)
(* Proofs about Values and Alarms.  That a number printed and converted is *)
(* the number it was rests on what the recursive functions of Values       *)
(* compute, which is proved by induction, in the form the provers can use: *)
(* a non-empty set of numbers, or of subsets of a finite set, has a least  *)
(* member.                                                                 *)
(***************************************************************************)
EXTENDS Alarms, SequenceTheorems, WellFoundedInduction, FiniteSetTheorems, TLAPS

-----------------------------------------------------------------------------
(***************************************************************************)
(* Induction.                                                              *)
(***************************************************************************)
\* A number that fails, and none below it does.
LEMMA LeastNumber ==
    ASSUME NEW S \in SUBSET Nat, S # {}
    PROVE  \E n \in S : \A m \in S : n <= m
<1> DEFINE R == {ss \in Nat \X Nat : ss[1] < ss[2]}
<1>1. IsWellFoundedOn(R, Nat)
  <2>1. R = OpToRel(<, Nat)
    BY Zenon DEF OpToRel
  <2> QED  BY <2>1, NatLessThanWellFounded
<1>2. PICK n \in S : \A m \in S : <<m, n>> \notin R
  BY <1>1, WFMin
<1>3. ASSUME NEW m \in S PROVE n <= m
  <2>1. ~(m < n)
    BY <1>2
  <2> QED  BY <2>1
<1> QED  BY <1>3

LEMMA LeastSubset ==
    ASSUME NEW S, IsFiniteSet(S), NEW T \in SUBSET SUBSET S, T # {}
    PROVE  \E x \in T : \A y \in T : y \subseteq x => y = x
<1>1. IsWellFoundedOn(StrictSubsetOrdering(S), SUBSET S)
  BY FS_StrictSubsetOrderingWellFounded, FS_FiniteSubsetsOfFinite
<1>2. \E x \in T : \A y \in T : <<y, x>> \notin StrictSubsetOrdering(S)
  BY <1>1, WFMin
<1>3. \A x, y \in SUBSET S : y \subseteq x /\ y # x => <<y, x>> \in StrictSubsetOrdering(S)
  BY DEF StrictSubsetOrdering
<1> QED  BY <1>2, <1>3

\* A function on the numbers may be defined by what it is below.  value[<<n, f>>] is what
\* it is at n, and depends on f below n alone.
Determined(value, V) ==
    /\ value \in [Nat \X [Nat -> V] -> V]
    /\ \A n \in Nat : \A f, g \in [Nat -> V] :
          (\A i \in 0 .. n - 1 : f[i] = g[i]) => value[<<n, f>>] = value[<<n, g>>]

LEMMA Recursion ==
    ASSUME NEW V, V # {}, NEW value, Determined(value, V)
    PROVE  \E f \in [Nat -> V] : \A n \in Nat : f[n] = value[<<n, f>>]
<1> DEFINE UpTo(n) == {f \in [Nat -> V] : \A i \in 0 .. n : f[i] = value[<<i, f>>]}
           G(n)    == (CHOOSE f \in UpTo(n) : TRUE)[n]
           F       == [n \in Nat |-> G(n)]
\* Two of them agree below both.
<1>1. ASSUME NEW m \in Nat, NEW n \in Nat, NEW f \in UpTo(m), NEW g \in UpTo(n)
      PROVE  \A i \in Nat : i <= m /\ i <= n => f[i] = g[i]
  <2> DEFINE Bad == {i \in Nat : i <= m /\ i <= n /\ f[i] # g[i]}
  <2>1. ASSUME Bad # {} PROVE FALSE
    <3>0. Bad \in SUBSET Nat
      OBVIOUS
    <3>1. PICK i \in Bad : \A j \in Bad : i <= j
      <4> HIDE DEF Bad
      <4> QED  BY <2>1, <3>0, LeastNumber
    <3>2. i \in Nat /\ i <= m /\ i <= n /\ f[i] # g[i]
      BY <3>1
    <3>3. \A j \in 0 .. i - 1 : f[j] = g[j]
      <4>1. ASSUME NEW j \in 0 .. i - 1 PROVE f[j] = g[j]
        <5>1. j \in Nat /\ j <= m /\ j <= n /\ j < i
          BY <3>2
        <5>2. j \notin Bad
          <6>1. i \in Nat /\ (j \in Bad => i <= j)
            BY <3>1, <3>2
          <6> HIDE DEF Bad
          <6> QED  BY <5>1, <6>1
        <5> QED  BY <5>1, <5>2
      <4> QED  BY <4>1
    <3>4. f \in [Nat -> V] /\ g \in [Nat -> V] /\ i \in 0 .. m /\ i \in 0 .. n
      BY <3>2
    <3>5. value[<<i, f>>] = value[<<i, g>>]
      BY <3>2, <3>3, <3>4 DEF Determined
    <3>6. f[i] = value[<<i, f>>] /\ g[i] = value[<<i, g>>]
      BY <3>4
    <3> QED  BY <3>2, <3>5, <3>6
  <2> QED  BY <2>1
\* There is one for every number.
<1>2. \A n \in Nat : UpTo(n) # {}
  <2> DEFINE Bad == {n \in Nat : UpTo(n) = {}}
  <2>1. ASSUME Bad # {} PROVE FALSE
    <3>0. Bad \in SUBSET Nat
      OBVIOUS
    <3>1. PICK n \in Bad : \A j \in Bad : n <= j
      <4> HIDE DEF Bad
      <4> QED  BY <2>1, <3>0, LeastNumber
    <3>2. n \in Nat /\ UpTo(n) = {}
      BY <3>1
    <3>3. PICK f \in [Nat -> V] : \A i \in 0 .. n - 1 : f[i] = value[<<i, f>>]
      <4>1. CASE n = 0
        <5>1. PICK v \in V : TRUE
          OBVIOUS
        <5>2. [k \in Nat |-> v] \in [Nat -> V]
          OBVIOUS
        <5>3. ~ \E i \in 0 .. n - 1 : TRUE
          BY <4>1
        <5> QED  BY <5>2, <5>3
      <4>2. CASE n # 0
        <5>1. n - 1 \in Nat /\ ~(n <= n - 1)
          BY <3>2, <4>2
        <5>2. n - 1 \notin Bad
          <6> HIDE DEF Bad
          <6> QED  BY <3>1, <5>1
        <5>3. UpTo(n - 1) # {}
          BY <5>1, <5>2
        <5> QED  BY <5>3
      <4> QED  BY <4>1, <4>2
    <3> DEFINE h == [f EXCEPT ![n] = value[<<n, f>>]]
    <3>4. value[<<n, f>>] \in V
      BY <3>2 DEF Determined
    <3>5. h \in [Nat -> V] /\ h[n] = value[<<n, f>>] /\ \A i \in Nat : i # n => h[i] = f[i]
      BY <3>2, <3>4
    <3> HIDE DEF h
    <3>6. ASSUME NEW i \in 0 .. n PROVE h[i] = value[<<i, h>>]
      <4>1. i \in Nat /\ \A j \in 0 .. i - 1 : h[j] = f[j]
        BY <3>2, <3>5
      <4>2. value[<<i, h>>] = value[<<i, f>>]
        BY <3>5, <4>1 DEF Determined
      <4>3. CASE i = n
        BY <3>5, <4>2, <4>3
      <4>4. CASE i # n
        BY <3>2, <3>3, <3>5, <4>1, <4>2, <4>4
      <4> QED  BY <4>3, <4>4
    <3>7. h \in UpTo(n)
      BY <3>5, <3>6
    <3> QED  BY <3>2, <3>7
  <2> QED  BY <2>1
<1>3. ASSUME NEW n \in Nat
      PROVE  \E f \in UpTo(n) : G(n) = f[n]
  BY <1>2
<1>4. F \in [Nat -> V]
  <2>1. ASSUME NEW n \in Nat PROVE G(n) \in V
    <3>1. PICK f \in UpTo(n) : G(n) = f[n]
      BY <1>3
    <3>2. f[n] \in V
      OBVIOUS
    <3> QED  BY <3>1, <3>2
  <2> HIDE DEF G
  <2> QED  BY <2>1
<1>5. ASSUME NEW n \in Nat PROVE F[n] = value[<<n, F>>]
  <2>1. PICK f \in UpTo(n) : G(n) = f[n]
    BY <1>3
  <2>2. ASSUME NEW i \in 0 .. n - 1 PROVE F[i] = f[i]
    <3>1. i \in Nat /\ i <= i /\ i <= n
      OBVIOUS
    <3>2. PICK g \in UpTo(i) : G(i) = g[i]
      BY <1>3, <3>1
    <3>3. g[i] = f[i]
      BY <1>1, <3>1
    <3>4. F[i] = G(i)
      <4> HIDE DEF G
      <4> QED  BY <3>1
    <3> HIDE DEF F, G
    <3> QED  BY <3>2, <3>3, <3>4
  <2>3. f \in [Nat -> V] /\ f[n] = value[<<n, f>>]
    OBVIOUS
  <2>4. F[n] = G(n)
    <3> HIDE DEF G
    <3> QED  OBVIOUS
  <2> HIDE DEF F, G, UpTo
  <2>5. value[<<n, F>>] = value[<<n, f>>]
    BY <1>4, <2>2, <2>3 DEF Determined
  <2> QED  BY <2>1, <2>3, <2>4, <2>5
<1> HIDE DEF F
<1> QED  BY <1>4, <1>5

-----------------------------------------------------------------------------
(***************************************************************************)
(* tens and digits.                                                        *)
(***************************************************************************)
LEMMA TensIs ==
    /\ tens \in [Nat -> Nat]
    /\ \A n \in Nat : tens[n] = IF n = 0 THEN 1 ELSE 10 * tens[n - 1]
<1> DEFINE V == Nat
           value == [p \in Nat \X [Nat -> V] |->
                        IF p[1] = 0 THEN 1 ELSE 10 * p[2][p[1] - 1]]
<1>1. Determined(value, V)
  <2>1. ASSUME NEW n \in Nat, NEW f \in [Nat -> V]
        PROVE  value[<<n, f>>] = IF n = 0 THEN 1 ELSE 10 * f[n - 1]
    OBVIOUS
  <2>2. \A p \in Nat \X [Nat -> V] : value[p] \in Nat
    <3>1. ASSUME NEW n \in Nat, NEW f \in [Nat -> V] PROVE value[<<n, f>>] \in Nat
      <4>1. n # 0 => n - 1 \in Nat
        OBVIOUS
      <4>2. n # 0 => f[n - 1] \in Nat
        BY <4>1
      <4>3. n # 0 => 10 * f[n - 1] \in Nat
        BY <4>2
      <4> HIDE DEF value
      <4> QED  BY <2>1, <4>3
    <3> HIDE DEF value
    <3> QED  BY <3>1
  <2>3. value \in [Nat \X [Nat -> V] -> Nat]
    BY <2>2
  <2> HIDE DEF value
  <2>4. ASSUME NEW n \in Nat, NEW f \in [Nat -> V], NEW g \in [Nat -> V],
               \A i \in 0 .. n - 1 : f[i] = g[i]
        PROVE  value[<<n, f>>] = value[<<n, g>>]
    <3>1. n # 0 => n - 1 \in 0 .. n - 1
      OBVIOUS
    <3> QED  BY <2>1, <2>4, <3>1
  <2> QED  BY <2>3, <2>4 DEF Determined
<1>2. V # {}
  <2>1. 0 \in V
    OBVIOUS
  <2> QED  BY <2>1
<1>3. PICK f \in [Nat -> V] : \A n \in Nat : f[n] = value[<<n, f>>]
  <2> HIDE DEF value, V
  <2> QED  BY <1>1, <1>2, Recursion
<1>4. f = [n \in Nat |-> IF n = 0 THEN 1 ELSE 10 * f[n - 1]]
  BY <1>3
<1>5. tens = [n \in Nat |-> IF n = 0 THEN 1 ELSE 10 * tens[n - 1]]
  BY <1>4 DEF tens
<1>6. \A n \in Nat : tens[n] = IF n = 0 THEN 1 ELSE 10 * tens[n - 1]
  BY <1>5
<1> DEFINE Bad == {n \in Nat : tens[n] \notin Nat}
<1>7. ASSUME Bad # {} PROVE FALSE
  <2>0. Bad \in SUBSET Nat
    OBVIOUS
  <2>1. PICK n \in Bad : \A m \in Bad : n <= m
    <3> HIDE DEF Bad
    <3> QED  BY <1>7, <2>0, LeastNumber
  <2>2. n \in Nat /\ tens[n] \notin Nat
    BY <2>1
  <2>3. n # 0 /\ n - 1 \in Nat /\ ~(n <= n - 1)
    BY <1>6, <2>2
  <2>4. n - 1 \notin Bad
    <3> HIDE DEF Bad
    <3> QED  BY <2>1, <2>3
  <2>5. tens[n - 1] \in Nat
    BY <2>3, <2>4
  <2> QED  BY <1>6, <2>2, <2>3, <2>5
<1>8. \A n \in Nat : tens[n] \in Nat
  BY <1>7
<1> QED  BY <1>5, <1>6, <1>8

Digits == 0 .. 9

\* The last digit and the rest of the number.
LEMMA Split ==
    ASSUME NEW n \in Nat
    PROVE  /\ n \div 10 \in Nat /\ n % 10 \in Digits /\ n = 10 * (n \div 10) + (n % 10)
           /\ n >= 10 => n \div 10 # 0 /\ n \div 10 < n
<1>1. n \div 10 \in Nat
  OBVIOUS
<1>2. n % 10 \in Digits
  <2>1. n % 10 \in Int /\ 0 <= n % 10 /\ n % 10 <= 9
    OBVIOUS
  <2> QED  BY <2>1 DEF Digits
<1>3. n = 10 * (n \div 10) + (n % 10)
  <2>1. \A x \in Nat : x % 10 = x - 10 * (x \div 10)
    OBVIOUS
  <2>2. n % 10 = n - 10 * (n \div 10) /\ n \div 10 \in Nat
    BY <2>1
  <2> QED  BY <2>2
<1>4. n >= 10 => n \div 10 # 0 /\ n \div 10 < n
  OBVIOUS
<1> QED  BY <1>1, <1>2, <1>3, <1>4

LEMMA DigitsAre ==
    /\ digits \in [Nat -> Seq(Digits)]
    /\ \A n \in Nat :
          digits[n] = IF n < 10 THEN <<n>> ELSE Append(digits[n \div 10], n % 10)
<1> DEFINE V == Seq(Digits)
           value == [p \in Nat \X [Nat -> V] |->
                        IF p[1] < 10 THEN <<p[1]>> ELSE Append(p[2][p[1] \div 10], p[1] % 10)]
<1>1. Determined(value, V)
  <2>1. ASSUME NEW n \in Nat, NEW f \in [Nat -> V]
        PROVE  value[<<n, f>>] = IF n < 10 THEN <<n>> ELSE Append(f[n \div 10], n % 10)
    <3> HIDE DEF V
    <3> QED  OBVIOUS
  <2>2. ASSUME NEW n \in Nat, NEW f \in [Nat -> V] PROVE value[<<n, f>>] \in V
    <3>1. CASE n < 10
      <4>1. n \in Digits
        BY <3>1 DEF Digits
      <4>2. <<n>> \in V
        BY <4>1
      <4> HIDE DEF value
      <4> QED  BY <2>1, <3>1, <4>2
    <3>2. CASE ~(n < 10)
      <4>1. f[n \div 10] \in V /\ n % 10 \in Digits
        BY Split
      <4>2. Append(f[n \div 10], n % 10) \in V
        BY <4>1, AppendProperties
      <4> HIDE DEF value
      <4> QED  BY <2>1, <3>2, <4>2
    <3> QED  BY <3>1, <3>2
  <2>3. value \in [Nat \X [Nat -> V] -> V]
    <3>1. \A p \in Nat \X [Nat -> V] : value[p] \in V
      <4> HIDE DEF value, V
      <4> QED  BY <2>2
    <3> HIDE DEF V
    <3> QED  BY <3>1
  <2> HIDE DEF value
  <2>4. ASSUME NEW n \in Nat, NEW f \in [Nat -> V], NEW g \in [Nat -> V],
               \A i \in 0 .. n - 1 : f[i] = g[i]
        PROVE  value[<<n, f>>] = value[<<n, g>>]
    <3>1. n >= 10 => n \div 10 \in 0 .. n - 1
      BY Split
    <3>2. n >= 10 => f[n \div 10] = g[n \div 10]
      BY <2>4, <3>1
    <3>3. /\ value[<<n, f>>] = IF n < 10 THEN <<n>> ELSE Append(f[n \div 10], n % 10)
          /\ value[<<n, g>>] = IF n < 10 THEN <<n>> ELSE Append(g[n \div 10], n % 10)
      BY <2>1
    <3> HIDE DEF V
    <3>4. CASE n < 10
      BY <3>3, <3>4
    <3>5. CASE n >= 10
      <4>1. ~(n < 10)
        BY <3>5
      <4> QED  BY <3>2, <3>3, <3>5, <4>1
    <3> QED  BY <3>4, <3>5
  <2> HIDE DEF V
  <2> QED  BY <2>3, <2>4 DEF Determined
<1>2. V # {}
  <2>1. <<>> \in V
    OBVIOUS
  <2> QED  BY <2>1
<1>3. PICK f \in [Nat -> V] : \A n \in Nat : f[n] = value[<<n, f>>]
  <2> HIDE DEF value, V
  <2> QED  BY <1>1, <1>2, Recursion
<1>4. f = [n \in Nat |-> IF n < 10 THEN <<n>> ELSE Append(f[n \div 10], n % 10)]
  <2> HIDE DEF V
  <2> QED  BY <1>3
<1>5. digits = [n \in Nat |-> IF n < 10 THEN <<n>> ELSE Append(digits[n \div 10], n % 10)]
  BY <1>4 DEF digits
<1>6. \A n \in Nat :
          digits[n] = IF n < 10 THEN <<n>> ELSE Append(digits[n \div 10], n % 10)
  BY <1>5
<1> DEFINE Bad == {n \in Nat : digits[n] \notin Seq(Digits)}
<1>7. ASSUME Bad # {} PROVE FALSE
  <2>0. Bad \in SUBSET Nat
    OBVIOUS
  <2>1. PICK n \in Bad : \A m \in Bad : n <= m
    <3> HIDE DEF Bad
    <3> QED  BY <1>7, <2>0, LeastNumber
  <2>2. n \in Nat /\ digits[n] \notin Seq(Digits)
    BY <2>1
  <2>3. CASE n < 10
    <3>1. n \in Digits
      BY <2>2, <2>3 DEF Digits
    <3>2. <<n>> \in Seq(Digits)
      BY <3>1
    <3> QED  BY <1>6, <2>2, <2>3, <3>2
  <2>4. CASE ~(n < 10)
    <3>1. n \div 10 \in Nat /\ n % 10 \in Digits /\ ~(n <= n \div 10)
      BY <2>2, <2>4, Split
    <3>2. n \div 10 \notin Bad
      <4> HIDE DEF Bad
      <4> QED  BY <2>1, <3>1
    <3>3. digits[n \div 10] \in Seq(Digits)
      BY <3>1, <3>2
    <3>4. Append(digits[n \div 10], n % 10) \in Seq(Digits)
      BY <3>1, <3>3, AppendProperties
    <3> QED  BY <1>6, <2>2, <2>4, <3>4
  <2> QED  BY <2>3, <2>4
<1>8. \A n \in Nat : digits[n] \in Seq(Digits)
  BY <1>7
<1> QED  BY <1>5, <1>6, <1>8

-----------------------------------------------------------------------------
(***************************************************************************)
(* Number: the fold over the places of a text, from the last one.          *)
(***************************************************************************)
LEMMA MaxIn ==
    ASSUME NEW n \in Nat, NEW s \in SUBSET (1 .. n), s # {}
    PROVE  Max(s) \in s /\ \A x \in s : Max(s) >= x
<1> DEFINE Away == {k \in Nat : n - k \in s}
<1>1. Away # {} /\ Away \in SUBSET Nat
  <2>1. PICK x \in s : TRUE
    OBVIOUS
  <2>2. x \in 1 .. n
    OBVIOUS
  <2>3. n - x \in Nat /\ n - (n - x) = x
    BY <2>2
  <2>4. n - x \in Away
    BY <2>1, <2>3
  <2> QED  BY <2>4
<1>2. PICK k \in Away : \A j \in Away : k <= j
  <2> HIDE DEF Away
  <2> QED  BY <1>1, LeastNumber
<1>3. ASSUME NEW x \in s PROVE n - k >= x
  <2>1. x \in 1 .. n /\ k \in Nat
    BY <1>2
  <2>2. n - x \in Nat /\ n - (n - x) = x
    BY <2>1
  <2>3. n - x \in Away
    BY <2>2
  <2>4. k <= n - x
    <3> HIDE DEF Away
    <3> QED  BY <1>2, <2>3
  <2> QED  BY <2>1, <2>2, <2>4
<1>4. n - k \in s
  BY <1>2
<1>5. \E x \in s : \A y \in s : x >= y
  BY <1>3, <1>4
<1> QED  BY <1>5 DEF Max

LEMMA MaxOfPlaces ==
    ASSUME NEW n \in Nat
    PROVE  Max(1 .. n + 1) = n + 1 /\ (1 .. n + 1) \ {n + 1} = 1 .. n
<1>1. n + 1 \in Nat /\ n + 1 \in 1 .. n + 1 /\ (1 .. n + 1) \in SUBSET (1 .. n + 1)
  OBVIOUS
<1> DEFINE s == 1 .. n + 1
<1>2. s # {} /\ s \in SUBSET (1 .. n + 1)
  BY <1>1
<1>3. Max(s) \in s /\ Max(s) >= n + 1
  <2> HIDE DEF s
  <2>1. n + 1 \in s
    BY <1>1 DEF s
  <2> QED  BY <1>1, <1>2, <2>1, MaxIn
<1>4. Max(s) = n + 1
  <2> DEFINE m == Max(s)
  <2>1. m \in s /\ m >= n + 1
    BY <1>3
  <2> HIDE DEF m
  <2>2. m \in Int /\ m <= n + 1
    BY <2>1
  <2>3. m = n + 1
    BY <2>1, <2>2
  <2> QED  BY <2>3 DEF m
<1>5. (1 .. n + 1) \ {n + 1} = 1 .. n
  OBVIOUS
<1> QED  BY <1>4, <1>5

\* iter is the recursive function of the fold over the places in S.
IsNumber(iter, ds, S) ==
    iter = [s \in SUBSET S |->
               IF s = {} THEN 0 ELSE 10 * iter[s \ {Max(s)}] + ds[Max(s)]]

Numerals(ds, S) == \A k \in S : ds[k] \in Nat

Agree(ds, es, S) == \A k \in S : ds[k] = es[k]

OnSubsets(f, S) == f \in [SUBSET S -> Nat]

Places(U, n) == n \in Nat /\ U \subseteq 1 .. n

LEMMA NumberIs ==
    \A ds : Number(ds) = (CHOOSE iter : IsNumber(iter, ds, DOMAIN ds))[DOMAIN ds]
BY DEF Number, IsNumber, FoldLeft, MapThenFoldSet

\* Two such functions agree where both are defined.
LEMMA NumberUnique ==
    ASSUME NEW n, NEW U, NEW T, Places(U, n), Places(T, n),
           NEW ds, NEW es, Agree(ds, es, U \intersect T),
           NEW f, NEW g, IsNumber(f, ds, U), IsNumber(g, es, T)
    PROVE  \A s : s \subseteq U /\ s \subseteq T => f[s] = g[s]
<1> n \in Nat /\ U \in SUBSET (1 .. n) /\ T \in SUBSET (1 .. n)
  BY DEF Places
<1> DEFINE S   == 1 .. n
           Bad == {s \in SUBSET S : s \subseteq U /\ s \subseteq T /\ f[s] # g[s]}
<1>0. IsFiniteSet(S)
  BY FS_Interval
<1>1. ASSUME Bad # {} PROVE FALSE
  <2>0. Bad \in SUBSET SUBSET S
    OBVIOUS
  <2>1. PICK x \in Bad : \A y \in Bad : y \subseteq x => y = x
    <3> HIDE DEF Bad, S
    <3> QED  BY <1>0, <1>1, <2>0, LeastSubset
  <2>2. CASE x = {}
    BY <2>1, <2>2 DEF IsNumber
  <2>3. CASE x # {}
    <3> DEFINE m == Max(x)
               y == x \ {m}
    <3>1. m \in x
      BY <2>1, <2>3, MaxIn
    <3> HIDE DEF m
    <3>2. y \subseteq x /\ y # x /\ y \in SUBSET S
      BY <2>1, <3>1
    <3>3. f[y] = g[y]
      BY <2>1, <3>2
    <3>4. ds[m] = es[m]
      BY <2>1, <3>1 DEF Agree
    <3>5. f[x] = 10 * f[y] + ds[m] /\ g[x] = 10 * g[y] + es[m]
      BY <2>1, <2>3 DEF IsNumber, m
    <3> QED  BY <2>1, <3>3, <3>4, <3>5
  <2> QED  BY <2>2, <2>3
<1> QED  BY <1>1

\* There is such a function, with values in Nat.
LEMMA NumberExists ==
    ASSUME NEW n \in Nat, NEW ds, Numerals(ds, 1 .. n)
    PROVE  \E f : OnSubsets(f, 1 .. n) /\ IsNumber(f, ds, 1 .. n)
<1> DEFINE S      == 1 .. n
           Of(U)  == {f \in [SUBSET U -> Nat] : IsNumber(f, ds, U)}
           Bad    == {U \in SUBSET S : Of(U) = {}}
           G(U)   == (CHOOSE f \in Of(U) : TRUE)[U]
<1>0. IsFiniteSet(S)
  BY FS_Interval
<1>1. ASSUME Bad # {} PROVE FALSE
  <2>0. Bad \in SUBSET SUBSET S
    OBVIOUS
  <2>1. PICK U \in Bad : \A y \in Bad : y \subseteq U => y = U
    <3> HIDE DEF Bad, S
    <3> QED  BY <1>0, <1>1, <2>0, LeastSubset
  <2> DEFINE f == [s \in SUBSET U |-> IF s = {} THEN 0
                                     ELSE 10 * G(s \ {Max(s)}) + ds[Max(s)]]
  <2>2. U \in SUBSET S /\ Of(U) = {}
    BY <2>1
  <2>3. \A s \in SUBSET U : s # U => Of(s) # {}
    BY <2>1
  <2>4. \A s \in SUBSET U : s # {} =>
            /\ Max(s) \in s /\ Max(s) \in S
            /\ s \ {Max(s)} \in SUBSET U /\ s \ {Max(s)} # U
    <3>1. ASSUME NEW s \in SUBSET U, s # {}
          PROVE  /\ Max(s) \in s /\ Max(s) \in S
                 /\ s \ {Max(s)} \in SUBSET U /\ s \ {Max(s)} # U
      <4>1. Max(s) \in s
        BY <2>2, <3>1, MaxIn
      <4> QED  BY <2>2, <4>1
    <3> QED  BY <3>1
  <2>5. ASSUME NEW s \in SUBSET U, s # U
        PROVE  \E h : OnSubsets(h, s) /\ IsNumber(h, ds, s) /\ G(s) = h[s]
    BY <2>3, <2>5 DEF OnSubsets
  <2>6. f \in [SUBSET U -> Nat]
    <3>1. ASSUME NEW s \in SUBSET U, s # {}
          PROVE  10 * G(s \ {Max(s)}) + ds[Max(s)] \in Nat
      <4>1. ds[Max(s)] \in Nat
        BY <2>4, <3>1 DEF Numerals
      <4>2. G(s \ {Max(s)}) \in Nat
        <5> DEFINE t == s \ {Max(s)}
        <5>1. t \in SUBSET U /\ t # U
          BY <2>4, <3>1
        <5> HIDE DEF t, G
        <5>2. PICK h : OnSubsets(h, t) /\ G(t) = h[t]
          BY <5>1, <2>5
        <5>3. h[t] \in Nat
          BY <5>2 DEF OnSubsets
        <5> QED  BY <5>2, <5>3 DEF t
      <4> HIDE DEF G
      <4> QED  BY <4>1, <4>2
    <3> HIDE DEF G
    <3> QED  BY <3>1
  <2>7. ASSUME NEW s \in SUBSET U, s # U PROVE f[s] = G(s)
    <3>1. PICK h : OnSubsets(h, s) /\ IsNumber(h, ds, s) /\ G(s) = h[s]
      BY <2>5, <2>7
    <3>2. CASE s = {}
      <4>1. h[s] = 0
        BY <3>1, <3>2 DEF IsNumber
      <4> HIDE DEF G
      <4> QED  BY <3>1, <3>2, <4>1
    <3>3. CASE s # {}
      <4> DEFINE t == s \ {Max(s)}
      <4>1. h[s] = 10 * h[t] + ds[Max(s)]
        BY <3>1, <3>3 DEF IsNumber
      <4>2. t \in SUBSET U /\ t # U /\ t \subseteq s
        BY <2>4, <3>3
      <4>3. f[s] = 10 * G(t) + ds[Max(s)]
        <5> HIDE DEF G
        <5> QED  BY <3>3
      <4>4. G(t) = h[t]
        <5> HIDE DEF t, G, S, Bad, Of, f
        <5>1. PICK g : OnSubsets(g, t) /\ IsNumber(g, ds, t) /\ G(t) = g[t]
          BY <2>5, <4>2
        <5>2. Places(t, n) /\ Places(s, n)
          BY <2>2, <4>2 DEF Places, S
        <5>3. Agree(ds, ds, t \intersect s)
          BY DEF Agree
        <5>4. \A q : q \subseteq t /\ q \subseteq s => g[q] = h[q]
          BY <5>1, <5>2, <5>3, <3>1, NumberUnique
        <5>5. g[t] = h[t]
          BY <4>2, <5>4
        <5> QED  BY <5>1, <5>5
      <4> HIDE DEF t, G, f
      <4> QED  BY <3>1, <4>1, <4>3, <4>4
    <3> QED  BY <3>2, <3>3
  <2>8. f = [s \in SUBSET U |-> IF s = {} THEN 0
                               ELSE 10 * f[s \ {Max(s)}] + ds[Max(s)]]
    <3>1. \A s \in SUBSET U : s # {} => f[s \ {Max(s)}] = G(s \ {Max(s)})
      BY <2>4, <2>7
    <3> HIDE DEF G
    <3> QED  BY <3>1
  <2>9. f \in Of(U)
    <3> HIDE DEF f
    <3> QED  BY <2>6, <2>8 DEF IsNumber
  <2> QED  BY <2>9, <2>2
<1>2. Of(S) # {}
  BY <1>1
<1> QED  BY <1>2 DEF OnSubsets

\* Reading from the left: every digit counts what was read so far ten times.
LEMMA NumberStep ==
    /\ Number(<<>>) = 0
    /\ \A ds \in Seq(Nat) : Number(ds) \in Nat
    /\ \A ds \in Seq(Nat), d \in Nat : Number(Append(ds, d)) = 10 * Number(ds) + d
<1>1. ASSUME NEW ds \in Seq(Nat), NEW n \in Nat, n = Len(ds)
      PROVE  \E f : /\ OnSubsets(f, 1 .. n) /\ IsNumber(f, ds, 1 .. n)
                   /\ Number(ds) = f[1 .. n]
  <2>1. DOMAIN ds = 1 .. n /\ Numerals(ds, 1 .. n)
    BY <1>1, LenProperties, ElementOfSeq DEF Numerals
  <2>2. PICK g : OnSubsets(g, 1 .. n) /\ IsNumber(g, ds, 1 .. n)
    BY <2>1, NumberExists
  <2> DEFINE f == CHOOSE iter : IsNumber(iter, ds, 1 .. n)
  <2>3. IsNumber(f, ds, 1 .. n)
    BY <2>2
  <2>4. Number(ds) = f[1 .. n]
    BY <2>1, NumberIs
  <2> HIDE DEF f
  <2>5. f[1 .. n] = g[1 .. n]
    <3> DEFINE D == 1 .. n
    <3>1. Places(D, n) /\ Agree(ds, ds, D \intersect D) /\ D \subseteq D
      BY DEF Agree, Places
    <3>2. IsNumber(f, ds, D) /\ IsNumber(g, ds, D)
      BY <2>2, <2>3
    <3> HIDE DEF D
    <3>3. \A q : q \subseteq D /\ q \subseteq D => f[q] = g[q]
      BY <3>1, <3>2, NumberUnique
    <3>4. f[D] = g[D]
      BY <3>1, <3>3
    <3> QED  BY <3>4 DEF D
  <2> QED  BY <2>2, <2>4, <2>5
<1>2. ASSUME NEW ds \in Seq(Nat) PROVE Number(ds) \in Nat
  <2> DEFINE n == Len(ds)
             D == 1 .. n
  <2>1. n \in Nat
    BY LenProperties
  <2>2. PICK f : OnSubsets(f, D) /\ Number(ds) = f[D]
    BY <1>1, <2>1
  <2>3. D \in SUBSET D
    OBVIOUS
  <2> HIDE DEF D
  <2> QED  BY <2>2, <2>3 DEF OnSubsets
<1>3. Number(<<>>) = 0
  <2>1. <<>> \in Seq(Nat) /\ Len(<<>>) = 0 /\ 0 \in Nat /\ 1 .. 0 = {}
    OBVIOUS
  <2>2. PICK f :
             IsNumber(f, <<>>, 1 .. 0) /\ Number(<<>>) = f[1 .. 0]
    BY <1>1, <2>1
  <2>3. f[{}] = 0
    BY <2>2 DEF IsNumber
  <2> QED  BY <2>1, <2>2, <2>3
<1>4. ASSUME NEW ds \in Seq(Nat), NEW d \in Nat
      PROVE  Number(Append(ds, d)) = 10 * Number(ds) + d
  <2> DEFINE n  == Len(ds)
             es == Append(ds, d)
             m  == n + 1
  <2>1. /\ n \in Nat /\ m \in Nat /\ es \in Seq(Nat) /\ Len(es) = m
        /\ es[m] = d /\ \A k \in 1 .. n : es[k] = ds[k]
    BY LenProperties, AppendProperties
  <2>2. PICK f :
             IsNumber(f, ds, 1 .. n) /\ Number(ds) = f[1 .. n]
    BY <1>1, <2>1
  <2> HIDE DEF es
  <2>3. PICK g :
             IsNumber(g, es, 1 .. m) /\ Number(es) = g[1 .. m]
    BY <1>1, <2>1
  <2> DEFINE D == 1 .. n
             E == 1 .. m
  <2>4. E \in SUBSET E /\ E # {} /\ D \in SUBSET E /\ D \subseteq D /\ D \subseteq E
    <3>1. m \in E /\ D \subseteq E
      BY <2>1
    <3> HIDE DEF D, E
    <3> QED  BY <3>1
  <2>5. Max(E) = m /\ E \ {m} = D
    BY <2>1, MaxOfPlaces
  <2>6. Agree(es, ds, E \intersect D)
    BY <2>1 DEF Agree
  <2>7. IsNumber(f, ds, D) /\ IsNumber(g, es, E) /\ Number(ds) = f[D] /\ Number(es) = g[E]
    BY <2>2, <2>3
  <2>8. Places(E, m) /\ Places(D, m)
    BY <2>1, <2>4 DEF Places
  <2> HIDE DEF D, E, n, m
  <2>9. g[E] = 10 * g[D] + d
    BY <2>1, <2>4, <2>5, <2>7 DEF IsNumber
  <2>10. \A s : s \subseteq E /\ s \subseteq D => g[s] = f[s]
    BY <2>6, <2>7, <2>8, NumberUnique
  <2>11. g[D] = f[D]
    BY <2>4, <2>10
  <2> QED  BY <2>7, <2>9, <2>11 DEF es
<1> QED  BY <1>2, <1>3, <1>4

-----------------------------------------------------------------------------
(***************************************************************************)
(* Powers of ten, and the digits of a number.                              *)
(***************************************************************************)
LEMMA Induct ==
    ASSUME NEW S \in SUBSET Nat, 0 \in S, \A n \in S : n + 1 \in S
    PROVE  \A n \in Nat : n \in S
<1>1. ASSUME Nat \ S # {} PROVE FALSE
  <2>1. PICK n \in Nat \ S : \A m \in Nat \ S : n <= m
    BY <1>1, LeastNumber
  <2>2. n # 0 /\ n - 1 \in Nat /\ ~(n <= n - 1) /\ (n - 1) + 1 = n
    BY <2>1
  <2>3. n - 1 \in S
    BY <2>1, <2>2
  <2>4. (n - 1) + 1 \in S
    BY <2>3
  <2> QED  BY <2>1, <2>2, <2>4
<1> QED  BY <1>1

LEMMA StrongInduct ==
    ASSUME NEW S \in SUBSET Nat,
           \A n \in Nat : (\A m \in Nat : m < n => m \in S) => n \in S
    PROVE  \A n \in Nat : n \in S
<1>1. ASSUME Nat \ S # {} PROVE FALSE
  <2>1. PICK n \in Nat \ S : \A m \in Nat \ S : n <= m
    BY <1>1, LeastNumber
  <2>2. \A m \in Nat : m < n => m \in S
    <3>1. ASSUME NEW m \in Nat, m < n PROVE m \in S
      <4>1. ~(n <= m)
        BY <3>1
      <4> QED  BY <2>1, <4>1
    <3> QED  BY <3>1
  <2> QED  BY <2>1, <2>2
<1> QED  BY <1>1

LEMMA TensStep ==
    tens[0] = 1 /\ \A n \in Nat : tens[n] \in Nat /\ tens[n + 1] = 10 * tens[n]
<1>1. \A n \in Nat : n + 1 \in Nat /\ n + 1 # 0 /\ (n + 1) - 1 = n
  OBVIOUS
<1> QED  BY <1>1, TensIs

LEMMA TensPositive == \A n \in Nat : tens[n] \in Nat /\ tens[n] >= 1
<1> DEFINE S == {n \in Nat : tens[n] >= 1}
<1>1. 0 \in S /\ S \in SUBSET Nat
  BY TensStep
<1>2. ASSUME NEW n \in S PROVE n + 1 \in S
  <2>1. n \in Nat /\ tens[n] \in Nat /\ tens[n] >= 1 /\ tens[n + 1] = 10 * tens[n]
    BY TensStep
  <2>2. tens[n + 1] >= 1
    BY <2>1
  <2> QED  BY <2>1, <2>2
<1>3. \A n \in Nat : n \in S
  <2> HIDE DEF S
  <2> QED  BY <1>1, <1>2, Induct
<1> QED  BY <1>3, TensStep

LEMMA TensSum == \A m, n \in Nat : tens[m + n] = tens[m] * tens[n]
<1>1. ASSUME NEW m \in Nat PROVE \A n \in Nat : tens[m + n] = tens[m] * tens[n]
  <2> DEFINE S == {n \in Nat : tens[m + n] = tens[m] * tens[n]}
  <2>1. 0 \in S /\ S \in SUBSET Nat
    <3>1. tens[m + 0] = tens[m] * 1
      BY TensStep
    <3> QED  BY <3>1, TensStep
  <2>2. ASSUME NEW n \in S PROVE n + 1 \in S
    <3>1. n \in Nat /\ m + n \in Nat /\ m + (n + 1) = (m + n) + 1
      OBVIOUS
    <3>2. tens[m + n] = tens[m] * tens[n]
      OBVIOUS
    <3>3. /\ tens[(m + n) + 1] = 10 * tens[m + n] /\ tens[n + 1] = 10 * tens[n]
          /\ tens[m] \in Nat /\ tens[n] \in Nat
      BY <3>1, TensStep
    <3>4. \A x, y \in Nat : 10 * (x * y) = x * (10 * y)
      OBVIOUS
    <3>5. 10 * (tens[m] * tens[n]) = tens[m] * (10 * tens[n])
      BY <3>3, <3>4
    <3>6. tens[m + (n + 1)] = tens[m] * tens[n + 1]
      BY <3>1, <3>2, <3>3, <3>5
    <3> QED  BY <3>1, <3>6
  <2>3. \A n \in Nat : n \in S
    <3> HIDE DEF S
    <3> QED  BY <2>1, <2>2, Induct
  <2> QED  BY <2>3
<1> QED  BY <1>1

LEMMA TensOrder == \A m, n \in Nat : m <= n => tens[m] <= tens[n]
<1>1. ASSUME NEW m \in Nat, NEW n \in Nat, m <= n PROVE tens[m] <= tens[n]
  <2> DEFINE k == n - m
  <2>1. k \in Nat /\ m + k = n
    BY <1>1
  <2> HIDE DEF k
  <2>2. tens[n] = tens[m] * tens[k] /\ tens[m] \in Nat /\ tens[k] \in Nat /\ tens[k] >= 1
    BY <2>1, TensSum, TensPositive
  <2>3. \A x, y \in Nat : y >= 1 => x <= x * y
    OBVIOUS
  <2> QED  BY <2>2, <2>3
<1> QED  BY <1>1

\* The digits of n say n, do not start with 0 (but for 0 itself), and are as many as n needs.
Says(n) ==
    /\ Number(digits[n]) = n
    /\ Len(digits[n]) \in Nat /\ Len(digits[n]) >= 1
    /\ n >= 1 => digits[n][1] # 0 /\ tens[Len(digits[n]) - 1] <= n

LEMMA OneDigit == \A d \in Nat : Number(<<d>>) = d
<1>1. ASSUME NEW d \in Nat PROVE Number(<<d>>) = d
  <2>1. <<d>> = Append(<<>>, d) /\ <<>> \in Seq(Nat)
    OBVIOUS
  <2>2. Number(<<d>>) = 10 * Number(<<>>) + d
    BY <2>1, NumberStep
  <2> QED  BY <2>2, NumberStep
<1> QED  BY <1>1

LEMMA DigitsType == \A n \in Nat : digits[n] \in Seq(Digits) /\ digits[n] \in Seq(Nat)
<1>1. \A s \in Seq(Digits) : s \in Seq(Nat)
  <2>1. Digits \subseteq Nat
    BY DEF Digits
  <2> QED  BY <2>1, SeqMonotonic
<1> QED  BY <1>1, DigitsAre

LEMMA DigitsSay == \A n \in Nat : Says(n)
<1> DEFINE S == {n \in Nat : Says(n)}
<1>1. ASSUME NEW n \in Nat, \A m \in Nat : m < n => m \in S PROVE n \in S
  <2>1. CASE n < 10
    <3>1. digits[n] = <<n>>
      BY <2>1, DigitsAre
    <3>2. Len(digits[n]) = 1 /\ digits[n][1] = n
      BY <3>1
    <3>3. Number(digits[n]) = n
      BY <3>1, OneDigit
    <3>4. tens[Len(digits[n]) - 1] = 1
      BY <3>2, TensStep
    <3>5. /\ Len(digits[n]) \in Nat /\ Len(digits[n]) >= 1
          /\ n >= 1 => digits[n][1] # 0
          /\ n >= 1 => tens[Len(digits[n]) - 1] <= n
      BY <3>2, <3>4
    <3> QED  BY <3>3, <3>5 DEF Says
  <2>2. CASE ~(n < 10)
    <3> DEFINE q == n \div 10
               d == n % 10
               L == Len(digits[q])
    <3>1. q \in Nat /\ d \in Digits /\ n = 10 * q + d /\ q # 0 /\ q < n
      BY <2>2, Split
    <3>2. digits[n] = Append(digits[q], d)
      BY <2>2, DigitsAre
    <3> HIDE DEF q, d
    <3>3. Says(q)
      BY <1>1, <3>1
    <3>4. q >= 1 /\ d \in Nat /\ digits[q] \in Seq(Nat)
      BY <3>1, DigitsType DEF Digits
    <3>5. /\ Number(digits[q]) = q /\ L \in Nat /\ L >= 1
          /\ digits[q][1] # 0 /\ tens[L - 1] <= q
      BY <3>3, <3>4 DEF Says
    <3>6. Number(digits[n]) = n
      BY <3>1, <3>2, <3>4, <3>5, NumberStep
    <3>7. Len(digits[n]) = L + 1 /\ digits[n][1] = digits[q][1]
      <4>1. 1 \in 1 .. L
        BY <3>5
      <4> QED  BY <3>2, <3>4, <4>1, AppendProperties
    <3>8. tens[L] <= n
      <4> DEFINE k == L - 1
      <4>1. k \in Nat /\ k + 1 = L
        BY <3>5
      <4> HIDE DEF k
      <4>2. tens[k] \in Nat /\ tens[L] = 10 * tens[k]
        BY <4>1, TensStep
      <4>3. tens[k] <= q
        BY <3>5 DEF k
      <4> HIDE DEF L
      <4>4. d \in Nat
        BY <3>4
      <4> QED  BY <3>1, <4>2, <4>3, <4>4
    <3>9. L + 1 \in Nat /\ L + 1 >= 1 /\ (L + 1) - 1 = L
      BY <3>5
    <3> HIDE DEF L
    <3>10. Says(n)
      BY <3>5, <3>6, <3>7, <3>8, <3>9 DEF Says
    <3> QED  BY <3>10
  <2> QED  BY <2>1, <2>2
<1>2. \A n \in Nat : n \in S
  <2>1. S \in SUBSET Nat
    OBVIOUS
  <2> HIDE DEF S
  <2> QED  BY <1>1, <2>1, StrongInduct
<1> QED  BY <1>2

-----------------------------------------------------------------------------
(***************************************************************************)
(* Powers of two, as the number of the subsets of a set.                   *)
(***************************************************************************)
LEMMA TwosCount ==
    ASSUME NEW n \in Nat
    PROVE  /\ IsFiniteSet(SUBSET (1 .. n)) /\ Cardinality(SUBSET (1 .. n)) = 2 ^ n
           /\ 2 ^ n \in Nat
<1> DEFINE S == 1 .. n
<1>1. IsFiniteSet(S) /\ Cardinality(S) = n
  BY FS_Interval
<1> HIDE DEF S
<1>2. IsFiniteSet(SUBSET S) /\ Cardinality(SUBSET S) = 2 ^ n
  BY <1>1, FS_SUBSET
<1>3. Cardinality(SUBSET S) \in Nat
  BY <1>2, FS_CardinalityType
<1> QED  BY <1>2, <1>3 DEF S

LEMMA TwosDouble == \A n \in Nat : 2 ^ (n + 1) = 2 * 2 ^ n
<1>1. ASSUME NEW n \in Nat PROVE 2 ^ (n + 1) = 2 * 2 ^ n
  <2> DEFINE A == SUBSET (1 .. n)
             B == {s \union {n + 1} : s \in A}
             C == SUBSET (1 .. n + 1)
             f == [s \in A |-> s \union {n + 1}]
  <2>1. ASSUME NEW s \in A PROVE n + 1 \notin s
    <3>1. n + 1 \notin 1 .. n
      OBVIOUS
    <3> QED  BY <3>1
  <2>2. A \intersect B = {}
    BY <2>1
  <2>3. A \union B = C
    <3>1. \A s \in A : s \in C /\ s \union {n + 1} \in C
      <4>1. 1 .. n \subseteq 1 .. n + 1 /\ n + 1 \in 1 .. n + 1
        OBVIOUS
      <4> QED  BY <4>1
    <3>2. ASSUME NEW s \in C PROVE s \in A \union B
      <4>1. s \ {n + 1} \in A
        <5>1. (1 .. n + 1) \ {n + 1} = 1 .. n
          BY MaxOfPlaces
        <5> QED  BY <5>1
      <4>2. CASE n + 1 \in s
        <5>1. s = (s \ {n + 1}) \union {n + 1}
          BY <4>2
        <5> QED  BY <4>1, <5>1
      <4>3. CASE n + 1 \notin s
        <5>1. s = s \ {n + 1}
          BY <4>3
        <5> QED  BY <4>1, <5>1
      <4> QED  BY <4>2, <4>3
    <3> HIDE DEF A, C
    <3> QED  BY <3>1, <3>2
  <2>4. ExistsBijection(A, B)
    <3>1. f \in [A -> B]
      OBVIOUS
    <3>2. \A s, t \in A : f[s] = f[t] => s = t
      <4>1. ASSUME NEW s \in A, NEW t \in A, f[s] = f[t] PROVE s = t
        <5>1. s \union {n + 1} = t \union {n + 1}
          BY <4>1
        <5>2. n + 1 \notin s /\ n + 1 \notin t
          BY <2>1
        <5> QED  BY <5>1, <5>2
      <4> QED  BY <4>1
    <3>3. \A b \in B : \E s \in A : f[s] = b
      OBVIOUS
    <3> HIDE DEF A, B, f
    <3>4. f \in Bijection(A, B)
      BY <3>1, <3>2, <3>3 DEF Bijection, Injection, IsInjective, Surjection
    <3> QED  BY <3>4 DEF ExistsBijection
  <2>5. IsFiniteSet(A) /\ Cardinality(A) = 2 ^ n /\ 2 ^ n \in Nat
    BY TwosCount
  <2>6. Cardinality(C) = 2 ^ (n + 1)
    <3>1. n + 1 \in Nat
      OBVIOUS
    <3> QED  BY <3>1, TwosCount
  <2> HIDE DEF A, B, C
  <2>7. IsFiniteSet(B) /\ Cardinality(B) = 2 ^ n
    BY <2>4, <2>5, FS_Bijection
  <2>8. Cardinality(A \union B) = Cardinality(A) + Cardinality(B) - Cardinality(A \intersect B)
    BY <2>5, <2>7, FS_Union
  <2>9. Cardinality(A \intersect B) = 0
    BY <2>2, FS_EmptySet
  <2> QED  BY <2>3, <2>5, <2>6, <2>7, <2>8, <2>9
<1> QED  BY <1>1

LEMMA Twos ==
    /\ \A n \in Nat : 2 ^ n \in Nat /\ 2 ^ n >= 1
    /\ \A m, n \in Nat : m <= n => 2 ^ m <= 2 ^ n
<1>1. \A m, k \in Nat : 2 ^ (m + k) \in Nat /\ 2 ^ m \in Nat /\ 2 ^ m <= 2 ^ (m + k)
  <2>1. ASSUME NEW m \in Nat
        PROVE  \A k \in Nat : 2 ^ (m + k) \in Nat /\ 2 ^ m \in Nat /\ 2 ^ m <= 2 ^ (m + k)
    <3> DEFINE S == {k \in Nat : 2 ^ (m + k) \in Nat /\ 2 ^ m \in Nat /\ 2 ^ m <= 2 ^ (m + k)}
    <3>1. 0 \in S /\ S \in SUBSET Nat
      <4>1. m + 0 = m
        OBVIOUS
      <4>2. 2 ^ m \in Nat
        BY TwosCount
      <4>3. 2 ^ (m + 0) = 2 ^ m
        BY <4>1
      <4>4. 2 ^ m <= 2 ^ m
        BY <4>2
      <4> QED  BY <4>2, <4>3, <4>4
    <3>2. ASSUME NEW k \in S PROVE k + 1 \in S
      <4>1. m + k \in Nat /\ m + (k + 1) = (m + k) + 1 /\ k + 1 \in Nat
        OBVIOUS
      <4>2. 2 ^ ((m + k) + 1) = 2 * 2 ^ (m + k)
        BY <4>1, TwosDouble
      <4>3. 2 ^ (m + k) \in Nat /\ 2 ^ m \in Nat /\ 2 ^ m <= 2 ^ (m + k)
        OBVIOUS
      <4>4. 2 ^ (m + (k + 1)) = 2 * 2 ^ (m + k)
        BY <4>1, <4>2
      <4>5. 2 ^ (m + (k + 1)) \in Nat /\ 2 ^ m <= 2 ^ (m + (k + 1))
        BY <4>3, <4>4
      <4> QED  BY <4>1, <4>3, <4>5
    <3>3. \A k \in Nat : k \in S
      <4> HIDE DEF S
      <4> QED  BY <3>1, <3>2, Induct
    <3> QED  BY <3>3
  <2> QED  BY <2>1
<1>2. 2 ^ 0 = 1
  <2>1. 1 .. 0 = {} /\ SUBSET {} = {{}} /\ 0 \in Nat
    OBVIOUS
  <2>2. Cardinality({{}}) = 1
    BY FS_Singleton
  <2>3. Cardinality(SUBSET (1 .. 0)) = 2 ^ 0
    BY <2>1, TwosCount
  <2> QED  BY <2>1, <2>2, <2>3
<1>3. ASSUME NEW n \in Nat PROVE 2 ^ n \in Nat /\ 2 ^ n >= 1
  <2>1. 0 + n = n /\ 0 \in Nat
    OBVIOUS
  <2>2. 2 ^ (0 + n) \in Nat /\ 2 ^ 0 <= 2 ^ (0 + n)
    BY <1>1, <2>1
  <2> QED  BY <1>2, <2>1, <2>2
<1>4. ASSUME NEW m \in Nat, NEW n \in Nat, m <= n PROVE 2 ^ m <= 2 ^ n
  <2> DEFINE k == n - m
  <2>1. k \in Nat /\ m + k = n
    BY <1>4
  <2> HIDE DEF k
  <2> QED  BY <1>1, <2>1
<1> QED  BY <1>3, <1>4

-----------------------------------------------------------------------------
(***************************************************************************)
(* What the server prints reads back as what it held.                      *)
(***************************************************************************)
LEMMA Hundred == tens[0] = 1 /\ tens[1] = 10 /\ tens[2] = 100
<1>1. tens[0] = 1 /\ tens[0 + 1] = 10 * tens[0] /\ tens[1 + 1] = 10 * tens[1]
  BY TensStep
<1> QED  BY <1>1

LEMMA Places2 == \A n \in Nat : tens[n + 2] = 100 * tens[n] /\ tens[n] \in Nat
<1>1. ASSUME NEW n \in Nat PROVE tens[n + 2] = 100 * tens[n] /\ tens[n] \in Nat
  <2>1. n + 1 \in Nat /\ (n + 1) + 1 = n + 2
    OBVIOUS
  <2>2. tens[(n + 1) + 1] = 10 * tens[n + 1] /\ tens[n + 1] = 10 * tens[n] /\ tens[n] \in Nat
    BY <2>1, TensStep
  <2> QED  BY <2>1, <2>2
<1> QED  BY <1>1

LEMMA Quotient == \A x, y \in Nat : y >= 1 => (x * y) \div y = x
OBVIOUS

\* Zeros at the end of a text count for powers of ten.
LEMMA ZerosCount ==
    ASSUME NEW ds \in Seq(Nat), NEW k \in 1 .. Len(ds),
           \A j \in k + 1 .. Len(ds) : ds[j] = 0
    PROVE  Number(ds) = Number(SubSeq(ds, 1, k)) * tens[Len(ds) - k]
<1> DEFINE L == Len(ds)
           S == {j \in Nat : k + j <= L =>
                    Number(SubSeq(ds, 1, k + j)) = Number(SubSeq(ds, 1, k)) * tens[j]}
<1>1. L \in Nat /\ k \in Nat /\ 1 <= k /\ k <= L
  BY LenProperties
<1>2. ASSUME NEW j \in Nat, j <= L PROVE SubSeq(ds, 1, j) \in Seq(Nat)
  <2>1. \A i \in 1 .. j : ds[i] \in Nat
    BY <1>2, <1>1, ElementOfSeq
  <2> QED  BY <2>1, SubSeqProperties
<1>3. 0 \in S /\ S \in SUBSET Nat
  <2>1. k + 0 = k /\ Number(SubSeq(ds, 1, k)) \in Nat
    <3>1. SubSeq(ds, 1, k) \in Seq(Nat) /\ k + 0 = k
      BY <1>1, <1>2
    <3> QED  BY <3>1, NumberStep
  <2>2. \A x \in Nat : x = x * 1
    OBVIOUS
  <2>3. Number(SubSeq(ds, 1, k)) = Number(SubSeq(ds, 1, k)) * tens[0]
    BY <2>1, <2>2, Hundred
  <2>4. Number(SubSeq(ds, 1, k + 0)) = Number(SubSeq(ds, 1, k)) * tens[0]
    BY <2>1, <2>3
  <2> QED  BY <2>4
<1>4. ASSUME NEW j \in S PROVE j + 1 \in S
  <2>1. CASE k + (j + 1) <= L
    <3> DEFINE m == k + j
    <3>1. /\ j \in Nat /\ m \in Nat /\ k + (j + 1) = m + 1 /\ m <= L
          /\ 1 \in 1 .. L /\ m + 1 \in 1 .. L /\ m + 1 \in k + 1 .. L /\ (m + 1) - 1 = m
      BY <1>1, <2>1
    <3>2. Number(SubSeq(ds, 1, m)) = Number(SubSeq(ds, 1, k)) * tens[j]
      BY <3>1
    <3> HIDE DEF m, S
    <3>3. SubSeq(ds, 1, m + 1) = SubSeq(ds, 1, m) \o <<0>>
      <4>1. ds[m + 1] = 0
        BY <3>1
      <4> QED  BY <3>1, <4>1, SubSeqRecursiveSecond
    <3>4. SubSeq(ds, 1, m) \in Seq(Nat) /\ 0 \in Nat
      BY <1>2, <3>1
    <3>5. SubSeq(ds, 1, m + 1) = Append(SubSeq(ds, 1, m), 0)
      BY <3>3, <3>4, AppendIsConcat
    <3>6. Number(SubSeq(ds, 1, m + 1)) = 10 * Number(SubSeq(ds, 1, m)) + 0
      BY <3>4, <3>5, NumberStep
    <3>7. /\ Number(SubSeq(ds, 1, m)) \in Nat /\ Number(SubSeq(ds, 1, k)) \in Nat
          /\ tens[j] \in Nat /\ tens[j + 1] = 10 * tens[j]
      BY <1>1, <1>2, <3>1, <3>4, NumberStep, TensStep
    <3>8. \A x, y \in Nat : 10 * (x * y) + 0 = x * (10 * y)
      OBVIOUS
    <3>9. Number(SubSeq(ds, 1, m + 1)) = Number(SubSeq(ds, 1, k)) * tens[j + 1]
      BY <3>2, <3>6, <3>7, <3>8
    <3>10. Number(SubSeq(ds, 1, k + (j + 1))) = Number(SubSeq(ds, 1, k)) * tens[j + 1]
      BY <3>1, <3>9
    <3>11. j + 1 \in Nat
      BY <3>1
    <3> QED  BY <3>10, <3>11 DEF S
  <2>2. CASE ~(k + (j + 1) <= L)
    BY <2>2
  <2> QED  BY <2>1, <2>2
<1>5. \A j \in Nat : j \in S
  <2> HIDE DEF S
  <2> QED  BY <1>3, <1>4, Induct
<1>6. L - k \in Nat /\ k + (L - k) = L
  BY <1>1
<1>7. Number(SubSeq(ds, 1, k + (L - k))) = Number(SubSeq(ds, 1, k)) * tens[L - k]
  <2>1. L - k \in S
    BY <1>5, <1>6
  <2>2. L <= L
    BY <1>1
  <2> HIDE DEF L
  <2> QED  BY <2>1, <2>2, <1>6
<1>8. SubSeq(ds, 1, L) = ds
  BY SubSeqFull
<1> QED  BY <1>6, <1>7, <1>8

\* Rounding leaves a number alone that has no more digits than are printed, and does not
\* make nothing of one.
LEMMA RoundedIs ==
    ASSUME NEW n \in Nat
    PROVE  /\ Rounded(n) \in Nat
           /\ n >= 1 => Rounded(n) >= 1
           /\ n < tens[FloatDigits] => Rounded(n) = n
<1> DEFINE L == Len(digits[n])
           p == L - FloatDigits
<1>1. FloatDigits \in Nat /\ FloatDigits >= 1
  BY ValuesAssumption
<1>2. L \in Nat /\ L >= 1 /\ (n >= 1 => tens[L - 1] <= n)
  BY DigitsSay DEF Says
<1> HIDE DEF L
<1>3. CASE p <= 0
  <2>1. Rounded(n) = n
    BY <1>3 DEF Rounded, p, L
  <2> QED  BY <2>1
<1>4. CASE ~(p <= 0)
  <2>1. p \in Nat /\ p <= L - 1 /\ L - 1 \in Nat /\ FloatDigits <= L - 1
    BY <1>1, <1>2, <1>4
  <2> DEFINE u == tens[p]
  <2>2. Rounded(n) = ((n + u \div 2) \div u) * u
    BY <1>4 DEF Rounded, p, L
  <2>3. u \in Nat /\ u >= 1
    BY <2>1, TensPositive
  <2>4. /\ u <= tens[L - 1] /\ tens[FloatDigits] <= tens[L - 1]
        /\ tens[L - 1] \in Nat /\ tens[FloatDigits] \in Nat
    BY <1>1, <2>1, TensOrder, TensPositive
  <2> HIDE DEF u, p
  <2>5. (n + u \div 2) \in Nat /\ n + u \div 2 >= n
    BY <2>3
  <2>6. \A x, y \in Nat : y >= 1 => x \div y \in Nat
    OBVIOUS
  <2>7. \A x, y \in Nat : y >= 1 /\ x >= y => x \div y >= 1
    OBVIOUS
  <2>8. \A x, y \in Nat : x * y \in Nat
    OBVIOUS
  <2>9. \A x, y \in Nat : x >= 1 /\ y >= 1 => x * y >= 1
    OBVIOUS
  <2> DEFINE q == (n + u \div 2) \div u
  <2>10. q \in Nat
    BY <2>3, <2>5, <2>6
  <2>11. Rounded(n) \in Nat
    <3> HIDE DEF q
    <3>1. q * u \in Nat
      BY <2>3, <2>8, <2>10
    <3> QED  BY <2>2, <3>1 DEF q
  <2>12. ASSUME n >= 1 PROVE Rounded(n) >= 1
    <3>1. n + u \div 2 >= u
      BY <1>2, <2>3, <2>4, <2>5, <2>12
    <3>2. q >= 1
      BY <2>3, <2>5, <2>7, <3>1
    <3> HIDE DEF q
    <3>3. q * u >= 1
      BY <2>3, <2>9, <2>10, <3>2
    <3> QED  BY <2>2, <3>3 DEF q
  <2>13. ~(n < tens[FloatDigits])
    <3>1. CASE n >= 1
      BY <1>2, <2>4, <3>1
    <3>2. CASE n = 0
      <4>1. digits[0] = <<0>>
        BY DigitsAre
      <4>2. L = 1
        BY <3>2, <4>1 DEF L
      <4> QED  BY <1>1, <2>1, <4>2
    <3> QED  BY <3>1, <3>2
  <2> QED  BY <2>11, <2>12, <2>13
<1>5. p \in Int
  BY <1>1, <1>2
<1> QED  BY <1>3, <1>4

Zeroless(ds) == SelectLastInSeq(ds, LAMBDA d : d # 0)

LEMMA LastNotZero ==
    ASSUME NEW ds \in Seq(Nat), ds # <<>>, ds[1] # 0
    PROVE  /\ Zeroless(ds) \in 1 .. Len(ds)
           /\ \A j \in Zeroless(ds) + 1 .. Len(ds) : ds[j] = 0
<1> DEFINE L == Len(ds)
           I == {i \in 1 .. L : ds[i] # 0}
           K == Zeroless(ds)
<1>1. L \in Nat /\ L >= 1
  BY LenProperties, EmptySeq
<1>2. I \in SUBSET (1 .. L) /\ 1 \in I /\ I # {}
  <2>1. 1 \in I
    BY <1>1
  <2> QED  BY <2>1
<1>3. K = Max(I)
  BY <1>2 DEF Zeroless, SelectLastInSeq
<1>4. Max(I) \in I /\ \A x \in I : Max(I) >= x
  <2> HIDE DEF I, L
  <2> QED  BY <1>1, <1>2, MaxIn
<1>5. K \in 1 .. L /\ \A x \in I : K >= x
  BY <1>3, <1>4
<1> HIDE DEF K
<1>6. ASSUME NEW j \in K + 1 .. L PROVE ds[j] = 0
  <2>1. K \in Nat /\ j \in 1 .. L /\ ~(K >= j)
    BY <1>1, <1>5
  <2>2. j \notin I
    BY <1>5, <2>1
  <2> QED  BY <2>1, <2>2
<1> QED  BY <1>5, <1>6 DEF K

\* E notation: the mantissa without its zeros, times a power of ten, is the number.
LEMMA ScientificReads ==
    ASSUME NEW n \in Nat, Rounded(n) \in Nat, Rounded(n) >= 1
    PROVE  strtod(Scientific(n)) = 100 * Rounded(n)
<1> DEFINE N  == Rounded(n)
           ds == digits[N]
           L  == Len(ds)
           K  == Zeroless(ds)
           kept == SubSeq(ds, 1, K)
           t  == Scientific(n)
<1>1. /\ N \in Nat /\ N >= 1 /\ ds \in Seq(Nat) /\ Number(ds) = N
      /\ L \in Nat /\ L >= 1 /\ ds[1] # 0
  BY DigitsSay, DigitsType DEF Says
<1>2. ds # <<>>
  <2>1. L # 0
    BY <1>1
  <2> HIDE DEF ds
  <2> QED  BY <1>1, <2>1, EmptySeq
<1>3. t = [neg |-> FALSE, whole |-> <<Head(ds)>>, fraction |-> Tail(kept), exp |-> L - 1]
  BY DEF Scientific, Zeroless
<1> HIDE DEF t, N, ds
<1>4. K \in 1 .. L /\ \A j \in K + 1 .. L : ds[j] = 0
  BY <1>1, <1>2, LastNotZero
<1> HIDE DEF K
<1>5. Head(ds) = ds[1]
  BY <1>1, <1>2
<1>6. K \in Nat /\ 1 <= K /\ K <= L /\ 1 \in 1 .. L
  BY <1>1, <1>4
<1>7. kept = <<ds[1]>> \o SubSeq(ds, 2, K) /\ Tail(kept) = SubSeq(ds, 2, K)
  <2>1. 1 + 1 = 2 /\ K \in 1 .. L
    BY <1>4
  <2> QED  BY <1>1, <1>6, <2>1, SubSeqRecursiveFirst, HeadTailOfSubSeq
<1>8. kept \in Seq(Nat) /\ Len(SubSeq(ds, 2, K)) = K - 1
  <2>1. \A i \in 1 .. K : ds[i] \in Nat
    BY <1>1, <1>6, ElementOfSeq
  <2>2. kept \in Seq(Nat)
    BY <1>6, <2>1, SubSeqProperties
  <2>3. \A i \in 2 .. K : ds[i] \in Nat
    BY <1>6, <2>1
  <2>4. Len(SubSeq(ds, 2, K)) = IF 2 <= K THEN K - 2 + 1 ELSE 0
    <3>1. 2 \in Int /\ K \in Int
      BY <1>6
    <3> QED  BY <2>3, <3>1, SubSeqProperties
  <2> QED  BY <1>6, <2>2, <2>4
<1>9. t.whole \o t.fraction = kept /\ Len(t.fraction) = K - 1 /\ ~t.neg /\ t.exp + 2 = L + 1
  <2> HIDE DEF kept, L
  <2>1. /\ t.whole = <<ds[1]>> /\ t.fraction = Tail(kept)
        /\ t.neg = FALSE /\ t.exp = L - 1
    BY <1>3, <1>5
  <2>2. t.whole \o t.fraction = kept
    BY <1>7, <2>1
  <2>3. Len(t.fraction) = K - 1
    BY <1>7, <1>8, <2>1
  <2>4. t.exp + 2 = L + 1
    BY <1>1, <2>1
  <2> QED  BY <2>1, <2>2, <2>3, <2>4
<1>10. N = Number(kept) * tens[L - K]
  BY <1>1, <1>4, ZerosCount
<1> HIDE DEF kept, L
<1>11. strtod(t) = (Number(kept) * tens[L + 1]) \div tens[K - 1]
  BY <1>9 DEF strtod
<1>12. tens[L + 1] = tens[L - K] * (100 * tens[K - 1])
  <2>1. L - K \in Nat /\ K - 1 \in Nat /\ K + 1 \in Nat /\ (L - K) + (K + 1) = L + 1
        /\ (K - 1) + 2 = K + 1
    BY <1>1, <1>6
  <2>2. tens[(L - K) + (K + 1)] = tens[L - K] * tens[K + 1]
    BY <2>1, TensSum
  <2>3. tens[(K - 1) + 2] = 100 * tens[K - 1]
    BY <2>1, Places2
  <2> QED  BY <2>1, <2>2, <2>3
<1>13. /\ Number(kept) \in Nat /\ tens[L - K] \in Nat
       /\ tens[K - 1] \in Nat /\ tens[K - 1] >= 1
  <2>1. L - K \in Nat /\ K - 1 \in Nat
    BY <1>1, <1>6
  <2> QED  BY <1>8, <2>1, NumberStep, TensPositive
<1>14. \A x, y, z \in Nat : x * (y * (100 * z)) = (100 * (x * y)) * z
  OBVIOUS
<1>15. Number(kept) * tens[L + 1] = (100 * N) * tens[K - 1]
  BY <1>10, <1>12, <1>13, <1>14
<1>16. strtod(t) = 100 * N
  <2>1. 100 * N \in Nat
    BY <1>1
  <2>2. ((100 * N) * tens[K - 1]) \div tens[K - 1] = 100 * N
    BY <1>13, <2>1, Quotient
  <2> QED  BY <1>11, <1>15, <2>2
<1> QED  BY <1>16 DEF t, N

-----------------------------------------------------------------------------
(***************************************************************************)
(* A decimal number, whole or with a fraction of one or two digits.        *)
(***************************************************************************)
LEMMA AbsIs == \A f \in Int : Abs(f) \in Nat /\ (f >= 0 => Abs(f) = f) /\ (f < 0 => f = -Abs(f))
BY DEF Abs

\* The parts of a number in hundredths.
LEMMA Parts ==
    ASSUME NEW a \in Nat
    PROVE  /\ a \div 100 \in Nat /\ a % 100 \in 0 .. 99
           /\ a = 100 * (a \div 100) + (a % 100)
<1>1. a \div 100 \in Nat
  OBVIOUS
<1>2. a % 100 \in 0 .. 99
  OBVIOUS
<1>3. a % 100 = a - 100 * (a \div 100)
  OBVIOUS
<1> QED  BY <1>1, <1>2, <1>3

LEMMA DecimalReads ==
    ASSUME NEW f \in Int
    PROVE  /\ Number(Decimal(f).whole) = Abs(f) \div 100
           /\ Decimal(f).neg = (f < 0)
           /\ Len(Decimal(f).whole) \in Nat
           /\ strtod(Decimal(f)) = f
<1> DEFINE t == Decimal(f)
           a == Abs(f)
           W == a \div 100
           p == a % 100
           ds == digits[W]
<1>1. a \in Nat /\ (f >= 0 => a = f) /\ (f < 0 => f = -a)
  BY AbsIs
<1> HIDE DEF a
<1>2. W \in Nat /\ p \in 0 .. 99 /\ a = 100 * W + p
  BY <1>1, Parts
<1>3. /\ t.neg = (f < 0) /\ t.whole = ds /\ t.exp = 0
      /\ t.fraction = IF p = 0 THEN <<>>
                      ELSE IF p % 10 = 0 THEN <<p \div 10>> ELSE <<p \div 10, p % 10>>
  BY DEF Decimal, a
<1> HIDE DEF W, p, t
<1>4. ds \in Seq(Nat) /\ Number(ds) = W /\ Len(ds) \in Nat
  BY <1>2, DigitsSay, DigitsType DEF Says
<1> HIDE DEF ds
<1>5. p \in Nat /\ p \div 10 \in Nat /\ p % 10 \in Nat /\ p = 10 * (p \div 10) + (p % 10)
  <2>1. p \in Nat
    BY <1>2
  <2> QED  BY <2>1, Split DEF Digits
<1>6. (Number(t.whole \o t.fraction) * tens[t.exp + 2]) \div tens[Len(t.fraction)] = a
  <2>1. t.exp + 2 = 2
    BY <1>3
  <2>2. CASE p = 0
    <3>1. t.fraction = <<>> /\ t.whole \o t.fraction = ds /\ Len(t.fraction) = 0
      <4>1. t.fraction = <<>>
        BY <1>3, <2>2
      <4>2. ds \o <<>> = ds
        BY <1>4, ConcatEmptySeq
      <4> QED  BY <1>3, <4>1, <4>2
    <3>2. (W * 100) \div 1 = W * 100
      BY <1>2
    <3> QED  BY <1>2, <1>4, <2>1, <2>2, <3>1, <3>2, Hundred
  <2>3. CASE p # 0 /\ p % 10 = 0
    <3>1. t.fraction = <<p \div 10>>
      BY <1>3, <2>3
    <3>2. t.whole \o t.fraction = Append(ds, p \div 10) /\ Len(t.fraction) = 1
      BY <1>3, <1>4, <1>5, <3>1, AppendIsConcat
    <3>3. Number(t.whole \o t.fraction) = 10 * W + p \div 10
      BY <1>4, <1>5, <3>2, NumberStep
    <3>4. (10 * W + p \div 10) * 100 = a * 10
      BY <1>2, <1>5, <2>3
    <3>5. (a * 10) \div 10 = a
      BY <1>1
    <3> QED  BY <2>1, <3>2, <3>3, <3>4, <3>5, Hundred
  <2>4. CASE p # 0 /\ p % 10 # 0
    <3> DEFINE x == p \div 10
               y == p % 10
    <3>1. t.fraction = <<x, y>>
      BY <1>3, <2>4
    <3>0. x \in Nat /\ y \in Nat /\ p = 10 * x + y
      BY <1>5
    <3> HIDE DEF x, y
    <3>2. Len(t.fraction) = 2
      BY <3>1
    <3>3. Append(ds, x) \in Seq(Nat) /\ Append(ds, x) = ds \o <<x>>
      BY <1>4, <3>0, AppendProperties, AppendIsConcat
    <3>4. Append(Append(ds, x), y) = (ds \o <<x>>) \o <<y>>
      BY <3>0, <3>3, AppendIsConcat
    <3>5. (ds \o <<x>>) \o <<y>> = ds \o (<<x>> \o <<y>>)
      <4>1. <<x>> \in Seq(Nat) /\ <<y>> \in Seq(Nat)
        BY <3>0
      <4> QED  BY <1>4, <4>1, ConcatAssociative
    <3>6. <<x>> \o <<y>> = <<x, y>>
      <4>1. <<x>> \in Seq(Nat) /\ <<y>> \in Seq(Nat) /\ <<x, y>> \in Seq(Nat)
        BY <3>0
      <4>2. /\ <<x>> \o <<y>> \in Seq(Nat) /\ Len(<<x>> \o <<y>>) = 2
            /\ \A i \in 1 .. 2 : (<<x>> \o <<y>>)[i] = IF i <= 1 THEN <<x>>[i] ELSE <<y>>[i - 1]
        <5>1. Len(<<x>>) = 1 /\ Len(<<y>>) = 1
          OBVIOUS
        <5> DEFINE u == <<x>>
                   v == <<y>>
        <5>2. u \in Seq(Nat) /\ v \in Seq(Nat) /\ Len(u) = 1 /\ Len(v) = 1
          BY <4>1, <5>1
        <5> HIDE DEF u, v
        <5>3. /\ u \o v \in Seq(Nat) /\ Len(u \o v) = 1 + 1
              /\ \A i \in 1 .. 1 + 1 : (u \o v)[i] = IF i <= 1 THEN u[i] ELSE v[i - 1]
          <6>1. /\ u \o v \in Seq(Nat) /\ Len(u \o v) = Len(u) + Len(v)
                /\ \A i \in 1 .. Len(u) + Len(v) :
                      (u \o v)[i] = IF i <= Len(u) THEN u[i] ELSE v[i - Len(u)]
            BY <5>2, ConcatProperties
          <6> QED  BY <5>2, <6>1
        <5>4. 1 + 1 = 2
          OBVIOUS
        <5>5. /\ u \o v \in Seq(Nat) /\ Len(u \o v) = 2
              /\ \A i \in 1 .. 2 : (u \o v)[i] = IF i <= 1 THEN u[i] ELSE v[i - 1]
          BY <5>3, <5>4
        <5> QED  BY <5>5 DEF u, v
      <4> DEFINE s == <<x>> \o <<y>>
      <4>3. s[1] = x /\ s[2] = y
        <5>1. 1 \in 1 .. 2 /\ 2 \in 1 .. 2 /\ 1 <= 1 /\ ~(2 <= 1) /\ 2 - 1 = 1
          OBVIOUS
        <5>2. <<x>>[1] = x /\ <<y>>[1] = y
          OBVIOUS
        <5> QED  BY <4>2, <5>1, <5>2
      <4>4. s \in Seq(Nat) /\ Len(s) = 2
        BY <4>2
      <4> HIDE DEF s
      <4>5. s = <<x, y>>
        BY <3>0, <4>3, <4>4
      <4> QED  BY <4>5 DEF s
    <3>7. t.whole \o t.fraction = Append(Append(ds, x), y)
      BY <1>3, <3>1, <3>4, <3>5, <3>6
    <3>8. Number(Append(ds, x)) = 10 * W + x
      BY <1>4, <3>0, NumberStep
    <3>9. Number(Append(Append(ds, x), y)) = 10 * (10 * W + x) + y
      BY <3>0, <3>3, <3>8, NumberStep
    <3>10. 10 * (10 * W + x) + y = a
      BY <1>2, <3>0
    <3>11. (a * 100) \div 100 = a
      BY <1>1
    <3> QED  BY <2>1, <3>2, <3>7, <3>9, <3>10, <3>11, Hundred
  <2> QED  BY <2>2, <2>3, <2>4
<1>7. strtod(t) = f
  <2>1. strtod(t) = IF f < 0 THEN -a ELSE a
    BY <1>3, <1>6 DEF strtod
  <2> QED  BY <1>1, <2>1
<1>8. Number(t.whole) = W
  BY <1>3, <1>4
<1> QED  BY <1>3, <1>4, <1>7, <1>8 DEF t, W, a

-----------------------------------------------------------------------------
(***************************************************************************)
(* The conversions.                                                        *)
(***************************************************************************)
LEMMA Widths ==
    /\ 2 ^ LongBits \in Nat /\ 2 ^ LongBits >= 1 /\ ULLONG_MAX = 2 ^ LongBits - 1
    /\ 2 ^ (IntBits - 1) \in Nat /\ 2 ^ (IntBits - 1) >= 1
    /\ 2 ^ IntBits = 2 * 2 ^ (IntBits - 1)
    /\ LONG_MAX \in Int /\ LONG_MIN \in Int
    /\ LONG_MIN <= 0 /\ 2 ^ (IntBits - 1) <= LONG_MAX + 1
<1>1. /\ IntBits \in Nat /\ IntBits - 1 \in Nat /\ (IntBits - 1) + 1 = IntBits
      /\ LongBits \in Nat /\ LongBits - 1 \in Nat /\ IntBits - 1 <= LongBits - 1
  BY ValuesAssumption
<1>2. 2 ^ ((IntBits - 1) + 1) = 2 * 2 ^ (IntBits - 1)
  BY <1>1, TwosDouble
<1>3. 2 ^ (IntBits - 1) <= 2 ^ (LongBits - 1)
  BY <1>1, Twos
<1>4. /\ 2 ^ LongBits \in Nat /\ 2 ^ LongBits >= 1
      /\ 2 ^ (IntBits - 1) \in Nat /\ 2 ^ (IntBits - 1) >= 1
      /\ 2 ^ (LongBits - 1) \in Nat /\ 2 ^ (LongBits - 1) >= 1
  BY <1>1, Twos
<1>5. 2 ^ IntBits = 2 * 2 ^ (IntBits - 1)
  BY <1>1, <1>2
<1> QED  BY <1>3, <1>4, <1>5 DEF ULLONG_MAX, LONG_MAX, LONG_MIN

LEMMA Remainder == \A n \in Int, w \in Nat : w >= 1 => n % w \in 0 .. w - 1
OBVIOUS

LEMMA RemainderOfLess == \A n, w \in Nat : n < w => n % w = n
OBVIOUS

LEMMA MemberMacro ==
    ASSUME NEW n \in Int
    PROVE  /\ SET_UI64_RESULT(n).type = "AR_UINT64"
           /\ SET_UI64_RESULT(n).value \in 0 .. ULLONG_MAX
           /\ n \in Nat /\ n <= ULLONG_MAX => SET_UI64_RESULT(n).value = n
<1> DEFINE w == 2 ^ LongBits
<1>1. w \in Nat /\ w >= 1 /\ ULLONG_MAX = w - 1
  BY Widths
<1>2. SET_UI64_RESULT(n).type = "AR_UINT64" /\ SET_UI64_RESULT(n).value = n % w
  BY DEF SET_UI64_RESULT
<1> HIDE DEF w
<1>3. n % w \in 0 .. ULLONG_MAX
  BY <1>1, Remainder
<1>4. n \in Nat /\ n <= ULLONG_MAX => n % w = n
  BY <1>1, RemainderOfLess
<1> QED  BY <1>2, <1>3, <1>4

\* The digits before the point are a number, and so is the text.
Readable(t) == Number(t.whole) \in Nat /\ strtod(t) \in Int

LEMMA ConversionTypes ==
    ASSUME NEW t, Readable(t)
    PROVE  strtoull(t) \in Int /\ atoi(t) \in Int /\ ConvertInteger(t) \in Int
<1> DEFINE n == Number(t.whole)
<1>1. n \in Nat /\ strtod(t) \in Int
  BY DEF Readable
<1>2. strtoull(t) \in Int
  <2>1. ULLONG_MAX \in Int /\ (-n) % (2 ^ LongBits) \in Int
    <3>1. -n \in Int /\ 2 ^ LongBits \in Nat /\ 2 ^ LongBits >= 1
      BY <1>1, Widths
    <3>2. (-n) % (2 ^ LongBits) \in 0 .. (2 ^ LongBits) - 1
      <4> DEFINE m == -n
                 w == 2 ^ LongBits
      <4>1. m \in Int /\ w \in Nat /\ w >= 1
        BY <3>1
      <4> HIDE DEF m, w
      <4>2. m % w \in 0 .. w - 1
        BY <4>1, Remainder
      <4> QED  BY <4>2 DEF m, w
    <3> QED  BY <3>1, <3>2, Widths
  <2> HIDE DEF n
  <2>2. strtoull(t) = IF n > ULLONG_MAX THEN ULLONG_MAX
                      ELSE IF t.neg THEN (-n) % (2 ^ LongBits) ELSE n
    BY DEF strtoull, n
  <2> QED  BY <1>1, <2>1, <2>2
<1>3. strtol(t) \in Int
  <2> DEFINE m == IF t.neg THEN -n ELSE n
  <2>1. m \in Int
    BY <1>1
  <2>2. strtol(t) = CASE m > LONG_MAX -> LONG_MAX
                      [] m < LONG_MIN -> LONG_MIN
                      [] OTHER        -> m
    BY DEF strtol
  <2> HIDE DEF m, n
  <2>3. CASE m > LONG_MAX
    <3>1. ~(m < LONG_MIN)
      BY <2>1, <2>3, Widths
    <3> QED  BY <2>2, <2>3, <3>1, Widths
  <2>4. CASE m < LONG_MIN
    <3>1. ~(m > LONG_MAX)
      BY <2>1, <2>4, Widths
    <3> QED  BY <2>2, <2>4, <3>1, Widths
  <2>5. CASE ~(m > LONG_MAX) /\ ~(m < LONG_MIN)
    BY <2>1, <2>2, <2>5
  <2> QED  BY <2>3, <2>4, <2>5
<1>4. atoi(t) \in Int
  <2> DEFINE h == 2 ^ (IntBits - 1)
             w == 2 ^ IntBits
             m == strtol(t) + h
  <2>1. h \in Nat /\ w \in Nat /\ w >= 1 /\ m \in Int
    BY <1>3, Widths
  <2>2. atoi(t) = (m % w) - h
    BY DEF atoi
  <2> HIDE DEF h, w, m
  <2>3. m % w \in 0 .. w - 1
    BY <2>1, Remainder
  <2> QED  BY <2>1, <2>2, <2>3
<1>5. ConvertInteger(t) \in Int
  <2>1. strtod(t) \div 100 \in Int
    BY <1>1
  <2> QED  BY <1>2, <2>1 DEF ConvertInteger
<1> QED  BY <1>2, <1>4, <1>5

\* A number without a sign that is in range is read as it is.
LEMMA InRange ==
    ASSUME NEW t, t.neg = FALSE, Number(t.whole) \in Nat
    PROVE  /\ Number(t.whole) <= ULLONG_MAX => strtoull(t) = Number(t.whole)
           /\ Number(t.whole) < 2 ^ (IntBits - 1) => atoi(t) = Number(t.whole)
<1> DEFINE n == Number(t.whole)
<1>1. n \in Nat
  OBVIOUS
<1>2. strtoull(t) = IF n > ULLONG_MAX THEN ULLONG_MAX ELSE n
  BY DEF strtoull
<1>3. strtol(t) = CASE n > LONG_MAX -> LONG_MAX
                    [] n < LONG_MIN -> LONG_MIN
                    [] OTHER        -> n
  BY DEF strtol
<1>4. atoi(t) = ((strtol(t) + 2 ^ (IntBits - 1)) % (2 ^ IntBits)) - 2 ^ (IntBits - 1)
  BY DEF atoi
<1> HIDE DEF n
<1>5. ASSUME n <= ULLONG_MAX PROVE strtoull(t) = n
  <2>1. ~(n > ULLONG_MAX)
    BY <1>1, <1>5, Widths
  <2> QED  BY <1>2, <2>1
<1>6. ASSUME n < 2 ^ (IntBits - 1) PROVE atoi(t) = n
  <2>1. ~(n > LONG_MAX) /\ ~(n < LONG_MIN)
    BY <1>1, <1>6, Widths
  <2>2. strtol(t) = n
    BY <1>3, <2>1
  <2> DEFINE h == 2 ^ (IntBits - 1)
             w == 2 ^ IntBits
  <2>3. h \in Nat /\ w = 2 * h /\ n < h
    BY <1>6, Widths
  <2>4. atoi(t) = ((n + h) % w) - h
    BY <1>4, <2>2
  <2> HIDE DEF h, w
  <2>5. n + h \in Nat /\ w \in Nat /\ n + h < w
    BY <1>1, <2>3
  <2>6. (n + h) % w = n + h
    <3> DEFINE m == n + h
    <3>1. m \in Nat /\ m < w /\ w \in Nat
      BY <2>5
    <3> HIDE DEF m
    <3>2. m % w = m
      BY <3>1, RemainderOfLess
    <3> QED  BY <3>2 DEF m
  <2> QED  BY <1>1, <2>3, <2>4, <2>6
<1> QED  BY <1>5, <1>6 DEF n

-----------------------------------------------------------------------------
(***************************************************************************)
(* From the figure to the answer.                                          *)
(***************************************************************************)
\* Which types and handlers the items have.
LEMMA ItemFacts ==
    \A i \in DOMAIN SqlType :
       /\ i \in Doubles => SqlType[i] = "double" /\ i # "pg_index_idx_scan"
       /\ i \in Settings => \/ SqlType[i] = "double" /\ i \in Doubles
                            \/ SqlType[i] = "integer" /\ i = "pg_setting_integer" /\ i \notin Doubles
       /\ i \in Sums => i \notin Settings /\ i \notin Doubles
       /\ i = "pg_index_idx_scan" => i \notin Settings /\ SqlType[i] = "bigint"
       /\ i = "pg_setting_integer" => i \in Settings
       /\ SqlType[i] = "real" => i \notin Settings /\ i \notin Doubles /\ i # "pg_index_idx_scan"
       /\ i \in Counters => i \notin Settings /\ SqlType[i] # "real"
BY DEF SqlType, Doubles, Settings, Sums, Counters

\* What a query returns: nothing, or a number the integers have room for.
LEMMA FigureIs ==
    ASSUME NEW i \in Items, NEW f \in Possible(i)
    PROVE  /\ i \in DOMAIN SqlType
           /\ f = NULL => i \in Sums
           /\ f # NULL => /\ f \in Int
                          /\ Abs(f) \div 100 <= ULLONG_MAX
                          /\ Rounded(Abs(f) \div 100) <= ULLONG_MAX
                          /\ i \notin Settings => f >= 0
                          /\ SqlType[i] # "double" => f % 100 = 0
<1>1. i \in DOMAIN SqlType /\ Figures[i] \subseteq Int /\ NULL \notin Int
  BY ValuesAssumption
<1>2. f \in Figures[i] \/ (i \in Sums /\ f = NULL)
  BY DEF Possible
<1>3. ASSUME f # NULL PROVE /\ f \in Figures[i]
                            /\ i \notin Settings => f >= 0
                            /\ SqlType[i] # "double" => f % 100 = 0
  <2> f \in {g \in Figures[i] : /\ SqlType[i] # "double" => g % 100 = 0
                                /\ i \notin Settings => g >= 0}
    BY <1>3 DEF Possible
  <2> QED  OBVIOUS
<1>4. ASSUME f # NULL
      PROVE  Abs(f) \div 100 <= ULLONG_MAX /\ Rounded(Abs(f) \div 100) <= ULLONG_MAX
  BY <1>3, <1>4, FiguresAssumption
<1>5. f = NULL => i \in Sums
  BY <1>1, <1>2
<1> QED  BY <1>1, <1>3, <1>4, <1>5

LEMMA NoTextReads == /\ Number(NoText.whole) = 0 /\ NoText.neg = FALSE
                     /\ strtod(NoText) = 0 /\ ~PointIsSecond(NoText)
<1>1. /\ NoText.whole = <<>> /\ NoText.fraction = <<>> /\ NoText.exp = 0 /\ NoText.neg = FALSE
  BY DEF NoText
<1>2. Number(<<>>) = 0 /\ tens[0 + 2] = 100 /\ tens[Len(<<>>)] = 1 /\ <<>> \o <<>> = <<>>
  <2>1. Len(<<>>) = 0 /\ <<>> \o <<>> = <<>> /\ 0 + 2 = 2
    OBVIOUS
  <2> QED  BY <2>1, NumberStep, Hundred
<1>3. (0 * 100) \div 1 = 0
  OBVIOUS
<1>4. strtod(NoText) = 0
  <2>1. strtod(NoText) = (Number(<<>> \o <<>>) * tens[0 + 2]) \div tens[Len(<<>>)]
    BY <1>1 DEF strtod
  <2> QED  BY <1>2, <1>3, <2>1
<1>5. ~PointIsSecond(NoText)
  BY <1>1 DEF PointIsSecond
<1> QED  BY <1>1, <1>2, <1>4, <1>5

\* In E notation, or as a decimal number.
InENotation(i, f) == SqlType[i] = "real" /\ f \div 100 >= tens[FloatDigits]

LEMMA ENotation ==
    ASSUME NEW n \in Nat, n >= tens[FloatDigits]
    PROVE  /\ Rounded(n) \in Nat /\ Rounded(n) >= 1
           /\ strtod(Scientific(n)) = 100 * Rounded(n)
           /\ Number(Scientific(n).whole) \in Nat
           /\ Scientific(n).neg = FALSE /\ Len(Scientific(n).whole) = 1
<1>1. FloatDigits \in Nat
  BY ValuesAssumption
<1>2. n >= 1
  BY <1>1, TensPositive
<1>3. Rounded(n) \in Nat /\ Rounded(n) >= 1
  BY <1>2, RoundedIs
<1>4. strtod(Scientific(n)) = 100 * Rounded(n)
  BY <1>3, ScientificReads
<1> DEFINE ds == digits[Rounded(n)]
<1>5. Scientific(n).whole = <<Head(ds)>> /\ Scientific(n).neg = FALSE
  BY DEF Scientific
<1>6. ds \in Seq(Nat) /\ Len(ds) >= 1
  BY <1>3, DigitsSay, DigitsType DEF Says
<1> HIDE DEF ds
<1>7. Head(ds) \in Nat
  <2>1. ds # <<>>
    BY <1>6, EmptySeq
  <2> QED  BY <1>6, <2>1, HeadTailProperties
<1>8. Number(<<Head(ds)>>) \in Nat
  BY <1>7, OneDigit
<1>9. Len(<<Head(ds)>>) = 1
  OBVIOUS
<1> QED  BY <1>3, <1>4, <1>5, <1>8, <1>9

LEMMA TextReadable ==
    ASSUME NEW i \in Items, NEW f \in Possible(i)
    PROVE  Readable(Text(SqlType[i], f))
<1>1. CASE f = NULL
  <2>1. Text(SqlType[i], f) = NoText
    BY <1>1 DEF Text
  <2> QED  BY <2>1, NoTextReads DEF Readable
<1>2. CASE f # NULL /\ InENotation(i, f)
  <2> DEFINE n == f \div 100
  <2>1. Text(SqlType[i], f) = Scientific(n) /\ n >= tens[FloatDigits]
    BY <1>2 DEF Text, InENotation
  <2>2. n \in Nat
    <3>1. f \in Int /\ f >= 0
      BY <1>2, FigureIs, ItemFacts DEF InENotation
    <3> QED  BY <3>1
  <2> HIDE DEF n
  <2>3. Rounded(n) \in Nat /\ strtod(Scientific(n)) = 100 * Rounded(n)
        /\ Number(Scientific(n).whole) \in Nat
    BY <2>1, <2>2, ENotation
  <2>4. 100 * Rounded(n) \in Int
    BY <2>3
  <2> QED  BY <2>1, <2>3, <2>4 DEF Readable
<1>3. CASE f # NULL /\ ~InENotation(i, f)
  <2>1. Text(SqlType[i], f) = Decimal(f)
    BY <1>3 DEF Text, InENotation
  <2>2. f \in Int
    BY <1>3, FigureIs
  <2>3. Number(Decimal(f).whole) \in Nat /\ strtod(Decimal(f)) \in Int
    BY <2>2, DecimalReads, AbsIs, Parts
  <2> QED  BY <2>1, <2>3 DEF Readable
<1> QED  BY <1>1, <1>2, <1>3

LEMMA DecimalConverts ==
    ASSUME NEW f \in Nat, f \div 100 <= ULLONG_MAX
    PROVE  /\ f \div 100 \in Nat
           /\ strtoull(Decimal(f)) = f \div 100
           /\ ConvertInteger(Decimal(f)) = f \div 100
           /\ f \div 100 < 2 ^ (IntBits - 1) => atoi(Decimal(f)) = f \div 100
<1> DEFINE t == Decimal(f)
           n == f \div 100
<1>1. n \in Nat
  OBVIOUS
<1>2. Number(t.whole) = n /\ t.neg = FALSE /\ strtod(t) = f
  <2>1. Abs(f) = f /\ f \in Int /\ (f < 0) = FALSE
    BY AbsIs
  <2> QED  BY <2>1, DecimalReads
<1> HIDE DEF t
<1>3. strtoull(t) = n /\ (n < 2 ^ (IntBits - 1) => atoi(t) = n)
  <2> HIDE DEF n
  <2> QED  BY <1>1, <1>2, InRange DEF n
<1>4. ConvertInteger(t) = n
  BY <1>2, <1>3 DEF ConvertInteger
<1> QED  BY <1>1, <1>3, <1>4 DEF t

\* The value of an answer is what the conversion of its handler makes of the text.
LEMMA AnswerIs ==
    \A i, t : Answer(i, t).value =
        IF i = "pg_index_idx_scan" THEN SET_UI64_RESULT(atoi(t)).value
        ELSE IF i \in Settings
             THEN IF SqlType[i] = "integer" THEN SET_UI64_RESULT(strtoull(t)).value ELSE strtod(t)
        ELSE IF i \in Doubles THEN strtod(t) ELSE SET_UI64_RESULT(ConvertInteger(t)).value
BY DEF Answer, PG_STAT_ALL_INDEXES, PG_SETTING, pg_get_dbl, pg_get_int, SET_DBL_RESULT

Reported(i, f) == ~LosesExponent(i, f) /\ ~PastInt(i, f) /\ ~Negative(i, f)

\* Whatever form the server gives a number, the answer is the number.
LEMMA AnswerMeans ==
    ASSUME NEW i \in Items, NEW f \in Possible(i), Reported(i, f)
    PROVE  Answer(i, Text(SqlType[i], f)).value = Meant(i, f)
<1> DEFINE t == Text(SqlType[i], f)
<1>0. i \in DOMAIN SqlType
  BY FigureIs
<1>1. CASE f = NULL
  <2>1. t = NoText /\ Meant(i, f) = 0
    BY <1>1 DEF Text, Meant
  <2>2. i \notin Settings /\ i \notin Doubles
    BY <1>0, <1>1, FigureIs, ItemFacts
  <2>3. 0 \in Nat /\ 0 <= ULLONG_MAX /\ 0 < 2 ^ (IntBits - 1)
    BY Widths
  <2>4. strtoull(NoText) = 0 /\ atoi(NoText) = 0
    BY <2>3, NoTextReads, InRange
  <2>5. ConvertInteger(NoText) = 0
    BY <2>4, NoTextReads DEF ConvertInteger
  <2>6. SET_UI64_RESULT(0).value = 0
    BY <2>3, MemberMacro
  <2> QED  BY <2>1, <2>2, <2>4, <2>5, <2>6, AnswerIs
<1>2. CASE f # NULL /\ InENotation(i, f)
  <2> DEFINE n == f \div 100
  <2>1. /\ i \notin Settings /\ i \notin Doubles /\ i # "pg_index_idx_scan"
        /\ SqlType[i] = "real" /\ n >= tens[FloatDigits]
    BY <1>0, <1>2, ItemFacts DEF InENotation
  <2>2. t = Scientific(n) /\ Meant(i, f) = Rounded(n)
    BY <1>2, <2>1 DEF Text, Meant
  <2>3. f \in Int /\ f >= 0 /\ Rounded(Abs(f) \div 100) <= ULLONG_MAX
    BY <1>2, <2>1, FigureIs
  <2>4. n \in Nat /\ Rounded(n) <= ULLONG_MAX
    <3>1. Abs(f) = f
      BY <2>3, AbsIs
    <3> QED  BY <2>3, <3>1
  <2>5. Scientific(n).fraction # <<>>
    BY <2>1 DEF Reported, LosesExponent
  <2> HIDE DEF n, t
  <2>6. /\ Rounded(n) \in Nat /\ strtod(Scientific(n)) = 100 * Rounded(n)
        /\ Scientific(n).neg = FALSE /\ Len(Scientific(n).whole) = 1
    BY <2>1, <2>4, ENotation
  <2>7. ConvertInteger(Scientific(n)) = (100 * Rounded(n)) \div 100
    BY <2>5, <2>6 DEF ConvertInteger, PointIsSecond
  <2>8. (100 * Rounded(n)) \div 100 = Rounded(n)
    <3>1. \A x \in Nat : (100 * x) \div 100 = x
      OBVIOUS
    <3> QED  BY <2>6, <3>1
  <2>9. SET_UI64_RESULT(Rounded(n)).value = Rounded(n)
    <3>1. Rounded(n) \in Int
      BY <2>6
    <3> QED  BY <2>4, <2>6, <3>1, MemberMacro
  <2>10. Answer(i, t).value = Rounded(n)
    BY <2>1, <2>2, <2>7, <2>8, <2>9, AnswerIs
  <2> QED  BY <2>2, <2>10 DEF t
<1>3. CASE f # NULL /\ ~InENotation(i, f)
  <2>1. t = Decimal(f)
    BY <1>3 DEF Text, InENotation
  <2>2. f \in Int /\ strtod(Decimal(f)) = f
    BY <1>3, FigureIs, DecimalReads
  <2>3. CASE i \in Doubles
    <3>1. SqlType[i] = "double" /\ i # "pg_index_idx_scan"
      BY <1>0, <2>3, ItemFacts
    <3>2. Meant(i, f) = f
      BY <1>3, <2>3, <3>1 DEF Meant
    <3> HIDE DEF t
    <3>3. Answer(i, t).value = strtod(t)
      BY <2>3, <3>1, AnswerIs
    <3> QED  BY <2>1, <2>2, <3>2, <3>3 DEF t
  <2>4. CASE i \notin Doubles
    <3> DEFINE n == f \div 100
    <3>1. f \in Nat /\ Abs(f) = f
      <4>1. CASE i \notin Settings
        <5>1. f >= 0
          BY <1>3, <4>1, FigureIs
        <5> QED  BY <2>2, <5>1, AbsIs
      <4>2. CASE i \in Settings
        <5>1. i = "pg_setting_integer"
          BY <1>0, <2>4, <4>2, ItemFacts
        <5>2. ~(f < 0)
          BY <5>1 DEF Reported, Negative
        <5>3. f >= 0
          BY <2>2, <5>2
        <5> QED  BY <2>2, <5>3, AbsIs
      <4> QED  BY <4>1, <4>2
    <3>2. n <= ULLONG_MAX
      <4>1. Abs(f) \div 100 <= ULLONG_MAX
        BY <1>3, FigureIs
      <4> QED  BY <3>1, <4>1
    <3>3. Meant(i, f) = n
      <4>1. CASE SqlType[i] = "real"
        <5>1. n < tens[FloatDigits]
          <6>1. tens[FloatDigits] \in Nat /\ n \in Int
            BY <3>1, ValuesAssumption, TensPositive
          <6>2. ~(n >= tens[FloatDigits])
            BY <1>3, <4>1 DEF InENotation
          <6> HIDE DEF n
          <6> QED  BY <6>1, <6>2
        <5>2. n \in Nat
          BY <3>1
        <5>3. Rounded(n) = n
          <6> HIDE DEF n
          <6> QED  BY <5>1, <5>2, RoundedIs
        <5> QED  BY <1>3, <4>1, <5>3 DEF Meant
      <4>2. CASE SqlType[i] # "real"
        BY <1>3, <2>4, <4>2 DEF Meant
      <4> QED  BY <4>1, <4>2
    <3>4. /\ n \in Nat /\ strtoull(t) = n /\ ConvertInteger(t) = n
          /\ n < 2 ^ (IntBits - 1) => atoi(t) = n
      BY <2>1, <3>1, <3>2, DecimalConverts
    <3>5. i = "pg_index_idx_scan" => n < 2 ^ (IntBits - 1)
      <4>1. 2 ^ (IntBits - 1) \in Nat
        BY Widths
      <4>2. i = "pg_index_idx_scan" => ~(n >= 2 ^ (IntBits - 1))
        BY <1>3 DEF Reported, PastInt
      <4>3. n \in Nat
        BY <3>4
      <4> HIDE DEF n
      <4> QED  BY <4>1, <4>2, <4>3
    <3> HIDE DEF n, t
    <3>6. SET_UI64_RESULT(n).value = n
      BY <3>2, <3>4, MemberMacro
    <3>7. i \in Settings => SqlType[i] = "integer"
      BY <1>0, <2>4, ItemFacts
    <3>8. Answer(i, t).value = n
      BY <2>4, <3>4, <3>5, <3>6, <3>7, AnswerIs
    <3> QED  BY <3>3, <3>8 DEF t
  <2> QED  BY <2>3, <2>4
<1> QED  BY <1>1, <1>2, <1>3

-----------------------------------------------------------------------------
(***************************************************************************)
(* The values kept.                                                        *)
(***************************************************************************)
LEMMA ItemsWatched ==
    \A i : /\ Depth(i) \in 0 .. 3
           /\ Depth(i) # 0 => i \notin Settings /\ (i \in Doubles => i = "pg_prepared_xacts_ratio")
           /\ "restarted" \in TriggersOf(i) => i = "pg_uptime"
           /\ "unreachable" \in TriggersOf(i) => i = "pg_connect"
<1>1. ASSUME NEW i
      PROVE  /\ "restarted" \in TriggersOf(i) => i = "pg_uptime"
             /\ "unreachable" \in TriggersOf(i) => i = "pg_connect"
             /\ TriggersOf(i) # {} =>
                   i \in {"pg_prepared_xacts_ratio", "pg_db_xid_age", "pg_uptime", "pg_connect"}
  <2>1. CASE i = "pg_prepared_xacts_ratio"
    BY <2>1 DEF TriggersOf
  <2>2. CASE i = "pg_db_xid_age"
    BY <2>2 DEF TriggersOf
  <2>3. CASE i = "pg_uptime"
    BY <2>3 DEF TriggersOf
  <2>4. CASE i = "pg_connect"
    BY <2>4 DEF TriggersOf
  <2>5. CASE i \notin {"pg_prepared_xacts_ratio", "pg_db_xid_age", "pg_uptime", "pg_connect"}
    <3>1. TriggersOf(i) = {}
      BY <2>5 DEF TriggersOf
    <3> QED  BY <3>1
  <2> QED  BY <2>1, <2>2, <2>3, <2>4, <2>5
<1>2. ASSUME NEW i
      PROVE  /\ Depth(i) \in 0 .. 3
             /\ Depth(i) # 0 =>
                   i \in {"pg_prepared_xacts_ratio", "pg_db_xid_age", "pg_uptime", "pg_connect"}
  BY <1>1 DEF Depth
<1>3. ASSUME NEW i \in {"pg_prepared_xacts_ratio", "pg_db_xid_age", "pg_uptime", "pg_connect"}
      PROVE  i \notin Settings /\ (i \in Doubles => i = "pg_prepared_xacts_ratio")
  BY DEF Settings, Doubles
<1> QED  BY <1>1, <1>2, <1>3

LEMMA AnswerTypes ==
    ASSUME NEW i \in Items, NEW f \in Possible(i)
    PROVE  LET a == Answer(i, Text(SqlType[i], f)) IN
           /\ \/ a.type = "AR_UINT64" /\ a.value \in 0 .. ULLONG_MAX
              \/ a.type = "AR_DOUBLE" /\ a.value \in Int
           /\ a.value \in Int
           /\ Depth(i) # 0 => a.value \in Nat
<1> DEFINE t == Text(SqlType[i], f)
           a == Answer(i, t)
<1>1. Readable(t)
  BY TextReadable
<1> HIDE DEF t
<1>2. strtoull(t) \in Int /\ atoi(t) \in Int /\ ConvertInteger(t) \in Int /\ strtod(t) \in Int
  BY <1>1, ConversionTypes DEF Readable
<1>3. \/ \E n \in Int : a = SET_UI64_RESULT(n)
      \/ a = SET_DBL_RESULT(strtod(t)) /\ (i \in Settings \/ i \in Doubles)
  <2>1. CASE i = "pg_index_idx_scan"
    BY <1>2, <2>1 DEF Answer, PG_STAT_ALL_INDEXES
  <2>2. CASE i # "pg_index_idx_scan" /\ i \in Settings
    BY <1>2, <2>2 DEF Answer, PG_SETTING
  <2>3. CASE i # "pg_index_idx_scan" /\ i \notin Settings /\ i \in Doubles
    BY <1>2, <2>3 DEF Answer, pg_get_dbl
  <2>4. CASE i # "pg_index_idx_scan" /\ i \notin Settings /\ i \notin Doubles
    BY <1>2, <2>4 DEF Answer, pg_get_int
  <2> QED  BY <2>1, <2>2, <2>3, <2>4
<1>4. CASE \E n \in Int : a = SET_UI64_RESULT(n)
  <2>1. PICK n \in Int : a = SET_UI64_RESULT(n)
    BY <1>4
  <2> HIDE DEF a
  <2>2. a.type = "AR_UINT64" /\ a.value \in 0 .. ULLONG_MAX
    BY <2>1, MemberMacro
  <2>3. a.value \in Nat /\ a.value \in Int
    BY <2>2, Widths
  <2> QED  BY <2>2, <2>3 DEF a, t
<1>5. CASE a = SET_DBL_RESULT(strtod(t)) /\ (i \in Settings \/ i \in Doubles)
  <2>1. a.type = "AR_DOUBLE" /\ a.value \in Int
    BY <1>2, <1>5 DEF SET_DBL_RESULT
  <2>2. ASSUME Depth(i) # 0 PROVE a.value \in Nat
    <3>1. i = "pg_prepared_xacts_ratio" /\ i \in Doubles /\ i \notin Settings
      BY <1>5, <2>2, ItemsWatched
    <3>2. SqlType[i] = "double" /\ i \in DOMAIN SqlType
      BY <3>1, FigureIs, ItemFacts
    <3>3. f # NULL
      BY <3>1, <3>2, FigureIs, ItemFacts
    <3>4. f \in Int /\ f >= 0
      BY <3>1, <3>3, FigureIs
    <3>5. Reported(i, f)
      BY <3>1, <3>2 DEF Reported, LosesExponent, PastInt, Negative
    <3>6. a.value = Meant(i, f)
      BY <3>5, AnswerMeans DEF t
    <3>7. Meant(i, f) = f
      BY <3>1, <3>2, <3>3 DEF Meant
    <3> QED  BY <3>4, <3>6, <3>7
  <2> HIDE DEF a
  <2> QED  BY <2>1, <2>2 DEF a, t
<1> QED  BY <1>3, <1>4, <1>5

\* The newest values: the one received, and of those before as many as are read.
LEMMA NewestIs ==
    ASSUME NEW v \in Int, values \in Seq(Nat), Len(values) <= Depth(item),
           Depth(item) # 0 => v \in Nat
    PROVE  LET vs == Newest(<<v>> \o values) IN
           /\ vs \in Seq(Nat) /\ Len(vs) <= Depth(item)
           /\ Depth(item) # 0 => vs # <<>> /\ Len(vs) >= 1 /\ vs[1] = v
           /\ \A k \in 2 .. Len(vs) : values # <<>> /\ vs[k] = values[k - 1]
<1> DEFINE d  == Depth(item)
           n  == Len(values)
           us == <<v>> \o values
           vs == Newest(us)
<1>1. d \in 0 .. 3 /\ n \in Nat /\ n <= d
  BY ItemsWatched, LenProperties
<1>2. vs = IF Len(us) > d THEN SubSeq(us, 1, d) ELSE us
  BY DEF Newest
<1>3. ASSUME NEW S, v \in S, values \in Seq(S)
      PROVE  /\ us \in Seq(S) /\ Len(us) = n + 1 /\ us[1] = v
             /\ \A k \in 2 .. n + 1 : us[k] = values[k - 1]
  <2> DEFINE s == <<v>>
  <2>1. s \in Seq(S) /\ Len(s) = 1 /\ s[1] = v
    BY <1>3
  <2> HIDE DEF s
  <2>2. /\ s \o values \in Seq(S) /\ Len(s \o values) = Len(s) + Len(values)
        /\ \A i \in 1 .. Len(s) + Len(values) :
              (s \o values)[i] = IF i <= Len(s) THEN s[i] ELSE values[i - Len(s)]
    BY <1>3, <2>1, ConcatProperties
  <2>3. 1 \in 1 .. 1 + n /\ 1 <= 1
    BY <1>1
  <2>4. \A k \in 2 .. n + 1 : k \in 1 .. 1 + n /\ ~(k <= 1)
    BY <1>1
  <2> HIDE DEF n
  <2>5. \A i \in 1 .. 1 + n : (s \o values)[i] = IF i <= 1 THEN s[i] ELSE values[i - 1]
    BY <2>1, <2>2 DEF n
  <2>6. (s \o values)[1] = v
    BY <2>1, <2>3, <2>5
  <2>7. \A k \in 2 .. n + 1 : (s \o values)[k] = values[k - 1]
    BY <2>4, <2>5
  <2>8. Len(s \o values) = n + 1
    BY <1>1, <2>1, <2>2 DEF n
  <2> QED  BY <2>2, <2>6, <2>7, <2>8 DEF s
<1>4. CASE d = 0
  <2>1. values \in Seq(Int)
    <3>1. Nat \subseteq Int
      OBVIOUS
    <3> QED  BY <3>1, SeqMonotonic
  <2>2. Len(us) = n + 1
    <3> HIDE DEF us, n
    <3> QED  BY <1>3, <2>1
  <2>3. Len(us) > d
    BY <1>1, <1>4, <2>2
  <2>4. vs = <<>>
    <3> HIDE DEF us, vs
    <3>1. vs = SubSeq(us, 1, 0)
      BY <1>2, <1>4, <2>3
    <3> QED  BY <3>1, SubSeqEmpty
  <2>5. Len(vs) = 0 /\ vs \in Seq(Nat) /\ 2 .. 0 = {}
    <3> HIDE DEF vs
    <3> QED  BY <2>4
  <2> HIDE DEF vs
  <2> QED  BY <1>1, <1>4, <2>5 DEF vs
<1>5. CASE d # 0
  <2>1. v \in Nat
    BY <1>5
  <2> HIDE DEF us, vs, n, d
  <2>2. /\ us \in Seq(Nat) /\ Len(us) = n + 1 /\ us[1] = v
        /\ \A k \in 2 .. n + 1 : us[k] = values[k - 1]
    BY <1>3, <2>1
  <2>3. n >= 1 => values # <<>>
    BY DEF n
  <2>4. CASE n + 1 > d
    <3>1. vs = SubSeq(us, 1, d) /\ d >= 1 /\ d = n
      BY <1>1, <1>2, <1>5, <2>2, <2>4
    <3>2. \A i \in 1 .. d : us[i] \in Nat
      BY <1>1, <2>2, <3>1, ElementOfSeq
    <3>3. /\ vs \in Seq(Nat) /\ Len(vs) = IF 1 <= d THEN d - 1 + 1 ELSE 0
          /\ \A i \in 1 .. d - 1 + 1 : vs[i] = us[1 + i - 1]
      <4>1. 1 \in Int /\ d \in Int
        BY <1>1
      <4> QED  BY <3>1, <3>2, <4>1, SubSeqProperties
    <3>4. Len(vs) = d /\ \A i \in 1 .. d : vs[i] = us[i]
      <4>1. d - 1 + 1 = d /\ \A i \in 1 .. d : 1 + i - 1 = i
        BY <1>1
      <4> QED  BY <3>1, <3>3, <4>1
    <3>5. vs[1] = v /\ \A k \in 2 .. d : vs[k] = values[k - 1] /\ n >= 1
      BY <1>1, <2>2, <3>1, <3>4
    <3>6. vs # <<>>
      <4>1. Len(<<>>) = 0
        OBVIOUS
      <4>2. Len(vs) # 0
        BY <1>1, <3>1, <3>4
      <4> QED  BY <4>1, <4>2
    <3> QED  BY <1>1, <2>3, <3>1, <3>3, <3>4, <3>5, <3>6 DEF vs, d, us
  <2>5. CASE ~(n + 1 > d)
    <3>1. vs = us /\ Len(vs) = n + 1 /\ n + 1 <= d /\ n + 1 >= 1
      BY <1>1, <1>2, <2>2, <2>5
    <3>2. vs # <<>>
      BY <1>1, <3>1
    <3>3. \A k \in 2 .. n + 1 : n >= 1
      BY <1>1
    <3> QED  BY <2>2, <2>3, <3>1, <3>2, <3>3 DEF vs, d, us
  <2> QED  BY <1>1, <2>4, <2>5
<1> QED  BY <1>4, <1>5

-----------------------------------------------------------------------------
(***************************************************************************)
(* The inductive invariant: besides the types, the answer is that of the   *)
(* figure asked, a counter that did not start over is not below it, and    *)
(* the value received last is the answer.                                  *)
(***************************************************************************)
AnswerOfAsked == answer.value = Answer(item, Text(SqlType[item], asked)).value

Grown == item \in Counters /\ ~restarted /\ asked # NULL => figure # NULL /\ asked <= figure

LastIsAnswer == Depth(item) # 0 /\ values # <<>> => values[1] = answer.value

AlarmInv == AlarmTypeOK /\ AnswerOfAsked /\ Grown /\ LastIsAnswer

LEMMA ZeroPossible ==
    ASSUME NEW i \in Items
    PROVE  0 \in Possible(i) /\ Reported(i, 0) /\ Meant(i, 0) = 0
<1>1. 0 \in Figures[i] /\ 0 \in Int /\ NULL # 0 /\ FloatDigits \in Nat
  BY ValuesAssumption
<1>2. 0 % 100 = 0 /\ 0 >= 0 /\ 0 \div 100 = 0
  OBVIOUS
<1>3. 0 \in Possible(i)
  BY <1>1, <1>2 DEF Possible
<1>4. 0 < tens[FloatDigits] /\ tens[FloatDigits] \in Nat
  BY <1>1, TensPositive
<1>5. 0 < 2 ^ (IntBits - 1) /\ 2 ^ (IntBits - 1) \in Nat
  BY Widths
<1>6. Reported(i, 0)
  <2>1. ~(0 >= tens[FloatDigits])
    BY <1>4
  <2>2. ~(0 >= 2 ^ (IntBits - 1))
    BY <1>5
  <2>3. ~(0 < 0)
    OBVIOUS
  <2> QED  BY <1>2, <2>1, <2>2, <2>3 DEF Reported, LosesExponent, PastInt, Negative
<1>7. Rounded(0) = 0
  <2>1. 0 \in Nat
    OBVIOUS
  <2> QED  BY <1>4, <2>1, RoundedIs
<1>8. Meant(i, 0) = 0
  BY <1>1, <1>2, <1>7 DEF Meant
<1> QED  BY <1>3, <1>6, <1>8

LEMMA AlarmInitInv == AlarmInit => AlarmInv
<1> SUFFICES ASSUME AlarmInit PROVE AlarmInv
  OBVIOUS
<1>1. /\ item \in Items /\ figure = 0 /\ asked = 0 /\ answer = SET_UI64_RESULT(0)
      /\ restarted = TRUE /\ up \in BOOLEAN /\ values = <<>> /\ trigger = {} /\ between = FALSE
  BY DEF AlarmInit, Init
<1>2. 0 \in Possible(item) /\ Reported(item, 0) /\ Meant(item, 0) = 0
  BY <1>1, ZeroPossible
<1>3. /\ answer.type = "AR_UINT64" /\ answer.value \in 0 .. ULLONG_MAX /\ answer.value = 0
  <2>1. 0 \in Int /\ 0 \in Nat /\ 0 <= ULLONG_MAX
    BY Widths
  <2> QED  BY <1>1, <2>1, MemberMacro
<1>4. TypeOK
  BY <1>1, <1>2, <1>3 DEF TypeOK
<1>5. AlarmTypeOK
  <2>1. Depth(item) \in Nat /\ Len(<<>>) = 0 /\ <<>> \in Seq(Nat)
    BY ItemsWatched
  <2>2. Len(values) <= Depth(item) /\ values \in Seq(Nat)
    BY <1>1, <2>1
  <2> QED  BY <1>1, <1>4, <2>2 DEF AlarmTypeOK
<1>6. AnswerOfAsked
  BY <1>1, <1>2, <1>3, AnswerMeans DEF AnswerOfAsked
<1>7. Grown
  BY <1>1 DEF Grown
<1>8. LastIsAnswer
  BY <1>1 DEF LastIsAnswer
<1> QED  BY <1>5, <1>6, <1>7, <1>8 DEF AlarmInv

\* A step that asks nothing: the figure moves, and the rest stays.
LEMMA QuietStep ==
    ASSUME AlarmInv, UNCHANGED <<item, asked, answer, values, trigger, between>>,
           figure' \in Possible(item), restarted' \in BOOLEAN, up' \in BOOLEAN,
           Grown'
    PROVE  AlarmInv'
<1>1. TypeOK /\ AlarmTypeOK /\ AnswerOfAsked /\ LastIsAnswer
  BY DEF AlarmInv, AlarmTypeOK
<1>2. item' = item /\ asked' = asked /\ answer' = answer
  OBVIOUS
<1>3. TypeOK'
  BY <1>1, <1>2 DEF TypeOK, Possible
<1>4. AlarmTypeOK'
  BY <1>1, <1>2, <1>3 DEF AlarmTypeOK, Depth, TriggersOf
<1>5. AnswerOfAsked'
  BY <1>1, <1>2 DEF AnswerOfAsked, Answer, PG_STAT_ALL_INDEXES, PG_SETTING, pg_get_dbl, pg_get_int
<1>6. LastIsAnswer'
  BY <1>1, <1>2 DEF LastIsAnswer, Depth, TriggersOf
<1> QED  BY <1>4, <1>5, <1>6 DEF AlarmInv

LEMMA FigureMoves ==
    ASSUME AlarmInv, Vary \/ Stop \/ Start
    PROVE  AlarmInv'
<1>0. /\ item \in Items /\ figure \in Possible(item) /\ asked \in Possible(item)
      /\ restarted \in BOOLEAN /\ up \in BOOLEAN /\ Grown
  BY DEF AlarmInv, AlarmTypeOK, TypeOK
<1>1. CASE Vary /\ Grow
  <2>1. /\ item \in Counters /\ figure # NULL /\ figure' # NULL /\ figure' \in Possible(item)
        /\ figure' > figure
        /\ UNCHANGED <<item, asked, answer, restarted, up, values, trigger, between>>
    BY <1>1 DEF Vary, Grow, alarmVars
  <2>2. figure \in Int /\ figure' \in Int /\ (asked # NULL => asked \in Int)
    BY <1>0, <2>1, FigureIs
  <2>3. Grown'
    <3>1. ASSUME ~restarted, asked # NULL PROVE asked <= figure'
      <4>1. asked <= figure
        BY <1>0, <2>1, <3>1 DEF Grown
      <4> QED  BY <2>1, <2>2, <3>1, <4>1
    <3> QED  BY <2>1, <3>1 DEF Grown
  <2> QED  BY <1>0, <2>1, <2>3, QuietStep
<1>2. CASE Vary /\ Move
  <2>1. /\ item \notin Counters /\ figure' \in Possible(item)
        /\ UNCHANGED <<item, asked, answer, restarted, up, values, trigger, between>>
    BY <1>2 DEF Vary, Move, alarmVars
  <2>2. Grown'
    BY <2>1 DEF Grown
  <2> QED  BY <1>0, <2>1, <2>2, QuietStep
<1>3. CASE Vary /\ StartOver
  <2>1. /\ figure' \in Possible(item) /\ restarted' = TRUE
        /\ UNCHANGED <<item, asked, answer, up, values, trigger, between>>
    BY <1>3 DEF Vary, StartOver, alarmVars
  <2>2. Grown'
    BY <2>1 DEF Grown
  <2> QED  BY <1>0, <2>1, <2>2, QuietStep
<1>4. CASE Stop
  <2>1. /\ figure' = IF item = "pg_connect" THEN 0 ELSE figure
        /\ up' = FALSE
        /\ UNCHANGED <<item, asked, answer, restarted, values, trigger, between>>
    BY <1>4 DEF Stop, alarmVars
  <2>2. figure' \in Possible(item)
    BY <1>0, <2>1, ZeroPossible
  <2>3. Grown'
    <3>1. item \in Counters => figure' = figure
      BY <2>1 DEF Counters
    <3> QED  BY <1>0, <2>1, <3>1 DEF Grown
  <2> QED  BY <1>0, <2>1, <2>2, <2>3, QuietStep
<1>5. CASE Start
  <2>1. /\ figure' = CASE item = "pg_connect" -> 100
                       [] item = "pg_uptime"  -> 0
                       [] OTHER               -> figure
        /\ up' = TRUE /\ restarted' = TRUE
        /\ UNCHANGED <<item, asked, answer, values, trigger, between>>
    BY <1>5 DEF Start, alarmVars
  <2>2. figure' \in Possible(item)
    <3>1. CASE item = "pg_connect"
      <4>1. figure' = 100 /\ 100 \in Figures[item]
        BY <1>0, <2>1, <3>1, AlarmsAssumption
      <4>2. 100 % 100 = 0 /\ 100 >= 0
        OBVIOUS
      <4> QED  BY <4>1, <4>2 DEF Possible
    <3>2. CASE item = "pg_uptime"
      <4>1. figure' = 0
        BY <2>1, <3>2
      <4> QED  BY <1>0, <4>1, ZeroPossible
    <3>3. CASE item # "pg_connect" /\ item # "pg_uptime"
      BY <1>0, <2>1, <3>3
    <3> QED  BY <3>1, <3>2, <3>3
  <2>3. Grown'
    BY <2>1 DEF Grown
  <2> QED  BY <1>0, <2>1, <2>2, <2>3, QuietStep
<1> QED  BY <1>1, <1>2, <1>3, <1>4, <1>5 DEF Vary

\* A value received: what it says about the variables.
LEMMA ReceivedIs ==
    ASSUME AlarmInv, ReceiveValue
    PROVE  /\ UNCHANGED <<item, figure, up>> /\ asked' = figure
           /\ answer' = Answer(item, Text(SqlType[item], figure))
           /\ values' = Newest(<<answer'.value>> \o values)
           /\ answer'.value \in Int /\ (Depth(item) # 0 => answer'.value \in Nat)
           /\ values' \in Seq(Nat) /\ Len(values') <= Depth(item)
           /\ Depth(item) # 0 => values' # <<>> /\ Len(values') >= 1 /\ values'[1] = answer'.value
           /\ \A k \in 2 .. Len(values') : values # <<>> /\ values'[k] = values[k - 1]
<1>1. /\ UNCHANGED <<item, figure, up>> /\ asked' = figure
      /\ answer' = Answer(item, Text(SqlType[item], figure))
      /\ values' = Newest(<<answer'.value>> \o values)
  BY DEF ReceiveValue, Poll
<1>2. /\ item \in Items /\ figure \in Possible(item)
      /\ values \in Seq(Nat) /\ Len(values) <= Depth(item)
  BY DEF AlarmInv, AlarmTypeOK, TypeOK
<1> DEFINE v == answer'.value
<1>3. v \in Int /\ (Depth(item) # 0 => v \in Nat)
  BY <1>1, <1>2, AnswerTypes
<1> HIDE DEF v
<1>4. LET vs == Newest(<<v>> \o values) IN
           /\ vs \in Seq(Nat) /\ Len(vs) <= Depth(item)
           /\ Depth(item) # 0 => vs # <<>> /\ Len(vs) >= 1 /\ vs[1] = v
           /\ \A k \in 2 .. Len(vs) : values # <<>> /\ vs[k] = values[k - 1]
  BY <1>2, <1>3, NewestIs
<1>5. values' = Newest(<<v>> \o values)
  BY <1>1 DEF v
<1>6. /\ values' \in Seq(Nat) /\ Len(values') <= Depth(item)
      /\ Depth(item) # 0 => values' # <<>> /\ Len(values') >= 1 /\ values'[1] = v
      /\ \A k \in 2 .. Len(values') : values # <<>> /\ values'[k] = values[k - 1]
  BY <1>4, <1>5
<1> QED  BY <1>1, <1>3, <1>6 DEF v

LEMMA ReceiveKeeps ==
    ASSUME AlarmInv, ReceiveValue
    PROVE  AlarmInv'
<1>1. /\ item \in Items /\ figure \in Possible(item) /\ up \in BOOLEAN /\ restarted \in BOOLEAN
  BY DEF AlarmInv, AlarmTypeOK, TypeOK
<1>2. /\ item' = item /\ figure' = figure /\ up' = up /\ asked' = figure
      /\ answer' = Answer(item, Text(SqlType[item], figure))
      /\ values' \in Seq(Nat) /\ Len(values') <= Depth(item)
      /\ Depth(item) # 0 => values'[1] = answer'.value
  BY ReceivedIs
<1>3. /\ restarted' = FALSE /\ between' = restarted
      /\ trigger' \subseteq TriggersOf(item)
  BY DEF ReceiveValue, Poll
<1>4. \/ answer'.type = "AR_UINT64" /\ answer'.value \in 0 .. ULLONG_MAX
      \/ answer'.type = "AR_DOUBLE" /\ answer'.value \in Int
  BY <1>1, <1>2, AnswerTypes
<1>5. TypeOK'
  BY <1>1, <1>2, <1>3, <1>4 DEF TypeOK, Possible
<1>6. AlarmTypeOK'
  BY <1>1, <1>2, <1>3, <1>5 DEF AlarmTypeOK, Depth, TriggersOf
<1>7. AnswerOfAsked'
  <2>1. answer'.value = Answer(item', Text(SqlType[item'], asked')).value
    BY <1>2
  <2> QED  BY <2>1 DEF AnswerOfAsked, Answer, PG_STAT_ALL_INDEXES, PG_SETTING, pg_get_dbl, pg_get_int
<1>8. Grown'
  <2>1. item \in Counters /\ asked' # NULL => figure' # NULL /\ asked' <= figure'
    <3>1. figure # NULL => figure \in Int
      BY <1>1, FigureIs
    <3>2. figure # NULL => figure <= figure
      BY <3>1
    <3> QED  BY <1>2, <3>2
  <2> QED  BY <1>2, <2>1 DEF Grown
<1>9. LastIsAnswer'
  BY <1>2 DEF LastIsAnswer, Depth, TriggersOf
<1> QED  BY <1>6, <1>7, <1>8, <1>9 DEF AlarmInv

\* A quiet step leaves what the alarms are about alone.
LEMMA QuietVariables ==
    Vary \/ Stop \/ Start => UNCHANGED <<item, asked, answer, values, trigger, between>>
BY DEF Vary, Stop, Start, Grow, Move, StartOver, alarmVars

LEMMA AlarmNextInv == AlarmInv /\ [AlarmNext]_allVars => AlarmInv'
<1> SUFFICES ASSUME AlarmInv, [AlarmNext]_allVars PROVE AlarmInv'
  OBVIOUS
<1>1. CASE ReceiveValue
  BY <1>1, ReceiveKeeps
<1>2. CASE Vary \/ Stop \/ Start
  BY <1>2, FigureMoves
<1>3. CASE UNCHANGED allVars
  <2>1. /\ UNCHANGED <<item, asked, answer, values, trigger, between>>
        /\ UNCHANGED <<figure, restarted, up>>
    BY <1>3 DEF allVars, vars, alarmVars
  <2>2. /\ figure \in Possible(item) /\ restarted \in BOOLEAN /\ up \in BOOLEAN /\ Grown
    BY DEF AlarmInv, AlarmTypeOK, TypeOK
  <2>3. Grown'
    BY <2>1, <2>2 DEF Grown
  <2> QED  BY <2>1, <2>2, <2>3, QuietStep
<1> QED  BY <1>1, <1>2, <1>3 DEF AlarmNext

\* The invariant holds in every state.
THEOREM AlarmsInvariant == AlarmSpec => []AlarmInv
BY AlarmInitInv, AlarmNextInv, PTL DEF AlarmSpec

-----------------------------------------------------------------------------
(***************************************************************************)
(* The properties.                                                         *)
(***************************************************************************)
\* Every variable keeps its type: an AR_UINT64 result fits 64 bits whatever was printed,
\* and no value a trigger reads is negative.
THEOREM AlarmTypes == AlarmSpec => []AlarmTypeOK
<1>1. AlarmInv => AlarmTypeOK
  BY DEF AlarmInv
<1> QED  BY <1>1, AlarmsInvariant, PTL

LEMMA ReportsInState == AlarmInv => ReportsFigure
<1> SUFFICES ASSUME AlarmInv, ~LosesExponent(item, asked), ~PastInt(item, asked),
                    ~Negative(item, asked)
             PROVE  answer.value = Meant(item, asked)
  BY DEF ReportsFigure
<1>1. item \in Items /\ asked \in Possible(item) /\ AnswerOfAsked
  BY DEF AlarmInv, AlarmTypeOK, TypeOK
<1>2. Reported(item, asked)
  BY DEF Reported
<1>3. Answer(item, Text(SqlType[item], asked)).value = Meant(item, asked)
  BY <1>1, <1>2, AnswerMeans
<1> QED  BY <1>1, <1>3 DEF AnswerOfAsked

\* Whatever form the server gives a number, the agent reports the number.
THEOREM FiguresReported == AlarmSpec => []ReportsFigure
BY AlarmsInvariant, ReportsInState, PTL

\* A counter, other than an index statistic beyond int, is reported as it is, in whole
\* units or in hundredths, and so in order.
LEMMA CountersInOrder ==
    ASSUME NEW i \in Items, i \in Counters,
           NEW f \in Possible(i), NEW g \in Possible(i), f # NULL, g # NULL, f <= g,
           ~PastInt(i, g)
    PROVE  Answer(i, Text(SqlType[i], f)).value <= Answer(i, Text(SqlType[i], g)).value
<1>1. i \in DOMAIN SqlType /\ f \in Int /\ g \in Int
  BY FigureIs
<1>2. i \notin Settings /\ SqlType[i] # "real" /\ i # "pg_setting_integer"
  BY <1>1, ItemFacts
<1>3. f \div 100 <= g \div 100
  BY <1>1
<1>4. ~PastInt(i, f)
  <2>1. 2 ^ (IntBits - 1) \in Nat
    BY Widths
  <2>2. \A x, y, w \in Int : x <= y /\ x >= w => y >= w
    OBVIOUS
  <2>3. f \div 100 \in Int /\ g \div 100 \in Int
    BY <1>1
  <2> QED  BY <1>3, <2>1, <2>2, <2>3 DEF PastInt
<1>5. Reported(i, f) /\ Reported(i, g)
  BY <1>2, <1>4 DEF Reported, LosesExponent, Negative
<1>6. /\ Answer(i, Text(SqlType[i], f)).value = Meant(i, f)
      /\ Answer(i, Text(SqlType[i], g)).value = Meant(i, g)
  BY <1>5, AnswerMeans
<1>7. Meant(i, f) <= Meant(i, g)
  BY <1>2, <1>3 DEF Meant
<1> QED  BY <1>6, <1>7

\* A poll between which and the last one the counter did not start over.
LEMMA PollInOrder ==
    ASSUME AlarmInv, Poll, ~restarted, item \in Counters, asked # NULL, ~PastInt(item, figure)
    PROVE  answer'.value >= answer.value
<1>1. /\ item \in Items /\ figure \in Possible(item) /\ asked \in Possible(item)
      /\ Grown /\ AnswerOfAsked
  BY DEF AlarmInv, AlarmTypeOK, TypeOK
<1>2. figure # NULL /\ asked <= figure
  BY <1>1 DEF Grown
<1> DEFINE old == answer.value
           new == answer'.value
<1>3. old = Answer(item, Text(SqlType[item], asked)).value
  BY <1>1 DEF AnswerOfAsked
<1>4. new = Answer(item, Text(SqlType[item], figure)).value
  BY DEF Poll
<1>5. old <= new
  BY <1>1, <1>2, <1>3, <1>4, CountersInOrder
<1>6. old \in Int /\ new \in Int
  BY <1>1, <1>3, <1>4, AnswerTypes
<1> HIDE DEF old, new
<1>7. new >= old
  BY <1>5, <1>6
<1> QED  BY <1>7 DEF old, new

\* Between two polls a counter that has not started over is never reported lower: no
\* width, form or fraction on the way makes it jump.
THEOREM CountersNeverRunBack == AlarmSpec => NeverRunsBack
<1>1. AlarmInv => [Poll /\ ~restarted /\ item \in Counters /\ asked # NULL /\ ~PastInt(item, figure)
                      => answer'.value >= answer.value]_vars
  BY PollInOrder
<1> QED  BY <1>1, AlarmsInvariant, PTL DEF NeverRunsBack

\* A value above the warning turns a trigger on, or leaves one on, but at the critical age.
LEMMA XidsReceived ==
    ASSUME AlarmInv, ReceiveValue, item = "pg_db_xid_age", last(values') > PG_XID_WARN
    PROVE  \/ trigger' # {}
           \/ last(values') = PG_XID_CRIT /\ "xids near exhaustion" \notin trigger
<1> DEFINE x == last(values')
           near == "xids near exhaustion" \in trigger
<1>1. Depth(item) # 0
  <2>1. TriggersOf(item) = {"xids near exhaustion", "xids exhausted"}
    BY DEF TriggersOf
  <2>2. TriggersOf(item) # {} /\ item # "pg_connect" /\ item # "pg_uptime"
    BY <2>1
  <2> QED  BY <2>2 DEF Depth
<1>2. values' \in Seq(Nat) /\ values' # <<>>
  BY <1>1, ReceivedIs
<1>3. x \in Nat
  BY <1>2, HeadTailProperties DEF last
<1>4. PG_XID_WARN \in Nat /\ PG_XID_CRIT \in Nat
  BY AlarmsAssumption
<1>5. trigger' = {t \in TriggersOf(item) : Fires(t, t \in trigger, values')}
  BY DEF ReceiveValue
<1>6. "xids exhausted" \in TriggersOf(item) /\ "xids near exhaustion" \in TriggersOf(item)
  BY DEF TriggersOf
<1>7. Fires("xids exhausted", "xids exhausted" \in trigger, values') <=> x > PG_XID_CRIT
  BY DEF Fires, Exhausted
<1>8. Fires("xids near exhaustion", near, values')
         <=> BetweenLimits(near, x, PG_XID_WARN, PG_XID_CRIT)
  BY DEF Fires
<1>9. x > PG_XID_WARN
  OBVIOUS
<1> HIDE DEF x
<1>10. CASE x > PG_XID_CRIT
  BY <1>5, <1>6, <1>7, <1>10
<1>11. CASE x < PG_XID_CRIT \/ near
  <2>1. BetweenLimits(near, x, PG_XID_WARN, PG_XID_CRIT)
    BY <1>9, <1>11 DEF BetweenLimits
  <2> QED  BY <1>5, <1>6, <1>8, <2>1
<1>12. CASE x = PG_XID_CRIT /\ ~near
  BY <1>12 DEF x
<1>13. x > PG_XID_CRIT \/ x < PG_XID_CRIT \/ x = PG_XID_CRIT
  BY <1>3, <1>4
<1> HIDE DEF near
<1> QED  BY <1>10, <1>11, <1>12, <1>13

\* A value above the warning leaves an alarm on, but for the critical age reached with the
\* first trigger off.
THEOREM XidsAlwaysWatched == AlarmSpec => XidsWatched
<1>1. AlarmInv => [ReceiveValue /\ item = "pg_db_xid_age" /\ last(values') > PG_XID_WARN =>
                      \/ trigger' # {}
                      \/ /\ last(values') = PG_XID_CRIT
                         /\ "xids near exhaustion" \notin trigger]_allVars
  BY XidsReceived
<1> QED  BY <1>1, AlarmsInvariant, PTL DEF XidsWatched

\* Of numbers one is the greatest.
LEMMA GreatestIs ==
    ASSUME NEW vs \in Seq(Nat), Len(vs) >= 1
    PROVE  \E j \in 1 .. Len(vs) : \A k \in 1 .. Len(vs) : vs[k] <= vs[j]
<1> DEFINE L == Len(vs)
           S == {n \in Nat : n + 1 <= L => \E j \in 1 .. n + 1 : \A k \in 1 .. n + 1 : vs[k] <= vs[j]}
<1>1. L \in Nat /\ L >= 1 /\ \A k \in 1 .. L : vs[k] \in Nat
  BY LenProperties, ElementOfSeq
<1> HIDE DEF L
<1>2. 0 \in S /\ S \in SUBSET Nat
  <2>1. 1 \in 1 .. 0 + 1 /\ \A k \in 1 .. 0 + 1 : k = 1
    OBVIOUS
  <2>2. vs[1] <= vs[1]
    <3>1. vs[1] \in Nat
      BY <1>1
    <3> QED  BY <3>1
  <2>3. \A k \in 1 .. 0 + 1 : vs[k] <= vs[1]
    BY <2>1, <2>2
  <2> QED  BY <2>1, <2>3
<1>3. ASSUME NEW n \in S PROVE n + 1 \in S
  <2>1. CASE (n + 1) + 1 <= L
    <3> DEFINE m == n + 1
    <3>1. m \in Nat /\ m + 1 \in 1 .. L /\ m <= L /\ n \in Nat
      BY <1>1, <2>1
    <3>2. PICK j \in 1 .. m : \A k \in 1 .. m : vs[k] <= vs[j]
      BY <3>1
    <3>3. j \in 1 .. L /\ vs[j] \in Nat /\ vs[m + 1] \in Nat
      BY <1>1, <3>1
    <3>4. \A k \in 1 .. m + 1 : k = m + 1 \/ k \in 1 .. m
      BY <3>1
    <3>5. \A k \in 1 .. m : vs[k] \in Nat
      BY <1>1, <3>1
    <3> HIDE DEF m, S
    <3>6. CASE vs[m + 1] <= vs[j]
      <4>1. \A k \in 1 .. m + 1 : vs[k] <= vs[j]
        BY <3>2, <3>4, <3>6
      <4>2. j \in 1 .. m + 1
        BY <3>1
      <4> QED  BY <3>1, <4>1, <4>2 DEF S, m
    <3>7. CASE ~(vs[m + 1] <= vs[j])
      <4>1. \A k \in 1 .. m : vs[k] <= vs[m + 1]
        <5>1. ASSUME NEW k \in 1 .. m PROVE vs[k] <= vs[m + 1]
          <6>1. vs[k] <= vs[j] /\ vs[k] \in Nat
            BY <3>2, <3>5
          <6> QED  BY <3>3, <3>7, <6>1
        <5> QED  BY <5>1
      <4>2. vs[m + 1] <= vs[m + 1]
        BY <3>3
      <4>3. \A k \in 1 .. m + 1 : vs[k] <= vs[m + 1]
        BY <3>4, <4>1, <4>2
      <4>4. m + 1 \in 1 .. m + 1
        BY <3>1
      <4> QED  BY <3>1, <4>3, <4>4 DEF S, m
    <3> QED  BY <3>6, <3>7
  <2>2. CASE ~((n + 1) + 1 <= L)
    BY <2>2
  <2> QED  BY <2>1, <2>2
<1>4. \A n \in Nat : n \in S
  <2> HIDE DEF S
  <2> QED  BY <1>2, <1>3, Induct
<1>5. L - 1 \in Nat /\ (L - 1) + 1 = L /\ L <= L
  BY <1>1
<1>6. L - 1 \in S
  <2> HIDE DEF S
  <2> QED  BY <1>4, <1>5
<1>7. \E j \in 1 .. (L - 1) + 1 : \A k \in 1 .. (L - 1) + 1 : vs[k] <= vs[j]
  BY <1>5, <1>6
<1>8. \E j \in 1 .. L : \A k \in 1 .. L : vs[k] <= vs[j]
  BY <1>5, <1>7
<1> QED  BY <1>8 DEF L

LEMMA MaxIsZero ==
    ASSUME NEW vs \in Seq(Nat), vs # <<>>, AllDown(vs)
    PROVE  \A k \in DOMAIN vs : vs[k] = 0
<1> DEFINE R == {vs[k] : k \in DOMAIN vs}
<1>1. DOMAIN vs = 1 .. Len(vs) /\ Len(vs) \in Nat /\ Len(vs) >= 1
  BY LenProperties, EmptySeq
<1>2. \A k \in DOMAIN vs : vs[k] \in Nat
  BY <1>1, ElementOfSeq
<1>3. \E m \in R : \A k \in DOMAIN vs : vs[k] <= m
  BY <1>1, GreatestIs
<1>4. max3(vs) \in R /\ \A k \in DOMAIN vs : vs[k] <= max3(vs)
  BY <1>3 DEF max3
<1>5. max3(vs) \in Nat /\ max3(vs) < 1
  BY <1>2, <1>4 DEF AllDown
<1>6. ASSUME NEW k \in DOMAIN vs PROVE vs[k] = 0
  BY <1>2, <1>4, <1>5
<1> QED  BY <1>6

LEMMA AlarmsInit == AlarmInit => AlarmsAreTrue
BY DEF AlarmInit, AlarmsAreTrue

LEMMA AlarmsNext == AlarmInv /\ AlarmsAreTrue /\ [AlarmNext]_allVars => AlarmsAreTrue'
<1> SUFFICES ASSUME AlarmInv, AlarmsAreTrue, [AlarmNext]_allVars PROVE AlarmsAreTrue'
  OBVIOUS
<1>1. CASE ReceiveValue
  <2>1. /\ trigger' = {t \in TriggersOf(item) : Fires(t, t \in trigger, values')}
        /\ between' = restarted /\ Poll
    BY <1>1 DEF ReceiveValue
  <2>2. values' \in Seq(Nat)
    BY <1>1, ReceivedIs
  <2>3. ASSUME "restarted" \in trigger' PROVE between'
    <3>1. item = "pg_uptime" /\ Fires("restarted", "restarted" \in trigger, values')
      BY <2>1, <2>3, ItemsWatched
    <3>2. change(values') < 0
      BY <3>1 DEF Fires, Shrank
    <3>3. Depth(item) = 2
      BY <3>1 DEF Depth
    <3>4. Len(values') \in Nat /\ Len(values') > 1 /\ values'[1] - values'[2] < 0
      <4>1. Len(values') \in Nat
        BY <2>2, LenProperties
      <4>2. CASE Len(values') > 1
        BY <3>2, <4>1, <4>2 DEF change
      <4>3. CASE ~(Len(values') > 1)
        BY <3>2, <4>3 DEF change
      <4> QED  BY <4>1, <4>2, <4>3
    <3>5. 1 \in 1 .. Len(values') /\ 2 \in 1 .. Len(values') /\ 2 \in 2 .. Len(values')
          /\ 2 - 1 = 1
      BY <3>4
    <3>6. values # <<>> /\ values'[2] = values[1] /\ values'[1] = answer'.value
      <4>1. values # <<>> /\ values'[2] = values[2 - 1]
        BY <1>1, <3>5, ReceivedIs
      <4>2. values'[1] = answer'.value
        BY <1>1, <3>3, ReceivedIs
      <4> QED  BY <3>5, <4>1, <4>2
    <3>7. values[1] = answer.value
      BY <3>3, <3>6 DEF AlarmInv, LastIsAnswer
    <3>8. values'[1] \in Nat /\ values'[2] \in Nat
      BY <2>2, <3>5, ElementOfSeq
    <3>9. ~(answer'.value >= answer.value)
      BY <3>4, <3>6, <3>7, <3>8
    <3>10. item \in Counters /\ ~PastInt(item, figure)
      BY <3>1 DEF Counters, PastInt
    <3>11. item \in Items /\ asked \in Possible(item) /\ restarted \in BOOLEAN
      BY DEF AlarmInv, AlarmTypeOK, TypeOK
    <3>12. asked # NULL
      <4>1. item \notin Sums
        BY <3>1 DEF Sums
      <4> QED  BY <3>11, <4>1, FigureIs
    <3>13. restarted
      BY <2>1, <3>9, <3>10, <3>12, PollInOrder
    <3> QED  BY <2>1, <3>11, <3>13
  <2>4. ASSUME "unreachable" \in trigger' PROVE \A k \in DOMAIN values' : values'[k] = 0
    <3>1. item = "pg_connect" /\ Fires("unreachable", "unreachable" \in trigger, values')
      BY <2>1, <2>4, ItemsWatched
    <3>2. AllDown(values')
      BY <3>1 DEF Fires
    <3>3. Depth(item) # 0
      BY <3>1 DEF Depth
    <3>4. values' # <<>>
      BY <1>1, <3>3, ReceivedIs
    <3> DEFINE vs == values'
    <3>5. vs \in Seq(Nat) /\ vs # <<>> /\ AllDown(vs)
      BY <2>2, <3>2, <3>4
    <3> HIDE DEF vs
    <3>6. \A k \in DOMAIN vs : vs[k] = 0
      BY <3>5, MaxIsZero
    <3> QED  BY <3>6 DEF vs
  <2> QED  BY <2>3, <2>4 DEF AlarmsAreTrue
<1>2. CASE Vary \/ Stop \/ Start
  BY <1>2, QuietVariables DEF AlarmsAreTrue
<1>3. CASE UNCHANGED allVars
  BY <1>3 DEF allVars, vars, alarmVars, AlarmsAreTrue
<1> QED  BY <1>1, <1>2, <1>3 DEF AlarmNext

\* An alarm says the truth: the server restarted between the last two values received, or
\* none of the last polls succeeded.
THEOREM AlarmsTellTheTruth == AlarmSpec => []AlarmsAreTrue
BY AlarmsInvariant, AlarmsInit, AlarmsNext, PTL DEF AlarmSpec

=============================================================================
