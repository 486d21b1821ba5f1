---------------------------- MODULE RatiosProofs ----------------------------
(***************************************************************************)
(* Proofs about Ratios.  A sum over a set is a recursive function; what it *)
(* is is proved by induction over the subsets of a finite set, in the form *)
(* the provers can use: a non-empty set of subsets has a least member.     *)
(***************************************************************************)
EXTENDS Ratios, WellFoundedInduction, FiniteSetTheorems, TLAPS

-----------------------------------------------------------------------------
(***************************************************************************)
(* Sums.                                                                   *)
(***************************************************************************)
\* Induction over the subsets of a finite set: among those that fail there is one of
\* which no smaller one fails.
LEMMA LeastSubset ==
    ASSUME NEW S, IsFiniteSet(S), NEW T \in SUBSET SUBSET S, T # {}
    PROVE  \E x \in T : \A y \in T : y \subseteq x => y = x
<1>1. IsWellFoundedOn(StrictSubsetOrdering(S), SUBSET S)
  BY FS_StrictSubsetOrderingWellFounded, FS_FiniteSubsetsOfFinite
<1>2. \E x \in T : \A y \in T : <<y, x>> \notin StrictSubsetOrdering(S)
  BY <1>1, WFMin
<1>3. \A x, y \in SUBSET S : y \subseteq x /\ y # x => <<y, x>> \in StrictSubsetOrdering(S)
  BY DEF StrictSubsetOrdering
<1> QED  BY <1>2, <1>3

First(s) == CHOOSE x \in s : TRUE

Total(column, S) == MapThenSumSet(LAMBDA a : column[a], S)

\* total is the recursive function of the sum over S.
IsTotal(total, column, S) ==
    total = [s \in SUBSET S |->
                IF s = {} THEN 0 ELSE column[First(s)] + total[s \ {First(s)}]]

Numbers(column, S) == \A a \in S : column[a] \in Nat

LEMMA TotalIs ==
    ASSUME NEW column, NEW S
    PROVE  Total(column, S) = (CHOOSE total : IsTotal(total, column, S))[S]
BY DEF Total, IsTotal, First, MapThenSumSet, MapThenFoldSet

LEMMA FirstIn == \A s : s # {} => First(s) \in s
BY DEF First

\* Two such functions agree where both are defined.
LEMMA TotalUnique ==
    ASSUME NEW c, NEW S, IsFiniteSet(S), NEW U, NEW T, NEW f, NEW g,
           U \subseteq S, T \subseteq S,
           IsTotal(f, c, U), IsTotal(g, c, T)
    PROVE  \A s : s \subseteq U /\ s \subseteq T => f[s] = g[s]
<1> DEFINE Bad == {s \in SUBSET S : s \subseteq U /\ s \subseteq T /\ f[s] # g[s]}
<1>1. ASSUME Bad # {} PROVE FALSE
  <2>0. Bad \in SUBSET SUBSET S
    OBVIOUS
  <2>1. PICK x \in Bad : \A y \in Bad : y \subseteq x => y = x
    <3> HIDE DEF Bad
    <3> QED  BY <1>1, <2>0, LeastSubset
  <2>2. CASE x = {}
    BY <2>1, <2>2 DEF IsTotal
  <2>3. CASE x # {}
    <3> DEFINE y == x \ {First(x)}
    <3>1. First(x) \in x /\ y \subseteq x /\ y # x /\ y \in SUBSET S
      BY <2>1, <2>3, FirstIn
    <3>2. f[y] = g[y]
      BY <2>1, <3>1
    <3>3. f[x] = c[First(x)] + f[y] /\ g[x] = c[First(x)] + g[y]
      BY <2>1, <2>3 DEF IsTotal
    <3> QED  BY <2>1, <3>2, <3>3
  <2> QED  BY <2>2, <2>3
<1> QED  BY <1>1

\* There is such a function, with values in Nat, for numbers.
LEMMA TotalExists ==
    ASSUME NEW c, NEW S, IsFiniteSet(S), Numbers(c, S)
    PROVE  \E f \in [SUBSET S -> Nat] : IsTotal(f, c, S)
<1> DEFINE Of(U)  == {f \in [SUBSET U -> Nat] : IsTotal(f, c, U)}
           Bad    == {U \in SUBSET S : Of(U) = {}}
           G(U)   == (CHOOSE f \in Of(U) : TRUE)[U]
<1>1. ASSUME Bad # {} PROVE FALSE
  <2>0. Bad \in SUBSET SUBSET S
    OBVIOUS
  <2>1. PICK U \in Bad : \A y \in Bad : y \subseteq U => y = U
    <3> HIDE DEF Bad
    <3> QED  BY <1>1, <2>0, LeastSubset
  <2> DEFINE f == [s \in SUBSET U |-> IF s = {} THEN 0 ELSE c[First(s)] + G(s \ {First(s)})]
  <2>2. U \in SUBSET S /\ Of(U) = {}
    BY <2>1
  <2>3. \A s \in SUBSET U : s # U => Of(s) # {}
    BY <2>1
  <2>4. \A s \in SUBSET U : s # {} =>
            /\ First(s) \in s /\ First(s) \in S
            /\ s \ {First(s)} \in SUBSET U /\ s \ {First(s)} # U
    BY <2>2, FirstIn
  <2>5. ASSUME NEW s \in SUBSET U, s # U
        PROVE  \E h \in [SUBSET s -> Nat] : IsTotal(h, c, s) /\ G(s) = h[s]
    BY <2>3, <2>5
  <2>6. f \in [SUBSET U -> Nat]
    <3>1. ASSUME NEW s \in SUBSET U, s # {} PROVE c[First(s)] + G(s \ {First(s)}) \in Nat
      <4>1. c[First(s)] \in Nat
        BY <2>4, <3>1 DEF Numbers
      <4>2. G(s \ {First(s)}) \in Nat
        <5> DEFINE t == s \ {First(s)}
        <5>1. t \in SUBSET U /\ t # U
          BY <2>4, <3>1
        <5> HIDE DEF t, G
        <5>2. PICK h \in [SUBSET t -> Nat] : G(t) = h[t]
          BY <5>1, <2>5
        <5>3. h[t] \in Nat
          OBVIOUS
        <5> QED  BY <5>2, <5>3 DEF t
      <4> HIDE DEF G
      <4> QED  BY <4>1, <4>2
    <3> HIDE DEF G
    <3> QED  BY <3>1
  <2>7. ASSUME NEW s \in SUBSET U, s # U PROVE f[s] = G(s)
    <3>1. PICK h \in [SUBSET s -> Nat] : IsTotal(h, c, s) /\ G(s) = h[s]
      BY <2>5, <2>7
    <3>2. CASE s = {}
      <4>1. h[s] = 0
        BY <3>1, <3>2 DEF IsTotal
      <4> HIDE DEF G
      <4> QED  BY <3>1, <3>2, <4>1
    <3>3. CASE s # {}
      <4> DEFINE t == s \ {First(s)}
      <4>1. h[s] = c[First(s)] + h[t]
        BY <3>1, <3>3 DEF IsTotal
      <4>2. t \in SUBSET U /\ t # U /\ t \subseteq s
        BY <2>4, <3>3
      <4>3. f[s] = c[First(s)] + G(t)
        <5> HIDE DEF G
        <5> QED  BY <3>3
      <4>4. G(t) = h[t]
        <5> HIDE DEF t, G
        <5>1. PICK g \in [SUBSET t -> Nat] : IsTotal(g, c, t) /\ G(t) = g[t]
          BY <2>5, <4>2
        <5>2. t \subseteq S /\ s \subseteq S
          BY <2>2, <4>2
        <5>3. g[t] = h[t]
          BY <5>1, <5>2, <3>1, <4>2, TotalUnique
        <5> QED  BY <5>1, <5>3
      <4> HIDE DEF t, G, f
      <4> QED  BY <3>1, <4>1, <4>3, <4>4
    <3> QED  BY <3>2, <3>3
  <2>8. f = [s \in SUBSET U |-> IF s = {} THEN 0 ELSE c[First(s)] + f[s \ {First(s)}]]
    <3>1. \A s \in SUBSET U : s # {} => f[s \ {First(s)}] = G(s \ {First(s)})
      BY <2>4, <2>7
    <3> HIDE DEF G
    <3> QED  BY <3>1
  <2>9. f \in Of(U)
    <3> HIDE DEF f
    <3> QED  BY <2>6, <2>8 DEF IsTotal
  <2> QED  BY <2>9, <2>2
<1>2. Of(S) # {}
  BY <1>1
<1> QED  BY <1>2

\* What a sum is: 0 over no element, and over others the first element and the sum of
\* the rest.
LEMMA TotalStep ==
    ASSUME NEW c, NEW S, IsFiniteSet(S), Numbers(c, S)
    PROVE  /\ Total(c, S) \in Nat
           /\ S = {} => Total(c, S) = 0
           /\ S # {} => Total(c, S) = c[First(S)] + Total(c, S \ {First(S)})
<1> DEFINE f == CHOOSE total : IsTotal(total, c, S)
<1>1. PICK g \in [SUBSET S -> Nat] : IsTotal(g, c, S)
  BY TotalExists
<1>2. IsTotal(f, c, S)
  BY <1>1
<1>3. Total(c, S) = f[S]
  BY TotalIs
<1> HIDE DEF f
<1>4. f[S] = g[S]
  BY <1>1, <1>2, TotalUnique
<1>5. S = {} => f[S] = 0
  BY <1>2 DEF IsTotal
<1>6. ASSUME S # {} PROVE f[S] = c[First(S)] + Total(c, S \ {First(S)})
  <2> DEFINE t == S \ {First(S)}
             h == CHOOSE total : IsTotal(total, c, t)
  <2>1. f[S] = c[First(S)] + f[t]
    BY <1>2, <1>6 DEF IsTotal
  <2>2. t \subseteq S /\ IsFiniteSet(t) /\ Numbers(c, t)
    BY FS_Subset DEF Numbers
  <2> HIDE DEF t
  <2>3. \E total : IsTotal(total, c, t)
    BY <2>2, TotalExists
  <2>4. IsTotal(h, c, t)
    BY <2>3
  <2>5. Total(c, t) = h[t]
    BY TotalIs
  <2> HIDE DEF h
  <2>6. \A s : s \subseteq S /\ s \subseteq t => f[s] = h[s]
    BY <1>2, <2>2, <2>4, TotalUnique, S \subseteq S
  <2>7. f[t] = h[t]
    BY <2>2, <2>6
  <2> QED  BY <2>1, <2>5, <2>7 DEF t
<1> QED  BY <1>3, <1>4, <1>5, <1>6

\* The order does not matter: any element may be taken out.
LEMMA TotalWithout ==
    ASSUME NEW c, NEW S, IsFiniteSet(S), Numbers(c, S), NEW a \in S
    PROVE  Total(c, S) = c[a] + Total(c, S \ {a})
<1> DEFINE Holds(s) == \A x \in s : Total(c, s) = c[x] + Total(c, s \ {x})
           Bad      == {s \in SUBSET S : ~Holds(s)}
<1>0. \A s \in SUBSET S : IsFiniteSet(s) /\ Numbers(c, s)
  BY FS_Subset DEF Numbers
<1>1. ASSUME Bad # {} PROVE FALSE
  <2>0. Bad \in SUBSET SUBSET S
    OBVIOUS
  <2>1. PICK s \in Bad : \A y \in Bad : y \subseteq s => y = s
    <3> HIDE DEF Bad
    <3> QED  BY <1>1, <2>0, LeastSubset
  <2>2. s \in SUBSET S /\ ~Holds(s)
    BY <2>1
  <2>3. \A y \in SUBSET s : y # s => Holds(y)
    BY <2>1
  <2>4. PICK x \in s : Total(c, s) # c[x] + Total(c, s \ {x})
    BY <2>2
  <2> DEFINE z == First(s)
  <2>5. z \in s /\ Total(c, s) = c[z] + Total(c, s \ {z})
    BY <1>0, <2>2, <2>4, TotalStep, FirstIn
  <2> HIDE DEF z
  <2>6. x # z
    BY <2>4, <2>5
  <2>7. Holds(s \ {z}) /\ Holds(s \ {x})
    BY <2>3, <2>4, <2>5
  <2>8. Total(c, s \ {z}) = c[x] + Total(c, (s \ {z}) \ {x})
    BY <2>4, <2>6, <2>7
  <2>9. Total(c, s \ {x}) = c[z] + Total(c, (s \ {x}) \ {z})
    BY <2>5, <2>6, <2>7
  <2>10. (s \ {z}) \ {x} = (s \ {x}) \ {z} /\ (s \ {x}) \ {z} \in SUBSET S
    BY <2>2
  <2>11. Total(c, (s \ {x}) \ {z}) \in Nat /\ c[x] \in Nat /\ c[z] \in Nat
    BY <1>0, <2>2, <2>4, <2>5, <2>10, TotalStep DEF Numbers
  <2>12. Total(c, s \ {x}) = c[z] + Total(c, (s \ {z}) \ {x})
    BY <2>9, <2>10, Zenon
  <2>13. \A n, cx, cz \in Nat : cz + (cx + n) = cx + (cz + n)
    OBVIOUS
  <2>14. Total(c, (s \ {z}) \ {x}) \in Nat
    BY <2>10, <2>11, Zenon
  <2> QED  BY <2>4, <2>5, <2>8, <2>11, <2>12, <2>13, <2>14
<1>2. Holds(S)
  BY <1>1
<1> QED  BY <1>2

\* The sum depends on the numbers of the set alone.
LEMMA TotalSame ==
    ASSUME NEW c, NEW d, NEW S, IsFiniteSet(S), Numbers(c, S), \A a \in S : d[a] = c[a]
    PROVE  Total(d, S) = Total(c, S)
<1> DEFINE Bad == {s \in SUBSET S : Total(d, s) # Total(c, s)}
<1>0. \A s \in SUBSET S : IsFiniteSet(s) /\ Numbers(c, s) /\ Numbers(d, s)
  BY FS_Subset DEF Numbers
<1>1. ASSUME Bad # {} PROVE FALSE
  <2>0. Bad \in SUBSET SUBSET S
    OBVIOUS
  <2>1. PICK s \in Bad : \A y \in Bad : y \subseteq s => y = s
    <3> HIDE DEF Bad
    <3> QED  BY <1>1, <2>0, LeastSubset
  <2>2. s \in SUBSET S /\ Total(d, s) # Total(c, s)
    BY <2>1
  <2>3. s # {}
    BY <1>0, <2>2, TotalStep
  <2>4. First(s) \in s /\ d[First(s)] = c[First(s)]
    BY <2>2, <2>3, FirstIn
  <2>5. Total(d, s \ {First(s)}) = Total(c, s \ {First(s)})
    BY <2>1, <2>4
  <2> QED  BY <1>0, <2>2, <2>3, <2>4, <2>5, TotalStep
<1> QED  BY <1>1

\* One number one higher makes the sum one higher.
LEMMA TotalRaised ==
    ASSUME NEW c, NEW d, NEW S, IsFiniteSet(S), Numbers(c, S), NEW a \in S,
           d[a] = c[a] + 1, \A b \in S \ {a} : d[b] = c[b]
    PROVE  Total(d, S) = Total(c, S) + 1
<1> DEFINE R == S \ {a}
<1>1. Numbers(d, S)
  BY DEF Numbers
<1>2. Total(d, S) = d[a] + Total(d, R) /\ Total(c, S) = c[a] + Total(c, R)
  BY <1>1, TotalWithout
<1>3. IsFiniteSet(R) /\ Numbers(c, R)
  BY FS_Subset DEF Numbers
<1>4. Total(d, R) = Total(c, R) /\ Total(c, R) \in Nat
  <2>1. \A b \in R : d[b] = c[b]
    OBVIOUS
  <2> HIDE DEF R
  <2>2. Total(d, R) = Total(c, R)
    BY <1>3, <2>1, TotalSame
  <2> QED  BY <1>3, <2>2, TotalStep
<1>5. c[a] \in Nat
  BY DEF Numbers
<1> HIDE DEF R
<1>6. \A x, n \in Nat : (x + 1) + n = (x + n) + 1
  OBVIOUS
<1> QED  BY <1>2, <1>4, <1>5, <1>6

\* No element is more than the sum, and fewer elements do not sum to more.
LEMMA TotalOfFewer ==
    ASSUME NEW c, NEW S, IsFiniteSet(S), Numbers(c, S), NEW T \in SUBSET S
    PROVE  Total(c, T) <= Total(c, S)
<1> DEFINE Bad == {s \in SUBSET S : T \subseteq s /\ ~(Total(c, T) <= Total(c, s))}
<1>0. \A s \in SUBSET S : IsFiniteSet(s) /\ Numbers(c, s) /\ Total(c, s) \in Nat
  BY FS_Subset, TotalStep DEF Numbers
<1>1. ASSUME Bad # {} PROVE FALSE
  <2>0. Bad \in SUBSET SUBSET S
    OBVIOUS
  <2>1. PICK s \in Bad : \A y \in Bad : y \subseteq s => y = s
    <3> HIDE DEF Bad
    <3> QED  BY <1>1, <2>0, LeastSubset
  <2>2. s \in SUBSET S /\ T \subseteq s /\ ~(Total(c, T) <= Total(c, s))
    BY <2>1
  <2>3. s # T
    BY <1>0, <2>2
  <2>4. PICK a \in s : a \notin T
    BY <2>2, <2>3
  <2>5. s \ {a} \in SUBSET S /\ T \subseteq s \ {a} /\ s \ {a} \notin Bad
    BY <2>1, <2>2, <2>4
  <2>6. Total(c, T) <= Total(c, s \ {a})
    BY <2>5
  <2>7. Total(c, s) = c[a] + Total(c, s \ {a}) /\ c[a] \in Nat
    BY <1>0, <2>2, TotalWithout DEF Numbers
  <2>8. Total(c, T) \in Nat /\ Total(c, s \ {a}) \in Nat /\ Total(c, s) \in Nat
    BY <1>0, <2>2, <2>5
  <2>9. \A x, y, n \in Nat : x <= n => x <= y + n
    OBVIOUS
  <2> QED  BY <2>2, <2>6, <2>7, <2>8, <2>9
<1> QED  BY <1>1

LEMMA TotalAtLeast ==
    ASSUME NEW c, NEW S, IsFiniteSet(S), Numbers(c, S), NEW a \in S
    PROVE  c[a] <= Total(c, S)
<1>1. IsFiniteSet(S \ {a}) /\ Numbers(c, S \ {a})
  BY FS_Subset DEF Numbers
<1>2. Total(c, S \ {a}) \in Nat /\ c[a] \in Nat
  BY <1>1, TotalStep DEF Numbers
<1> QED  BY <1>2, TotalWithout

\* What holds of each element by the weights k and m holds of the sums.
LEMMA TotalWeighted ==
    ASSUME NEW c, NEW d, NEW S, IsFiniteSet(S), Numbers(c, S), Numbers(d, S),
           NEW k \in Nat, NEW m \in Nat,
           \A a \in S : k * c[a] <= m * d[a]
    PROVE  k * Total(c, S) <= m * Total(d, S)
<1> DEFINE Holds(s) == k * Total(c, s) <= m * Total(d, s)
           Bad == {s \in SUBSET S : ~Holds(s)}
<1>0. \A s \in SUBSET S : /\ IsFiniteSet(s) /\ Numbers(c, s) /\ Numbers(d, s)
                          /\ Total(c, s) \in Nat /\ Total(d, s) \in Nat
  BY FS_Subset, TotalStep DEF Numbers
<1>1. ASSUME Bad # {} PROVE FALSE
  <2>0. Bad \in SUBSET SUBSET S
    OBVIOUS
  <2>1. PICK s \in Bad : \A y \in Bad : y \subseteq s => y = s
    <3> HIDE DEF Bad
    <3> QED  BY <1>1, <2>0, LeastSubset
  <2>2. s \in SUBSET S /\ ~Holds(s)
    BY <2>1
  <2>3. s # {}
    <3>1. ASSUME s = {} PROVE FALSE
      <4>1. Total(c, s) = 0 /\ Total(d, s) = 0
        BY <1>0, <2>2, <3>1, TotalStep
      <4> QED  BY <2>2, <4>1
    <3> QED  BY <3>1
  <2>4. PICK a : a \in s
    BY <2>3
  <2>5. s \ {a} \in SUBSET S /\ Holds(s \ {a})
    BY <2>1, <2>2, <2>4
  <2>6. /\ Total(c, s) = c[a] + Total(c, s \ {a}) /\ c[a] \in Nat
        /\ Total(d, s) = d[a] + Total(d, s \ {a}) /\ d[a] \in Nat
    BY <1>0, <2>2, <2>4, TotalWithout DEF Numbers
  <2>7. Total(c, s \ {a}) \in Nat /\ Total(d, s \ {a}) \in Nat
    BY <1>0, <2>5
  <2>8. k * c[a] <= m * d[a]
    BY <2>2, <2>4
  <2>9. \A x, y, v, w \in Nat :
           k * x <= m * y /\ k * v <= m * w => k * (x + v) <= m * (y + w)
    OBVIOUS
  <2> QED  BY <2>2, <2>5, <2>6, <2>7, <2>8, <2>9
<1> QED  BY <1>1

\* More so when it holds strictly of one of them.
LEMMA TotalWeightedMore ==
    ASSUME NEW c, NEW d, NEW S, IsFiniteSet(S), Numbers(c, S), Numbers(d, S),
           NEW k \in Nat, NEW m \in Nat,
           \A a \in S : k * c[a] <= m * d[a],
           NEW x \in S, k * c[x] < m * d[x]
    PROVE  k * Total(c, S) < m * Total(d, S)
<1> DEFINE R == S \ {x}
<1>1. IsFiniteSet(R) /\ Numbers(c, R) /\ Numbers(d, R)
  BY FS_Subset DEF Numbers
<1>2. Total(c, R) \in Nat /\ Total(d, R) \in Nat /\ c[x] \in Nat /\ d[x] \in Nat
  BY <1>1, TotalStep DEF Numbers
<1>3. Total(c, S) = c[x] + Total(c, R) /\ Total(d, S) = d[x] + Total(d, R)
  BY TotalWithout
<1>4. k * Total(c, R) <= m * Total(d, R)
  BY <1>1, TotalWeighted
<1>5. \A n, y, v, w \in Nat :
           k * n < m * y /\ k * v <= m * w => k * (n + v) < m * (y + w)
  OBVIOUS
<1> HIDE DEF R
<1> QED  BY <1>2, <1>3, <1>4, <1>5

-----------------------------------------------------------------------------
(***************************************************************************)
(* The ratio of two columns, as a function of the numbers in them.         *)
(***************************************************************************)
Zero == [num |-> 0, den |-> 1]

Ratio(p, r) == pg_get_dbl(pg_get_percentage(p, Plus(p, r)))

Columns == Nat \union {NULL}

LEMMA NullIs == NULL \notin Int /\ NULL \notin Nat
BY RatiosAssumption

LEMMA FractionIsNot == \A n, d \in Int : [num |-> n, den |-> d] # NULL
BY RatiosAssumption

LEMMA RatioNull ==
    ASSUME NEW p \in Columns, NEW r \in Columns, NULL \in {p, r}
    PROVE  Ratio(p, r) = Zero
<1>1. Plus(p, r) = NULL
  BY DEF Plus
<1>2. NULL # 0
  BY NullIs
<1> QED  BY <1>1, <1>2 DEF Ratio, pg_get_dbl, pg_get_percentage, IsZero, Over, Zero

LEMMA RatioNumber ==
    ASSUME NEW p \in Nat, NEW r \in Nat
    PROVE  Ratio(p, r) = IF p + r = 0 THEN One ELSE [num |-> p, den |-> p + r]
<1>1. Plus(p, r) = p + r /\ p + r \in Nat
  BY NullIs DEF Plus
<1>2. CASE p + r = 0
  <2>1. pg_get_percentage(p, Plus(p, r)) = One
    BY <1>1, <1>2 DEF pg_get_percentage, IsZero
  <2>2. One # NULL
    BY FractionIsNot DEF One
  <2> QED  BY <1>2, <2>1, <2>2 DEF Ratio, pg_get_dbl
<1>3. CASE p + r # 0
  <2>1. Over(p, p + r) = [num |-> p, den |-> p + r]
    BY <1>1, NullIs DEF Over
  <2>2. Over(p, p + r) # NULL
    BY <1>1, <2>1, FractionIsNot
  <2> QED  BY <1>1, <1>3, <2>1, <2>2 DEF Ratio, pg_get_dbl, pg_get_percentage, IsZero
<1> QED  BY <1>2, <1>3

AtMostOne(x) == AtMost(x, One)

\* Whatever the columns, the ratio is a fraction, and at most one.
LEMMA RatioShare ==
    ASSUME NEW p \in Columns, NEW r \in Columns
    PROVE  Ratio(p, r) \in Fractions /\ AtMostOne(Ratio(p, r))
<1>1. CASE NULL \in {p, r}
  <2>1. Ratio(p, r) = Zero
    BY <1>1, RatioNull
  <2> QED  BY <2>1 DEF Zero, Fractions, AtMostOne, AtMost, One
<1>2. CASE NULL \notin {p, r}
  <2>1. p \in Nat /\ r \in Nat
    BY <1>2 DEF Columns
  <2>2. CASE p + r = 0
    <3>1. Ratio(p, r) = One
      BY <2>1, <2>2, RatioNumber
    <3> QED  BY <3>1 DEF Fractions, AtMostOne, AtMost, One
  <2>3. CASE p + r # 0
    <3>1. Ratio(p, r) = [num |-> p, den |-> p + r]
      BY <2>1, <2>3, RatioNumber
    <3>2. p + r \in Nat \ {0} /\ p <= p + r
      BY <2>1, <2>3
    <3>3. \A n \in Nat : p * 1 = p /\ 1 * n = n
      BY <2>1
    <3> QED  BY <2>1, <3>1, <3>2, <3>3 DEF Fractions, AtMostOne, AtMost, One
  <2> QED  BY <2>2, <2>3
<1> QED  BY <1>1, <1>2

-----------------------------------------------------------------------------
(***************************************************************************)
(* The sums of the columns over the assets E.                              *)
(***************************************************************************)
Given(c, E) == {a \in E : c[a] # NULL}

SumOf(c, E) == IF Given(c, E) = {} THEN NULL ELSE Total(c, Given(c, E))

\* Columns as the views show them.
Shown(p, r, E) ==
    /\ IsFiniteSet(E)
    /\ \A a \in E : /\ p[a] \in Columns /\ r[a] \in Columns
                    /\ r[a] = NULL => p[a] = NULL

LEMMA SumIs == \A c : Sum(c) = SumOf(c, Existing)
BY DEF Sum, SumOf, Given, Total

LEMMA GivenNumbers ==
    ASSUME NEW c, NEW E, IsFiniteSet(E), \A a \in E : c[a] \in Columns
    PROVE  IsFiniteSet(Given(c, E)) /\ Numbers(c, Given(c, E)) /\ Total(c, Given(c, E)) \in Nat
<1>1. IsFiniteSet(Given(c, E)) /\ Numbers(c, Given(c, E))
  BY FS_Subset DEF Given, Numbers, Columns
<1> QED  BY <1>1, TotalStep

LEMMA SumColumn ==
    ASSUME NEW c, NEW E, IsFiniteSet(E), \A a \in E : c[a] \in Columns
    PROVE  /\ SumOf(c, E) \in Columns
           /\ SumOf(c, E) = NULL <=> Given(c, E) = {}
<1>1. Total(c, Given(c, E)) \in Nat
  BY GivenNumbers
<1> QED  BY <1>1, NullIs DEF SumOf, Columns

RatioAll(p, r, E) == Ratio(SumOf(p, E), SumOf(r, E))

-----------------------------------------------------------------------------
LEMMA RatioOfIs == \A a : RatioOf(a) = Ratio(part[a], rest[a])
BY DEF RatioOf, Ratio, PartColumn, Whole

LEMMA RatioOfAllIs == RatioOfAll = RatioAll(part, rest, Existing)
BY SumIs DEF RatioOfAll, RatioAll, Ratio, PartOfAll, Whole

LEMMA TypeOKShown == TypeOK => Shown(part, rest, Existing)
<1> SUFFICES ASSUME TypeOK PROVE Shown(part, rest, Existing)
  OBVIOUS
<1>1. IsFiniteSet(Existing)
  BY FS_Subset, RatiosAssumption DEF TypeOK
<1>2. ASSUME NEW a \in Existing
      PROVE  /\ part[a] \in Columns /\ rest[a] \in Columns
             /\ rest[a] = NULL => part[a] = NULL
  <2>1. [part |-> part[a], rest |-> rest[a]] \in Rows
    BY <1>2 DEF TypeOK
  <2>2. Counts \subseteq Nat
    BY RatiosAssumption DEF Counts
  <2>3. /\ part[a] \in Counts \union {NULL} /\ rest[a] \in Counts \union {NULL}
        /\ rest[a] = NULL => part[a] = NULL
    BY <2>1 DEF Rows
  <2> QED  BY <2>2, <2>3 DEF Columns
<1> QED  BY <1>1, <1>2 DEF Shown

-----------------------------------------------------------------------------
(***************************************************************************)
(* The tables the views show are well formed, whatever happens to them.    *)
(***************************************************************************)
Row(x, y) == [part |-> x, rest |-> y]

\* The part of TypeOK that is about the assets.
Tables(p, r) ==
    /\ DOMAIN p = DOMAIN r /\ DOMAIN p \subseteq Assets
    /\ \A a \in DOMAIN p : Row(p[a], r[a]) \in Rows

TransactionPlaces ==
    /\ prepared \in 0 .. max_prepared_transactions
    /\ max_prepared_transactions \in Counts

LEMMA TypeOKIs == TypeOK <=> Tables(part, rest) /\ TransactionPlaces
BY DEF TypeOK, Tables, TransactionPlaces, Existing, Row

LEMMA RowIn ==
    \A x, y : Row(x, y) \in Rows <=>
        /\ x \in Counts \union {NULL} /\ y \in Counts \union {NULL}
        /\ y = NULL => x = NULL
BY DEF Row, Rows

LEMMA CountsAre == \A n \in Counts : n \in Nat /\ n <= MaxCount /\ n # NULL
BY RatiosAssumption, NullIs DEF Counts

LEMMA InitType == Init => TypeOK
<1> SUFFICES ASSUME Init PROVE Tables(part, rest) /\ TransactionPlaces
  BY TypeOKIs
<1>1. TransactionPlaces
  BY CountsAre DEF Init, TransactionPlaces
<1>2. PICK As \in SUBSET Assets :
         \E row \in [As -> {r \in Rows : {r.part, r.rest} \subseteq {0, NULL}}] :
              /\ part = [a \in As |-> row[a].part]
              /\ rest = [a \in As |-> row[a].rest]
  BY DEF Init
<1>3. PICK row \in [As -> Rows] :
              /\ part = [a \in As |-> row[a].part]
              /\ rest = [a \in As |-> row[a].rest]
  BY <1>2
<1>4. ASSUME NEW a \in As PROVE Row(part[a], rest[a]) \in Rows
  <2>1. row[a] \in Rows
    OBVIOUS
  <2>2. Row(row[a].part, row[a].rest) = row[a]
    BY <2>1 DEF Rows, Row
  <2> QED  BY <1>3, <2>1, <2>2
<1>5. DOMAIN part = As /\ DOMAIN rest = As
  BY <1>3
<1> QED  BY <1>1, <1>4, <1>5 DEF Tables

LEMMA HitTables ==
    ASSUME NEW a \in Existing, Hit(a), TypeOK
    PROVE  Tables(part', rest')
<1>1. /\ Tables(part, rest) /\ part[a] \in Counts /\ part[a] + 1 \in Counts
      /\ rest' = rest /\ part' = [part EXCEPT ![a] = part[a] + 1]
  <2>1. Tables(part, rest) /\ Row(part[a], rest[a]) \in Rows
    BY TypeOKIs DEF Tables, Existing
  <2>2. part[a] \in Counts /\ part[a] < MaxCount
    BY <2>1, RowIn DEF Hit
  <2>3. part[a] + 1 \in Counts
    BY <2>2, RatiosAssumption DEF Counts
  <2> QED  BY <2>1, <2>2, <2>3 DEF Hit
<1>2. DOMAIN part' = DOMAIN part
  BY <1>1
<1>3. \A b \in DOMAIN part : part'[b] = IF b = a THEN part[a] + 1 ELSE part[b]
  BY <1>1
<1>4. part[a] # NULL
  BY DEF Hit
<1>5. ASSUME NEW b \in DOMAIN part PROVE Row(part'[b], rest'[b]) \in Rows
  <2>1. Row(part[b], rest[b]) \in Rows
    BY <1>1 DEF Tables
  <2>2. CASE b = a
    BY <1>1, <1>3, <1>4, <2>1, <2>2, RowIn
  <2>3. CASE b # a
    BY <1>1, <1>3, <2>1, <2>3
  <2> QED  BY <2>2, <2>3
<1> QED  BY <1>1, <1>2, <1>5 DEF Tables

LEMMA MissTables ==
    ASSUME NEW a \in Existing, Miss(a), TypeOK
    PROVE  Tables(part', rest')
<1>1. /\ Tables(part, rest) /\ rest[a] \in Counts /\ rest[a] + 1 \in Counts
      /\ part' = part /\ rest' = [rest EXCEPT ![a] = rest[a] + 1]
  <2>1. Tables(part, rest) /\ Row(part[a], rest[a]) \in Rows
    BY TypeOKIs DEF Tables, Existing
  <2>2. rest[a] \in Counts /\ rest[a] < MaxCount
    BY <2>1, RowIn DEF Miss
  <2>3. rest[a] + 1 \in Counts
    BY <2>2, RatiosAssumption DEF Counts
  <2> QED  BY <2>1, <2>2, <2>3 DEF Miss
<1>2. DOMAIN rest' = DOMAIN part
  BY <1>1 DEF Tables
<1>3. \A b \in DOMAIN part : rest'[b] = IF b = a THEN rest[a] + 1 ELSE rest[b]
  BY <1>1 DEF Tables
<1>4. \A n \in Counts : n # NULL
  BY CountsAre
<1>5. ASSUME NEW b \in DOMAIN part PROVE Row(part'[b], rest'[b]) \in Rows
  <2>1. Row(part[b], rest[b]) \in Rows
    BY <1>1 DEF Tables
  <2>2. CASE b = a
    BY <1>1, <1>3, <1>4, <2>1, <2>2, RowIn
  <2>3. CASE b # a
    BY <1>1, <1>3, <2>1, <2>3
  <2> QED  BY <2>2, <2>3
<1> QED  BY <1>1, <1>2, <1>5 DEF Tables

LEMMA ChangeTables ==
    ASSUME NEW a \in Assets, Change(a), TypeOK
    PROVE  Tables(part', rest')
<1>0. Tables(part, rest)
  BY TypeOKIs
<1>1. CASE /\ part' = [b \in Existing \ {a} |-> part[b]]
           /\ rest' = [b \in Existing \ {a} |-> rest[b]]
  BY <1>0, <1>1 DEF Tables, Existing
<1>2. ASSUME NEW r \in Rows,
             part' = [b \in Existing \union {a} |-> IF b = a THEN r.part ELSE part[b]],
             rest' = [b \in Existing \union {a} |-> IF b = a THEN r.rest ELSE rest[b]]
      PROVE  Tables(part', rest')
  <2>1. Row(r.part, r.rest) \in Rows
    BY DEF Row, Rows
  <2>2. ASSUME NEW b \in Existing \union {a} PROVE Row(part'[b], rest'[b]) \in Rows
    BY <1>0, <1>2, <2>1 DEF Tables, Existing
  <2>3. DOMAIN part' = Existing \union {a} /\ DOMAIN rest' = Existing \union {a}
    BY <1>2
  <2> QED  BY <1>0, <2>2, <2>3 DEF Tables, Existing
<1> QED  BY <1>1, <1>2 DEF Change

LEMMA NextType == TypeOK /\ [Next]_vars => TypeOK'
<1> SUFFICES ASSUME TypeOK, [Next]_vars
             PROVE  Tables(part', rest') /\ TransactionPlaces'
  BY DEF Tables, TransactionPlaces, TypeOK, Existing, Row
<1>0. Tables(part, rest) /\ TransactionPlaces
  BY TypeOKIs
<1>1. ASSUME NEW a \in Existing, Hit(a) PROVE Tables(part', rest') /\ TransactionPlaces'
  BY <1>0, <1>1, HitTables DEF Hit, TransactionPlaces
<1>2. ASSUME NEW a \in Existing, Miss(a) PROVE Tables(part', rest') /\ TransactionPlaces'
  BY <1>0, <1>2, MissTables DEF Miss, TransactionPlaces
<1>3. ASSUME NEW a \in Assets, Change(a) PROVE Tables(part', rest') /\ TransactionPlaces'
  BY <1>0, <1>3, ChangeTables DEF Change, TransactionPlaces
<1>4. CASE Prepare
  BY <1>0, <1>4, CountsAre DEF Prepare, TransactionPlaces, assetVars
<1>5. CASE CommitPrepared
  BY <1>0, <1>5, CountsAre DEF CommitPrepared, TransactionPlaces, assetVars
<1>6. ASSUME NEW n \in Counts, RestartWith(n)
      PROVE  Tables(part', rest') /\ TransactionPlaces'
  BY <1>0, <1>6, CountsAre DEF RestartWith, TransactionPlaces, assetVars
<1>7. CASE UNCHANGED vars
  BY <1>0, <1>7 DEF vars, TransactionPlaces
<1> QED  BY <1>1, <1>2, <1>3, <1>4, <1>5, <1>6, <1>7 DEF Next

LEMMA RatiosTyped == Spec => []TypeOK
BY InitType, NextType, PTL DEF Spec

-----------------------------------------------------------------------------
(***************************************************************************)
(* Every ratio is a share.                                                 *)
(***************************************************************************)
LEMMA PreparedShare ==
    TransactionPlaces =>
        /\ PG_PREPARED_XACTS_RATIO \in Fractions
        /\ AtMostOne(PG_PREPARED_XACTS_RATIO)
<1> SUFFICES ASSUME TransactionPlaces
             PROVE  /\ PG_PREPARED_XACTS_RATIO \in Fractions
                    /\ AtMostOne(PG_PREPARED_XACTS_RATIO)
  OBVIOUS
<1>1. max_prepared_transactions \in Nat /\ prepared \in Nat
      /\ prepared <= max_prepared_transactions
  BY CountsAre DEF TransactionPlaces
<1>2. CASE max_prepared_transactions = 0
  BY <1>2 DEF PG_PREPARED_XACTS_RATIO, Fractions, AtMostOne, AtMost, One
<1>3. CASE max_prepared_transactions # 0
  <2>1. PG_PREPARED_XACTS_RATIO = [num |-> prepared, den |-> max_prepared_transactions]
    BY <1>1, <1>3, NullIs DEF PG_PREPARED_XACTS_RATIO, Over
  <2>2. \A n \in Nat : n * 1 = n /\ 1 * n = n
    OBVIOUS
  <2> QED  BY <1>1, <1>3, <2>1, <2>2 DEF Fractions, AtMostOne, AtMost, One
<1> QED  BY <1>2, <1>3

LEMMA ShareInState == TypeOK => RatioIsShare
<1> SUFFICES ASSUME TypeOK PROVE RatioIsShare
  OBVIOUS
<1>1. Shown(part, rest, Existing)
  BY TypeOKShown
<1>2. ASSUME NEW a \in Existing PROVE RatioOf(a) \in Fractions /\ AtMostOne(RatioOf(a))
  BY <1>1, RatioOfIs, RatioShare DEF Shown
<1>3. RatioOfAll \in Fractions /\ AtMostOne(RatioOfAll)
  <2>1. SumOf(part, Existing) \in Columns /\ SumOf(rest, Existing) \in Columns
    BY <1>1, SumColumn DEF Shown
  <2> QED  BY <2>1, RatioOfAllIs, RatioShare DEF RatioAll
<1>4. PG_PREPARED_XACTS_RATIO \in Fractions /\ AtMostOne(PG_PREPARED_XACTS_RATIO)
  BY PreparedShare, TypeOKIs
<1> QED  BY <1>2, <1>3, <1>4 DEF RatioIsShare, Reported, AtMostOne

\* Whatever columns are NULL, whatever counters are zero and whatever happens to the
\* tables, every ratio the queries of pg_get_percentage and pg_prepared_xacts_ratio return
\* is a fraction over something other than 0, and no more than 1.
THEOREM RatiosAreShares == Spec => []RatioIsShare
BY RatiosTyped, ShareInState, PTL

-----------------------------------------------------------------------------
(***************************************************************************)
(* The ratio of all lies between the ratios of each.                       *)
(***************************************************************************)
\* Of two fractions, by their products.
LEMMA ZeroIsLeast ==
    ASSUME NEW p \in Columns, NEW r \in Columns
    PROVE  AtMost(Zero, Ratio(p, r))
<1>1. Ratio(p, r) \in Fractions
  BY RatioShare
<1>2. \A n \in Nat : 0 * n <= n * 1 /\ n * 1 = n
  OBVIOUS
<1> QED  BY <1>1, <1>2 DEF Zero, AtMost, Fractions

LEMMA AtMostOneIs ==
    ASSUME NEW p \in Columns, NEW r \in Columns
    PROVE  AtMost(Ratio(p, r), One)
BY RatioShare DEF AtMostOne

\* A ratio with something in it against another, by their columns: p/(p+r) <= P/(P+R) when
\* p R <= P r.
LEMMA RatioByColumns ==
    ASSUME NEW p \in Nat, NEW r \in Nat, NEW P \in Nat, NEW R \in Nat,
           p + r # 0, P + R # 0,  R * p <= P * r
    PROVE  AtMost(Ratio(p, r), Ratio(P, R))
<1>1. Ratio(p, r) = [num |-> p, den |-> p + r] /\ Ratio(P, R) = [num |-> P, den |-> P + R]
  BY RatioNumber
<1>2. p * (P + R) = p * P + R * p /\ P * (p + r) = p * P + P * r
  OBVIOUS
<1>3. p * P \in Nat /\ R * p \in Nat /\ P * r \in Nat
  OBVIOUS
<1>4. p * (P + R) <= P * (p + r)
  BY <1>2, <1>3
<1> QED  BY <1>1, <1>4 DEF AtMost

\* Columns with numbers in both sums.
Summed(p, r, E) ==
    /\ Shown(p, r, E) /\ Given(p, E) # {}
    /\ Given(p, E) \subseteq Given(r, E)
    /\ SumOf(p, E) = Total(p, Given(p, E)) /\ SumOf(p, E) \in Nat
    /\ SumOf(r, E) = Total(r, Given(r, E)) /\ SumOf(r, E) \in Nat
    /\ IsFiniteSet(Given(p, E)) /\ Numbers(p, Given(p, E)) /\ Numbers(r, Given(p, E))
    /\ IsFiniteSet(Given(r, E)) /\ Numbers(r, Given(r, E))

LEMMA ShownSummed ==
    ASSUME NEW p, NEW r, NEW E, Shown(p, r, E), Given(p, E) # {}
    PROVE  Summed(p, r, E)
<1>1. Given(p, E) \subseteq Given(r, E)
  BY DEF Shown, Given
<1>2. IsFiniteSet(Given(p, E)) /\ Numbers(p, Given(p, E)) /\ Total(p, Given(p, E)) \in Nat
  BY GivenNumbers DEF Shown
<1>3. IsFiniteSet(Given(r, E)) /\ Numbers(r, Given(r, E)) /\ Total(r, Given(r, E)) \in Nat
  BY GivenNumbers DEF Shown
<1>4. Numbers(r, Given(p, E))
  BY <1>1, <1>3 DEF Numbers
<1>5. SumOf(p, E) = Total(p, Given(p, E)) /\ SumOf(r, E) = Total(r, Given(r, E))
  BY <1>1 DEF SumOf
<1> QED  BY <1>1, <1>2, <1>3, <1>4, <1>5 DEF Summed

\* Where nothing was counted there is no number to sum.
LEMMA NoneGiven ==
    ASSUME NEW p, NEW r, NEW E, Shown(p, r, E), Given(p, E) = {}
    PROVE  /\ RatioAll(p, r, E) = Zero
           /\ \A a \in E : Ratio(p[a], r[a]) = Zero
<1>1. SumOf(p, E) = NULL /\ SumOf(p, E) \in Columns /\ SumOf(r, E) \in Columns
  BY SumColumn DEF Shown, SumOf
<1>2. RatioAll(p, r, E) = Zero
  BY <1>1, RatioNull DEF RatioAll
<1>3. ASSUME NEW a \in E PROVE Ratio(p[a], r[a]) = Zero
  <2>1. p[a] = NULL /\ p[a] \in Columns /\ r[a] \in Columns
    BY DEF Given, Shown
  <2> QED  BY <2>1, RatioNull
<1> QED  BY <1>2, <1>3

LEMMA LowestBelow ==
    ASSUME NEW p, NEW r, NEW E, Summed(p, r, E), SumOf(p, E) + SumOf(r, E) # 0
    PROVE  \E a \in E : AtMost(Ratio(p[a], r[a]), RatioAll(p, r, E))
<1> DEFINE G == Given(p, E)
           P == SumOf(p, E)
           R == SumOf(r, E)
<1>1. P \in Nat /\ R \in Nat /\ P \in Columns /\ R \in Columns /\ P + R # 0
  BY DEF Summed, Columns
<1>2. ASSUME \A a \in E : ~AtMost(Ratio(p[a], r[a]), Ratio(P, R)) PROVE FALSE
  <2>1. ASSUME NEW a \in E PROVE a \in G
    <3>1. CASE p[a] = NULL
      <4>1. Ratio(p[a], r[a]) = Zero
        BY <2>1, <3>1, RatioNull DEF Summed, Shown
      <4>2. AtMost(Zero, Ratio(P, R))
        BY <1>1, ZeroIsLeast
      <4> HIDE DEF P, R
      <4> QED  BY <1>2, <2>1, <4>1, <4>2
    <3> QED  BY <2>1, <3>1 DEF Given
  <2>2. G = E /\ Given(r, E) = E
    BY <2>1 DEF Given, Summed
  <2>3. IsFiniteSet(E) /\ Numbers(p, E) /\ Numbers(r, E) /\ P = Total(p, E) /\ R = Total(r, E)
    BY <2>2 DEF Summed
  <2> HIDE DEF P, R, G
  <2>4. ASSUME NEW a \in E
        PROVE  /\ P * r[a] <= R * p[a]
               /\ p[a] + r[a] # 0 => P * r[a] < R * p[a]
    <3>1. p[a] \in Nat /\ r[a] \in Nat
      BY <2>3, <2>4 DEF Numbers
    <3>2. CASE p[a] + r[a] = 0
      <4>1. p[a] = 0 /\ r[a] = 0 /\ P * 0 = 0 /\ R * 0 = 0
        BY <1>1, <3>1, <3>2
      <4> QED  BY <3>2, <4>1
    <3>3. CASE p[a] + r[a] # 0
      <4>1. ~(R * p[a] <= P * r[a])
        BY <1>1, <1>2, <2>4, <3>1, <3>3, RatioByColumns
      <4>2. R * p[a] \in Nat /\ P * r[a] \in Nat
        BY <1>1, <3>1
      <4> QED  BY <4>1, <4>2
    <3> QED  BY <3>2, <3>3
  <2>5. \E x \in E : p[x] + r[x] # 0
    <3>1. ASSUME \A x \in E : p[x] + r[x] = 0 PROVE FALSE
      <4>1. ASSUME NEW x \in E PROVE p[x] = 0 /\ r[x] = 0
        BY <2>3, <3>1, <4>1 DEF Numbers
      <4>2. /\ \A x \in E : 1 * p[x] <= 0 * r[x]
            /\ \A x \in E : 1 * r[x] <= 0 * p[x]
        BY <4>1
      <4>3. 1 * P <= 0 * R
        BY <2>3, <4>2, TotalWeighted
      <4>4. 1 * R <= 0 * P
        BY <2>3, <4>2, TotalWeighted
      <4> QED  BY <1>1, <4>3, <4>4
    <3> QED  BY <3>1
  <2>6. PICK x \in E : P * r[x] < R * p[x]
    BY <2>4, <2>5
  <2>7. P * R < R * P
    BY <1>1, <2>3, <2>4, <2>6, TotalWeightedMore
  <2> QED  BY <1>1, <2>7
<1> QED  BY <1>2 DEF RatioAll

LEMMA HighestAbove ==
    ASSUME NEW p, NEW r, NEW E, Summed(p, r, E), SumOf(p, E) + SumOf(r, E) # 0
    PROVE  \E a \in E : AtMost(RatioAll(p, r, E), Ratio(p[a], r[a]))
<1> DEFINE G == Given(p, E)
           P == SumOf(p, E)
           R == SumOf(r, E)
           Q == Total(r, G)
<1>1. P \in Nat /\ R \in Nat /\ P \in Columns /\ R \in Columns /\ P + R # 0
  BY DEF Summed, Columns
<1>2. /\ IsFiniteSet(G) /\ Numbers(p, G) /\ Numbers(r, G) /\ G # {} /\ G \subseteq E
      /\ P = Total(p, G)
  BY DEF Summed, Given
<1>3. Q \in Nat /\ Q <= R
  <2>1. Q <= R
    BY TotalOfFewer DEF Summed
  <2>2. Q \in Nat
    BY <1>2, TotalStep
  <2> QED  BY <2>1, <2>2
<1>4. ASSUME \A a \in E : ~AtMost(Ratio(P, R), Ratio(p[a], r[a])) PROVE FALSE
  <2> HIDE DEF P, R, G
  <2>1. ASSUME NEW a \in G PROVE R * p[a] < P * r[a]
    <3>1. p[a] \in Nat /\ r[a] \in Nat /\ a \in E
      BY <1>2, <2>1 DEF Numbers
    <3>2. CASE p[a] + r[a] = 0
      <4>1. Ratio(p[a], r[a]) = One
        BY <3>1, <3>2, RatioNumber
      <4>2. AtMost(Ratio(P, R), One)
        BY <1>1, AtMostOneIs
      <4> QED  BY <1>4, <3>1, <4>1, <4>2
    <3>3. CASE p[a] + r[a] # 0
      <4>1. ~(r[a] * P <= p[a] * R)
        BY <1>1, <1>4, <3>1, <3>3, RatioByColumns
      <4>2. r[a] * P = P * r[a] /\ p[a] * R = R * p[a] /\ P * r[a] \in Nat /\ R * p[a] \in Nat
        BY <1>1, <3>1
      <4> QED  BY <4>1, <4>2
    <3> QED  BY <3>2, <3>3
  <2>2. PICK x \in G : R * p[x] < P * r[x]
    BY <1>2, <2>1
  <2>3. \A a \in G : R * p[a] <= P * r[a]
    <3>1. ASSUME NEW a \in G PROVE R * p[a] <= P * r[a]
      <4>1. R * p[a] \in Nat /\ P * r[a] \in Nat
        BY <1>1, <1>2 DEF Numbers
      <4> QED  BY <2>1, <4>1
    <3> QED  BY <3>1
  <2>4. R * P < P * Q
    BY <1>1, <1>2, <2>2, <2>3, TotalWeightedMore
  <2>5. P * Q <= P * R
    BY <1>1, <1>3
  <2>6. P * R = R * P /\ P * R \in Nat /\ P * Q \in Nat
    BY <1>1, <1>3
  <2> QED  BY <2>4, <2>5, <2>6
<1> QED  BY <1>4 DEF RatioAll

LEMMA BetweenInState == TypeOK => TotalBetween
<1> SUFFICES ASSUME TypeOK, Existing # {}
             PROVE  /\ \E a \in Existing : AtMost(RatioOf(a), RatioOfAll)
                    /\ \E a \in Existing : AtMost(RatioOfAll, RatioOf(a))
  BY DEF TotalBetween
<1> DEFINE All == RatioAll(part, rest, Existing)
<1>1. Shown(part, rest, Existing)
  BY TypeOKShown
<1>2. PICK x \in Existing : TRUE
  OBVIOUS
<1>3. SUFFICES /\ \E a \in Existing : AtMost(Ratio(part[a], rest[a]), All)
               /\ \E a \in Existing : AtMost(All, Ratio(part[a], rest[a]))
  BY RatioOfIs, RatioOfAllIs
<1>4. CASE Given(part, Existing) = {}
  <2>1. All = Zero /\ Ratio(part[x], rest[x]) = Zero
    BY <1>1, <1>4, NoneGiven
  <2>2. AtMost(Zero, Zero)
    BY DEF AtMost, Zero
  <2> HIDE DEF All
  <2> QED  BY <2>1, <2>2
<1>5. CASE Given(part, Existing) # {}
  <2>1. Summed(part, rest, Existing)
    BY <1>1, <1>5, ShownSummed
  <2>2. CASE SumOf(part, Existing) + SumOf(rest, Existing) # 0
    BY <2>1, <2>2, LowestBelow, HighestAbove
  <2>3. CASE SumOf(part, Existing) + SumOf(rest, Existing) = 0
    <3>1. All = One /\ SumOf(part, Existing) = 0 /\ SumOf(rest, Existing) = 0
      BY <2>1, <2>3, RatioNumber DEF RatioAll, Summed
    <3>2. PICK a : a \in Given(part, Existing)
      BY <1>5
    <3>3. part[a] <= 0 /\ rest[a] <= 0
      BY <2>1, <3>1, <3>2, TotalAtLeast DEF Summed
    <3>4. part[a] \in Nat /\ rest[a] \in Nat /\ a \in Existing
      BY <2>1, <3>2 DEF Summed, Numbers, Given
    <3>5. part[a] + rest[a] = 0
      BY <3>3, <3>4
    <3>6. Ratio(part[a], rest[a]) = One
      BY <3>4, <3>5, RatioNumber
    <3>7. AtMost(One, One)
      BY DEF AtMost, One
    <3> HIDE DEF All
    <3> QED  BY <3>1, <3>4, <3>6, <3>7
  <2> QED  BY <2>2, <2>3
<1> QED  BY <1>4, <1>5

\* The sums leave NULLs out as the rows do: the ratio of all tables, indexes or databases
\* is never lower than the lowest of their own ratios nor higher than the highest, idle
\* ones and those without index or TOAST included.
THEOREM AllIsBetween == Spec => []TotalBetween
BY RatiosTyped, BetweenInState, PTL

-----------------------------------------------------------------------------
(***************************************************************************)
(* A hit or a miss moves the ratios the right way.                         *)
(***************************************************************************)
LEMMA RatioUp ==
    ASSUME NEW p \in Nat, NEW r \in Nat
    PROVE  AtMost(Ratio(p, r), Ratio(p + 1, r))
<1>1. CASE p + r = 0
  <2>1. p = 0 /\ r = 0
    BY <1>1
  <2>2. Ratio(p, r) = One /\ Ratio(p + 1, r) = [num |-> 1, den |-> 1]
    BY <1>1, <2>1, RatioNumber
  <2> QED  BY <2>2 DEF AtMost, One
<1>2. CASE p + r # 0
  <2>1. p + 1 \in Nat /\ (p + 1) + r # 0
    OBVIOUS
  <2>2. r * p <= (p + 1) * r
    <3>1. r * p \in Nat /\ (p + 1) * r = r * p + r
      OBVIOUS
    <3> QED  BY <3>1
  <2> QED  BY <1>2, <2>1, <2>2, RatioByColumns
<1> QED  BY <1>1, <1>2

LEMMA RatioDown ==
    ASSUME NEW p \in Columns, NEW r \in Nat
    PROVE  AtMost(Ratio(p, r + 1), Ratio(p, r))
<1>0. r \in Columns /\ r + 1 \in Columns
  BY DEF Columns
<1>1. CASE p = NULL
  BY <1>0, <1>1, RatioNull, ZeroIsLeast
<1>2. CASE p \in Nat /\ p + r = 0
  <2>1. Ratio(p, r) = One
    BY <1>2, RatioNumber
  <2> QED  BY <1>0, <2>1, AtMostOneIs
<1>3. CASE p \in Nat /\ p + r # 0
  <2>1. r + 1 \in Nat /\ p + (r + 1) # 0
    BY <1>3
  <2>2. r * p <= p * (r + 1)
    <3>1. r * p \in Nat /\ p * (r + 1) = r * p + p
      BY <1>3
    <3> QED  BY <1>3, <3>1
  <2> QED  BY <1>3, <2>1, <2>2, RatioByColumns
<1> QED  BY <1>1, <1>2, <1>3 DEF Columns

\* One column of one asset is one higher.
Raised(c, d, E, a) ==
    /\ a \in E /\ c[a] # NULL /\ d[a] = c[a] + 1
    /\ \A b \in E \ {a} : d[b] = c[b]

LEMMA SumRaised ==
    ASSUME NEW c, NEW d, NEW E, IsFiniteSet(E), \A b \in E : c[b] \in Columns,
           NEW a, Raised(c, d, E, a)
    PROVE  SumOf(c, E) \in Nat /\ SumOf(d, E) = SumOf(c, E) + 1
<1>1. /\ IsFiniteSet(Given(c, E)) /\ Numbers(c, Given(c, E)) /\ a \in Given(c, E)
      /\ Total(c, Given(c, E)) \in Nat
  BY GivenNumbers DEF Raised, Given
<1>2. c[a] \in Nat /\ d[a] # NULL
  BY <1>1, NullIs DEF Raised, Numbers
<1>3. Given(d, E) = Given(c, E)
  BY <1>1, <1>2 DEF Given, Raised
<1>4. \A b \in Given(c, E) \ {a} : d[b] = c[b]
  BY DEF Raised, Given
<1>5. Total(d, Given(c, E)) = Total(c, Given(c, E)) + 1
  BY <1>1, <1>4, TotalRaised DEF Raised
<1> QED  BY <1>1, <1>3, <1>5 DEF SumOf

LEMMA HitRaises ==
    ASSUME TypeOK, NEW a \in Existing, Hit(a)
    PROVE  /\ AtMost(Ratio(part[a], rest[a]), Ratio(part'[a], rest'[a]))
           /\ AtMost(RatioAll(part, rest, Existing), RatioAll(part', rest', Existing))
<1>1. Shown(part, rest, Existing)
  BY TypeOKShown
<1>2. rest' = rest /\ part[a] # NULL /\ part' = [part EXCEPT ![a] = part[a] + 1]
  BY DEF Hit
<1>3. Raised(part, part', Existing, a)
  BY <1>2 DEF Raised, Existing
<1>4. part[a] \in Nat /\ rest[a] \in Nat /\ part'[a] = part[a] + 1
  BY <1>1, <1>2, <1>3 DEF Shown, Columns, Raised
<1>5. AtMost(Ratio(part[a], rest[a]), Ratio(part'[a], rest'[a]))
  BY <1>2, <1>4, RatioUp
<1>6. SumOf(part, Existing) \in Nat /\ SumOf(part', Existing) = SumOf(part, Existing) + 1
  BY <1>1, <1>3, SumRaised DEF Shown
<1>7. SumOf(rest, Existing) \in Nat
  <2>1. Given(part, Existing) # {}
    BY <1>2 DEF Given
  <2> QED  BY <1>1, <2>1, ShownSummed DEF Summed
<1> QED  BY <1>2, <1>5, <1>6, <1>7, RatioUp DEF RatioAll

LEMMA MissLowers ==
    ASSUME TypeOK, NEW a \in Existing, Miss(a)
    PROVE  /\ AtMost(Ratio(part'[a], rest'[a]), Ratio(part[a], rest[a]))
           /\ AtMost(RatioAll(part', rest', Existing), RatioAll(part, rest, Existing))
<1>1. Shown(part, rest, Existing)
  BY TypeOKShown
<1>2. part' = part /\ rest[a] # NULL /\ rest' = [rest EXCEPT ![a] = rest[a] + 1]
  BY DEF Miss
<1>3. Raised(rest, rest', Existing, a)
  BY <1>2, TypeOKIs DEF Raised, Existing, Tables
<1>4. part[a] \in Columns /\ rest[a] \in Nat /\ rest'[a] = rest[a] + 1
  BY <1>1, <1>2, <1>3 DEF Shown, Columns, Raised
<1>5. AtMost(Ratio(part'[a], rest'[a]), Ratio(part[a], rest[a]))
  BY <1>2, <1>4, RatioDown
<1>6. SumOf(rest, Existing) \in Nat /\ SumOf(rest', Existing) = SumOf(rest, Existing) + 1
  BY <1>1, <1>3, SumRaised DEF Shown
<1>7. SumOf(part, Existing) \in Columns
  BY <1>1, SumColumn DEF Shown
<1> QED  BY <1>2, <1>5, <1>6, <1>7, RatioDown DEF RatioAll

RightWay(a) ==
    /\ Hit(a) => AtMost(RatioOf(a), RatioOf(a)') /\ AtMost(RatioOfAll, RatioOfAll')
    /\ Miss(a) => AtMost(RatioOf(a)', RatioOf(a)) /\ AtMost(RatioOfAll', RatioOfAll)

LEMMA PrimedRatios ==
    /\ \A a : RatioOf(a)' = Ratio(part'[a], rest'[a])
    /\ RatioOfAll' = RatioAll(part', rest', DOMAIN part')
<1>1. \A a : RatioOf(a)' = Ratio(part'[a], rest'[a])
  BY DEF RatioOf, Ratio, PartColumn, Whole
<1>2. (RatioOfAll = RatioAll(part, rest, Existing))'
  BY RatioOfAllIs, PTL
<1>3. RatioOfAll' = RatioAll(part', rest', DOMAIN part')
  BY <1>2 DEF Existing
<1> QED  BY <1>1, <1>3

LEMMA StepRightWay == TypeOK /\ [Next]_vars => [\A a \in Existing : RightWay(a)]_vars
<1> SUFFICES ASSUME TypeOK, NEW a \in Existing PROVE RightWay(a)
  OBVIOUS
<1>1. ASSUME Hit(a) \/ Miss(a) PROVE DOMAIN part' = Existing
  BY <1>1 DEF Hit, Miss, Existing
<1>2. ASSUME Hit(a)
      PROVE  AtMost(RatioOf(a), RatioOf(a)') /\ AtMost(RatioOfAll, RatioOfAll')
  BY <1>1, <1>2, HitRaises, RatioOfIs, RatioOfAllIs, PrimedRatios
<1>3. ASSUME Miss(a)
      PROVE  AtMost(RatioOf(a)', RatioOf(a)) /\ AtMost(RatioOfAll', RatioOfAll)
  BY <1>1, <1>3, MissLowers, RatioOfIs, RatioOfAllIs, PrimedRatios
<1> QED  BY <1>2, <1>3 DEF RightWay

\* A block hit or an index scan never lowers a ratio that counts it, a block read or a
\* sequential scan never raises one: not that of the asset, nor that of all of them.
THEOREM HitsRaise == Spec => HitsRaiseMissesLower
BY RatiosTyped, StepRightWay, PTL DEF Spec, HitsRaiseMissesLower, RightWay

=============================================================================
