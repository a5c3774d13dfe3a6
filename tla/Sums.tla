-------------------------------- MODULE Sums --------------------------------
(***************************************************************************)
(* What the sum of a function over a finite set is, whatever order its     *)
(* members are taken in.  MapThenSumSet takes them by CHOOSE, from a       *)
(* function defined by recursion over the subsets: the lemmas are proved   *)
(* from a least counterexample, which needs no scheme of induction.        *)
(***************************************************************************)
EXTENDS FiniteSetsExt, FiniteSetTheorems, TLAPS

Sum(f, S) == MapThenSumSet(LAMBDA x : f[x], S)

\* The member the fold takes first, and what the fold computes on the subsets.
First(s) == CHOOSE x \in s : TRUE
Folded(g, f, S) ==
    g = [s \in SUBSET S |-> IF s = {} THEN 0 ELSE f[First(s)] + g[s \ {First(s)}]]

\* A non-empty set of subsets of a finite set has a member that no other one
\* of them lies within.
LEMMA LeastSubset ==
    ASSUME NEW S, IsFiniteSet(S), NEW T, T \subseteq SUBSET S, T # {}
    PROVE  \E s \in T : \A t \in T : t \subseteq s => t = s
<1>1. IsWellFoundedOn(StrictSubsetOrdering(S), FiniteSubsetsOf(S))
  BY FS_StrictSubsetOrderingWellFounded
<1>2. T \subseteq FiniteSubsetsOf(S)
  BY FS_FiniteSubsetsOfFinite
<1>3. \E s \in T : \A t \in T : ~(<<t, s>> \in StrictSubsetOrdering(S))
  BY <1>1, <1>2, WFMin
<1> QED
  BY <1>3 DEF StrictSubsetOrdering

LEMMA SumIsFolded ==
    ASSUME NEW f, NEW S
    PROVE  Sum(f, S) = (CHOOSE g : Folded(g, f, S))[S]
BY DEF Sum, MapThenSumSet, MapThenFoldSet, Folded, First

LEMMA FoldedAgree ==
    ASSUME NEW f, NEW S, IsFiniteSet(S), NEW R, R \subseteq S,
           NEW g, Folded(g, f, S), NEW h, Folded(h, f, R)
    PROVE  \A s \in SUBSET R : g[s] = h[s]
<1> DEFINE Wrong == {s \in SUBSET R : g[s] # h[s]}
<1>1. SUFFICES ASSUME Wrong # {} PROVE FALSE
  OBVIOUS
<1>2. IsFiniteSet(R)
  BY FS_Subset
<1>3. PICK s \in Wrong : \A t \in Wrong : t \subseteq s => t = s
  <2>1. Wrong \subseteq SUBSET R
    OBVIOUS
  <2> HIDE DEF Wrong
  <2> QED
    BY <1>1, <1>2, <2>1, LeastSubset
<1>4. s \in SUBSET R /\ s \in SUBSET S
  BY <1>3
<1>5. CASE s = {}
  BY <1>3, <1>4, <1>5 DEF Folded
<1>6. CASE s # {}
  <2> DEFINE c == First(s)
  <2>1. c \in s
    BY <1>6 DEF First
  <2>2. s \ {c} \in SUBSET R /\ s \ {c} # s
    BY <1>4, <2>1
  <2>3. g[s \ {c}] = h[s \ {c}]
    BY <1>3, <2>2
  <2>4. g[s] = f[c] + g[s \ {c}] /\ h[s] = f[c] + h[s \ {c}]
    BY <1>4, <1>6 DEF Folded
  <2> QED
    BY <1>3, <2>3, <2>4
<1> QED
  BY <1>5, <1>6

LEMMA FoldedExists ==
    ASSUME NEW f, NEW S, IsFiniteSet(S)
    PROVE  \E g : Folded(g, f, S)
<1> DEFINE Wrong == {s \in SUBSET S : ~\E g : Folded(g, f, s)}
<1>1. SUFFICES ASSUME Wrong # {} PROVE FALSE
  OBVIOUS
<1>2. PICK s \in Wrong : \A t \in Wrong : t \subseteq s => t = s
  <2>1. Wrong \subseteq SUBSET S
    OBVIOUS
  <2> HIDE DEF Wrong
  <2> QED
    BY <1>1, <2>1, LeastSubset
<1> DEFINE Value(t) == (CHOOSE g : Folded(g, f, t))[t]
           Rest(t) == t \ {First(t)}
           G == [t \in SUBSET s |-> IF t = {} THEN 0 ELSE f[First(t)] + Value(Rest(t))]
<1>3. s \in SUBSET S /\ IsFiniteSet(s)
  BY <1>2, FS_Subset
<1>4. ASSUME NEW t \in SUBSET s, t # {}
      PROVE  Rest(t) \in SUBSET s /\ Rest(t) # s /\ Rest(t) \subseteq t
  <2>1. First(t) \in t
    BY <1>4 DEF First
  <2> QED
    BY <2>1
<1>5. ASSUME NEW t \in SUBSET s, t # s
      PROVE  Folded(CHOOSE g : Folded(g, f, t), f, t)
  <2>1. \E g : Folded(g, f, t)
    BY <1>2, <1>3, <1>5
  <2> QED
    BY <2>1
<1>6. ASSUME NEW t \in SUBSET s, t # s
      PROVE  G[t] = Value(t)
  <2> DEFINE h == CHOOSE g : Folded(g, f, t)
  <2>1. Folded(h, f, t) /\ IsFiniteSet(t)
    BY <1>3, <1>5, <1>6, FS_Subset
  <2>2. CASE t = {}
    BY <2>1, <2>2 DEF Folded
  <2>3. CASE t # {}
    <3> DEFINE k == CHOOSE g : Folded(g, f, Rest(t))
    <3>1. Rest(t) \in SUBSET s /\ Rest(t) # s /\ Rest(t) \subseteq t
      BY <1>4, <2>3
    <3>2. Folded(k, f, Rest(t))
      BY <1>5, <3>1
    <3> HIDE DEF h, k, Rest
    <3>3. h[Rest(t)] = k[Rest(t)]
      BY <2>1, <3>1, <3>2, FoldedAgree
    <3>4. h[t] = f[First(t)] + h[Rest(t)]
      BY <2>1, <2>3 DEF Folded, Rest
    <3>5. G[t] = f[First(t)] + k[Rest(t)]
      BY <2>3 DEF k
    <3> QED
      BY <3>3, <3>4, <3>5 DEF h
  <2> QED
    BY <2>2, <2>3
<1>7. ASSUME NEW t \in SUBSET s, t # {}
      PROVE  G[t] = f[First(t)] + G[Rest(t)]
  BY <1>4, <1>6, <1>7
<1> HIDE DEF Value, Rest
<1>8. Folded(G, f, s)
  <2>1. \A t \in SUBSET s : G[t] = IF t = {} THEN 0 ELSE f[First(t)] + G[t \ {First(t)}]
    BY <1>7 DEF Rest
  <2> HIDE DEF G
  <2>2. G = [t \in SUBSET s |-> G[t]]
    BY DEF G
  <2> QED
    BY <2>1, <2>2 DEF Folded
<1> QED
  BY <1>2, <1>8

\* Agreement on the smaller set itself.
LEMMA FoldedAgreeOn ==
    ASSUME NEW f, NEW S, IsFiniteSet(S), NEW R, R \subseteq S,
           NEW g, Folded(g, f, S), NEW h, Folded(h, f, R)
    PROVE  g[R] = h[R]
<1>1. \A s \in SUBSET R : g[s] = h[s]
  BY FoldedAgree
<1> QED
  BY <1>1

\* The sum of nothing, and the sum of the others and the one taken first.
LEMMA SumStep ==
    ASSUME NEW f, NEW S, IsFiniteSet(S)
    PROVE  /\ S = {} => Sum(f, S) = 0
           /\ S # {} => /\ First(S) \in S
                        /\ Sum(f, S) = f[First(S)] + Sum(f, S \ {First(S)})
<1> DEFINE R == S \ {First(S)}
           g == CHOOSE x : Folded(x, f, S)
           h == CHOOSE x : Folded(x, f, R)
<1>1. IsFiniteSet(R) /\ R \subseteq S
  BY FS_Subset
<1>2. Folded(g, f, S) /\ Folded(h, f, R)
  BY <1>1, FoldedExists
<1>3. Sum(f, S) = g[S] /\ Sum(f, R) = h[R]
  BY SumIsFolded
<1>4. S # {} => First(S) \in S
  BY DEF First
<1> HIDE DEF g, h
<1>5. g[R] = h[R]
  <2> HIDE DEF R
  <2> QED
    BY <1>1, <1>2, FoldedAgreeOn
<1>6. S = {} => g[S] = 0
  BY <1>2 DEF Folded
<1>7. S # {} => g[S] = f[First(S)] + g[R]
  BY <1>2 DEF Folded
<1> QED
  BY <1>3, <1>4, <1>5, <1>6, <1>7

-----------------------------------------------------------------------------
\* Sums of integers are integers, of amounts amounts.
LEMMA SumType ==
    ASSUME NEW S, IsFiniteSet(S), NEW f, \A x \in S : f[x] \in Int
    PROVE  /\ Sum(f, S) \in Int
           /\ (\A x \in S : f[x] >= 0) => Sum(f, S) >= 0
<1> DEFINE Right(s) == Sum(f, s) \in Int /\ ((\A x \in s : f[x] >= 0) => Sum(f, s) >= 0)
           Wrong == {s \in SUBSET S : ~Right(s)}
<1>1. SUFFICES ASSUME Wrong # {} PROVE FALSE
  OBVIOUS
<1>2. PICK s \in Wrong : \A t \in Wrong : t \subseteq s => t = s
  <2>1. Wrong \subseteq SUBSET S
    OBVIOUS
  <2> HIDE DEF Wrong
  <2> QED
    BY <1>1, <2>1, LeastSubset
<1>3. IsFiniteSet(s) /\ s \subseteq S
  BY <1>2, FS_Subset
<1>4. s # {}
  <2>1. s = {} => Sum(f, s) = 0
    BY <1>3, SumStep
  <2> QED
    BY <1>2, <2>1
<1> DEFINE c == First(s)
<1>5. c \in s /\ Sum(f, s) = f[c] + Sum(f, s \ {c})
  BY <1>3, <1>4, SumStep
<1>6. Right(s \ {c})
  BY <1>2, <1>3, <1>5
<1>7. f[c] \in Int
  BY <1>3, <1>5
<1> HIDE DEF c
<1>8. Right(s)
  BY <1>5, <1>6, <1>7
<1> QED
  BY <1>2, <1>8

\* Any member may be taken first.
LEMMA SumTake ==
    ASSUME NEW S, IsFiniteSet(S), NEW f, \A x \in S : f[x] \in Int, NEW y \in S
    PROVE  Sum(f, S) = f[y] + Sum(f, S \ {y})
<1> DEFINE Wrong == {s \in SUBSET S : \E x \in s : Sum(f, s) # f[x] + Sum(f, s \ {x})}
<1>1. SUFFICES ASSUME Wrong # {} PROVE FALSE
  OBVIOUS
<1>2. PICK s \in Wrong : \A t \in Wrong : t \subseteq s => t = s
  <2>1. Wrong \subseteq SUBSET S
    OBVIOUS
  <2> HIDE DEF Wrong
  <2> QED
    BY <1>1, <2>1, LeastSubset
<1>3. IsFiniteSet(s) /\ s \subseteq S
  BY <1>2, FS_Subset
<1>4. PICK x \in s : Sum(f, s) # f[x] + Sum(f, s \ {x})
  BY <1>2
<1> DEFINE c == First(s)
<1>5. c \in s /\ Sum(f, s) = f[c] + Sum(f, s \ {c})
  BY <1>3, <1>4, SumStep
<1>6. c # x
  BY <1>4, <1>5
<1> DEFINE r == s \ {c, x}
<1>7. s \ {c} \notin Wrong /\ s \ {x} \notin Wrong
  BY <1>2, <1>4, <1>5
<1>8. /\ Sum(f, s \ {c}) = f[x] + Sum(f, (s \ {c}) \ {x})
      /\ Sum(f, s \ {x}) = f[c] + Sum(f, (s \ {x}) \ {c})
  BY <1>3, <1>4, <1>5, <1>6, <1>7
<1>9. (s \ {c}) \ {x} = r /\ (s \ {x}) \ {c} = r
  OBVIOUS
<1>10. f[x] \in Int /\ f[c] \in Int /\ Sum(f, r) \in Int
  <2>1. IsFiniteSet(r) /\ r \subseteq S
    BY <1>3, FS_Subset
  <2> QED
    BY <1>3, <1>5, <2>1, SumType
<1>11. /\ Sum(f, s) = f[c] + (f[x] + Sum(f, r))
       /\ Sum(f, s \ {x}) = f[c] + Sum(f, r)
  BY <1>5, <1>8, <1>9
<1> HIDE DEF c, r, Wrong
<1>12. Sum(f, s) = f[x] + Sum(f, s \ {x})
  BY <1>10, <1>11
<1> QED
  BY <1>4, <1>12

\* A sum depends on the values of the members only, and grows with them.
LEMMA SumCompare ==
    ASSUME NEW S, IsFiniteSet(S), NEW f, NEW g,
           \A x \in S : f[x] \in Int /\ g[x] \in Int /\ f[x] <= g[x]
    PROVE  /\ Sum(f, S) <= Sum(g, S)
           /\ Sum(f, S) = Sum(g, S) <=> \A x \in S : f[x] = g[x]
<1> DEFINE Right(s) == /\ Sum(f, s) <= Sum(g, s)
                       /\ Sum(f, s) = Sum(g, s) <=> \A x \in s : f[x] = g[x]
           Wrong == {s \in SUBSET S : ~Right(s)}
<1>1. SUFFICES ASSUME Wrong # {} PROVE FALSE
  OBVIOUS
<1>2. PICK s \in Wrong : \A t \in Wrong : t \subseteq s => t = s
  <2>1. Wrong \subseteq SUBSET S
    OBVIOUS
  <2> HIDE DEF Wrong
  <2> QED
    BY <1>1, <2>1, LeastSubset
<1>3. IsFiniteSet(s) /\ s \subseteq S
  BY <1>2, FS_Subset
<1>4. s # {}
  <2>1. s = {} => Sum(f, s) = 0 /\ Sum(g, s) = 0
    BY <1>3, SumStep
  <2> QED
    BY <1>2, <2>1
<1>5. PICK c : c \in s
  BY <1>4
<1> DEFINE r == s \ {c}
<1>6. IsFiniteSet(r) /\ r \subseteq S /\ r # s
  BY <1>3, <1>5, FS_Subset
<1>7. Sum(f, s) = f[c] + Sum(f, r) /\ Sum(g, s) = g[c] + Sum(g, r)
  BY <1>3, <1>5, SumTake
<1>8. Right(r)
  BY <1>2, <1>5, <1>6
<1>9. Sum(f, r) \in Int /\ Sum(g, r) \in Int
  BY <1>6, SumType
<1>10. f[c] \in Int /\ g[c] \in Int /\ f[c] <= g[c]
  BY <1>3, <1>5
<1>11. (\A x \in s : f[x] = g[x]) <=> f[c] = g[c] /\ \A x \in r : f[x] = g[x]
  BY <1>5
<1> HIDE DEF r
<1>12. Right(s)
  BY <1>7, <1>8, <1>9, <1>10, <1>11
<1> QED
  BY <1>2, <1>12

LEMMA SumSame ==
    ASSUME NEW S, IsFiniteSet(S), NEW f, NEW g,
           \A x \in S : f[x] \in Int /\ f[x] = g[x]
    PROVE  Sum(f, S) = Sum(g, S)
BY SumCompare, \A x \in S : f[x] <= g[x]

LEMMA SumEqual ==
    ASSUME NEW S, IsFiniteSet(S), NEW f, NEW g,
           \A x \in S : f[x] \in Int /\ g[x] \in Int /\ f[x] <= g[x],
           Sum(f, S) = Sum(g, S)
    PROVE  \A x \in S : f[x] = g[x]
BY SumCompare

\* One value changes.
LEMMA SumChange ==
    ASSUME NEW S, IsFiniteSet(S), NEW f, NEW g, NEW y \in S,
           \A x \in S : f[x] \in Int /\ g[x] \in Int,
           \A x \in S \ {y} : f[x] = g[x]
    PROVE  Sum(g, S) = Sum(f, S) + g[y] - f[y]
<1> DEFINE r == S \ {y}
<1>1. IsFiniteSet(r) /\ r \subseteq S
  BY FS_Subset
<1>2. Sum(f, S) = f[y] + Sum(f, r) /\ Sum(g, S) = g[y] + Sum(g, r)
  BY SumTake
<1>3. Sum(f, r) = Sum(g, r) /\ Sum(f, r) \in Int
  BY <1>1, SumSame, SumType
<1> HIDE DEF r
<1> QED
  BY <1>2, <1>3

\* No part of a sum of amounts is more than the whole.
LEMMA SumPart ==
    ASSUME NEW S, IsFiniteSet(S), NEW f, \A x \in S : f[x] \in Int /\ f[x] >= 0, NEW y \in S
    PROVE  f[y] <= Sum(f, S)
<1> DEFINE r == S \ {y}
<1>1. IsFiniteSet(r) /\ r \subseteq S
  BY FS_Subset
<1>2. Sum(f, S) = f[y] + Sum(f, r)
  BY SumTake
<1>3. Sum(f, r) \in Int /\ Sum(f, r) >= 0
  BY <1>1, SumType
<1> HIDE DEF r
<1> QED
  BY <1>2, <1>3

LEMMA SumOfZeros ==
    ASSUME NEW S, IsFiniteSet(S), NEW f, \A x \in S : f[x] = 0
    PROVE  Sum(f, S) = 0
<1> DEFINE Wrong == {s \in SUBSET S : Sum(f, s) # 0}
<1>1. SUFFICES ASSUME Wrong # {} PROVE FALSE
  OBVIOUS
<1>2. PICK s \in Wrong : \A t \in Wrong : t \subseteq s => t = s
  <2>1. Wrong \subseteq SUBSET S
    OBVIOUS
  <2> HIDE DEF Wrong
  <2> QED
    BY <1>1, <2>1, LeastSubset
<1>3. IsFiniteSet(s) /\ s \subseteq S
  BY <1>2, FS_Subset
<1>4. s # {}
  <2>1. s = {} => Sum(f, s) = 0
    BY <1>3, SumStep
  <2> QED
    BY <1>2, <2>1
<1>5. /\ First(s) \in s
      /\ Sum(f, s) = f[First(s)] + Sum(f, s \ {First(s)})
  BY <1>3, <1>4, SumStep
<1>6. Sum(f, s \ {First(s)}) = 0
  BY <1>2, <1>3, <1>5
<1>7. f[First(s)] = 0
  BY <1>3, <1>5
<1> QED
  BY <1>2, <1>5, <1>6, <1>7

-----------------------------------------------------------------------------
\* Among finitely many there is one with the largest value, and among those the
\* one with the least number.
LEMMA LargestExists ==
    ASSUME NEW S, IsFiniteSet(S), S # {}, NEW f, \A x \in S : f[x] \in Int
    PROVE  \E m \in S : \A x \in S : f[x] <= f[m]
<1> DEFINE Wrong == {s \in SUBSET S : s # {} /\ ~\E m \in s : \A x \in s : f[x] <= f[m]}
<1>1. SUFFICES ASSUME Wrong # {} PROVE FALSE
  OBVIOUS
<1>2. PICK s \in Wrong : \A t \in Wrong : t \subseteq s => t = s
  <2>1. Wrong \subseteq SUBSET S
    OBVIOUS
  <2> HIDE DEF Wrong
  <2> QED
    BY <1>1, <2>1, LeastSubset
<1>3. s \subseteq S /\ s # {} /\ ~\E m \in s : \A x \in s : f[x] <= f[m]
  BY <1>2
<1>4. PICK c : c \in s
  BY <1>3
<1>5. s \ {c} \notin Wrong
  BY <1>2, <1>4
<1>6. s \ {c} # {}
  BY <1>3, <1>4
<1>7. PICK m \in s \ {c} : \A x \in s \ {c} : f[x] <= f[m]
  BY <1>3, <1>5, <1>6
<1>8. f[c] <= f[m] \/ f[m] <= f[c]
  BY <1>3, <1>4, <1>7
<1> QED
  BY <1>3, <1>4, <1>7, <1>8

LEMMA FirstOfLargest ==
    ASSUME NEW S, IsFiniteSet(S), S # {}, S \subseteq Int,
           NEW f, \A x \in S : f[x] \in Int,
           NEW first, first = Min({c \in S : \A d \in S : f[d] <= f[c]})
    PROVE  first \in S /\ \A d \in S : f[d] <= f[first]
<1> DEFINE L == {c \in S : \A d \in S : f[d] <= f[c]}
           g == [x \in L |-> -x]
<1>1. L # {}
  BY LargestExists
<1>2. IsFiniteSet(L) /\ L \subseteq S
  BY FS_Subset
<1>3. \A x \in L : g[x] \in Int
  BY <1>2
<1>4. \E m \in L : \A x \in L : g[x] <= g[m]
  <2> HIDE DEF L, g
  <2> QED
    BY <1>1, <1>2, <1>3, LargestExists
<1>5. \E m \in L : \A x \in L : m <= x
  <2>1. PICK m \in L : \A x \in L : g[x] <= g[m]
    BY <1>4
  <2>2. \A x \in L : x \in Int /\ g[x] = -x
    BY <1>2
  <2> HIDE DEF L, g
  <2>3. \A x \in L : m <= x
    BY <2>1, <2>2
  <2> QED
    BY <2>3
<1>6. Min(L) \in L
  <2> HIDE DEF L
  <2> QED
    BY <1>5 DEF Min
<1>7. first = Min(L)
  OBVIOUS
<1> HIDE DEF g
<1> QED
  BY <1>6, <1>7

\* Where the sum is positive, one of the values is.
LEMMA PositiveExists ==
    ASSUME NEW S, IsFiniteSet(S), NEW f, \A x \in S : f[x] \in Int, Sum(f, S) > 0
    PROVE  \E x \in S : f[x] > 0
<1> SUFFICES ASSUME \A x \in S : f[x] <= 0 PROVE FALSE
  OBVIOUS
<1> DEFINE g == [x \in S |-> 0]
<1>1. \A x \in S : g[x] = 0
  OBVIOUS
<1> HIDE DEF g
<1>2. Sum(g, S) = 0
  BY <1>1, SumOfZeros
<1>3. Sum(f, S) <= Sum(g, S)
  BY <1>1, SumCompare
<1>4. Sum(f, S) \in Int
  BY SumType
<1> QED
  BY <1>2, <1>3, <1>4

\* Sums add up.
LEMMA SumOfSums ==
    ASSUME NEW S, IsFiniteSet(S), NEW f, NEW g, NEW h,
           \A x \in S : f[x] \in Int /\ g[x] \in Int /\ h[x] = f[x] + g[x]
    PROVE  Sum(h, S) = Sum(f, S) + Sum(g, S)
<1> DEFINE Wrong == {s \in SUBSET S : Sum(h, s) # Sum(f, s) + Sum(g, s)}
<1>1. SUFFICES ASSUME Wrong # {} PROVE FALSE
  OBVIOUS
<1>2. PICK s \in Wrong : \A t \in Wrong : t \subseteq s => t = s
  <2>1. Wrong \subseteq SUBSET S
    OBVIOUS
  <2> HIDE DEF Wrong
  <2> QED
    BY <1>1, <2>1, LeastSubset
<1>3. IsFiniteSet(s) /\ s \subseteq S
  BY <1>2, FS_Subset
<1>4. s # {}
  <2>1. s = {} => Sum(h, s) = 0 /\ Sum(f, s) = 0 /\ Sum(g, s) = 0
    BY <1>3, SumStep
  <2> QED
    BY <1>2, <2>1
<1> DEFINE c == First(s)
           r == s \ {c}
<1>5. /\ c \in s /\ Sum(h, s) = h[c] + Sum(h, r)
      /\ Sum(f, s) = f[c] + Sum(f, r) /\ Sum(g, s) = g[c] + Sum(g, r)
  BY <1>3, <1>4, SumStep
<1>6. Sum(h, r) = Sum(f, r) + Sum(g, r)
  BY <1>2, <1>3, <1>5
<1>7. IsFiniteSet(r) /\ r \subseteq S
  BY <1>3, FS_Subset
<1>8. Sum(f, r) \in Int /\ Sum(g, r) \in Int
  BY <1>7, SumType
<1>9. f[c] \in Int /\ g[c] \in Int /\ h[c] = f[c] + g[c]
  BY <1>3, <1>5
<1> HIDE DEF c, r
<1>10. Sum(h, s) = Sum(f, s) + Sum(g, s)
  BY <1>5, <1>6, <1>8, <1>9
<1> QED
  BY <1>2, <1>10

LEMMA SumOfMultiples ==
    ASSUME NEW S, IsFiniteSet(S), NEW f, NEW g, NEW k \in Int,
           \A x \in S : f[x] \in Int /\ g[x] = k * f[x]
    PROVE  Sum(g, S) = k * Sum(f, S)
<1> DEFINE Wrong == {s \in SUBSET S : Sum(g, s) # k * Sum(f, s)}
<1>1. SUFFICES ASSUME Wrong # {} PROVE FALSE
  OBVIOUS
<1>2. PICK s \in Wrong : \A t \in Wrong : t \subseteq s => t = s
  <2>1. Wrong \subseteq SUBSET S
    OBVIOUS
  <2> HIDE DEF Wrong
  <2> QED
    BY <1>1, <2>1, LeastSubset
<1>3. IsFiniteSet(s) /\ s \subseteq S
  BY <1>2, FS_Subset
<1>4. s # {}
  <2>1. s = {} => Sum(g, s) = 0 /\ Sum(f, s) = 0
    BY <1>3, SumStep
  <2> QED
    BY <1>2, <2>1
<1> DEFINE c == First(s)
           r == s \ {c}
<1>5. /\ c \in s /\ Sum(f, s) = f[c] + Sum(f, r) /\ Sum(g, s) = g[c] + Sum(g, r)
  BY <1>3, <1>4, SumStep
<1>6. Sum(g, r) = k * Sum(f, r)
  BY <1>2, <1>3, <1>5
<1>7. IsFiniteSet(r) /\ r \subseteq S
  BY <1>3, FS_Subset
<1>8. Sum(f, r) \in Int
  BY <1>7, SumType
<1>9. f[c] \in Int /\ g[c] = k * f[c]
  BY <1>3, <1>5
<1> HIDE DEF c, r
<1>10. k * (f[c] + Sum(f, r)) = k * f[c] + k * Sum(f, r)
  BY <1>8, <1>9
<1>11. Sum(g, s) = k * Sum(f, s)
  BY <1>5, <1>6, <1>9, <1>10
<1> QED
  BY <1>2, <1>11

\* What is at least a bound at every member: the others leave the rest to one.
LEMMA OneTakesTheRest ==
    ASSUME NEW S, IsFiniteSet(S), NEW f, NEW low \in Int, NEW y \in S,
           \A x \in S : f[x] \in Int /\ f[x] >= low
    PROVE  f[y] <= Sum(f, S) - (Cardinality(S) - 1) * low
<1> DEFINE Right(s) == Sum(f, s) >= Cardinality(s) * low
           Wrong == {s \in SUBSET S : ~Right(s)}
<1>1. Wrong = {}
  <2>1. SUFFICES ASSUME Wrong # {} PROVE FALSE
    OBVIOUS
  <2>2. PICK s \in Wrong : \A t \in Wrong : t \subseteq s => t = s
    <3>1. Wrong \subseteq SUBSET S
      OBVIOUS
    <3> HIDE DEF Wrong
    <3> QED
      BY <2>1, <3>1, LeastSubset
  <2>3. IsFiniteSet(s) /\ s \subseteq S
    BY <2>2, FS_Subset
  <2>4. s # {}
    <3>1. s = {} => Sum(f, s) = 0 /\ Cardinality(s) = 0
      BY <2>3, SumStep, FS_EmptySet
    <3> QED
      BY <2>2, <3>1
  <2> DEFINE c == First(s)
             r == s \ {c}
  <2>5. c \in s /\ Sum(f, s) = f[c] + Sum(f, r)
    BY <2>3, <2>4, SumStep
  <2>6. Sum(f, r) >= Cardinality(r) * low
    BY <2>2, <2>3, <2>5
  <2>7. IsFiniteSet(r) /\ r \subseteq S /\ Cardinality(s) = Cardinality(r) + 1
    <3>1. Cardinality(s) \in Nat
      BY <2>3, FS_CardinalityType
    <3>2. IsFiniteSet(r) /\ Cardinality(r) = Cardinality(s) - 1
      BY <2>3, <2>5, FS_RemoveElement
    <3> QED
      BY <2>3, <3>1, <3>2
  <2>8. Sum(f, r) \in Int /\ Cardinality(r) \in Nat
    BY <2>7, SumType, FS_CardinalityType
  <2>9. f[c] \in Int /\ f[c] >= low
    BY <2>3, <2>5
  <2> HIDE DEF c, r
  <2>10. Cardinality(s) * low = Cardinality(r) * low + low
    BY <2>7, <2>8
  <2>11. Cardinality(r) * low \in Int
    BY <2>8
  <2>12. Sum(f, s) >= Cardinality(s) * low
    BY <2>5, <2>6, <2>8, <2>9, <2>10, <2>11
  <2> QED
    BY <2>2, <2>12
<1> DEFINE r == S \ {y}
<1>2. Sum(f, S) = f[y] + Sum(f, r)
  BY SumTake
<1>3. Sum(f, r) >= Cardinality(r) * low
  BY <1>1
<1>4. Cardinality(r) = Cardinality(S) - 1 /\ Cardinality(S) \in Nat
  BY FS_RemoveElement, FS_CardinalityType
<1>5. IsFiniteSet(r) /\ r \subseteq S
  BY FS_Subset
<1>6. Sum(f, r) \in Int
  BY <1>5, SumType
<1>7. (Cardinality(S) - 1) * low \in Int
  BY <1>4
<1> HIDE DEF r
<1> QED
  BY <1>2, <1>3, <1>4, <1>6, <1>7

\* A sum of two parts.
LEMMA SumSplit ==
    ASSUME NEW S, IsFiniteSet(S), NEW f, \A x \in S : f[x] \in Int, NEW R, R \subseteq S
    PROVE  Sum(f, S) = Sum(f, R) + Sum(f, S \ R)
<1> DEFINE Wrong == {s \in SUBSET S : Sum(f, S) # Sum(f, s) + Sum(f, S \ s)}
<1>1. SUFFICES ASSUME Wrong # {} PROVE FALSE
  OBVIOUS
<1>2. PICK s \in Wrong : \A t \in Wrong : t \subseteq s => t = s
  <2>1. Wrong \subseteq SUBSET S
    OBVIOUS
  <2> HIDE DEF Wrong
  <2> QED
    BY <1>1, <2>1, LeastSubset
<1>3. s \subseteq S /\ IsFiniteSet(s) /\ Sum(f, S) # Sum(f, s) + Sum(f, S \ s)
  BY <1>2, FS_Subset
<1>4. s # {}
  <2>1. SUFFICES ASSUME s = {} PROVE FALSE
    OBVIOUS
  <2>2. Sum(f, s) = 0
    BY <1>3, <2>1, SumStep
  <2>3. Sum(f, S) \in Int
    BY SumType
  <2>4. S \ s = S
    BY <2>1
  <2>5. Sum(f, S \ s) = Sum(f, S)
    BY <2>4, Zenon
  <2> QED
    BY <1>3, <2>2, <2>3, <2>5
<1>5. PICK y : y \in s
  BY <1>4
<1> DEFINE r == s \ {y}
           rest == S \ r
<1>6. Sum(f, S) = Sum(f, r) + Sum(f, rest)
  <2>1. r \notin Wrong
    BY <1>2, <1>5
  <2> QED
    BY <1>3, <2>1
<1>7. /\ IsFiniteSet(rest) /\ IsFiniteSet(r) /\ y \in rest /\ rest \ {y} = S \ s
      /\ \A x \in rest : f[x] \in Int
      /\ \A x \in r : f[x] \in Int
      /\ \A x \in s : f[x] \in Int
  BY <1>3, <1>5, FS_Subset
<1> HIDE DEF rest
<1>8. Sum(f, rest) = f[y] + Sum(f, rest \ {y})
  BY <1>7, SumTake
<1>9. Sum(f, s) = f[y] + Sum(f, r)
  BY <1>3, <1>5, <1>7, SumTake
<1>10. Sum(f, rest \ {y}) \in Int
  <2>1. IsFiniteSet(rest \ {y}) /\ \A x \in rest \ {y} : f[x] \in Int
    BY <1>7, FS_Subset
  <2> HIDE DEF r
  <2> QED
    BY <2>1, SumType
<1>11. Sum(f, r) \in Int
  <2> HIDE DEF r
  <2> QED
    BY <1>7, SumType
<1>12. f[y] \in Int
  BY <1>3, <1>5
<1>13. Sum(f, rest \ {y}) = Sum(f, S \ s)
  BY <1>7, Zenon
<1> HIDE DEF r
<1> QED
  BY <1>3, <1>6, <1>8, <1>9, <1>10, <1>11, <1>12, <1>13

\* As many times the limit as there are values.
LEMMA SumLimit ==
    ASSUME NEW S, IsFiniteSet(S), NEW f, NEW high \in Int,
           \A x \in S : f[x] \in Int /\ f[x] <= high
    PROVE  Sum(f, S) <= Cardinality(S) * high
<1> DEFINE Wrong == {s \in SUBSET S : ~(Sum(f, s) <= Cardinality(s) * high)}
<1>1. SUFFICES ASSUME Wrong # {} PROVE FALSE
  OBVIOUS
<1>2. PICK s \in Wrong : \A t \in Wrong : t \subseteq s => t = s
  <2>1. Wrong \subseteq SUBSET S
    OBVIOUS
  <2> HIDE DEF Wrong
  <2> QED
    BY <1>1, <2>1, LeastSubset
<1>3. s \subseteq S /\ IsFiniteSet(s) /\ ~(Sum(f, s) <= Cardinality(s) * high)
  BY <1>2, FS_Subset
<1>4. s # {}
  <2>1. SUFFICES ASSUME s = {} PROVE FALSE
    OBVIOUS
  <2>2. Sum(f, s) = 0 /\ Cardinality(s) = 0
    BY <1>3, <2>1, SumStep, FS_EmptySet
  <2> QED
    BY <1>3, <2>2
<1>5. PICK y : y \in s
  BY <1>4
<1> DEFINE r == s \ {y}
<1>6. Sum(f, r) <= Cardinality(r) * high
  <2>1. r \notin Wrong
    BY <1>2, <1>5
  <2> QED
    BY <1>3, <2>1
<1>7. /\ IsFiniteSet(r)
      /\ \A x \in r : f[x] \in Int
      /\ \A x \in s : f[x] \in Int
      /\ f[y] <= high
  BY <1>3, <1>5, FS_Subset
<1>8. Sum(f, s) = f[y] + Sum(f, r)
  BY <1>3, <1>5, <1>7, SumTake
<1>9. Cardinality(r) = Cardinality(s) - 1 /\ Cardinality(s) \in Nat
  BY <1>3, <1>5, FS_RemoveElement, FS_CardinalityType
<1>10. Cardinality(s) * high = (Cardinality(s) - 1) * high + high
  BY <1>9
<1>11. Sum(f, r) \in Int /\ f[y] \in Int
  <2>1. Sum(f, r) \in Int
    <3> HIDE DEF r
    <3> QED
      BY <1>7, SumType
  <2> QED
    BY <1>5, <1>7, <2>1
<1>12. (Cardinality(s) - 1) * high \in Int
  BY <1>9
<1> HIDE DEF r
<1> QED
  BY <1>3, <1>6, <1>7, <1>8, <1>9, <1>10, <1>11, <1>12
=============================================================================
