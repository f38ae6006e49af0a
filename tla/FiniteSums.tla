---------------------------- MODULE FiniteSums ----------------------------
(***************************************************************************)
(* What sums over finite sets satisfy, for any functions and sets.  The     *)
(* library's induction theorems take an operator as a parameter; induction  *)
(* is done here with what it says of sets instead: a nonempty set of finite *)
(* sets has a smallest one.                                                 *)
(***************************************************************************)
EXTENDS Functions, FiniteSetTheorems, WellFoundedInduction, TLAPS

(* Of the subsets of a finite set with some property one is smallest.       *)
LEMMA SmallestSubset ==
  ASSUME NEW S, IsFiniteSet(S), NEW C, C \subseteq SUBSET S, C # {}
  PROVE  \E s \in C : \A t \in C : t \subseteq s => t = s
<1>1. C \subseteq FiniteSubsetsOf(S)
  BY FS_FiniteSubsetsOfFinite
<1>2. PICK s \in C : \A t \in C : <<t, s>> \notin StrictSubsetOrdering(S)
  BY <1>1, FS_StrictSubsetOrderingWellFounded, WFMin
<1> QED
  BY <1>2 DEF StrictSubsetOrdering

(* A set with zero and the successor of each of its numbers has them all.    *)
LEMMA AllNumbers ==
  ASSUME NEW S, 0 \in S, \A n \in Nat : n \in S => n + 1 \in S
  PROVE  Nat \subseteq S
<1> SUFFICES ASSUME NEW n \in Nat, n \notin S PROVE FALSE
  OBVIOUS
<1> DEFINE C == {0..m : m \in (0..n) \ S}
<1>1. IsFiniteSet(0..n)
  BY FS_Interval
<1>2. C \subseteq SUBSET (0..n) /\ 0..n \in C /\ C # {}
  <2>1. n \in (0..n) \ S
    OBVIOUS
  <2> QED
    BY <2>1
<1>3. PICK s \in C : \A t \in C : t \subseteq s => t = s
  <2>1. PICK W : W = 0..n
    OBVIOUS
  <2>2. IsFiniteSet(W) /\ C \subseteq SUBSET W
    BY <1>1, <1>2, <2>1
  <2>3. PICK D : D = C
    OBVIOUS
  <2>4. IsFiniteSet(W) /\ D \subseteq SUBSET W /\ D # {}
    BY <1>2, <2>2, <2>3
  <2>5. \E s \in D : \A t \in D : t \subseteq s => t = s
    BY ONLY <2>4, SmallestSubset
  <2> HIDE DEF C
  <2> QED
    BY <2>3, <2>5
<1>4. PICK m \in (0..n) \ S : s = 0..m
  OBVIOUS
<1>5. m # 0 /\ m - 1 \in (0..n) \ S
  BY <1>4
<1>6. 0..(m - 1) \in C /\ 0..(m - 1) \subseteq 0..m /\ m \in 0..m /\ m \notin 0..(m - 1)
  BY <1>5
<1> QED
  BY <1>3, <1>4, <1>6

-----------------------------------------------------------------------------
(* The sum is the value of a function on the subsets, which exists and is   *)
(* the same for every set it is defined on.                                 *)

Pick(s) == CHOOSE x \in s : TRUE

IsSum(it, f, D) ==
  it = [s \in D |-> IF s = {} THEN 0 ELSE f[Pick(s)] + it[s \ {Pick(s)}]]

LEMMA PickFrom ==
  ASSUME NEW s, s # {}
  PROVE  Pick(s) \in s
BY DEF Pick

LEMMA SumExists ==
  ASSUME NEW f, NEW S, IsFiniteSet(S)
  PROVE  \E it : IsSum(it, f, SUBSET S)
<1> DEFINE Sub(n) == {s \in SUBSET S : Cardinality(s) <= n}
           Good == {n \in Nat : \E it : IsSum(it, f, Sub(n))}
<1>1. ASSUME NEW s \in SUBSET S
      PROVE  IsFiniteSet(s) /\ Cardinality(s) \in Nat /\ Cardinality(s) <= Cardinality(S)
             /\ Cardinality(S) \in Nat
  BY FS_Subset, FS_CardinalityType
<1>2. 0 \in Good
  <2>1. \A s \in Sub(0) : s = {}
    <3>1. ASSUME NEW s \in Sub(0) PROVE s = {}
      <4>1. Cardinality(s) = 0 /\ IsFiniteSet(s)
        BY <1>1
      <4> QED
        BY <4>1, FS_EmptySet
    <3> QED
      BY <3>1
  <2>2. IsSum([s \in Sub(0) |-> 0], f, Sub(0))
    BY <2>1 DEF IsSum
  <2> QED
    BY <2>2
<1>3. ASSUME NEW n \in Nat, n \in Good
      PROVE  n + 1 \in Good
  <2>1. PICK it : IsSum(it, f, Sub(n))
    BY <1>3
  <2> DEFINE next == [s \in Sub(n + 1) |->
                        IF s = {} THEN 0 ELSE f[Pick(s)] + it[s \ {Pick(s)}]]
  <2>2. ASSUME NEW s \in Sub(n + 1), s # {}
        PROVE  s \ {Pick(s)} \in Sub(n)
    <3>1. Pick(s) \in s /\ IsFiniteSet(s) /\ Cardinality(s) \in Nat /\ Cardinality(s) <= n + 1
      BY <1>1, <2>2, PickFrom
    <3>2. Cardinality(s \ {Pick(s)}) = Cardinality(s) - 1
      BY <3>1, FS_RemoveElement
    <3> QED
      BY <3>1, <3>2
  <2>3. ASSUME NEW t \in Sub(n)
        PROVE  next[t] = it[t]
    <3>1. t \in Sub(n + 1)
      BY <1>1
    <3> HIDE DEF Sub
    <3> QED
      BY <2>1, <3>1 DEF IsSum
  <2>4. IsSum(next, f, Sub(n + 1))
    <3> HIDE DEF Sub
    <3>1. ASSUME NEW s \in Sub(n + 1), s # {}
          PROVE  next[s \ {Pick(s)}] = it[s \ {Pick(s)}]
      <4> HIDE DEF next
      <4> QED
        BY <2>2, <2>3, <3>1
    <3>2. ASSUME NEW s \in Sub(n + 1)
          PROVE  next[s] = IF s = {} THEN 0 ELSE f[Pick(s)] + next[s \ {Pick(s)}]
      BY <3>1
    <3>3. next = [s \in Sub(n + 1) |-> next[s]]
      OBVIOUS
    <3> HIDE DEF next
    <3>4. next = [s \in Sub(n + 1) |->
                    IF s = {} THEN 0 ELSE f[Pick(s)] + next[s \ {Pick(s)}]]
      BY <3>2, <3>3
    <3> QED
      BY <3>4 DEF IsSum
  <2> HIDE DEF next, Sub
  <2>5. \E jt : IsSum(jt, f, Sub(n + 1))
    BY <2>4
  <2>6. n + 1 \in Nat
    OBVIOUS
  <2> QED
    BY <2>5, <2>6
<1>4. Cardinality(S) \in Good
  <2> HIDE DEF Good
  <2>1. Nat \subseteq Good
    BY <1>2, <1>3, AllNumbers
  <2> QED
    BY <2>1, FS_CardinalityType
<1>5. Sub(Cardinality(S)) = SUBSET S
  BY <1>1
<1> QED
  BY <1>4, <1>5

LEMMA SumValue ==
  ASSUME NEW f, NEW S, IsFiniteSet(S)
  PROVE  \E it : IsSum(it, f, SUBSET S) /\ SumFunctionOnSet(f, S) = it[S]
<1>1. SumFunctionOnSet(f, S) = (CHOOSE it : IsSum(it, f, SUBSET S))[S]
  BY DEF SumFunctionOnSet, FoldFunctionOnSet, MapThenFoldSet, IsSum, Pick
<1> QED
  BY <1>1, SumExists

LEMMA SumsAgree ==
  ASSUME NEW f, NEW g, NEW S, NEW T, NEW it, NEW jt, IsFiniteSet(S), S \subseteq T,
         IsSum(it, f, SUBSET S), IsSum(jt, g, SUBSET T),
         \A x \in S : f[x] = g[x]
  PROVE  it[S] = jt[S]
<1> DEFINE C == {s \in SUBSET S : it[s] # jt[s]}
<1>1. SUFFICES ASSUME C # {} PROVE FALSE
  OBVIOUS
<1>2. PICK s \in C : \A t \in C : t \subseteq s => t = s
  <2>1. C \subseteq SUBSET S
    OBVIOUS
  <2> HIDE DEF C
  <2> QED
    BY <1>1, <2>1, SmallestSubset
<1>3. /\ it[s] = IF s = {} THEN 0 ELSE f[Pick(s)] + it[s \ {Pick(s)}]
      /\ jt[s] = IF s = {} THEN 0 ELSE g[Pick(s)] + jt[s \ {Pick(s)}]
  BY DEF IsSum
<1>4. s # {}
  BY <1>3
<1>5. Pick(s) \in s /\ f[Pick(s)] = g[Pick(s)]
  BY <1>4, PickFrom
<1>6. s \ {Pick(s)} \notin C
  BY <1>2, <1>5
<1> QED
  BY <1>3, <1>5, <1>6

-----------------------------------------------------------------------------
(* The laws of sums. *)

(* Functions that agree on a set have the same sum over it. *)
LEMMA SumSame ==
  ASSUME NEW f, NEW g, NEW S, IsFiniteSet(S), \A x \in S : f[x] = g[x]
  PROVE  SumFunctionOnSet(f, S) = SumFunctionOnSet(g, S)
<1>1. PICK it : IsSum(it, f, SUBSET S) /\ SumFunctionOnSet(f, S) = it[S]
  BY SumValue
<1>2. PICK jt : IsSum(jt, g, SUBSET S) /\ SumFunctionOnSet(g, S) = jt[S]
  BY SumValue
<1> QED
  BY <1>1, <1>2, SumsAgree

LEMMA SumEmpty ==
  ASSUME NEW f
  PROVE  SumFunctionOnSet(f, {}) = 0
<1>1. PICK it : IsSum(it, f, SUBSET {}) /\ SumFunctionOnSet(f, {}) = it[{}]
  BY SumValue, FS_EmptySet
<1> QED
  BY <1>1 DEF IsSum

LEMMA SumPick ==
  ASSUME NEW f, NEW S, IsFiniteSet(S), S # {}
  PROVE  SumFunctionOnSet(f, S) =
           f[Pick(S)] + SumFunctionOnSet(f, S \ {Pick(S)})
<1>1. PICK it : IsSum(it, f, SUBSET S) /\ SumFunctionOnSet(f, S) = it[S]
  BY SumValue
<1> DEFINE rest == S \ {Pick(S)}
<1>2. it[S] = f[Pick(S)] + it[rest]
  BY <1>1 DEF IsSum
<1>3. IsFiniteSet(rest) /\ rest \subseteq S
  BY FS_Subset
<1> HIDE DEF rest
<1>4. PICK jt : IsSum(jt, f, SUBSET rest) /\ SumFunctionOnSet(f, rest) = jt[rest]
  BY <1>3, SumValue
<1>5. jt[rest] = it[rest]
  BY <1>1, <1>3, <1>4, SumsAgree
<1> QED
  BY <1>1, <1>2, <1>4, <1>5 DEF rest

(* Sums of integers are integers, of naturals naturals. *)
LEMMA SumType ==
  ASSUME NEW f, NEW S, IsFiniteSet(S), NEW R \in {Nat, Int}, \A x \in S : f[x] \in R
  PROVE  SumFunctionOnSet(f, S) \in R
<1> DEFINE C == {s \in SUBSET S : SumFunctionOnSet(f, s) \notin R}
<1>1. SUFFICES ASSUME C # {} PROVE FALSE
  OBVIOUS
<1>2. PICK s \in C : \A t \in C : t \subseteq s => t = s
  <2>1. C \subseteq SUBSET S
    OBVIOUS
  <2> HIDE DEF C
  <2> QED
    BY <1>1, <2>1, SmallestSubset
<1>3. IsFiniteSet(s) /\ s # {}
  <2>1. IsFiniteSet(s)
    BY FS_Subset
  <2>2. SumFunctionOnSet(f, {}) \in R
    BY SumEmpty
  <2> QED
    BY <2>1, <2>2
<1>4. Pick(s) \in s /\ f[Pick(s)] \in R
  BY <1>3, PickFrom
<1>5. SumFunctionOnSet(f, s \ {Pick(s)}) \in R
  BY <1>2, <1>4
<1>6. SumFunctionOnSet(f, s) \in R
  BY <1>3, <1>4, <1>5, SumPick
<1> QED
  BY <1>6

(* Any element may be taken out first. *)
LEMMA SumRemove ==
  ASSUME NEW f, NEW S, IsFiniteSet(S), \A x \in S : f[x] \in Int, NEW y \in S
  PROVE  SumFunctionOnSet(f, S) = SumFunctionOnSet(f, S \ {y}) + f[y]
<1> DEFINE Sum(s) == SumFunctionOnSet(f, s)
           Fails(s) == \E x \in s : Sum(s) # Sum(s \ {x}) + f[x]
           C == {s \in SUBSET S : Fails(s)}
<1>1. SUFFICES ASSUME C # {} PROVE FALSE
  OBVIOUS
<1>2. PICK s \in C : \A t \in C : t \subseteq s => t = s
  <2>1. C \subseteq SUBSET S
    OBVIOUS
  <2> HIDE DEF C
  <2> QED
    BY <1>1, <2>1, SmallestSubset
<1>3. PICK x \in s : Sum(s) # Sum(s \ {x}) + f[x]
  OBVIOUS
<1> DEFINE p == Pick(s)
<1>4. \A t \in SUBSET S : IsFiniteSet(t) /\ Sum(t) \in Int
  <2>1. \A t \in SUBSET S : IsFiniteSet(t)
    BY FS_Subset
  <2> QED
    BY <2>1, SumType
<1>5. p \in s /\ Sum(s) = f[p] + Sum(s \ {p})
  BY <1>3, <1>4, PickFrom, SumPick
<1> HIDE DEF p
<1>6. f[p] \in Int /\ f[x] \in Int /\ Sum(s \ {p}) \in Int /\ Sum(s \ {x}) \in Int
      /\ Sum((s \ {p}) \ {x}) \in Int /\ (s \ {p}) \ {x} = (s \ {x}) \ {p}
  BY <1>4, <1>5
<1>7. p # x
  <2> HIDE DEF Sum
  <2> QED
    BY <1>3, <1>5, <1>6
<1>8. s \ {p} \notin C /\ s \ {x} \notin C
  <2> HIDE DEF C
  <2> QED
    BY <1>2, <1>5
<1>9. Sum(s \ {p}) = Sum((s \ {p}) \ {x}) + f[x]
  <2> HIDE DEF Sum
  <2> QED
    BY <1>5, <1>7, <1>8
<1>10. Sum(s \ {x}) = Sum((s \ {x}) \ {p}) + f[p]
  <2> HIDE DEF Sum
  <2> QED
    BY <1>5, <1>7, <1>8
<1>11. Sum(s \ {x}) = Sum((s \ {p}) \ {x}) + f[p]
  <2> HIDE DEF Sum
  <2> QED
    BY <1>6, <1>10
<1> HIDE DEF Sum
<1> QED
  BY <1>3, <1>5, <1>6, <1>9, <1>11

(* A new element adds its value. *)
LEMMA SumAdd ==
  ASSUME NEW f, NEW S, IsFiniteSet(S), NEW y, y \notin S, \A x \in S \cup {y} : f[x] \in Int
  PROVE  SumFunctionOnSet(f, S \cup {y}) = SumFunctionOnSet(f, S) + f[y]
<1>1. IsFiniteSet(S \cup {y}) /\ (S \cup {y}) \ {y} = S
  BY FS_AddElement
<1>2. SumFunctionOnSet(f, S \cup {y}) = SumFunctionOnSet(f, (S \cup {y}) \ {y}) + f[y]
  BY <1>1, SumRemove
<1> QED
  BY <1>1, <1>2

(* Changing one value changes the sum by as much. *)
LEMMA SumChange ==
  ASSUME NEW f, NEW g, NEW S, IsFiniteSet(S), NEW y \in S,
         \A x \in S : f[x] \in Int /\ g[x] \in Int,
         \A x \in S \ {y} : g[x] = f[x]
  PROVE  SumFunctionOnSet(g, S) = SumFunctionOnSet(f, S) + g[y] - f[y]
<1> DEFINE rest == S \ {y}
<1>1. IsFiniteSet(rest) /\ rest \subseteq S
  BY FS_Subset
<1>2. /\ SumFunctionOnSet(f, S) = SumFunctionOnSet(f, rest) + f[y]
      /\ SumFunctionOnSet(g, S) = SumFunctionOnSet(g, rest) + g[y]
  BY SumRemove
<1>3. SumFunctionOnSet(f, rest) = SumFunctionOnSet(g, rest)
  BY <1>1, SumSame
<1>4. SumFunctionOnSet(f, rest) \in Int
  BY <1>1, SumType
<1> HIDE DEF rest
<1> QED
  BY <1>2, <1>3, <1>4

(* Less of what is not negative sums up to no more. *)
LEMMA SumSubset ==
  ASSUME NEW f, NEW S, IsFiniteSet(S), NEW T, T \subseteq S, \A x \in S : f[x] \in Nat
  PROVE  SumFunctionOnSet(f, T) <= SumFunctionOnSet(f, S)
<1> DEFINE Sum(s) == SumFunctionOnSet(f, s)
           C == {s \in SUBSET S : T \subseteq s /\ ~(Sum(T) <= Sum(s))}
<1>1. SUFFICES ASSUME C # {} PROVE FALSE
  OBVIOUS
<1>2. PICK s \in C : \A t \in C : t \subseteq s => t = s
  <2>1. C \subseteq SUBSET S
    OBVIOUS
  <2> HIDE DEF C
  <2> QED
    BY <1>1, <2>1, SmallestSubset
<1>3. \A t \in SUBSET S : IsFiniteSet(t) /\ Sum(t) \in Nat
  <2>1. \A t \in SUBSET S : IsFiniteSet(t)
    BY FS_Subset
  <2> QED
    BY <2>1, SumType
<1>4. s # T
  <2> HIDE DEF Sum
  <2> QED
    BY <1>3
<1>5. PICK y \in s : y \notin T
  BY <1>4
<1>6. IsFiniteSet(s) /\ y \in s /\ \A x \in s : f[x] \in Int
  BY <1>3, <1>5
<1>7. Sum(s) = Sum(s \ {y}) + f[y]
  BY <1>6, SumRemove
<1>8. s \ {y} \notin C /\ s \ {y} \in SUBSET S /\ T \subseteq s \ {y}
  <2> HIDE DEF Sum
  <2> QED
    BY <1>2, <1>5
<1>9. Sum(T) <= Sum(s \ {y})
  <2> HIDE DEF Sum
  <2> QED
    BY <1>8
<1>10. f[y] \in Nat /\ Sum(s) \in Nat /\ Sum(s \ {y}) \in Nat /\ Sum(T) \in Nat
  BY <1>3, <1>5, <1>8
<1>11. ~(Sum(T) <= Sum(s))
  OBVIOUS
<1> HIDE DEF Sum
<1> QED
  BY <1>7, <1>9, <1>10, <1>11

(* The sum of sums. *)
LEMMA SumPlus ==
  ASSUME NEW f, NEW g, NEW h, NEW S, IsFiniteSet(S),
         \A x \in S : f[x] \in Int /\ g[x] \in Int /\ h[x] = f[x] + g[x]
  PROVE  SumFunctionOnSet(h, S) = SumFunctionOnSet(f, S) + SumFunctionOnSet(g, S)
<1> DEFINE F(s) == SumFunctionOnSet(f, s)
           G(s) == SumFunctionOnSet(g, s)
           H(s) == SumFunctionOnSet(h, s)
           C == {s \in SUBSET S : H(s) # F(s) + G(s)}
<1>1. SUFFICES ASSUME C # {} PROVE FALSE
  OBVIOUS
<1>2. PICK s \in C : \A t \in C : t \subseteq s => t = s
  <2>1. C \subseteq SUBSET S
    OBVIOUS
  <2> HIDE DEF C
  <2> QED
    BY <1>1, <2>1, SmallestSubset
<1>3. \A t \in SUBSET S : IsFiniteSet(t) /\ F(t) \in Int /\ G(t) \in Int /\ H(t) \in Int
  <2>1. \A t \in SUBSET S : IsFiniteSet(t)
    BY FS_Subset
  <2> QED
    BY <2>1, SumType
<1>4. s # {}
  <2>1. F({}) = 0 /\ G({}) = 0 /\ H({}) = 0
    BY SumEmpty
  <2>2. H(s) # F(s) + G(s)
    OBVIOUS
  <2> HIDE DEF F, G, H, C
  <2>3. s = {} => F(s) = 0 /\ G(s) = 0 /\ H(s) = 0
    BY <2>1
  <2> QED
    BY <2>2, <2>3
<1> DEFINE p == Pick(s)
<1>5. /\ p \in s /\ F(s) = f[p] + F(s \ {p}) /\ G(s) = g[p] + G(s \ {p})
      /\ H(s) = h[p] + H(s \ {p})
  BY <1>3, <1>4, PickFrom, SumPick
<1> HIDE DEF p
<1>6. H(s \ {p}) = F(s \ {p}) + G(s \ {p})
  <2>1. s \ {p} \notin C /\ s \ {p} \in SUBSET S
    <3>1. s \ {p} \in SUBSET S
      OBVIOUS
    <3> HIDE DEF C
    <3> QED
      BY <1>2, <1>5, <3>1
  <2> HIDE DEF F, G, H
  <2> QED
    BY <2>1
<1>7. /\ f[p] \in Int /\ g[p] \in Int /\ h[p] = f[p] + g[p]
      /\ F(s \ {p}) \in Int /\ G(s \ {p}) \in Int
  BY <1>3, <1>5
<1>8. H(s) # F(s) + G(s)
  OBVIOUS
<1> HIDE DEF F, G, H
<1> QED
  BY <1>5, <1>6, <1>7, <1>8

(* Nothing sums up to nothing. *)
LEMMA SumZero ==
  ASSUME NEW f, NEW S, IsFiniteSet(S), \A x \in S : f[x] = 0
  PROVE  SumFunctionOnSet(f, S) = 0
<1>1. SumFunctionOnSet(f, S) = SumFunctionOnSet(f, S) + SumFunctionOnSet(f, S)
  BY SumPlus
<1>2. SumFunctionOnSet(f, S) \in Int
  BY SumType
<1> QED
  BY <1>1, <1>2
=============================================================================
