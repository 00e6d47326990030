----------------------------- MODULE FiniteSums -----------------------------
(***************************************************************************)
(* Sums over finite sets: what MapThenSumSet of FiniteSetsExt returns and  *)
(* how a sum changes with its set and its terms.  MapThenSumSet takes the  *)
(* elements in the order CHOOSE gives; the lemmas say that no other order  *)
(* makes a difference.                                                     *)
(***************************************************************************)
EXTENDS Integers, FiniteSets, FiniteSetsExt, FiniteSetTheorems, WellFoundedInduction, TLAPS

\* A set of natural numbers has a least one.
LEMMA LeastNumber ==
  ASSUME NEW T, T \subseteq Nat, T # {}
  PROVE  \E x \in T : \A y \in T : x <= y
<1>1. PICK x \in T : \A y \in T : ~(<<y, x>> \in OpToRel(<, Nat))
  BY NatLessThanWellFounded, WFMin
<1>2. \A y \in T : ~(y < x)
  BY <1>1 DEF OpToRel
<1> QED BY <1>2

First(s) == CHOOSE x \in s : TRUE

\* f gives every subset of S the sum of its terms, taken in CHOOSE's order.
Sums(f, g, S) ==
  f = [s \in SUBSET S |-> IF s = {} THEN 0 ELSE g[First(s)] + f[s \ {First(s)}]]

\* The sum of the terms g[x] for x in S.
Sum(g, S) == (CHOOSE f : Sums(f, g, S))[S]

-----------------------------------------------------------------------------
(* There is such a function. *)

Upto(S, n) == {s \in SUBSET S : Cardinality(s) <= n}

SumsUpto(f, g, S, n) ==
  f = [s \in Upto(S, n) |-> IF s = {} THEN 0 ELSE g[First(s)] + f[s \ {First(s)}]]

LEMMA FirstTaken ==
  ASSUME NEW s, IsFiniteSet(s), s # {}
  PROVE  /\ First(s) \in s /\ IsFiniteSet(s \ {First(s)})
         /\ Cardinality(s) \in Nat \ {0}
         /\ Cardinality(s \ {First(s)}) = Cardinality(s) - 1
<1>1. First(s) \in s
  BY DEF First
<1>2. Cardinality(s) \in Nat /\ Cardinality(s) # 0
  BY FS_CardinalityType, FS_EmptySet
<1> QED BY <1>1, <1>2, FS_RemoveElement

LEMMA OneLess ==
  ASSUME NEW s, IsFiniteSet(s), NEW x \in s
  PROVE  IsFiniteSet(s \ {x}) /\ Cardinality(s \ {x}) < Cardinality(s)
<1>1. Cardinality(s) \in Nat
  BY FS_CardinalityType
<1> QED BY <1>1, FS_RemoveElement

LEMMA SumsOneMore ==
  ASSUME NEW S, IsFiniteSet(S), NEW g, NEW n \in Nat, NEW f, SumsUpto(f, g, S, n)
  PROVE  \E h : SumsUpto(h, g, S, n + 1)
<1> DEFINE h == [s \in Upto(S, n + 1) |-> IF s = {} THEN 0 ELSE g[First(s)] + f[s \ {First(s)}]]
<1>1. ASSUME NEW s \in Upto(S, n + 1)
      PROVE  h[s] = IF s = {} THEN 0 ELSE g[First(s)] + h[s \ {First(s)}]
  <2>1. CASE s = {}
    BY <2>1
  <2>2. CASE s # {}
    <3> DEFINE t == s \ {First(s)}
    <3>1. IsFiniteSet(s) /\ Cardinality(s) <= n + 1
      BY FS_Subset DEF Upto
    <3>a. Cardinality(t) = Cardinality(s) - 1 /\ Cardinality(s) \in Nat /\ Cardinality(t) <= n
      BY <2>2, <3>1, FirstTaken
    <3>b. t \subseteq S
      BY DEF Upto
    <3>2. Cardinality(t) <= n /\ t \in Upto(S, n) /\ t \in Upto(S, n + 1)
      BY <3>a, <3>b, <3>1 DEF Upto
    <3>3. f[t] = IF t = {} THEN 0 ELSE g[First(t)] + f[t \ {First(t)}]
      BY <3>2 DEF SumsUpto
    <3>4. h[t] = f[t]
      BY <3>2, <3>3
    <3> HIDE DEF t
    <3> QED BY <2>2, <3>4 DEF t
  <2> QED BY <2>1, <2>2
<1>2. h = [s \in Upto(S, n + 1) |-> h[s]]
  OBVIOUS
<1> HIDE DEF h
<1>3. SumsUpto(h, g, S, n + 1)
  BY <1>1, <1>2 DEF SumsUpto
<1> QED BY <1>3

LEMMA SumsExist ==
  ASSUME NEW S, IsFiniteSet(S), NEW g
  PROVE  \E f : Sums(f, g, S)
<1> DEFINE Bad == {n \in Nat : ~(\E f : SumsUpto(f, g, S, n))}
<1>1. 0 \notin Bad
  <2> DEFINE f == [s \in Upto(S, 0) |-> 0]
  <2>1. ASSUME NEW s \in Upto(S, 0) PROVE s = {}
    <3>1. IsFiniteSet(s) /\ Cardinality(s) <= 0
      BY FS_Subset DEF Upto
    <3> QED BY <3>1, FS_CardinalityType, FS_EmptySet
  <2>2. SumsUpto(f, g, S, 0)
    BY <2>1 DEF SumsUpto
  <2> QED BY <2>2
<1>2. Bad = {}
  <2> SUFFICES ASSUME Bad # {} PROVE FALSE
    OBVIOUS
  <2>1. PICK n \in Bad : \A m \in Bad : n <= m
    BY LeastNumber
  <2>2. n \in Nat \ {0} /\ n - 1 \in Nat /\ n - 1 \notin Bad
    BY <1>1, <2>1
  <2>3. PICK f : SumsUpto(f, g, S, n - 1)
    BY <2>2
  <2>4. \E h : SumsUpto(h, g, S, (n - 1) + 1)
    BY <2>2, <2>3, SumsOneMore
  <2>5. (n - 1) + 1 = n
    BY <2>2
  <2> QED BY <2>1, <2>4, <2>5
<1>3. Cardinality(S) \in Nat
  BY FS_CardinalityType
<1>4. PICK f : SumsUpto(f, g, S, Cardinality(S))
  BY <1>2, <1>3
<1>5. Upto(S, Cardinality(S)) = SUBSET S
  BY FS_Subset DEF Upto
<1>6. Sums(f, g, S)
  BY <1>4, <1>5 DEF Sums, SumsUpto
<1> QED BY <1>6

-----------------------------------------------------------------------------
(* Sets in the order of their size: what fails of a set fails of a least one. *)

\* Of the sets in C, all subsets of S, there is one none of whose smaller sets is in C.
LEMMA LeastSet ==
  ASSUME NEW S, IsFiniteSet(S), NEW C, C \subseteq SUBSET S, C # {}
  PROVE  \E s \in C : \A t \in SUBSET S : Cardinality(t) < Cardinality(s) => t \notin C
<1> DEFINE Sizes == {Cardinality(s) : s \in C}
<1>1. \A s \in SUBSET S : Cardinality(s) \in Nat
  BY FS_Subset, FS_CardinalityType
<1>2. Sizes \subseteq Nat /\ Sizes # {}
  BY <1>1
<1>3. PICK n \in Sizes : \A m \in Sizes : n <= m
  BY <1>2, LeastNumber
<1>4. PICK s \in C : n = Cardinality(s)
  BY <1>3
<1>5. ASSUME NEW t \in SUBSET S, Cardinality(t) < Cardinality(s), t \in C PROVE FALSE
  BY <1>1, <1>3, <1>4, <1>5
<1> QED BY <1>5

\* Terms over integers add up to an integer.
LEMMA SumsAreInt ==
  ASSUME NEW S, IsFiniteSet(S), NEW g, \A x \in S : g[x] \in Int, NEW f, Sums(f, g, S)
  PROVE  f \in [SUBSET S -> Int]
<1> DEFINE C == {s \in SUBSET S : f[s] \notin Int}
<1>1. C = {}
  <2> SUFFICES ASSUME C # {} PROVE FALSE
    OBVIOUS
  <2>1. PICK s \in C : \A t \in SUBSET S : Cardinality(t) < Cardinality(s) => t \notin C
    <3>1. C \subseteq SUBSET S
      OBVIOUS
    <3> HIDE DEF C
    <3> QED BY <3>1, LeastSet
  <2>2. s \in SUBSET S /\ IsFiniteSet(s)
    BY FS_Subset
  <2>3. f[s] = IF s = {} THEN 0 ELSE g[First(s)] + f[s \ {First(s)}]
    BY <2>2 DEF Sums
  <2>4. s # {}
    BY <2>1, <2>3
  <2>a. First(s) \in s /\ Cardinality(s \ {First(s)}) < Cardinality(s)
    BY <2>2, <2>4, FirstTaken, OneLess
  <2>b. s \ {First(s)} \in SUBSET S /\ First(s) \in S
    BY <2>2, <2>a
  <2>5. s \ {First(s)} \notin C
    BY <2>1, <2>a, <2>b
  <2> QED BY <2>1, <2>b, <2>3, <2>4, <2>5
<1>2. f = [s \in SUBSET S |-> f[s]]
  BY DEF Sums
<1> QED BY <1>1, <1>2

\* Any element may be taken first.
LEMMA TakeAny ==
  ASSUME NEW S, IsFiniteSet(S), NEW g, \A y \in S : g[y] \in Int, NEW f, Sums(f, g, S),
         NEW s, s \subseteq S, NEW x, x \in s
  PROVE  f[s] = g[x] + f[s \ {x}]
<1> DEFINE C == {t \in SUBSET S : \E y \in t : f[t] # g[y] + f[t \ {y}]}
<1>1. C = {}
  <2> SUFFICES ASSUME C # {} PROVE FALSE
    OBVIOUS
  <2>a. C \subseteq SUBSET S /\ C # {}
    OBVIOUS
  <2>1. PICK t \in C : \A u \in SUBSET S : Cardinality(u) < Cardinality(t) => u \notin C
    <3> HIDE DEF C
    <3> QED BY <2>a, LeastSet
  <2>2. PICK y \in t : f[t] # g[y] + f[t \ {y}]
    BY <2>1
  <2> DEFINE c == First(t)
  <2>3. t \in SUBSET S /\ IsFiniteSet(t) /\ t # {}
    BY <2>2, FS_Subset
  <2>4. c \in t /\ f[t] = g[c] + f[t \ {c}]
    BY <2>3, FirstTaken DEF Sums
  <2> HIDE DEF c
  <2>5. c # y
    BY <2>2, <2>4
  <2>6. Cardinality(t \ {c}) < Cardinality(t) /\ Cardinality(t \ {y}) < Cardinality(t)
    BY <2>2, <2>3, <2>4, OneLess
  <2>7. t \ {c} \notin C /\ t \ {y} \notin C
    BY <2>1, <2>3, <2>6
  <2>8. f[t \ {c}] = g[y] + f[(t \ {c}) \ {y}] /\ f[t \ {y}] = g[c] + f[(t \ {y}) \ {c}]
    BY <2>2, <2>3, <2>4, <2>5, <2>7
  <2>9. (t \ {c}) \ {y} = (t \ {y}) \ {c} /\ (t \ {c}) \ {y} \in SUBSET S
    BY <2>3
  <2>10. f \in [SUBSET S -> Int]
    BY SumsAreInt
  <2>11. /\ c \in S /\ y \in S /\ g[c] \in Int /\ g[y] \in Int
         /\ f[(t \ {c}) \ {y}] \in Int /\ f[(t \ {y}) \ {c}] \in Int
    BY <2>2, <2>3, <2>4, <2>9, <2>10
  <2> DEFINE rest == f[(t \ {c}) \ {y}]
  <2>12. f[t] = g[c] + (g[y] + rest) /\ f[t \ {y}] = g[c] + rest /\ rest \in Int
    BY <2>4, <2>8, <2>9, <2>11
  <2> HIDE DEF rest
  <2> QED BY <2>2, <2>11, <2>12
<1> QED BY <1>1

\* Only the terms of a set matter to its sum.
LEMMA SumsAgree ==
  ASSUME NEW S, IsFiniteSet(S), NEW f, NEW g, Sums(f, g, S),
         NEW T, IsFiniteSet(T), NEW h, NEW k, Sums(h, k, T),
         NEW s, s \subseteq S, s \subseteq T, \A x \in s : g[x] = k[x]
  PROVE  f[s] = h[s]
<1> DEFINE C == {t \in SUBSET s : f[t] # h[t]}
<1>1. C = {}
  <2> SUFFICES ASSUME C # {} PROVE FALSE
    OBVIOUS
  <2>1. IsFiniteSet(s)
    BY FS_Subset
  <2>a. C \subseteq SUBSET s /\ C # {}
    OBVIOUS
  <2>2. PICK t \in C : \A u \in SUBSET s : Cardinality(u) < Cardinality(t) => u \notin C
    <3> HIDE DEF C
    <3> QED BY <2>1, <2>a, LeastSet
  <2>3. t \in SUBSET s /\ IsFiniteSet(t) /\ t \in SUBSET S /\ t \in SUBSET T
    BY <2>1, FS_Subset
  <2>4. /\ f[t] = IF t = {} THEN 0 ELSE g[First(t)] + f[t \ {First(t)}]
        /\ h[t] = IF t = {} THEN 0 ELSE k[First(t)] + h[t \ {First(t)}]
    BY <2>3 DEF Sums
  <2>5. t # {}
    BY <2>2, <2>4
  <2>b. First(t) \in t /\ Cardinality(t \ {First(t)}) < Cardinality(t)
    BY <2>3, <2>5, FirstTaken, OneLess
  <2>c. First(t) \in s /\ t \ {First(t)} \in SUBSET s
    BY <2>3, <2>b
  <2>6. t \ {First(t)} \notin C
    BY <2>2, <2>b, <2>c
  <2> QED BY <2>2, <2>c, <2>4, <2>5, <2>6
<1> QED BY <1>1

-----------------------------------------------------------------------------
(* Sums. *)

LEMMA SumIs ==
  ASSUME NEW S, IsFiniteSet(S), NEW g
  PROVE  \E f : Sums(f, g, S) /\ Sum(g, S) = f[S]
  BY SumsExist DEF Sum

LEMMA SumEmpty == ASSUME NEW g PROVE Sum(g, {}) = 0
<1>1. PICK f : Sums(f, g, {}) /\ Sum(g, {}) = f[{}]
  BY SumIs, FS_EmptySet
<1>2. {} \in SUBSET {}
  OBVIOUS
<1> QED BY <1>1, <1>2 DEF Sums

LEMMA SumIsInt ==
  ASSUME NEW S, IsFiniteSet(S), NEW g, \A x \in S : g[x] \in Int
  PROVE  Sum(g, S) \in Int
<1>1. PICK f : Sums(f, g, S) /\ Sum(g, S) = f[S]
  BY SumIs
<1>2. f \in [SUBSET S -> Int]
  BY <1>1, SumsAreInt
<1> QED BY <1>1, <1>2

\* Any term may be taken out of a sum.
LEMMA SumTake ==
  ASSUME NEW S, IsFiniteSet(S), NEW g, \A y \in S : g[y] \in Int, NEW x \in S
  PROVE  Sum(g, S) = g[x] + Sum(g, S \ {x})
<1>1. PICK f : Sums(f, g, S) /\ Sum(g, S) = f[S]
  BY SumIs
<1>2. IsFiniteSet(S \ {x})
  BY FS_Subset
<1>3. PICK h : Sums(h, g, S \ {x}) /\ Sum(g, S \ {x}) = h[S \ {x}]
  BY <1>2, SumIs
<1>a. Sums(f, g, S) /\ S \subseteq S
  BY <1>1
<1>4. f[S] = g[x] + f[S \ {x}]
  BY <1>a, TakeAny
<1>5. f[S \ {x}] = h[S \ {x}]
  BY <1>1, <1>2, <1>3, SumsAgree
<1> QED BY <1>1, <1>3, <1>4, <1>5

LEMMA SumAdd ==
  ASSUME NEW S, IsFiniteSet(S), NEW x, x \notin S, NEW g, \A y \in S \cup {x} : g[y] \in Int
  PROVE  Sum(g, S \cup {x}) = g[x] + Sum(g, S)
<1>1. IsFiniteSet(S \cup {x}) /\ (S \cup {x}) \ {x} = S
  BY FS_AddElement
<1> QED BY <1>1, SumTake

LEMMA SumSame ==
  ASSUME NEW S, IsFiniteSet(S), NEW g, NEW h, \A x \in S : g[x] = h[x]
  PROVE  Sum(g, S) = Sum(h, S)
<1>1. PICK f : Sums(f, g, S) /\ Sum(g, S) = f[S]
  BY SumIs
<1>2. PICK k : Sums(k, h, S) /\ Sum(h, S) = k[S]
  BY SumIs
<1> QED BY <1>1, <1>2, SumsAgree

\* Terms that are not negative: less is summed over less.
LEMMA SumGrows ==
  ASSUME NEW S, IsFiniteSet(S), NEW T, T \subseteq S, NEW g, \A x \in S : g[x] \in Nat
  PROVE  Sum(g, T) <= Sum(g, S)
<1> DEFINE C == {u \in SUBSET S : T \subseteq u /\ ~(Sum(g, T) <= Sum(g, u))}
<1>1. ASSUME NEW u \in SUBSET S PROVE IsFiniteSet(u) /\ Sum(g, u) \in Int
  <2>1. IsFiniteSet(u) /\ \A x \in u : g[x] \in Int
    BY FS_Subset
  <2> QED BY <2>1, SumIsInt
<1>2. ASSUME C # {} PROVE FALSE
  <2>1. C \subseteq SUBSET S
    OBVIOUS
  <2>2. PICK u \in C : \A t \in SUBSET S : Cardinality(t) < Cardinality(u) => t \notin C
    <3> HIDE DEF C
    <3> QED BY <1>2, <2>1, LeastSet
  <2>3. u # T
    BY <1>1, <2>2
  <2>4. PICK x \in u : x \notin T
    BY <2>2, <2>3
  <2>5. Sum(g, u) = g[x] + Sum(g, u \ {x})
    BY <1>1, <2>2, SumTake
  <2>6. Cardinality(u \ {x}) < Cardinality(u)
    BY <1>1, <2>2, OneLess
  <2>7. u \ {x} \in SUBSET S /\ T \subseteq u \ {x} /\ u \ {x} \notin C
    BY <2>2, <2>4, <2>6
  <2> QED BY <1>1, <2>2, <2>5, <2>7
<1>3. C = {}
  BY <1>2
<1> QED BY <1>3

\* What is left of a sum without one of its terms.
LEMMA SumDrops ==
  ASSUME NEW S, IsFiniteSet(S), NEW x \in S, NEW T, T \subseteq S \ {x},
         NEW g, \A y \in S : g[y] \in Nat
  PROVE  g[x] + Sum(g, T) <= Sum(g, S)
<1>1. IsFiniteSet(S \ {x}) /\ IsFiniteSet(T)
  BY FS_Subset
<1>2. Sum(g, T) <= Sum(g, S \ {x})
  BY <1>1, SumGrows
<1>3. Sum(g, S) = g[x] + Sum(g, S \ {x})
  BY SumTake
<1>4. Sum(g, T) \in Int /\ Sum(g, S \ {x}) \in Int
  BY <1>1, SumIsInt
<1> QED BY <1>2, <1>3, <1>4
=============================================================================
