---------------------------- MODULE NumberLemmas ----------------------------
(***************************************************************************)
(* What the proofs need of numbers.  Induction over an interval, with sets *)
(* and functions for the property and the step, so that it can be cited    *)
(* for any property: a set that contains the first number and with each    *)
(* the next contains all.  The arithmetic of counters that wrap.  And sums *)
(* over finite sets, as SumFunction of the community modules has them.     *)
(***************************************************************************)
EXTENDS Integers, Sequences, Functions, FiniteSetTheorems, WellFoundedInduction, TLAPS

\* A set of natural numbers has a least element, unless it is empty.
THEOREM LeastElement ==
    ASSUME NEW T \in SUBSET Nat, T # {}
    PROVE  \E x \in T : \A y \in T : x <= y
<1> DEFINE R == OpToRel(<, Nat)
<1>1. \E x \in T : \A y \in T : ~(<<y, x>> \in R)
  <2>1. IsWellFoundedOn(R, Nat)
    BY NatLessThanWellFounded
  <2> HIDE DEF R
  <2> QED
    BY <2>1, WFMin
<1>2. \A x, y \in Nat : y < x => <<y, x>> \in R
  BY DEF OpToRel
<1>3. ASSUME NEW x \in T, NEW y \in T, ~(<<y, x>> \in R) PROVE x <= y
  <2>1. x \in Nat /\ y \in Nat /\ ~(y < x)
    BY <1>2, <1>3
  <2> QED
    BY <2>1
<1> QED
  BY <1>1, <1>3

\* A set of numbers up to n has a greatest element, unless it is empty.
THEOREM GreatestUpTo ==
    ASSUME NEW n \in Nat, NEW T \in SUBSET (0 .. n), T # {}
    PROVE  \E x \in T : \A y \in T : y <= x
<1> DEFINE Above == {k \in 0 .. n : \A y \in T : y <= k}
<1>1. Above \in SUBSET Nat /\ n \in Above
  OBVIOUS
<1>2. PICK b \in Above : \A k \in Above : b <= k
  <2> HIDE DEF Above
  <2> QED
    BY <1>1, LeastElement
<1>3. b \in T
  <2>1. SUFFICES ASSUME b \notin T PROVE FALSE
    OBVIOUS
  <2>2. PICK y \in T : TRUE
    OBVIOUS
  <2>3. y <= b /\ y # b /\ y \in 0 .. n /\ b \in 0 .. n
    BY <1>2, <2>1
  <2>4. b - 1 \in Above
    BY <1>2, <2>1, <2>3
  <2> QED
    BY <1>2, <2>3, <2>4
<1> QED
  BY <1>2, <1>3

\* What holds of 0, and of each number up to n if it holds of the number before.
THEOREM InductionUpTo ==
    ASSUME NEW n \in Nat, NEW T, 0 \in T,
           \A k \in 1 .. n : k - 1 \in T => k \in T
    PROVE  0 .. n \subseteq T
<1> DEFINE Bad == {k \in 0 .. n : k \notin T}
<1>1. ASSUME Bad # {} PROVE FALSE
  <2>1. Bad \in SUBSET Nat
    OBVIOUS
  <2>2. PICK x \in Bad : \A y \in Bad : x <= y
    <3> HIDE DEF Bad
    <3> QED
      BY <1>1, <2>1, LeastElement
  <2>3. x \in 1 .. n /\ x - 1 \in 0 .. n /\ x - 1 \notin Bad
    BY <2>2
  <2> QED
    BY <2>3
<1> QED
  BY <1>1

\* The functions with a first value and a step from each value to the next one.
Recursions(n, A, a, Step) ==
    {f \in [0 .. n -> A] : f[0] = a /\ \A k \in 1 .. n : f[k] = Step[k][f[k - 1]]}

\* A function that is defined by its first value and a step from each value to the
\* next one: there is one, in the set the steps stay in.
THEOREM RecursionUpTo ==
    ASSUME NEW n \in Nat, NEW A, NEW a \in A, NEW Step \in [1 .. n -> [A -> A]]
    PROVE  Recursions(n, A, a, Step) # {}
<1> DEFINE Partial(m) == {f \in [0 .. m -> A] :
                            /\ f[0] = a
                            /\ \A k \in 1 .. m : f[k] = Step[k][f[k - 1]]}
           T == {m \in 0 .. n : Partial(m) # {}}
<1>1. 0 \in T
  <2>1. [k \in 0 .. 0 |-> a] \in Partial(0)
    OBVIOUS
  <2> QED
    BY <2>1
<1>2. ASSUME NEW m \in 1 .. n, m - 1 \in T PROVE m \in T
  <2>1. PICK f \in Partial(m - 1) : TRUE
    BY <1>2
  <2> DEFINE g == [k \in 0 .. m |-> IF k = m THEN Step[m][f[m - 1]] ELSE f[k]]
  <2>2. Step[m] \in [A -> A] /\ f \in [0 .. m - 1 -> A] /\ f[m - 1] \in A
    OBVIOUS
  <2>3. g \in [0 .. m -> A]
    BY <2>2
  <2>4. g[0] = a
    BY <2>2
  <2>5. ASSUME NEW k \in 1 .. m PROVE g[k] = Step[k][g[k - 1]]
    <3>1. CASE k = m
      BY <2>2, <3>1
    <3>2. CASE k # m
      BY <2>2, <3>2
    <3> QED
      BY <3>1, <3>2
  <2>6. g \in Partial(m)
    BY <2>3, <2>4, <2>5
  <2> HIDE DEF Partial, g
  <2> QED
    BY <2>6
<1>3. n \in T
  <2> HIDE DEF T
  <2>1. 0 .. n \subseteq T
    BY <1>1, <1>2, InductionUpTo
  <2> QED
    BY <2>1
<1> QED
  BY <1>3 DEF Recursions

\* It holds of each member of D if it holds of those of a lesser measure.
FollowsFromLess(D, m, T) == \A x \in D : (\A y \in D : m[y] < m[x] => y \in T) => x \in T

\* Then it holds of all of D.
THEOREM InductionByMeasure ==
    ASSUME NEW n \in Nat, NEW D, NEW m \in [D -> 0 .. n], NEW T, FollowsFromLess(D, m, T)
    PROVE  D \subseteq T
<1> DEFINE Bad == {m[x] : x \in {y \in D : y \notin T}}
<1>1. ASSUME Bad # {} PROVE FALSE
  <2>1. Bad \in SUBSET Nat
    OBVIOUS
  <2>2. PICK k \in Bad : \A l \in Bad : k <= l
    <3> HIDE DEF Bad
    <3> QED
      BY <1>1, <2>1, LeastElement
  <2>3. PICK x \in D : x \notin T /\ m[x] = k
    BY <2>2
  <2>4. ASSUME NEW y \in D, m[y] < m[x], y \notin T PROVE FALSE
    <3>1. m[y] \in Bad /\ m[y] \in Nat /\ k \in Nat
      BY <2>1, <2>4
    <3>2. k <= m[y]
      BY <2>2, <3>1
    <3> QED
      BY <2>3, <2>4, <3>1, <3>2
  <2>5. \A y \in D : m[y] < m[x] => y \in T
    BY <2>4
  <2> QED
    BY <2>3, <2>5 DEF FollowsFromLess
<1> QED
  BY <1>1

\* The value of x depends on the values of a lesser measure only, and is in G[x] if
\* they are in their sets.
DependsOnLess(D, m, A, G, Step) ==
    \A x \in D : \A f \in [D -> A] :
        /\ \A g \in [D -> A] :
              (\A y \in D : m[y] < m[x] => f[y] = g[y]) => Step[x][f] = Step[x][g]
        /\ (\A y \in D : m[y] < m[x] => f[y] \in G[y]) => Step[x][f] \in G[x]

\* The functions with such a step.
RecursionsOver(D, A, G, Step) ==
    {f \in [D -> A] : \A x \in D : f[x] = Step[x][f] /\ f[x] \in G[x]}

\* A function that is defined by a step from the values of a lesser measure.
THEOREM RecursionByMeasure ==
    ASSUME NEW n \in Nat, NEW D, NEW m \in [D -> 0 .. n], NEW A, A # {},
           NEW G \in [D -> SUBSET A], NEW Step \in [D -> [[D -> A] -> A]],
           DependsOnLess(D, m, A, G, Step)
    PROVE  RecursionsOver(D, A, G, Step) # {}
<1> DEFINE Upto(k, f) == \A x \in D : m[x] <= k => f[x] = Step[x][f]
           T == {k \in 0 .. n : \E f \in [D -> A] : Upto(k, f)}
<1>0. /\ \A x \in D : m[x] \in 0 .. n
      /\ \A x \in D : \A f \in [D -> A] : Step[x][f] \in A
  OBVIOUS
<1>a. ASSUME NEW x \in D, NEW f \in [D -> A], NEW g \in [D -> A],
             \A y \in D : m[y] < m[x] => f[y] = g[y]
      PROVE  Step[x][f] = Step[x][g]
  BY <1>a DEF DependsOnLess
<1>1. ASSUME NEW k \in 0 .. n, NEW g \in [D -> A], \A x \in D : m[x] < k => g[x] = Step[x][g]
      PROVE  k \in T
  <2> DEFINE f == [x \in D |-> IF m[x] < k THEN g[x] ELSE Step[x][g]]
  <2>1. f \in [D -> A]
    BY <1>0
  <2>2. ASSUME NEW x \in D, m[x] <= k PROVE f[x] = Step[x][f]
    <3>1. f[x] = Step[x][g]
      BY <1>1
    <3>2. \A y \in D : m[y] < m[x] => g[y] = f[y]
      BY <1>0, <2>2
    <3> HIDE DEF f
    <3>3. Step[x][g] = Step[x][f]
      BY <1>a, <2>1, <3>2
    <3> QED
      BY <3>1, <3>3
  <2> HIDE DEF f
  <2> QED
    BY <2>1, <2>2
<1>2. 0 \in T
  <2>1. PICK a \in A : TRUE
    OBVIOUS
  <2>2. \A x \in D : ~(m[x] < 0)
    BY <1>0
  <2> DEFINE g == [x \in D |-> a]
  <2>3. g \in [D -> A] /\ 0 \in 0 .. n
    OBVIOUS
  <2> HIDE DEF T, g
  <2>4. \A x \in D : m[x] < 0 => g[x] = Step[x][g]
    BY <2>2
  <2> QED
    BY <1>1, <2>3, <2>4
<1>3. ASSUME NEW k \in 1 .. n, k - 1 \in T PROVE k \in T
  <2>1. PICK g \in [D -> A] : Upto(k - 1, g)
    BY <1>3
  <2>2. \A x \in D : m[x] < k => g[x] = Step[x][g]
    BY <1>0, <2>1
  <2> HIDE DEF T
  <2> QED
    BY <1>1, <2>2
<1>4. n \in T
  <2> HIDE DEF T
  <2>1. 0 .. n \subseteq T
    BY <1>2, <1>3, InductionUpTo
  <2> QED
    BY <2>1
<1>5. PICK f \in [D -> A] : \A x \in D : f[x] = Step[x][f]
  BY <1>0, <1>4
<1>6. \A x \in D : f[x] \in G[x]
  <2> DEFINE S == {x \in D : f[x] \in G[x]}
  <2>1. ASSUME NEW x \in D, \A y \in D : m[y] < m[x] => y \in S PROVE x \in S
    BY <1>5, <2>1 DEF DependsOnLess
  <2> HIDE DEF S
  <2>2. FollowsFromLess(D, m, S)
    BY <2>1 DEF FollowsFromLess
  <2>3. D \subseteq S
    BY <2>2, InductionByMeasure
  <2> QED
    BY <2>3 DEF S
<1> QED
  BY <1>5, <1>6 DEF RecursionsOver

-----------------------------------------------------------------------------
(* Counters that wrap. *)

\* Division with a remainder.
LEMMA Division ==
    ASSUME NEW w \in Nat \ {0}, NEW a \in Int
    PROVE  /\ a = (w * (a \div w)) + (a % w)
           /\ a \div w \in Int /\ a % w \in 0 .. w - 1
OBVIOUS

\* The remainder is what is left beside a multiple.
LEMMA Remainder ==
    ASSUME NEW w \in Nat \ {0}, NEW q \in Int, NEW r \in 0 .. w - 1
    PROVE  ((w * q) + r) % w = r
OBVIOUS

\* Wrapping a frequency early or late is the same.
LEMMA WrapOnce ==
    ASSUME NEW w \in Nat \ {0}, NEW a \in Int, NEW b \in Int
    PROVE  ((a % w) + b) % w = (a + b) % w
<1> DEFINE c == (a % w) + b
<1>1. a % w \in Int /\ c \in Int
  OBVIOUS
<1>2. PICK p \in Int, q \in Int : a = (w * p) + (a % w) /\ c = (w * q) + (c % w)
  BY <1>1, Division
<1>3. a + b = (w * (p + q)) + (c % w)
  BY <1>1, <1>2
<1>4. c % w \in 0 .. w - 1
  BY <1>1
<1> HIDE DEF c
<1>5. ((w * (p + q)) + (c % w)) % w = c % w
  <2> DEFINE m == p + q
             r == c % w
  <2>1. m \in Int /\ r \in 0 .. w - 1
    BY <1>4
  <2> HIDE DEF m, r
  <2>2. ((w * m) + r) % w = r
    BY <2>1, Remainder
  <2> QED
    BY <2>2 DEF m, r
<1> QED
  BY <1>3, <1>5 DEF c

\* A remainder is within the width, once around leaves it as it is, and what is within the
\* width is its own remainder.
LEMMA WrapAround ==
    ASSUME NEW w \in Nat \ {0}, NEW a \in Int
    PROVE  /\ a % w \in 0 .. w - 1
           /\ (a + w) % w = a % w
           /\ a \in 0 .. w - 1 => a % w = a
<1>1. a = (w * (a \div w)) + (a % w) /\ a \div w \in Int /\ a % w \in 0 .. w - 1
  BY Division
<1>2. a + w = (w * ((a \div w) + 1)) + (a % w)
  BY <1>1
<1>3. (a + w) % w = a % w
  <2> DEFINE m == (a \div w) + 1
             r == a % w
  <2>1. m \in Int /\ r \in 0 .. w - 1 /\ a + w = (w * m) + r
    BY <1>1, <1>2
  <2> HIDE DEF m, r
  <2>2. (a + w) % w = r
    BY <2>1, Remainder
  <2> QED
    BY <2>2 DEF r
<1> QED
  BY <1>1, <1>3
\* A multiple of the width does not count.
LEMMA WrapMultiple ==
    ASSUME NEW w \in Nat \ {0}, NEW a \in Int, NEW q \in Int
    PROVE  (a + (w * q)) % w = a % w
<1> DEFINE m == (a \div w) + q
           r == a % w
<1>1. a = (w * (a \div w)) + (a % w) /\ a \div w \in Int /\ a % w \in 0 .. w - 1
  BY Division
<1>2. m \in Int /\ r \in 0 .. w - 1 /\ a + (w * q) = (w * m) + r
  BY <1>1
<1> HIDE DEF m, r
<1>3. ((w * m) + r) % w = r
  BY <1>2, Remainder
<1> QED
  BY <1>2, <1>3 DEF r

\* Wrapping what is subtracted, early or late, is the same.
LEMMA WrapOnceMinus ==
    ASSUME NEW w \in Nat \ {0}, NEW a \in Int, NEW b \in Int
    PROVE  (a - (b % w)) % w = (a - b) % w
<1> DEFINE q == b \div w
           c == a - b
<1>1. b = (w * (b \div w)) + (b % w) /\ b \div w \in Int /\ b % w \in 0 .. w - 1
  BY Division
<1>2. q \in Int /\ c \in Int /\ a - (b % w) = c + (w * q)
  BY <1>1
<1> HIDE DEF q, c
<1>3. (c + (w * q)) % w = c % w
  BY <1>2, WrapMultiple
<1> QED
  BY <1>2, <1>3 DEF c

-----------------------------------------------------------------------------
(* Sums. *)

\* What holds of no elements, and with one element more if it holds without it, holds
\* of a whole finite set.
THEOREM InductionOverSet ==
    ASSUME NEW D, IsFiniteSet(D), NEW P, {} \in P,
           \A s \in SUBSET D : s # {} /\ (\A x \in s : s \ {x} \in P) => s \in P
    PROVE  D \in P
<1> DEFINE n == Cardinality(D)
           T == {k \in 0 .. n : \A s \in SUBSET D : Cardinality(s) = k => s \in P}
<1>1. /\ n \in Nat
      /\ \A s \in SUBSET D : /\ IsFiniteSet(s) /\ Cardinality(s) \in Nat
                             /\ Cardinality(s) = 0 => s = {}
                             /\ \A x \in s : Cardinality(s \ {x}) = Cardinality(s) - 1
  BY FS_CardinalityType, FS_Subset, FS_EmptySet, FS_RemoveElement
<1>2. 0 \in T
  <2>1. \A s \in SUBSET D : Cardinality(s) = 0 => s \in P
    BY <1>1
  <2> QED
    BY <1>1, <2>1
<1>3. ASSUME NEW k \in 1 .. n, k - 1 \in T PROVE k \in T
  <2>1. SUFFICES ASSUME NEW s \in SUBSET D, Cardinality(s) = k PROVE s \in P
    OBVIOUS
  <2>2. s # {}
    BY <2>1, FS_EmptySet
  <2>3. \A x \in s : Cardinality(s \ {x}) = k - 1 /\ s \ {x} \in SUBSET D
    BY <1>1, <2>1
  <2>4. \A x \in s : s \ {x} \in P
    BY <1>3, <2>3
  <2> QED
    BY <2>2, <2>4
<1>4. n \in T
  <2> HIDE DEF T, n
  <2>1. 0 .. n \subseteq T
    BY <1>1, <1>2, <1>3, InductionUpTo
  <2> QED
    BY <1>1, <2>1
<1> QED
  BY <1>4

\* The functions of subsets that the fold of a sum is defined by.
First(s) == CHOOSE x \in s : TRUE

IsFold(D, f, g) ==
    /\ g = [s \in SUBSET D |-> IF s = {} THEN 0 ELSE f[First(s)] + g[s \ {First(s)}]]
    /\ g \in [SUBSET D -> Int]

\* There is one.
LEMMA FoldExists ==
    ASSUME NEW D, IsFiniteSet(D), NEW f, \A x \in D : f[x] \in Int
    PROVE  \E g : IsFold(D, f, g)
<1> DEFINE n == Cardinality(D)
           value(g, s) == IF s = {} THEN 0 ELSE f[First(s)] + g[s \ {First(s)}]
           T == {k \in 0 .. n : \E g \in [SUBSET D -> Int] :
                     \A s \in SUBSET D : Cardinality(s) <= k => g[s] = value(g, s)}
<1>1. /\ n \in Nat
      /\ \A s \in SUBSET D : /\ IsFiniteSet(s) /\ Cardinality(s) \in 0 .. n
                             /\ Cardinality(s) = 0 => s = {}
                             /\ \A x \in s : Cardinality(s \ {x}) = Cardinality(s) - 1
  BY FS_CardinalityType, FS_Subset, FS_EmptySet, FS_RemoveElement
<1>2. \A s \in SUBSET D : s # {} => First(s) \in s
  BY DEF First
<1>3. \A g \in [SUBSET D -> Int] : [s \in SUBSET D |-> value(g, s)] \in [SUBSET D -> Int]
  BY <1>2
<1>4. 0 \in T
  <2> DEFINE zero == [s \in SUBSET D |-> 0]
  <2>1. zero \in [SUBSET D -> Int]
    OBVIOUS
  <2>2. ASSUME NEW s \in SUBSET D, Cardinality(s) <= 0 PROVE zero[s] = value(zero, s)
    <3>1. s = {}
      BY <1>1, <2>2
    <3> QED
      BY <3>1
  <2> HIDE DEF zero, value
  <2> QED
    BY <1>1, <2>1, <2>2
<1>5. ASSUME NEW k \in 1 .. n, k - 1 \in T PROVE k \in T
  <2>1. PICK g \in [SUBSET D -> Int] :
            \A s \in SUBSET D : Cardinality(s) <= k - 1 => g[s] = value(g, s)
    BY <1>5
  <2> DEFINE h == [s \in SUBSET D |-> value(g, s)]
  <2>2. ASSUME NEW s \in SUBSET D, Cardinality(s) <= k PROVE h[s] = value(h, s)
    <3>1. CASE s = {}
      BY <3>1
    <3>2. CASE s # {}
      <4> DEFINE r == s \ {First(s)}
      <4>1. r \in SUBSET D /\ Cardinality(r) <= k - 1
        BY <1>1, <1>2, <2>2, <3>2
      <4> HIDE DEF r
      <4>2. h[r] = g[r]
        BY <2>1, <4>1
      <4> QED
        BY <3>2, <4>2 DEF r
    <3> QED
      BY <3>1, <3>2
  <2>3. h \in [SUBSET D -> Int]
    BY <1>3
  <2> HIDE DEF h, value
  <2> QED
    BY <2>2, <2>3
<1>6. n \in T
  <2> HIDE DEF T, n
  <2>1. 0 .. n \subseteq T
    BY <1>1, <1>4, <1>5, InductionUpTo
  <2> QED
    BY <1>1, <2>1
<1>7. PICK g \in [SUBSET D -> Int] : \A s \in SUBSET D : g[s] = value(g, s)
  <2> HIDE DEF value, n
  <2>1. \E g \in [SUBSET D -> Int] :
            \A s \in SUBSET D : Cardinality(s) <= n => g[s] = value(g, s)
    BY <1>6
  <2>2. \A s \in SUBSET D : Cardinality(s) <= n
    BY <1>1
  <2> QED
    BY <2>1, <2>2
<1>8. g = [s \in SUBSET D |-> value(g, s)]
  <2> HIDE DEF value
  <2> QED
    BY <1>7
<1> QED
  BY <1>8 DEF IsFold

\* Whichever element it takes first.
LEMMA FoldStep ==
    ASSUME NEW D, IsFiniteSet(D), NEW f, \A x \in D : f[x] \in Int, NEW g, IsFold(D, f, g),
           NEW S \in SUBSET D, NEW x \in S
    PROVE  g[S] = f[x] + g[S \ {x}]
<1> DEFINE P == {s \in SUBSET D : \A y \in s : g[s] = f[y] + g[s \ {y}]}
<1>1. {} \in P
  OBVIOUS
<1>2. ASSUME NEW s \in SUBSET D, s # {}, \A y \in s : s \ {y} \in P PROVE s \in P
  <2> DEFINE c == First(s)
  <2>1. c \in s /\ g[s] = f[c] + g[s \ {c}] /\ f[c] \in Int
    BY <1>2 DEF First, IsFold
  <2> HIDE DEF c
  <2>2. ASSUME NEW y \in s PROVE g[s] = f[y] + g[s \ {y}]
    <3>1. CASE y = c
      BY <2>1, <3>1
    <3>2. CASE y # c
      <4> DEFINE r == s \ {c, y}
      <4>1. (s \ {c}) \ {y} = r /\ (s \ {y}) \ {c} = r /\ r \in SUBSET D
        OBVIOUS
      <4>2. y \in s \ {c} /\ c \in s \ {y}
        BY <2>1, <3>2
      <4>3. g[s \ {c}] = f[y] + g[(s \ {c}) \ {y}] /\ g[s \ {y}] = f[c] + g[(s \ {y}) \ {c}]
        BY <1>2, <2>1, <4>2
      <4>4. g[s \ {c}] = f[y] + g[r] /\ g[s \ {y}] = f[c] + g[r]
        BY <4>1, <4>3
      <4>5. g[r] \in Int /\ f[y] \in Int
        BY <4>1 DEF IsFold
      <4> QED
        BY <2>1, <4>4, <4>5
    <3> QED
      BY <3>1, <3>2
  <2> QED
    BY <2>2
<1>3. IsFiniteSet(S)
  BY FS_Subset
<1>4. S \in P
  <2> HIDE DEF P
  <2> QED
    BY <1>1, <1>2, <1>3, InductionOverSet
<1> QED
  BY <1>4

\* A sum over a set is what its fold has for it.
LEMMA SumIsFold ==
    ASSUME NEW S, IsFiniteSet(S), NEW f, \A x \in S : f[x] \in Int
    PROVE  \E g : IsFold(S, f, g) /\ SumFunctionOnSet(f, S) = g[S]
<1> DEFINE Eq(g) == g = [s \in SUBSET S |->
                            IF s = {} THEN 0 ELSE f[First(s)] + g[s \ {First(s)}]]
           iter == CHOOSE g : Eq(g)
<1>1. PICK g : IsFold(S, f, g)
  BY FoldExists
<1>2. Eq(g)
  BY <1>1 DEF IsFold
<1>3. Eq(iter)
  <2> HIDE DEF Eq
  <2> QED
    BY <1>2
<1>4. SumFunctionOnSet(f, S) = iter[S]
  BY DEF SumFunctionOnSet, FoldFunctionOnSet, MapThenFoldSet, First
<1> HIDE DEF iter
<1>5. iter = g
  <2> DEFINE P == {s \in SUBSET S : \A r \in SUBSET s : iter[r] = g[r]}
  <2>0. DOMAIN iter = SUBSET S /\ DOMAIN g = SUBSET S
    BY <1>2, <1>3
  <2>1. {} \in P
    <3>1. iter[{}] = 0 /\ g[{}] = 0
      BY <1>2, <1>3
    <3> QED
      BY <3>1
  <2>2. ASSUME NEW s \in SUBSET S, s # {}, \A x \in s : s \ {x} \in P PROVE s \in P
    <3>1. First(s) \in s
      BY <2>2 DEF First
    <3>2. iter[s \ {First(s)}] = g[s \ {First(s)}]
      BY <2>2, <3>1
    <3>3. iter[s] = g[s]
      <4>1. /\ iter[s] = f[First(s)] + iter[s \ {First(s)}]
            /\ g[s] = f[First(s)] + g[s \ {First(s)}]
        BY <1>2, <1>3, <2>2
      <4> QED
        BY <3>2, <4>1
    <3>4. ASSUME NEW r \in SUBSET s, r # s PROVE iter[r] = g[r]
      <4>1. PICK x \in s : x \notin r
        BY <3>4
      <4>2. r \in SUBSET (s \ {x})
        BY <4>1
      <4> QED
        BY <2>2, <4>1, <4>2
    <3> QED
      BY <3>3, <3>4
  <2>3. S \in P
    <3> HIDE DEF P
    <3> QED
      BY <2>1, <2>2, InductionOverSet
  <2>4. \A s \in SUBSET S : iter[s] = g[s]
    BY <2>3
  <2>5. iter = [s \in SUBSET S |-> iter[s]] /\ g = [s \in SUBSET S |-> g[s]]
    BY <1>2, <1>3
  <2> QED
    BY <2>4, <2>5
<1> QED
  BY <1>1, <1>4, <1>5

\* Folds of functions that agree on a set agree on it.
LEMMA FoldsAgree ==
    ASSUME NEW D, IsFiniteSet(D), NEW E, IsFiniteSet(E), NEW f, NEW h, NEW g, NEW k,
           \A x \in D : f[x] \in Int, \A x \in E : h[x] \in Int,
           IsFold(D, f, g), IsFold(E, h, k),
           NEW S \in SUBSET D, S \in SUBSET E, \A x \in S : f[x] = h[x]
    PROVE  g[S] = k[S]
<1> DEFINE P == {s \in SUBSET S : g[s] = k[s]}
<1>1. {} \in P
  BY DEF IsFold
<1>2. ASSUME NEW s \in SUBSET S, s # {}, \A x \in s : s \ {x} \in P PROVE s \in P
  <2>1. PICK x \in s : TRUE
    BY <1>2
  <2>2. g[s] = f[x] + g[s \ {x}] /\ k[s] = h[x] + k[s \ {x}]
    BY FoldStep
  <2> QED
    BY <1>2, <2>1, <2>2
<1>3. IsFiniteSet(S)
  BY FS_Subset
<1>4. S \in P
  <2> HIDE DEF P
  <2> QED
    BY <1>1, <1>2, <1>3, InductionOverSet
<1> QED
  BY <1>4

\* The sum over nothing.
LEMMA SumOverNone == ASSUME NEW f PROVE SumFunctionOnSet(f, {}) = 0
<1>1. PICK g : IsFold({}, f, g) /\ SumFunctionOnSet(f, {}) = g[{}]
  BY SumIsFold, FS_EmptySet
<1> QED
  BY <1>1 DEF IsFold

\* A sum is a number, and one element's value with the sum over the others.
LEMMA SumStep ==
    ASSUME NEW S, IsFiniteSet(S), NEW f, \A x \in S : f[x] \in Int
    PROVE  /\ SumFunctionOnSet(f, S) \in Int
           /\ \A x \in S : SumFunctionOnSet(f, S) = f[x] + SumFunctionOnSet(f, S \ {x})
<1>1. PICK g : IsFold(S, f, g) /\ SumFunctionOnSet(f, S) = g[S]
  BY SumIsFold
<1>2. ASSUME NEW x \in S PROVE SumFunctionOnSet(f, S) = f[x] + SumFunctionOnSet(f, S \ {x})
  <2>1. IsFiniteSet(S \ {x})
    BY FS_RemoveElement
  <2>2. PICK h : IsFold(S \ {x}, f, h) /\ SumFunctionOnSet(f, S \ {x}) = h[S \ {x}]
    BY <2>1, SumIsFold
  <2>3. g[S \ {x}] = h[S \ {x}]
    BY <1>1, <2>1, <2>2, FoldsAgree
  <2>4. g[S] = f[x] + g[S \ {x}]
    BY <1>1, FoldStep
  <2> QED
    BY <1>1, <2>2, <2>3, <2>4
<1> QED
  BY <1>1, <1>2 DEF IsFold

\* Functions that agree on a set have one sum over it.
LEMMA SumsOverAgree ==
    ASSUME NEW S, IsFiniteSet(S), NEW f, NEW h, \A x \in S : f[x] \in Int /\ f[x] = h[x]
    PROVE  SumFunctionOnSet(f, S) = SumFunctionOnSet(h, S)
<1>1. PICK g : IsFold(S, f, g) /\ SumFunctionOnSet(f, S) = g[S]
  BY SumIsFold
<1>2. PICK k : IsFold(S, h, k) /\ SumFunctionOnSet(h, S) = k[S]
  BY SumIsFold
<1> QED
  BY <1>1, <1>2, FoldsAgree

\* A sum of sums.
LEMMA SumsAdd ==
    ASSUME NEW S, IsFiniteSet(S), NEW f, NEW g, NEW h,
           \A x \in S : f[x] \in Int /\ g[x] \in Int /\ h[x] = f[x] + g[x]
    PROVE  SumFunctionOnSet(h, S) = SumFunctionOnSet(f, S) + SumFunctionOnSet(g, S)
<1> DEFINE P == {s \in SUBSET S :
                    SumFunctionOnSet(h, s) = SumFunctionOnSet(f, s) + SumFunctionOnSet(g, s)}
<1>1. {} \in P
  BY SumOverNone
<1>2. ASSUME NEW s \in SUBSET S, s # {}, \A x \in s : s \ {x} \in P PROVE s \in P
  <2>1. PICK x \in s : TRUE
    BY <1>2
  <2>2. IsFiniteSet(s) /\ IsFiniteSet(s \ {x})
    BY FS_Subset, FS_RemoveElement
  <2>3. /\ SumFunctionOnSet(f, s \ {x}) \in Int /\ SumFunctionOnSet(g, s \ {x}) \in Int
        /\ SumFunctionOnSet(f, s) = f[x] + SumFunctionOnSet(f, s \ {x})
        /\ SumFunctionOnSet(g, s) = g[x] + SumFunctionOnSet(g, s \ {x})
        /\ SumFunctionOnSet(h, s) = h[x] + SumFunctionOnSet(h, s \ {x})
    BY <2>2, SumStep
  <2> QED
    BY <1>2, <2>1, <2>3
<1>3. S \in P
  <2> HIDE DEF P
  <2> QED
    BY <1>1, <1>2, InductionOverSet
<1> QED
  BY <1>3

\* A sum of less is not more.
LEMMA SumsOverOrdered ==
    ASSUME NEW S, IsFiniteSet(S), NEW f, NEW g,
           \A x \in S : f[x] \in Int /\ g[x] \in Int /\ f[x] <= g[x]
    PROVE  SumFunctionOnSet(f, S) <= SumFunctionOnSet(g, S)
<1> DEFINE P == {s \in SUBSET S : SumFunctionOnSet(f, s) <= SumFunctionOnSet(g, s)}
<1>1. {} \in P
  BY SumOverNone
<1>2. ASSUME NEW s \in SUBSET S, s # {}, \A x \in s : s \ {x} \in P PROVE s \in P
  <2>1. PICK x \in s : TRUE
    BY <1>2
  <2>2. IsFiniteSet(s) /\ IsFiniteSet(s \ {x})
    BY FS_Subset, FS_RemoveElement
  <2>3. /\ SumFunctionOnSet(f, s \ {x}) \in Int /\ SumFunctionOnSet(g, s \ {x}) \in Int
        /\ SumFunctionOnSet(f, s) = f[x] + SumFunctionOnSet(f, s \ {x})
        /\ SumFunctionOnSet(g, s) = g[x] + SumFunctionOnSet(g, s \ {x})
    BY <2>2, SumStep
  <2> QED
    BY <1>2, <2>1, <2>3
<1>3. S \in P
  <2> HIDE DEF P
  <2> QED
    BY <1>1, <1>2, InductionOverSet
<1> QED
  BY <1>3

\* A sum of zeros.
LEMMA SumOverZeros ==
    ASSUME NEW S, IsFiniteSet(S), NEW f, \A x \in S : f[x] = 0
    PROVE  SumFunctionOnSet(f, S) = 0
<1> DEFINE P == {s \in SUBSET S : SumFunctionOnSet(f, s) = 0}
<1>1. {} \in P
  BY SumOverNone
<1>2. ASSUME NEW s \in SUBSET S, s # {}, \A x \in s : s \ {x} \in P PROVE s \in P
  <2>1. PICK x \in s : TRUE
    BY <1>2
  <2>2. IsFiniteSet(s)
    BY FS_Subset
  <2>3. SumFunctionOnSet(f, s) = f[x] + SumFunctionOnSet(f, s \ {x})
    BY <2>2, SumStep
  <2> QED
    BY <1>2, <2>1, <2>3
<1>3. S \in P
  <2> HIDE DEF P
  <2> QED
    BY <1>1, <1>2, InductionOverSet
<1> QED
  BY <1>3

\* A sum of natural numbers is one, and none of them is more.
LEMMA SumOfNaturals ==
    ASSUME NEW S, IsFiniteSet(S), NEW f, \A x \in S : f[x] \in Nat
    PROVE  /\ SumFunctionOnSet(f, S) \in Nat
           /\ \A x \in S : f[x] <= SumFunctionOnSet(f, S)
           /\ SumFunctionOnSet(f, S) = 0 => \A x \in S : f[x] = 0
<1>1. ASSUME NEW T \in SUBSET S PROVE SumFunctionOnSet(f, T) \in Nat
  <2> DEFINE zero == [x \in T |-> 0]
  <2>1. IsFiniteSet(T)
    BY FS_Subset
  <2>2. SumFunctionOnSet(zero, T) = 0
    BY <2>1, SumOverZeros
  <2>3. \A x \in T : zero[x] \in Int /\ f[x] \in Int /\ zero[x] <= f[x]
    OBVIOUS
  <2> HIDE DEF zero
  <2>4. SumFunctionOnSet(zero, T) <= SumFunctionOnSet(f, T)
    BY <2>1, <2>3, SumsOverOrdered
  <2>5. SumFunctionOnSet(f, T) \in Int
    BY <2>1, SumStep
  <2> QED
    BY <2>2, <2>4, <2>5
<1>2. ASSUME NEW x \in S
      PROVE  /\ SumFunctionOnSet(f, S) = f[x] + SumFunctionOnSet(f, S \ {x})
             /\ SumFunctionOnSet(f, S \ {x}) \in Nat
  BY <1>1, SumStep
<1>3. SumFunctionOnSet(f, S) \in Nat
  BY <1>1
<1>4. ASSUME NEW x \in S
      PROVE  /\ f[x] <= SumFunctionOnSet(f, S)
             /\ SumFunctionOnSet(f, S) = 0 => f[x] = 0
  <2> DEFINE rest == SumFunctionOnSet(f, S \ {x})
  <2>1. f[x] \in Nat /\ rest \in Nat /\ SumFunctionOnSet(f, S) = f[x] + rest
    BY <1>2
  <2> HIDE DEF rest
  <2> QED
    BY <2>1
<1> QED
  BY <1>3, <1>4

\* Where a function is zero it adds nothing.
LEMMA SumsExtend ==
    ASSUME NEW T, IsFiniteSet(T), NEW f, \A x \in T : f[x] \in Int,
           NEW S \in SUBSET T, \A x \in T \ S : f[x] = 0
    PROVE  SumFunctionOnSet(f, T) = SumFunctionOnSet(f, S)
<1> DEFINE P == {s \in SUBSET T : SumFunctionOnSet(f, s) = SumFunctionOnSet(f, s \cap S)}
<1>1. {} \in P
  OBVIOUS
<1>2. ASSUME NEW s \in SUBSET T, s # {}, \A x \in s : s \ {x} \in P PROVE s \in P
  <2>1. PICK x \in s : TRUE
    BY <1>2
  <2>2. IsFiniteSet(s) /\ IsFiniteSet(s \cap S) /\ IsFiniteSet((s \cap S) \ {x})
    BY FS_Subset
  <2>3. /\ SumFunctionOnSet(f, s) = f[x] + SumFunctionOnSet(f, s \ {x})
        /\ SumFunctionOnSet(f, s \ {x}) = SumFunctionOnSet(f, (s \ {x}) \cap S)
    BY <1>2, <2>1, <2>2, SumStep
  <2>4. CASE x \in S
    <3>1. (s \ {x}) \cap S = (s \cap S) \ {x}
      OBVIOUS
    <3>2. SumFunctionOnSet(f, s \cap S) = f[x] + SumFunctionOnSet(f, (s \cap S) \ {x})
      BY <2>1, <2>2, <2>4, SumStep
    <3> QED
      BY <2>3, <3>1, <3>2
  <2>5. CASE x \notin S
    <3>1. (s \ {x}) \cap S = s \cap S /\ f[x] = 0
      BY <2>1, <2>5
    <3>2. SumFunctionOnSet(f, s \cap S) \in Int
      BY <2>2, SumStep
    <3>3. SumFunctionOnSet(f, s \ {x}) = SumFunctionOnSet(f, s \cap S)
      BY <2>3, <3>1
    <3>4. SumFunctionOnSet(f, s) = SumFunctionOnSet(f, s \cap S)
      BY <2>3, <3>1, <3>2, <3>3
    <3> QED
      BY <3>4
  <2> QED
    BY <2>4, <2>5
<1>3. T \in P /\ T \cap S = S
  <2> HIDE DEF P
  <2> QED
    BY <1>1, <1>2, InductionOverSet
<1> QED
  BY <1>3

\* A table, and the same one with rows and columns exchanged; the sums of its rows.
IsTable(F, G, A, B) == \A a \in A, b \in B : F[a][b] \in Int /\ G[b][a] = F[a][b]

AreRowSums(rows, F, A, B) == \A a \in A : rows[a] = SumFunctionOnSet(F[a], B)

\* A table is summed by its rows as by its columns.
LEMMA SumsSwap ==
    ASSUME NEW A, IsFiniteSet(A), NEW B, IsFiniteSet(B), NEW F, NEW G, IsTable(F, G, A, B),
           NEW rows, AreRowSums(rows, F, A, B), NEW columns, AreRowSums(columns, G, B, A)
    PROVE  SumFunctionOnSet(rows, A) = SumFunctionOnSet(columns, B)
<1> DEFINE column(s) == [b \in B |-> SumFunctionOnSet(G[b], s)]
           P == {s \in SUBSET A : SumFunctionOnSet(rows, s) = SumFunctionOnSet(column(s), B)}
<1> USE DEF IsTable, AreRowSums
<1>0. \A a \in A : rows[a] \in Int
  BY SumStep
<1>1. {} \in P
  <2>1. \A b \in B : column({})[b] = 0
    BY SumOverNone
  <2> HIDE DEF column
  <2>2. SumFunctionOnSet(column({}), B) = 0
    BY <2>1, SumOverZeros
  <2> QED
    BY <2>2, SumOverNone
<1>2. ASSUME NEW s \in SUBSET A, s # {}, \A x \in s : s \ {x} \in P PROVE s \in P
  <2>1. PICK x \in s : TRUE
    BY <1>2
  <2>2. IsFiniteSet(s) /\ IsFiniteSet(s \ {x})
    BY FS_Subset
  <2>3. SumFunctionOnSet(rows, s) = rows[x] + SumFunctionOnSet(rows, s \ {x})
    BY <1>0, <2>1, <2>2, SumStep
  <2>4. ASSUME NEW b \in B
        PROVE  /\ F[x][b] \in Int /\ column(s \ {x})[b] \in Int
               /\ column(s)[b] = F[x][b] + column(s \ {x})[b]
    <3> DEFINE f == G[b]
    <3>1. \A a \in s : f[a] \in Int
      OBVIOUS
    <3>2. f[x] = F[x][b] /\ f[x] \in Int
      BY <2>1
    <3> HIDE DEF f
    <3>3. /\ SumFunctionOnSet(f, s) = f[x] + SumFunctionOnSet(f, s \ {x})
          /\ SumFunctionOnSet(f, s \ {x}) \in Int
      BY <2>1, <2>2, <3>1, SumStep
    <3> QED
      BY <2>1, <3>2, <3>3 DEF f
  <2> DEFINE all == column(s)
             others == column(s \ {x})
             row == F[x]
  <2>5. \A b \in B : row[b] \in Int /\ others[b] \in Int /\ all[b] = row[b] + others[b]
    BY <2>4
  <2>6. /\ rows[x] = SumFunctionOnSet(row, B)
        /\ SumFunctionOnSet(rows, s \ {x}) = SumFunctionOnSet(others, B)
    BY <1>2, <2>1
  <2>7. SumFunctionOnSet(rows, s) = SumFunctionOnSet(all, B)
    <3> HIDE DEF all, others, row
    <3>1. SumFunctionOnSet(all, B) = SumFunctionOnSet(row, B) + SumFunctionOnSet(others, B)
      BY <2>5, SumsAdd
    <3> QED
      BY <2>3, <2>6, <3>1
  <2> QED
    BY <2>7
<1>3. A \in P
  <2> HIDE DEF P
  <2> QED
    BY <1>1, <1>2, InductionOverSet
<1>4. \A b \in B : column(A)[b] \in Int /\ column(A)[b] = columns[b]
  <2> TAKE b \in B
  <2>1. \A a \in A : G[b][a] \in Int
    OBVIOUS
  <2>2. SumFunctionOnSet(G[b], A) \in Int
    BY <2>1, SumStep
  <2> QED
    BY <2>2
<1> HIDE DEF column
<1>5. SumFunctionOnSet(column(A), B) = SumFunctionOnSet(columns, B)
  BY <1>4, SumsOverAgree
<1> QED
  BY <1>3, <1>5

\* The elements of a set are counted by what a function makes of them.
LEMMA CountedByValue ==
    ASSUME NEW S, IsFiniteSet(S), NEW V, IsFiniteSet(V), NEW f, \A x \in S : f[x] \in V,
           NEW part, \A v \in V : part[v] \subseteq S,
           \A v \in V, x \in S : x \in part[v] <=> f[x] = v,
           NEW count, \A v \in V : count[v] = Cardinality(part[v])
    PROVE  SumFunctionOnSet(count, V) = Cardinality(S)
<1> DEFINE F == [x \in S |-> [v \in V |-> IF f[x] = v THEN 1 ELSE 0]]
           G == [v \in V |-> [x \in S |-> F[x][v]]]
           rows == [x \in S |-> SumFunctionOnSet(F[x], V)]
           one == [x \in S |-> 1]
<1>1. ASSUME NEW T \in SUBSET S PROVE SumFunctionOnSet(one, T) = Cardinality(T)
  <2> DEFINE P == {s \in SUBSET T : SumFunctionOnSet(one, s) = Cardinality(s)}
  <2>1. {} \in P
    BY SumOverNone, FS_EmptySet
  <2>2. ASSUME NEW s \in SUBSET T, s # {}, \A x \in s : s \ {x} \in P PROVE s \in P
    <3>1. PICK x \in s : TRUE
      BY <2>2
    <3>2. IsFiniteSet(s) /\ \A y \in s : one[y] = 1
      BY FS_Subset
    <3>3. SumFunctionOnSet(one, s) = 1 + SumFunctionOnSet(one, s \ {x})
      <4> HIDE DEF one
      <4> QED
        BY <3>2, SumStep
    <3>4. Cardinality(s \ {x}) = Cardinality(s) - 1 /\ Cardinality(s) \in Nat
      BY <3>1, <3>2, FS_RemoveElement, FS_CardinalityType
    <3>5. SumFunctionOnSet(one, s \ {x}) = Cardinality(s \ {x})
      BY <2>2, <3>1
    <3> QED
      BY <3>3, <3>4, <3>5
  <2>3. IsFiniteSet(T)
    BY FS_Subset
  <2>4. T \in P
    <3> HIDE DEF P
    <3> QED
      BY <2>1, <2>2, <2>3, InductionOverSet
  <2> QED
    BY <2>4
<1>2. ASSUME NEW x \in S PROVE rows[x] = one[x] /\ rows[x] \in Int
  <2> DEFINE g == F[x]
  <2>1. \A v \in V : g[v] \in Int /\ (v # f[x] => g[v] = 0)
    OBVIOUS
  <2>2. g[f[x]] = 1 /\ f[x] \in V
    OBVIOUS
  <2>3. rows[x] = SumFunctionOnSet(g, V)
    OBVIOUS
  <2> HIDE DEF g, F, rows
  <2>4. SumFunctionOnSet(g, V) = SumFunctionOnSet(g, {f[x]})
    BY <2>1, <2>2, SumsExtend
  <2>5. SumFunctionOnSet(g, {f[x]}) = g[f[x]] + SumFunctionOnSet(g, {f[x]} \ {f[x]})
    BY <2>1, <2>2, SumStep, FS_Singleton
  <2>6. {f[x]} \ {f[x]} = {}
    OBVIOUS
  <2> QED
    BY <2>2, <2>3, <2>4, <2>5, <2>6, SumOverNone
<1>3. ASSUME NEW v \in V PROVE count[v] = SumFunctionOnSet(G[v], S)
  <2> DEFINE g == G[v]
             T == part[v]
  <2>1. \A x \in S : g[x] \in Int /\ (x \notin T => g[x] = 0)
    OBVIOUS
  <2>2. \A x \in T : g[x] \in Int /\ g[x] = one[x]
    OBVIOUS
  <2>3. T \in SUBSET S /\ count[v] = Cardinality(T)
    OBVIOUS
  <2> HIDE DEF g, T, one
  <2>4. SumFunctionOnSet(g, S) = SumFunctionOnSet(g, T)
    BY <2>1, <2>3, SumsExtend
  <2>5. SumFunctionOnSet(g, T) = SumFunctionOnSet(one, T)
    BY <2>2, <2>3, FS_Subset, SumsOverAgree
  <2>6. SumFunctionOnSet(g, S) = count[v]
    BY <1>1, <2>3, <2>4, <2>5
  <2> QED
    BY <2>6 DEF g
<1>4. SumFunctionOnSet(rows, S) = SumFunctionOnSet(count, V)
  <2>1. IsTable(F, G, S, V)
    BY DEF IsTable
  <2>2. AreRowSums(rows, F, S, V)
    BY DEF AreRowSums
  <2>3. AreRowSums(count, G, V, S)
    BY <1>3 DEF AreRowSums
  <2> HIDE DEF F, G, rows
  <2> QED
    BY <2>1, <2>2, <2>3, SumsSwap
<1>5. SumFunctionOnSet(rows, S) = SumFunctionOnSet(one, S)
  <2> HIDE DEF rows, one
  <2> QED
    BY <1>2, SumsOverAgree
<1> QED
  BY <1>1, <1>4, <1>5

\* A sum of one number.
LEMMA SumOverOne ==
    ASSUME NEW x, NEW f, f[x] \in Int
    PROVE  SumFunctionOnSet(f, {x}) = f[x]
<1>1. IsFiniteSet({x}) /\ {x} \ {x} = {}
  BY FS_Singleton
<1>2. SumFunctionOnSet(f, {x}) = f[x] + SumFunctionOnSet(f, {})
  BY <1>1, SumStep
<1> QED
  BY <1>2, SumOverNone

\* The names of the summands: another for each.
IsRenaming(b, S, T) ==
    /\ b \in [S -> T] /\ \A y \in T : \E x \in S : b[x] = y
    /\ \A x, y \in S : b[x] = b[y] => x = y

\* A sum does not depend on the names of its summands.
LEMMA SumsRenamed ==
    ASSUME NEW S, IsFiniteSet(S), NEW T, NEW b, IsRenaming(b, S, T),
           NEW f, NEW h, \A x \in S : h[x] \in Int /\ f[b[x]] = h[x]
    PROVE  IsFiniteSet(T) /\ SumFunctionOnSet(f, T) = SumFunctionOnSet(h, S)
<1> DEFINE image(s) == {b[x] : x \in s}
           P == {s \in SUBSET S : SumFunctionOnSet(f, image(s)) = SumFunctionOnSet(h, s)}
<1>0. IsFiniteSet(T)
  <2>1. b \in Surjection(S, T)
    BY DEF IsRenaming, Surjection
  <2> QED
    BY <2>1, FS_Surjection
<1>1. {} \in P
  <2>1. image({}) = {}
    OBVIOUS
  <2> QED
    BY <2>1, SumOverNone
<1>2. ASSUME NEW s \in SUBSET S, s # {}, \A x \in s : s \ {x} \in P PROVE s \in P
  <2>1. PICK x \in s : TRUE
    BY <1>2
  <2>2. IsFiniteSet(s) /\ IsFiniteSet(image(s))
    <3>1. image(s) \subseteq T
      BY DEF IsRenaming
    <3> HIDE DEF image
    <3> QED
      BY <1>0, <3>1, FS_Subset
  <2>3. image(s) \ {b[x]} = image(s \ {x}) /\ b[x] \in image(s)
    BY <2>1 DEF IsRenaming
  <2>4. \A y \in image(s) : f[y] \in Int
    OBVIOUS
  <2> HIDE DEF image
  <2>5. SumFunctionOnSet(f, image(s)) = f[b[x]] + SumFunctionOnSet(f, image(s) \ {b[x]})
    BY <2>2, <2>3, <2>4, SumStep
  <2>6. SumFunctionOnSet(h, s) = h[x] + SumFunctionOnSet(h, s \ {x})
    BY <2>1, <2>2, SumStep
  <2>7. SumFunctionOnSet(f, image(s \ {x})) = SumFunctionOnSet(h, s \ {x})
    BY <1>2, <2>1
  <2> QED
    BY <2>1, <2>3, <2>5, <2>6, <2>7
<1>3. S \in P
  <2> HIDE DEF P
  <2> QED
    BY <1>1, <1>2, InductionOverSet
<1>4. image(S) = T
  BY DEF IsRenaming
<1> QED
  BY <1>0, <1>3, <1>4
=============================================================================
