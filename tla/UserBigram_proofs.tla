--------------------------- MODULE UserBigram_proofs ---------------------------
(***************************************************************************)
(* Proofs about module UserBigram, for any tokens, sentences, predictions, *)
(* masks, seeds and width of a frequency.                                  *)
(*                                                                         *)
(* First what the operators on one gram do: where lower_bound looks, what  *)
(* an insertion, a change and a masking leave of the order and of the sum. *)
(* A sum, and each loop, is a recursive function, which RecursionUpTo says *)
(* to exist and InductionUpTo reasons about.  TypeOK has only whole grams; *)
(* NamesInv says which phrases they, and the sentence, are of.  Then the   *)
(* export: ExportInv is what it has read and still remembers.  Last the    *)
(* merge with a system gram, turn by turn.                                 *)
(***************************************************************************)
EXTENDS UserBigram, SequenceTheorems, FiniteSetTheorems, NumberLemmas

ItemSet == [token : Tokens, freq : 0 .. Wrap - 1]

Sorted(items) == \A j, k \in DOMAIN items : j < k => items[j].token < items[k].token

-----------------------------------------------------------------------------
(* The smallest and the greatest. *)

\* Min and Max of two numbers.
LEMMA OfTwo ==
    ASSUME NEW a \in Nat, NEW b \in Nat
    PROVE  Min({a, b}) \in {a, b} /\ Max({a, b}) \in {a, b}
           /\ Max({a, b}) >= a /\ Max({a, b}) >= b
<1>1. \E x \in {a, b} : \A y \in {a, b} : x =< y
  OBVIOUS
<1>2. \E x \in {a, b} : \A y \in {a, b} : x >= y
  OBVIOUS
<1> QED
  BY <1>1, <1>2 DEF Min, Max

\* Min of any set of numbers that is not empty.
LEMMA LeastOf ==
    ASSUME NEW T \in SUBSET Nat, T # {}
    PROVE  Min(T) \in T /\ \A y \in T : Min(T) <= y
BY LeastElement DEF Min

-----------------------------------------------------------------------------
(* The items of a gram. *)

\* lower_bound is the border between the smaller tokens and the others.
LEMMA LowerBoundIs ==
    ASSUME NEW items \in Seq(ItemSet), NEW token \in Nat
    PROVE  /\ LowerBound(items, token) \in 1 .. Len(items) + 1
           /\ \A j \in DOMAIN items : j < LowerBound(items, token) => items[j].token < token
           /\ LowerBound(items, token) \in DOMAIN items
                => items[LowerBound(items, token)].token >= token
<1> DEFINE T == {k \in DOMAIN items : items[k].token >= token} \cup {Len(items) + 1}
           b == LowerBound(items, token)
<1>1. T \in SUBSET Nat /\ T # {} /\ \A k \in T : k \in 1 .. Len(items) + 1
  OBVIOUS
<1>2. b \in T /\ \A y \in T : b <= y
  <2> HIDE DEF T
  <2>1. Min(T) \in T /\ \A y \in T : Min(T) <= y
    BY <1>1, LeastOf
  <2> QED
    BY <2>1 DEF LowerBound, T
<1>3. \A j \in DOMAIN items : items[j] \in ItemSet /\ j \in Nat
  OBVIOUS
<1>4. \A j \in DOMAIN items : items[j].token \in Nat
  BY <1>3, UserBigramAssumption DEF ItemSet
<1> HIDE DEF b
<1>5. ASSUME NEW j \in DOMAIN items, j < b PROVE items[j].token < token
  <2>1. j \notin T
    BY <1>1, <1>2, <1>3, <1>5
  <2> QED
    BY <1>4, <2>1
<1> QED
  BY <1>1, <1>2, <1>5 DEF b

\* The token a gram has is found at the lower bound, the token it has not is
\* greater than everything below.
LEMMA FoundAtLowerBound ==
    ASSUME NEW items \in Seq(ItemSet), Sorted(items), NEW token \in Nat
    PROVE  LET b == LowerBound(items, token)
           IN  /\ token \in TokensOf(items) <=> b \in DOMAIN items /\ items[b].token = token
               /\ token \notin TokensOf(items) =>
                     \A j \in DOMAIN items : j >= b => items[j].token > token
<1> DEFINE b == LowerBound(items, token)
<1>1. /\ b \in 1 .. Len(items) + 1
      /\ \A j \in DOMAIN items : j < b => items[j].token < token
      /\ b \in DOMAIN items => items[b].token >= token
  BY LowerBoundIs
<1> HIDE DEF b
<1>2. DOMAIN items = 1 .. Len(items) /\ Len(items) \in Nat
  OBVIOUS
<1>3. \A j \in DOMAIN items : items[j].token \in Nat
  <2>1. \A j \in DOMAIN items : items[j] \in ItemSet
    OBVIOUS
  <2> QED
    BY <2>1, UserBigramAssumption DEF ItemSet
<1>4. ASSUME NEW j \in DOMAIN items, j > b PROVE items[j].token > token
  <2>1. b \in DOMAIN items
    BY <1>1, <1>2, <1>4
  <2>2. items[b].token < items[j].token
    BY <1>1, <1>4, <2>1 DEF Sorted
  <2> QED
    BY <1>1, <1>3, <2>1, <2>2
<1>5. \A t : t \in TokensOf(items) <=> \E k \in DOMAIN items : items[k].token = t
  BY DEF TokensOf
<1>6. \A k \in DOMAIN items : items[k].token = token => k = b
  BY <1>1, <1>2, <1>3, <1>4
<1> QED
  BY <1>1, <1>2, <1>3, <1>4, <1>5, <1>6 DEF b

\* What is inserted, and what moves behind it.
LEMMA InsertAtIs ==
    ASSUME NEW S, NEW s \in Seq(S), NEW k \in 1 .. Len(s) + 1, NEW e \in S
    PROVE  /\ InsertAt(s, k, e) \in Seq(S)
           /\ Len(InsertAt(s, k, e)) = Len(s) + 1
           /\ \A j \in 1 .. Len(s) + 1 :
                 InsertAt(s, k, e)[j] = IF j < k THEN s[j] ELSE IF j = k THEN e ELSE s[j - 1]
<1> DEFINE a == SubSeq(s, 1, k - 1)
           b == SubSeq(s, k, Len(s))
           m == <<e>>
<1>1. Len(s) \in Nat /\ k \in Nat
  OBVIOUS
<1>2. a \in Seq(S) /\ Len(a) = k - 1 /\ \A j \in 1 .. k - 1 : a[j] = s[j]
  OBVIOUS
<1>3. b \in Seq(S) /\ Len(b) = Len(s) - k + 1 /\ \A j \in 1 .. Len(s) - k + 1 : b[j] = s[j + k - 1]
  OBVIOUS
<1>4. m \in Seq(S) /\ Len(m) = 1 /\ m[1] = e
  OBVIOUS
<1>5. InsertAt(s, k, e) = a \o m \o b
  BY DEF InsertAt
<1> HIDE DEF a, b, m
<1> DEFINE c == a \o m
<1>6. c \in Seq(S) /\ Len(c) = k /\ \A j \in 1 .. k : c[j] = IF j < k THEN s[j] ELSE e
  <2>1. /\ c \in Seq(S) /\ Len(c) = Len(a) + Len(m)
        /\ \A j \in 1 .. Len(a) + Len(m) : c[j] = IF j <= Len(a) THEN a[j] ELSE m[j - Len(a)]
    BY <1>2, <1>4, ConcatProperties
  <2>2. Len(a) + Len(m) = k /\ \A j \in 1 .. k : j <= Len(a) <=> j < k
    BY <1>1, <1>2, <1>4
  <2>3. \A j \in 1 .. k : j < k => j \in 1 .. k - 1
    BY <1>1
  <2>4. \A j \in 1 .. k : ~(j < k) => j - Len(a) = 1
    BY <1>1, <1>2
  <2> HIDE DEF c
  <2> QED
    BY <1>2, <1>4, <2>1, <2>2, <2>3, <2>4
<1> HIDE DEF c
<1> DEFINE d == c \o b
<1>7. /\ d \in Seq(S) /\ Len(d) = Len(c) + Len(b)
      /\ \A j \in 1 .. Len(c) + Len(b) : d[j] = IF j <= Len(c) THEN c[j] ELSE b[j - Len(c)]
  BY <1>3, <1>6, ConcatProperties
<1> HIDE DEF d
<1>8. Len(c) + Len(b) = Len(s) + 1 /\ Len(c) = k
  BY <1>1, <1>3, <1>6
<1>9. ASSUME NEW j \in 1 .. Len(s) + 1
      PROVE  d[j] = IF j < k THEN s[j] ELSE IF j = k THEN e ELSE s[j - 1]
  <2>1. CASE j <= k
    BY <1>1, <1>6, <1>7, <1>8, <2>1
  <2>2. CASE j > k
    <3>1. j - k \in 1 .. Len(s) - k + 1 /\ (j - k) + k - 1 = j - 1
      BY <1>1, <2>2
    <3>2. d[j] = b[j - k]
      BY <1>1, <1>7, <1>8, <2>2
    <3> QED
      BY <1>1, <1>3, <2>2, <3>1, <3>2
  <2> QED
    BY <1>1, <2>1, <2>2
<1> QED
  BY <1>5, <1>7, <1>8, <1>9 DEF c, d

\* An insertion at the lower bound keeps the order and adds the one token.
LEMMA Inserted ==
    ASSUME NEW items \in Seq(ItemSet), Sorted(items), NEW token \in Tokens,
           NEW freq \in 0 .. Wrap - 1
    PROVE  /\ InsertFreq(items, token, freq) \in Seq(ItemSet)
           /\ Sorted(InsertFreq(items, token, freq))
           /\ TokensOf(InsertFreq(items, token, freq)) = TokensOf(items) \cup {token}
           /\ token \notin TokensOf(items) =>
                 LET b == LowerBound(items, token)
                     new == InsertFreq(items, token, freq)
                 IN  /\ b \in 1 .. Len(items) + 1
                     /\ Len(new) = Len(items) + 1
                     /\ \A j \in 1 .. Len(items) + 1 :
                           new[j] = IF j < b THEN items[j]
                                    ELSE IF j = b THEN Item(token, freq) ELSE items[j - 1]
<1>1. token \in Nat /\ Item(token, freq) \in ItemSet /\ Item(token, freq).token = token
  BY UserBigramAssumption DEF Item, ItemSet
<1>2. CASE token \in TokensOf(items)
  BY <1>2 DEF InsertFreq
<1>3. CASE token \notin TokensOf(items)
  <2> DEFINE b == LowerBound(items, token)
             new == InsertAt(items, b, Item(token, freq))
  <2>1. InsertFreq(items, token, freq) = new
    BY <1>3 DEF InsertFreq
  <2>2. b \in 1 .. Len(items) + 1 /\ \A j \in DOMAIN items : j < b => items[j].token < token
    BY <1>1, LowerBoundIs
  <2>3. \A j \in DOMAIN items : j >= b => items[j].token > token
    BY <1>1, <1>3, FoundAtLowerBound
  <2> HIDE DEF b
  <2>4. /\ new \in Seq(ItemSet)
        /\ Len(new) = Len(items) + 1
        /\ \A j \in 1 .. Len(items) + 1 :
              new[j] = IF j < b THEN items[j]
                       ELSE IF j = b THEN Item(token, freq) ELSE items[j - 1]
    BY <1>1, <2>2, InsertAtIs
  <2> HIDE DEF new
  <2>5. DOMAIN new = 1 .. Len(items) + 1 /\ DOMAIN items = 1 .. Len(items) /\ Len(items) \in Nat
    BY <2>4
  <2>6. Sorted(new)
    <3>1. SUFFICES ASSUME NEW j \in DOMAIN new, NEW k \in DOMAIN new, j < k
                   PROVE  new[j].token < new[k].token
      BY DEF Sorted
    <3>2. CASE k < b
      BY <2>2, <2>4, <2>5, <3>1, <3>2 DEF Sorted
    <3>3. CASE k = b
      BY <1>1, <2>2, <2>4, <2>5, <3>1, <3>3
    <3>4. CASE j = b
      <4>1. k - 1 \in DOMAIN items /\ k - 1 >= b /\ k # b /\ ~(k < b)
        BY <2>2, <2>5, <3>1, <3>4
      <4>2. new[k] = items[k - 1] /\ new[j] = Item(token, freq)
        BY <2>2, <2>4, <2>5, <3>4, <4>1
      <4>3. items[k - 1].token > token
        BY <2>3, <4>1
      <4> QED
        BY <1>1, <4>1, <4>2, <4>3, UserBigramAssumption DEF ItemSet
    <3>5. CASE k > b /\ j > b
      <4>1. k - 1 \in DOMAIN items /\ j - 1 \in DOMAIN items /\ j - 1 < k - 1
        BY <2>2, <2>5, <3>1, <3>5
      <4>2. new[k] = items[k - 1] /\ new[j] = items[j - 1]
        BY <2>2, <2>4, <2>5, <3>5
      <4> QED
        BY <4>1, <4>2 DEF Sorted
    <3>6. CASE k > b /\ j < b
      <4>1. k - 1 \in DOMAIN items /\ j \in DOMAIN items /\ j < k - 1
        BY <2>2, <2>5, <3>1, <3>6
      <4>2. new[k] = items[k - 1] /\ new[j] = items[j]
        BY <2>2, <2>4, <2>5, <3>6
      <4> QED
        BY <4>1, <4>2 DEF Sorted
    <3> QED
      BY <2>2, <2>5, <3>2, <3>3, <3>4, <3>5, <3>6
  <2>7. TokensOf(new) = TokensOf(items) \cup {token}
    <3>1. ASSUME NEW j \in DOMAIN new PROVE new[j].token \in TokensOf(items) \cup {token}
      <4>1. CASE j = b
        BY <1>1, <2>4, <2>5, <4>1
      <4>2. CASE j < b
        BY <2>2, <2>4, <2>5, <4>2 DEF TokensOf
      <4>3. CASE j > b
        <5>1. j - 1 \in DOMAIN items /\ new[j] = items[j - 1]
          BY <2>2, <2>4, <2>5, <4>3
        <5> QED
          BY <5>1 DEF TokensOf
      <4> QED
        BY <2>2, <2>5, <4>1, <4>2, <4>3
    <3>2. ASSUME NEW j \in DOMAIN items PROVE items[j].token \in TokensOf(new)
      <4>1. CASE j < b
        <5>1. j \in DOMAIN new /\ new[j] = items[j]
          BY <2>2, <2>4, <2>5, <4>1
        <5> QED
          BY <5>1 DEF TokensOf
      <4>2. CASE j >= b
        <5>1. j + 1 \in DOMAIN new /\ new[j + 1] = items[j]
          BY <2>2, <2>4, <2>5, <4>2
        <5> QED
          BY <5>1 DEF TokensOf
      <4> QED
        BY <2>2, <2>5, <4>1, <4>2
    <3>3. token \in TokensOf(new)
      <4>1. b \in DOMAIN new /\ new[b] = Item(token, freq)
        BY <2>2, <2>4, <2>5
      <4> QED
        BY <1>1, <4>1 DEF TokensOf
    <3> QED
      BY <3>1, <3>2, <3>3 DEF TokensOf
  <2> QED
    BY <1>3, <2>1, <2>2, <2>4, <2>6, <2>7 DEF b
<1> QED
  BY <1>2, <1>3

\* Setting a frequency changes nothing else.
LEMMA FrequencySet ==
    ASSUME NEW items \in Seq(ItemSet), Sorted(items), NEW token \in TokensOf(items),
           NEW freq \in Nat
    PROVE  LET b == LowerBound(items, token)
               new == SetFreq(items, token, freq)
           IN  /\ b \in DOMAIN items /\ items[b].token = token
               /\ GetFreq(items, token) = items[b].freq
               /\ new \in Seq(ItemSet) /\ Sorted(new) /\ Len(new) = Len(items)
               /\ TokensOf(new) = TokensOf(items)
               /\ \A j \in DOMAIN items :
                     new[j] = IF j = b THEN Item(token, freq % Wrap) ELSE items[j]
<1> DEFINE b == LowerBound(items, token)
           new == SetFreq(items, token, freq)
<1>1. \A j \in DOMAIN items : items[j] \in ItemSet
  OBVIOUS
<1>2. token \in Nat
  BY <1>1, UserBigramAssumption DEF TokensOf, ItemSet
<1>3. b \in DOMAIN items /\ items[b].token = token
  BY <1>2, FoundAtLowerBound
<1>4. GetFreq(items, token) = items[b].freq
  BY <1>3 DEF GetFreq
<1>5. new = [items EXCEPT ![b].freq = freq % Wrap]
  BY <1>3 DEF SetFreq
<1> HIDE DEF b
<1>6. freq % Wrap \in 0 .. Wrap - 1
  <2>1. Wrap \in Nat \ {0} /\ freq \in Int
    BY UserBigramAssumption
  <2> QED
    BY <2>1, WrapAround
<1>7. [items[b] EXCEPT !.freq = freq % Wrap] = Item(token, freq % Wrap)
  BY <1>1, <1>3 DEF Item, ItemSet
<1>8. Item(token, freq % Wrap) \in ItemSet
  BY <1>1, <1>3, <1>6 DEF Item, ItemSet
<1>9. new = [items EXCEPT ![b] = Item(token, freq % Wrap)]
  BY <1>5, <1>7
<1> HIDE DEF new
<1>10. new \in Seq(ItemSet) /\ Len(new) = Len(items) /\ DOMAIN new = DOMAIN items
  BY <1>3, <1>8, <1>9
<1>11. \A j \in DOMAIN items : new[j] = IF j = b THEN Item(token, freq % Wrap) ELSE items[j]
  BY <1>3, <1>9
<1>12. \A j \in DOMAIN items : new[j].token = items[j].token
  BY <1>3, <1>11 DEF Item
<1>13. Sorted(new) /\ TokensOf(new) = TokensOf(items)
  BY <1>10, <1>12 DEF Sorted, TokensOf
<1> QED
  BY <1>3, <1>4, <1>10, <1>11, <1>13 DEF b, new

-----------------------------------------------------------------------------
(* The sum of the frequencies. *)

\* The sums up to each item.
Sums(items, f) ==
    /\ f \in [0 .. Len(items) -> Int]
    /\ f[0] = 0
    /\ \A k \in 1 .. Len(items) : f[k] = f[k - 1] + items[k].freq

\* The sum of the frequencies is the last of the sums up to each item.
LEMMA SumIs ==
    ASSUME NEW items \in Seq(ItemSet), NEW f, Sums(items, f)
    PROVE  SumFreqs(items) = f[Len(items)]
<1> DEFINE n == Len(items)
           sum[k \in 0 .. n] == IF k = 0 THEN 0 ELSE sum[k - 1] + items[k].freq
<1>1. n \in Nat
  OBVIOUS
<1>2. SumFreqs(items) = sum[n]
  BY DEF SumFreqs
<1>3. f = [k \in 0 .. n |-> IF k = 0 THEN 0 ELSE f[k - 1] + items[k].freq]
  <2>1. \A k \in 0 .. n : f[k] = IF k = 0 THEN 0 ELSE f[k - 1] + items[k].freq
    BY DEF Sums
  <2>2. f = [k \in 0 .. n |-> f[k]]
    BY DEF Sums
  <2> QED
    BY <2>1, <2>2
<1>4. sum = [k \in 0 .. n |-> IF k = 0 THEN 0 ELSE sum[k - 1] + items[k].freq]
  <2>1. \E g : g = [k \in 0 .. n |-> IF k = 0 THEN 0 ELSE g[k - 1] + items[k].freq]
    BY <1>3
  <2> QED
    BY <2>1 DEF sum
<1> HIDE DEF sum
<1> DEFINE T == {k \in 0 .. n : sum[k] = f[k]}
<1>5. 0 \in T
  BY <1>1, <1>4 DEF Sums
<1>6. ASSUME NEW k \in 1 .. n, k - 1 \in T PROVE k \in T
  <2>1. k \in 0 .. n /\ k # 0 /\ k - 1 \in 0 .. n
    BY <1>1
  <2> QED
    BY <1>4, <1>6, <2>1 DEF Sums
<1>7. 0 .. n \subseteq T
  <2> HIDE DEF T
  <2> QED
    BY <1>1, <1>5, <1>6, InductionUpTo
<1> QED
  BY <1>1, <1>2, <1>7

\* Every list has such sums.
LEMMA SumExists ==
    ASSUME NEW items \in Seq(ItemSet)
    PROVE  \E f : Sums(items, f)
<1> DEFINE n == Len(items)
           Step == [k \in 1 .. n |-> [x \in Int |-> x + items[k].freq]]
<1>1. \A k \in 1 .. n : items[k].freq \in Int
  <2>1. \A k \in 1 .. n : items[k] \in ItemSet
    OBVIOUS
  <2> QED
    BY <2>1, UserBigramAssumption DEF ItemSet
<1>2. n \in Nat /\ Step \in [1 .. n -> [Int -> Int]]
  BY <1>1
<1>3. PICK f \in Recursions(n, Int, 0, Step) : TRUE
  <2> DEFINE A == Int
             a == 0
  <2>1. a \in A /\ n \in Nat /\ Step \in [1 .. n -> [A -> A]]
    BY <1>2
  <2> HIDE DEF Step, n, A, a
  <2>2. Recursions(n, A, a, Step) # {}
    BY <2>1, RecursionUpTo
  <2> QED
    BY <2>2 DEF A, a
<1> HIDE DEF Step
<1>4. f \in [0 .. n -> Int] /\ f[0] = 0 /\ \A k \in 1 .. n : f[k] = Step[k][f[k - 1]]
  BY DEF Recursions
<1>5. ASSUME NEW k \in 1 .. n PROVE f[k] = f[k - 1] + items[k].freq
  <2>1. k \in 0 .. n /\ k # 0 /\ k - 1 \in 0 .. n
    BY <1>2
  <2>2. f[k] = Step[k][f[k - 1]] /\ f[k - 1] \in Int
    BY <1>4, <2>1
  <2> QED
    BY <2>2 DEF Step
<1> QED
  BY <1>2, <1>4, <1>5 DEF Sums

\* An empty list sums up to nothing.
LEMMA SumOfNone == SumFreqs(<<>>) = 0
<1> DEFINE f == [k \in 0 .. 0 |-> 0]
<1>1. <<>> \in Seq(ItemSet) /\ Len(<<>>) = 0
  OBVIOUS
<1>2. Sums(<<>>, f)
  BY <1>1 DEF Sums
<1>3. SumFreqs(<<>>) = f[0]
  BY <1>1, <1>2, SumIs
<1> QED
  BY <1>3

\* One item more.
LEMMA SumOfAppend ==
    ASSUME NEW items \in Seq(ItemSet), NEW item \in ItemSet
    PROVE  /\ SumFreqs(items) \in Int
           /\ SumFreqs(Append(items, item)) = SumFreqs(items) + item.freq
<1>1. PICK f : Sums(items, f)
  BY SumExists
<1>2. SumFreqs(items) = f[Len(items)]
  BY <1>1, SumIs
<1> DEFINE n == Len(items)
           new == Append(items, item)
           g == [k \in 0 .. n + 1 |-> IF k <= n THEN f[k] ELSE f[n] + item.freq]
<1>3. n \in Nat /\ new \in Seq(ItemSet) /\ Len(new) = n + 1 /\ item.freq \in Int
  BY UserBigramAssumption DEF ItemSet
<1>4. \A k \in 1 .. n + 1 : new[k] = IF k <= n THEN items[k] ELSE item
  OBVIOUS
<1>5. f \in [0 .. n -> Int] /\ f[0] = 0 /\ \A k \in 1 .. n : f[k] = f[k - 1] + items[k].freq
  BY <1>1 DEF Sums
<1> HIDE DEF n, new
<1>6. g \in [0 .. n + 1 -> Int] /\ g[0] = 0
  BY <1>3, <1>5
<1>7. ASSUME NEW k \in 1 .. n + 1 PROVE g[k] = g[k - 1] + new[k].freq
  <2>1. CASE k <= n
    <3>1. k \in 1 .. n /\ k \in 0 .. n + 1 /\ k - 1 \in 0 .. n + 1 /\ k - 1 <= n
      BY <1>3, <2>1
    <3> QED
      BY <1>4, <1>5, <2>1, <3>1
  <2>2. CASE k > n
    <3>1. k = n + 1 /\ k - 1 = n /\ ~(k <= n) /\ k \in 0 .. n + 1 /\ n \in 0 .. n + 1
      BY <1>3, <2>2
    <3> QED
      BY <1>4, <3>1
  <2> QED
    BY <1>3, <2>1, <2>2
<1>8. Sums(new, g)
  BY <1>3, <1>6, <1>7 DEF Sums
<1>9. SumFreqs(new) = g[n + 1]
  BY <1>3, <1>8, SumIs
<1>10. g[n + 1] = f[n] + item.freq
  BY <1>3
<1> QED
  BY <1>2, <1>3, <1>5, <1>9, <1>10 DEF n, new

\* One item more, anywhere.
LEMMA SumOfInserted ==
    ASSUME NEW items \in Seq(ItemSet), NEW new \in Seq(ItemSet), NEW item \in ItemSet,
           NEW b \in 1 .. Len(items) + 1, Len(new) = Len(items) + 1,
           \A j \in 1 .. Len(items) + 1 :
               new[j] = IF j < b THEN items[j] ELSE IF j = b THEN item ELSE items[j - 1]
    PROVE  SumFreqs(new) = SumFreqs(items) + item.freq
<1>1. PICK f : Sums(items, f)
  BY SumExists
<1>2. SumFreqs(items) = f[Len(items)]
  BY <1>1, SumIs
<1> DEFINE n == Len(items)
           g == [k \in 0 .. n + 1 |-> IF k < b THEN f[k] ELSE f[k - 1] + item.freq]
<1>3. n \in Nat /\ item.freq \in Int
  BY UserBigramAssumption DEF ItemSet
<1>4. f \in [0 .. n -> Int] /\ f[0] = 0 /\ \A k \in 1 .. n : f[k] = f[k - 1] + items[k].freq
  BY <1>1 DEF Sums
<1>5. \A j \in 1 .. n + 1 :
         new[j] = IF j < b THEN items[j] ELSE IF j = b THEN item ELSE items[j - 1]
  OBVIOUS
<1>6. b \in 1 .. n + 1 /\ Len(new) = n + 1
  OBVIOUS
<1> HIDE DEF n
<1>7. g \in [0 .. n + 1 -> Int] /\ g[0] = 0
  <2>1. ASSUME NEW k \in 0 .. n + 1 PROVE g[k] \in Int
    <3>1. k < b => k \in 0 .. n
      BY <1>3, <1>6
    <3>2. ~(k < b) => k - 1 \in 0 .. n
      BY <1>3, <1>6
    <3> QED
      BY <1>3, <1>4, <3>1, <3>2
  <2> QED
    BY <1>3, <1>4, <1>6, <2>1
<1>8. ASSUME NEW k \in 1 .. n + 1 PROVE g[k] = g[k - 1] + new[k].freq
  <2>1. k \in 0 .. n + 1 /\ k - 1 \in 0 .. n + 1
    BY <1>3
  <2>2. CASE k < b
    <3>1. k \in 1 .. n /\ k - 1 < b
      BY <1>3, <1>6, <2>2
    <3> QED
      BY <1>4, <1>5, <2>1, <2>2, <3>1
  <2>3. CASE k = b
    <3>1. k - 1 < b /\ ~(k < b) /\ g[k - 1] = f[k - 1]
      BY <1>3, <1>6, <2>1, <2>3
    <3> QED
      BY <1>5, <2>1, <2>3, <3>1
  <2>4. CASE k > b
    <3>1. k - 1 \in 1 .. n /\ ~(k - 1 < b) /\ ~(k < b) /\ k # b
      BY <1>3, <1>6, <2>4
    <3>2. f[k - 1] = f[(k - 1) - 1] + items[k - 1].freq
      BY <1>4, <3>1
    <3>3. new[k] = items[k - 1] /\ g[k] = f[k - 1] + item.freq
          /\ g[k - 1] = f[(k - 1) - 1] + item.freq
      BY <1>5, <2>1, <3>1
    <3>4. f[(k - 1) - 1] \in Int /\ f[k - 1] \in Int
      BY <1>4, <1>3, <3>1
    <3>5. items[k - 1].freq \in Int
      <4>1. items[k - 1] \in ItemSet
        BY <3>1 DEF n
      <4> QED
        BY <4>1, UserBigramAssumption DEF ItemSet
    <3>6. item.freq \in Int
      BY <1>3
    <3>7. (f[k - 1] + item.freq) = (f[(k - 1) - 1] + item.freq) + items[k - 1].freq
      BY <3>2, <3>4, <3>5, <3>6
    <3> QED
      BY <3>3, <3>7
  <2> QED
    BY <1>3, <1>6, <2>2, <2>3, <2>4
<1>9. Sums(new, g)
  BY <1>6, <1>7, <1>8 DEF Sums
<1>10. SumFreqs(new) = g[n + 1]
  BY <1>6, <1>9, SumIs
<1>11. g[n + 1] = f[n] + item.freq
  BY <1>3, <1>6
<1> QED
  BY <1>2, <1>10, <1>11 DEF n

\* One frequency changed.
LEMMA SumOfChanged ==
    ASSUME NEW items \in Seq(ItemSet), NEW new \in Seq(ItemSet), NEW b \in DOMAIN items,
           Len(new) = Len(items),
           \A j \in DOMAIN items : j # b => new[j] = items[j]
    PROVE  SumFreqs(new) = SumFreqs(items) - items[b].freq + new[b].freq
<1>1. PICK f : Sums(items, f)
  BY SumExists
<1>2. SumFreqs(items) = f[Len(items)]
  BY <1>1, SumIs
<1> DEFINE n == Len(items)
           c == new[b].freq - items[b].freq
           g == [k \in 0 .. n |-> IF k < b THEN f[k] ELSE f[k] + c]
<1>3. n \in Nat /\ DOMAIN items = 1 .. n /\ b \in 1 .. n /\ Len(new) = n
  OBVIOUS
<1>4. \A k \in 1 .. n : items[k].freq \in Int /\ new[k].freq \in Int
  <2>1. \A k \in 1 .. n : items[k] \in ItemSet /\ new[k] \in ItemSet
    OBVIOUS
  <2> QED
    BY <2>1, UserBigramAssumption DEF ItemSet
<1>5. f \in [0 .. n -> Int] /\ f[0] = 0 /\ \A k \in 1 .. n : f[k] = f[k - 1] + items[k].freq
  BY <1>1 DEF Sums
<1>6. \A j \in 1 .. n : j # b => new[j] = items[j]
  BY <1>3
<1> HIDE DEF n
<1>7. c \in Int /\ new[b].freq = items[b].freq + c
  BY <1>3, <1>4
<1> HIDE DEF c
<1>8. g \in [0 .. n -> Int] /\ g[0] = 0
  BY <1>3, <1>5, <1>7
<1>9. ASSUME NEW k \in 1 .. n PROVE g[k] = g[k - 1] + new[k].freq
  <2>1. k \in 0 .. n /\ k - 1 \in 0 .. n /\ f[k] = f[k - 1] + items[k].freq
        /\ f[k - 1] \in Int /\ items[k].freq \in Int
    BY <1>3, <1>4, <1>5
  <2>2. CASE k < b
    BY <1>3, <1>6, <2>1, <2>2
  <2>3. CASE k = b
    BY <1>3, <1>7, <2>1, <2>3
  <2>4. CASE k > b
    BY <1>3, <1>6, <1>7, <2>1, <2>4
  <2> QED
    BY <1>3, <2>2, <2>3, <2>4
<1>10. Sums(new, g)
  BY <1>3, <1>8, <1>9 DEF Sums
<1>11. SumFreqs(new) = g[n]
  BY <1>3, <1>10, SumIs
<1>12. g[n] = f[n] + c /\ f[n] \in Int
  BY <1>3, <1>5
<1> QED
  BY <1>2, <1>3, <1>4, <1>11, <1>12 DEF n, c

-----------------------------------------------------------------------------
(* Masking. *)

\* A list stays sorted when an item with a greater token is put behind it.
LEMMA Appended ==
    ASSUME NEW items \in Seq(ItemSet), Sorted(items), NEW item \in ItemSet,
           \A t \in TokensOf(items) : t < item.token
    PROVE  /\ Append(items, item) \in Seq(ItemSet)
           /\ Sorted(Append(items, item))
           /\ TokensOf(Append(items, item)) = TokensOf(items) \cup {item.token}
<1> DEFINE n == Len(items)
           new == Append(items, item)
<1>1. n \in Nat /\ DOMAIN items = 1 .. n /\ new \in Seq(ItemSet) /\ DOMAIN new = 1 .. n + 1
  OBVIOUS
<1>2. new[n + 1] = item /\ \A j \in 1 .. n : new[j] = items[j]
  OBVIOUS
<1> HIDE DEF new
<1>3. Sorted(new)
  <2>1. SUFFICES ASSUME NEW j \in DOMAIN new, NEW k \in DOMAIN new, j < k
                 PROVE  new[j].token < new[k].token
    BY DEF Sorted
  <2>2. j \in 1 .. n /\ new[j] = items[j]
    BY <1>1, <1>2, <2>1
  <2>3. CASE k = n + 1
    <3>1. items[j].token \in TokensOf(items)
      BY <1>1, <2>2 DEF TokensOf
    <3> QED
      BY <1>2, <2>2, <2>3, <3>1
  <2>4. CASE k # n + 1
    <3>1. k \in 1 .. n
      BY <1>1, <2>4
    <3> QED
      BY <1>1, <1>2, <2>1, <2>2, <3>1 DEF Sorted
  <2> QED
    BY <2>3, <2>4
<1>4. TokensOf(new) = TokensOf(items) \cup {item.token}
  <2>1. \A j \in 1 .. n + 1 : j \in 1 .. n \/ j = n + 1
    BY <1>1
  <2>2. 1 .. n \subseteq 1 .. n + 1 /\ n + 1 \in 1 .. n + 1
    BY <1>1
  <2> QED
    BY <1>1, <1>2, <2>1, <2>2 DEF TokensOf
<1> QED
  BY <1>1, <1>3, <1>4 DEF new

\* What the sum of the turns before, less one frequency more, comes to.
LEMMA Rearranged ==
    ASSUME NEW sum \in Int, NEW total \in Int, NEW before \in Int, NEW freq \in Int
    PROVE  /\ sum + total - before \in Int
           /\ (sum + total - before) - freq = sum + total - (before + freq)
OBVIOUS

\* One turn of mask_out: an item is kept, and nothing else changes, or it goes,
\* and the total is less by its frequency.
LEMMA MaskTurn ==
    ASSUME NEW X \in Int, NEW total \in Int, total = X % Wrap, NEW freq \in 0 .. Wrap - 1
    PROVE  /\ (total + Wrap - freq) % Wrap \in Int
           /\ (total + Wrap - freq) % Wrap = (X - freq) % Wrap
<1>1. Wrap \in Nat \ {0}
  BY UserBigramAssumption
<1> DEFINE d == Wrap - freq
<1>2. d \in Int /\ total + Wrap - freq = (X % Wrap) + d
  BY <1>1
<1>3. X + d = (X - freq) + Wrap /\ X - freq \in Int
  BY <1>1
<1> HIDE DEF d
<1>4. ((X % Wrap) + d) % Wrap = (X + d) % Wrap
  BY <1>1, <1>2, WrapOnce
<1> DEFINE e == X - freq
<1>5. (e + Wrap) % Wrap = e % Wrap /\ e % Wrap \in 0 .. Wrap - 1
  <2>1. e \in Int
    BY <1>3
  <2> HIDE DEF e
  <2> QED
    BY <1>1, <2>1, WrapAround
<1> QED
  BY <1>1, <1>2, <1>3, <1>4, <1>5

\* Masking keeps the order, takes just the items that match, and leaves the sum of
\* what is kept as the total.
LEMMA MaskedIs ==
    ASSUME NEW gram \in [total : Int, items : Seq(ItemSet)], Sorted(gram.items),
           gram.total = SumFreqs(gram.items) % Wrap, NEW S
    PROVE  /\ MaskedGram(gram, S) \in [total : Int, items : Seq(ItemSet)]
           /\ Sorted(MaskedGram(gram, S).items)
           /\ TokensOf(MaskedGram(gram, S).items) = TokensOf(gram.items) \ S
           /\ MaskedGram(gram, S).total = SumFreqs(MaskedGram(gram, S).items) % Wrap
<1> DEFINE A == [total : Int, items : Seq(ItemSet)]
           items == gram.items
           n == Len(items)
           first == [total |-> gram.total, items |-> <<>>]
           After(k, g) ==
               LET item == items[k]
               IN  IF item.token \in S
                   THEN [g EXCEPT !.total = (@ + Wrap - item.freq) % Wrap]
                   ELSE [g EXCEPT !.items = Append(@, item)]
           Step == [k \in 1 .. n |-> [g \in A |-> After(k, g)]]
           upto[k \in 0 .. n] == IF k = 0 THEN first ELSE After(k, upto[k - 1])
<1>1. MaskedGram(gram, S) = upto[n]
  BY DEF MaskedGram
<1>2. items \in Seq(ItemSet) /\ n \in Nat /\ first \in A /\ Sorted(items)
      /\ DOMAIN items = 1 .. n /\ gram.total = SumFreqs(items) % Wrap
  OBVIOUS
<1>3. \A k \in 1 .. n : items[k] \in ItemSet
  OBVIOUS
<1>4. \A k \in 1 .. n : items[k].freq \in 0 .. Wrap - 1 /\ items[k].token \in Nat
  BY <1>3, UserBigramAssumption DEF ItemSet
<1> HIDE DEF items, n, upto
<1>5. ASSUME NEW k \in 1 .. n, NEW g \in A PROVE After(k, g) \in A
  <2>1. CASE items[k].token \in S
    <3>1. (g.total + Wrap - items[k].freq) % Wrap \in Int
      <4> DEFINE d == g.total + Wrap - items[k].freq
      <4>1. d \in Int /\ Wrap \in Nat \ {0}
        BY <1>4, UserBigramAssumption
      <4> HIDE DEF d
      <4>2. d % Wrap \in 0 .. Wrap - 1
        BY <4>1, WrapAround
      <4> QED
        BY <4>1, <4>2 DEF d
    <3> QED
      BY <2>1, <3>1
  <2>2. CASE items[k].token \notin S
    <3>1. Append(g.items, items[k]) \in Seq(ItemSet)
      BY <1>3
    <3> QED
      BY <2>2, <3>1
  <2> QED
    BY <2>1, <2>2
<1>6. upto = [k \in 0 .. n |-> IF k = 0 THEN first ELSE After(k, upto[k - 1])]
  <2>1. Step \in [1 .. n -> [A -> A]]
    BY <1>5
  <2>2. PICK f \in Recursions(n, A, first, Step) : TRUE
    <3> HIDE DEF A, first, Step, After
    <3> QED
      BY <1>2, <2>1, RecursionUpTo
  <2>3. f \in [0 .. n -> A] /\ f[0] = first /\ \A k \in 1 .. n : f[k] = Step[k][f[k - 1]]
    BY DEF Recursions
  <2> HIDE DEF first, A
  <2>4. \A k \in 1 .. n : f[k] = After(k, f[k - 1])
    <3>1. SUFFICES ASSUME NEW k \in 1 .. n PROVE f[k] = After(k, f[k - 1])
      OBVIOUS
    <3>2. f[k - 1] \in A /\ f[k] = Step[k][f[k - 1]]
      <4>1. k - 1 \in 0 .. n
        BY <1>2
      <4> HIDE DEF Step
      <4> QED
        BY <2>3, <4>1
    <3> HIDE DEF After
    <3> QED
      BY <3>2
  <2> HIDE DEF After, Step
  <2>5. \A k \in 0 .. n : f[k] = IF k = 0 THEN first ELSE After(k, f[k - 1])
    BY <1>2, <2>3, <2>4
  <2>6. f = [k \in 0 .. n |-> f[k]]
    BY <2>3
  <2>7. f = [k \in 0 .. n |-> IF k = 0 THEN first ELSE After(k, f[k - 1])]
    BY <2>5, <2>6
  <2>8. \E g : g = [k \in 0 .. n |-> IF k = 0 THEN first ELSE After(k, g[k - 1])]
    BY <2>7
  <2> QED
    BY <2>8 DEF upto

<1>7. PICK f : Sums(items, f)
  BY <1>2, SumExists
<1>8. f \in [0 .. n -> Int] /\ f[0] = 0 /\ \A k \in 1 .. n : f[k] = f[k - 1] + items[k].freq
  BY <1>7 DEF Sums, n
<1> DEFINE total == SumFreqs(items)
           Seen(k) == {items[j].token : j \in 1 .. k}
           Good(k, g) == /\ g \in A
                         /\ Sorted(g.items)
                         /\ TokensOf(g.items) = Seen(k) \ S
                         /\ SumFreqs(g.items) \in Int
                         /\ g.total = (SumFreqs(g.items) + total - f[k]) % Wrap
           T == {k \in 0 .. n : Good(k, upto[k])}
<1>9. total = f[n] /\ total \in Int
  BY <1>2, <1>7, <1>8, SumIs DEF n
<1> HIDE DEF total
<1>10. 0 \in T
  <2>1. upto[0] = first
    BY <1>2, <1>6
  <2>2. first.items = <<>> /\ Seen(0) = {} /\ TokensOf(<<>>) = {} /\ Sorted(<<>>)
    BY DEF TokensOf, Sorted
  <2>3. first.total = total % Wrap /\ 0 + total - f[0] = total
    BY <1>2, <1>8, <1>9 DEF total
  <2> HIDE DEF first
  <2> QED
    BY <1>2, <2>1, <2>2, <2>3, SumOfNone
<1>11. ASSUME NEW k \in 1 .. n, k - 1 \in T PROVE k \in T
  <2> DEFINE g == upto[k - 1]
             item == items[k]
  <2>1. k - 1 \in 0 .. n /\ k \in 0 .. n /\ upto[k] = After(k, g)
    <3>1. k - 1 \in 0 .. n /\ k \in 0 .. n /\ k # 0
      BY <1>2
    <3> HIDE DEF After
    <3> QED
      BY <1>6, <3>1
  <2>2. Good(k - 1, g)
    BY <1>11
  <2>3. After(k, g) \in A
    <3> HIDE DEF After, A, g
    <3> QED
      BY <1>5, <2>2
  <2>4. Seen(k) = Seen(k - 1) \cup {item.token}
    BY <1>2
  <2>5. item \in ItemSet /\ item.freq \in 0 .. Wrap - 1 /\ f[k] = f[k - 1] + item.freq
        /\ f[k - 1] \in Int
    BY <1>3, <1>4, <1>8, <2>1
  <2>6. \A t \in Seen(k - 1) : t < item.token
    <3>1. ASSUME NEW j \in 1 .. k - 1 PROVE items[j].token < items[k].token
      BY <1>2, <3>1 DEF Sorted
    <3> QED
      BY <3>1
  <2> HIDE DEF g, item, Seen
  <2>7. CASE item.token \in S
    <3>1. After(k, g) = [g EXCEPT !.total = (@ + Wrap - item.freq) % Wrap]
      BY <2>7 DEF item
    <3>2. /\ After(k, g).items = g.items
          /\ After(k, g).total = (g.total + Wrap - item.freq) % Wrap
      BY <2>2, <3>1
    <3>3. Seen(k) \ S = Seen(k - 1) \ S
      BY <2>4, <2>7
    <3> DEFINE X == SumFreqs(g.items) + total - f[k - 1]
    <3>4. X \in Int /\ g.total = X % Wrap /\ g.total \in Int
          /\ X - item.freq = SumFreqs(g.items) + total - f[k]
      <4> DEFINE sum == SumFreqs(g.items)
      <4>1. sum \in Int
        BY <2>2
      <4>2. g.total = X % Wrap /\ g.total \in Int
        BY <2>2
      <4>3. item.freq \in Int /\ f[k] = f[k - 1] + item.freq /\ f[k - 1] \in Int
        BY <2>5, UserBigramAssumption
      <4>4. X = sum + total - f[k - 1]
        OBVIOUS
      <4> HIDE DEF sum, X
      <4>5. X \in Int /\ X - item.freq = sum + total - f[k]
        <5>1. total \in Int
          BY <1>9
        <5>2. /\ sum + total - f[k - 1] \in Int
              /\ (sum + total - f[k - 1]) - item.freq
                     = sum + total - (f[k - 1] + item.freq)
          BY <4>1, <4>3, <5>1, Rearranged
        <5> QED
          BY <4>3, <4>4, <5>2
      <4> QED
        BY <4>2, <4>5 DEF sum
    <3> HIDE DEF X
    <3>5. (g.total + Wrap - item.freq) % Wrap = (X - item.freq) % Wrap
      BY <2>5, <3>4, MaskTurn
    <3> HIDE DEF After, A
    <3> QED
      BY <2>1, <2>2, <2>3, <3>2, <3>3, <3>4, <3>5
  <2>8. CASE item.token \notin S
    <3>1. After(k, g) = [g EXCEPT !.items = Append(@, item)]
      BY <2>8 DEF item
    <3>2. /\ After(k, g).items = Append(g.items, item)
          /\ After(k, g).total = g.total
      BY <2>2, <3>1
    <3>3. Seen(k) \ S = (Seen(k - 1) \ S) \cup {item.token}
      BY <2>4, <2>8
    <3>4. g.items \in Seq(ItemSet) /\ Sorted(g.items)
          /\ \A t \in TokensOf(g.items) : t < item.token
      BY <2>2, <2>6
    <3>5. /\ Sorted(Append(g.items, item))
          /\ TokensOf(Append(g.items, item)) = TokensOf(g.items) \cup {item.token}
      BY <2>5, <3>4, Appended
    <3>6. SumFreqs(Append(g.items, item)) = SumFreqs(g.items) + item.freq
      BY <2>5, <3>4, SumOfAppend
    <3>7. SumFreqs(g.items) + total - f[k - 1]
            = (SumFreqs(g.items) + item.freq) + total - f[k]
      BY <1>9, <2>2, <2>5
    <3>8. SumFreqs(g.items) + item.freq \in Int
      BY <2>2, <2>5
    <3> HIDE DEF After, A
    <3> QED
      BY <2>1, <2>2, <2>3, <3>2, <3>3, <3>5, <3>6, <3>7, <3>8
  <2> QED
    BY <2>7, <2>8
<1>12. n \in T
  <2> HIDE DEF T
  <2>1. 0 .. n \subseteq T
    BY <1>2, <1>10, <1>11, InductionUpTo
  <2> QED
    BY <1>2, <2>1
<1>13. Good(n, upto[n])
  BY <1>12
<1>14. Seen(n) = TokensOf(items)
  BY <1>2 DEF TokensOf
<1>15. SumFreqs(upto[n].items) + total - f[n] = SumFreqs(upto[n].items)
  BY <1>9, <1>13
<1> HIDE DEF Seen, A
<1>16. /\ upto[n] \in A /\ Sorted(upto[n].items)
       /\ TokensOf(upto[n].items) = TokensOf(items) \ S
       /\ upto[n].total = SumFreqs(upto[n].items) % Wrap
  BY <1>13, <1>14, <1>15
<1> QED
  BY <1>1, <1>16 DEF A, items

-----------------------------------------------------------------------------
(* Training. *)

GramSet == {g \in [total : 0 .. Wrap - 1, items : Seq(ItemSet)] :
                /\ Sorted(g.items) /\ g.items # <<>>
                /\ g.total = SumFreqs(g.items) % Wrap}

Domains == {D \in SUBSET Indices : IsFiniteSet(D)}

Tables == UNION {[D -> GramSet] : D \in Domains}

\* The pairs of a table are of phrases of N.
Names(table, N) == \A i \in DOMAIN table :
    /\ i \in N \cup {sentence_start}
    /\ TokensOf(table[i].items) \subseteq N

Old(table, i) == IF i \in DOMAIN table THEN table[i] ELSE EmptyGram

\* The sum of any list is a number.
LEMMA SumsAreIntegers ==
    ASSUME NEW items \in Seq(ItemSet)
    PROVE  SumFreqs(items) \in Int
<1>1. PICK f : Sums(items, f)
  BY SumExists
<1>2. SumFreqs(items) = f[Len(items)]
  BY <1>1, SumIs
<1> QED
  BY <1>1, <1>2 DEF Sums

\* What is added to the frequency of an item is added to the sum, in the width of a
\* frequency.
LEMMA Raised ==
    ASSUME NEW items \in Seq(ItemSet), Sorted(items), NEW token \in TokensOf(items),
           NEW add \in Nat
    PROVE  LET new == SetFreq(items, token, GetFreq(items, token) + add)
           IN  /\ new \in Seq(ItemSet) /\ Sorted(new) /\ new # <<>>
               /\ TokensOf(new) = TokensOf(items)
               /\ SumFreqs(new) % Wrap = (SumFreqs(items) + add) % Wrap
<1> DEFINE b == LowerBound(items, token)
           old == GetFreq(items, token)
           new == SetFreq(items, token, old + add)
<1>1. b \in DOMAIN items /\ items[b] \in ItemSet
  <2>1. b \in DOMAIN items
    BY FrequencySet, 0 \in Nat
  <2> QED
    BY <2>1
<1>2. old = items[b].freq
  BY FrequencySet, 0 \in Nat
<1>3. old \in Nat
  BY <1>1, <1>2, UserBigramAssumption DEF ItemSet
<1> HIDE DEF old
<1>4. old + add \in Nat
  BY <1>3
<1> DEFINE freq == old + add
<1> HIDE DEF freq, b
<1>5. /\ new \in Seq(ItemSet) /\ Sorted(new) /\ Len(new) = Len(items)
      /\ TokensOf(new) = TokensOf(items)
      /\ \A j \in DOMAIN items : new[j] = IF j = b THEN Item(token, freq % Wrap) ELSE items[j]
  BY <1>4, FrequencySet DEF freq, b
<1> HIDE DEF new
<1>6. new[b].freq = freq % Wrap
  BY <1>1, <1>5 DEF Item
<1>7. SumFreqs(new) = SumFreqs(items) - items[b].freq + new[b].freq
  BY <1>1, <1>5, SumOfChanged
<1> DEFINE rest == SumFreqs(items) - old
<1>8. rest \in Int /\ freq \in Int /\ Wrap \in Nat \ {0}
  BY <1>3, <1>4, SumsAreIntegers, UserBigramAssumption DEF freq
<1>9. SumFreqs(new) = (freq % Wrap) + rest
  <2>1. freq % Wrap \in Int /\ SumFreqs(items) \in Int
    BY <1>8, WrapAround, SumsAreIntegers
  <2> QED
    BY <1>2, <1>3, <1>6, <1>7, <2>1
<1>10. freq + rest = SumFreqs(items) + add
  BY <1>3, SumsAreIntegers DEF freq
<1> HIDE DEF rest
<1>11. ((freq % Wrap) + rest) % Wrap = (freq + rest) % Wrap
  BY <1>8, WrapOnce
<1>12. new # <<>>
  BY <1>1, <1>5
<1> QED
  BY <1>5, <1>9, <1>10, <1>11, <1>12 DEF new, freq, old

\* What training finds for a phrase: its gram, or an empty one.
LEMMA OldGram ==
    ASSUME NEW table \in Tables, NEW i
    PROVE  /\ Old(table, i) \in [total : 0 .. Wrap - 1, items : Seq(ItemSet)]
           /\ Sorted(Old(table, i).items)
           /\ Old(table, i).total = SumFreqs(Old(table, i).items) % Wrap
           /\ \A N : Names(table, N) => TokensOf(Old(table, i).items) \subseteq N
<1>1. CASE i \in DOMAIN table
  <2>1. table[i] \in GramSet
    BY <1>1 DEF Tables
  <2> QED
    BY <1>1, <2>1 DEF Old, GramSet, Names
<1>2. CASE i \notin DOMAIN table
  <2>1. Old(table, i).items = <<>> /\ Old(table, i).total = 0 /\ Old(table, i) = EmptyGram
    BY <1>2 DEF Old, EmptyGram
  <2>2. 0 \in 0 .. Wrap - 1 /\ Wrap \in Nat \ {0} /\ 0 \in Int
    BY UserBigramAssumption
  <2>3. 0 % Wrap = 0
    BY <2>2, WrapAround
  <2>4. EmptyGram \in [total : 0 .. Wrap - 1, items : Seq(ItemSet)]
    BY <2>2 DEF EmptyGram
  <2>5. Sorted(<<>>) /\ TokensOf(<<>>) = {}
    BY DEF Sorted, TokensOf
  <2> QED
    BY <2>1, <2>3, <2>4, <2>5, SumOfNone
<1> QED
  BY <1>1, <1>2

\* Storing a gram of phrases of N keeps the table whole and of phrases of N.
LEMMA StoredIs ==
    ASSUME NEW table \in Tables, NEW i \in Indices, NEW gram \in GramSet
    PROVE  /\ Stored(table, i, gram) \in Tables
           /\ \A N : Names(table, N) /\ i \in N \cup {sentence_start}
                       /\ TokensOf(gram.items) \subseteq N
                     => Names(Stored(table, i, gram), N)
           /\ DOMAIN Stored(table, i, gram) = DOMAIN table \cup {i}
<1>1. PICK D \in Domains : table \in [D -> GramSet]
  BY DEF Tables
<1>2. Stored(table, i, gram) \in [D \cup {i} -> GramSet]
  BY <1>1 DEF Stored
<1>3. D \cup {i} \in Domains
  BY FS_AddElement DEF Domains
<1> QED
  BY <1>1, <1>2, <1>3 DEF Tables, Names, Stored

\* What train_result3 adds for a pair is a number.
LEMMA SeedIs ==
    ASSUME NEW table \in Tables, NEW last, NEW token \in Tokens
    PROVE  Seed(Old(table, last), token) \in Nat
<1> DEFINE items == Old(table, last).items
<1>1. items \in Seq(ItemSet) /\ Sorted(items)
  BY OldGram
<1>2. InitialSeed \in Nat /\ ExpandFactor \in Nat /\ CeilingSeed \in Nat /\ Wrap \in Nat \ {0}
  BY UserBigramAssumption
<1> HIDE DEF items
<1>3. ASSUME token \in TokensOf(items)
      PROVE  Min({(ExpandFactor * Max({GetFreq(items, token), InitialSeed})) % Wrap,
                  CeilingSeed}) \in Nat
  <2>1. GetFreq(items, token) \in Nat
    <3>1. PICK b \in DOMAIN items : GetFreq(items, token) = items[b].freq
      BY <1>1, <1>3, FrequencySet, 0 \in Nat
    <3>2. items[b] \in ItemSet
      BY <1>1
    <3> QED
      BY <3>1, <3>2, UserBigramAssumption DEF ItemSet
  <2>2. Max({GetFreq(items, token), InitialSeed}) \in Nat
    BY <1>2, <2>1, OfTwo
  <2> DEFINE product == ExpandFactor * Max({GetFreq(items, token), InitialSeed})
  <2>3. product \in Int
    BY <1>2, <2>2
  <2> HIDE DEF product
  <2>4. product % Wrap \in Nat
    BY <1>2, <2>3, WrapAround
  <2>5. Min({product % Wrap, CeilingSeed}) \in Nat
    BY <1>2, <2>4, OfTwo
  <2> QED
    BY <2>5 DEF product
<1> QED
  BY <1>2, <1>3 DEF Seed, items

\* One pair of train_result3: a gram stays whole, also when it is refused, and only
\* the two phrases get into the table.
LEMMA PairTrainedIs ==
    ASSUME NEW table \in Tables, NEW last \in Indices, NEW token \in Tokens
    PROVE  /\ PairTrained(table, last, token) \in Tables
           /\ \A N : Names(table, N) /\ last \in N \cup {sentence_start} /\ token \in N
                     => Names(PairTrained(table, last, token), N)
           /\ DOMAIN table \subseteq DOMAIN PairTrained(table, last, token)
<1> DEFINE gram == Old(table, last)
           seed == Seed(gram, token)
           items == InsertFreq(gram.items, token, 0)
           new == SetFreq(items, token, GetFreq(items, token) + seed)
           stored == [total |-> gram.total + seed, items |-> new]
<1>1. PairTrained(table, last, token) =
        IF gram.total + seed >= Wrap THEN table ELSE Stored(table, last, stored)
  BY DEF PairTrained, Old
<1>2. /\ gram \in [total : 0 .. Wrap - 1, items : Seq(ItemSet)] /\ Sorted(gram.items)
      /\ gram.total = SumFreqs(gram.items) % Wrap
      /\ \A N : Names(table, N) => TokensOf(gram.items) \subseteq N
  BY OldGram
<1>3. seed \in Nat
  BY SeedIs
<1>4. Wrap \in Nat \ {0} /\ 0 \in 0 .. Wrap - 1
  BY UserBigramAssumption
<1> HIDE DEF gram, seed
<1>5. /\ items \in Seq(ItemSet) /\ Sorted(items)
      /\ TokensOf(items) = TokensOf(gram.items) \cup {token}
  BY <1>2, <1>4, Inserted
<1>6. SumFreqs(items) = SumFreqs(gram.items)
  <2>1. CASE token \in TokensOf(gram.items)
    BY <2>1 DEF InsertFreq
  <2>2. CASE token \notin TokensOf(gram.items)
    <3> DEFINE b == LowerBound(gram.items, token)
               item == Item(token, 0)
    <3>1. /\ b \in 1 .. Len(gram.items) + 1 /\ Len(items) = Len(gram.items) + 1
          /\ \A j \in 1 .. Len(gram.items) + 1 :
                items[j] = IF j < b THEN gram.items[j]
                           ELSE IF j = b THEN item ELSE gram.items[j - 1]
      BY <1>2, <1>4, <2>2, Inserted
    <3>2. item \in ItemSet /\ item.freq = 0
      BY <1>4 DEF Item, ItemSet
    <3>3. gram.items \in Seq(ItemSet)
      BY <1>2
    <3> HIDE DEF b, item, items
    <3>4. SumFreqs(items) = SumFreqs(gram.items) + item.freq
      BY <1>5, <3>1, <3>2, <3>3, SumOfInserted
    <3> QED
      BY <3>2, <3>3, <3>4, SumsAreIntegers
  <2> QED
    BY <2>1, <2>2
<1> HIDE DEF items
<1>7. /\ new \in Seq(ItemSet) /\ Sorted(new) /\ new # <<>>
      /\ TokensOf(new) = TokensOf(items)
      /\ SumFreqs(new) % Wrap = (SumFreqs(items) + seed) % Wrap
  BY <1>3, <1>5, Raised
<1> HIDE DEF new
<1>8. CASE gram.total + seed >= Wrap
  BY <1>1, <1>8
<1>9. CASE ~(gram.total + seed >= Wrap)
  <2> DEFINE sum == SumFreqs(gram.items)
             total == gram.total + seed
  <2>1. sum \in Int /\ seed \in Int /\ total \in 0 .. Wrap - 1
    BY <1>2, <1>3, <1>4, <1>9, SumsAreIntegers
  <2> HIDE DEF sum
  <2>2. (sum + seed) % Wrap = total
    <3>1. ((sum % Wrap) + seed) % Wrap = (sum + seed) % Wrap
      BY <1>4, <2>1, WrapOnce
    <3>2. total = (sum % Wrap) + seed
      BY <1>2 DEF sum
    <3>3. total % Wrap = total
      <4> HIDE DEF total
      <4> QED
        BY <1>4, <2>1, WrapAround
    <3> QED
      BY <3>1, <3>2, <3>3
  <2>3. stored \in GramSet
    BY <1>6, <1>7, <2>1, <2>2 DEF GramSet, sum
  <2>4. TokensOf(stored.items) = TokensOf(gram.items) \cup {token}
    BY <1>5, <1>7
  <2> HIDE DEF stored
  <2>5. /\ Stored(table, last, stored) \in Tables
        /\ DOMAIN Stored(table, last, stored) = DOMAIN table \cup {last}
    BY <2>3, StoredIs
  <2>6. ASSUME NEW N, Names(table, N), last \in N \cup {sentence_start}, token \in N
        PROVE  Names(Stored(table, last, stored), N)
    <3>1. TokensOf(stored.items) \subseteq N
      BY <1>2, <2>4, <2>6
    <3> QED
      BY <2>3, <2>6, <3>1, StoredIs
  <2> QED
    BY <1>1, <1>9, <2>5, <2>6
<1> QED
  BY <1>8, <1>9

\* A whole sentence: its words, and nothing else, get into the table.
LEMMA SentenceTrainedIs ==
    ASSUME NEW table \in Tables, NEW words \in Seq(Tokens), NEW selected
    PROVE  /\ SentenceTrained(table, words, selected) \in Tables
           /\ \A N : Names(table, N) /\ ToSet(words) \subseteq N
                     => Names(SentenceTrained(table, words, selected), N)
           /\ DOMAIN table \subseteq DOMAIN SentenceTrained(table, words, selected)
<1> DEFINE n == Len(words)
           WordBefore(k) == IF k = 1 THEN sentence_start ELSE words[k - 1]
           Next1(k, t) == IF k \notin selected THEN t ELSE PairTrained(t, WordBefore(k), words[k])
           Step == [k \in 1 .. n |-> [t \in Tables |-> Next1(k, t)]]
           trained[k \in 0 .. n] ==
               IF k = 0 THEN table
               ELSE IF k \notin selected THEN trained[k - 1]
               ELSE PairTrained(trained[k - 1], WordBefore(k), words[k])
<1>1. SentenceTrained(table, words, selected) = trained[n]
  BY DEF SentenceTrained
<1>2. n \in Nat /\ \A k \in 1 .. n : words[k] \in Tokens /\ words[k] \in ToSet(words)
  BY DEF ToSet
<1>3. \A k \in 1 .. n : /\ WordBefore(k) \in Indices
                        /\ WordBefore(k) \in ToSet(words) \cup {sentence_start}
  <2>1. SUFFICES ASSUME NEW k \in 1 .. n, k # 1
                 PROVE  words[k - 1] \in Indices /\ words[k - 1] \in ToSet(words)
    BY DEF Indices
  <2>2. k - 1 \in 1 .. n
    BY <1>2, <2>1
  <2> QED
    BY <1>2, <2>2 DEF Indices
<1> HIDE DEF n, trained, WordBefore
<1>4. ASSUME NEW k \in 1 .. n, NEW t \in Tables PROVE Next1(k, t) \in Tables
  BY <1>2, <1>3, PairTrainedIs
<1>5. trained = [k \in 0 .. n |-> IF k = 0 THEN table ELSE Next1(k, trained[k - 1])]
  <2>1. Step \in [1 .. n -> [Tables -> Tables]]
    BY <1>4
  <2>2. PICK f \in Recursions(n, Tables, table, Step) : TRUE
    <3> HIDE DEF Step
    <3> QED
      BY <1>2, <2>1, RecursionUpTo
  <2>3. f \in [0 .. n -> Tables] /\ f[0] = table /\ \A k \in 1 .. n : f[k] = Step[k][f[k - 1]]
    BY DEF Recursions
  <2>4. \A k \in 1 .. n : f[k] = Next1(k, f[k - 1])
    <3>1. SUFFICES ASSUME NEW k \in 1 .. n PROVE f[k] = Next1(k, f[k - 1])
      OBVIOUS
    <3>2. f[k - 1] \in Tables /\ f[k] = Step[k][f[k - 1]]
      <4>1. k - 1 \in 0 .. n
        BY <1>2
      <4> HIDE DEF Step
      <4> QED
        BY <2>3, <4>1
    <3> HIDE DEF Next1
    <3> QED
      BY <3>2
  <2> HIDE DEF Step
  <2>5. \A k \in 0 .. n :
            f[k] = IF k = 0 THEN table
                   ELSE IF k \notin selected THEN f[k - 1]
                   ELSE PairTrained(f[k - 1], WordBefore(k), words[k])
    BY <1>2, <2>3, <2>4
  <2>6. f = [k \in 0 .. n |-> f[k]]
    BY <2>3
  <2>7. f = [k \in 0 .. n |-> IF k = 0 THEN table
                              ELSE IF k \notin selected THEN f[k - 1]
                              ELSE PairTrained(f[k - 1], WordBefore(k), words[k])]
    BY <2>5, <2>6
  <2>8. \E g : g = [k \in 0 .. n |-> IF k = 0 THEN table
                                     ELSE IF k \notin selected THEN g[k - 1]
                                     ELSE PairTrained(g[k - 1], WordBefore(k), words[k])]
    BY <2>7
  <2> QED
    BY <2>8 DEF trained
<1> DEFINE Good(t) == /\ t \in Tables
                      /\ \A N : Names(table, N) /\ ToSet(words) \subseteq N => Names(t, N)
                      /\ DOMAIN table \subseteq DOMAIN t
           T == {k \in 0 .. n : Good(trained[k])}
<1>6. 0 \in T
  BY <1>2, <1>5
<1>7. ASSUME NEW k \in 1 .. n, k - 1 \in T PROVE k \in T
  <2> DEFINE t == trained[k - 1]
  <2>1. Good(t) /\ k \in 0 .. n /\ k # 0
    BY <1>2, <1>7
  <2>2. trained[k] = Next1(k, t)
    <3> HIDE DEF Next1
    <3> QED
      BY <1>5, <2>1
  <2> HIDE DEF t
  <2>3. CASE k \in selected
    <3> DEFINE u == PairTrained(t, WordBefore(k), words[k])
    <3>1. /\ u \in Tables /\ DOMAIN t \subseteq DOMAIN u
          /\ \A N : Names(t, N) /\ WordBefore(k) \in N \cup {sentence_start} /\ words[k] \in N
                    => Names(u, N)
      BY <1>2, <1>3, <2>1, PairTrainedIs
    <3> HIDE DEF u
    <3>2. Good(u)
      BY <1>2, <1>3, <2>1, <3>1
    <3> QED
      BY <2>1, <2>2, <2>3, <3>2 DEF u
  <2>4. CASE k \notin selected
    BY <2>1, <2>2, <2>4
  <2> QED
    BY <2>3, <2>4
<1>8. n \in T
  <2> HIDE DEF T
  <2>1. 0 .. n \subseteq T
    BY <1>2, <1>6, <1>7, InductionUpTo
  <2> QED
    BY <1>2, <2>1
<1> QED
  BY <1>1, <1>8

\* A predicted candidate: its frequency and the total grow by the same in their width.
LEMMA PairPredictedIs ==
    ASSUME NEW table \in Tables, NEW last \in Indices, NEW token \in Tokens
    PROVE  /\ PairPredicted(table, last, token) \in Tables
           /\ \A N : Names(table, N) /\ last \in N \cup {sentence_start} /\ token \in N
                     => Names(PairPredicted(table, last, token), N)
           /\ DOMAIN table \subseteq DOMAIN PairPredicted(table, last, token)
<1> DEFINE gram == Old(table, last)
           items == IF token \in TokensOf(gram.items)
                    THEN SetFreq(gram.items, token, GetFreq(gram.items, token) + InitialSeed)
                    ELSE InsertFreq(gram.items, token, InitialSeed)
           stored == [total |-> (gram.total + InitialSeed) % Wrap, items |-> items]
<1>1. PairPredicted(table, last, token) = Stored(table, last, stored)
  BY DEF PairPredicted, Old
<1>2. /\ gram \in [total : 0 .. Wrap - 1, items : Seq(ItemSet)] /\ Sorted(gram.items)
      /\ gram.total = SumFreqs(gram.items) % Wrap
      /\ \A N : Names(table, N) => TokensOf(gram.items) \subseteq N
  BY OldGram
<1>3. Wrap \in Nat \ {0} /\ InitialSeed \in Nat /\ InitialSeed \in 0 .. Wrap - 1
  BY UserBigramAssumption
<1> DEFINE sum == SumFreqs(gram.items)
<1>4. sum \in Int /\ gram.items \in Seq(ItemSet)
  BY <1>2, SumsAreIntegers
<1> HIDE DEF gram
<1>5. /\ items \in Seq(ItemSet) /\ Sorted(items) /\ items # <<>>
      /\ TokensOf(items) = TokensOf(gram.items) \cup {token}
      /\ SumFreqs(items) % Wrap = (sum + InitialSeed) % Wrap
  <2>1. CASE token \in TokensOf(gram.items)
    BY <1>2, <1>3, <1>4, <2>1, Raised
  <2>2. CASE token \notin TokensOf(gram.items)
    <3> DEFINE b == LowerBound(gram.items, token)
               item == Item(token, InitialSeed)
               new == InsertFreq(gram.items, token, InitialSeed)
    <3>1. /\ b \in 1 .. Len(gram.items) + 1 /\ Len(new) = Len(gram.items) + 1
          /\ new \in Seq(ItemSet) /\ Sorted(new)
          /\ TokensOf(new) = TokensOf(gram.items) \cup {token}
          /\ \A j \in 1 .. Len(gram.items) + 1 :
                new[j] = IF j < b THEN gram.items[j]
                         ELSE IF j = b THEN item ELSE gram.items[j - 1]
      BY <1>2, <1>3, <1>4, <2>2, Inserted
    <3>2. item \in ItemSet /\ item.freq = InitialSeed
      BY <1>3 DEF Item, ItemSet
    <3> HIDE DEF b, item, new
    <3>3. SumFreqs(new) = sum + item.freq
      BY <1>4, <3>1, <3>2, SumOfInserted
    <3>4. new # <<>>
      BY <1>4, <3>1
    <3>5. items = new
      BY <2>2 DEF new
    <3> HIDE DEF items
    <3> QED
      BY <3>1, <3>2, <3>3, <3>4, <3>5
  <2> QED
    BY <2>1, <2>2
<1> HIDE DEF items, sum
<1>6. stored \in GramSet
  <2>1. gram.total = sum % Wrap
    BY <1>2 DEF sum
  <2>2. ((sum % Wrap) + InitialSeed) % Wrap = (sum + InitialSeed) % Wrap
    <3>1. InitialSeed \in Int
      BY <1>3
    <3> QED
      BY <1>3, <1>4, <3>1, WrapOnce
  <2> DEFINE grown == sum + InitialSeed
  <2>3. grown % Wrap \in 0 .. Wrap - 1
    <3>1. grown \in Int
      BY <1>3, <1>4
    <3> HIDE DEF grown
    <3> QED
      BY <1>3, <3>1, WrapAround
  <2> QED
    BY <1>5, <2>1, <2>2, <2>3 DEF GramSet
<1>7. stored.items = items
  OBVIOUS
<1> HIDE DEF stored
<1>8. /\ Stored(table, last, stored) \in Tables
      /\ DOMAIN Stored(table, last, stored) = DOMAIN table \cup {last}
  BY <1>6, StoredIs
<1>9. ASSUME NEW N, Names(table, N), last \in N \cup {sentence_start}, token \in N
      PROVE  Names(Stored(table, last, stored), N)
  <2>1. TokensOf(stored.items) \subseteq N
    BY <1>2, <1>5, <1>7, <1>9
  <2> QED
    BY <1>6, <1>9, <2>1, StoredIs
<1> QED
  BY <1>1, <1>8, <1>9

\* Masking a table leaves no pair of a masked phrase and no gram without items, and
\* its assertion holds for every gram that is left.
LEMMA MaskedTable ==
    ASSUME NEW table \in Tables, NEW S
    PROVE  /\ Masked(table, S) \in Tables
           /\ \A N : Names(table, N) => Names(Masked(table, S), N \ S)
           /\ \A i \in DOMAIN table : ~LengthAborts(MaskedGram(table[i], S))
<1>1. PICK D \in Domains : table \in [D -> GramSet]
  BY DEF Tables
<1>2. ASSUME NEW i \in D
      PROVE  /\ MaskedGram(table[i], S) \in [total : 0 .. Wrap - 1, items : Seq(ItemSet)]
             /\ Sorted(MaskedGram(table[i], S).items)
             /\ TokensOf(MaskedGram(table[i], S).items) = TokensOf(table[i].items) \ S
             /\ MaskedGram(table[i], S).total = SumFreqs(MaskedGram(table[i], S).items) % Wrap
  <2> DEFINE gram == table[i]
             new == MaskedGram(gram, S)
  <2>1. gram \in GramSet
    BY <1>1
  <2>2. gram \in [total : Int, items : Seq(ItemSet)] /\ Sorted(gram.items)
        /\ gram.total = SumFreqs(gram.items) % Wrap
    BY <2>1, UserBigramAssumption DEF GramSet
  <2> HIDE DEF gram
  <2>3. /\ new \in [total : Int, items : Seq(ItemSet)]
        /\ Sorted(new.items)
        /\ TokensOf(new.items) = TokensOf(gram.items) \ S
        /\ new.total = SumFreqs(new.items) % Wrap
    BY <2>2, MaskedIs
  <2> HIDE DEF new
  <2>4. new.total \in 0 .. Wrap - 1
    <3>1. SumFreqs(new.items) \in Int /\ Wrap \in Nat \ {0}
      BY <2>3, SumsAreIntegers, UserBigramAssumption
    <3>2. SumFreqs(new.items) % Wrap \in 0 .. Wrap - 1
      BY <3>1, WrapAround
    <3> QED
      BY <2>3, <3>2
  <2>5. new \in [total : 0 .. Wrap - 1, items : Seq(ItemSet)]
    BY <2>3, <2>4
  <2> QED
    BY <2>3, <2>5 DEF gram, new
<1> DEFINE emptied == {i \in DOMAIN table : /\ table[i].items # <<>>
                                            /\ TokensOf(table[i].items) \subseteq S}
           rest == D \ (S \cup emptied)
<1>3. Masked(table, S) = [i \in rest |-> MaskedGram(table[i], S)]
  BY <1>1 DEF Masked
<1>4. ASSUME NEW i \in rest PROVE MaskedGram(table[i], S) \in GramSet
  <2>1. i \in D /\ table[i] \in GramSet
    BY <1>1
  <2>2. TokensOf(table[i].items) \ S # {}
    BY <1>1, <2>1 DEF GramSet
  <2>3. MaskedGram(table[i], S).items # <<>>
    <3>1. TokensOf(<<>>) = {}
      BY DEF TokensOf
    <3> QED
      BY <1>2, <2>1, <2>2, <3>1
  <2> QED
    BY <1>2, <2>1, <2>3 DEF GramSet
<1>5. Masked(table, S) \in Tables
  <2>1. rest \in Domains /\ [i \in rest |-> MaskedGram(table[i], S)] \in [rest -> GramSet]
    BY <1>4, FS_Subset DEF Domains
  <2> HIDE DEF rest
  <2> QED
    BY <1>3, <2>1 DEF Tables
<1>6. ASSUME NEW N, Names(table, N) PROVE Names(Masked(table, S), N \ S)
  <2>1. ASSUME NEW i \in rest
        PROVE  /\ i \in (N \ S) \cup {sentence_start}
               /\ TokensOf(MaskedGram(table[i], S).items) \subseteq N \ S
    <3>1. i \in D /\ i \notin S /\ i \in DOMAIN table
      BY <1>1
    <3> QED
      BY <1>2, <1>6, <3>1 DEF Names
  <2> HIDE DEF rest
  <2> QED
    BY <1>3, <2>1 DEF Names
<1>7. ASSUME NEW i \in DOMAIN table PROVE ~LengthAborts(MaskedGram(table[i], S))
  <2>1. 0 % Wrap = 0
    <3>1. Wrap \in Nat \ {0} /\ 0 \in 0 .. Wrap - 1 /\ 0 \in Int
      BY UserBigramAssumption
    <3> QED
      BY <3>1, WrapAround
  <2> QED
    BY <1>1, <1>2, <2>1, SumOfNone DEF LengthAborts
<1> QED
  BY <1>5, <1>6, <1>7

-----------------------------------------------------------------------------
(* The grams of every reachable state. *)

TypeOK ==
    /\ grams \in Tables
    /\ live \subseteq Tokens
    /\ result \in Seq(Tokens)
    /\ stale \in BOOLEAN /\ misled \in BOOLEAN /\ touched \in BOOLEAN
    /\ status \in {"ok", "crashed"}

\* The sentence names phrases that exist until one of them goes, and so do the pairs,
\* until such a sentence is trained.
NamesInv ==
    /\ ~misled => Names(grams, live)
    /\ ~stale => ToSet(result) \subseteq live

\* The bigram of a new user is empty, and all shipped phrases exist.
LEMMA GramsInit == Init => TypeOK /\ NamesInv
<1> SUFFICES ASSUME Init PROVE TypeOK /\ NamesInv
  OBVIOUS
<1>1. grams \in [{} -> GramSet] /\ {} \in Domains
  BY FS_EmptySet DEF Init, Domains
<1>2. grams \in Tables
  BY <1>1 DEF Tables
<1>3. Names(grams, live) /\ ToSet(result) \subseteq live
  BY DEF Init, Names, ToSet
<1>4. <<>> \in Seq(Tokens)
  OBVIOUS
<1> QED
  BY <1>2, <1>3, <1>4 DEF Init, TypeOK, NamesInv

\* More phrases leave no pair without one.
LEMMA NamesMore ==
    ASSUME NEW table, NEW N, NEW M, N \subseteq M, Names(table, N)
    PROVE  Names(table, M)
BY DEF Names

\* A removal, or a masking.
LEMMA ForgetKeeps ==
    ASSUME TypeOK, NamesInv, NEW S, Forget(S)
    PROVE  TypeOK' /\ NamesInv'
<1>1. /\ Masked(grams, S) \in Tables
      /\ \A N : Names(grams, N) => Names(Masked(grams, S), N \ S)
      /\ \A i \in DOMAIN grams : ~LengthAborts(MaskedGram(grams[i], S))
  BY MaskedTable DEF TypeOK
<1>2. ~MaskAborts(S)
  BY <1>1 DEF MaskAborts
<1>3. TypeOK'
  BY <1>1, <1>2 DEF TypeOK, Forget
<1>4. ~misled' => Names(grams', live')
  <2>1. SUFFICES ASSUME ~misled' PROVE Names(grams', live')
    OBVIOUS
  <2>2. Names(Masked(grams, S), live \ S)
    BY <1>1, <2>1 DEF Forget, NamesInv
  <2>3. grams' = Masked(grams, S) /\ live \ S \subseteq live'
    BY DEF Forget
  <2> QED
    BY <2>2, <2>3, NamesMore
<1>5. ~stale' => ToSet(result') \subseteq live'
  <2>1. result' = result /\ live' = live \ (S \cap Removable)
        /\ stale' = (stale \/ ToSet(result) \cap S \cap Removable # {})
    BY DEF Forget
  <2> HIDE DEF ToSet
  <2> QED
    BY <2>1 DEF NamesInv
<1>6. Names(grams, live)' = Names(grams', live')
  BY DEF Names
<1> QED
  BY <1>3, <1>4, <1>5, <1>6 DEF NamesInv

\* Every call keeps the grams whole and what they name.
LEMMA GramsNext == TypeOK /\ NamesInv /\ [Next]_vars => TypeOK' /\ NamesInv'
<1> SUFFICES ASSUME TypeOK, NamesInv, [Next]_vars PROVE TypeOK' /\ NamesInv'
  OBVIOUS
<1>1. CASE UNCHANGED data /\ status' \in {"ok", "crashed"} /\ touched' \in BOOLEAN
  BY <1>1 DEF data, TypeOK, NamesInv, Names
<1>2. CASE UNCHANGED vars
  BY <1>1, <1>2 DEF vars, data, TypeOK
<1>3. CASE Search
  <2>1. result' \in Seq(Tokens) /\ ToSet(result') \subseteq live
    BY <1>3, UserBigramAssumption DEF Search
  <2> QED
    BY <1>3, <2>1 DEF Search, export, TypeOK, NamesInv, Names
<1>4. CASE Train
  <2>1. PICK selected : grams' = SentenceTrained(grams, result, selected)
    BY <1>4 DEF Train
  <2>2. /\ grams' \in Tables
        /\ \A N : Names(grams, N) /\ ToSet(result) \subseteq N => Names(grams', N)
    BY <2>1, SentenceTrainedIs DEF TypeOK
  <2>3. ~misled' => ~misled /\ ~stale
    BY <1>4 DEF Train
  <2>4. UNCHANGED <<live, result, stale, export, status>> /\ misled' \in BOOLEAN
    BY <1>4 DEF Train, TypeOK
  <2>5. ~misled' => Names(grams', live)
    BY <2>2, <2>3 DEF NamesInv
  <2> QED
    BY <2>2, <2>4, <2>5 DEF export, TypeOK, NamesInv, Names
<1>5. ASSUME NEW pair \in Predictions, ChoosePredicted(pair[1], pair[2])
      PROVE  TypeOK' /\ NamesInv'
  <2> DEFINE last == pair[1]
             token == pair[2]
  <2>1. last \in Indices /\ token \in Tokens /\ token # sentence_start
    BY UserBigramAssumption
  <2>2. last \in live \cup {sentence_start} /\ token \in live
    BY <1>5, <2>1 DEF ChoosePredicted
  <2>3. grams' = PairPredicted(grams, last, token)
        /\ UNCHANGED <<live, result, stale, misled, export, status>>
    BY <1>5 DEF ChoosePredicted
  <2> HIDE DEF last, token
  <2>4. /\ grams' \in Tables
        /\ \A N : Names(grams, N) /\ last \in N \cup {sentence_start} /\ token \in N
                  => Names(grams', N)
    BY <2>1, <2>3, PairPredictedIs DEF TypeOK
  <2>5. ~misled => Names(grams', live)
    BY <2>2, <2>4 DEF NamesInv
  <2> QED
    BY <2>3, <2>4, <2>5 DEF export, TypeOK, NamesInv, Names
<1>6. ASSUME NEW token \in Removable, RemoveCandidate(token) PROVE TypeOK' /\ NamesInv'
  BY <1>6, ForgetKeeps DEF RemoveCandidate
<1>7. ASSUME NEW token \in Removable, ImportPhrase(token) PROVE TypeOK' /\ NamesInv'
  <2>1. live \subseteq live' /\ live' \subseteq Tokens
    BY <1>7, UserBigramAssumption DEF ImportPhrase, TypeOK
  <2>2. UNCHANGED <<grams, result, stale, misled, export, status>>
    BY <1>7 DEF ImportPhrase
  <2>3. ~misled => Names(grams, live')
    BY <2>1, NamesMore DEF NamesInv
  <2> QED
    BY <2>1, <2>2, <2>3 DEF export, TypeOK, NamesInv, Names
<1>8. ASSUME NEW S \in Masks, MaskOut(S) PROVE TypeOK' /\ NamesInv'
  BY <1>8, ForgetKeeps DEF MaskOut
<1>9. CASE BeginExport \/ HasNext \/ GetNext \/ EndExport
  BY <1>1, <1>9 DEF BeginExport, HasNext, GetNext, EndExport, TypeOK
<1>10. CASE ExportCrashes
  BY <1>1, <1>10 DEF ExportCrashes, Crash, export, TypeOK
<1> QED
  BY <1>2, <1>3, <1>4, <1>5, <1>6, <1>7, <1>8, <1>9, <1>10 DEF Next

\* Every state reached has whole grams, of phrases that exist as long as it should.
LEMMA GramsInvariant == Spec => [](TypeOK /\ NamesInv)
BY GramsInit, GramsNext, PTL DEF Spec

\* Training, choosing and masking leave every gram sorted, with the sum of its
\* frequencies as its total in the width of a frequency, and the assertion of get_length
\* holds at every masking.
THEOREM GramsAlwaysBalance == Spec => []GramsBalance
<1>1. TypeOK => GramsBalance
  <2> SUFFICES ASSUME TypeOK PROVE GramsBalance
    OBVIOUS
  <2>1. \A i \in DOMAIN grams : grams[i] \in GramSet
    BY DEF TypeOK, Tables
  <2> QED
    BY <2>1 DEF TypeOK, GramsBalance, GramSet, Sorted
<1> QED
  BY <1>1, GramsInvariant, PTL

\* Removed and masked phrases are named by no pair, as first or as second phrase,
\* whatever is trained before or later.
THEOREM PairsAlwaysNameItems == Spec => []PairsNameItems
<1>1. NamesInv => PairsNameItems
  BY DEF NamesInv, PairsNameItems, Names
<1> QED
  BY <1>1, GramsInvariant, PTL

-----------------------------------------------------------------------------
(* The export. *)

IterSet == [on : BOOLEAN, asked : BOOLEAN, more : BOOLEAN, items : Seq(Indices),
            index : Indices \cup {null_token}, pairs : Seq(ItemSet),
            second : Tokens \cup {null_token}, left : Nat]

\* What an iterator has read is of phrases of N.
Reads(it, N) ==
    /\ it.index \in N \cup {sentence_start, null_token}
    /\ TokensOf(it.pairs) \subseteq N

\* The next index is one of the list, and its pairs are those the bigram has.
LEMMA RefilledIs ==
    ASSUME NEW it \in IterSet, grams \in Tables, it.items # <<>>
    PROVE  LET new == Refilled(Drained(it))
           IN  /\ new \in IterSet
               /\ Len(new.items) = Len(it.items) - 1
               /\ ToSet(new.items) \subseteq ToSet(it.items)
               /\ new.on = it.on /\ new.left = it.left
               /\ \A N : ToSet(it.items) \subseteq DOMAIN grams /\ Names(grams, N) /\ Reads(it, N)
                         => Reads(new, N)
<1> DEFINE x == Drained(it)
           new == Refilled(x)
           next == Head(it.items)
<1>1. /\ x \in IterSet /\ x.items = it.items /\ x.on = it.on /\ x.left = it.left
      /\ x.index = it.index
      /\ TokensOf(x.pairs) \subseteq TokensOf(it.pairs)
  <2>1. <<>> \in Seq(ItemSet) /\ TokensOf(<<>>) = {}
    BY DEF TokensOf
  <2>2. [it EXCEPT !.pairs = <<>>] \in IterSet
    BY <2>1 DEF IterSet
  <2> QED
    BY <2>1, <2>2 DEF Drained, IterSet
<1> HIDE DEF x
<1>2. /\ next \in Indices /\ next \in ToSet(it.items)
      /\ Tail(it.items) \in Seq(Indices) /\ Len(Tail(it.items)) = Len(it.items) - 1
      /\ ToSet(Tail(it.items)) \subseteq ToSet(it.items)
  <2> DEFINE s == it.items
  <2>1. s \in Seq(Indices) /\ s # <<>>
    BY DEF IterSet
  <2> HIDE DEF s
  <2>2. /\ Head(s) = s[1] /\ 1 \in DOMAIN s /\ DOMAIN s = 1 .. Len(s)
        /\ Tail(s) \in Seq(Indices) /\ Len(Tail(s)) = Len(s) - 1
        /\ DOMAIN Tail(s) = 1 .. Len(s) - 1
        /\ \A i \in 1 .. Len(s) - 1 : Tail(s)[i] = s[i + 1]
    BY <2>1
  <2>3. \A i \in 1 .. Len(s) - 1 : i + 1 \in DOMAIN s
    BY <2>1
  <2>4. ToSet(Tail(s)) \subseteq ToSet(s)
    BY <2>2, <2>3 DEF ToSet
  <2>5. Head(s) \in Indices /\ Head(s) \in ToSet(s)
    BY <2>1, <2>2 DEF ToSet
  <2> QED
    BY <2>2, <2>4, <2>5 DEF s
<1>3. Loaded(next) = Old(grams, next)
  BY DEF Loaded, Old
<1>4. /\ Loaded(next).items \in Seq(ItemSet)
      /\ \A N : Names(grams, N) => TokensOf(Loaded(next).items) \subseteq N
  BY <1>3, OldGram
<1> DEFINE both == x.pairs \o Loaded(next).items
<1>5. new = [x EXCEPT !.items = Tail(it.items), !.index = next, !.pairs = both]
  BY <1>1 DEF Refilled
<1> HIDE DEF next
<1>6. both \in Seq(ItemSet) /\ TokensOf(both) \subseteq TokensOf(x.pairs) \cup TokensOf(Loaded(next).items)
  <2> DEFINE a == x.pairs
             b == Loaded(next).items
  <2>1. a \in Seq(ItemSet) /\ b \in Seq(ItemSet)
    BY <1>1, <1>4 DEF IterSet
  <2> HIDE DEF a, b
  <2>2. /\ a \o b \in Seq(ItemSet) /\ Len(a \o b) = Len(a) + Len(b)
        /\ \A i \in 1 .. Len(a) + Len(b) :
              (a \o b)[i] = IF i <= Len(a) THEN a[i] ELSE b[i - Len(a)]
    BY <2>1, ConcatProperties
  <2>3. DOMAIN (a \o b) = 1 .. Len(a) + Len(b) /\ DOMAIN a = 1 .. Len(a) /\ DOMAIN b = 1 .. Len(b)
        /\ Len(a) \in Nat /\ Len(b) \in Nat
    BY <2>1, <2>2
  <2>4. ASSUME NEW i \in DOMAIN (a \o b)
        PROVE  (a \o b)[i].token \in TokensOf(a) \cup TokensOf(b)
    <3>1. CASE i <= Len(a)
      <4>1. i \in DOMAIN a /\ (a \o b)[i] = a[i]
        BY <2>2, <2>3, <3>1
      <4> QED
        BY <4>1 DEF TokensOf
    <3>2. CASE i > Len(a)
      <4>1. i - Len(a) \in DOMAIN b /\ (a \o b)[i] = b[i - Len(a)]
        BY <2>2, <2>3, <3>2
      <4> QED
        BY <4>1 DEF TokensOf
    <3> QED
      BY <2>3, <3>1, <3>2
  <2>5. TokensOf(a \o b) \subseteq TokensOf(a) \cup TokensOf(b)
    BY <2>4 DEF TokensOf
  <2> QED
    BY <2>2, <2>5 DEF a, b
<1> HIDE DEF both
<1>7. /\ new \in IterSet
      /\ new.items = Tail(it.items) /\ new.index = next /\ new.pairs = both
      /\ new.on = it.on /\ new.left = it.left
  <2>1. [x EXCEPT !.items = Tail(it.items), !.index = next, !.pairs = both] \in IterSet
    BY <1>1, <1>2, <1>6 DEF IterSet
  <2> QED
    BY <1>1, <1>5, <2>1 DEF IterSet
<1> HIDE DEF new
<1>8. ASSUME NEW N, ToSet(it.items) \subseteq DOMAIN grams, Names(grams, N), Reads(it, N)
      PROVE  Reads(new, N)
  <2>1. next \in N \cup {sentence_start}
    BY <1>2, <1>8 DEF Names
  <2> QED
    BY <1>1, <1>4, <1>6, <1>7, <1>8, <2>1 DEF Reads
<1>9. /\ new \in IterSet
      /\ Len(new.items) = Len(it.items) - 1
      /\ ToSet(new.items) \subseteq ToSet(it.items)
      /\ new.on = it.on /\ new.left = it.left
      /\ \A N : ToSet(it.items) \subseteq DOMAIN grams /\ Names(grams, N) /\ Reads(it, N)
                => Reads(new, N)
  BY <1>2, <1>7, <1>8
<1> QED
  BY <1>9 DEF new, x

\* However many turns of the loop of has_next.
LEMMA TurnsAre ==
    ASSUME NEW it \in IterSet, grams \in Tables, NEW m \in 0 .. Len(it.items)
    PROVE  /\ Turns(it)[m] \in IterSet
           /\ ToSet(Turns(it)[m].items) \subseteq ToSet(it.items)
           /\ Turns(it)[m].on = it.on /\ Turns(it)[m].left = it.left
           /\ \A N : ToSet(it.items) \subseteq DOMAIN grams /\ Names(grams, N) /\ Reads(it, N)
                     => Reads(Turns(it)[m], N)
<1> DEFINE n == Len(it.items)
           turn[k \in 0 .. n] == IF k = 0 THEN it ELSE Refilled(Drained(turn[k - 1]))
           Step == [k \in 1 .. n |->
                      [x \in IterSet |-> IF x.items = <<>> THEN x ELSE Refilled(Drained(x))]]
           Good(k, x) == /\ x \in IterSet
                         /\ Len(x.items) = n - k
                         /\ ToSet(x.items) \subseteq ToSet(it.items)
                         /\ x.on = it.on /\ x.left = it.left
                         /\ \A N : ToSet(it.items) \subseteq DOMAIN grams /\ Names(grams, N) /\ Reads(it, N)
                                   => Reads(x, N)
<1>1. Turns(it) = turn
  BY DEF Turns
<1>2. n \in Nat /\ it.items \in Seq(Indices)
  BY DEF IterSet
<1> HIDE DEF n, turn
<1>3. Step \in [1 .. n -> [IterSet -> IterSet]]
  BY RefilledIs
<1>4. ASSUME NEW k \in 1 .. n, NEW x, Good(k - 1, x)
      PROVE  /\ x.items # <<>>
             /\ Good(k, Refilled(Drained(x)))
  <2>1. x.items # <<>>
    <3>1. Len(<<>>) = 0 /\ n - (k - 1) # 0
      BY <1>2
    <3> QED
      BY <1>4, <3>1
  <2> DEFINE new == Refilled(Drained(x))
  <2>2. /\ new \in IterSet
        /\ Len(new.items) = Len(x.items) - 1
        /\ ToSet(new.items) \subseteq ToSet(x.items)
        /\ new.on = x.on /\ new.left = x.left
        /\ \A N : ToSet(x.items) \subseteq DOMAIN grams /\ Names(grams, N) /\ Reads(x, N)
                  => Reads(new, N)
    BY <1>4, <2>1, RefilledIs
  <2> HIDE DEF new
  <2>3. Len(x.items) - 1 = n - k
    BY <1>2, <1>4
  <2>4. Good(k, new)
    BY <1>4, <2>2, <2>3
  <2> QED
    BY <2>1, <2>4 DEF new
<1>5. PICK f \in Recursions(n, IterSet, it, Step) : TRUE
  <2> HIDE DEF Step
  <2> QED
    BY <1>2, <1>3, RecursionUpTo
<1>6. f \in [0 .. n -> IterSet] /\ f[0] = it /\ \A k \in 1 .. n : f[k] = Step[k][f[k - 1]]
  BY DEF Recursions
<1> DEFINE T == {k \in 0 .. n : Good(k, f[k])}
<1>7. 0 \in T
  <2>1. Len(it.items) = n - 0
    BY <1>2 DEF n
  <2>2. Good(0, it)
    BY <2>1
  <2> HIDE DEF Good
  <2> QED
    BY <1>2, <1>6, <2>2
<1>8. ASSUME NEW k \in 1 .. n, Good(k - 1, f[k - 1])
      PROVE  f[k] = Refilled(Drained(f[k - 1])) /\ Good(k, f[k])
  <2> DEFINE x == f[k - 1]
  <2>1. x \in IterSet /\ f[k] = Step[k][x]
    BY <1>6, <1>8
  <2> HIDE DEF x
  <2>2. Good(k - 1, x)
    BY <1>8 DEF x
  <2> HIDE DEF Good
  <2>3. x.items # <<>> /\ Good(k, Refilled(Drained(x)))
    BY <1>4, <2>2
  <2>4. f[k] = Refilled(Drained(x))
    BY <2>1, <2>3
  <2> QED
    BY <2>3, <2>4 DEF x
<1>9. 0 .. n \subseteq T
  <2>1. ASSUME NEW k \in 1 .. n, k - 1 \in T PROVE k \in T
    <3>1. k \in 0 .. n
      BY <1>2
    <3> HIDE DEF Good
    <3> QED
      BY <1>8, <2>1, <3>1
  <2> HIDE DEF T
  <2> QED
    BY <1>2, <1>7, <2>1, InductionUpTo
<1>10. \A k \in 0 .. n : Good(k, f[k])
  BY <1>9
<1> HIDE DEF T, Good
<1>11. turn = f
  <2>1. \A k \in 1 .. n : f[k] = Refilled(Drained(f[k - 1]))
    <3>1. \A k \in 1 .. n : k - 1 \in 0 .. n
      BY <1>2
    <3> QED
      BY <1>8, <1>10, <3>1
  <2> HIDE DEF Step
  <2>2. \A k \in 0 .. n : f[k] = IF k = 0 THEN it ELSE Refilled(Drained(f[k - 1]))
    BY <1>2, <1>6, <2>1
  <2>3. f = [k \in 0 .. n |-> f[k]]
    BY <1>6
  <2>4. f = [k \in 0 .. n |-> IF k = 0 THEN it ELSE Refilled(Drained(f[k - 1]))]
    BY <2>2, <2>3
  <2>5. \E g : g = [k \in 0 .. n |-> IF k = 0 THEN it ELSE Refilled(Drained(g[k - 1]))]
    BY <2>4
  <2>6. turn = [k \in 0 .. n |-> IF k = 0 THEN it ELSE Refilled(Drained(turn[k - 1]))]
    BY <2>5 DEF turn
  <2> DEFINE E == {k \in 0 .. n : turn[k] = f[k]}
  <2>7. 0 \in E
    BY <1>2, <1>6, <2>6
  <2>8. ASSUME NEW k \in 1 .. n, k - 1 \in E PROVE k \in E
    <3>1. k \in 0 .. n /\ k # 0
      BY <1>2
    <3> QED
      BY <2>1, <2>6, <2>8, <3>1
  <2>9. 0 .. n \subseteq E
    <3> HIDE DEF E
    <3> QED
      BY <1>2, <2>7, <2>8, InductionUpTo
  <2>10. \A k \in 0 .. n : turn[k] = f[k]
    BY <2>9
  <2>11. turn = [k \in 0 .. n |-> turn[k]]
    BY <2>6
  <2> QED
    BY <2>3, <2>10, <2>11
<1>12. m \in 0 .. n
  BY DEF n
<1> QED
  BY <1>1, <1>10, <1>11, <1>12 DEF Good

\* The pair that is taken: its phrases are of those read, so its pronunciations can be
\* counted down.
LEMMA TakenIs ==
    ASSUME NEW it \in IterSet, Frequent(it) # {}, live \subseteq Tokens
    PROVE  /\ Taken(it) \in IterSet
           /\ Taken(it).on = it.on /\ Taken(it).items = it.items
           /\ Reads(it, live) => Reads(Taken(it), live) /\ Taken(it).left > 0
<1> DEFINE k == Min(Frequent(it))
           token == it.pairs[k].token
           rest == SubSeq(it.pairs, k + 1, Len(it.pairs))
           left == PairPronunciations(it.index, token)
<1>1. it.pairs \in Seq(ItemSet) /\ Len(it.pairs) \in Nat /\ DOMAIN it.pairs = 1 .. Len(it.pairs)
  BY DEF IterSet
<1>2. k \in Frequent(it)
  <2>1. Frequent(it) \in SUBSET Nat
    BY <1>1 DEF Frequent
  <2> QED
    BY <2>1, LeastOf
<1>3. k \in 1 .. Len(it.pairs) /\ Exportable(it)
  BY <1>1, <1>2 DEF Frequent
<1>4. token \in Tokens /\ token \in TokensOf(it.pairs)
  <2> HIDE DEF k
  <2>1. it.pairs[k] \in ItemSet /\ k \in DOMAIN it.pairs
    BY <1>1, <1>3
  <2> QED
    BY <2>1 DEF TokensOf, ItemSet
<1>5. Taken(it) = [it EXCEPT !.pairs = rest, !.second = token, !.left = left,
                             !.asked = TRUE, !.more = TRUE]
  BY DEF Taken
<1> HIDE DEF k
<1>6. rest \in Seq(ItemSet) /\ TokensOf(rest) \subseteq TokensOf(it.pairs)
  <2> DEFINE s == it.pairs
             n == Len(s)
  <2>1. s \in Seq(ItemSet) /\ n \in Nat /\ k \in 1 .. n /\ DOMAIN s = 1 .. n
    BY <1>1, <1>3
  <2> HIDE DEF s
  <2>2. \A i \in k + 1 .. n : s[i] \in ItemSet
    BY <2>1
  <2>3. SubSeq(s, k + 1, n) = [i \in 1 .. n - k |-> s[k + i]]
    BY <2>1, <2>2, SubSeqProperties
  <2> HIDE DEF n
  <2>4. SubSeq(s, k + 1, n) \in Seq(ItemSet) /\ DOMAIN SubSeq(s, k + 1, n) = 1 .. n - k
    BY <2>1, <2>2, <2>3
  <2>5. \A i \in 1 .. n - k : k + i \in DOMAIN s /\ SubSeq(s, k + 1, n)[i] = s[k + i]
    BY <2>1, <2>3
  <2>6. TokensOf(SubSeq(s, k + 1, n)) \subseteq TokensOf(s)
    BY <2>4, <2>5 DEF TokensOf
  <2> QED
    BY <2>4, <2>6 DEF s, n
<1> HIDE DEF rest, token
<1>7. left \in Nat
  <2>1. \A t \in live : Pronunciations[t] \in Nat
    BY UserBigramAssumption
  <2>2. \A a, b \in Nat : a * b \in Nat
    OBVIOUS
  <2> QED
    BY <2>1, <2>2 DEF PairPronunciations
<1>8. ASSUME Reads(it, live) PROVE left > 0
  <2>1. it.index \in live /\ token \in live
    BY <1>3, <1>4, <1>8 DEF Reads, Exportable
  <2>2. \A t \in live : Pronunciations[t] \in Nat \ {0}
    BY UserBigramAssumption
  <2>3. \A a, b \in Nat \ {0} : a * b > 0
    OBVIOUS
  <2> QED
    BY <2>1, <2>2, <2>3 DEF PairPronunciations
<1> HIDE DEF left
<1>9. /\ Taken(it) \in IterSet
      /\ Taken(it).on = it.on /\ Taken(it).items = it.items
      /\ Taken(it).index = it.index /\ Taken(it).pairs = rest /\ Taken(it).left = left
  <2>1. [it EXCEPT !.pairs = rest, !.second = token, !.left = left,
                   !.asked = TRUE, !.more = TRUE] \in IterSet
    BY <1>4, <1>6, <1>7 DEF IterSet
  <2> QED
    BY <1>5, <2>1 DEF IterSet
<1> QED
  BY <1>6, <1>8, <1>9 DEF Reads

\* What has_next leaves: an iterator that read phrases that exist, and a pair to hand
\* out if it says that there is one.
LEMMA AskedIs ==
    ASSUME NEW it \in IterSet, grams \in Tables, live \subseteq Tokens
    PROVE  /\ Asked(it) \in IterSet
           /\ Asked(it).on = it.on
           /\ ToSet(Asked(it).items) \subseteq ToSet(it.items)
           /\ ToSet(it.items) \subseteq DOMAIN grams /\ Names(grams, live) /\ Reads(it, live)
              => Reads(Asked(it), live) /\ (Asked(it).more => Asked(it).left > 0)
<1> DEFINE n == Len(it.items)
           Sound == ToSet(it.items) \subseteq DOMAIN grams /\ Names(grams, live) /\ Reads(it, live)
<1>1. n \in Nat /\ it.items \in Seq(Indices) /\ it.left \in Nat
  BY DEF IterSet
<1>2. ASSUME NEW m \in 0 .. n
      PROVE  /\ Turns(it)[m] \in IterSet
             /\ ToSet(Turns(it)[m].items) \subseteq ToSet(it.items)
             /\ Turns(it)[m].on = it.on
             /\ Sound => Reads(Turns(it)[m], live)
  BY TurnsAre
<1>3. CASE it.left > 0
  <2> DEFINE a == [it EXCEPT !.asked = TRUE, !.more = TRUE]
  <2>1. Asked(it) = a
    BY <1>3 DEF Asked
  <2>2. a \in IterSet /\ a.on = it.on /\ a.items = it.items /\ a.left = it.left
        /\ a.index = it.index /\ a.pairs = it.pairs
    BY DEF IterSet
  <2> HIDE DEF a
  <2>3. Reads(it, live) => Reads(a, live)
    BY <2>2 DEF Reads
  <2> QED
    BY <1>3, <2>1, <2>2, <2>3
<1>4. CASE ~(it.left > 0) /\ Finding(it) # {}
  <2> DEFINE m == Min(Finding(it))
             t == Turns(it)[m]
  <2>1. Asked(it) = Taken(t)
    BY <1>4 DEF Asked
  <2>2. m \in 0 .. n /\ Frequent(t) # {}
    <3>1. Max({n - 1, 0}) \in {n - 1, 0} \/ n = 0
      <4>1. CASE n = 0
        BY <4>1
      <4>2. CASE n # 0
        <5>1. n - 1 \in Nat
          BY <1>1, <4>2
        <5> HIDE DEF n
        <5> QED
          BY <5>1, OfTwo
      <4> QED
        BY <4>1, <4>2
    <3>2. Finding(it) \subseteq 0 .. n /\ \A f \in Finding(it) : Frequent(Turns(it)[f]) # {}
      <4>1. CASE n = 0
        <5>1. n - 1 = -1
          BY <4>1
        <5>2. \A y \in {-1, 0} : 0 >= y
          OBVIOUS
        <5>3. Max({-1, 0}) = 0
          BY <5>2 DEF Max
        <5>4. Max({n - 1, 0}) = 0
          BY <5>1, <5>3
        <5> HIDE DEF n
        <5> QED
          BY <1>1, <5>4 DEF Finding, n
      <4>2. CASE n # 0
        <5>1. Max({n - 1, 0}) \in 0 .. n
          BY <1>1, <3>1, <4>2
        <5> QED
          BY <1>1, <5>1 DEF Finding
      <4> QED
        BY <4>1, <4>2
    <3>3. m \in Finding(it)
      <4>1. Finding(it) \in SUBSET Nat
        BY <1>1, <3>2
      <4> QED
        BY <1>4, <4>1, LeastOf
    <3> QED
      BY <3>2, <3>3
  <2>3. /\ t \in IterSet /\ t.on = it.on
        /\ ToSet(t.items) \subseteq ToSet(it.items)
        /\ Sound => Reads(t, live)
    BY <1>2, <2>2
  <2> HIDE DEF t
  <2>4. /\ Taken(t) \in IterSet
        /\ Taken(t).on = t.on /\ Taken(t).items = t.items
        /\ Reads(t, live) => Reads(Taken(t), live) /\ Taken(t).left > 0
    BY <2>2, <2>3, TakenIs
  <2> QED
    BY <2>1, <2>3, <2>4
<1>5. CASE ~(it.left > 0) /\ Finding(it) = {}
  <2> DEFINE last == IF it.items = <<>> THEN Drained(it) ELSE Turns(it)[n]
             a == [last EXCEPT !.asked = TRUE, !.more = FALSE, !.left = 0]
  <2>1. Asked(it) = a
    BY <1>5 DEF Asked
  <2>2. /\ last \in IterSet /\ last.on = it.on
        /\ ToSet(last.items) \subseteq ToSet(it.items)
        /\ Sound => Reads(last, live)
    <3>1. CASE it.items = <<>>
      <4>1. <<>> \in Seq(ItemSet) /\ TokensOf(<<>>) = {}
        BY DEF TokensOf
      <4> DEFINE e == [it EXCEPT !.pairs = <<>>]
      <4>2. e \in IterSet /\ e.on = it.on /\ e.items = it.items /\ e.index = it.index
            /\ e.pairs = <<>>
        BY <4>1 DEF IterSet
      <4>3. Reads(it, live) => Reads(e, live)
        BY <4>1, <4>2 DEF Reads
      <4>4. last = e \/ last = it
        BY <3>1 DEF Drained
      <4> HIDE DEF e, last
      <4> QED
        BY <4>2, <4>3, <4>4
    <3>2. CASE it.items # <<>>
      <4>1. last = Turns(it)[n] /\ n \in 0 .. n
        BY <1>1, <3>2
      <4> HIDE DEF last
      <4> QED
        BY <1>2, <4>1
    <3> QED
      BY <3>1, <3>2
  <2> HIDE DEF last
  <2>3. a \in IterSet /\ a.on = last.on /\ a.items = last.items /\ ~a.more
        /\ a.index = last.index /\ a.pairs = last.pairs
    BY <2>2 DEF IterSet
  <2> HIDE DEF a
  <2>4. Reads(last, live) => Reads(a, live)
    BY <2>3 DEF Reads
  <2> QED
    BY <2>1, <2>2, <2>3, <2>4
<1> QED
  BY <1>3, <1>4, <1>5

\* While nothing was removed, an export remembers indices the bigram has; while no
\* outdated sentence was trained either, it read pairs of phrases that exist, so that a
\* pair it found has a pronunciation left.
ExportInv ==
    /\ iter \in IterSet
    /\ iter.on /\ ~touched => ToSet(iter.items) \subseteq DOMAIN grams
    /\ iter.on /\ ~touched /\ ~misled =>
          Reads(iter, live) /\ (iter.more => iter.left > 0)
    /\ status = "crashed" => touched \/ misled

\* No export runs at first.
LEMMA ExportInit == Init => ExportInv
<1> SUFFICES ASSUME Init PROVE ExportInv
  OBVIOUS
<1>1. <<>> \in Seq(Indices) /\ <<>> \in Seq(ItemSet)
  OBVIOUS
<1>2. NoIterator \in IterSet /\ ~NoIterator.on
  BY <1>1 DEF NoIterator, IterSet
<1> QED
  BY <1>2 DEF Init, ExportInv

\* What is added to the bigram and to the libraries takes nothing from an export.
LEMMA MoreKeepsExport ==
    ASSUME ExportInv, UNCHANGED <<iter, touched>>, status' = "ok",
           DOMAIN grams \subseteq DOMAIN grams', live \subseteq live', misled => misled'
    PROVE  ExportInv'
<1>1. Reads(iter, live) => Reads(iter, live')
  BY DEF Reads
<1>2. Reads(iter, live)' = Reads(iter, live')
  BY DEF Reads
<1> HIDE DEF ToSet
<1> QED
  BY <1>1, <1>2 DEF ExportInv

\* One call to has_next, by the caller or by get_next, on an iterator that is sound.
LEMMA AskKeepsExport ==
    ASSUME TypeOK, NamesInv, NEW it \in IterSet, it.on = iter.on,
           iter.on /\ ~touched => ToSet(it.items) \subseteq DOMAIN grams,
           iter.on /\ ~touched /\ ~misled => Reads(it, live),
           iter' = Asked(it), UNCHANGED <<data, touched, status>>, status = "ok"
    PROVE  ExportInv'
<1>1. /\ Asked(it) \in IterSet
      /\ Asked(it).on = it.on
      /\ ToSet(Asked(it).items) \subseteq ToSet(it.items)
      /\ ToSet(it.items) \subseteq DOMAIN grams /\ Names(grams, live) /\ Reads(it, live)
         => Reads(Asked(it), live) /\ (Asked(it).more => Asked(it).left > 0)
  BY AskedIs DEF TypeOK
<1>2. UNCHANGED <<grams, live, misled, touched, status>>
  BY DEF data
<1>3. Reads(iter, live)' = Reads(iter', live')
  BY DEF Reads
<1> HIDE DEF ToSet
<1> QED
  BY <1>1, <1>2, <1>3 DEF ExportInv, NamesInv

\* An iterator whose indices the bigram has meets no missing gram.
LEMMA NoMissingGram ==
    ASSUME NEW it, it.items \in Seq(Indices), ToSet(it.items) \subseteq DOMAIN grams
    PROVE  ~AskCrashes(it)
BY DEF AskCrashes, ToSet

\* Every call keeps the export sound.
LEMMA ExportNext ==
    TypeOK /\ NamesInv /\ ExportInv /\ [Next]_vars => ExportInv'
<1> SUFFICES ASSUME TypeOK, NamesInv, ExportInv, [Next]_vars PROVE ExportInv'
  OBVIOUS
<1> DEFINE down == [iter EXCEPT !.left = @ - 1]
<1>1. iter \in IterSet
  BY DEF ExportInv
<1>2. ASSUME iter.left > 0
      PROVE  /\ down \in IterSet /\ down.items = iter.items /\ down.on = iter.on
             /\ Reads(iter, live) => Reads(down, live)
  <2>1. iter.left - 1 \in Nat
    BY <1>1, <1>2 DEF IterSet
  <2>2. down \in IterSet /\ down.items = iter.items /\ down.on = iter.on
        /\ down.index = iter.index /\ down.pairs = iter.pairs
    BY <1>1, <2>1 DEF IterSet
  <2> HIDE DEF down
  <2> QED
    BY <2>2 DEF Reads
<1> HIDE DEF down
<1>3. CASE UNCHANGED vars
  <2>1. UNCHANGED <<iter, touched, status, misled, grams, live>>
    BY <1>3 DEF vars
  <2>2. Reads(iter, live)' = Reads(iter, live)
    BY <2>1 DEF Reads
  <2> HIDE DEF ToSet
  <2> QED
    BY <2>1, <2>2 DEF ExportInv
<1>4. CASE Search
  BY <1>4, MoreKeepsExport DEF Search, export
<1>5. CASE Train
  <2>1. PICK selected : grams' = SentenceTrained(grams, result, selected)
    BY <1>5 DEF Train
  <2>2. DOMAIN grams \subseteq DOMAIN grams'
    BY <2>1, SentenceTrainedIs DEF TypeOK
  <2> QED
    BY <1>5, <2>2, MoreKeepsExport DEF Train, export
<1>6. ASSUME NEW pair \in Predictions, ChoosePredicted(pair[1], pair[2]) PROVE ExportInv'
  <2>1. pair[1] \in Indices /\ pair[2] \in Tokens
    BY UserBigramAssumption
  <2>2. grams' = PairPredicted(grams, pair[1], pair[2])
        /\ UNCHANGED <<live, result, stale, misled, export, status>> /\ status = "ok"
    BY <1>6 DEF ChoosePredicted
  <2>3. DOMAIN grams \subseteq DOMAIN grams'
    BY <2>1, <2>2, PairPredictedIs DEF TypeOK
  <2> QED
    BY <2>2, <2>3, MoreKeepsExport DEF export
<1>7. ASSUME NEW S, Forget(S) PROVE ExportInv'
  <2>1. /\ touched' = (iter.on /\ (touched \/ grams' # grams \/ live' # live))
        /\ UNCHANGED <<misled, iter>>
    BY <1>7 DEF Forget
  <2>2. status' # "crashed"
    BY <1>7 DEF Forget
  <2>3. iter.on /\ ~touched' => ~touched /\ grams' = grams /\ live' = live
    BY <2>1
  <2>4. Reads(iter, live)' = Reads(iter, live')
    BY <2>1 DEF Reads
  <2> HIDE DEF ToSet
  <2> QED
    BY <2>1, <2>2, <2>3, <2>4 DEF ExportInv
<1>8. ASSUME NEW token \in Removable, RemoveCandidate(token) PROVE ExportInv'
  BY <1>7, <1>8 DEF RemoveCandidate
<1>9. ASSUME NEW token \in Removable, ImportPhrase(token) PROVE ExportInv'
  BY <1>9, MoreKeepsExport DEF ImportPhrase, export
<1>10. ASSUME NEW S \in Masks, MaskOut(S) PROVE ExportInv'
  BY <1>7, <1>10 DEF MaskOut
<1>11. CASE BeginExport
  <2>1. PICK order \in SetToSeqs(DOMAIN grams) :
           iter' = [NoIterator EXCEPT !.on = TRUE, !.items = order]
    BY <1>11 DEF BeginExport
  <2>2. IsFiniteSet(DOMAIN grams) /\ DOMAIN grams \subseteq Indices
    BY DEF TypeOK, Tables, Domains
  <2>3. Cardinality(DOMAIN grams) \in Nat
    BY <2>2, FS_CardinalityType
  <2>4. order \in [1 .. Cardinality(DOMAIN grams) -> DOMAIN grams]
    BY DEF SetToSeqs
  <2>5. order \in Seq(Indices) /\ ToSet(order) \subseteq DOMAIN grams
    BY <2>2, <2>3, <2>4 DEF ToSet
  <2>6. <<>> \in Seq(ItemSet) /\ TokensOf(<<>>) = {}
    BY DEF TokensOf
  <2>7. iter' \in IterSet /\ iter'.items = order /\ ~iter'.more
        /\ iter'.index = null_token /\ iter'.pairs = <<>>
    BY <2>1, <2>5, <2>6 DEF NoIterator, IterSet
  <2>8. Reads(iter, live)'
    BY <2>6, <2>7 DEF Reads
  <2>9. UNCHANGED <<grams, status>> /\ status' = "ok"
    BY <1>11 DEF BeginExport, data
  <2> HIDE DEF ToSet
  <2> QED
    BY <2>5, <2>7, <2>8, <2>9 DEF ExportInv
<1>12. CASE HasNext
  <2>1. iter' = Asked(iter) /\ UNCHANGED <<data, touched, status>> /\ status = "ok"
    BY <1>12 DEF HasNext
  <2> QED
    BY <1>1, <2>1, AskKeepsExport DEF ExportInv
<1>13. CASE GetNext
  <2>1. iter' = Asked(down) /\ UNCHANGED <<data, touched, status>> /\ status = "ok"
        /\ iter.left > 0
    BY <1>13 DEF GetNext, down
  <2> HIDE DEF ToSet
  <2> QED
    BY <1>2, <2>1, AskKeepsExport DEF ExportInv
<1>14. CASE ExportCrashes
  <2>1. UNCHANGED <<iter, touched, misled, grams, live>> /\ status' = "crashed"
    BY <1>14 DEF ExportCrashes, Crash, data, export
  <2>2. Reads(iter, live)' = Reads(iter, live)
    BY <2>1 DEF Reads
  <2>3. touched \/ misled
    <3>1. SUFFICES ASSUME ~touched, ~misled PROVE FALSE
      OBVIOUS
    <3>2. iter.on
      BY <1>14 DEF ExportCrashes
    <3>3. ToSet(iter.items) \subseteq DOMAIN grams /\ iter.items \in Seq(Indices)
          /\ iter.left \in Nat
      BY <1>1, <3>1, <3>2 DEF ExportInv, IterSet
    <3>4. ~AskCrashes(iter)
      BY <3>3, NoMissingGram
    <3>5. iter.more
      BY <1>14, <3>4 DEF ExportCrashes
    <3>6. iter.left > 0
      BY <3>1, <3>2, <3>5 DEF ExportInv
    <3>7. ~AskCrashes(down)
      BY <1>2, <3>3, <3>6, NoMissingGram
    <3>8. ~(iter.left = 0)
      BY <3>3, <3>6
    <3> QED
      BY <1>14, <3>4, <3>7, <3>8 DEF ExportCrashes, down
  <2> HIDE DEF ToSet
  <2> QED
    BY <2>1, <2>2, <2>3 DEF ExportInv
<1>15. CASE EndExport
  <2>1. iter' = NoIterator /\ touched' = FALSE /\ status' = "ok"
    BY <1>15 DEF EndExport
  <2>2. <<>> \in Seq(Indices) /\ <<>> \in Seq(ItemSet)
    OBVIOUS
  <2>3. NoIterator \in IterSet /\ ~NoIterator.on
    BY <2>2 DEF NoIterator, IterSet
  <2> QED
    BY <2>1, <2>3 DEF ExportInv
<1> QED
  BY <1>3, <1>4, <1>5, <1>6, <1>8, <1>9, <1>10, <1>11, <1>12, <1>13, <1>14, <1>15 DEF Next

\* An export ends in a bad pointer only if phrases were removed while it ran, or a
\* sentence older than a removal was trained, whatever else happens meanwhile.
THEOREM ExportAlwaysSafe == Spec => []ExportIsSafe
<1>1. TypeOK /\ NamesInv /\ ExportInv /\ [Next]_vars => (TypeOK /\ NamesInv /\ ExportInv)'
  BY GramsNext, ExportNext
<1>2. Init => TypeOK /\ NamesInv /\ ExportInv
  BY GramsInit, ExportInit
<1>3. ExportInv => ExportIsSafe
  BY DEF ExportInv, ExportIsSafe
<1> QED
  BY <1>1, <1>2, <1>3, PTL DEF Spec

-----------------------------------------------------------------------------
(* The merge with a system gram. *)

\* What a list says of a token.
Of(items, t) ==
    IF t \in TokensOf(items)
    THEN items[CHOOSE k \in DOMAIN items : items[k].token = t].freq ELSE 0

\* In a sorted list an item says it all of its token.
LEMMA OfIs ==
    ASSUME NEW items \in Seq(ItemSet), Sorted(items)
    PROVE  /\ \A k \in DOMAIN items : Of(items, items[k].token) = items[k].freq
           /\ \A t : Of(items, t) \in 0 .. Wrap - 1
<1>1. ASSUME NEW t \in TokensOf(items)
      PROVE  \E k \in DOMAIN items :
                k = (CHOOSE j \in DOMAIN items : items[j].token = t) /\ items[k].token = t
  BY DEF TokensOf
<1>2. \A j, k \in DOMAIN items : items[j].token = items[k].token => j = k
  <2>1. ASSUME NEW j \in DOMAIN items, NEW k \in DOMAIN items, j < k
        PROVE  items[j].token # items[k].token
    <3>1. items[j] \in ItemSet /\ items[k] \in ItemSet
      OBVIOUS
    <3>2. items[j].token \in Nat /\ items[k].token \in Nat
      BY <3>1, UserBigramAssumption DEF ItemSet
    <3>3. items[j].token < items[k].token
      BY <2>1 DEF Sorted
    <3> QED
      BY <3>2, <3>3
  <2>2. \A j, k \in DOMAIN items : j = k \/ j < k \/ k < j
    OBVIOUS
  <2> QED
    BY <2>1, <2>2
<1>3. ASSUME NEW k \in DOMAIN items PROVE Of(items, items[k].token) = items[k].freq
  <2>1. items[k].token \in TokensOf(items)
    BY DEF TokensOf
  <2> QED
    BY <1>1, <1>2, <2>1 DEF Of
<1>4. ASSUME NEW t PROVE Of(items, t) \in 0 .. Wrap - 1
  <2>1. CASE t \in TokensOf(items)
    <3>1. PICK k \in DOMAIN items :
             k = (CHOOSE j \in DOMAIN items : items[j].token = t) /\ items[k].token = t
      BY <1>1, <2>1
    <3>2. Of(items, t) = items[k].freq /\ items[k] \in ItemSet
      BY <2>1, <3>1 DEF Of
    <3> QED
      BY <3>2 DEF ItemSet
  <2>2. CASE t \notin TokensOf(items)
    BY <2>2, UserBigramAssumption DEF Of
  <2> QED
    BY <2>1, <2>2
<1> QED
  BY <1>3, <1>4

UpTo(items, i) == {items[x].token : x \in 1 .. i}

\* The cursor in one of the lists, at a turn that takes the token t, from this list
\* (d = 1) or not (d = 0); taken are the tokens of the turns before.
CursorAt(items, i, d, t, taken) ==
    /\ UpTo(items, i) \subseteq taken
    /\ \A u \in taken : u < t
    /\ \A u \in taken : \A x \in i + 1 .. Len(items) : u < items[x].token
    /\ d = 1 => i < Len(items) /\ items[i + 1].token = t
    /\ d = 0 => (i < Len(items) => t < items[i + 1].token)

\* The same cursor behind that turn.
CursorMoved(items, f, i, d, t, taken) ==
    /\ i + d \in 0 .. Len(items)
    /\ UpTo(items, i + d) = UpTo(items, i) \cup (IF d = 1 THEN {t} ELSE {})
    /\ \A u \in taken \cup {t} : \A x \in i + d + 1 .. Len(items) : u < items[x].token
    /\ f[i] \in Int /\ f[i + d] = f[i] + Of(items, t)

\* A turn moves it behind its token, and counts what the list says of that token.
LEMMA OneCursor ==
    ASSUME NEW items \in Seq(ItemSet), Sorted(items), NEW f, Sums(items, f),
           NEW i \in 0 .. Len(items), NEW d \in 0 .. 1, NEW t \in Nat, NEW taken,
           CursorAt(items, i, d, t, taken)
    PROVE  CursorMoved(items, f, i, d, t, taken)
<1> DEFINE n == Len(items)
<1>1. n \in Nat /\ DOMAIN items = 1 .. n
  OBVIOUS
<1>2. \A x \in 1 .. n : items[x].token \in Nat
  <2>1. \A x \in 1 .. n : items[x] \in ItemSet
    OBVIOUS
  <2> QED
    BY <2>1, UserBigramAssumption DEF ItemSet
<1>3. f[i] \in Int
  BY DEF Sums
<1>4. CASE d = 1
  <2>1. i + 1 \in 1 .. n /\ items[i + 1].token = t /\ i + d = i + 1
    BY <1>1, <1>4 DEF CursorAt
  <2>2. UpTo(items, i + 1) = UpTo(items, i) \cup {t}
    BY <1>1, <2>1 DEF UpTo
  <2>3. \A x \in i + 1 + 1 .. n : t < items[x].token /\ x \in i + 1 .. n
    BY <1>1, <2>1 DEF Sorted
  <2>4. f[i + 1] = f[i] + items[i + 1].freq
    <3>1. (i + 1) - 1 = i
      OBVIOUS
    <3> QED
      BY <2>1, <3>1 DEF Sums
  <2>5. Of(items, t) = items[i + 1].freq
    BY <1>1, <2>1, OfIs
  <2> QED
    BY <1>3, <1>4, <2>1, <2>2, <2>3, <2>4, <2>5 DEF CursorAt, CursorMoved
<1>5. CASE d = 0
  <2>1. i + d = i
    BY <1>5
  <2>2. ASSUME NEW x \in i + 1 .. n PROVE t < items[x].token
    <3>1. i < n /\ i + 1 \in 1 .. n /\ x \in 1 .. n
      BY <1>1
    <3>2. t < items[i + 1].token
      BY <1>5, <3>1 DEF CursorAt
    <3>3. x = i + 1 \/ items[i + 1].token < items[x].token
      BY <1>1, <3>1 DEF Sorted
    <3> QED
      BY <1>2, <3>1, <3>2, <3>3
  <2>3. t \notin TokensOf(items)
    <3>1. ASSUME NEW x \in 1 .. n, items[x].token = t PROVE FALSE
      <4>1. CASE x <= i
        <5>1. x \in 1 .. i
          BY <4>1
        <5>2. items[x].token \in taken
          BY <5>1 DEF UpTo, CursorAt
        <5> QED
          BY <3>1, <5>2 DEF CursorAt
      <4>2. CASE x > i
        <5>1. x \in i + 1 .. n
          BY <4>2
        <5> QED
          BY <2>2, <3>1, <5>1
      <4> QED
        BY <4>1, <4>2
    <3> QED
      BY <1>1, <3>1 DEF TokensOf
  <2>4. Of(items, t) = 0
    BY <2>3 DEF Of
  <2> QED
    BY <1>3, <1>5, <2>1, <2>2, <2>4 DEF CursorAt, CursorMoved
<1> QED
  BY <1>4, <1>5

\* Where a turn of the merge finds it: what is behind the cursors is merged, in order,
\* and below all that is before them.
Merging(first, second, f1, f2, s) ==
    /\ s \in [i : 0 .. Len(first), j : 0 .. Len(second), items : Seq(ItemSet)]
    /\ Sorted(s.items)
    /\ TokensOf(s.items) = UpTo(first, s.i) \cup UpTo(second, s.j)
    /\ \A u \in TokensOf(s.items) : \A x \in s.i + 1 .. Len(first) : u < first[x].token
    /\ \A u \in TokensOf(s.items) : \A x \in s.j + 1 .. Len(second) : u < second[x].token
    /\ \A k \in DOMAIN s.items : s.items[k].freq =
          (Of(first, s.items[k].token) + Of(second, s.items[k].token)) % Wrap
    /\ SumFreqs(s.items) % Wrap = (f1[s.i] + f2[s.j]) % Wrap

\* A turn that takes an item of either list, or of both.
LEMMA MergeTakes ==
    ASSUME NEW first \in Seq(ItemSet), Sorted(first), NEW f1, Sums(first, f1),
           NEW second \in Seq(ItemSet), Sorted(second), NEW f2, Sums(second, f2),
           NEW s, Merging(first, second, f1, f2, s), NEW item \in ItemSet,
           NEW d \in 0 .. 1, NEW e \in 0 .. 1, d = 1 \/ e = 1,
           d = 1 => s.i < Len(first) /\ first[s.i + 1].token = item.token,
           d = 0 /\ s.i < Len(first) => item.token < first[s.i + 1].token,
           e = 1 => s.j < Len(second) /\ second[s.j + 1].token = item.token,
           e = 0 /\ s.j < Len(second) => item.token < second[s.j + 1].token,
           item.freq = (Of(first, item.token) + Of(second, item.token)) % Wrap
    PROVE  Merging(first, second, f1, f2,
                   [i |-> s.i + d, j |-> s.j + e, items |-> Append(s.items, item)])
<1> DEFINE t == item.token
           new == Append(s.items, item)
           next == [i |-> s.i + d, j |-> s.j + e, items |-> new]
           p == Of(first, t)
           q == Of(second, t)
<1>1. s.i \in 0 .. Len(first) /\ s.j \in 0 .. Len(second) /\ s.items \in Seq(ItemSet)
      /\ Sorted(s.items)
  BY DEF Merging
<1>2. t \in Nat /\ item.freq \in Nat
  <2>1. t \in Tokens /\ item.freq \in 0 .. Wrap - 1
    BY DEF ItemSet
  <2>2. Tokens \subseteq Nat /\ Wrap \in Nat
    BY UserBigramAssumption
  <2> HIDE DEF t
  <2> QED
    BY <2>1, <2>2
<1>3. \A u \in TokensOf(s.items) : u < t
  <2>1. CASE d = 1
    <3>1. s.i + 1 \in s.i + 1 .. Len(first) /\ first[s.i + 1].token = t
      BY <1>1, <2>1
    <3> QED
      BY <3>1 DEF Merging
  <2>2. CASE e = 1
    <3>1. s.j + 1 \in s.j + 1 .. Len(second) /\ second[s.j + 1].token = t
      BY <1>1, <2>2
    <3> QED
      BY <3>1 DEF Merging
  <2> QED
    BY <2>1, <2>2
<1> HIDE DEF t
<1>4. CursorMoved(first, f1, s.i, d, t, TokensOf(s.items))
  <2> DEFINE i == s.i
             taken == TokensOf(s.items)
  <2>1. i \in 0 .. Len(first)
    BY <1>1
  <2>2. CursorAt(first, i, d, t, taken)
    BY <1>3 DEF CursorAt, Merging, t
  <2> HIDE DEF i, taken
  <2>3. CursorMoved(first, f1, i, d, t, taken)
    BY <1>2, <2>1, <2>2, OneCursor
  <2> QED
    BY <2>3 DEF i, taken
<1>5. CursorMoved(second, f2, s.j, e, t, TokensOf(s.items))
  <2> DEFINE j == s.j
             taken == TokensOf(s.items)
  <2>1. j \in 0 .. Len(second)
    BY <1>1
  <2>2. CursorAt(second, j, e, t, taken)
    BY <1>3 DEF CursorAt, Merging, t
  <2> HIDE DEF j, taken
  <2>3. CursorMoved(second, f2, j, e, t, taken)
    BY <1>2, <2>1, <2>2, OneCursor
  <2> QED
    BY <2>3 DEF j, taken
<1>6. /\ new \in Seq(ItemSet) /\ Sorted(new)
      /\ TokensOf(new) = TokensOf(s.items) \cup {t}
  BY <1>1, <1>3, Appended DEF t
<1>7. \A k \in DOMAIN new : new[k].freq =
         (Of(first, new[k].token) + Of(second, new[k].token)) % Wrap
  <2>1. /\ DOMAIN new = DOMAIN s.items \cup {Len(s.items) + 1}
        /\ new[Len(s.items) + 1] = item
        /\ \A k \in DOMAIN s.items : new[k] = s.items[k]
    BY <1>1
  <2>2. \A k \in DOMAIN s.items : s.items[k].freq =
            (Of(first, s.items[k].token) + Of(second, s.items[k].token)) % Wrap
    BY DEF Merging
  <2>3. item.freq = (Of(first, item.token) + Of(second, item.token)) % Wrap
    OBVIOUS
  <2> HIDE DEF new
  <2>4. ASSUME NEW k \in DOMAIN s.items
        PROVE  new[k].freq = (Of(first, new[k].token) + Of(second, new[k].token)) % Wrap
    <3>1. new[k] = s.items[k]
      BY <2>1
    <3> QED
      BY <2>2, <3>1
  <2> QED
    BY <2>1, <2>3, <2>4
<1>8. SumFreqs(new) % Wrap = (f1[s.i + d] + f2[s.j + e]) % Wrap
  <2> DEFINE S == SumFreqs(s.items)
             X == f1[s.i] + f2[s.j]
             y == p + q
             r == item.freq
             w == Wrap
  <2>1. SumFreqs(new) = S + r
    BY <1>1, SumOfAppend
  <2>2. p \in 0 .. Wrap - 1 /\ q \in 0 .. Wrap - 1
    BY OfIs
  <2>3. S \in Int /\ X \in Int /\ y \in Int /\ r \in Int /\ w \in Nat \ {0}
    <3>1. S \in Int
      BY <1>1, SumsAreIntegers
    <3>2. p \in Int /\ q \in Int /\ w \in Nat \ {0}
      BY <2>2, UserBigramAssumption
    <3> HIDE DEF S, p, q, w
    <3> QED
      BY <1>2, <1>4, <1>5, <3>1, <3>2 DEF CursorMoved
  <2>4. S % w = X % w /\ r = y % w
    BY DEF Merging, t
  <2>5. f1[s.i + d] + f2[s.j + e] = y + X
    BY <1>4, <1>5, <2>2 DEF CursorMoved, p, q
  <2> HIDE DEF S, X, y, r, w
  <2>6. (S + r) % w = ((S % w) + r) % w
    BY <2>3, WrapOnce
  <2>7. ((X % w) + r) % w = (X + r) % w
    BY <2>3, WrapOnce
  <2>8. X + r = (y % w) + X
    BY <2>3, <2>4
  <2>9. ((y % w) + X) % w = (y + X) % w
    BY <2>3, WrapOnce
  <2>10. (S + r) % w = (y + X) % w
    BY <2>4, <2>6, <2>7, <2>8, <2>9
  <2> QED
    BY <2>1, <2>5, <2>10 DEF w
<1>9. TokensOf(new) = UpTo(first, s.i + d) \cup UpTo(second, s.j + e)
  <2>1. TokensOf(s.items) = UpTo(first, s.i) \cup UpTo(second, s.j)
    BY DEF Merging
  <2> QED
    BY <1>4, <1>5, <1>6, <2>1 DEF CursorMoved
<1> HIDE DEF new, p, q
<1>10. next.i = s.i + d /\ next.j = s.j + e /\ next.items = new
       /\ next \in [i : 0 .. Len(first), j : 0 .. Len(second), items : Seq(ItemSet)]
  BY <1>4, <1>5, <1>6 DEF CursorMoved
<1> HIDE DEF next
<1>11. Merging(first, second, f1, f2, next)
  BY <1>4, <1>5, <1>6, <1>7, <1>8, <1>9, <1>10 DEF Merging, CursorMoved
<1> QED
  BY <1>11 DEF next, new

\* Every turn keeps that, and takes an item until both lists are at their end.
LEMMA MergeTurnIs ==
    ASSUME NEW first \in Seq(ItemSet), Sorted(first), NEW f1, Sums(first, f1),
           NEW second \in Seq(ItemSet), Sorted(second), NEW f2, Sums(second, f2),
           NEW s, Merging(first, second, f1, f2, s)
    PROVE  LET next == MergeTurn(first, second, s)
           IN  /\ Merging(first, second, f1, f2, next)
               /\ \/ next.i + next.j >= s.i + s.j + 1
                  \/ next.i = Len(first) /\ next.j = Len(second)
<1> DEFINE m == Len(first)
           n == Len(second)
           i == s.i
           j == s.j
           a == first[i + 1]
           b == second[j + 1]
           ofFirst == i < m /\ (j < n => a.token <= b.token)
           ofSecond == j < n /\ (i < m => b.token <= a.token)
           x == Item(a.token, (a.freq + b.freq) % Wrap)
           next == MergeTurn(first, second, s)
<1>1. /\ m \in Nat /\ n \in Nat /\ i \in 0 .. m /\ j \in 0 .. n
      /\ s \in [i : 0 .. Len(first), j : 0 .. Len(second), items : Seq(ItemSet)]
  BY DEF Merging
<1>2. next = IF ofFirst /\ ofSecond
             THEN [i |-> i + 1, j |-> j + 1, items |-> Append(s.items, x)]
             ELSE IF ofFirst THEN [s EXCEPT !.i = @ + 1, !.items = Append(@, a)]
             ELSE IF ofSecond THEN [s EXCEPT !.j = @ + 1, !.items = Append(@, b)]
             ELSE s
  BY DEF MergeTurn
<1>3. ASSUME i < m
      PROVE  a \in ItemSet /\ a.token \in Tokens /\ a.token \in Nat /\ a.freq \in 0 .. Wrap - 1
             /\ Of(first, a.token) = a.freq
  <2>1. i + 1 \in 1 .. Len(first) /\ DOMAIN first = 1 .. Len(first)
    BY <1>1, <1>3
  <2> HIDE DEF i
  <2>2. a \in ItemSet /\ Of(first, a.token) = a.freq
    BY <2>1, OfIs
  <2> HIDE DEF a
  <2> QED
    BY <2>2, UserBigramAssumption DEF ItemSet
<1>4. ASSUME j < n
      PROVE  b \in ItemSet /\ b.token \in Tokens /\ b.token \in Nat /\ b.freq \in 0 .. Wrap - 1
             /\ Of(second, b.token) = b.freq
  <2>1. j + 1 \in 1 .. Len(second) /\ DOMAIN second = 1 .. Len(second)
    BY <1>1, <1>4
  <2> HIDE DEF j
  <2>2. b \in ItemSet /\ Of(second, b.token) = b.freq
    BY <2>1, OfIs
  <2> HIDE DEF b
  <2> QED
    BY <2>2, UserBigramAssumption DEF ItemSet
<1>5. Wrap \in Nat \ {0}
  BY UserBigramAssumption
<1>6. CASE ofFirst /\ ofSecond
  <2>1. i < m /\ j < n /\ a.token = b.token
    BY <1>3, <1>4, <1>6
  <2>2. (a.freq + b.freq) % Wrap \in 0 .. Wrap - 1
    <3> DEFINE y == a.freq + b.freq
    <3>1. y \in Int
      BY <1>3, <1>4, <2>1, <1>5
    <3> HIDE DEF y
    <3> QED
      BY <1>5, <3>1, WrapAround DEF y
  <2>3. /\ x \in ItemSet /\ x.token = a.token /\ x.token = b.token
        /\ x.freq = (Of(first, x.token) + Of(second, x.token)) % Wrap
    BY <1>3, <1>4, <2>1, <2>2 DEF Item, ItemSet
  <2>4. next = [i |-> i + 1, j |-> j + 1, items |-> Append(s.items, x)]
    BY <1>2, <1>6
  <2> HIDE DEF x, next
  <2>5. next.i + next.j >= i + j + 1
    BY <1>1, <2>4
  <2> HIDE DEF ofFirst, ofSecond
  <2> DEFINE d == 1
  <2>6. Merging(first, second, f1, f2,
                [i |-> s.i + d, j |-> s.j + d, items |-> Append(s.items, x)])
    <3>1. /\ d \in 0 .. 1 /\ (d = 1 \/ d = 1)
          /\ d = 1 => s.i < Len(first) /\ first[s.i + 1].token = x.token
          /\ (d = 0 /\ s.i < Len(first)) => x.token < first[s.i + 1].token
          /\ d = 1 => s.j < Len(second) /\ second[s.j + 1].token = x.token
          /\ (d = 0 /\ s.j < Len(second)) => x.token < second[s.j + 1].token
      BY <2>1, <2>3
    <3> HIDE DEF d
    <3> QED
      BY <2>3, <3>1, MergeTakes
  <2> QED
    BY <2>4, <2>5, <2>6 DEF next
<1>7. CASE ofFirst /\ ~ofSecond
  <2>1. i < m /\ (j < n => a.token < b.token)
    BY <1>3, <1>4, <1>7
  <2>2. Of(second, a.token) = 0
    <3>1. ASSUME NEW y \in 1 .. n PROVE second[y].token # a.token
      <4>1. CASE y <= j
        <5>1. second[y].token \in TokensOf(s.items)
          BY <4>1 DEF Merging, UpTo
        <5>2. i + 1 \in i + 1 .. Len(first)
          BY <1>1, <2>1
        <5>3. second[y].token < a.token
          BY <5>1, <5>2 DEF Merging
        <5>4. second[y] \in ItemSet
          OBVIOUS
        <5>5. second[y].token \in Nat
          BY <5>4, UserBigramAssumption DEF ItemSet
        <5> QED
          BY <1>3, <2>1, <5>3, <5>5
      <4>2. CASE y > j
        <5>1. j < n /\ j + 1 \in 1 .. n
          BY <1>1, <4>2
        <5>2. y = j + 1 \/ second[j + 1].token < second[y].token
          BY <1>1, <4>2, <5>1 DEF Sorted
        <5>3. a.token < b.token
          BY <2>1, <5>1
        <5>4. second[y] \in ItemSet
          OBVIOUS
        <5>5. second[y].token \in Nat
          BY <5>4, UserBigramAssumption DEF ItemSet
        <5> QED
          BY <1>3, <1>4, <2>1, <5>1, <5>2, <5>3, <5>5
      <4> QED
        BY <1>1, <4>1, <4>2
    <3>2. a.token \notin TokensOf(second)
      BY <3>1 DEF TokensOf
    <3> QED
      BY <3>2 DEF Of
  <2>3. a.freq = (Of(first, a.token) + Of(second, a.token)) % Wrap
    <3>1. a.freq + 0 = a.freq /\ a.freq % Wrap = a.freq
      <4> DEFINE y == a.freq
      <4>1. y \in 0 .. Wrap - 1
        BY <1>3, <2>1
      <4>2. y \in Int
        BY <4>1, <1>5
      <4> HIDE DEF y
      <4>3. y % Wrap = y
        BY <1>5, <4>1, <4>2, WrapAround
      <4> QED
        BY <4>2, <4>3 DEF y
    <3> QED
      BY <1>3, <2>1, <2>2, <3>1
  <2>4. next = [s EXCEPT !.i = @ + 1, !.items = Append(@, a)]
    BY <1>2, <1>7
  <2> DEFINE d == 1
             e == 0
  <2>5. next = [i |-> s.i + d, j |-> s.j + e, items |-> Append(s.items, a)]
    <3> HIDE DEF a, next
    <3>1. s = [i |-> s.i, j |-> s.j, items |-> s.items]
      BY <1>1
    <3>2. s.j + 0 = s.j
      BY <1>1
    <3> QED
      BY <2>4, <3>1, <3>2
  <2>6. next.i + next.j >= s.i + s.j + 1
    BY <1>1, <2>5
  <2>7. Merging(first, second, f1, f2,
                [i |-> s.i + d, j |-> s.j + e, items |-> Append(s.items, a)])
    <3>1. /\ d \in 0 .. 1 /\ e \in 0 .. 1 /\ (d = 1 \/ e = 1)
          /\ d = 1 => s.i < Len(first) /\ first[s.i + 1].token = a.token
          /\ (d = 0 /\ s.i < Len(first)) => a.token < first[s.i + 1].token
          /\ e = 1 => s.j < Len(second) /\ second[s.j + 1].token = a.token
          /\ (e = 0 /\ s.j < Len(second)) => a.token < second[s.j + 1].token
      BY <2>1
    <3>2. a \in ItemSet
      BY <1>3, <2>1
    <3> HIDE DEF d, e, a
    <3> QED
      BY <2>3, <3>1, <3>2, MergeTakes
  <2> QED
    BY <2>5, <2>6, <2>7
<1>8. CASE ~ofFirst /\ ofSecond
  <2>1. j < n /\ (i < m => b.token < a.token)
    BY <1>3, <1>4, <1>8
  <2>2. Of(first, b.token) = 0
    <3>1. ASSUME NEW y \in 1 .. m PROVE first[y].token # b.token
      <4>1. CASE y <= i
        <5>1. first[y].token \in TokensOf(s.items)
          BY <4>1 DEF Merging, UpTo
        <5>2. j + 1 \in j + 1 .. Len(second)
          BY <1>1, <2>1
        <5>3. first[y].token < b.token
          BY <5>1, <5>2 DEF Merging
        <5>4. first[y] \in ItemSet
          OBVIOUS
        <5>5. first[y].token \in Nat
          BY <5>4, UserBigramAssumption DEF ItemSet
        <5> QED
          BY <1>4, <2>1, <5>3, <5>5
      <4>2. CASE y > i
        <5>1. i < m /\ i + 1 \in 1 .. m
          BY <1>1, <4>2
        <5>2. y = i + 1 \/ first[i + 1].token < first[y].token
          BY <1>1, <4>2, <5>1 DEF Sorted
        <5>3. b.token < a.token
          BY <2>1, <5>1
        <5>4. first[y] \in ItemSet
          OBVIOUS
        <5>5. first[y].token \in Nat
          BY <5>4, UserBigramAssumption DEF ItemSet
        <5> QED
          BY <1>3, <1>4, <2>1, <5>1, <5>2, <5>3, <5>5
      <4> QED
        BY <1>1, <4>1, <4>2
    <3>2. b.token \notin TokensOf(first)
      BY <3>1 DEF TokensOf
    <3> QED
      BY <3>2 DEF Of
  <2>3. b.freq = (Of(first, b.token) + Of(second, b.token)) % Wrap
    <3>1. 0 + b.freq = b.freq /\ b.freq % Wrap = b.freq
      <4> DEFINE y == b.freq
      <4>1. y \in 0 .. Wrap - 1
        BY <1>4, <2>1
      <4>2. y \in Int
        BY <4>1, <1>5
      <4> HIDE DEF y
      <4>3. y % Wrap = y
        BY <1>5, <4>1, <4>2, WrapAround
      <4> QED
        BY <4>2, <4>3 DEF y
    <3> QED
      BY <1>4, <2>1, <2>2, <3>1
  <2>4. next = [s EXCEPT !.j = @ + 1, !.items = Append(@, b)]
    BY <1>2, <1>8
  <2> DEFINE d == 0
             e == 1
  <2>5. next = [i |-> s.i + d, j |-> s.j + e, items |-> Append(s.items, b)]
    <3> HIDE DEF b, next
    <3>1. s = [i |-> s.i, j |-> s.j, items |-> s.items]
      BY <1>1
    <3>2. s.i + 0 = s.i
      BY <1>1
    <3> QED
      BY <2>4, <3>1, <3>2
  <2>6. next.i + next.j >= s.i + s.j + 1
    BY <1>1, <2>5
  <2>7. Merging(first, second, f1, f2,
                [i |-> s.i + d, j |-> s.j + e, items |-> Append(s.items, b)])
    <3>1. /\ d \in 0 .. 1 /\ e \in 0 .. 1 /\ (d = 1 \/ e = 1)
          /\ d = 1 => s.i < Len(first) /\ first[s.i + 1].token = b.token
          /\ (d = 0 /\ s.i < Len(first)) => b.token < first[s.i + 1].token
          /\ e = 1 => s.j < Len(second) /\ second[s.j + 1].token = b.token
          /\ (e = 0 /\ s.j < Len(second)) => b.token < second[s.j + 1].token
      BY <2>1
    <3>2. b \in ItemSet
      BY <1>4, <2>1
    <3> HIDE DEF d, e, b
    <3> QED
      BY <2>3, <3>1, <3>2, MergeTakes
  <2> QED
    BY <2>5, <2>6, <2>7
<1>9. CASE ~ofFirst /\ ~ofSecond
  <2>1. i = m /\ j = n
    BY <1>1, <1>3, <1>4, <1>9
  <2>2. next = s
    BY <1>2, <1>9
  <2> HIDE DEF next
  <2> QED
    BY <2>1, <2>2 DEF next
<1> QED
  BY <1>6, <1>7, <1>8, <1>9

\* The merge has the tokens of both lists, each once and in order, with what both say of
\* it, and the sum of both.
LEMMA MergedIs ==
    ASSUME NEW first \in Seq(ItemSet), Sorted(first),
           NEW second \in Seq(ItemSet), Sorted(second)
    PROVE  LET both == MergedItems(first, second)
           IN  /\ both \in Seq(ItemSet) /\ Sorted(both)
               /\ TokensOf(both) = TokensOf(first) \cup TokensOf(second)
               /\ \A k \in DOMAIN both : both[k].freq =
                     (Of(first, both[k].token) + Of(second, both[k].token)) % Wrap
               /\ SumFreqs(both) % Wrap = (SumFreqs(first) + SumFreqs(second)) % Wrap
<1> DEFINE m == Len(first)
           n == Len(second)
           z == m + n
           start == [i |-> 0, j |-> 0, items |-> <<>>]
           merged[k \in 0 .. z] ==
               IF k = 0 THEN start ELSE MergeTurn(first, second, merged[k - 1])
<1>1. m \in Nat /\ n \in Nat /\ z \in Nat /\ DOMAIN first = 1 .. m /\ DOMAIN second = 1 .. n
  OBVIOUS
<1>2. MergedItems(first, second) = merged[z].items
  BY DEF MergedItems
<1>3. PICK f1, f2 : Sums(first, f1) /\ Sums(second, f2)
  BY SumExists
<1> DEFINE A == {s \in [i : 0 .. m, j : 0 .. n, items : Seq(ItemSet)] :
                    Merging(first, second, f1, f2, s)}
           Step == [k \in 1 .. z |-> [s \in A |-> MergeTurn(first, second, s)]]
           AtEnd(s) == s.i = m /\ s.j = n
<1>4. \A s \in A : MergeTurn(first, second, s) \in A
                   /\ \/ MergeTurn(first, second, s).i + MergeTurn(first, second, s).j
                           >= s.i + s.j + 1
                      \/ AtEnd(MergeTurn(first, second, s))
  <2>1. \A s : Merging(first, second, f1, f2, s)
               => s \in [i : 0 .. m, j : 0 .. n, items : Seq(ItemSet)]
    BY DEF Merging
  <2> SUFFICES ASSUME NEW s \in A
               PROVE  MergeTurn(first, second, s) \in A
                   /\ \/ MergeTurn(first, second, s).i + MergeTurn(first, second, s).j
                           >= s.i + s.j + 1
                      \/ AtEnd(MergeTurn(first, second, s))
    OBVIOUS
  <2> DEFINE next == MergeTurn(first, second, s)
  <2>2. Merging(first, second, f1, f2, s)
    OBVIOUS
  <2> HIDE DEF A
  <2>3. /\ Merging(first, second, f1, f2, next)
        /\ \/ next.i + next.j >= s.i + s.j + 1
           \/ next.i = Len(first) /\ next.j = Len(second)
    BY <1>3, <2>2, MergeTurnIs
  <2> HIDE DEF next
  <2>4. next \in A
    BY <2>1, <2>3 DEF A
  <2> QED
    BY <2>3, <2>4 DEF next
<1>5. start \in A
  <2> DEFINE s == start
  <2>1. <<>> \in Seq(ItemSet) /\ TokensOf(<<>>) = {} /\ Sorted(<<>>) /\ DOMAIN <<>> = {}
    BY DEF TokensOf, Sorted
  <2>2. s \in [i : 0 .. m, j : 0 .. n, items : Seq(ItemSet)]
        /\ s.i = 0 /\ s.j = 0 /\ s.items = <<>>
    BY <1>1, <2>1
  <2>3. UpTo(first, 0) = {} /\ UpTo(second, 0) = {}
    BY DEF UpTo
  <2>4. f1[0] = 0 /\ f2[0] = 0
    BY <1>3 DEF Sums
  <2> HIDE DEF s
  <2>5. Merging(first, second, f1, f2, s)
    BY <2>1, <2>2, <2>3, <2>4, SumOfNone DEF Merging
  <2> QED
    BY <2>2, <2>5 DEF s
<1> HIDE DEF A, start
<1>6. Step \in [1 .. z -> [A -> A]]
  BY <1>4
<1>7. PICK f \in Recursions(z, A, start, Step) : TRUE
  <2> HIDE DEF Step, z
  <2> QED
    BY <1>1, <1>5, <1>6, RecursionUpTo
<1>8. f \in [0 .. z -> A] /\ f[0] = start /\ \A k \in 1 .. z : f[k] = Step[k][f[k - 1]]
  BY DEF Recursions
<1> HIDE DEF z
<1>9. \A k \in 1 .. z : f[k] = MergeTurn(first, second, f[k - 1])
  <2>1. SUFFICES ASSUME NEW k \in 1 .. z PROVE f[k] = MergeTurn(first, second, f[k - 1])
    OBVIOUS
  <2>2. k - 1 \in 0 .. z
    BY <1>1
  <2>3. f[k - 1] \in A /\ f[k] = Step[k][f[k - 1]]
    BY <1>8, <2>2
  <2> QED
    BY <2>3
<1> HIDE DEF Step
<1>10. merged = f
  <2>1. ASSUME NEW k \in 0 .. z
        PROVE  f[k] = IF k = 0 THEN start ELSE MergeTurn(first, second, f[k - 1])
    <3>1. k = 0 \/ k \in 1 .. z
      BY <1>1
    <3>2. CASE k = 0
      BY <1>8, <3>2
    <3>3. CASE k \in 1 .. z
      <4>1. k # 0
        BY <3>3
      <4> QED
        BY <1>9, <3>3, <4>1
    <3> QED
      BY <3>1, <3>2, <3>3
  <2>2. f = [k \in 0 .. z |-> f[k]]
    BY <1>8
  <2>3. f = [k \in 0 .. z |-> IF k = 0 THEN start ELSE MergeTurn(first, second, f[k - 1])]
    BY <2>1, <2>2
  <2>4. \E g : g = [k \in 0 .. z |->
                      IF k = 0 THEN start ELSE MergeTurn(first, second, g[k - 1])]
    BY <2>3
  <2>5. merged = [k \in 0 .. z |->
                    IF k = 0 THEN start ELSE MergeTurn(first, second, merged[k - 1])]
    BY <2>4 DEF merged
  <2> HIDE DEF merged
  <2> DEFINE E == {k \in 0 .. z : merged[k] = f[k]}
  <2>6. 0 \in E
    BY <1>1, <1>8, <2>5
  <2>7. ASSUME NEW k \in 1 .. z, k - 1 \in E PROVE k \in E
    <3>1. k \in 0 .. z /\ k # 0
      BY <1>1
    <3> QED
      BY <1>9, <2>5, <2>7, <3>1
  <2>8. 0 .. z \subseteq E
    <3> HIDE DEF E
    <3> QED
      BY <1>1, <2>6, <2>7, InductionUpTo
  <2>9. \A k \in 0 .. z : merged[k] = f[k]
    BY <2>8
  <2>10. merged = [k \in 0 .. z |-> merged[k]]
    BY <2>5
  <2> QED
    BY <2>2, <2>9, <2>10
<1> HIDE DEF merged
<1> DEFINE T == {k \in 0 .. z : f[k].i + f[k].j >= k \/ AtEnd(f[k])}
<1>11. \A s \in A : s.i \in 0 .. m /\ s.j \in 0 .. n
  BY DEF A
<1>12. 0 \in T
  BY <1>1, <1>8, <1>11
<1>13. ASSUME NEW k \in 1 .. z, k - 1 \in T PROVE k \in T
  <2> DEFINE s == f[k - 1]
             next == f[k]
  <2>1. k \in 0 .. z /\ k - 1 \in 0 .. z
    BY <1>1
  <2>2. s \in A /\ next \in A /\ next = MergeTurn(first, second, s)
    BY <1>8, <1>9, <2>1
  <2>3. s.i + s.j >= k - 1 \/ AtEnd(s)
    BY <1>13
  <2> HIDE DEF s, next
  <2>4. next.i + next.j >= s.i + s.j + 1 \/ AtEnd(next)
    BY <1>4, <2>2
  <2>5. s.i \in 0 .. m /\ s.j \in 0 .. n /\ next.i \in 0 .. m /\ next.j \in 0 .. n
    BY <1>11, <2>2
  <2>6. next.i + next.j >= k \/ AtEnd(next)
    <3>1. CASE AtEnd(s)
      <4>1. s.i + s.j = z
        BY <1>1, <3>1 DEF z
      <4> QED
        BY <1>1, <2>4, <2>5, <4>1 DEF z
    <3>2. CASE s.i + s.j >= k - 1
      BY <1>1, <2>4, <2>5, <3>2
    <3> QED
      BY <2>3, <3>1, <3>2
  <2> QED
    BY <2>1, <2>6 DEF next
<1>14. z \in T
  <2> HIDE DEF T
  <2>1. 0 .. z \subseteq T
    BY <1>1, <1>12, <1>13, InductionUpTo
  <2> QED
    BY <1>1, <2>1
<1> DEFINE last == f[z]
<1>15. last \in A /\ AtEnd(last)
  <2>1. last \in A
    BY <1>1, <1>8
  <2>2. last.i \in 0 .. m /\ last.j \in 0 .. n
    BY <1>11, <2>1
  <2>3. last.i + last.j >= z \/ AtEnd(last)
    BY <1>14
  <2> HIDE DEF last
  <2> QED
    BY <1>1, <2>1, <2>2, <2>3 DEF z
<1> HIDE DEF last
<1>16. Merging(first, second, f1, f2, last) /\ last.i = m /\ last.j = n
  BY <1>15 DEF A
<1>17. UpTo(first, m) = TokensOf(first) /\ UpTo(second, n) = TokensOf(second)
  BY <1>1 DEF UpTo, TokensOf
<1>18. f1[m] = SumFreqs(first) /\ f2[n] = SumFreqs(second)
  BY <1>3, SumIs
<1>19. MergedItems(first, second) = last.items
  BY <1>2, <1>10 DEF last
<1> QED
  BY <1>16, <1>17, <1>18, <1>19 DEF Merging

\* The merge of what the system and the user say of the phrases after a phrase says of
\* each what both say together, each once and in order, whatever was learned before.
THEOREM MergesAlwaysAgree == Spec => []MergeAgrees
<1>1. ASSUME TypeOK, NEW i \in Indices
      PROVE  LET merged == MergedGram(i)
                 freq(items, t) ==
                     IF t \in TokensOf(items)
                     THEN items[CHOOSE k \in DOMAIN items : items[k].token = t].freq ELSE 0
             IN  /\ \A j, k \in DOMAIN merged.items :
                       j < k => merged.items[j].token < merged.items[k].token
                 /\ \A t \in Tokens : freq(merged.items, t) =
                       (freq(SystemGrams[i].items, t) + freq(Loaded(i).items, t)) % Wrap
                 /\ merged.total = SumFreqs(merged.items) % Wrap
  <2> DEFINE first == SystemGrams[i].items
             second == Loaded(i).items
             both == MergedItems(first, second)
             merged == MergedGram(i)
             a == SumFreqs(first)
             b == SumFreqs(second)
  <2>1. first \in Seq(ItemSet) /\ Sorted(first) /\ SystemGrams[i].total = a % Wrap
    <3>1. SystemGrams[i] \in [total : 0 .. Wrap - 1, items : Seq(ItemSet)]
      BY SystemBigramAssumption DEF ItemSet
    <3> QED
      BY <3>1, SystemBigramAssumption DEF Sorted
  <2>2. second \in Seq(ItemSet) /\ Sorted(second) /\ Loaded(i).total = b % Wrap
    <3>1. Loaded(i) = Old(grams, i)
      BY DEF Loaded, Old
    <3>2. CASE i \in DOMAIN grams
      <4>1. Loaded(i) \in GramSet
        BY <1>1, <3>2 DEF TypeOK, Tables, Loaded
      <4> QED
        BY <4>1 DEF GramSet
    <3>3. CASE i \notin DOMAIN grams
      <4>1. Loaded(i) = EmptyGram
        BY <3>3 DEF Loaded
      <4>2. <<>> \in Seq(ItemSet) /\ Sorted(<<>>)
        BY DEF Sorted
      <4>3. 0 % Wrap = 0
        BY UserBigramAssumption
      <4> QED
        BY <4>1, <4>2, <4>3, SumOfNone DEF EmptyGram
    <3> QED
      BY <3>2, <3>3
  <2>3. merged.items = both /\ merged.total = (SystemGrams[i].total + Loaded(i).total) % Wrap
    BY DEF MergedGram
  <2> HIDE DEF merged, first, second
  <2>4. /\ both \in Seq(ItemSet) /\ Sorted(both)
        /\ TokensOf(both) = TokensOf(first) \cup TokensOf(second)
        /\ \A k \in DOMAIN both : both[k].freq =
              (Of(first, both[k].token) + Of(second, both[k].token)) % Wrap
        /\ SumFreqs(both) % Wrap = (a + b) % Wrap
    BY <2>1, <2>2, MergedIs
  <2> HIDE DEF both
  <2>5. ASSUME NEW t \in Tokens
        PROVE  Of(both, t) = (Of(first, t) + Of(second, t)) % Wrap
    <3>1. CASE t \in TokensOf(both)
      <4>1. PICK k \in DOMAIN both : both[k].token = t
        BY <3>1 DEF TokensOf
      <4>2. Of(both, t) = both[k].freq
        BY <2>4, <4>1, OfIs
      <4> QED
        BY <2>4, <4>1, <4>2
    <3>2. CASE t \notin TokensOf(both)
      <4>1. Of(both, t) = 0 /\ Of(first, t) = 0 /\ Of(second, t) = 0
        BY <2>4, <3>2 DEF Of
      <4>2. 0 % Wrap = 0
        BY UserBigramAssumption
      <4> QED
        BY <4>1, <4>2
    <3> QED
      BY <3>1, <3>2
  <2>6. merged.total = SumFreqs(both) % Wrap
    <3> DEFINE w == Wrap
    <3>1. w \in Nat \ {0} /\ a \in Int /\ b \in Int
      BY <2>1, <2>2, SumsAreIntegers, UserBigramAssumption
    <3>2. merged.total = ((a % w) + (b % w)) % w
      BY <2>1, <2>2, <2>3
    <3> HIDE DEF a, b, w
    <3>3. ((a % w) + (b % w)) % w = (a + (b % w)) % w
      <4> DEFINE r == b % w
      <4>1. r \in Int
        BY <3>1
      <4> HIDE DEF r
      <4>2. ((a % w) + r) % w = (a + r) % w
        BY <3>1, <4>1, WrapOnce
      <4> QED
        BY <4>2 DEF r
    <3>4. a + (b % w) = (b % w) + a /\ a + b = b + a
      BY <3>1
    <3>5. ((b % w) + a) % w = (b + a) % w
      BY <3>1, WrapOnce
    <3> QED
      BY <2>4, <3>2, <3>3, <3>4, <3>5 DEF w
  <2> QED
    BY <2>3, <2>4, <2>5, <2>6 DEF Of, Sorted, merged, first, second
<1>2. TypeOK => MergeAgrees
  BY <1>1 DEF MergeAgrees
<1> QED
  BY <1>2, GramsInvariant, PTL

=============================================================================
