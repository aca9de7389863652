-------------------------- MODULE Input_proofs --------------------------
(***************************************************************************)
(* What becomes of the input, however long it is.                          *)
(*                                                                         *)
(* The search for the n best sentences, for any words and scores: what is  *)
(* extracted is a chain of words with its own length and score, and the    *)
(* first sentence is the best one.                                         *)
(*                                                                         *)
(* The key matrix, for any keys and tables: whatever a parser finds, every *)
(* way to read it leads from key to key, so that the search of a matrix    *)
(* runs into no assertion and the cursor stops at keys.                    *)
(***************************************************************************)
EXTENDS KeyMatrix, NBestTrellis, NumberLemmas

\* The words of a problem, and what the values of a trellis are made of.
Tokens == problem.prefixes \cup UNION {problem.words[span] : span \in DOMAIN problem.words}

Value == [prev : Tokens \cup {0}, token : Tokens, length : Nat, poss : Int,
          last_step : Int, sub_index : Nat]

\* The nodes of values of V.
Nodes(V) == {node \in Seq(V) : Len(node) <= lookup.nstore}
-----------------------------------------------------------------------------
(* Nodes and the beam. *)

\* A sequence of values of V.
LEMMA SeqIs ==
    ASSUME NEW V, NEW node \in Seq(V)
    PROVE  /\ Len(node) \in Nat /\ DOMAIN node = 1 .. Len(node)
           /\ node = <<>> <=> Len(node) = 0
           /\ \A k \in 1 .. Len(node) : node[k] \in V
OBVIOUS

LEMMA OneAndTwo ==
    ASSUME NEW V, NEW a \in V, NEW b \in V
    PROVE  /\ <<>> \in Seq(V) /\ Len(<<>>) = 0
           /\ <<a>> \in Seq(V) /\ Len(<<a>>) = 1 /\ DOMAIN <<a>> = 1 .. 1 /\ <<a>>[1] = a
           /\ <<a, b>> \in Seq(V) /\ Len(<<a, b>>) = 2 /\ DOMAIN <<a, b>> = 1 .. 2
           /\ <<a, b>>[1] = a /\ <<a, b>>[2] = b
OBVIOUS

\* The cases of a node that is given a value.
LEMMA EvalItemCases ==
    ASSUME NEW nstore \in {1, 2}, NEW V, NEW node \in Seq(V), Len(node) <= nstore,
           NEW item \in V
    PROVE  LET new == EvalItem(nstore, node, item)
           IN  \/ node = <<>> /\ new = <<item>>
               \/ /\ nstore = 1 /\ Len(node) = 1 /\ node[1] \in V
                  /\ new = IF Less(nstore, node[1], item) THEN <<item>> ELSE node
               \/ /\ nstore = 2 /\ Len(node) = 1 /\ node[1] \in V
                  /\ new = IF Less(nstore, node[1], item) THEN <<item, node[1]>>
                                                          ELSE <<node[1], item>>
               \/ /\ nstore = 2 /\ Len(node) = 2 /\ node[1] \in V /\ node[2] \in V
                  /\ new = IF Less(nstore, node[1], item)
                           THEN IF Less(nstore, node[2], item) THEN <<item, node[2]>>
                                                               ELSE <<node[2], item>>
                           ELSE node
<1>1. /\ Len(node) \in Nat /\ (node = <<>> <=> Len(node) = 0)
      /\ \A k \in 1 .. Len(node) : node[k] \in V
  BY SeqIs
<1>2. CASE node = <<>>
  BY <1>2 DEF EvalItem
<1>3. CASE node # <<>> /\ nstore = 1
  BY <1>1, <1>3 DEF EvalItem
<1>4. CASE nstore = 2 /\ Len(node) = 1
  BY <1>1, <1>4 DEF EvalItem
<1>5. CASE nstore = 2 /\ Len(node) = 2
  BY <1>1, <1>5 DEF EvalItem
<1>6. \/ node = <<>> \/ (node # <<>> /\ nstore = 1)
      \/ (nstore = 2 /\ Len(node) = 1) \/ (nstore = 2 /\ Len(node) = 2)
  <2>1. PICK n \in Nat : n = Len(node)
    BY <1>1
  <2>2. n <= nstore /\ (n = 0 => node = <<>>)
    BY <1>1, <2>1
  <2>3. n = 0 \/ nstore = 1 \/ (nstore = 2 /\ n = 1) \/ (nstore = 2 /\ n = 2)
    BY <2>2
  <2> QED
    BY <2>1, <2>2, <2>3
<1> QED
  BY <1>2, <1>3, <1>4, <1>5, <1>6

\* A node has one value more, or one is replaced, or none.
LEMMA EvalItemIs ==
    ASSUME NEW nstore \in {1, 2}, NEW V, NEW node \in Seq(V), Len(node) <= nstore,
           NEW item \in V
    PROVE  LET new == EvalItem(nstore, node, item)
           IN  new \in Seq(V) /\ Len(new) \in 1 .. nstore
<1> DEFINE new == EvalItem(nstore, node, item)
<1> HIDE DEF new
<1>1. \A a, b \in V : /\ <<a>> \in Seq(V) /\ Len(<<a>>) = 1
                      /\ <<a, b>> \in Seq(V) /\ Len(<<a, b>>) = 2
  BY OneAndTwo
<1>2. \/ \E a \in V : new = <<a>>
      \/ \E a, b \in V : new = <<a, b>> /\ nstore = 2
      \/ new = node /\ Len(node) # 0
  BY EvalItemCases DEF new
<1>3. Len(node) \in Nat
  BY SeqIs
<1>4. ASSUME NEW a \in V, new = <<a>> PROVE new \in Seq(V) /\ Len(new) \in 1 .. nstore
  BY <1>1, <1>4
<1>5. ASSUME NEW a \in V, NEW b \in V, new = <<a, b>>, nstore = 2
      PROVE  new \in Seq(V) /\ Len(new) \in 1 .. nstore
  BY <1>1, <1>5
<1>6. ASSUME new = node, Len(node) # 0 PROVE new \in Seq(V) /\ Len(new) \in 1 .. nstore
  <2>1. PICK n \in Nat : n = Len(node)
    BY <1>3
  <2> QED
    BY <1>6, <2>1
<1> QED
  BY <1>2, <1>4, <1>5, <1>6 DEF new

\* What is less, where it is an order, is less good; of a node whose first value is no
\* worse than the others, and of the new value, the first is no worse.
LEMMA EvalItemKeepsBest ==
    ASSUME NEW nstore \in {1, 2}, NEW V, NEW node \in Seq(V), Len(node) <= nstore,
           NEW item \in V,
           \A a \in V : a.length \in Int /\ a.poss \in Int,
           \A a, b \in V : Less(nstore, a, b) <=> Better(b, a),
           \A k \in DOMAIN node : ~Better(node[k], node[1])
    PROVE  LET new == EvalItem(nstore, node, item)
           IN  /\ \A k \in DOMAIN new : ~Better(new[k], new[1])
               /\ ~Better(item, new[1])
               /\ node # <<>> => ~Better(node[1], new[1])
<1> DEFINE new == EvalItem(nstore, node, item)
           Goal == /\ \A k \in DOMAIN new : ~Better(new[k], new[1])
                   /\ ~Better(item, new[1])
                   /\ node # <<>> => ~Better(node[1], new[1])
           Is(x, y) == new = <<x>> \/ new = <<x, y>>
           Top(x) == ~Better(item, x) /\ (node # <<>> => ~Better(node[1], x))
<1> SUFFICES Goal
  OBVIOUS
<1>1. /\ \A a, b, c \in V : ~Better(a, b) /\ ~Better(b, c) => ~Better(a, c)
      /\ \A a, b \in V : Better(a, b) => ~Better(b, a)
      /\ \A a \in V : ~Better(a, a)
  BY DEF Better
<1>2. /\ DOMAIN node = 1 .. Len(node) /\ (node = <<>> <=> Len(node) = 0)
  BY SeqIs
<1> HIDE DEF new, Goal, Is, Top
\* The first value and, if there is one, the second.
<1>3. ASSUME NEW x \in V, NEW y \in V, ~Better(y, x), Top(x), Is(x, y)
      PROVE  Goal
  <2>1. /\ DOMAIN <<x>> = 1 .. 1 /\ <<x>>[1] = x
        /\ DOMAIN <<x, y>> = 1 .. 2 /\ <<x, y>>[1] = x /\ <<x, y>>[2] = y
    BY OneAndTwo
  <2>2. new[1] = x /\ \A k \in DOMAIN new : k = 1 \/ (k = 2 /\ new[2] = y)
    BY <1>3, <2>1 DEF Is
  <2>3. ~Better(x, x)
    BY <1>1
  <2> QED
    BY <1>3, <2>2, <2>3 DEF Goal, Top
<1>4. ASSUME node # <<>>, node[1] \in V, ~Better(item, node[1]), new = node PROVE Goal
  BY <1>1, <1>4 DEF Goal
<1>5. CASE node = <<>> /\ new = <<item>>
  <2>1. ~Better(item, item) /\ Top(item) /\ Is(item, item)
    BY <1>1, <1>5 DEF Is, Top
  <2> QED
    BY <1>3, <1>5, <2>1
<1>6. ASSUME NEW a \in V, a = node[1], Better(item, a), new = <<item>> PROVE Goal
  <2>1. ~Better(item, item) /\ Top(item) /\ Is(item, item)
    BY <1>1, <1>6 DEF Is, Top
  <2> QED
    BY <1>3, <1>6, <2>1
<1>7. ASSUME NEW a \in V, NEW b \in V, a = node[1], ~Better(b, a), Better(item, a),
             new = <<item, b>>
      PROVE  Goal
  <2>1. ~Better(item, item) /\ ~Better(a, item) /\ ~Better(b, item)
    BY <1>1, <1>7
  <2>2. Top(item) /\ Is(item, b)
    BY <1>7, <2>1 DEF Is, Top
  <2> QED
    BY <1>3, <1>7, <2>1, <2>2
<1>8. ASSUME NEW a \in V, a = node[1], ~Better(item, a), new = <<a, item>> PROVE Goal
  <2>1. Top(a) /\ Is(a, item)
    BY <1>1, <1>8 DEF Is, Top
  <2> QED
    BY <1>3, <1>8, <2>1
<1>9. CASE Len(node) = 1 /\ node[1] \in V
  <2> DEFINE a == node[1]
  <2>1. a \in V /\ node # <<>> /\ ~Better(a, a)
    BY <1>1, <1>2, <1>9
  <2>2. \/ Better(item, a) /\ (new = <<item>> \/ new = <<item, a>>)
        \/ ~Better(item, a) /\ (new = node \/ new = <<a, item>>)
    <3>1. Less(nstore, a, item) <=> Better(item, a)
      BY <2>1
    <3>2. ~(node = <<>>) /\ ~(Len(node) = 2)
      BY <1>9, <2>1
    <3> QED
      BY <3>1, <3>2, EvalItemCases DEF new
  <2> HIDE DEF a
  <2>3. a = node[1]
    BY DEF a
  <2>4. node[1] \in V
    BY <1>9
  <2>5. CASE Better(item, a) /\ new = <<item>>
    BY <1>6, <2>1, <2>3, <2>5
  <2>6. CASE Better(item, a) /\ new = <<item, a>>
    BY <1>7, <2>1, <2>3, <2>6
  <2>7. CASE ~Better(item, a) /\ new = node
    BY <1>4, <2>1, <2>3, <2>4, <2>7
  <2>8. CASE ~Better(item, a) /\ new = <<a, item>>
    BY <1>8, <2>1, <2>3, <2>8
  <2> QED
    BY <2>2, <2>5, <2>6, <2>7, <2>8
<1>10. CASE nstore = 2 /\ Len(node) = 2 /\ node[1] \in V /\ node[2] \in V
  <2> DEFINE a == node[1]
             b == node[2]
  <2>1. a \in V /\ b \in V /\ node # <<>> /\ ~Better(b, a)
    BY <1>2, <1>10
  <2>2. Better(item, a) => Better(item, b)
    BY <1>1, <2>1
  <2>3. \/ Better(item, a) /\ new = <<item, b>>
        \/ ~Better(item, a) /\ new = node
    <3>1. /\ Less(nstore, a, item) <=> Better(item, a)
          /\ Less(nstore, b, item) <=> Better(item, b)
      BY <2>1
    <3>2. ~(node = <<>>) /\ ~(Len(node) = 1)
      BY <1>10, <2>1
    <3> QED
      BY <2>2, <3>1, <3>2, EvalItemCases DEF new
  <2> HIDE DEF a, b
  <2>4. a = node[1]
    BY DEF a
  <2>5. node[1] \in V
    BY <1>10
  <2>6. CASE Better(item, a) /\ new = <<item, b>>
    BY <1>7, <2>1, <2>4, <2>6
  <2>7. CASE ~Better(item, a) /\ new = node
    BY <1>4, <2>1, <2>4, <2>5, <2>7
  <2> QED
    BY <2>3, <2>6, <2>7
<1>11. \/ node = <<>> /\ new = <<item>>
       \/ Len(node) = 1 /\ node[1] \in V
       \/ nstore = 2 /\ Len(node) = 2 /\ node[1] \in V /\ node[2] \in V
  BY EvalItemCases DEF new
<1> QED
  BY <1>5, <1>9, <1>10, <1>11

-----------------------------------------------------------------------------
(* The values a word is given from one column. *)

\* The pairs a word makes with the top results, and the values of those that are
\* bigrams.
AreBigrams(V, start, top, token, pair, item) ==
    /\ Len(top) \in Nat
    /\ \A k \in 1 .. Len(top) : pair[k] = <<top[k].value.token, token>>
    /\ \A k \in 1 .. Len(top) : pair[k] \in DOMAIN problem.bigram =>
          item[k] \in V /\ item[k] = NextStep(start, top[k], token, problem.bigram[pair[k]])

\* The node after each of them.
AreKept(V, node, top, pair, item, kept) ==
    /\ kept \in [0 .. Len(top) -> Nodes(V)]
    /\ kept[0] = node
    /\ \A k \in 1 .. Len(top) :
          kept[k] = IF pair[k] \notin DOMAIN problem.bigram THEN kept[k - 1]
                    ELSE EvalItem(lookup.nstore, kept[k - 1], item[k])

\* What AfterBigrams computes, with a node after each top result.
LEMMA AfterBigramsIs ==
    ASSUME lookup.nstore \in {1, 2}, NEW V, NEW node \in Nodes(V),
           NEW start, NEW top, NEW token, NEW pair, NEW item,
           AreBigrams(V, start, top, token, pair, item)
    PROVE  \E kept : /\ AreKept(V, node, top, pair, item, kept)
                     /\ AfterBigrams(node, start, top, token) = kept[Len(top)]
<1> DEFINE n == Len(top)
           HasPair(k) == pair[k] \in DOMAIN problem.bigram
           Given(k, old) == EvalItem(lookup.nstore, old, item[k])
           Step == [k \in 1 .. n |-> [old \in Nodes(V) |-> IF HasPair(k) THEN Given(k, old) ELSE old]]
           P(k) == <<top[k].value.token, token>>
           Eq(kept) == kept =
             [k \in 0 .. n |->
                IF k = 0 THEN node
                ELSE IF P(k) \notin DOMAIN problem.bigram THEN kept[k - 1]
                ELSE EvalItem(lookup.nstore, kept[k - 1],
                              NextStep(start, top[k], token, problem.bigram[P(k)]))]
           Body(k, old) == IF P(k) \notin DOMAIN problem.bigram THEN old
                           ELSE EvalItem(lookup.nstore, old,
                                         NextStep(start, top[k], token, problem.bigram[P(k)]))
           function == CHOOSE kept : Eq(kept)
<1> HIDE DEF n
<1>0. n \in Nat /\ n = Len(top)
  BY DEF n, AreBigrams
<1>1. Step \in [1 .. n -> [Nodes(V) -> Nodes(V)]]
  <2>1. ASSUME NEW k \in 1 .. n, NEW old \in Nodes(V), HasPair(k) PROVE Given(k, old) \in Nodes(V)
    <3>1. item[k] \in V /\ old \in Seq(V) /\ Len(old) <= lookup.nstore
      BY <1>0, <2>1 DEF Nodes, AreBigrams
    <3>2. Given(k, old) \in Seq(V) /\ Len(Given(k, old)) \in 1 .. lookup.nstore
      BY <3>1, EvalItemIs
    <3>3. Len(Given(k, old)) <= lookup.nstore
      BY <3>2
    <3> QED
      BY <3>2, <3>3 DEF Nodes
  <2> HIDE DEF Given, HasPair
  <2> QED
    BY <2>1
<1>2. Recursions(n, Nodes(V), node, Step) # {}
  <2> HIDE DEF Step
  <2> QED
    BY <1>0, <1>1, RecursionUpTo
<1>3. PICK kept \in [0 .. n -> Nodes(V)] :
         kept[0] = node /\ \A k \in 1 .. n : kept[k] = Step[k][kept[k - 1]]
  BY <1>2 DEF Recursions
<1>4. \A k \in 1 .. n : kept[k] = IF ~HasPair(k) THEN kept[k - 1] ELSE Given(k, kept[k - 1])
  <2> HIDE DEF Given, HasPair
  <2>1. \A k \in 1 .. n : kept[k - 1] \in Nodes(V)
    BY <1>0
  <2> QED
    BY <1>3, <2>1
<1>5. Eq(kept)
  <2> DEFINE Value0(k) == IF k = 0 THEN node ELSE Body(k, kept[k - 1])
  <2>1. ASSUME NEW k \in 0 .. n PROVE kept[k] = Value0(k)
    <3>1. CASE k = 0
      BY <1>3, <3>1
    <3>2. CASE k # 0
      <4>1. k \in 1 .. n /\ pair[k] = P(k)
        BY <1>0, <3>2 DEF AreBigrams
      <4>2. CASE HasPair(k)
        BY <1>0, <1>4, <3>2, <4>1, <4>2 DEF AreBigrams
      <4>3. CASE ~HasPair(k)
        BY <1>4, <3>2, <4>1, <4>3
      <4> QED
        BY <4>2, <4>3
    <3> QED
      BY <3>1, <3>2
  <2> HIDE DEF Value0
  <2>2. kept = [k \in 0 .. n |-> kept[k]]
    OBVIOUS
  <2>3. kept = [k \in 0 .. n |-> Value0(k)]
    BY <2>1, <2>2
  <2> QED
    BY <2>3 DEF Value0
<1>6. Eq(function)
  <2> HIDE DEF Eq
  <2> QED
    BY <1>5
<1>7. AfterBigrams(node, start, top, token) = function[n]
  BY DEF AfterBigrams, n
<1> HIDE DEF function
<1>8. function[n] = kept[n]
  <2> DEFINE T == {k \in 0 .. n : function[k] = kept[k]}
  <2>1. 0 \in T
    BY <1>0, <1>5, <1>6
  <2>2. ASSUME NEW k \in 1 .. n, k - 1 \in T PROVE k \in T
    <3>1. k \in 0 .. n /\ k # 0
      BY <1>0
    <3>2. function[k - 1] = kept[k - 1]
      BY <2>2
    <3>3. kept[k] = Body(k, kept[k - 1]) /\ function[k] = Body(k, function[k - 1])
      BY <1>5, <1>6, <3>1
    <3> HIDE DEF Body
    <3>4. function[k] = kept[k]
      BY <3>2, <3>3
    <3> QED
      BY <3>1, <3>4
  <2> HIDE DEF T
  <2>3. 0 .. n \subseteq T
    BY <1>0, <2>1, <2>2, InductionUpTo
  <2>4. n \in T
    BY <1>0, <2>3
  <2> QED
    BY <2>4 DEF T
<1>9. AreKept(V, node, top, pair, item, kept)
  BY <1>0, <1>3, <1>4 DEF AreKept
<1> QED
  BY <1>0, <1>7, <1>8, <1>9

Typed(a) == a.length \in Int /\ a.poss \in Int

\* Among these values, what is less is less good.
IsOrder(V) == /\ \A a \in V : Typed(a)
              /\ \A a, b \in V : Less(lookup.nstore, a, b) <=> Better(b, a)

\* The node has a value that is no worse; none of its values is better than its first.
NoWorse(a, node) == node # <<>> /\ ~Better(a, node[1])
FrontIsBest(node) == \A k \in DOMAIN node : ~Better(node[k], node[1])

LEMMA NotBetterTransitive ==
    ASSUME NEW a, NEW b, NEW c, Typed(a), Typed(b), Typed(c), ~Better(a, b), ~Better(b, c)
    PROVE  ~Better(a, c)
BY DEF Better, Typed

\* A node that is given a value: none is lost that was better than what is kept.
LEMMA EvalItemNode ==
    ASSUME lookup.nstore \in {1, 2}, NEW V, NEW node \in Nodes(V), NEW item \in V
    PROVE  LET new == EvalItem(lookup.nstore, node, item)
           IN  /\ new \in Nodes(V) /\ new # <<>>
               /\ IsOrder(V) /\ FrontIsBest(node) =>
                     /\ FrontIsBest(new) /\ NoWorse(item, new)
                     /\ \A a : Typed(a) /\ NoWorse(a, node) => NoWorse(a, new)
<1> DEFINE new == EvalItem(lookup.nstore, node, item)
<1>1. node \in Seq(V) /\ Len(node) <= lookup.nstore
  BY DEF Nodes
<1>2. new \in Seq(V) /\ Len(new) \in 1 .. lookup.nstore
  BY <1>1, EvalItemIs
<1>3. new \in Nodes(V) /\ new # <<>>
  <2> HIDE DEF new
  <2>1. PICK m \in Nat : m = Len(new)
    BY <1>2, SeqIs
  <2>2. m \in 1 .. lookup.nstore
    BY <1>2, <2>1
  <2>3. m # 0 /\ m <= lookup.nstore
    BY <2>2
  <2>4. new = <<>> <=> Len(new) = 0
    BY <1>2, SeqIs
  <2> QED
    BY <1>2, <2>1, <2>3, <2>4 DEF Nodes
<1>4. ASSUME IsOrder(V), FrontIsBest(node)
      PROVE  /\ FrontIsBest(new) /\ NoWorse(item, new)
             /\ \A a : Typed(a) /\ NoWorse(a, node) => NoWorse(a, new)
  <2>1. /\ \A k \in DOMAIN new : ~Better(new[k], new[1])
        /\ ~Better(item, new[1])
        /\ node # <<>> => ~Better(node[1], new[1])
    <3>1. /\ \A a \in V : a.length \in Int /\ a.poss \in Int
          /\ \A a, b \in V : Less(lookup.nstore, a, b) <=> Better(b, a)
          /\ \A k \in DOMAIN node : ~Better(node[k], node[1])
      BY <1>4 DEF IsOrder, Typed, FrontIsBest
    <3> QED
      BY <1>1, <3>1, EvalItemKeepsBest
  <2> HIDE DEF new
  <2>2. /\ new[1] \in V /\ Typed(new[1])
    <3>1. PICK m \in Nat : m = Len(new)
      BY <1>2, SeqIs
    <3>2. m \in 1 .. lookup.nstore
      BY <1>2, <3>1
    <3>3. 1 \in 1 .. m
      BY <3>2
    <3>4. \A k \in 1 .. m : new[k] \in V
      BY <1>2, <3>1, SeqIs
    <3> QED
      BY <1>4, <3>3, <3>4 DEF IsOrder
  <2>3. ASSUME NEW a, Typed(a), NoWorse(a, node) PROVE NoWorse(a, new)
    <3>1. node # <<>> /\ ~Better(a, node[1]) /\ ~Better(node[1], new[1])
      BY <2>1, <2>3 DEF NoWorse
    <3>2. node[1] \in V
      <4>1. PICK m \in Nat : m = Len(node)
        BY <1>1, SeqIs
      <4>2. m # 0
        BY <1>1, <3>1, <4>1, SeqIs
      <4>3. 1 \in 1 .. m
        BY <4>2
      <4>4. \A k \in 1 .. m : node[k] \in V
        BY <1>1, <4>1, SeqIs
      <4> QED
        BY <4>3, <4>4
    <3>3. Typed(node[1])
      BY <1>4, <3>2 DEF IsOrder
    <3>4. ~Better(a, new[1])
      BY <2>2, <2>3, <3>1, <3>3, NotBetterTransitive
    <3> QED
      BY <1>3, <3>4 DEF NoWorse
  <2> QED
    BY <1>3, <2>1, <2>3 DEF FrontIsBest, NoWorse
<1> QED
  BY <1>3, <1>4

\* A word's node after the bigrams of the top results: it is given a value for each
\* that has one.
LEMMA AfterBigramsKeep ==
    ASSUME lookup.nstore \in {1, 2}, NEW V, NEW node \in Nodes(V),
           NEW start, NEW top, NEW token, NEW pair, NEW item,
           AreBigrams(V, start, top, token, pair, item)
    PROVE  LET new == AfterBigrams(node, start, top, token)
           IN  /\ new \in Nodes(V)
               /\ IsOrder(V) /\ FrontIsBest(node) =>
                     /\ FrontIsBest(new)
                     /\ \A k \in 1 .. Len(top) :
                           pair[k] \in DOMAIN problem.bigram => NoWorse(item[k], new)
                     /\ \A a : Typed(a) /\ NoWorse(a, node) => NoWorse(a, new)
<1> DEFINE n == Len(top)
           HasPair(k) == pair[k] \in DOMAIN problem.bigram
           Given(k, old) == EvalItem(lookup.nstore, old, item[k])
<1>0. PICK kept : /\ AreKept(V, node, top, pair, item, kept)
                  /\ AfterBigrams(node, start, top, token) = kept[Len(top)]
  BY AfterBigramsIs
<1>1. /\ kept \in [0 .. n -> Nodes(V)] /\ kept[0] = node
      /\ \A k \in 1 .. n : kept[k] = IF ~HasPair(k) THEN kept[k - 1] ELSE Given(k, kept[k - 1])
      /\ AfterBigrams(node, start, top, token) = kept[n]
  BY <1>0 DEF AreKept
<1> HIDE DEF n
<1>2. n \in Nat
  BY DEF n, AreBigrams
<1>3. ASSUME NEW k \in 1 .. n, HasPair(k) PROVE item[k] \in V
  BY <1>3 DEF n, AreBigrams
<1>4. ASSUME IsOrder(V), FrontIsBest(node)
      PROVE  /\ FrontIsBest(kept[n])
             /\ \A k \in 1 .. n : HasPair(k) => NoWorse(item[k], kept[n])
             /\ \A a : Typed(a) /\ NoWorse(a, node) => NoWorse(a, kept[n])
  <2> DEFINE Good(m) == /\ FrontIsBest(kept[m])
                        /\ \A k \in 1 .. m : HasPair(k) => NoWorse(item[k], kept[m])
                        /\ \A a : Typed(a) /\ NoWorse(a, node) => NoWorse(a, kept[m])
             T == {m \in 0 .. n : Good(m)}
  <2>1. 0 \in T
    BY <1>1, <1>2, <1>4
  <2>2. ASSUME NEW m \in 1 .. n, m - 1 \in T PROVE m \in T
    <3>0. /\ m - 1 \in 0 .. n /\ m \in 0 .. n
          /\ \A k \in 1 .. m : k = m \/ (k \in 1 .. m - 1 /\ k \in 1 .. n)
          /\ m \in 1 .. m
      BY <1>2
    <3>1. Good(m - 1)
      BY <2>2
    <3>2. CASE ~HasPair(m)
      <4>1. kept[m] = kept[m - 1]
        BY <1>1, <3>2
      <4>2. Good(m)
        BY <3>0, <3>1, <3>2, <4>1
      <4> QED
        BY <3>0, <4>2
    <3>3. CASE HasPair(m)
      <4> HIDE DEF HasPair
      <4>1. kept[m - 1] \in Nodes(V) /\ item[m] \in V /\ kept[m] = EvalItem(lookup.nstore, kept[m - 1], item[m])
        BY <1>1, <1>3, <3>0, <3>3
      <4>2. /\ FrontIsBest(kept[m]) /\ NoWorse(item[m], kept[m])
            /\ \A a : Typed(a) /\ NoWorse(a, kept[m - 1]) => NoWorse(a, kept[m])
        BY <1>4, <3>1, <4>1, EvalItemNode
      <4>3. ASSUME NEW k \in 1 .. m, HasPair(k) PROVE NoWorse(item[k], kept[m])
        <5>1. CASE k = m
          BY <4>2, <5>1
        <5>2. CASE k # m
          <6>1. k \in 1 .. m - 1 /\ k \in 1 .. n
            BY <3>0, <5>2
          <6>2. NoWorse(item[k], kept[m - 1])
            BY <3>1, <4>3, <6>1
          <6>3. Typed(item[k])
            BY <1>3, <1>4, <4>3, <6>1 DEF IsOrder
          <6> QED
            BY <4>2, <6>2, <6>3
        <5> QED
          BY <5>1, <5>2
      <4>4. Good(m)
        BY <3>1, <4>2, <4>3
      <4> HIDE DEF Good
      <4> QED
        BY <3>0, <4>4
    <3> QED
      BY <3>2, <3>3
  <2> HIDE DEF T
  <2>3. 0 .. n \subseteq T
    BY <1>2, <2>1, <2>2, InductionUpTo
  <2>4. n \in T
    BY <1>2, <2>3
  <2> QED
    BY <2>4 DEF T
<1>5. n \in 0 .. n /\ n = Len(top)
  BY <1>2 DEF n
<1>6. AfterBigrams(node, start, top, token) \in Nodes(V)
  BY <1>1, <1>5
<1> QED
  BY <1>1, <1>4, <1>5, <1>6

\* A column with finitely many words has finitely many values.
LEMMA CandidatesFinite ==
    ASSUME NEW nodes, IsFiniteSet(DOMAIN nodes),
           \A t \in DOMAIN nodes : \E m \in Nat : DOMAIN nodes[t] = 1 .. m
    PROVE  IsFiniteSet(Candidates(nodes))
<1> DEFINE Numbered(t) == {[value |-> nodes[t][k], index |-> k] : k \in DOMAIN nodes[t]}
           All == {Numbered(t) : t \in DOMAIN nodes}
<1>1. ASSUME NEW t \in DOMAIN nodes PROVE IsFiniteSet(Numbered(t))
  <2> DEFINE f == [k \in DOMAIN nodes[t] |-> [value |-> nodes[t][k], index |-> k]]
  <2>1. IsFiniteSet(DOMAIN nodes[t])
    <3>1. PICK m \in Nat : DOMAIN nodes[t] = 1 .. m
      OBVIOUS
    <3> QED
      BY <3>1, FS_Interval
  <2>2. f \in Surjection(DOMAIN nodes[t], Numbered(t))
    BY DEF Surjection
  <2> HIDE DEF f, Numbered
  <2> QED
    BY <2>1, <2>2, FS_Surjection
<1>2. IsFiniteSet(All)
  <2> DEFINE g == [t \in DOMAIN nodes |-> Numbered(t)]
  <2> HIDE DEF Numbered
  <2>1. g \in Surjection(DOMAIN nodes, All)
    BY DEF Surjection
  <2> HIDE DEF g, All
  <2> QED
    BY <2>1, FS_Surjection
<1>3. IsFiniteSet(UNION All)
  <2> HIDE DEF Numbered
  <2>1. \A T \in All : IsFiniteSet(T)
    BY <1>1
  <2> HIDE DEF All
  <2> QED
    BY <1>2, <2>1, FS_UNION
<1> QED
  BY <1>3 DEF Candidates

\* What get_top_results returns: values of the column, one at least if there is one, all
\* if they are not more than asked for; and, where the heap has an order, the first is
\* not less than any.
LEMMA TopIs ==
    ASSUME NEW nstore, NEW nodes, IsFiniteSet(Candidates(nodes)), NEW num \in Nat \ {0},
           NEW top \in TopResults(nstore, nodes, num)
    PROVE  /\ top \in Seq(Candidates(nodes)) /\ Len(top) \in Nat /\ DOMAIN top = 1 .. Len(top)
           /\ \A k \in 1 .. Len(top) : top[k] \in Candidates(nodes)
           /\ Len(top) <= num
           /\ Candidates(nodes) # {} => 1 \in 1 .. Len(top)
           /\ Cardinality(Candidates(nodes)) <= num =>
                 \A c \in Candidates(nodes) : \E k \in 1 .. Len(top) : top[k] = c
           /\ (\A a, b \in Candidates(nodes) :
                  ~(Less(nstore, a.value, b.value) /\ Less(nstore, b.value, a.value))) =>
              \A b \in Candidates(nodes) : 1 \in 1 .. Len(top) => ~Less(nstore, top[1].value, b.value)
<1> DEFINE found == Candidates(nodes)
           count == Cardinality(found)
           n == Min({num, count})
           Asym == \A a, b \in found :
                      ~(Less(nstore, a.value, b.value) /\ Less(nstore, b.value, a.value))
<1>1. /\ top \in Injection(1 .. n, found)
      /\ Asym => \A k \in DOMAIN top : \A b \in found \ {top[j] : j \in 1 .. k - 1} :
                    ~Less(nstore, top[k].value, b.value)
  BY DEF TopResults
<1> HIDE DEF found
<1>2. count \in Nat /\ (found # {} => count # 0)
  BY FS_CardinalityType, FS_EmptySet DEF found
<1> HIDE DEF count
<1>3. n \in {num, count} /\ n <= num /\ n <= count
  <2> DEFINE low == IF num <= count THEN num ELSE count
  <2>1. low \in {num, count} /\ \A y \in {num, count} : low <= y
    BY <1>2
  <2> HIDE DEF low
  <2>2. \E x \in {num, count} : \A y \in {num, count} : x <= y
    BY <2>1
  <2> QED
    BY <2>2 DEF Min
<1>4. n \in Nat
  BY <1>2, <1>3
<1> HIDE DEF n
<1>5. top \in [1 .. n -> found]
  BY <1>1 DEF Injection
<1>6. top \in Seq(found) /\ Len(top) = n
  BY <1>4, <1>5
<1>7. found # {} => 1 \in 1 .. n
  BY <1>2, <1>3, <1>4
<1>8. ASSUME count <= num, NEW c \in found PROVE \E k \in 1 .. n : top[k] = c
  <2>1. n = count
    BY <1>2, <1>3, <1>8
  <2>2. Cardinality(1 .. n) = n
    BY <1>4, FS_Interval
  <2>3. IsFiniteSet(found) /\ Cardinality(1 .. n) = Cardinality(found)
    BY <2>1, <2>2 DEF found, count
  <2>4. top \in Surjection(1 .. n, found)
    BY <1>1, <2>3, FS_Injection
  <2> QED
    BY <2>4 DEF Surjection
<1>9. ASSUME Asym, NEW b \in found, 1 \in 1 .. n PROVE ~Less(nstore, top[1].value, b.value)
  <2>1. 1 \in DOMAIN top /\ b \in found \ {top[j] : j \in 1 .. 1 - 1}
    BY <1>5, <1>9
  <2> HIDE DEF Asym
  <2> QED
    BY <1>1, <1>9, <2>1
<1>10. /\ top \in Seq(found) /\ Len(top) \in Nat /\ DOMAIN top = 1 .. Len(top)
       /\ \A k \in 1 .. Len(top) : top[k] \in found
       /\ Len(top) <= num
       /\ found # {} => 1 \in 1 .. Len(top)
       /\ count <= num => \A c \in found : \E k \in 1 .. Len(top) : top[k] = c
       /\ Asym => \A b \in found : 1 \in 1 .. Len(top) => ~Less(nstore, top[1].value, b.value)
  <2> HIDE DEF Asym
  <2> QED
    BY <1>3, <1>4, <1>5, <1>6, <1>7, <1>8, <1>9
<1> QED
  BY <1>10 DEF found, count

LEMMA TopHasAll ==
    ASSUME NEW nstore, NEW nodes, IsFiniteSet(Candidates(nodes)), NEW num \in Nat \ {0},
           NEW top \in TopResults(nstore, nodes, num), Cardinality(Candidates(nodes)) <= num
    PROVE  \A c \in Candidates(nodes) : \E k \in 1 .. Len(top) : top[k] = c
BY TopIs

-----------------------------------------------------------------------------
(* The order of the sentences. *)

LEMMA ConcatIs ==
    ASSUME NEW V, NEW s \in Seq(V), NEW t \in Seq(V)
    PROVE  /\ s \o t \in Seq(V) /\ Len(s \o t) = Len(s) + Len(t)
           /\ \A k \in 1 .. Len(s) : (s \o t)[k] = s[k]
OBVIOUS

\* A sequence with one element more.
LEMMA InsertIs ==
    ASSUME NEW V, NEW run \in Seq(V), NEW a \in V, NEW place \in 1 .. Len(run) + 1
    PROVE  /\ InsertAt(run, place, a) \in Seq(V)
           /\ Len(InsertAt(run, place, a)) = Len(run) + 1
           /\ place = 1 => InsertAt(run, place, a)[1] = a
<1> DEFINE n == Len(run)
           before == SubSeq(run, 1, place - 1)
           after == SubSeq(run, place, n)
<1>1. n \in Nat /\ DOMAIN run = 1 .. n /\ \A k \in 1 .. n : run[k] \in V
  BY SeqIs
<1>2. /\ before \in Seq(V) /\ Len(before) = place - 1
      /\ after \in Seq(V) /\ Len(after) = n - place + 1
  OBVIOUS
<1> HIDE DEF before, after, n
<1>3. <<a>> \in Seq(V) /\ Len(<<a>>) = 1 /\ <<a>>[1] = a
  OBVIOUS
<1>4. /\ before \o <<a>> \in Seq(V) /\ Len(before \o <<a>>) = place
      /\ place = 1 => (before \o <<a>>)[1] = a
  BY <1>1, <1>2, <1>3
<1>5. /\ (before \o <<a>>) \o after \in Seq(V)
      /\ Len((before \o <<a>>) \o after) = n + 1
      /\ place = 1 => ((before \o <<a>>) \o after)[1] = a
  <2> DEFINE head == before \o <<a>>
  <2>1. head \in Seq(V) /\ Len(head) = place /\ (place = 1 => head[1] = a)
    BY <1>4
  <2> HIDE DEF head
  <2>2. /\ head \o after \in Seq(V) /\ Len(head \o after) = Len(head) + Len(after)
        /\ \A k \in 1 .. Len(head) : (head \o after)[k] = head[k]
    BY <1>2, <2>1, ConcatIs
  <2>3. place + (n - place + 1) = n + 1
    BY <1>1
  <2>4. Len(head \o after) = n + 1
    BY <1>2, <2>1, <2>2, <2>3
  <2>5. 1 \in 1 .. 1
    OBVIOUS
  <2> QED
    BY <2>1, <2>2, <2>4, <2>5 DEF head
<1> QED
  BY <1>5 DEF InsertAt, before, after, n

\* Sorting loses none, and if the first is to stay before all others it is the first.
LEMMA SortedIs ==
    ASSUME NEW V, NEW tails \in Seq(V)
    PROVE  /\ Sorted(tails) \in Seq(V) /\ Len(Sorted(tails)) = Len(tails)
           /\ Len(tails) # 0 /\ (\A x \in V : Compare(tails[1], x) <= 0) =>
                 Sorted(tails)[1] = tails[1]
<1> DEFINE n == Len(tails)
           Places(x, run) == {k \in DOMAIN run : Compare(x, run[k]) <= 0} \cup {Len(run) + 1}
           Insert(k, run) == InsertAt(run, Min(Places(tails[n + 1 - k], run)), tails[n + 1 - k])
           Step == [k \in 1 .. n |-> [run \in Seq(V) |-> Insert(k, run)]]
           Eq(merged) == merged = [k \in 0 .. n |-> IF k = 0 THEN <<>> ELSE Insert(k, merged[k - 1])]
           function == CHOOSE merged : Eq(merged)
<1>0. n \in Nat /\ (\A k \in 1 .. n : tails[k] \in V) /\ <<>> \in Seq(V) /\ Len(<<>>) = 0
  BY SeqIs
<1>a. Sorted(tails) = function[n]
  BY DEF Sorted
<1> HIDE DEF n
<1>1. ASSUME NEW x \in V, NEW run \in Seq(V)
      PROVE  /\ Min(Places(x, run)) \in 1 .. Len(run) + 1
             /\ \A k \in Places(x, run) : Min(Places(x, run)) <= k
             /\ 1 \in Places(x, run) => Min(Places(x, run)) = 1
  <2>1. PICK m \in Nat : m = Len(run) /\ DOMAIN run = 1 .. m
    BY SeqIs
  <2>2. Places(x, run) \in SUBSET (1 .. m + 1) /\ m + 1 \in Places(x, run)
    BY <2>1
  <2> HIDE DEF Places
  <2>3. Places(x, run) \in SUBSET Nat /\ Places(x, run) # {}
    BY <2>2
  <2>4. \E k \in Places(x, run) : \A j \in Places(x, run) : k <= j
    BY <2>3, LeastElement
  <2>5. Min(Places(x, run)) \in Places(x, run) /\ \A j \in Places(x, run) : Min(Places(x, run)) <= j
    BY <2>4 DEF Min
  <2>6. Min(Places(x, run)) \in 1 .. m + 1
    BY <2>2, <2>5
  <2> QED
    BY <2>1, <2>5, <2>6
<1>2. ASSUME NEW k \in 1 .. n, NEW run \in Seq(V)
      PROVE  Insert(k, run) \in Seq(V) /\ Len(Insert(k, run)) = Len(run) + 1
  <2>1. n + 1 - k \in 1 .. n /\ tails[n + 1 - k] \in V
    BY <1>0
  <2> HIDE DEF Places
  <2> QED
    BY <1>1, <2>1, InsertIs
<1>3. Step \in [1 .. n -> [Seq(V) -> Seq(V)]]
  <2> HIDE DEF Insert
  <2> QED
    BY <1>2
<1>4. Recursions(n, Seq(V), <<>>, Step) # {}
  <2> HIDE DEF Step
  <2> QED
    BY <1>0, <1>3, RecursionUpTo
<1>5. PICK merged \in [0 .. n -> Seq(V)] :
         merged[0] = <<>> /\ \A k \in 1 .. n : merged[k] = Step[k][merged[k - 1]]
  BY <1>4 DEF Recursions
<1>6. \A k \in 1 .. n : merged[k] = Insert(k, merged[k - 1]) /\ merged[k - 1] \in Seq(V)
  <2> HIDE DEF Insert
  <2>1. \A k \in 1 .. n : merged[k - 1] \in Seq(V)
    BY <1>0
  <2> QED
    BY <1>5, <2>1
<1> HIDE DEF Step, Insert
<1>7. Eq(merged)
  <2>1. \A k \in 0 .. n : merged[k] = IF k = 0 THEN <<>> ELSE Insert(k, merged[k - 1])
    BY <1>0, <1>5, <1>6
  <2>2. merged = [k \in 0 .. n |-> merged[k]]
    OBVIOUS
  <2> QED
    BY <2>1, <2>2
<1>8. Eq(function)
  <2> HIDE DEF Eq
  <2> QED
    BY <1>7
<1> HIDE DEF function
<1>9. function[n] = merged[n]
  <2> DEFINE T == {k \in 0 .. n : function[k] = merged[k]}
  <2>1. 0 \in T
    BY <1>0, <1>7, <1>8
  <2>2. ASSUME NEW k \in 1 .. n, k - 1 \in T PROVE k \in T
    <3>1. k \in 0 .. n /\ k # 0
      BY <1>0
    <3>2. merged[k] = Insert(k, merged[k - 1]) /\ function[k] = Insert(k, function[k - 1])
      BY <1>7, <1>8, <3>1
    <3> QED
      BY <2>2, <3>1, <3>2
  <2> HIDE DEF T
  <2>3. 0 .. n \subseteq T
    BY <1>0, <2>1, <2>2, InductionUpTo
  <2>4. n \in T
    BY <1>0, <2>3
  <2> QED
    BY <2>4 DEF T
<1>10. Len(merged[n]) = n
  <2> DEFINE T == {k \in 0 .. n : Len(merged[k]) = k}
  <2>1. 0 \in T
    BY <1>0, <1>5
  <2>2. ASSUME NEW k \in 1 .. n, k - 1 \in T PROVE k \in T
    <3>1. k \in 0 .. n /\ (k - 1) + 1 = k
      BY <1>0
    <3>2. Len(merged[k]) = Len(merged[k - 1]) + 1
      BY <1>2, <1>6
    <3>3. Len(merged[k - 1]) = k - 1
      BY <2>2
    <3> QED
      BY <3>1, <3>2, <3>3
  <2> HIDE DEF T
  <2>3. 0 .. n \subseteq T
    BY <1>0, <2>1, <2>2, InductionUpTo
  <2>4. n \in T
    BY <1>0, <2>3
  <2> QED
    BY <2>4 DEF T
<1>11. ASSUME n # 0, \A x \in V : Compare(tails[1], x) <= 0 PROVE merged[n][1] = tails[1]
  <2> DEFINE run == merged[n - 1]
  <2>1. n \in 1 .. n /\ n + 1 - n = 1 /\ 1 \in 1 .. n
    BY <1>0, <1>11
  <2>2. merged[n] = Insert(n, run) /\ run \in Seq(V) /\ tails[1] \in V
    BY <1>0, <1>6, <2>1
  <2> HIDE DEF run
  <2>3. 1 \in Places(tails[1], run)
    <3>1. PICK m \in Nat : m = Len(run) /\ DOMAIN run = 1 .. m /\ \A k \in 1 .. m : run[k] \in V
      BY <2>2, SeqIs
    <3>2. CASE m = 0
      BY <3>1, <3>2
    <3>3. CASE m # 0
      <4>1. 1 \in DOMAIN run /\ run[1] \in V
        BY <3>1, <3>3
      <4> QED
        BY <1>11, <4>1
    <3> QED
      BY <3>2, <3>3
  <2> HIDE DEF Places
  <2>4. Min(Places(tails[1], run)) = 1 /\ Min(Places(tails[1], run)) \in 1 .. Len(run) + 1
    BY <1>1, <2>2, <2>3
  <2>5. InsertAt(run, Min(Places(tails[1], run)), tails[1])[1] = tails[1]
    BY <2>2, <2>4, InsertIs
  <2>6. Insert(n, run) = InsertAt(run, Min(Places(tails[1], run)), tails[1])
    BY <2>1 DEF Insert
  <2> QED
    BY <2>2, <2>5, <2>6
<1>12. n \in 0 .. n
  BY <1>0
<1> QED
  BY <1>5, <1>9, <1>10, <1>11, <1>12, <1>a DEF n

-----------------------------------------------------------------------------
(* The invariant. *)

\* A chain and the value that was computed for it.
Fits(chain, v) == chain.token = v.token /\ chain.length = v.length /\ chain.poss = v.poss

\* The value is computed, with a word and a score of the problem, from the one it says,
\* of a column the search is through with.
Linked(tr, col, i, v) ==
    \E s \in 0 .. i - 1 : \E p \in DOMAIN tr[s] : \E k \in DOMAIN tr[s][p] :
        /\ s < col /\ v.token \in WordsBetween(s, i)
        /\ \E score \in StepScores(p, v.token) :
              v = NextStep(s, [value |-> tr[s][p][k], index |-> k], v.token, score)

\* What the node of a word at a column may hold.
NodeValues(tr, col, i, t) ==
    {v \in Value : /\ v.token = t
                   /\ IF i = 0 THEN t \in problem.prefixes /\ v = PrefixValue(t)
                               ELSE Linked(tr, col, i, v)
                   /\ \E chain \in Chains[i] : Fits(chain, v)}

TrellisIs(tr, col) ==
    /\ DOMAIN tr = 0 .. last
    /\ \A i \in 0 .. last :
          /\ IsFiniteSet(DOMAIN tr[i])
          /\ \A t \in DOMAIN tr[i] : /\ tr[i][t] \in Nodes(NodeValues(tr, col, i, t))
                                     /\ tr[i][t] # <<>>

\* What is less is less good.
Ordered == lookup.nstore = 1 \/ \A i \in 0 .. last : OneLength(Chains[i])

FrontsAreBest(tr) ==
    \A i \in 0 .. last : \A t \in DOMAIN tr[i] : \A k \in DOMAIN tr[i][t] :
        ~Better(tr[i][t][k], tr[i][t][1])

\* Each chain to a column the search is through with has been tried with each word
\* from there, and the node of that word has a value that is no worse.
Covered(tr, col) ==
    /\ \A t \in problem.prefixes : t \in DOMAIN tr[0]
    /\ \A s \in 0 .. last : s < col =>
          \A chain \in Chains[s] : \A i \in s + 1 .. last : \A t \in WordsBetween(s, i) :
             \A longer \in Longer(chain, i, t) :
                t \in DOMAIN tr[i] /\ ~Better(longer, tr[i][t][1])

TrellisInv ==
    /\ problem \in Problems /\ lookup \in Lookups /\ column \in 0 .. problem.size
    /\ TrellisIs(trellis, column)
    /\ Ordered => FrontsAreBest(trellis)
    /\ Ordered /\ ~cut => Covered(trellis, column)
    /\ column <= last => results = <<>>
    /\ ResultsAreChains
    /\ BestSentence
-----------------------------------------------------------------------------
(* Chains. *)

Chain == [words : Seq([start : Nat, token : Tokens]), end : Nat, token : Tokens,
          length : Nat, poss : Int]

LEMMA WordsAre ==
    ASSUME problem \in Problems, NEW start, NEW end
    PROVE  /\ IsFiniteSet(WordsBetween(start, end))
           /\ \A t \in WordsBetween(start, end) : t \in Tokens /\ problem.length[t] \in Nat
<1>1. \A span \in DOMAIN problem.words :
         IsFiniteSet(problem.words[span]) /\ \A t \in problem.words[span] : problem.length[t] \in Nat
  BY NBestTrellisAssumption
<1>2. CASE <<start, end>> \in DOMAIN problem.words
  <2>1. WordsBetween(start, end) = problem.words[<<start, end>>]
    BY <1>2 DEF WordsBetween
  <2> QED
    BY <1>1, <1>2, <2>1 DEF Tokens
<1>3. CASE <<start, end>> \notin DOMAIN problem.words
  <2>1. WordsBetween(start, end) = {}
    BY <1>3 DEF WordsBetween
  <2> QED
    BY <2>1, FS_EmptySet
<1> QED
  BY <1>2, <1>3

LEMMA ScoresAre ==
    ASSUME problem \in Problems, NEW prev, NEW token
    PROVE  StepScores(prev, token) \subseteq Int
<1>1. /\ \A t \in DOMAIN problem.unigram : problem.unigram[t] \in Int
      /\ \A pair \in DOMAIN problem.bigram : problem.bigram[pair] \in Int
  BY NBestTrellisAssumption
<1> QED
  BY <1>1 DEF StepScores

LEMMA LastIs == ASSUME problem \in Problems PROVE last \in Nat /\ problem.size = last + 1
BY NBestTrellisAssumption DEF last

\* A chain with one word more.
LEMMA LongerIs ==
    ASSUME problem \in Problems, NEW chain \in Chain, NEW end \in Nat,
           NEW t \in WordsBetween(chain.end, end), NEW longer \in Longer(chain, end, t)
    PROVE  longer \in Chain /\ longer.end = end
<1>1. t \in Tokens /\ problem.length[t] \in Nat
  BY WordsAre
<1>2. PICK score \in StepScores(chain.token, t) :
         longer = [words |-> Append(chain.words, [start |-> chain.end, token |-> t]),
                   end |-> end, token |-> t,
                   length |-> chain.length + problem.length[t], poss |-> chain.poss + score]
  BY DEF Longer
<1>3. score \in Int
  BY ScoresAre
<1>4. [start |-> chain.end, token |-> t] \in [start : Nat, token : Tokens]
  BY <1>1 DEF Chain
<1>5. Append(chain.words, [start |-> chain.end, token |-> t]) \in Seq([start : Nat, token : Tokens])
  BY <1>4 DEF Chain
<1>6. chain.length + problem.length[t] \in Nat /\ chain.poss + score \in Int
  BY <1>1, <1>3 DEF Chain
<1> QED
  BY <1>1, <1>2, <1>5, <1>6 DEF Chain

\* The chains of no word, and what the chains of a later column are.
LEMMA ChainsAre ==
    ASSUME problem \in Problems
    PROVE  /\ DOMAIN Chains = 0 .. last
           /\ \A i \in 0 .. last : \A chain \in Chains[i] : chain \in Chain /\ chain.end = i
           /\ Chains[0] = {[words |-> <<>>, end |-> 0, token |-> t, length |-> 0, poss |-> 0] :
                             t \in problem.prefixes}
           /\ \A i \in 1 .. last : \A s \in 0 .. i - 1 : \A chain \in Chains[s] :
                 \A t \in WordsBetween(s, i) : Longer(chain, i, t) \subseteq Chains[i]
           /\ \A i \in 1 .. last : \A longer \in Chains[i] :
                 \E s \in 0 .. i - 1 : \E chain \in Chains[s] : \E t \in WordsBetween(s, i) :
                    longer \in Longer(chain, i, t)
<1> DEFINE First0 == {[words |-> <<>>, end |-> 0, token |-> t, length |-> 0, poss |-> 0] :
                        t \in problem.prefixes}
           More(end, before) ==
             before \cup UNION {UNION {Longer(chain, end, t) : t \in WordsBetween(chain.end, end)} :
                                  chain \in before}
           Step == [end \in 1 .. last |-> [before \in SUBSET Chain |-> More(end, before)]]
           Eq(upto) == upto = [end \in 0 .. last |-> IF end = 0 THEN First0 ELSE More(end, upto[end - 1])]
           function == CHOOSE upto : Eq(upto)
<1>0. last \in Nat
  BY LastIs
<1>1. First0 \in SUBSET Chain /\ \A chain \in First0 : chain.end = 0
  <2>1. <<>> \in Seq([start : Nat, token : Tokens])
    OBVIOUS
  <2>2. ASSUME NEW t \in problem.prefixes
        PROVE  [words |-> <<>>, end |-> 0, token |-> t, length |-> 0, poss |-> 0] \in Chain
    <3>1. t \in Tokens
      BY DEF Tokens
    <3> QED
      BY <2>1, <3>1 DEF Chain
  <2> HIDE DEF Chain
  <2> QED
    BY <2>2
<1>2. \A end : \A before : \A longer :
         longer \in More(end, before) <=>
            longer \in before \/ \E chain \in before : \E t \in WordsBetween(chain.end, end) :
                                    longer \in Longer(chain, end, t)
  OBVIOUS
<1>3. Chains = [end \in 0 .. last |-> {chain \in function[last] : chain.end = end}]
  BY DEF Chains
<1> HIDE DEF First0, More
<1>4. ASSUME NEW end \in 1 .. last, NEW before \in SUBSET Chain PROVE More(end, before) \in SUBSET Chain
  <2>1. end \in Nat
    BY <1>0
  <2> QED
    BY <1>2, <2>1, LongerIs
<1>5. Step \in [1 .. last -> [SUBSET Chain -> SUBSET Chain]]
  BY <1>4
<1>6. Recursions(last, SUBSET Chain, First0, Step) # {}
  <2> HIDE DEF Step
  <2> QED
    BY <1>0, <1>1, <1>5, RecursionUpTo
<1>7. PICK upto \in [0 .. last -> SUBSET Chain] :
         upto[0] = First0 /\ \A k \in 1 .. last : upto[k] = Step[k][upto[k - 1]]
  BY <1>6 DEF Recursions
<1>8. \A k \in 1 .. last : upto[k] = More(k, upto[k - 1]) /\ upto[k - 1] \in SUBSET Chain
  <2>1. \A k \in 1 .. last : upto[k - 1] \in SUBSET Chain
    BY <1>0
  <2> QED
    BY <1>7, <2>1
<1> HIDE DEF Step
<1>9. Eq(upto)
  <2>1. \A k \in 0 .. last : upto[k] = IF k = 0 THEN First0 ELSE More(k, upto[k - 1])
    BY <1>0, <1>7, <1>8
  <2>2. upto = [k \in 0 .. last |-> upto[k]]
    OBVIOUS
  <2> QED
    BY <2>1, <2>2
<1>10. Eq(function)
  <2> HIDE DEF Eq
  <2> QED
    BY <1>9
<1> HIDE DEF function
<1>11. function[last] = upto[last]
  <2> DEFINE T == {k \in 0 .. last : function[k] = upto[k]}
  <2>1. 0 \in T
    BY <1>0, <1>9, <1>10
  <2>2. ASSUME NEW k \in 1 .. last, k - 1 \in T PROVE k \in T
    <3>1. k \in 0 .. last /\ k # 0
      BY <1>0
    <3>2. upto[k] = More(k, upto[k - 1]) /\ function[k] = More(k, function[k - 1])
      BY <1>9, <1>10, <3>1
    <3> QED
      BY <2>2, <3>1, <3>2
  <2> HIDE DEF T
  <2>3. 0 .. last \subseteq T
    BY <1>0, <2>1, <2>2, InductionUpTo
  <2>4. last \in T
    BY <1>0, <2>3
  <2> QED
    BY <2>4 DEF T
\* Each set has the chains to its column and to those before it.
<1>12. \A k \in 0 .. last : \A chain \in upto[k] : chain.end \in 0 .. k /\ chain \in upto[chain.end]
  <2> DEFINE T == {k \in 0 .. last : \A chain \in upto[k] : chain.end \in 0 .. k /\ chain \in upto[chain.end]}
  <2>1. 0 \in T
    BY <1>0, <1>1, <1>7
  <2>2. ASSUME NEW k \in 1 .. last, k - 1 \in T PROVE k \in T
    <3>1. k \in 0 .. last /\ k \in Nat /\ k \in 0 .. k /\ 0 .. k - 1 \subseteq 0 .. k
      BY <1>0
    <3>2. ASSUME NEW chain \in upto[k] PROVE chain.end \in 0 .. k /\ chain \in upto[chain.end]
      <4>1. CASE chain \in upto[k - 1]
        BY <2>2, <3>1, <4>1
      <4>2. CASE chain \notin upto[k - 1]
        <5>1. PICK c \in upto[k - 1] : \E t \in WordsBetween(c.end, k) : chain \in Longer(c, k, t)
          BY <1>2, <1>8, <4>2
        <5>2. c \in Chain
          BY <1>8
        <5>3. chain.end = k
          BY <3>1, <5>1, <5>2, LongerIs
        <5> QED
          BY <3>1, <5>3
      <4> QED
        BY <4>1, <4>2
    <3> QED
      BY <3>1, <3>2
  <2> HIDE DEF T
  <2>3. 0 .. last \subseteq T
    BY <1>0, <2>1, <2>2, InductionUpTo
  <2> QED
    BY <2>3 DEF T
<1>13. ASSUME NEW i \in 0 .. last PROVE \A k \in 0 .. last : i <= k => upto[i] \subseteq upto[k]
  <2> DEFINE T == {k \in 0 .. last : i <= k => upto[i] \subseteq upto[k]}
  <2>1. 0 \in T
    BY <1>0
  <2>2. ASSUME NEW k \in 1 .. last, k - 1 \in T PROVE k \in T
    <3>1. k \in 0 .. last /\ (i <= k => i = k \/ i <= k - 1)
      BY <1>0
    <3>2. upto[k - 1] \subseteq upto[k]
      BY <1>2, <1>8
    <3>3. i <= k - 1 => upto[i] \subseteq upto[k - 1]
      BY <2>2
    <3> QED
      BY <3>1, <3>2, <3>3
  <2> HIDE DEF T
  <2>3. 0 .. last \subseteq T
    BY <1>0, <2>1, <2>2, InductionUpTo
  <2> QED
    BY <2>3 DEF T
<1>14. ASSUME NEW i \in 0 .. last, NEW chain
       PROVE  chain \in Chains[i] <=> chain \in upto[i] /\ chain.end = i
  <2>1. last \in 0 .. last /\ i <= last
    BY <1>0
  <2>2. Chains[i] = {c \in upto[last] : c.end = i}
    BY <1>3, <1>11
  <2>3. upto[i] \subseteq upto[last]
    BY <1>13, <2>1
  <2> QED
    BY <1>12, <2>1, <2>2, <2>3
<1>15. ASSUME NEW i \in 1 .. last, NEW s \in 0 .. i - 1, NEW chain \in Chains[s],
              NEW t \in WordsBetween(s, i), NEW longer \in Longer(chain, i, t)
       PROVE  longer \in Chains[i]
  <2>1. s \in 0 .. last /\ i \in 0 .. last /\ i - 1 \in 0 .. last /\ s <= i - 1 /\ i \in Nat
    BY <1>0
  <2>2. chain \in upto[s] /\ chain.end = s
    BY <1>14, <2>1
  <2>3. chain \in upto[i - 1] /\ chain \in Chain
    BY <1>8, <1>13, <2>1, <2>2
  <2>4. longer \in upto[i]
    BY <1>2, <1>8, <2>2, <2>3
  <2>5. longer.end = i
    BY <2>1, <2>2, <2>3, LongerIs
  <2> QED
    BY <1>14, <2>1, <2>4, <2>5
<1>16. ASSUME NEW i \in 1 .. last, NEW longer \in Chains[i]
       PROVE  \E s \in 0 .. i - 1 : \E chain \in Chains[s] : \E t \in WordsBetween(s, i) :
                 longer \in Longer(chain, i, t)
  <2>1. i \in 0 .. last /\ i - 1 \in 0 .. last /\ i \notin 0 .. i - 1
    BY <1>0
  <2>2. longer \in upto[i] /\ longer.end = i
    BY <1>14, <2>1
  <2>3. longer \notin upto[i - 1]
    BY <1>12, <2>1, <2>2
  <2>4. PICK c \in upto[i - 1] : \E t \in WordsBetween(c.end, i) : longer \in Longer(c, i, t)
    BY <1>2, <1>8, <2>2, <2>3
  <2>5. c.end \in 0 .. i - 1 /\ c \in upto[c.end]
    BY <1>12, <2>1
  <2>6. c.end \in 0 .. last
    BY <1>0, <2>5
  <2>7. c \in Chains[c.end]
    BY <1>14, <2>5, <2>6
  <2> QED
    BY <2>4, <2>5, <2>7
<1>17. \A i \in 0 .. last : \A chain \in Chains[i] : chain \in Chain /\ chain.end = i
  BY <1>14
<1>18. Chains[0] = First0
  <2>1. 0 \in 0 .. last
    BY <1>0
  <2>2. \A chain : chain \in Chains[0] <=> chain \in First0
    BY <1>1, <1>7, <1>14, <2>1
  <2>3. Chains[0] = {c \in function[last] : c.end = 0}
    BY <1>3, <2>1
  <2>4. \A chain : chain \in {c \in function[last] : c.end = 0} <=> chain \in First0
    BY <2>2, <2>3
  <2>5. {c \in function[last] : c.end = 0} = First0
    BY <2>4
  <2> QED
    BY <2>3, <2>5
<1>19. DOMAIN Chains = 0 .. last
  BY <1>3
<1> QED
  BY <1>15, <1>16, <1>17, <1>18, <1>19 DEF First0

-----------------------------------------------------------------------------
(* Back along the steps. *)

\* The values of a column.
Located(tr, i) == UNION {{tr[i][t][k] : k \in DOMAIN tr[i][t]} : t \in DOMAIN tr[i]}

LEMMA NodeIs ==
    ASSUME NEW tr, NEW col, TrellisIs(tr, col), NEW i \in 0 .. last, NEW t \in DOMAIN tr[i]
    PROVE  /\ \E m \in Nat : DOMAIN tr[i][t] = 1 .. m
           /\ 1 \in DOMAIN tr[i][t]
           /\ \A k \in DOMAIN tr[i][t] : tr[i][t][k] \in NodeValues(tr, col, i, t)
<1> DEFINE node == tr[i][t]
           V == NodeValues(tr, col, i, t)
<1>1. node \in Nodes(V) /\ node # <<>>
  BY DEF TrellisIs
<1> HIDE DEF node, V
<1>2. node \in Seq(V)
  BY <1>1 DEF Nodes
<1>3. PICK m \in Nat : m = Len(node) /\ DOMAIN node = 1 .. m
  BY <1>2, SeqIs
<1>4. m # 0 /\ \A k \in 1 .. m : node[k] \in V
  BY <1>1, <1>2, <1>3, SeqIs
<1>5. 1 \in DOMAIN node
  BY <1>3, <1>4
<1> QED
  BY <1>3, <1>4, <1>5 DEF node, V

\* A value of the first column, or the one it was computed from.
LEMMA StepBack ==
    ASSUME problem \in Problems, NEW tr, NEW col, TrellisIs(tr, col),
           NEW i \in 0 .. last, NEW v \in Located(tr, i)
    PROVE  /\ v \in Value
           /\ \/ i = 0 /\ v.token \in problem.prefixes /\ v = PrefixValue(v.token)
              \/ /\ i # 0 /\ v.last_step \in 0 .. i - 1
                 /\ v.token \in WordsBetween(v.last_step, i)
                 /\ \E u \in Located(tr, v.last_step) : \E score \in StepScores(u.token, v.token) :
                       /\ u = tr[v.last_step][v.prev][v.sub_index]
                       /\ v.length = u.length + problem.length[v.token]
                       /\ v.poss = u.poss + score
<1>1. PICK t \in DOMAIN tr[i] : \E k \in DOMAIN tr[i][t] : v = tr[i][t][k]
  BY DEF Located
<1>2. v \in NodeValues(tr, col, i, t)
  BY <1>1, NodeIs
<1>3. v \in Value /\ v.token = t
  BY <1>2 DEF NodeValues
<1>4. CASE i = 0
  BY <1>2, <1>3, <1>4 DEF NodeValues
<1>5. CASE i # 0
  <2>1. Linked(tr, col, i, v)
    BY <1>2, <1>5 DEF NodeValues
  <2>a. PICK s \in 0 .. i - 1 : \E p \in DOMAIN tr[s] : \E k \in DOMAIN tr[s][p] :
          /\ v.token \in WordsBetween(s, i)
          /\ \E score \in StepScores(p, v.token) :
                v = NextStep(s, [value |-> tr[s][p][k], index |-> k], v.token, score)
    BY <2>1 DEF Linked
  <2>b. PICK p \in DOMAIN tr[s] : \E k \in DOMAIN tr[s][p] :
          /\ v.token \in WordsBetween(s, i)
          /\ \E score \in StepScores(p, v.token) :
                v = NextStep(s, [value |-> tr[s][p][k], index |-> k], v.token, score)
    BY <2>a
  <2>c. PICK k \in DOMAIN tr[s][p] :
          /\ v.token \in WordsBetween(s, i)
          /\ \E score \in StepScores(p, v.token) :
                v = NextStep(s, [value |-> tr[s][p][k], index |-> k], v.token, score)
    BY <2>b
  <2>2. PICK score \in StepScores(p, v.token) :
          v = NextStep(s, [value |-> tr[s][p][k], index |-> k], v.token, score)
    BY <2>c
  <2> DEFINE u == tr[s][p][k]
  <2>3. s \in 0 .. last
    BY LastIs
  <2>4. u \in NodeValues(tr, col, s, p)
    BY <2>3, NodeIs
  <2>5. u.token = p /\ u \in Located(tr, s)
    BY <2>4 DEF NodeValues, Located
  <2> HIDE DEF u
  <2>6. v = NextStep(s, [value |-> u, index |-> k], v.token, score)
    BY <2>2 DEF u
  <2>7. /\ v.last_step = s /\ v.prev = u.token /\ v.sub_index = k
        /\ v.length = u.length + problem.length[v.token] /\ v.poss = u.poss + score
    BY <2>6 DEF NextStep
  <2>8. u = tr[v.last_step][v.prev][v.sub_index]
    BY <2>5, <2>7 DEF u
  <2> QED
    BY <1>3, <1>5, <2>c, <2>5, <2>7, <2>8
<1> QED
  BY <1>4, <1>5

\* What extract_result computes, with the value it is at after each step.
AreSteps(tail, back) ==
    /\ back[0] = [at |-> tail, words |-> <<>>]
    /\ \A k \in 1 .. last :
          back[k] = IF back[k - 1].at.last_step = -1 THEN back[k - 1]
                    ELSE [at |-> trellis[back[k - 1].at.last_step][back[k - 1].at.prev][back[k - 1].at.sub_index],
                          words |-> <<[start |-> back[k - 1].at.last_step, token |-> back[k - 1].at.token]>>
                                       \o back[k - 1].words]
    /\ \A k \in 0 .. last : back[k].words \in Seq([start : Nat, token : Tokens])

LEMMA ExtractedSteps ==
    ASSUME problem \in Problems, TrellisIs(trellis, column), NEW tail \in Located(trellis, last)
    PROVE  \E back : AreSteps(tail, back) /\ Extracted(tail) = back[last].words
<1> DEFINE Word == [start : Nat, token : Tokens]
           All == UNION {Located(trellis, i) : i \in 0 .. last}
           A == [at : All, words : Seq(Word)]
           a == [at |-> tail, words |-> <<>>]
           Body(old) ==
             IF old.at.last_step = -1 THEN old
             ELSE [at |-> trellis[old.at.last_step][old.at.prev][old.at.sub_index],
                   words |-> <<[start |-> old.at.last_step, token |-> old.at.token]>> \o old.words]
           Step == [k \in 1 .. last |-> [old \in A |-> Body(old)]]
           Eq(back) == back = [k \in 0 .. last |-> IF k = 0 THEN a ELSE Body(back[k - 1])]
           function == CHOOSE back : Eq(back)
<1>0. last \in Nat
  BY LastIs
<1>a. Extracted(tail) = function[last].words
  BY DEF Extracted
<1>1. a \in A
  <2>1. last \in 0 .. last
    BY <1>0
  <2> QED
    BY <2>1
<1>2. ASSUME NEW old \in A PROVE Body(old) \in A
  <2> DEFINE at == old.at
             words == old.words
  <2>1. at \in All /\ words \in Seq(Word)
    OBVIOUS
  <2>2. PICK i \in 0 .. last : at \in Located(trellis, i)
    BY <2>1
  <2> HIDE DEF at, words, All
  <2>3. CASE at.last_step = -1
    BY <2>3 DEF at
  <2>4. CASE at.last_step # -1
    <3>1. /\ at \in Value
          /\ i # 0 /\ at.last_step \in 0 .. i - 1
          /\ trellis[at.last_step][at.prev][at.sub_index] \in Located(trellis, at.last_step)
      <4>1. at # PrefixValue(at.token)
        BY <2>4 DEF PrefixValue
      <4> QED
        BY <2>2, <4>1, StepBack
    <3>2. at.last_step \in Nat /\ at.last_step \in 0 .. last
      BY <1>0, <3>1
    <3>3. trellis[at.last_step][at.prev][at.sub_index] \in All
      BY <3>1, <3>2 DEF All
    <3>4. [start |-> at.last_step, token |-> at.token] \in Word
      BY <3>1, <3>2 DEF Value
    <3> HIDE DEF Word
    <3>5. <<[start |-> at.last_step, token |-> at.token]>> \o words \in Seq(Word)
      BY <2>1, <3>4
    <3> QED
      BY <2>4, <3>3, <3>5 DEF at, words
  <2> QED
    BY <2>3, <2>4
<1>3. Step \in [1 .. last -> [A -> A]]
  <2> HIDE DEF A, Body
  <2> QED
    BY <1>2
<1>4. Recursions(last, A, a, Step) # {}
  <2> HIDE DEF Step, A, a
  <2> QED
    BY <1>0, <1>1, <1>3, RecursionUpTo
<1> HIDE DEF A, a, Body
<1>5. PICK back \in [0 .. last -> A] :
         back[0] = a /\ \A k \in 1 .. last : back[k] = Step[k][back[k - 1]]
  BY <1>4 DEF Recursions
<1>6. \A k \in 1 .. last : back[k] = Body(back[k - 1]) /\ back[k - 1] \in A
  <2>1. \A k \in 1 .. last : back[k - 1] \in A
    BY <1>0
  <2> QED
    BY <1>5, <2>1
<1> HIDE DEF Step
<1>7. Eq(back)
  <2>1. \A k \in 0 .. last : back[k] = IF k = 0 THEN a ELSE Body(back[k - 1])
    BY <1>0, <1>5, <1>6
  <2>2. back = [k \in 0 .. last |-> back[k]]
    OBVIOUS
  <2> QED
    BY <2>1, <2>2
<1>8. Eq(function)
  <2> HIDE DEF Eq
  <2> QED
    BY <1>7
<1>b. Extracted(tail) = function[last].words
  BY <1>a DEF Body, a
<1> HIDE DEF function
<1>9. function[last] = back[last]
  <2> DEFINE T == {k \in 0 .. last : function[k] = back[k]}
  <2>1. 0 \in T
    BY <1>0, <1>7, <1>8
  <2>2. ASSUME NEW k \in 1 .. last, k - 1 \in T PROVE k \in T
    <3>1. k \in 0 .. last /\ k # 0
      BY <1>0
    <3>2. back[k] = Body(back[k - 1]) /\ function[k] = Body(function[k - 1])
      BY <1>7, <1>8, <3>1
    <3> QED
      BY <2>2, <3>1, <3>2
  <2> HIDE DEF T
  <2>3. 0 .. last \subseteq T
    BY <1>0, <2>1, <2>2, InductionUpTo
  <2>4. last \in T
    BY <1>0, <2>3
  <2> QED
    BY <2>4 DEF T
<1>10. AreSteps(tail, back)
  <2>1. back[0] = [at |-> tail, words |-> <<>>]
    BY <1>5 DEF a
  <2>2. \A k \in 1 .. last : back[k] = Body(back[k - 1])
    BY <1>6
  <2>3. \A k \in 0 .. last : back[k].words \in Seq(Word)
    BY <1>5 DEF A
  <2> QED
    BY <2>1, <2>2, <2>3 DEF AreSteps, Body
<1> QED
  BY <1>9, <1>10, <1>b

\* Word by word in front of the words already found.
LEMMA WordInFront ==
    ASSUME NEW V, NEW s \in Seq(V), NEW x \in V, NEW t \in Seq(V)
    PROVE  Append(s, x) \o t = s \o (<<x>> \o t)
OBVIOUS

\* The words that are found belong to a chain, and it has the length and the score of
\* the value.
LEMMA ExtractedIs ==
    ASSUME problem \in Problems, TrellisIs(trellis, column), NEW tail \in Located(trellis, last)
    PROVE  \E chain \in Chains[last] : chain.words = Extracted(tail) /\ Fits(chain, tail)
<1> DEFINE Word == [start : Nat, token : Tokens]
<1>0. last \in Nat
  BY LastIs
<1>1. PICK back : AreSteps(tail, back) /\ Extracted(tail) = back[last].words
  BY ExtractedSteps
<1> DEFINE Completed(chain, words) ==
             \E longer \in Chains[last] : longer.words = chain.words \o words /\ Fits(longer, tail)
           IsAt(e, b) == /\ b.at \in Located(trellis, e)
                       /\ \A chain \in Chains[e] : Fits(chain, b.at) => Completed(chain, b.words)
           T == {k \in 0 .. last : \E e \in 0 .. last - k : IsAt(e, back[k])}
<1>2. 0 \in T
  <2>1. back[0].at = tail /\ back[0].words = <<>>
    BY <1>1 DEF AreSteps
  <2>2. ASSUME NEW chain \in Chains[last], Fits(chain, tail) PROVE Completed(chain, <<>>)
    <3>1. chain.words \in Seq(Word)
      <4>1. last \in 0 .. last
        BY <1>0
      <4> QED
        BY <4>1, ChainsAre DEF Chain
    <3>2. chain.words \o <<>> = chain.words
      BY <3>1
    <3> QED
      BY <2>2, <3>2
  <2> HIDE DEF Completed
  <2>3. IsAt(last, back[0])
    BY <2>1, <2>2
  <2>4. last \in 0 .. last - 0 /\ 0 \in 0 .. last
    BY <1>0
  <2> HIDE DEF IsAt
  <2> QED
    BY <2>3, <2>4
<1>3. ASSUME NEW k \in 1 .. last, k - 1 \in T PROVE k \in T
  <2> DEFINE b == back[k - 1]
  <2>1. PICK e \in 0 .. last - (k - 1) : IsAt(e, b)
    BY <1>3
  <2>2. /\ k \in 0 .. last /\ k - 1 \in 0 .. last /\ e \in 0 .. last /\ e <= last - (k - 1)
        /\ 0 \in 0 .. last - k
    BY <1>0
  <2>3. /\ b.words \in Seq(Word)
        /\ back[k] = IF b.at.last_step = -1 THEN b
                     ELSE [at |-> trellis[b.at.last_step][b.at.prev][b.at.sub_index],
                           words |-> <<[start |-> b.at.last_step, token |-> b.at.token]>> \o b.words]
    BY <1>1, <2>2 DEF AreSteps
  <2> HIDE DEF b
  <2>4. b.at \in Located(trellis, e)
    BY <2>1
  <2>5. CASE b.at.last_step = -1
    <3>1. e = 0
      <4>1. e # 0 => b.at.last_step \in 0 .. e - 1
        BY <2>2, <2>4, StepBack
      <4> QED
        BY <2>2, <2>5, <4>1
    <3>2. back[k] = b
      BY <2>3, <2>5
    <3> HIDE DEF IsAt
    <3> QED
      BY <2>1, <2>2, <3>1, <3>2
  <2>6. CASE b.at.last_step # -1
    <3> DEFINE s == b.at.last_step
               x == [start |-> s, token |-> b.at.token]
    <3>1. b.at # PrefixValue(b.at.token)
      BY <2>6 DEF PrefixValue
    <3>2. /\ b.at \in Value /\ e # 0 /\ s \in 0 .. e - 1 /\ b.at.token \in WordsBetween(s, e)
          /\ \E u \in Located(trellis, s) : \E score \in StepScores(u.token, b.at.token) :
                /\ u = trellis[s][b.at.prev][b.at.sub_index]
                /\ b.at.length = u.length + problem.length[b.at.token]
                /\ b.at.poss = u.poss + score
      BY <2>2, <2>4, <3>1, StepBack
    <3>a. PICK u \in Located(trellis, s) : \E score \in StepScores(u.token, b.at.token) :
             /\ u = trellis[s][b.at.prev][b.at.sub_index]
             /\ b.at.length = u.length + problem.length[b.at.token]
             /\ b.at.poss = u.poss + score
      BY <3>2
    <3>3. PICK score \in StepScores(u.token, b.at.token) :
             /\ u = trellis[s][b.at.prev][b.at.sub_index]
             /\ b.at.length = u.length + problem.length[b.at.token]
             /\ b.at.poss = u.poss + score
      BY <3>a
    <3>4. back[k] = [at |-> u, words |-> <<x>> \o b.words]
      BY <2>3, <2>6, <3>3
    <3>5. s \in 0 .. last - k /\ s \in Nat /\ e \in 1 .. last
      BY <1>0, <2>2, <3>2
    <3>6. x \in Word
      BY <3>2, <3>5 DEF Value
    <3> HIDE DEF s
    <3>7. ASSUME NEW chain \in Chains[s], Fits(chain, u) PROVE Completed(chain, <<x>> \o b.words)
      <4> DEFINE longer == [words |-> Append(chain.words, [start |-> chain.end, token |-> b.at.token]),
                            end |-> e, token |-> b.at.token,
                            length |-> chain.length + problem.length[b.at.token],
                            poss |-> chain.poss + score]
      <4>1. s \in 0 .. last
        BY <1>0, <2>2, <3>5
      <4>2. chain.words \in Seq(Word) /\ chain.end = s
        BY <4>1, ChainsAre DEF Chain
      <4>3. longer \in Longer(chain, e, b.at.token)
        <5>1. chain.token = u.token
          BY <3>7 DEF Fits
        <5> QED
          BY <3>3, <5>1 DEF Longer
      <4>4. s \in 0 .. e - 1
        BY <3>2 DEF s
      <4>5. longer \in Chains[e]
        <5> HIDE DEF longer
        <5>1. b.at.token \in WordsBetween(s, e)
          BY <3>2 DEF s
        <5> QED
          BY <3>5, <4>3, <4>4, <5>1, ChainsAre
      <4>6. Fits(longer, b.at)
        BY <3>3, <3>7 DEF Fits
      <4>7. longer.words = Append(chain.words, x)
        BY <4>2
      <4> HIDE DEF longer, x, Word
      <4>8. Completed(longer, b.words)
        BY <2>1, <4>5, <4>6
      <4>9. Append(chain.words, x) \o b.words = chain.words \o (<<x>> \o b.words)
        <5>1. \A w \in Seq(Word) : \A y \in Word : \A z \in Seq(Word) :
                 Append(w, y) \o z = w \o (<<y>> \o z)
          BY WordInFront
        <5>2. chain.words \in Seq(Word) /\ x \in Word /\ b.words \in Seq(Word)
          BY <2>3, <3>6, <4>2
        <5> QED
          BY <5>1, <5>2
      <4> QED
        BY <4>7, <4>8, <4>9
    <3> HIDE DEF Completed, x
    <3> DEFINE found == <<x>> \o b.words
    <3>b. \A chain \in Chains[s] : Fits(chain, u) => Completed(chain, found)
      BY <3>7
    <3> HIDE DEF found
    <3>c. back[k].at = u /\ back[k].words = found
      BY <3>4 DEF found
    <3>8. IsAt(s, back[k])
      BY <3>a, <3>b, <3>c
    <3> HIDE DEF IsAt
    <3> QED
      BY <2>2, <3>5, <3>8
  <2> QED
    BY <2>5, <2>6
<1>4. last \in T
  <2> HIDE DEF T
  <2>1. 0 .. last \subseteq T
    BY <1>0, <1>2, <1>3, InductionUpTo
  <2>2. last \in 0 .. last
    BY <1>0
  <2> QED
    BY <2>1, <2>2
\* After as many steps as there are columns, the first column is reached.
<1>5. PICK e \in 0 .. last - last : IsAt(e, back[last])
  BY <1>4
<1>6. e = 0
  BY <1>0
<1> DEFINE v == back[last].at
           chain == [words |-> <<>>, end |-> 0, token |-> v.token, length |-> 0, poss |-> 0]
<1>7. v \in Located(trellis, 0)
  BY <1>5, <1>6
<1>8. v.token \in problem.prefixes /\ v = PrefixValue(v.token)
  <2>1. 0 \in 0 .. last /\ (0 # 0 <=> FALSE)
    BY <1>0
  <2> QED
    BY <1>7, <2>1, StepBack
<1>9. v.length = 0 /\ v.poss = 0
  BY <1>8 DEF PrefixValue
<1>10. chain \in Chains[0] /\ Fits(chain, v)
  BY <1>8, <1>9, ChainsAre DEF Fits
<1>11. back[last].words \in Seq(Word)
  <2>1. last \in 0 .. last
    BY <1>0
  <2> QED
    BY <1>1, <2>1 DEF AreSteps
<1>12. chain.words \o back[last].words = back[last].words
  BY <1>11
<1>13. Completed(chain, back[last].words)
  <2> HIDE DEF chain, Completed
  <2> QED
    BY <1>5, <1>6, <1>10
<1> QED
  BY <1>1, <1>12, <1>13

-----------------------------------------------------------------------------
(* One column of the search. *)

LEMMA NodesGrow ==
    ASSUME NEW V, NEW W, V \subseteq W
    PROVE  Nodes(V) \subseteq Nodes(W)
BY DEF Nodes

\* What a node may hold it may hold later: the columns the search is through with stay.
LEMMA ValuesGrow ==
    ASSUME problem \in Problems, NEW col \in Nat, NEW tr, NEW tr2, NEW col2 \in Nat, col <= col2,
           \A s \in 0 .. last : s < col => tr2[s] = tr[s],
           NEW i \in 0 .. last, NEW t
    PROVE  NodeValues(tr, col, i, t) \subseteq NodeValues(tr2, col2, i, t)
<1> SUFFICES ASSUME NEW v \in NodeValues(tr, col, i, t) PROVE v \in NodeValues(tr2, col2, i, t)
  OBVIOUS
<1>1. CASE i = 0
  BY <1>1 DEF NodeValues
<1>2. CASE i # 0
  <2>1. Linked(tr, col, i, v)
    BY <1>2 DEF NodeValues
  <2>2. PICK s \in 0 .. i - 1 : \E p \in DOMAIN tr[s] : \E k \in DOMAIN tr[s][p] :
          /\ s < col /\ v.token \in WordsBetween(s, i)
          /\ \E score \in StepScores(p, v.token) :
                v = NextStep(s, [value |-> tr[s][p][k], index |-> k], v.token, score)
    BY <2>1 DEF Linked
  <2>3. s \in 0 .. last
    BY LastIs
  <2>4. tr2[s] = tr[s] /\ s < col2
    BY <2>2, <2>3
  <2>5. Linked(tr2, col2, i, v)
    BY <2>2, <2>4 DEF Linked
  <2> QED
    BY <1>2, <2>5 DEF NodeValues
<1> QED
  BY <1>1, <1>2

\* The values found in a column, and that there are some if there is a node.
LEMMA CandidatesAre ==
    ASSUME problem \in Problems, NEW tr, NEW col, TrellisIs(tr, col), NEW s \in 0 .. last
    PROVE  /\ IsFiniteSet(Candidates(tr[s]))
           /\ DOMAIN tr[s] # {} => Candidates(tr[s]) # {}
           /\ \A t \in DOMAIN tr[s] : [value |-> tr[s][t][1], index |-> 1] \in Candidates(tr[s])
           /\ \A c \in Candidates(tr[s]) :
                 /\ c.value \in NodeValues(tr, col, s, c.value.token)
                 /\ c.value.token \in DOMAIN tr[s] /\ c.index \in DOMAIN tr[s][c.value.token]
                 /\ c.index \in Nat
                 /\ c = [value |-> tr[s][c.value.token][c.index], index |-> c.index]
<1>1. IsFiniteSet(DOMAIN tr[s])
  BY DEF TrellisIs
<1>2. \A t \in DOMAIN tr[s] : /\ \E m \in Nat : DOMAIN tr[s][t] = 1 .. m
                              /\ 1 \in DOMAIN tr[s][t]
                              /\ \A k \in DOMAIN tr[s][t] : tr[s][t][k] \in NodeValues(tr, col, s, t)
  BY NodeIs
<1>3. IsFiniteSet(Candidates(tr[s]))
  BY <1>1, <1>2, CandidatesFinite
<1>4. \A t \in DOMAIN tr[s] : [value |-> tr[s][t][1], index |-> 1] \in Candidates(tr[s])
  BY <1>2 DEF Candidates
<1>5. ASSUME NEW c \in Candidates(tr[s])
      PROVE  /\ c.value \in NodeValues(tr, col, s, c.value.token)
             /\ c.value.token \in DOMAIN tr[s] /\ c.index \in DOMAIN tr[s][c.value.token]
             /\ c.index \in Nat
             /\ c = [value |-> tr[s][c.value.token][c.index], index |-> c.index]
  <2>1. PICK t \in DOMAIN tr[s] : \E k \in DOMAIN tr[s][t] : c = [value |-> tr[s][t][k], index |-> k]
    BY DEF Candidates
  <2>2. PICK k \in DOMAIN tr[s][t] : c = [value |-> tr[s][t][k], index |-> k]
    BY <2>1
  <2>3. k \in Nat
    BY <1>2
  <2>4. tr[s][t][k] \in NodeValues(tr, col, s, t)
    BY <1>2
  <2>5. tr[s][t][k].token = t
    BY <2>4 DEF NodeValues
  <2> QED
    BY <2>2, <2>3, <2>4, <2>5
<1> QED
  BY <1>3, <1>4, <1>5

\* The value of a step from a column is one its word's node may hold.
LEMMA NewValue ==
    ASSUME problem \in Problems, NEW tr, NEW col \in 0 .. last, TrellisIs(tr, col),
           NEW i \in col + 1 .. last, NEW from \in Candidates(tr[col]),
           NEW t \in WordsBetween(col, i), NEW score \in StepScores(from.value.token, t),
           NEW tr2, tr2[col] = tr[col]
    PROVE  NextStep(col, from, t, score) \in NodeValues(tr2, col + 1, i, t)
<1> DEFINE u == from.value
           p == u.token
           v == NextStep(col, from, t, score)
<1>0. last \in Nat /\ col \in Nat /\ i \in 0 .. last /\ i \in 1 .. last /\ i # 0 /\ col \in 0 .. i - 1 /\ col < col + 1
  BY LastIs
<1>1. /\ u \in NodeValues(tr, col, col, p)
      /\ p \in DOMAIN tr[col] /\ from.index \in DOMAIN tr[col][p] /\ from.index \in Nat
      /\ from = [value |-> tr[col][p][from.index], index |-> from.index]
  BY CandidatesAre
<1>2. u \in Value
  BY <1>1 DEF NodeValues
<1>3. t \in Tokens /\ problem.length[t] \in Nat /\ score \in Int
  BY WordsAre, ScoresAre
<1>4. v \in Value /\ v.token = t
  BY <1>0, <1>1, <1>2, <1>3 DEF NextStep, Value
<1>5. Linked(tr2, col + 1, i, v)
  <2> HIDE DEF p
  <2>1. from = [value |-> tr2[col][p][from.index], index |-> from.index]
    BY <1>1
  <2>2. score \in StepScores(p, v.token) /\ v.token \in WordsBetween(col, i)
    BY <1>4 DEF p
  <2>3. v = NextStep(col, [value |-> tr2[col][p][from.index], index |-> from.index], v.token, score)
    BY <1>4, <2>1
  <2> HIDE DEF v
  <2>4. p \in DOMAIN tr2[col] /\ from.index \in DOMAIN tr2[col][p]
    BY <1>1
  <2> QED
    BY <1>0, <2>2, <2>3, <2>4 DEF Linked
<1>6. \E chain \in Chains[i] : Fits(chain, v)
  <2>1. PICK chain \in Chains[col] : Fits(chain, u)
    BY <1>1 DEF NodeValues
  <2> DEFINE longer == [words |-> Append(chain.words, [start |-> chain.end, token |-> t]),
                        end |-> i, token |-> t,
                        length |-> chain.length + problem.length[t], poss |-> chain.poss + score]
  <2>2. longer \in Longer(chain, i, t)
    <3>1. chain.token = p
      BY <2>1 DEF Fits
    <3> QED
      BY <3>1 DEF Longer
  <2>3. longer \in Chains[i]
    <3> HIDE DEF longer
    <3> QED
      BY <1>0, <2>2, ChainsAre
  <2>4. Fits(longer, v)
    BY <2>1 DEF Fits, NextStep
  <2> QED
    BY <2>3, <2>4
<1> HIDE DEF v
<1>7. v \in NodeValues(tr2, col + 1, i, t)
  BY <1>0, <1>4, <1>5, <1>6 DEF NodeValues
<1> QED
  BY <1>7 DEF v

\* With one value to a node, or if all chains to a column are as long, less is less good.
LEMMA OrderedIs ==
    ASSUME problem \in Problems, lookup.nstore \in {1, 2}, Ordered,
           NEW tr, NEW col, NEW i \in 0 .. last
    PROVE  /\ \A t : IsOrder(NodeValues(tr, col, i, t))
           /\ \A t, t2 : \A a \in NodeValues(tr, col, i, t) : \A b \in NodeValues(tr, col, i, t2) :
                 Less(lookup.nstore, a, b) <=> Better(b, a)
<1>1. ASSUME NEW t, NEW a \in NodeValues(tr, col, i, t) PROVE Typed(a)
  BY DEF NodeValues, Value, Typed
<1>2. ASSUME NEW t, NEW t2, NEW a \in NodeValues(tr, col, i, t), NEW b \in NodeValues(tr, col, i, t2)
      PROVE  Less(lookup.nstore, a, b) <=> Better(b, a)
  <2>1. a.length \in Int /\ b.length \in Int /\ a.poss \in Int /\ b.poss \in Int
    BY <1>1 DEF Typed
  <2>2. CASE lookup.nstore = 1
    BY <2>1, <2>2 DEF Less, Better
  <2>3. CASE lookup.nstore = 2
    <3>1. PICK c \in Chains[i] : Fits(c, a)
      BY DEF NodeValues
    <3>2. PICK d \in Chains[i] : Fits(d, b)
      BY DEF NodeValues
    <3>3. c.length = d.length
      BY <2>3 DEF Ordered, OneLength
    <3>4. a.length = b.length
      BY <3>1, <3>2, <3>3 DEF Fits
    <3> QED
      BY <2>1, <3>4 DEF Less, Better
  <2> QED
    BY <2>2, <2>3
<1> QED
  BY <1>1, <1>2 DEF IsOrder

\* A word's node after the column: first the bigrams, then the unigram.
LEMMA WordNode ==
    ASSUME lookup.nstore \in {1, 2}, NEW V, NEW node \in Nodes(V),
           NEW start, NEW top, Len(top) \in Nat, NEW token,
           \A k \in 1 .. Len(top) : <<top[k].value.token, token>> \in DOMAIN problem.bigram =>
              NextStep(start, top[k], token, problem.bigram[<<top[k].value.token, token>>]) \in V,
           token \in DOMAIN problem.unigram =>
              NextStep(start, top[1], token, problem.unigram[token]) \in V
    PROVE  LET new == AfterUnigram(AfterBigrams(node, start, top, token), start, top, token)
           IN  /\ new \in Nodes(V)
               /\ IsOrder(V) /\ FrontIsBest(node) =>
                     /\ FrontIsBest(new)
                     /\ \A k \in 1 .. Len(top) :
                           <<top[k].value.token, token>> \in DOMAIN problem.bigram =>
                              NoWorse(NextStep(start, top[k], token,
                                               problem.bigram[<<top[k].value.token, token>>]), new)
                     /\ token \in DOMAIN problem.unigram =>
                           NoWorse(NextStep(start, top[1], token, problem.unigram[token]), new)
                     /\ \A a : Typed(a) /\ NoWorse(a, node) => NoWorse(a, new)
<1> DEFINE n == Len(top)
           pair == [k \in 1 .. n |-> <<top[k].value.token, token>>]
           item == [k \in 1 .. n |-> NextStep(start, top[k], token, problem.bigram[pair[k]])]
           middle == AfterBigrams(node, start, top, token)
           new == AfterUnigram(middle, start, top, token)
           HasPair == token \in DOMAIN problem.unigram
           last_item == NextStep(start, top[1], token, problem.unigram[token])
<1>1. AreBigrams(V, start, top, token, pair, item)
  BY DEF AreBigrams
<1>2. \A k \in 1 .. n : /\ pair[k] = <<top[k].value.token, token>>
                        /\ item[k] = NextStep(start, top[k], token,
                                              problem.bigram[<<top[k].value.token, token>>])
  OBVIOUS
<1>3. new = IF HasPair THEN EvalItem(lookup.nstore, middle, last_item) ELSE middle
  BY DEF AfterUnigram
<1>4. HasPair => last_item \in V
  OBVIOUS
<1> HIDE DEF pair, item, new, HasPair, last_item
<1>5. /\ middle \in Nodes(V)
      /\ IsOrder(V) /\ FrontIsBest(node) =>
            /\ FrontIsBest(middle)
            /\ \A k \in 1 .. n : pair[k] \in DOMAIN problem.bigram => NoWorse(item[k], middle)
            /\ \A a : Typed(a) /\ NoWorse(a, node) => NoWorse(a, middle)
  BY <1>1, AfterBigramsKeep
<1>6. \A k \in 1 .. n : pair[k] \in DOMAIN problem.bigram => item[k] \in V
  BY <1>1 DEF AreBigrams
<1> HIDE DEF middle, n
<1>7. /\ new \in Nodes(V)
      /\ IsOrder(V) /\ FrontIsBest(middle) =>
            /\ FrontIsBest(new) /\ (HasPair => NoWorse(last_item, new))
            /\ \A a : Typed(a) /\ NoWorse(a, middle) => NoWorse(a, new)
  <2>1. CASE HasPair
    BY <1>3, <1>4, <1>5, <2>1, EvalItemNode
  <2>2. CASE ~HasPair
    BY <1>3, <1>5, <2>2
  <2> QED
    BY <2>1, <2>2
<1>8. ASSUME IsOrder(V), FrontIsBest(node)
      PROVE  /\ FrontIsBest(new)
             /\ \A k \in 1 .. n : pair[k] \in DOMAIN problem.bigram => NoWorse(item[k], new)
             /\ HasPair => NoWorse(last_item, new)
             /\ \A a : Typed(a) /\ NoWorse(a, node) => NoWorse(a, new)
  <2>1. \A v \in V : Typed(v)
    BY <1>8 DEF IsOrder
  <2> QED
    BY <1>5, <1>6, <1>7, <1>8, <2>1
<1>9. ASSUME IsOrder(V), FrontIsBest(node), NEW k \in 1 .. n,
             <<top[k].value.token, token>> \in DOMAIN problem.bigram
      PROVE  NoWorse(NextStep(start, top[k], token,
                              problem.bigram[<<top[k].value.token, token>>]), new)
  BY <1>2, <1>8, <1>9
<1>10. /\ new \in Nodes(V)
       /\ IsOrder(V) /\ FrontIsBest(node) =>
             /\ FrontIsBest(new)
             /\ \A k \in 1 .. n :
                   <<top[k].value.token, token>> \in DOMAIN problem.bigram =>
                      NoWorse(NextStep(start, top[k], token,
                                       problem.bigram[<<top[k].value.token, token>>]), new)
             /\ HasPair => NoWorse(last_item, new)
             /\ \A a : Typed(a) /\ NoWorse(a, node) => NoWorse(a, new)
  BY <1>7, <1>8, <1>9
<1> QED
  BY <1>10 DEF n, new, HasPair, last_item, middle

\* What a later column holds after this one.
LEMMA SavedIs ==
    ASSUME problem \in Problems, lookup \in Lookups, NEW tr, NEW col \in 0 .. last,
           TrellisIs(tr, col), DOMAIN tr[col] # {},
           NEW top \in TopResults(lookup.nstore, tr[col], nbeam), NEW i \in col + 1 .. last,
           NEW tr2, \A s \in 0 .. last : s <= col => tr2[s] = tr[s]
    PROVE  LET new == Saved(tr[i], col, i, top)
           IN  /\ IsFiniteSet(DOMAIN new)
               /\ \A t \in DOMAIN new : /\ new[t] \in Nodes(NodeValues(tr2, col + 1, i, t))
                                        /\ new[t] # <<>>
               /\ Ordered /\ FrontsAreBest(tr) =>
                     /\ \A t \in DOMAIN new : FrontIsBest(new[t])
                     /\ \A t \in DOMAIN tr[i] : \A a : Typed(a) /\ NoWorse(a, tr[i][t]) =>
                           t \in DOMAIN new /\ NoWorse(a, new[t])
                     /\ \A t \in WordsBetween(col, i) : \A k \in 1 .. Len(top) :
                           <<top[k].value.token, t>> \in DOMAIN problem.bigram =>
                              /\ t \in DOMAIN new
                              /\ NoWorse(NextStep(col, top[k], t,
                                                  problem.bigram[<<top[k].value.token, t>>]), new[t])
                     /\ \A t \in WordsBetween(col, i) : t \in DOMAIN problem.unigram =>
                           /\ t \in DOMAIN new
                           /\ NoWorse(NextStep(col, top[1], t, problem.unigram[t]), new[t])
<1> DEFINE nodes == tr[i]
           words == WordsBetween(col, i)
           V(t) == NodeValues(tr2, col + 1, i, t)
           old(t) == IF t \in DOMAIN nodes THEN nodes[t] ELSE <<>>
           word(t) == AfterUnigram(AfterBigrams(old(t), col, top, t), col, top, t)
           next(t) == IF t \notin words THEN old(t) ELSE word(t)
           D == {u \in DOMAIN nodes \cup words : next(u) # <<>>}
           new == Saved(nodes, col, i, top)
           Bigram(k, t) == <<top[k].value.token, t>> \in DOMAIN problem.bigram
           AfterB(k, t) == NextStep(col, top[k], t, problem.bigram[<<top[k].value.token, t>>])
           AfterU(t) == NextStep(col, top[1], t, problem.unigram[t])
           InOrder == Ordered /\ FrontsAreBest(tr)
<1>0. /\ last \in Nat /\ col \in Nat /\ i \in 0 .. last /\ col <= col + 1 /\ col + 1 \in Nat
      /\ \A s \in Nat : s < col => s <= col
      /\ lookup.nstore \in {1, 2} /\ nbeam \in Nat \ {0}
  BY LastIs, NBestTrellisAssumption
<1>1. new = [t \in D |-> next(t)]
  BY DEF Saved
<1>2. ASSUME NEW t PROVE NodeValues(tr, col, i, t) \subseteq V(t)
  <2>1. \A s \in 0 .. last : s < col => tr2[s] = tr[s]
    BY <1>0
  <2> QED
    BY <1>0, <2>1, ValuesGrow
<1>3. ASSUME NEW t PROVE old(t) \in Nodes(V(t))
  <2>1. CASE t \in DOMAIN nodes
    <3>1. nodes[t] \in Nodes(NodeValues(tr, col, i, t))
      BY <1>0, <2>1 DEF TrellisIs
    <3> HIDE DEF nodes, V
    <3>2. nodes[t] \in Nodes(V(t))
      BY <1>2, <3>1, NodesGrow
    <3> QED
      BY <2>1, <3>2
  <2>2. CASE t \notin DOMAIN nodes
    <3>1. Len(<<>>) <= lookup.nstore
      BY <1>0
    <3>2. \A W : <<>> \in Seq(W)
      OBVIOUS
    <3> HIDE DEF V
    <3>3. <<>> \in Nodes(V(t))
      BY <3>1, <3>2 DEF Nodes
    <3> QED
      BY <2>2, <3>3
  <2> QED
    BY <2>1, <2>2
<1>4. ASSUME FrontsAreBest(tr), NEW t PROVE FrontIsBest(old(t))
  <2>1. CASE t \in DOMAIN nodes
    BY <1>0, <1>4, <2>1 DEF FrontsAreBest, FrontIsBest
  <2>2. CASE t \notin DOMAIN nodes
    BY <2>2 DEF FrontIsBest
  <2> QED
    BY <2>1, <2>2
<1>5. /\ Len(top) \in Nat /\ 1 \in 1 .. Len(top)
      /\ \A k \in 1 .. Len(top) : top[k] \in Candidates(tr[col])
  <2>1. IsFiniteSet(Candidates(tr[col])) /\ Candidates(tr[col]) # {}
    BY CandidatesAre
  <2> QED
    BY <1>0, <2>1, TopIs
<1>6. ASSUME NEW t \in words, NEW k \in 1 .. Len(top), Bigram(k, t) PROVE AfterB(k, t) \in V(t)
  <2>1. problem.bigram[<<top[k].value.token, t>>] \in StepScores(top[k].value.token, t)
    BY <1>6 DEF StepScores
  <2>2. tr2[col] = tr[col] /\ top[k] \in Candidates(tr[col])
    BY <1>5
  <2> QED
    BY <2>1, <2>2, NewValue
<1>7. ASSUME NEW t \in words, t \in DOMAIN problem.unigram PROVE AfterU(t) \in V(t)
  <2>1. problem.unigram[t] \in StepScores(top[1].value.token, t)
    BY <1>7 DEF StepScores
  <2>2. tr2[col] = tr[col] /\ top[1] \in Candidates(tr[col])
    BY <1>5
  <2> QED
    BY <2>1, <2>2, NewValue
<1>8. ASSUME NEW t \in words
      PROVE  /\ word(t) \in Nodes(V(t))
             /\ IsOrder(V(t)) /\ FrontIsBest(old(t)) =>
                   /\ FrontIsBest(word(t))
                   /\ \A k \in 1 .. Len(top) : Bigram(k, t) => NoWorse(AfterB(k, t), word(t))
                   /\ t \in DOMAIN problem.unigram => NoWorse(AfterU(t), word(t))
                   /\ \A a : Typed(a) /\ NoWorse(a, old(t)) => NoWorse(a, word(t))
  <2>1. old(t) \in Nodes(V(t))
    BY <1>3
  <2> HIDE DEF V, old
  <2> QED
    BY <1>0, <1>5, <1>6, <1>7, <2>1, WordNode
<1> HIDE DEF V, word, AfterB, AfterU, Bigram
<1>9. ASSUME NEW t PROVE next(t) \in Nodes(V(t))
  <2> HIDE DEF old
  <2> QED
    BY <1>3, <1>8
<1>10. ASSUME InOrder, NEW t
       PROVE  /\ FrontIsBest(next(t))
              /\ \A a : Typed(a) /\ NoWorse(a, old(t)) => NoWorse(a, next(t))
              /\ t \in words => /\ \A k \in 1 .. Len(top) : Bigram(k, t) => NoWorse(AfterB(k, t), next(t))
                                /\ t \in DOMAIN problem.unigram => NoWorse(AfterU(t), next(t))
  <2>1. IsOrder(V(t))
    BY <1>0, <1>10, OrderedIs DEF V
  <2>2. FrontIsBest(old(t))
    BY <1>4, <1>10
  <2> HIDE DEF old
  <2>3. CASE t \in words
    BY <1>8, <2>1, <2>2, <2>3
  <2>4. CASE t \notin words
    BY <2>2, <2>4
  <2> QED
    BY <2>3, <2>4
<1>11. IsFiniteSet(D)
  <2>1. IsFiniteSet(DOMAIN nodes) /\ IsFiniteSet(words)
    BY <1>0, WordsAre DEF TrellisIs
  <2>2. IsFiniteSet(DOMAIN nodes \cup words)
    BY <2>1, FS_Union
  <2>3. D \in SUBSET (DOMAIN nodes \cup words)
    OBVIOUS
  <2> HIDE DEF D
  <2> QED
    BY <2>2, <2>3, FS_Subset
<1>12. \A t \in DOMAIN nodes : old(t) = nodes[t]
  OBVIOUS
<1>13. \A t \in DOMAIN nodes \cup words : next(t) # <<>> => t \in D
  OBVIOUS
<1>14. DOMAIN new = D /\ \A t \in D : new[t] = next(t) /\ next(t) # <<>>
  <2> HIDE DEF new, next
  <2> QED
    BY <1>1
<1> HIDE DEF new, next, D, old
<1>15. /\ IsFiniteSet(DOMAIN new)
       /\ \A t \in DOMAIN new : new[t] \in Nodes(V(t)) /\ new[t] # <<>>
  BY <1>9, <1>11, <1>14
<1>16. ASSUME InOrder
       PROVE  /\ \A t \in DOMAIN new : FrontIsBest(new[t])
              /\ \A t \in DOMAIN nodes : \A a : Typed(a) /\ NoWorse(a, nodes[t]) =>
                    t \in DOMAIN new /\ NoWorse(a, new[t])
              /\ \A t \in words : \A k \in 1 .. Len(top) : Bigram(k, t) =>
                    t \in DOMAIN new /\ NoWorse(AfterB(k, t), new[t])
              /\ \A t \in words : t \in DOMAIN problem.unigram =>
                    t \in DOMAIN new /\ NoWorse(AfterU(t), new[t])
  <2>1. \A t \in DOMAIN nodes \cup words : \A a : NoWorse(a, next(t)) =>
           t \in DOMAIN new /\ NoWorse(a, new[t])
    BY <1>13, <1>14 DEF NoWorse
  <2>2. \A t \in DOMAIN new : FrontIsBest(new[t])
    BY <1>10, <1>14, <1>16
  <2>3. ASSUME NEW t \in DOMAIN nodes, NEW a, Typed(a), NoWorse(a, nodes[t])
        PROVE  t \in DOMAIN new /\ NoWorse(a, new[t])
    BY <1>10, <1>12, <1>16, <2>1, <2>3
  <2>4. ASSUME NEW t \in words, NEW k \in 1 .. Len(top), Bigram(k, t)
        PROVE  t \in DOMAIN new /\ NoWorse(AfterB(k, t), new[t])
    BY <1>10, <1>16, <2>1, <2>4
  <2>5. ASSUME NEW t \in words, t \in DOMAIN problem.unigram
        PROVE  t \in DOMAIN new /\ NoWorse(AfterU(t), new[t])
    BY <1>10, <1>16, <2>1, <2>5
  <2> QED
    BY <2>2, <2>3, <2>4, <2>5
<1> QED
  BY <1>15, <1>16 DEF new, V, AfterB, AfterU, Bigram

\* Every chain to a column the search is through with has a value there that is no worse.
LEMMA BestSoFar ==
    ASSUME problem \in Problems, NEW tr, NEW col \in Nat, TrellisIs(tr, col), Covered(tr, col),
           NEW i \in 0 .. last, i <= col, NEW chain \in Chains[i]
    PROVE  /\ Typed(chain) /\ chain.token \in DOMAIN tr[i]
           /\ NoWorse(chain, tr[i][chain.token])
<1>0. last \in Nat /\ chain \in Chain /\ Typed(chain)
  <2>1. last \in Nat /\ chain \in Chain
    BY LastIs, ChainsAre
  <2>2. chain.length \in Nat /\ chain.poss \in Int
    BY <2>1 DEF Chain
  <2> QED
    BY <2>1, <2>2 DEF Typed
<1>1. ASSUME chain.token \in DOMAIN tr[i], ~Better(chain, tr[i][chain.token][1])
      PROVE  NoWorse(chain, tr[i][chain.token])
  BY <1>1 DEF TrellisIs, NoWorse
<1>2. CASE i = 0
  <2>1. PICK t \in problem.prefixes :
          chain = [words |-> <<>>, end |-> 0, token |-> t, length |-> 0, poss |-> 0]
    BY <1>2, ChainsAre
  <2>2. t \in DOMAIN tr[0] /\ chain.token = t
    BY <2>1 DEF Covered
  <2>3. tr[0][t][1] \in NodeValues(tr, col, 0, t)
    BY <1>2, <2>2, NodeIs
  <2>4. tr[0][t][1] = PrefixValue(t)
    BY <2>3 DEF NodeValues
  <2>5. ~Better(chain, tr[0][t][1])
    BY <2>1, <2>4 DEF Better, PrefixValue
  <2> QED
    BY <1>0, <1>1, <1>2, <2>2, <2>5
<1>3. CASE i # 0
  <2>1. i \in 1 .. last
    BY <1>3
  <2>2. PICK s \in 0 .. i - 1 : \E c \in Chains[s] : \E t \in WordsBetween(s, i) :
          chain \in Longer(c, i, t)
    BY <2>1, ChainsAre
  <2>3. PICK c \in Chains[s], t \in WordsBetween(s, i) : chain \in Longer(c, i, t)
    BY <2>2
  <2>4. chain.token = t
    BY <2>3 DEF Longer
  <2>5. s \in 0 .. last /\ s < col /\ i \in s + 1 .. last
    BY <1>0, <2>1
  <2>6. t \in DOMAIN tr[i] /\ ~Better(chain, tr[i][t][1])
    BY <2>3, <2>5 DEF Covered
  <2> QED
    BY <1>0, <1>1, <2>4, <2>6
<1> QED
  BY <1>2, <1>3

\* One step more keeps the order.
LEMMA StepsKeepOrder ==
    ASSUME NEW c, NEW u, Typed(c), Typed(u), ~Better(c, u), NEW length \in Int, NEW score \in Int,
           NEW d, NEW e,
           d.length = c.length + length, d.poss = c.poss + score,
           e.length = u.length + length, e.poss = u.poss + score
    PROVE  Typed(d) /\ Typed(e) /\ ~Better(d, e)
<1>1. c.length \in Int /\ c.poss \in Int /\ u.length \in Int /\ u.poss \in Int
  BY DEF Typed
<1>2. d.length \in Int /\ d.poss \in Int /\ e.length \in Int /\ e.poss \in Int
  BY <1>1
<1>3. /\ d.length < e.length => c.length < u.length
      /\ d.length = e.length => c.length = u.length
      /\ d.poss > e.poss => c.poss > u.poss
  <2>1. PICK x1 \in Int, x2 \in Int, x3 \in Int, x4 \in Int :
          x1 = c.length /\ x2 = c.poss /\ x3 = u.length /\ x4 = u.poss
    BY <1>1
  <2>2. d.length = x1 + length /\ d.poss = x2 + score /\ e.length = x3 + length /\ e.poss = x4 + score
    BY <2>1
  <2>3. /\ x1 + length < x3 + length => x1 < x3
        /\ x1 + length = x3 + length => x1 = x3
        /\ x2 + score > x4 + score => x2 > x4
    OBVIOUS
  <2> QED
    BY <2>1, <2>2, <2>3
<1>4. ~Better(d, e)
  BY <1>3 DEF Better
<1> QED
  BY <1>2, <1>4 DEF Typed

\* A chain to the column, one word longer, has a value there as well, for each score.
LEMMA LongerIsNoBetter ==
    ASSUME problem \in Problems, lookup \in Lookups, NEW tr, NEW col \in 0 .. last, col < last,
           TrellisIs(tr, col), DOMAIN tr[col] # {},
           NEW top \in TopResults(lookup.nstore, tr[col], nbeam), NEW i \in col + 1 .. last,
           NEW tr2, \A s \in 0 .. last : s <= col => tr2[s] = tr[s],
           Ordered, FrontsAreBest(tr), Covered(tr, col),
           Cardinality(Candidates(tr[col])) <= nbeam,
           NEW chain \in Chains[col], NEW t \in WordsBetween(col, i),
           NEW longer \in Longer(chain, i, t)
    PROVE  LET new == Saved(tr[i], col, i, top)
           IN  t \in DOMAIN new /\ NoWorse(longer, new[t])
<1> DEFINE new == Saved(tr[i], col, i, top)
           p == chain.token
           u == tr[col][p][1]
           best == top[1].value
           from == [value |-> u, index |-> 1]
           IsStep(e, w, score) == /\ e.length = w.length + problem.length[t]
                                  /\ e.poss = w.poss + score
<1> SUFFICES t \in DOMAIN new /\ NoWorse(longer, new[t])
  OBVIOUS
<1>0. col \in Nat /\ i \in 0 .. last /\ lookup.nstore \in {1, 2} /\ nbeam \in Nat \ {0} /\ col <= col
  BY LastIs, NBestTrellisAssumption
<1>1. Typed(chain) /\ p \in DOMAIN tr[col] /\ ~Better(chain, u)
  BY <1>0, BestSoFar DEF NoWorse
<1>2. /\ IsFiniteSet(Candidates(tr[col])) /\ Candidates(tr[col]) # {}
      /\ from \in Candidates(tr[col])
      /\ \A c \in Candidates(tr[col]) : c.value \in NodeValues(tr, col, col, c.value.token)
  BY <1>1, CandidatesAre
<1>3. u \in NodeValues(tr, col, col, p) /\ u.token = p
  <2>1. 1 \in DOMAIN tr[col][p]
    BY <1>1, NodeIs
  <2>2. u \in NodeValues(tr, col, col, p)
    BY <1>1, <2>1, NodeIs
  <2> QED
    BY <2>2 DEF NodeValues
<1> HIDE DEF u
<1>4. \A c \in Candidates(tr[col]) : Typed(c.value)
  BY <1>0, <1>2, OrderedIs DEF IsOrder
<1>5. \A a, b \in Candidates(tr[col]) :
         Less(lookup.nstore, a.value, b.value) <=> Better(b.value, a.value)
  BY <1>0, <1>2, OrderedIs
<1>6. \A a, b \in Candidates(tr[col]) :
         ~(Less(lookup.nstore, a.value, b.value) /\ Less(lookup.nstore, b.value, a.value))
  BY <1>4, <1>5 DEF Better, Typed
<1>7. /\ 1 \in 1 .. Len(top) /\ top[1] \in Candidates(tr[col])
      /\ \E k \in 1 .. Len(top) : top[k] = from
      /\ ~Less(lookup.nstore, top[1].value, from.value)
  <2> DEFINE found == Candidates(tr[col])
             Asym == \A a, b \in found : ~(/\ Less(lookup.nstore, a.value, b.value)
                                         /\ Less(lookup.nstore, b.value, a.value))
             First1 == \A b \in found : 1 \in 1 .. Len(top) =>
                                         ~Less(lookup.nstore, top[1].value, b.value)
  <2>a. IsFiniteSet(Candidates(tr[col])) /\ nbeam \in Nat \ {0}
    BY <1>0, <1>2
  <2>b. \A k \in 1 .. Len(top) : top[k] \in found
    BY <2>a, TopIs
  <2>c. found # {} => 1 \in 1 .. Len(top)
    BY <2>a, TopIs
  <2>d. \A c \in found : \E k \in 1 .. Len(top) : top[k] = c
    BY <2>a, TopHasAll
  <2>1. /\ \A k \in 1 .. Len(top) : top[k] \in found
        /\ 1 \in 1 .. Len(top)
        /\ \A c \in found : \E k \in 1 .. Len(top) : top[k] = c
    BY <1>2, <2>b, <2>c, <2>d
  <2>2. Asym => First1
    BY <2>a, TopIs
  <2>3. Asym
    BY <1>6
  <2>4. First1
    <3> HIDE DEF Asym, First1
    <3> QED
      BY <2>2, <2>3
  <2> HIDE DEF from
  <2> QED
    BY <1>2, <2>1, <2>4
<1>8. PICK k \in 1 .. Len(top) : top[k] = from
  BY <1>7
<1>9. Typed(u) /\ Typed(best) /\ ~Better(u, best)
  BY <1>2, <1>4, <1>5, <1>7
<1>10. ~Better(chain, best)
  BY <1>1, <1>9, NotBetterTransitive
<1>11. PICK score \in StepScores(p, t) :
          longer = [words |-> Append(chain.words, [start |-> chain.end, token |-> t]),
                    end |-> i, token |-> t,
                    length |-> chain.length + problem.length[t], poss |-> chain.poss + score]
  BY DEF Longer
<1>12. score \in Int /\ problem.length[t] \in Int
  BY ScoresAre, WordsAre
<1>13. /\ longer.length = chain.length + problem.length[t] /\ longer.poss = chain.poss + score
  BY <1>11
<1>14. /\ \A t2 \in DOMAIN new : new[t2] \in Nodes(NodeValues(tr2, col + 1, i, t2)) /\ new[t2] # <<>>
       /\ <<top[k].value.token, t>> \in DOMAIN problem.bigram =>
             /\ t \in DOMAIN new
             /\ NoWorse(NextStep(col, top[k], t, problem.bigram[<<top[k].value.token, t>>]), new[t])
       /\ t \in DOMAIN problem.unigram =>
             t \in DOMAIN new /\ NoWorse(NextStep(col, top[1], t, problem.unigram[t]), new[t])
  BY SavedIs
<1> HIDE DEF new, best
<1>15. ASSUME NEW e, NEW w, Typed(w), ~Better(chain, w), t \in DOMAIN new, NoWorse(e, new[t]),
              IsStep(e, w, score)
       PROVE  t \in DOMAIN new /\ NoWorse(longer, new[t])
  <2>1. Typed(longer) /\ Typed(e) /\ ~Better(longer, e)
    BY <1>1, <1>12, <1>13, <1>15, StepsKeepOrder
  <2>2. Typed(new[t][1])
    <3> DEFINE V == NodeValues(tr2, col + 1, i, t)
               node == new[t]
    <3>1. node \in Seq(V) /\ node # <<>>
      BY <1>14, <1>15 DEF Nodes
    <3>2. IsOrder(V)
      BY <1>0, OrderedIs
    <3> HIDE DEF V, node
    <3>3. PICK m \in Nat : m = Len(node)
      BY <3>1, SeqIs
    <3>4. m # 0 /\ \A j \in 1 .. m : node[j] \in V
      BY <3>1, <3>3, SeqIs
    <3>5. node[1] \in V
      BY <3>3, <3>4
    <3> QED
      BY <3>2, <3>5 DEF IsOrder, node
  <2>3. ~Better(e, new[t][1])
    BY <1>15 DEF NoWorse
  <2>4. ~Better(longer, new[t][1])
    BY <2>1, <2>2, <2>3, NotBetterTransitive
  <2> QED
    BY <1>14, <1>15, <2>4 DEF NoWorse
<1>16. CASE <<p, t>> \in DOMAIN problem.bigram /\ score = problem.bigram[<<p, t>>]
  <2> DEFINE e == NextStep(col, top[k], t, score)
  <2>1. top[k].value = u /\ top[k].value.token = p
    BY <1>3, <1>8
  <2>2. IsStep(e, u, score)
    BY <2>1 DEF NextStep
  <2>3. t \in DOMAIN new /\ NoWorse(e, new[t])
    BY <1>14, <1>16, <2>1
  <2> HIDE DEF e, IsStep, new
  <2> QED
    BY <1>1, <1>9, <1>15, <2>2, <2>3
<1>17. CASE t \in DOMAIN problem.unigram /\ score = problem.unigram[t]
  <2> DEFINE e == NextStep(col, top[1], t, score)
  <2>1. IsStep(e, best, score)
    BY DEF NextStep, best
  <2>2. t \in DOMAIN new /\ NoWorse(e, new[t])
    BY <1>14, <1>17
  <2> HIDE DEF e, IsStep, new
  <2> QED
    BY <1>9, <1>10, <1>15, <2>1, <2>2
<1>18. \/ <<p, t>> \in DOMAIN problem.bigram /\ score = problem.bigram[<<p, t>>]
       \/ t \in DOMAIN problem.unigram /\ score = problem.unigram[t]
  BY <1>11 DEF StepScores
<1> QED
  BY <1>16, <1>17, <1>18

\* One column keeps what the trellis is.
LEMMA ColumnStep ==
    ASSUME problem \in Problems, lookup \in Lookups, NEW tr, NEW col \in 0 .. last, col < last,
           TrellisIs(tr, col), DOMAIN tr[col] # {},
           NEW top \in TopResults(lookup.nstore, tr[col], nbeam),
           NEW tr2, tr2 = [i \in DOMAIN tr |-> IF i > col THEN Saved(tr[i], col, i, top) ELSE tr[i]]
    PROVE  /\ TrellisIs(tr2, col + 1)
           /\ Ordered /\ FrontsAreBest(tr) =>
                 /\ FrontsAreBest(tr2)
                 /\ Covered(tr, col) /\ Cardinality(Candidates(tr[col])) <= nbeam =>
                       Covered(tr2, col + 1)
<1>0. /\ last \in Nat /\ col \in Nat /\ col + 1 \in Nat /\ col <= col + 1 /\ DOMAIN tr = 0 .. last
      /\ lookup.nstore \in {1, 2}
  BY LastIs, NBestTrellisAssumption DEF TrellisIs
<1>1. /\ DOMAIN tr2 = 0 .. last
      /\ \A i \in 0 .. last : i <= col => tr2[i] = tr[i]
      /\ \A i \in col + 1 .. last : tr2[i] = Saved(tr[i], col, i, top)
  <2>1. \A i \in 0 .. last : (i <= col => ~(i > col)) /\ (i \in col + 1 .. last => i > col)
    BY <1>0
  <2>2. col + 1 .. last \subseteq 0 .. last
    BY <1>0
  <2> QED
    BY <1>0, <2>1, <2>2
<1>2. \A i \in 0 .. last : i <= col \/ i \in col + 1 .. last
  BY <1>0
<1>3. ASSUME NEW i \in col + 1 .. last
      PROVE  /\ IsFiniteSet(DOMAIN tr2[i])
             /\ \A t \in DOMAIN tr2[i] : /\ tr2[i][t] \in Nodes(NodeValues(tr2, col + 1, i, t))
                                         /\ tr2[i][t] # <<>>
             /\ Ordered /\ FrontsAreBest(tr) =>
                   /\ \A t \in DOMAIN tr2[i] : FrontIsBest(tr2[i][t])
                   /\ \A t \in DOMAIN tr[i] : \A a : Typed(a) /\ NoWorse(a, tr[i][t]) =>
                         t \in DOMAIN tr2[i] /\ NoWorse(a, tr2[i][t])
  <2>1. tr2[i] = Saved(tr[i], col, i, top)
    BY <1>1
  <2>2. \A s \in 0 .. last : s <= col => tr2[s] = tr[s]
    BY <1>1
  <2> DEFINE new == Saved(tr[i], col, i, top)
  <2>3. /\ IsFiniteSet(DOMAIN new)
        /\ \A t \in DOMAIN new : /\ new[t] \in Nodes(NodeValues(tr2, col + 1, i, t))
                                 /\ new[t] # <<>>
        /\ Ordered /\ FrontsAreBest(tr) =>
              /\ \A t \in DOMAIN new : FrontIsBest(new[t])
              /\ \A t \in DOMAIN tr[i] : \A a : Typed(a) /\ NoWorse(a, tr[i][t]) =>
                    t \in DOMAIN new /\ NoWorse(a, new[t])
    BY <2>2, SavedIs
  <2>4. tr2[i] = new
    BY <2>1
  <2> HIDE DEF new
  <2> QED
    BY <2>3, <2>4
<1>4. TrellisIs(tr2, col + 1)
  <2>1. ASSUME NEW i \in 0 .. last
        PROVE  /\ IsFiniteSet(DOMAIN tr2[i])
               /\ \A t \in DOMAIN tr2[i] : /\ tr2[i][t] \in Nodes(NodeValues(tr2, col + 1, i, t))
                                           /\ tr2[i][t] # <<>>
    <3>1. CASE i <= col
      <4>1. tr2[i] = tr[i] /\ IsFiniteSet(DOMAIN tr[i])
        BY <1>1, <3>1 DEF TrellisIs
      <4>2. ASSUME NEW t \in DOMAIN tr[i]
            PROVE  tr[i][t] \in Nodes(NodeValues(tr2, col + 1, i, t)) /\ tr[i][t] # <<>>
        <5>1. tr[i][t] \in Nodes(NodeValues(tr, col, i, t)) /\ tr[i][t] # <<>>
          BY DEF TrellisIs
        <5>2. \A s \in 0 .. last : s < col => tr2[s] = tr[s]
          BY <1>0, <1>1
        <5>3. NodeValues(tr, col, i, t) \subseteq NodeValues(tr2, col + 1, i, t)
          BY <1>0, <5>2, ValuesGrow
        <5> QED
          BY <5>1, <5>3, NodesGrow
      <4> QED
        BY <4>1, <4>2
    <3>2. CASE i \in col + 1 .. last
      BY <1>3, <3>2
    <3> QED
      BY <1>2, <3>1, <3>2
  <2> QED
    BY <1>1, <2>1 DEF TrellisIs
<1>5. ASSUME Ordered, FrontsAreBest(tr) PROVE FrontsAreBest(tr2)
  <2>1. ASSUME NEW i \in 0 .. last, NEW t \in DOMAIN tr2[i]
        PROVE  \A k \in DOMAIN tr2[i][t] : ~Better(tr2[i][t][k], tr2[i][t][1])
    <3>1. CASE i <= col
      BY <1>1, <1>5, <3>1 DEF FrontsAreBest
    <3>2. CASE i \in col + 1 .. last
      <4>1. FrontIsBest(tr2[i][t])
        BY <1>3, <1>5, <3>2
      <4> QED
        BY <4>1 DEF FrontIsBest
    <3> QED
      BY <1>2, <3>1, <3>2
  <2> QED
    BY <2>1 DEF FrontsAreBest
<1>6. ASSUME Ordered, FrontsAreBest(tr), Covered(tr, col), Cardinality(Candidates(tr[col])) <= nbeam
      PROVE  Covered(tr2, col + 1)
  <2>1. \A t \in problem.prefixes : t \in DOMAIN tr2[0]
    <3>1. 0 \in 0 .. last /\ 0 <= col
      BY <1>0
    <3> QED
      BY <1>1, <1>6, <3>1 DEF Covered
  <2>2. ASSUME NEW s \in 0 .. last, s < col + 1, NEW chain \in Chains[s], NEW i \in s + 1 .. last,
               NEW t \in WordsBetween(s, i), NEW longer \in Longer(chain, i, t)
        PROVE  t \in DOMAIN tr2[i] /\ ~Better(longer, tr2[i][t][1])
    <3>1. i \in 0 .. last /\ i \in Nat /\ (s < col \/ s = col)
      BY <1>0, <2>2
    <3>2. CASE s < col
      <4>1. t \in DOMAIN tr[i] /\ ~Better(longer, tr[i][t][1])
        BY <1>6, <3>2 DEF Covered
      <4>2. CASE i <= col
        BY <1>1, <3>1, <4>1, <4>2
      <4>3. CASE i \in col + 1 .. last
        <5>1. chain \in Chain /\ chain.end = s
          BY ChainsAre
        <5>2. longer \in Chain
          BY <3>1, <5>1, LongerIs
        <5>3. longer.length \in Int /\ longer.poss \in Int
          BY <5>2 DEF Chain
        <5>4. NoWorse(longer, tr[i][t])
          BY <3>1, <4>1 DEF NoWorse, TrellisIs
        <5>5. t \in DOMAIN tr2[i] /\ NoWorse(longer, tr2[i][t])
          BY <1>3, <1>6, <4>1, <4>3, <5>3, <5>4 DEF Typed
        <5> QED
          BY <5>5 DEF NoWorse
      <4> QED
        BY <1>2, <3>1, <4>2, <4>3
    <3>3. CASE s = col
      <4>1. i \in col + 1 .. last /\ tr2[i] = Saved(tr[i], col, i, top)
        BY <1>1, <3>3
      <4>2. t \in DOMAIN tr2[i] /\ NoWorse(longer, tr2[i][t])
        <5>1. \A s2 \in 0 .. last : s2 <= col => tr2[s2] = tr[s2]
          BY <1>1
        <5>2. /\ chain \in Chains[col] /\ t \in WordsBetween(col, i)
              /\ longer \in Longer(chain, i, t)
          BY <3>3
        <5> QED
          BY <1>6, <4>1, <5>1, <5>2, LongerIsNoBetter, SMTT(20)
      <4> QED
        BY <4>2 DEF NoWorse
    <3> QED
      BY <3>1, <3>2, <3>3
  <2> QED
    BY <2>1, <2>2 DEF Covered
<1> QED
  BY <1>4, <1>5, <1>6

\* A column without nodes has no chains, and the next column is searched.
LEMMA EmptyColumn ==
    ASSUME problem \in Problems, NEW tr, NEW col \in 0 .. last, TrellisIs(tr, col), DOMAIN tr[col] = {}
    PROVE  /\ TrellisIs(tr, col + 1)
           /\ Covered(tr, col) => Covered(tr, col + 1)
<1>0. last \in Nat /\ col \in Nat /\ col + 1 \in Nat /\ col <= col + 1 /\ col <= col
  BY LastIs
<1>1. \A i \in 0 .. last : \A t : NodeValues(tr, col, i, t) \subseteq NodeValues(tr, col + 1, i, t)
  BY <1>0, ValuesGrow
<1>2. ASSUME NEW i \in 0 .. last, NEW t \in DOMAIN tr[i]
      PROVE  tr[i][t] \in Nodes(NodeValues(tr, col + 1, i, t)) /\ tr[i][t] # <<>>
  <2>1. tr[i][t] \in Nodes(NodeValues(tr, col, i, t)) /\ tr[i][t] # <<>>
    BY DEF TrellisIs
  <2> QED
    BY <1>1, <2>1, NodesGrow
<1>3. TrellisIs(tr, col + 1)
  BY <1>2 DEF TrellisIs
<1>4. ASSUME Covered(tr, col) PROVE Covered(tr, col + 1)
  <2>1. Chains[col] = {}
    <3>1. ASSUME NEW chain \in Chains[col] PROVE FALSE
      <4>1. chain.token \in DOMAIN tr[col]
        BY <1>0, <1>4, BestSoFar
      <4> QED
        BY <4>1
    <3> QED
      BY <3>1
  <2>2. \A s \in 0 .. last : s < col + 1 => s < col \/ Chains[s] = {}
    <3>1. \A s \in 0 .. last : s < col + 1 => s < col \/ s = col
      BY <1>0
    <3> QED
      BY <2>1, <3>1
  <2> QED
    BY <1>4, <2>2 DEF Covered
<1> QED
  BY <1>3, <1>4

\* A problem does not change, nor does what depends on it alone.
LEMMA ProblemStays ==
    ASSUME problem' = problem, lookup' = lookup
    PROVE  /\ last' = last /\ Chains' = Chains /\ (Ordered' <=> Ordered)
           /\ TrellisIs(trellis, column)' <=> TrellisIs(trellis', column')
           /\ FrontsAreBest(trellis)' <=> FrontsAreBest(trellis')
           /\ Covered(trellis, column)' <=> Covered(trellis', column')
<1>1. last' = last
  BY DEF last
<1>2. Chains' = Chains
  BY DEF Chains, Longer, StepScores, WordsBetween, last
<1>3. Ordered' <=> Ordered
  BY <1>1, <1>2 DEF Ordered
<1>4. FrontsAreBest(trellis)' <=> FrontsAreBest(trellis')
  BY <1>1 DEF FrontsAreBest
<1>5. Covered(trellis, column)' <=> Covered(trellis', column')
  BY <1>1, <1>2 DEF Covered, WordsBetween, Longer, StepScores
<1>6. Value' = Value
  BY DEF Value, Tokens
<1>7. TrellisIs(trellis, column)' <=> TrellisIs(trellis', column')
  BY <1>1, <1>2, <1>6 DEF TrellisIs, Nodes, NodeValues, Linked, WordsBetween, StepScores, NextStep
<1> QED
  BY <1>1, <1>2, <1>3, <1>4, <1>5, <1>7

-----------------------------------------------------------------------------
(* The sentences. *)

LEMMA RoundedDifference ==
    ASSUME NEW w \in Nat \ {0}, NEW a \in Nat
    PROVE  a \div w \in Nat
OBVIOUS

\* The tails of the sentences are values of the last column, and the first of them is
\* no worse than any chain.
LEMMA TailsAre ==
    ASSUME problem \in Problems, lookup \in Lookups, NEW tr, NEW col \in Nat, last <= col,
           TrellisIs(tr, col), NEW top \in TopResults(lookup.nstore, tr[last], lookup.nbest),
           NEW tails, tails = Sorted([k \in DOMAIN top |-> top[k].value])
    PROVE  /\ \E n \in Nat : DOMAIN tails = 1 .. n
           /\ \A k \in DOMAIN tails : tails[k] \in Located(tr, last)
           /\ Ordered /\ Covered(tr, col) /\ FrontsAreBest(tr) /\ Chains[last] # {} =>
                 1 \in DOMAIN tails /\ \A chain \in Chains[last] : ~Better(chain, tails[1])
<1> DEFINE values == [k \in DOMAIN top |-> top[k].value]
           R == {top[k].value : k \in 1 .. Len(top)}
           found == Candidates(tr[last])
<1>0. /\ last \in Nat /\ last \in 0 .. last
      /\ lookup.nstore \in {1, 2} /\ lookup.nbest \in 1 .. 3 /\ lookup.nbest \in Nat \ {0}
      /\ lookup.nstore = 1 => lookup.nbest = 1
      /\ Unit \in Nat \ {0}
  BY LastIs, NBestTrellisAssumption
<1>1. /\ IsFiniteSet(found)
      /\ DOMAIN tr[last] # {} => found # {}
      /\ \A t \in DOMAIN tr[last] : [value |-> tr[last][t][1], index |-> 1] \in found
      /\ \A c \in found : /\ c.value \in NodeValues(tr, col, last, c.value.token)
                          /\ c.value.token \in DOMAIN tr[last]
                          /\ c.index \in DOMAIN tr[last][c.value.token]
                          /\ c = [value |-> tr[last][c.value.token][c.index], index |-> c.index]
  BY <1>0, CandidatesAre
<1>2. /\ Len(top) \in Nat /\ DOMAIN top = 1 .. Len(top)
      /\ \A k \in 1 .. Len(top) : top[k] \in found
      /\ Len(top) <= lookup.nbest
      /\ found # {} => 1 \in 1 .. Len(top)
  <2>1. IsFiniteSet(Candidates(tr[last])) /\ lookup.nbest \in Nat \ {0}
    BY <1>0, <1>1
  <2>2. Len(top) \in Nat /\ DOMAIN top = 1 .. Len(top)
    BY <2>1, TopIs
  <2>3. \A k \in 1 .. Len(top) : top[k] \in found
    BY <2>1, TopIs
  <2>4. Len(top) <= lookup.nbest
    BY <2>1, TopIs
  <2>5. found # {} => 1 \in 1 .. Len(top)
    BY <2>1, TopIs
  <2> QED
    BY <2>2, <2>3, <2>4, <2>5
<1>3. ASSUME NEW c \in found PROVE c.value \in Located(tr, last)
  <2>1. /\ c.value.token \in DOMAIN tr[last] /\ c.index \in DOMAIN tr[last][c.value.token]
        /\ c.value = tr[last][c.value.token][c.index]
    BY <1>1
  <2> QED
    BY <2>1 DEF Located
<1>4. /\ values \in Seq(R) /\ Len(values) = Len(top)
      /\ \A k \in 1 .. Len(top) : values[k] = top[k].value
  <2> DEFINE n == Len(top)
  <2>1. values = [k \in 1 .. n |-> top[k].value] /\ n \in Nat
    BY <1>2
  <2>2. values \in [1 .. n -> R]
    BY <2>1
  <2> HIDE DEF n, R, values
  <2>3. values \in Seq(R) /\ Len(values) = n
    BY <2>1, <2>2
  <2> QED
    BY <2>1, <2>3 DEF n
<1>5. /\ tails \in Seq(R) /\ Len(tails) = Len(top)
      /\ Len(top) # 0 /\ (\A x \in R : Compare(values[1], x) <= 0) => tails[1] = values[1]
  <2>1. tails = Sorted(values)
    OBVIOUS
  <2> HIDE DEF values, R
  <2> QED
    BY <1>4, <2>1, SortedIs
<1>6. /\ DOMAIN tails = 1 .. Len(top)
      /\ \A k \in DOMAIN tails : tails[k] \in R
  <2> HIDE DEF R
  <2> QED
    BY <1>5, SeqIs
<1>7. \A x \in R : \E c \in found : x = c.value
  BY <1>2
<1>8. \A k \in DOMAIN tails : tails[k] \in Located(tr, last)
  <2> HIDE DEF R
  <2> QED
    BY <1>3, <1>6, <1>7
<1>9. ASSUME Ordered, Covered(tr, col), FrontsAreBest(tr), NEW some \in Chains[last]
      PROVE  1 \in DOMAIN tails /\ \A chain \in Chains[last] : ~Better(chain, tails[1])
  <2> DEFINE best == top[1].value
  <2>1. DOMAIN tr[last] # {}
    BY <1>0, <1>9, BestSoFar
  <2>2. 1 \in 1 .. Len(top) /\ 1 \in DOMAIN tails /\ top[1] \in found /\ Len(top) # 0
    BY <1>1, <1>2, <1>6, <2>1
  <2>3. \A c \in found : Typed(c.value)
    BY <1>0, <1>1, <1>9, OrderedIs DEF IsOrder
  <2>4. \A a, b \in found : Less(lookup.nstore, a.value, b.value) <=> Better(b.value, a.value)
    BY <1>0, <1>1, <1>9, OrderedIs
  <2> DEFINE Asym == \A a, b \in found : ~(/\ Less(lookup.nstore, a.value, b.value)
                                         /\ Less(lookup.nstore, b.value, a.value))
             First1 == \A b \in found : 1 \in 1 .. Len(top) =>
                                         ~Less(lookup.nstore, top[1].value, b.value)
  <2>5. Asym => First1
    BY <1>0, <1>1, TopIs
  <2>6. Asym
    BY <2>3, <2>4 DEF Better, Typed
  <2>7. First1
    <3> HIDE DEF Asym, First1
    <3> QED
      BY <2>5, <2>6
  <2>8. \A c \in found : ~Better(c.value, best)
    BY <2>2, <2>4, <2>7
  <2>9. \A x \in R : Compare(best, x) <= 0
    <3>1. ASSUME NEW k \in 1 .. Len(top) PROVE Compare(best, top[k].value) <= 0
      <4> DEFINE x == top[k].value
      <4>1. Typed(best) /\ Typed(x) /\ ~Better(x, best)
        BY <1>2, <2>2, <2>3, <2>8
      <4>2. best.poss - x.poss \in Nat
        <5>1. CASE lookup.nstore = 1
          <6>1. k = 1
            BY <1>0, <1>2, <5>1
          <6> QED
            BY <4>1, <6>1 DEF Typed
        <5>2. CASE lookup.nstore = 2
          <6>1. best \in NodeValues(tr, col, last, best.token) /\ x \in NodeValues(tr, col, last, x.token)
            BY <1>1, <1>2, <2>2
          <6>2. PICK c \in Chains[last] : Fits(c, best)
            BY <6>1 DEF NodeValues
          <6>3. PICK d \in Chains[last] : Fits(d, x)
            BY <6>1 DEF NodeValues
          <6>4. c.length = d.length
            BY <1>0, <1>9, <5>2 DEF Ordered, OneLength
          <6>5. best.length = x.length
            BY <6>2, <6>3, <6>4 DEF Fits
          <6> HIDE DEF best, x
          <6> QED
            BY <4>1, <6>5 DEF Better, Typed
        <5> QED
          BY <1>0, <5>1, <5>2
      <4> HIDE DEF best, x
      <4>3. (best.poss - x.poss) \div Unit \in Nat
        BY <1>0, <4>2, RoundedDifference
      <4>4. Compare(best, x) = -((best.poss - x.poss) \div Unit)
        BY <4>2 DEF Compare
      <4>5. Compare(best, x) <= 0
        BY <4>3, <4>4
      <4> QED
        BY <4>5 DEF x
    <3> QED
      BY <3>1
  <2>10. tails[1] = best
    <3>1. values[1] = best
      BY <1>4, <2>2
    <3> HIDE DEF values, R, best
    <3> QED
      BY <1>5, <2>2, <2>9, <3>1
  <2>11. ASSUME NEW chain \in Chains[last] PROVE ~Better(chain, best)
    <3> DEFINE u == tr[last][chain.token][1]
               from == [value |-> u, index |-> 1]
    <3>1. Typed(chain) /\ chain.token \in DOMAIN tr[last] /\ NoWorse(chain, tr[last][chain.token])
      BY <1>0, <1>9, BestSoFar
    <3>2. ~Better(chain, u) /\ from \in found
      BY <1>1, <3>1 DEF NoWorse
    <3>3. from.value = u
      OBVIOUS
    <3> HIDE DEF from, u
    <3>4. Typed(u) /\ ~Better(u, best) /\ Typed(best)
      BY <2>2, <2>3, <2>8, <3>2, <3>3
    <3> HIDE DEF best
    <3> QED
      BY <3>1, <3>2, <3>4, NotBetterTransitive
  <2> QED
    BY <2>2, <2>10, <2>11
<1> HIDE DEF values, R, found
<1>10. \E n \in Nat : DOMAIN tails = 1 .. n
  BY <1>2, <1>6
<1> QED
  BY <1>8, <1>9, <1>10

-----------------------------------------------------------------------------
(* The theorems. *)

LEMMA InitTrellis == Init => TrellisInv
<1> SUFFICES ASSUME Init PROVE TrellisInv
  OBVIOUS
<1>0. /\ problem \in Problems /\ lookup \in Lookups /\ column = 0 /\ results = <<>>
      /\ last \in Nat /\ problem.size = last + 1 /\ 0 \in 0 .. problem.size
      /\ lookup.nstore \in {1, 2} /\ IsFiniteSet(problem.prefixes)
  BY LastIs, NBestTrellisAssumption DEF Init
<1>1. /\ DOMAIN trellis = 0 .. last
      /\ trellis[0] = [t \in problem.prefixes |-> <<PrefixValue(t)>>]
      /\ \A i \in 0 .. last : i # 0 => DOMAIN trellis[i] = {}
  BY <1>0 DEF Init, last
<1>2. ASSUME NEW t \in problem.prefixes PROVE PrefixValue(t) \in NodeValues(trellis, 0, 0, t)
  <2> DEFINE v == PrefixValue(t)
             chain == [words |-> <<>>, end |-> 0, token |-> t, length |-> 0, poss |-> 0]
  <2>1. v \in Value /\ v.token = t
    BY DEF Value, Tokens, PrefixValue
  <2>2. chain \in Chains[0]
    BY <1>0, ChainsAre
  <2>3. Fits(chain, v)
    BY DEF Fits, PrefixValue
  <2> HIDE DEF v, chain
  <2>4. v = PrefixValue(t)
    BY DEF v
  <2> QED
    BY <2>1, <2>2, <2>3, <2>4 DEF NodeValues
<1>3. TrellisIs(trellis, 0)
  <2>1. ASSUME NEW i \in 0 .. last
        PROVE  /\ IsFiniteSet(DOMAIN trellis[i])
               /\ \A t \in DOMAIN trellis[i] : /\ trellis[i][t] \in Nodes(NodeValues(trellis, 0, i, t))
                                               /\ trellis[i][t] # <<>>
    <3>1. CASE i # 0
      BY <1>1, <3>1, FS_EmptySet
    <3>2. CASE i = 0
      <4>1. DOMAIN trellis[i] = problem.prefixes
        BY <1>1, <3>2
      <4>2. ASSUME NEW t \in problem.prefixes
            PROVE  trellis[0][t] \in Nodes(NodeValues(trellis, 0, 0, t)) /\ trellis[0][t] # <<>>
        <5> DEFINE v == PrefixValue(t)
                   V == NodeValues(trellis, 0, 0, t)
        <5>1. trellis[0][t] = <<v>> /\ v \in V
          BY <1>1, <1>2
        <5> HIDE DEF v, V
        <5>2. <<v>> \in Seq(V) /\ Len(<<v>>) = 1 /\ <<v>> # <<>>
          BY <5>1
        <5>3. Len(<<v>>) <= lookup.nstore
          BY <1>0, <5>2
        <5> QED
          BY <5>1, <5>2, <5>3 DEF Nodes, V
      <4> QED
        BY <1>0, <3>2, <4>1, <4>2
    <3> QED
      BY <3>1, <3>2
  <2> QED
    BY <1>1, <2>1 DEF TrellisIs
<1>4. FrontsAreBest(trellis)
  <2>1. ASSUME NEW i \in 0 .. last, NEW t \in DOMAIN trellis[i], NEW k \in DOMAIN trellis[i][t]
        PROVE  ~Better(trellis[i][t][k], trellis[i][t][1])
    <3>1. i = 0 /\ t \in problem.prefixes
      BY <1>1
    <3>2. trellis[0][t] = <<PrefixValue(t)>>
      BY <1>1, <3>1
    <3>3. \A v : DOMAIN <<v>> = {1}
      OBVIOUS
    <3>4. k = 1
      BY <3>1, <3>2, <3>3
    <3>5. trellis[i][t][1] = PrefixValue(t)
      BY <3>1, <3>2
    <3> QED
      BY <3>4, <3>5 DEF Better, PrefixValue
  <2> QED
    BY <2>1 DEF FrontsAreBest
<1>5. Covered(trellis, 0)
  <2>1. \A t \in problem.prefixes : t \in DOMAIN trellis[0]
    BY <1>1
  <2>2. \A s \in 0 .. last : ~(s < 0)
    BY <1>0
  <2> QED
    BY <2>1, <2>2 DEF Covered
<1>6. ResultsAreChains
  BY <1>0 DEF ResultsAreChains
<1>7. BestSentence
  BY <1>0 DEF BestSentence
<1> QED
  BY <1>0, <1>3, <1>4, <1>5, <1>6, <1>7 DEF TrellisInv

LEMMA NextTrellis == TrellisInv /\ [Next]_vars => TrellisInv'
<1> SUFFICES ASSUME TrellisInv, [Next]_vars PROVE TrellisInv'
  OBVIOUS
<1>0. /\ problem \in Problems /\ lookup \in Lookups /\ column \in 0 .. problem.size
      /\ last \in Nat /\ problem.size = last + 1 /\ column \in Nat
      /\ nbeam \in Nat /\ lookup.nstore \in {1, 2}
  BY LastIs, NBestTrellisAssumption DEF TrellisInv
<1>1. TrellisIs(trellis, column) /\ (Ordered => FrontsAreBest(trellis))
  BY DEF TrellisInv
<1>2. CASE SearchColumn
  <2>1. /\ column \in 0 .. last /\ column < last /\ column' = column + 1
        /\ problem' = problem /\ lookup' = lookup /\ results' = results /\ results = <<>>
    BY <1>0, <1>2 DEF SearchColumn, TrellisInv
  <2>2. /\ last' = last /\ Chains' = Chains /\ (Ordered' <=> Ordered)
        /\ TrellisIs(trellis, column)' <=> TrellisIs(trellis', column')
        /\ FrontsAreBest(trellis)' <=> FrontsAreBest(trellis')
        /\ Covered(trellis, column)' <=> Covered(trellis', column')
    BY <2>1, ProblemStays
  <2>3. /\ TrellisIs(trellis', column')
        /\ Ordered => FrontsAreBest(trellis')
        /\ Ordered /\ ~cut' => Covered(trellis', column')
    <3>1. CASE DOMAIN trellis[column] = {}
      <4>1. trellis' = trellis /\ cut' = cut
        BY <1>2, <3>1 DEF SearchColumn
      <4>2. /\ TrellisIs(trellis, column + 1)
            /\ Covered(trellis, column) => Covered(trellis, column + 1)
        BY <1>0, <1>1, <2>1, <3>1, EmptyColumn
      <4> QED
        BY <1>1, <2>1, <4>1, <4>2 DEF TrellisInv
    <3>2. CASE DOMAIN trellis[column] # {}
      <4>1. PICK top \in TopResults(lookup.nstore, trellis[column], nbeam) :
              trellis' = [i \in DOMAIN trellis |->
                             IF i > column THEN Saved(trellis[i], column, i, top) ELSE trellis[i]]
        BY <1>2, <3>2 DEF SearchColumn
      <4>2. cut' = (cut \/ Cardinality(Candidates(trellis[column])) > nbeam)
        BY <1>2, <3>2 DEF SearchColumn
      <4>3. Cardinality(Candidates(trellis[column])) \in Nat
        BY <1>0, <1>1, <2>1, CandidatesAre, FS_CardinalityType
      <4>4. ~cut' => ~cut /\ Cardinality(Candidates(trellis[column])) <= nbeam
        <5> DEFINE many == Cardinality(Candidates(trellis[column])) > nbeam
        <5>1. ~many => Cardinality(Candidates(trellis[column])) <= nbeam
          BY <1>0, <4>3
        <5>2. cut' = (cut \/ many)
          BY <4>2
        <5> HIDE DEF many
        <5>3. ~cut' => ~cut /\ ~many
          BY <5>2
        <5> QED
          BY <5>1, <5>3
      <4>5. /\ TrellisIs(trellis', column + 1)
            /\ Ordered /\ FrontsAreBest(trellis) =>
                  /\ FrontsAreBest(trellis')
                  /\ Covered(trellis, column) /\ Cardinality(Candidates(trellis[column])) <= nbeam =>
                        Covered(trellis', column + 1)
        BY <1>0, <1>1, <2>1, <3>2, <4>1, ColumnStep
      <4> QED
        BY <1>1, <2>1, <4>4, <4>5 DEF TrellisInv
    <3> QED
      BY <3>1, <3>2
  <2>4. column' # problem'.size
    BY <1>0, <2>1
  <2>5. ResultsAreChains' /\ BestSentence'
    BY <2>1, <2>4 DEF ResultsAreChains, BestSentence
  <2>6. column' \in 0 .. problem'.size
    BY <1>0, <2>1
  <2> QED
    BY <1>0, <2>1, <2>2, <2>3, <2>5, <2>6 DEF TrellisInv
<1>3. CASE ExtractResults
  <2>1. /\ column = last /\ column' = problem.size /\ problem' = problem /\ lookup' = lookup
        /\ trellis' = trellis /\ cut' = cut
    BY <1>3 DEF ExtractResults
  <2>2. /\ last' = last /\ Chains' = Chains /\ (Ordered' <=> Ordered)
        /\ TrellisIs(trellis, column)' <=> TrellisIs(trellis', column')
        /\ FrontsAreBest(trellis)' <=> FrontsAreBest(trellis')
        /\ Covered(trellis, column)' <=> Covered(trellis', column')
    BY <2>1, ProblemStays
  <2>3. /\ TrellisIs(trellis, column + 1)
        /\ Covered(trellis, column) => Covered(trellis, column + 1)
    <3>1. \A s \in 0 .. last : s < column => trellis[s] = trellis[s]
      OBVIOUS
    <3>2. column + 1 \in Nat /\ column <= column + 1
      BY <1>0
    <3>3. \A i \in 0 .. last : \A t :
             NodeValues(trellis, column, i, t) \subseteq NodeValues(trellis, column + 1, i, t)
      BY <1>0, <3>2, ValuesGrow
    <3>4. ASSUME NEW i \in 0 .. last, NEW t \in DOMAIN trellis[i]
          PROVE  trellis[i][t] \in Nodes(NodeValues(trellis, column + 1, i, t)) /\ trellis[i][t] # <<>>
      <4>1. trellis[i][t] \in Nodes(NodeValues(trellis, column, i, t)) /\ trellis[i][t] # <<>>
        BY <1>1 DEF TrellisIs
      <4> QED
        BY <3>3, <4>1, NodesGrow
    <3>5. TrellisIs(trellis, column + 1)
      BY <1>1, <3>4 DEF TrellisIs
    <3>6. \A s \in 0 .. last : s < column + 1 => s < column \/ s + 1 .. last = {}
      BY <1>0, <2>1
    <3>7. Covered(trellis, column) => Covered(trellis, column + 1)
      BY <3>6 DEF Covered
    <3> QED
      BY <3>5, <3>7
  <2>4. PICK top \in TopResults(lookup.nstore, trellis[last], lookup.nbest) :
          LET tails == Sorted([k \in DOMAIN top |-> top[k].value])
          IN  results' = [k \in DOMAIN tails |-> [words |-> Extracted(tails[k]), tail |-> tails[k]]]
    BY <1>3 DEF ExtractResults
  <2> DEFINE tails == Sorted([k \in DOMAIN top |-> top[k].value])
  <2>5. /\ DOMAIN results' = DOMAIN tails
        /\ \A k \in DOMAIN tails : /\ results'[k].words = Extracted(tails[k])
                                   /\ results'[k].tail = tails[k]
    <3> HIDE DEF tails
    <3>1. results' = [k \in DOMAIN tails |-> [words |-> Extracted(tails[k]), tail |-> tails[k]]]
      BY <2>4 DEF tails
    <3> QED
      BY <3>1
  <2>6. /\ \A k \in DOMAIN tails : tails[k] \in Located(trellis, last)
        /\ Ordered /\ Covered(trellis, column) /\ FrontsAreBest(trellis) /\ Chains[last] # {} =>
              1 \in DOMAIN tails /\ \A chain \in Chains[last] : ~Better(chain, tails[1])
    <3>1. last <= column
      BY <1>0, <2>1
    <3> QED
      BY <1>0, <1>1, <3>1, TailsAre
  <2> HIDE DEF tails
  <2>7. ResultsAreChains'
    <3>1. ASSUME NEW k \in DOMAIN tails
          PROVE  \E chain \in Chains[last] :
                    /\ chain.words = results'[k].words
                    /\ chain.token = results'[k].tail.token
                    /\ chain.length = results'[k].tail.length
                    /\ chain.poss = results'[k].tail.poss
      <4>1. PICK chain \in Chains[last] : chain.words = Extracted(tails[k]) /\ Fits(chain, tails[k])
        BY <1>0, <1>1, <2>6, ExtractedIs
      <4> QED
        BY <2>5, <4>1 DEF Fits
    <3> QED
      BY <2>2, <2>5, <3>1 DEF ResultsAreChains
  <2>8. BestSentence'
    <3>1. ASSUME ~cut', Chains[last] # {}, Ordered
          PROVE  results' # <<>> /\ \A chain \in Chains[last] : ~Better(chain, results'[1].tail)
      <4>1. Covered(trellis, column) /\ FrontsAreBest(trellis)
        BY <2>1, <3>1 DEF TrellisInv
      <4>2. 1 \in DOMAIN tails /\ \A chain \in Chains[last] : ~Better(chain, tails[1])
        BY <2>6, <3>1, <4>1
      <4>3. results'[1].tail = tails[1] /\ 1 \in DOMAIN results'
        BY <2>5, <4>2
      <4>4. DOMAIN <<>> = {}
        OBVIOUS
      <4> QED
        BY <4>2, <4>3, <4>4
    <3>2. Ordered' <=> (lookup'.nstore = 1 \/ \A i \in 0 .. last' : OneLength(Chains'[i]))
      BY DEF Ordered, OneLength
    <3>3. (lookup'.nstore = 1 \/ \A i \in 0 .. last' : OneLength(Chains'[i])) => Ordered
      BY <2>2, <3>2
    <3> QED
      BY <2>2, <3>1, <3>3 DEF BestSentence, OneLength, Better
  <2>9. column' \in 0 .. problem'.size /\ ~(column' <= last')
    BY <1>0, <2>1, <2>2
  <2>10. column' = column + 1
    BY <1>0, <2>1
  <2>11. /\ TrellisIs(trellis', column')
         /\ Ordered => FrontsAreBest(trellis')
         /\ Ordered /\ ~cut' => Covered(trellis', column')
    BY <1>1, <2>1, <2>3, <2>10 DEF TrellisInv
  <2> QED
    BY <1>0, <2>1, <2>2, <2>7, <2>8, <2>9, <2>11 DEF TrellisInv
<1>4. CASE UNCHANGED vars
  <2>1. /\ problem' = problem /\ lookup' = lookup /\ column' = column /\ trellis' = trellis
        /\ cut' = cut /\ results' = results
    BY <1>4 DEF vars
  <2>2. /\ last' = last /\ Chains' = Chains /\ (Ordered' <=> Ordered)
        /\ TrellisIs(trellis, column)' <=> TrellisIs(trellis', column')
        /\ FrontsAreBest(trellis)' <=> FrontsAreBest(trellis')
        /\ Covered(trellis, column)' <=> Covered(trellis', column')
    BY <2>1, ProblemStays
  <2>3. ResultsAreChains' /\ BestSentence'
    BY <2>1, <2>2 DEF TrellisInv, ResultsAreChains, BestSentence, OneLength, Better
  <2> QED
    BY <2>1, <2>2, <2>3 DEF TrellisInv
<1> QED
  BY <1>2, <1>3, <1>4 DEF Next

\* The invariant holds always.
THEOREM TrellisAlwaysIs == Spec => []TrellisInv
BY InitTrellis, NextTrellis, PTL DEF Spec

\* Whatever the length of the matrix, its words, its scores and the sizes of beam and
\* nodes: each sentence that is extracted is a chain of words between columns, and its
\* last value has the length and the score of that chain (extract_result).
THEOREM SentencesAlwaysChains == Spec => []ResultsAreChains
<1>1. TrellisInv => ResultsAreChains
  BY DEF TrellisInv
<1> QED
  BY <1>1, TrellisAlwaysIs, PTL

\* The first sentence is no worse than any chain, if the beam has cut nothing off and a
\* node holds one value or all chains to a column are as long (get_nbest_match, get_tails).
THEOREM FirstAlwaysBest == Spec => []BestSentence
<1>1. TrellisInv => BestSentence
  BY DEF TrellisInv
<1> QED
  BY <1>1, TrellisAlwaysIs, PTL

-----------------------------------------------------------------------------
(* What is typed, and what the parsers make of it. *)

Keys == {span[1] : span \in Spans}

\* What is typed: each span that is spelled lies in the input, as long as its key may be.
InputIs(inp) ==
    /\ inp = [len |-> inp.len, seps |-> inp.seps, spell |-> inp.spell]
    /\ inp.len \in Nat
    /\ \A span \in DOMAIN inp.spell : \E m, n \in 0 .. inp.len :
          /\ span = <<m, n>> /\ m < n
          /\ inp.spell[span].distance \in Nat
          /\ <<inp.spell[span].key, n - m>> \in Spans

LEMMA SpellIs ==
    ASSUME NEW inp, InputIs(inp), NEW m, NEW n, <<m, n>> \in DOMAIN inp.spell
    PROVE  /\ m \in 0 .. inp.len /\ n \in 0 .. inp.len /\ m < n
           /\ m \in Nat /\ n \in Nat
           /\ inp.spell[<<m, n>>].distance \in Nat
           /\ <<inp.spell[<<m, n>>].key, n - m>> \in Spans
           /\ inp.spell[<<m, n>>].key \in Keys
<1>1. PICK a \in 0 .. inp.len, b \in 0 .. inp.len :
         /\ <<m, n>> = <<a, b>> /\ a < b
         /\ inp.spell[<<m, n>>].distance \in Nat
         /\ <<inp.spell[<<m, n>>].key, b - a>> \in Spans
  BY DEF InputIs
<1>2. m = a /\ n = b
  BY <1>1
<1>3. <<inp.spell[<<m, n>>].key, n - m>>[1] \in Keys
  BY <1>1, <1>2 DEF Keys
<1>4. inp.len \in Nat
  BY DEF InputIs
<1> QED
  BY <1>1, <1>2, <1>3, <1>4

LEMMA NoInputIs == InputIs(NoInput)
BY DEF InputIs, NoInput

LEMMA GrownIs == ASSUME InputIs(input), NEW next \in Grown PROVE InputIs(next)
<1> DEFINE n == input.len
           fits(m) == {s \in Spelled : s.length = n + 1 - m}
           open == {m \in 0 .. n : /\ \A c \in m .. n - 1 : c \notin input.seps
                                   /\ fits(m) # {}}
           spelled == {f \in [open -> Spelled \cup {NoInput}] :
                          \A m \in open : f[m] \in fits(m) \cup {NoInput}}
           typed(f) == {<<m, n + 1>> : m \in {o \in open : f[o] # NoInput}}
           extended(f) ==
               [span \in DOMAIN input.spell \cup typed(f) |->
                   IF span \in DOMAIN input.spell THEN input.spell[span]
                   ELSE [key |-> f[span[1]].key, distance |-> f[span[1]].distance]]
<1>1. n \in Nat /\ input = [len |-> n, seps |-> input.seps, spell |-> input.spell]
  BY DEF InputIs
<1>2. CASE next \in {[input EXCEPT !.len = n + 1, !.seps = @ \cup {n}]}
  <2>1. /\ next = [len |-> next.len, seps |-> next.seps, spell |-> next.spell]
        /\ next.len = n + 1 /\ next.spell = input.spell
    BY <1>1, <1>2
  <2>2. \A m \in 0 .. n : m \in 0 .. next.len
    BY <1>1, <2>1
  <2> QED
    BY <1>1, <2>1, <2>2 DEF InputIs
<1>3. CASE next \in {[input EXCEPT !.len = n + 1, !.spell = extended(f)] : f \in spelled}
  <2>1. PICK f \in spelled : next = [input EXCEPT !.len = n + 1, !.spell = extended(f)]
    BY <1>3
  <2>2. /\ next = [len |-> next.len, seps |-> next.seps, spell |-> next.spell]
        /\ next.len = n + 1 /\ next.spell = extended(f)
    <3> HIDE DEF extended
    <3> QED
      BY <1>1, <2>1
  <2>3. ASSUME NEW span \in DOMAIN next.spell
        PROVE  \E a, b \in 0 .. next.len :
                  /\ span = <<a, b>> /\ a < b
                  /\ next.spell[span].distance \in Nat
                  /\ <<next.spell[span].key, b - a>> \in Spans
    <3>1. CASE span \in DOMAIN input.spell
      <4>1. next.spell[span] = input.spell[span]
        BY <2>2, <3>1
      <4>2. PICK a \in 0 .. n, b \in 0 .. n :
               /\ span = <<a, b>> /\ a < b
               /\ input.spell[span].distance \in Nat
               /\ <<input.spell[span].key, b - a>> \in Spans
        BY <3>1 DEF InputIs
      <4>3. a \in 0 .. next.len /\ b \in 0 .. next.len
        BY <1>1, <2>2
      <4> QED
        BY <4>1, <4>2, <4>3
    <3>2. CASE span \notin DOMAIN input.spell
      <4>1. PICK m \in open : span = <<m, n + 1>> /\ f[m] # NoInput
        BY <2>2, <3>2
      <4>2. f[m] \in fits(m)
        BY <2>1, <4>1
      <4>3. PICK s \in Spelled : f[m] = s /\ s.length = n + 1 - m
        BY <4>2
      <4>4. next.spell[span] = [key |-> s.key, distance |-> s.distance]
        BY <2>2, <3>2, <4>1, <4>3
      <4>5. s.distance \in Nat /\ <<s.key, s.length>> \in Spans
        BY KeyMatrixAssumption DEF KeysSplit
      <4>6. m \in 0 .. next.len /\ n + 1 \in 0 .. next.len /\ m < n + 1
        BY <1>1, <2>2
      <4>7. /\ next.spell[span].key = s.key /\ next.spell[span].distance = s.distance
            /\ s.length = (n + 1) - m
        BY <1>1, <4>3, <4>4
      <4> HIDE DEF n, fits, open, spelled, extended
      <4>8. /\ next.spell[span].distance \in Nat
            /\ <<next.spell[span].key, (n + 1) - m>> \in Spans
        BY <4>5, <4>7
      <4> QED
        BY <4>1, <4>6, <4>8
    <3> HIDE DEF n, fits, open, spelled, extended
    <3> QED
      BY <3>1, <3>2
  <2>4. next.len \in Nat
    BY <1>1, <2>2
  <2> HIDE DEF n, fits, open, spelled, extended
  <2> QED
    BY <2>2, <2>3, <2>4 DEF InputIs
<1> HIDE DEF n, fits, open, spelled, extended
<1> QED
  BY <1>2, <1>3 DEF Grown, n, fits, open, spelled, extended, typed

\* A key of a parse.
ParsedKey == [begin : Nat, end : Nat, key : Keys]

\* Keys one behind the other between two columns.
KeysAre(keys, from, to) ==
    /\ keys \in Seq(ParsedKey)
    /\ \A k \in DOMAIN keys :
          /\ from <= keys[k].begin /\ keys[k].begin < keys[k].end /\ keys[k].end <= to
          /\ <<keys[k].key, keys[k].end - keys[k].begin>> \in Spans
    /\ \A j, k \in DOMAIN keys : j < k => keys[j].end <= keys[k].begin

LEMMA NoKeys == ASSUME NEW from, NEW to PROVE KeysAre(<<>>, from, to)
BY DEF KeysAre

LEMMA KeyIs ==
    ASSUME NEW inp, InputIs(inp), NEW m, NEW n, <<m, n>> \in DOMAIN inp.spell
    PROVE  LET new == Key(inp, m, n)
           IN  /\ new \in ParsedKey /\ new.begin = m /\ new.end = n
               /\ <<new.key, n - m>> \in Spans
BY SpellIs DEF Key, ParsedKey, InputIs

LEMMA KeyAppended ==
    ASSUME NEW inp, InputIs(inp), NEW m, NEW n, <<m, n>> \in DOMAIN inp.spell, NEW keys,
           KeysAre(keys, 0, m)
    PROVE  KeysAre(Append(keys, Key(inp, m, n)), 0, n)
<1> DEFINE new == Key(inp, m, n)
           more == Append(keys, new)
<1>1. /\ new \in ParsedKey /\ new.begin = m /\ new.end = n
      /\ <<new.key, n - m>> \in Spans
  BY KeyIs
<1>2. m \in Nat /\ n \in Nat /\ m < n
  BY SpellIs
<1>3. keys \in Seq(ParsedKey)
  BY DEF KeysAre
<1> HIDE DEF new
<1>4. /\ more \in Seq(ParsedKey) /\ DOMAIN more = 1 .. Len(keys) + 1 /\ Len(keys) \in Nat
      /\ DOMAIN keys = 1 .. Len(keys) /\ more[Len(keys) + 1] = new
      /\ \A k \in DOMAIN keys : more[k] = keys[k] /\ keys[k] \in ParsedKey
  BY <1>1, <1>3
<1> HIDE DEF more
<1>5. \A k \in DOMAIN keys : keys[k].begin \in Nat /\ keys[k].end \in Nat
  BY <1>4 DEF ParsedKey
<1>6. ASSUME NEW k \in DOMAIN more
      PROVE  /\ 0 <= more[k].begin /\ more[k].begin < more[k].end /\ more[k].end <= n
             /\ <<more[k].key, more[k].end - more[k].begin>> \in Spans
  <2>1. CASE k \in DOMAIN keys
    BY <1>2, <1>4, <1>5, <2>1 DEF KeysAre
  <2>2. CASE k = Len(keys) + 1
    BY <1>1, <1>2, <1>4, <2>2
  <2> QED
    BY <1>4, <2>1, <2>2
<1>7. ASSUME NEW j \in DOMAIN more, NEW k \in DOMAIN more, j < k
      PROVE  more[j].end <= more[k].begin
  <2>1. j \in DOMAIN keys
    BY <1>4, <1>7
  <2>2. CASE k \in DOMAIN keys
    BY <1>4, <1>7, <2>1, <2>2 DEF KeysAre
  <2>3. CASE k = Len(keys) + 1
    BY <1>1, <1>2, <1>4, <2>1, <2>3 DEF KeysAre
  <2> QED
    BY <1>4, <2>2, <2>3
<1>8. KeysAre(more, 0, n)
  BY <1>4, <1>6, <1>7 DEF KeysAre
<1> QED
  BY <1>8 DEF more, new

LEMMA KeyPrepended ==
    ASSUME NEW inp, InputIs(inp), NEW m, NEW n, <<m, n>> \in DOMAIN inp.spell, NEW keys,
           NEW to \in Nat, n <= to, KeysAre(keys, n, to)
    PROVE  KeysAre(<<Key(inp, m, n)>> \o keys, m, to)
<1> DEFINE new == Key(inp, m, n)
           more == <<new>> \o keys
<1>1. /\ new \in ParsedKey /\ new.begin = m /\ new.end = n
      /\ <<new.key, n - m>> \in Spans
  BY KeyIs
<1>2. m \in Nat /\ n \in Nat /\ m < n
  BY SpellIs
<1>3. keys \in Seq(ParsedKey)
  BY DEF KeysAre
<1> HIDE DEF new
<1>4. /\ more \in Seq(ParsedKey) /\ DOMAIN more = 1 .. Len(keys) + 1 /\ Len(keys) \in Nat
      /\ DOMAIN keys = 1 .. Len(keys) /\ more[1] = new
      /\ \A k \in DOMAIN keys : more[k + 1] = keys[k] /\ keys[k] \in ParsedKey
  BY <1>1, <1>3
<1> HIDE DEF more
<1>5. \A k \in DOMAIN keys : keys[k].begin \in Nat /\ keys[k].end \in Nat
  BY <1>4 DEF ParsedKey
<1>a. ASSUME NEW k \in DOMAIN more, k # 1
      PROVE  k - 1 \in DOMAIN keys /\ more[k] = keys[k - 1]
  <2>1. k - 1 \in DOMAIN keys /\ (k - 1) + 1 = k
    BY <1>4, <1>a
  <2> QED
    BY <1>4, <2>1
<1>6. ASSUME NEW k \in DOMAIN more
      PROVE  /\ m <= more[k].begin /\ more[k].begin < more[k].end /\ more[k].end <= to
             /\ <<more[k].key, more[k].end - more[k].begin>> \in Spans
  <2>1. CASE k # 1
    BY <1>2, <1>5, <1>a, <2>1 DEF KeysAre
  <2>2. CASE k = 1
    <3>1. more[k] = new
      BY <1>4, <2>2
    <3> QED
      BY <1>1, <1>2, <3>1
  <2> QED
    BY <2>1, <2>2
<1>7. ASSUME NEW j \in DOMAIN more, NEW k \in DOMAIN more, j < k
      PROVE  more[j].end <= more[k].begin
  <2>1. k # 1
    BY <1>4, <1>7
  <2>2. CASE j # 1
    <3>1. j - 1 < k - 1
      BY <1>4, <1>7
    <3> QED
      BY <1>a, <2>1, <2>2, <3>1 DEF KeysAre
  <2>3. CASE j = 1
    BY <1>1, <1>4, <1>a, <2>1, <2>3 DEF KeysAre
  <2> QED
    BY <2>2, <2>3
<1>8. KeysAre(more, m, to)
  BY <1>4, <1>6, <1>7 DEF KeysAre
<1> QED
  BY <1>8 DEF more, new

-----------------------------------------------------------------------------
(* The dynamic program. *)

LEMMA GreatestIs ==
    ASSUME NEW n \in Nat, NEW T \in SUBSET (0 .. n), T # {}
    PROVE  Max(T) \in T /\ \A y \in T : y <= Max(T)
<1>1. PICK x \in T : \A y \in T : y <= x
  BY GreatestUpTo
<1>2. \A y \in T : x >= y
  BY <1>1
<1>3. Max(T) \in T /\ \A y \in T : Max(T) >= y
  BY <1>2 DEF Max
<1> QED
  BY <1>3

LEMMA LeastIs ==
    ASSUME NEW T \in SUBSET Nat, T # {}
    PROVE  Min(T) \in T /\ \A y \in T : Min(T) <= y
BY LeastElement DEF Min

\* Keys that fit between two columns fit between these and any further one.
LEMMA KeysWidened ==
    ASSUME NEW keys, NEW from, NEW to \in Nat, NEW further \in Nat, to <= further,
           KeysAre(keys, from, to)
    PROVE  KeysAre(keys, from, further)
<1>0. keys \in Seq(ParsedKey) /\ DOMAIN keys = 1 .. Len(keys)
  BY DEF KeysAre
<1>1. ASSUME NEW k \in DOMAIN keys PROVE keys[k].end <= further
  <2>1. keys[k] \in ParsedKey
    BY <1>0
  <2>2. keys[k].end \in Nat /\ keys[k].end <= to
    BY <2>1 DEF KeysAre, ParsedKey
  <2> QED
    BY <2>2
<1> QED
  BY <1>1 DEF KeysAre

StepValue == [num_keys : Nat, parsed_len : Nat, distance : Nat, last_step : Int]

LEMMA BeatsIsOrder ==
    ASSUME NEW u \in StepValue, NEW v \in StepValue, NEW w \in StepValue,
           u.last_step \in Nat, v.last_step \in Nat, w.last_step \in Nat
    PROVE  /\ ~Beats(u, u)
           /\ Beats(w, v) /\ ~Beats(u, v) => Beats(w, u) /\ ~Beats(u, w)
BY DEF Beats, BeatsByLength, StepValue

\* A step no other of S beats, and that beats those before it.
Stays(values, S, m) == \A o \in S : /\ ~Beats(values[o], values[m])
                                    /\ o < m => Beats(values[m], values[o])

\* Among steps some step stays: their set is bounded, and values are ordered.
LEMMA BestStepIs ==
    ASSUME NEW n \in Nat, NEW starts \in SUBSET (0 .. n), starts # {}, NEW values,
           DOMAIN values = starts,
           \A m \in starts : values[m] \in StepValue /\ values[m].last_step \in Nat
    PROVE  BestStep(values) \in starts /\ Stays(values, starts, BestStep(values))
<1> DEFINE Until(k) == {m \in starts : m <= k}
           T == {k \in 0 .. n : Until(k) # {} => \E m \in Until(k) : Stays(values, Until(k), m)}
<1>0. \A m \in starts : m \in 0 .. n /\ m \in Nat
  OBVIOUS
<1>b. \A m \in starts : (m <= 0 <=> m = 0) /\ m <= n
  BY <1>0
<1>c. \A k \in 1 .. n : \A m \in starts : m <= k <=> m <= k - 1 \/ m = k
  BY <1>0
<1>a. ASSUME NEW k \in 0 .. n, Until(k) = {k} PROVE k \in T
  <2>1. k \in starts
    BY <1>a
  <2>2. ~Beats(values[k], values[k]) /\ ~(k < k)
    BY <2>1, BeatsIsOrder
  <2> HIDE DEF Until
  <2>3. Stays(values, {k}, k)
    BY <2>2 DEF Stays
  <2> QED
    BY <1>a, <2>3
<1>1. 0 \in T
  <2>1. CASE 0 \in starts
    <3>1. Until(0) = {0}
      BY <1>b, <2>1
    <3> HIDE DEF T, Until
    <3> QED
      BY <1>a, <3>1
  <2>2. CASE 0 \notin starts
    <3>1. Until(0) = {}
      BY <1>b, <2>2
    <3> HIDE DEF Until
    <3> QED
      BY <3>1
  <2> QED
    BY <2>1, <2>2
<1>2. ASSUME NEW k \in 1 .. n, k - 1 \in T PROVE k \in T
  <2>0. k \in 0 .. n /\ k - 1 \in 0 .. n
    OBVIOUS
  <2>1. CASE k \notin starts
    <3>1. Until(k) = Until(k - 1)
      BY <1>c, <2>1
    <3> HIDE DEF Until
    <3> QED
      BY <1>2, <3>1
  <2>2. CASE k \in starts
    <3>1. Until(k) = Until(k - 1) \cup {k}
      BY <1>c, <2>2
    <3>2. CASE Until(k - 1) = {}
      <4>1. Until(k) = {k}
        BY <3>1, <3>2
      <4> HIDE DEF T, Until
      <4> QED
        BY <1>a, <2>0, <4>1
    <3>3. CASE Until(k - 1) # {}
      <4>1. PICK b \in Until(k - 1) : Stays(values, Until(k - 1), b)
        BY <1>2, <3>3
      <4>2. b < k /\ \A o \in Until(k - 1) : o \in starts /\ o < k /\ ~(k < o)
        BY <4>1
      <4>3. CASE Beats(values[k], values[b])
        <5>1. ASSUME NEW o \in Until(k)
              PROVE  ~Beats(values[o], values[k]) /\ (o < k => Beats(values[k], values[o]))
          <6>1. CASE o \in Until(k - 1)
            <7>1. ~Beats(values[o], values[b])
              BY <4>1, <6>1 DEF Stays
            <7> QED
              BY <2>2, <4>2, <4>3, <6>1, <7>1, BeatsIsOrder
          <6>2. CASE o = k
            BY <2>2, <6>2, BeatsIsOrder
          <6> QED
            BY <3>1, <6>1, <6>2
        <5>2. k \in Until(k)
          BY <3>1
        <5> HIDE DEF Until
        <5>3. Stays(values, Until(k), k)
          BY <5>1 DEF Stays
        <5> QED
          BY <2>0, <5>2, <5>3
      <4>4. CASE ~Beats(values[k], values[b])
        <5>1. ASSUME NEW o \in Until(k)
              PROVE  ~Beats(values[o], values[b]) /\ (o < b => Beats(values[b], values[o]))
          <6>1. CASE o \in Until(k - 1)
            BY <4>1, <6>1 DEF Stays
          <6>2. CASE o = k
            BY <4>2, <4>4, <6>2
          <6> QED
            BY <3>1, <6>1, <6>2
        <5>2. b \in Until(k)
          BY <3>1, <4>1
        <5> HIDE DEF Until
        <5>3. Stays(values, Until(k), b)
          BY <5>1 DEF Stays
        <5> QED
          BY <2>0, <5>2, <5>3
      <4> QED
        BY <4>3, <4>4
    <3> QED
      BY <3>2, <3>3
  <2> QED
    BY <2>1, <2>2
<1>3. n \in T
  <2> HIDE DEF T
  <2>1. 0 .. n \subseteq T
    BY <1>1, <1>2, InductionUpTo
  <2> QED
    BY <2>1
<1>4. Until(n) = starts
  BY <1>b
<1> HIDE DEF Until
<1>5. \E m \in DOMAIN values : Stays(values, DOMAIN values, m)
  BY <1>3, <1>4
<1> QED
  BY <1>5 DEF BestStep, Stays

\* What the step that ends at a column may be.
StepsAt(inp, n) ==
    {v \in StepValue :
        /\ n = 0 => v = NoStep
        /\ v.last_step # -1 =>
              /\ n # 0
              /\ IF n - 1 \in inp.seps THEN v.last_step = n - 1
                 ELSE <<v.last_step, n>> \in DOMAIN inp.spell}

\* The step that ends at a column, from those before it.
ValuesOf(inp, step, n) ==
    [m \in Starts(inp, n, max_full_pinyin_length) |->
        [num_keys   |-> step[m].num_keys + 1,
         parsed_len |-> step[m].parsed_len + n - m,
         distance   |-> step[m].distance + inp.spell[<<m, n>>].distance,
         last_step  |-> m]]

StepOf(inp, step, n) ==
    IF n = 0 THEN NoStep
    ELSE IF n - 1 \in inp.seps
    THEN [step[n - 1] EXCEPT !.parsed_len = @ + 1, !.last_step = n - 1]
    ELSE IF Starts(inp, n, max_full_pinyin_length) = {} THEN NoStep
    ELSE ValuesOf(inp, step, n)[BestStep(ValuesOf(inp, step, n))]

LEMMA StepOfIs ==
    ASSUME NEW inp, InputIs(inp), NEW n \in 0 .. inp.len, NEW step,
           \A m \in 0 .. inp.len : m < n => step[m] \in StepsAt(inp, m)
    PROVE  StepOf(inp, step, n) \in StepsAt(inp, n)
<1> DEFINE starts == Starts(inp, n, max_full_pinyin_length)
           values == ValuesOf(inp, step, n)
<1>0. inp.len \in Nat /\ n \in Nat
  BY DEF InputIs
<1>1. NoStep \in StepsAt(inp, n)
  BY DEF NoStep, StepsAt, StepValue
<1>2. ASSUME n # 0, n - 1 \in inp.seps PROVE StepOf(inp, step, n) \in StepsAt(inp, n)
  <2>1. n - 1 \in 0 .. inp.len /\ n - 1 < n
    BY <1>0, <1>2
  <2>2. step[n - 1] \in StepValue
    BY <2>1 DEF StepsAt
  <2>3. /\ StepOf(inp, step, n) = [step[n - 1] EXCEPT !.parsed_len = @ + 1, !.last_step = n - 1]
        /\ n - 1 \in Int
    BY <1>0, <1>2 DEF StepOf
  <2> DEFINE v == step[n - 1]
  <2>a. /\ DOMAIN v = {"num_keys", "parsed_len", "distance", "last_step"}
        /\ v.num_keys \in Nat /\ v.parsed_len \in Nat /\ v.distance \in Nat
    BY <2>2 DEF StepValue
  <2> DEFINE w == StepOf(inp, step, n)
  <2>b. w = [v EXCEPT !["parsed_len"] = v.parsed_len + 1, !["last_step"] = n - 1]
    BY <2>3
  <2> HIDE DEF v
  <2>c. /\ DOMAIN w = {"num_keys", "parsed_len", "distance", "last_step"}
        /\ w = [x \in DOMAIN w |-> w[x]]
        /\ w.num_keys = v.num_keys /\ w.parsed_len = v.parsed_len + 1
        /\ w.distance = v.distance /\ w.last_step = n - 1
    BY <2>a, <2>b
  <2> HIDE DEF w
  <2>4. w \in StepValue /\ w.last_step = n - 1
    BY <2>3, <2>a, <2>c DEF StepValue
  <2> QED
    BY <1>2, <2>4 DEF StepsAt, w
<1>3. ASSUME n # 0, n - 1 \notin inp.seps, starts # {}
      PROVE  StepOf(inp, step, n) \in StepsAt(inp, n)
  <2>1. ASSUME NEW m \in starts
        PROVE  m \in 0 .. n - 1 /\ m \in 0 .. n /\ <<m, n>> \in DOMAIN inp.spell
    BY <1>0 DEF Starts
  <2>2. ASSUME NEW m \in starts
        PROVE  values[m] \in StepValue /\ values[m].last_step = m /\ m \in Nat
    <3>1. m \in 0 .. inp.len /\ m < n /\ m \in Nat
      BY <2>1, SpellIs
    <3>2. step[m] \in StepValue
      BY <3>1 DEF StepsAt
    <3>3. inp.spell[<<m, n>>].distance \in Nat
      BY <2>1, SpellIs
    <3>4. values[m] = [num_keys   |-> step[m].num_keys + 1,
                       parsed_len |-> step[m].parsed_len + n - m,
                       distance   |-> step[m].distance + inp.spell[<<m, n>>].distance,
                       last_step  |-> m]
      BY DEF ValuesOf
    <3>5. /\ step[m].num_keys + 1 \in Nat /\ step[m].parsed_len + n - m \in Nat
          /\ step[m].distance + inp.spell[<<m, n>>].distance \in Nat
      BY <1>0, <3>1, <3>2, <3>3 DEF StepValue
    <3> HIDE DEF values
    <3> QED
      BY <3>1, <3>4, <3>5 DEF StepValue
  <2>3. DOMAIN values = starts
    BY DEF ValuesOf
  <2>4. StepOf(inp, step, n) = values[BestStep(values)]
    BY <1>3 DEF StepOf
  <2>5. starts \subseteq 0 .. n
    BY <2>1
  <2> HIDE DEF values, starts
  <2>6. BestStep(values) \in starts
    BY <1>0, <1>3, <2>2, <2>3, <2>5, BestStepIs
  <2> QED
    BY <1>3, <2>1, <2>2, <2>4, <2>6 DEF StepsAt
<1>4. CASE n = 0 \/ (n - 1 \notin inp.seps /\ starts = {})
  BY <1>1, <1>4 DEF StepOf
<1> QED
  BY <1>2, <1>3, <1>4

\* It depends on those before it only.
LEMMA StepOfDepends ==
    ASSUME NEW inp, InputIs(inp), NEW n \in 0 .. inp.len, NEW step, NEW other,
           \A m \in 0 .. inp.len : m < n => step[m] = other[m]
    PROVE  StepOf(inp, step, n) = StepOf(inp, other, n)
<1>0. inp.len \in Nat /\ n \in Nat
  BY DEF InputIs
<1>1. n # 0 => step[n - 1] = other[n - 1]
  <2>1. n # 0 => n - 1 \in 0 .. inp.len /\ n - 1 < n
    BY <1>0
  <2> QED
    BY <2>1
<1>2. ASSUME NEW m \in Starts(inp, n, max_full_pinyin_length) PROVE step[m] = other[m]
  <2>1. m \in 0 .. inp.len /\ m < n
    BY <1>0 DEF Starts
  <2> QED
    BY <2>1
<1>3. ValuesOf(inp, step, n) = ValuesOf(inp, other, n)
  BY <1>2 DEF ValuesOf
<1> QED
  BY <1>1, <1>3 DEF StepOf

LEMMA ParseStepsIs ==
    ASSUME NEW inp, InputIs(inp)
    PROVE  \A n \in 0 .. inp.len :
              /\ ParseSteps(inp)[n] \in StepsAt(inp, n)
              /\ ParseSteps(inp)[n] = StepOf(inp, ParseSteps(inp), n)
<1> DEFINE D == 0 .. inp.len
           m == [n \in D |-> n]
           G == [n \in D |-> StepsAt(inp, n)]
           Step == [n \in D |-> [f \in [D -> StepValue] |->
                       IF StepOf(inp, f, n) \in StepValue THEN StepOf(inp, f, n) ELSE NoStep]]
           Eq(step) == step = [n \in D |-> StepOf(inp, step, n)]
           function == CHOOSE step : Eq(step)
<1>0. inp.len \in Nat
  BY DEF InputIs
<1>1. NoStep \in StepValue /\ StepValue # {} /\ \A n : StepsAt(inp, n) \subseteq StepValue
  <2>1. NoStep \in StepValue
    BY DEF NoStep, StepValue
  <2>2. \A n : StepsAt(inp, n) \subseteq StepValue
    BY DEF StepsAt
  <2> QED
    BY <2>1, <2>2
<1>2. m \in [D -> 0 .. inp.len] /\ \A n \in D : m[n] = n
  OBVIOUS
<1>3. G \in [D -> SUBSET StepValue]
  BY <1>1
<1>4. Step \in [D -> [[D -> StepValue] -> StepValue]]
  BY <1>1
<1>5. DependsOnLess(D, m, StepValue, G, Step)
  <2>1. ASSUME NEW n \in D, NEW f \in [D -> StepValue], NEW g \in [D -> StepValue],
               \A k \in D : m[k] < m[n] => f[k] = g[k]
        PROVE  Step[n][f] = Step[n][g]
    <3>1. StepOf(inp, f, n) = StepOf(inp, g, n)
      <4>1. \A k \in 0 .. inp.len : k < n => f[k] = g[k]
        BY <2>1, <1>2
      <4> QED
        BY <4>1, StepOfDepends
    <3> QED
      BY <3>1
  <2>2. ASSUME NEW n \in D, NEW f \in [D -> StepValue],
               \A k \in D : m[k] < m[n] => f[k] \in G[k]
        PROVE  Step[n][f] \in G[n]
    <3>1. StepOf(inp, f, n) \in StepsAt(inp, n)
      <4>1. \A k \in 0 .. inp.len : k < n => f[k] \in StepsAt(inp, k)
        BY <2>2, <1>2
      <4> QED
        BY <4>1, StepOfIs
    <3> QED
      BY <1>1, <3>1
  <2> HIDE DEF D, m, G, Step
  <2> QED
    BY <2>1, <2>2 DEF DependsOnLess
<1>a. RecursionsOver(D, StepValue, G, Step) # {}
  <2> HIDE DEF m, G, Step
  <2>1. m \in [D -> 0 .. inp.len] /\ StepValue # {}
    BY <1>1, <1>2
  <2> HIDE DEF D
  <2> QED
    BY <1>0, <1>3, <1>4, <1>5, <2>1, RecursionByMeasure
<1>6. PICK f \in [D -> StepValue] : \A n \in D : f[n] = Step[n][f] /\ f[n] \in G[n]
  <2> HIDE DEF D, G, Step
  <2> QED
    BY <1>a DEF RecursionsOver
<1>7. \A n \in D : f[n] \in StepsAt(inp, n) /\ f[n] = StepOf(inp, f, n)
  <2>1. ASSUME NEW n \in D PROVE f[n] = StepOf(inp, f, n)
    <3>1. StepOf(inp, f, n) \in StepsAt(inp, n)
      BY <1>6, StepOfIs
    <3>2. StepOf(inp, f, n) \in StepValue
      BY <1>1, <3>1
    <3> QED
      BY <1>6, <3>2
  <2> QED
    BY <1>6, <2>1
<1>8. Eq(f)
  <2>1. f = [n \in D |-> f[n]]
    BY <1>6
  <2> HIDE DEF D
  <2> QED
    BY <1>7, <2>1
<1>9. Eq(function)
  <2> HIDE DEF Eq
  <2> QED
    BY <1>8
<1>10. ParseSteps(inp) = function
  BY DEF ParseSteps, StepOf, ValuesOf
<1> HIDE DEF function
<1>11. \A n \in D : ParseSteps(inp)[n] = StepOf(inp, ParseSteps(inp), n)
  BY <1>9, <1>10
<1> DEFINE step == ParseSteps(inp)
           T == {n \in D : step[n] \in StepsAt(inp, n)}
<1> HIDE DEF step
<1>12. ASSUME NEW n \in D, \A k \in D : m[k] < m[n] => k \in T PROVE n \in T
  <2>1. \A k \in 0 .. inp.len : k < n => step[k] \in StepsAt(inp, k)
    BY <1>2, <1>12
  <2>2. StepOf(inp, step, n) \in StepsAt(inp, n)
    BY <2>1, StepOfIs
  <2> QED
    BY <1>11, <2>2 DEF step
<1>13. D \subseteq T
  <2> HIDE DEF D, m, T
  <2>1. FollowsFromLess(D, m, T)
    BY <1>12 DEF FollowsFromLess
  <2>2. m \in [D -> 0 .. inp.len]
    BY <1>2
  <2> QED
    BY <1>0, <2>1, <2>2, InductionByMeasure
<1> QED
  BY <1>11, <1>13 DEF step

-----------------------------------------------------------------------------
(* The keys of a parse, back from a column. *)

KeysUntil(inp, n) == {keys \in Seq(ParsedKey) : KeysAre(keys, 0, n)}

\* final_step: the keys that end at a column, from those that end before.
SavedOf(inp, step, saved, n) ==
    IF step[n].last_step = -1 THEN <<>>
    ELSE IF n - 1 \in inp.seps THEN saved[n - 1]
    ELSE Append(saved[step[n].last_step], Key(inp, step[n].last_step, n))

LEMMA SavedOfIs ==
    ASSUME NEW inp, InputIs(inp), NEW n \in 0 .. inp.len, NEW step, NEW saved,
           step[n] \in StepsAt(inp, n),
           \A k \in 0 .. inp.len : k < n => saved[k] \in KeysUntil(inp, k)
    PROVE  SavedOf(inp, step, saved, n) \in KeysUntil(inp, n)
<1> DEFINE back == step[n].last_step
<1>0. inp.len \in Nat /\ n \in Nat
  BY DEF InputIs
<1>1. CASE back = -1
  BY <1>1, NoKeys DEF SavedOf, KeysUntil
<1>2. CASE back # -1 /\ n - 1 \in inp.seps
  <2>1. n - 1 \in 0 .. inp.len /\ n - 1 \in Nat /\ n - 1 < n /\ n - 1 <= n
    BY <1>0, <1>2 DEF StepsAt
  <2>2. saved[n - 1] \in Seq(ParsedKey) /\ KeysAre(saved[n - 1], 0, n - 1)
    BY <2>1 DEF KeysUntil
  <2>3. KeysAre(saved[n - 1], 0, n)
    BY <1>0, <2>1, <2>2, KeysWidened
  <2> QED
    BY <1>2, <2>2, <2>3 DEF SavedOf, KeysUntil
<1>3. CASE back # -1 /\ n - 1 \notin inp.seps
  <2>1. <<back, n>> \in DOMAIN inp.spell
    BY <1>3 DEF StepsAt
  <2>2. back \in 0 .. inp.len /\ back < n
    BY <2>1, SpellIs
  <2>3. KeysAre(saved[back], 0, back)
    BY <2>2 DEF KeysUntil
  <2>4. KeysAre(Append(saved[back], Key(inp, back, n)), 0, n)
    BY <2>1, <2>3, KeyAppended
  <2> QED
    BY <1>3, <2>4 DEF SavedOf, KeysUntil, KeysAre
<1> QED
  BY <1>1, <1>2, <1>3

LEMMA SavedOfDepends ==
    ASSUME NEW inp, InputIs(inp), NEW n \in 0 .. inp.len, NEW step, NEW saved, NEW other,
           step[n] \in StepsAt(inp, n),
           \A k \in 0 .. inp.len : k < n => saved[k] = other[k]
    PROVE  SavedOf(inp, step, saved, n) = SavedOf(inp, step, other, n)
<1> DEFINE back == step[n].last_step
<1>0. inp.len \in Nat /\ n \in Nat
  BY DEF InputIs
<1>1. CASE back = -1
  BY <1>1 DEF SavedOf
<1>2. CASE back # -1 /\ n - 1 \in inp.seps
  <2>1. n - 1 \in 0 .. inp.len /\ n - 1 < n
    BY <1>0, <1>2 DEF StepsAt
  <2> QED
    BY <1>2, <2>1 DEF SavedOf
<1>3. CASE back # -1 /\ n - 1 \notin inp.seps
  <2>1. <<back, n>> \in DOMAIN inp.spell
    BY <1>3 DEF StepsAt
  <2>2. back \in 0 .. inp.len /\ back < n
    BY <2>1, SpellIs
  <2> QED
    BY <1>3, <2>2 DEF SavedOf
<1> QED
  BY <1>1, <1>2, <1>3

SavedFrom(inp, step) ==
    CHOOSE saved : saved = [n \in 0 .. inp.len |-> SavedOf(inp, step, saved, n)]

LEMMA SavedFromIs ==
    ASSUME NEW inp, InputIs(inp), NEW step,
           \A n \in 0 .. inp.len : step[n] \in StepsAt(inp, n)
    PROVE  \A n \in 0 .. inp.len :
              /\ SavedFrom(inp, step)[n] \in KeysUntil(inp, n)
              /\ SavedFrom(inp, step)[n] = SavedOf(inp, step, SavedFrom(inp, step), n)
<1> DEFINE D == 0 .. inp.len
           A == Seq(ParsedKey)
           m == [n \in D |-> n]
           G == [n \in D |-> KeysUntil(inp, n)]
           Step == [n \in D |-> [f \in [D -> A] |->
                       IF SavedOf(inp, step, f, n) \in A THEN SavedOf(inp, step, f, n) ELSE <<>>]]
           Eq(saved) == saved = [n \in D |-> SavedOf(inp, step, saved, n)]
           function == CHOOSE saved : Eq(saved)
<1>0. inp.len \in Nat
  BY DEF InputIs
<1>1. <<>> \in A /\ A # {} /\ \A n : KeysUntil(inp, n) \subseteq A
  <2>1. <<>> \in A
    BY NoKeys DEF KeysAre
  <2>2. \A n : KeysUntil(inp, n) \subseteq A
    BY DEF KeysUntil
  <2> HIDE DEF A
  <2> QED
    BY <2>1, <2>2
<1> HIDE DEF A
<1>2. m \in [D -> 0 .. inp.len] /\ \A n \in D : m[n] = n
  OBVIOUS
<1>3. G \in [D -> SUBSET A]
  BY <1>1
<1>4. Step \in [D -> [[D -> A] -> A]]
  BY <1>1
<1>5. DependsOnLess(D, m, A, G, Step)
  <2>1. ASSUME NEW n \in D, NEW f \in [D -> A], NEW g \in [D -> A],
               \A k \in D : m[k] < m[n] => f[k] = g[k]
        PROVE  Step[n][f] = Step[n][g]
    <3>1. SavedOf(inp, step, f, n) = SavedOf(inp, step, g, n)
      <4>1. \A k \in 0 .. inp.len : k < n => f[k] = g[k]
        BY <2>1, <1>2
      <4> QED
        BY <4>1, SavedOfDepends
    <3> QED
      BY <3>1
  <2>2. ASSUME NEW n \in D, NEW f \in [D -> A],
               \A k \in D : m[k] < m[n] => f[k] \in G[k]
        PROVE  Step[n][f] \in G[n]
    <3>1. SavedOf(inp, step, f, n) \in KeysUntil(inp, n)
      <4>1. \A k \in 0 .. inp.len : k < n => f[k] \in KeysUntil(inp, k)
        BY <2>2, <1>2
      <4> QED
        BY <4>1, SavedOfIs
    <3> QED
      BY <1>1, <3>1
  <2> HIDE DEF D, m, G, Step
  <2> QED
    BY <2>1, <2>2 DEF DependsOnLess
<1>a. RecursionsOver(D, A, G, Step) # {}
  <2> HIDE DEF m, G, Step
  <2>1. m \in [D -> 0 .. inp.len] /\ A # {}
    BY <1>1, <1>2
  <2> HIDE DEF D
  <2> QED
    BY <1>0, <1>3, <1>4, <1>5, <2>1, RecursionByMeasure
<1>6. PICK f \in [D -> A] : \A n \in D : f[n] = Step[n][f] /\ f[n] \in G[n]
  <2> HIDE DEF D, G, Step
  <2> QED
    BY <1>a DEF RecursionsOver
<1>7. \A n \in D : f[n] = SavedOf(inp, step, f, n)
  <2>1. ASSUME NEW n \in D PROVE f[n] = SavedOf(inp, step, f, n)
    <3>1. SavedOf(inp, step, f, n) \in KeysUntil(inp, n)
      BY <1>6, SavedOfIs
    <3>2. SavedOf(inp, step, f, n) \in A
      BY <1>1, <3>1
    <3> QED
      BY <1>6, <3>2
  <2> QED
    BY <2>1
<1>8. Eq(f)
  <2>1. f = [n \in D |-> f[n]]
    BY <1>6
  <2> HIDE DEF D
  <2> QED
    BY <1>7, <2>1
<1>9. Eq(function)
  <2> HIDE DEF Eq
  <2> QED
    BY <1>8
<1>10. SavedFrom(inp, step) = function
  BY DEF SavedFrom
<1> HIDE DEF function
<1> DEFINE saved == SavedFrom(inp, step)
           T == {n \in D : saved[n] \in KeysUntil(inp, n)}
<1>11. \A n \in D : saved[n] = SavedOf(inp, step, saved, n)
  BY <1>9, <1>10
<1> HIDE DEF saved
<1>12. ASSUME NEW n \in D, \A k \in D : m[k] < m[n] => k \in T PROVE n \in T
  <2>1. \A k \in 0 .. inp.len : k < n => saved[k] \in KeysUntil(inp, k)
    BY <1>2, <1>12
  <2>2. SavedOf(inp, step, saved, n) \in KeysUntil(inp, n)
    BY <2>1, SavedOfIs
  <2> QED
    BY <1>11, <2>2
<1>13. D \subseteq T
  <2> HIDE DEF D, m, T
  <2>1. FollowsFromLess(D, m, T)
    BY <1>12 DEF FollowsFromLess
  <2>2. m \in [D -> 0 .. inp.len]
    BY <1>2
  <2> QED
    BY <1>0, <2>1, <2>2, InductionByMeasure
<1> QED
  BY <1>11, <1>13 DEF saved

\* What any parse is: keys one after the other, as far as was read.
ParseIs(inp, parsed) == /\ parsed.parsed_len \in 0 .. inp.len
                        /\ KeysAre(parsed.keys, 0, parsed.parsed_len)

LEMMA FullParseIs ==
    ASSUME NEW inp, InputIs(inp) PROVE ParseIs(inp, FullParse(inp))
<1> DEFINE step == ParseSteps(inp)
           reached == {n \in 0 .. inp.len : step[n].parsed_len = n}
           back == Max(reached)
           saved == SavedFrom(inp, step)
<1>0. inp.len \in Nat
  BY DEF InputIs
<1>1. \A n \in 0 .. inp.len : step[n] \in StepsAt(inp, n)
  BY ParseStepsIs
<1>2. FullParse(inp) = [parsed_len |-> back, keys |-> saved[back]]
  BY DEF FullParse, SavedFrom, SavedOf
<1> HIDE DEF step
<1>3. 0 \in reached
  <2>0. 0 \in 0 .. inp.len
    BY <1>0
  <2>a. step[0] \in StepsAt(inp, 0)
    BY <1>1, <2>0
  <2>1. 0 \in 0 .. inp.len /\ step[0] = NoStep
    BY <2>0, <2>a DEF StepsAt
  <2> QED
    BY <2>1 DEF NoStep
<1>4. back \in reached
  BY <1>0, <1>3, GreatestIs
<1> HIDE DEF reached
<1> QED
  BY <1>1, <1>2, <1>4, SavedFromIs DEF ParseIs, KeysUntil, reached

-----------------------------------------------------------------------------
(* The forward matches. *)

MatchValue == [parsed_len : Nat, keys : Seq(ParsedKey)]

MatchesFrom(inp, begin) ==
    {r \in MatchValue : /\ r.parsed_len \in begin .. inp.len
                        /\ KeysAre(r.keys, begin, r.parsed_len)}

\* The match from a column, from those behind it.
MatchOf(inp, max, valid, match, begin) ==
    LET end == Longest(inp, begin, max)
    IN  IF end = begin \/ inp.spell[<<begin, end>>].key \notin valid
        THEN [parsed_len |-> begin, keys |-> <<>>]
        ELSE [match[end] EXCEPT !.keys = <<Key(inp, begin, end)>> \o @]

LEMMA LongestIs ==
    ASSUME NEW inp, InputIs(inp), NEW begin \in 0 .. inp.len, NEW max
    PROVE  LET end == Longest(inp, begin, max)
           IN  end # begin => <<begin, end>> \in DOMAIN inp.spell
<1> DEFINE ends == {e \in begin + 1 .. MaximumLen(inp) :
                        e - begin <= max /\ <<begin, e>> \in DOMAIN inp.spell}
<1>0. inp.len \in Nat
  BY DEF InputIs
<1>1. \A e \in ends : <<begin, e>> \in DOMAIN inp.spell /\ e \in 0 .. inp.len
  BY SpellIs
<1>2. Longest(inp, begin, max) = Max({begin} \cup ends)
  BY DEF Longest
<1> HIDE DEF ends
<1>3. Max({begin} \cup ends) \in {begin} \cup ends
  <2>1. {begin} \cup ends \subseteq 0 .. inp.len
    BY <1>1
  <2> QED
    BY <1>0, <2>1, GreatestIs
<1> QED
  BY <1>1, <1>2, <1>3

LEMMA MatchOfIs ==
    ASSUME NEW inp, InputIs(inp), NEW begin \in 0 .. inp.len, NEW max, NEW valid, NEW match,
           \A e \in 0 .. inp.len : begin < e => match[e] \in MatchesFrom(inp, e)
    PROVE  MatchOf(inp, max, valid, match, begin) \in MatchesFrom(inp, begin)
<1> DEFINE end == Longest(inp, begin, max)
           value == MatchOf(inp, max, valid, match, begin)
<1>0. inp.len \in Nat /\ begin \in Nat
  BY DEF InputIs
<1>1. CASE end = begin \/ inp.spell[<<begin, end>>].key \notin valid
  <2>1. value = [parsed_len |-> begin, keys |-> <<>>]
    BY <1>1 DEF MatchOf
  <2>2. KeysAre(<<>>, begin, begin) /\ <<>> \in Seq(ParsedKey) /\ begin \in begin .. inp.len
    BY <1>0, NoKeys DEF KeysAre
  <2> HIDE DEF value
  <2>3. value.parsed_len = begin /\ value.keys = <<>> /\ value \in MatchValue
    BY <1>0, <2>1, <2>2 DEF MatchValue
  <2>4. value \in MatchesFrom(inp, begin)
    BY <2>2, <2>3 DEF MatchesFrom
  <2> QED
    BY <2>4 DEF value
<1>2. CASE end # begin /\ inp.spell[<<begin, end>>].key \in valid
  <2>1. <<begin, end>> \in DOMAIN inp.spell
    BY <1>2, LongestIs
  <2>2. end \in 0 .. inp.len /\ begin < end /\ end \in Nat
    BY <2>1, SpellIs
  <2> DEFINE rest == match[end]
             keys == <<Key(inp, begin, end)>> \o rest.keys
  <2>3. rest \in MatchesFrom(inp, end)
    BY <2>2
  <2>4. value = [rest EXCEPT !["keys"] = keys]
    BY <1>2 DEF MatchOf
  <2> HIDE DEF end, value, rest
  <2>5. /\ rest \in MatchValue /\ rest.parsed_len \in end .. inp.len
        /\ KeysAre(rest.keys, end, rest.parsed_len)
    BY <2>3 DEF MatchesFrom
  <2>6. rest.parsed_len \in Nat /\ end <= rest.parsed_len /\ rest.parsed_len \in begin .. inp.len
    BY <1>0, <2>2, <2>5
  <2>7. KeysAre(keys, begin, rest.parsed_len)
    BY <2>1, <2>5, <2>6, KeyPrepended
  <2> HIDE DEF keys
  <2>8. value = [parsed_len |-> rest.parsed_len, keys |-> keys]
    BY <2>4, <2>5 DEF MatchValue
  <2>9. keys \in Seq(ParsedKey)
    BY <2>7 DEF KeysAre
  <2>10. value \in MatchValue /\ value.parsed_len = rest.parsed_len /\ value.keys = keys
    BY <2>6, <2>8, <2>9 DEF MatchValue
  <2> QED
    BY <2>6, <2>7, <2>10 DEF MatchesFrom, value
<1> QED
  BY <1>1, <1>2

LEMMA MatchOfDepends ==
    ASSUME NEW inp, InputIs(inp), NEW begin \in 0 .. inp.len, NEW max, NEW valid,
           NEW match, NEW other, \A e \in 0 .. inp.len : begin < e => match[e] = other[e]
    PROVE  MatchOf(inp, max, valid, match, begin) = MatchOf(inp, max, valid, other, begin)
<1> DEFINE end == Longest(inp, begin, max)
<1>1. CASE end = begin
  BY <1>1 DEF MatchOf
<1>2. CASE end # begin
  <2>1. <<begin, end>> \in DOMAIN inp.spell
    BY <1>2, LongestIs
  <2>2. match[end] = other[end]
    BY <2>1, SpellIs
  <2> QED
    BY <2>2 DEF MatchOf
<1> QED
  BY <1>1, <1>2

MatchFrom(inp, max, valid) ==
    CHOOSE match : match = [begin \in 0 .. inp.len |-> MatchOf(inp, max, valid, match, begin)]

LEMMA MatchFromIs ==
    ASSUME NEW inp, InputIs(inp), NEW max, NEW valid
    PROVE  \A n \in 0 .. inp.len : MatchFrom(inp, max, valid)[n] \in MatchesFrom(inp, n)
<1> DEFINE D == 0 .. inp.len
           A == MatchValue
           none == [parsed_len |-> 0, keys |-> <<>>]
           m == [n \in D |-> inp.len - n]
           G == [n \in D |-> MatchesFrom(inp, n)]
           Step == [n \in D |-> [f \in [D -> A] |->
                       IF MatchOf(inp, max, valid, f, n) \in A THEN MatchOf(inp, max, valid, f, n) ELSE none]]
           Eq(match) == match = [n \in D |-> MatchOf(inp, max, valid, match, n)]
           function == CHOOSE match : Eq(match)
<1>0. inp.len \in Nat
  BY DEF InputIs
<1>1. none \in A /\ A # {} /\ \A n : MatchesFrom(inp, n) \subseteq A
  <2>1. none \in A
    BY NoKeys DEF KeysAre, MatchValue
  <2>2. \A n : MatchesFrom(inp, n) \subseteq A
    BY DEF MatchesFrom
  <2> HIDE DEF A, none
  <2> QED
    BY <2>1, <2>2
<1> HIDE DEF A, none
<1>2. m \in [D -> 0 .. inp.len] /\ \A n \in D : m[n] = inp.len - n /\ n \in Int
  BY <1>0
<1>b. \A n, k \in D : n < k => m[k] < m[n]
  BY <1>0, <1>2
<1>3. G \in [D -> SUBSET A]
  BY <1>1
<1>4. Step \in [D -> [[D -> A] -> A]]
  BY <1>1
<1>5. DependsOnLess(D, m, A, G, Step)
  <2>1. ASSUME NEW n \in D, NEW f \in [D -> A], NEW g \in [D -> A],
               \A k \in D : m[k] < m[n] => f[k] = g[k]
        PROVE  Step[n][f] = Step[n][g]
    <3>1. MatchOf(inp, max, valid, f, n) = MatchOf(inp, max, valid, g, n)
      <4>1. \A k \in 0 .. inp.len : n < k => f[k] = g[k]
        BY <1>b, <2>1
      <4> QED
        BY <4>1, MatchOfDepends
    <3> QED
      BY <3>1
  <2>2. ASSUME NEW n \in D, NEW f \in [D -> A],
               \A k \in D : m[k] < m[n] => f[k] \in G[k]
        PROVE  Step[n][f] \in G[n]
    <3>1. MatchOf(inp, max, valid, f, n) \in MatchesFrom(inp, n)
      <4>1. \A k \in 0 .. inp.len : n < k => f[k] \in MatchesFrom(inp, k)
        BY <1>b, <2>2
      <4> QED
        BY <4>1, MatchOfIs
    <3> QED
      BY <1>1, <3>1
  <2> HIDE DEF D, m, G, Step
  <2> QED
    BY <2>1, <2>2 DEF DependsOnLess
<1>a. RecursionsOver(D, A, G, Step) # {}
  <2> HIDE DEF m, G, Step
  <2>1. m \in [D -> 0 .. inp.len] /\ A # {}
    BY <1>1, <1>2
  <2> HIDE DEF D
  <2> QED
    BY <1>0, <1>3, <1>4, <1>5, <2>1, RecursionByMeasure
<1>6. PICK f \in [D -> A] : \A n \in D : f[n] = Step[n][f] /\ f[n] \in G[n]
  <2> HIDE DEF D, G, Step
  <2> QED
    BY <1>a DEF RecursionsOver
<1>7. \A n \in D : f[n] = MatchOf(inp, max, valid, f, n)
  <2>1. ASSUME NEW n \in D PROVE f[n] = MatchOf(inp, max, valid, f, n)
    <3>1. MatchOf(inp, max, valid, f, n) \in MatchesFrom(inp, n)
      BY <1>6, MatchOfIs
    <3>2. MatchOf(inp, max, valid, f, n) \in A
      BY <1>1, <3>1
    <3> QED
      BY <1>6, <3>2
  <2> QED
    BY <2>1
<1>8. Eq(f)
  <2>1. f = [n \in D |-> f[n]]
    BY <1>6
  <2> HIDE DEF D
  <2> QED
    BY <1>7, <2>1
<1>9. Eq(function)
  <2> HIDE DEF Eq
  <2> QED
    BY <1>8
<1>10. MatchFrom(inp, max, valid) = function
  BY DEF MatchFrom
<1> HIDE DEF function
<1> DEFINE match == MatchFrom(inp, max, valid)
           T == {n \in D : match[n] \in MatchesFrom(inp, n)}
<1>11. \A n \in D : match[n] = MatchOf(inp, max, valid, match, n)
  BY <1>9, <1>10
<1> HIDE DEF match
<1>12. ASSUME NEW n \in D, \A k \in D : m[k] < m[n] => k \in T PROVE n \in T
  <2>1. \A k \in 0 .. inp.len : n < k => match[k] \in MatchesFrom(inp, k)
    BY <1>b, <1>12
  <2>2. MatchOf(inp, max, valid, match, n) \in MatchesFrom(inp, n)
    BY <2>1, MatchOfIs
  <2> QED
    BY <1>11, <2>2
<1>13. D \subseteq T
  <2> HIDE DEF D, m, T
  <2>1. FollowsFromLess(D, m, T)
    BY <1>12 DEF FollowsFromLess
  <2>2. m \in [D -> 0 .. inp.len]
    BY <1>2
  <2> QED
    BY <1>0, <2>1, <2>2, InductionByMeasure
<1> QED
  BY <1>13 DEF match

LEMMA ForwardMatchIs ==
    ASSUME NEW inp, InputIs(inp), NEW max, NEW valid
    PROVE  ParseIs(inp, ForwardMatch(inp, max, valid))
<1>0. inp.len \in Nat /\ 0 \in 0 .. inp.len
  BY DEF InputIs
<1>1. ForwardMatch(inp, max, valid) = MatchFrom(inp, max, valid)[0]
  BY DEF ForwardMatch, MatchFrom, MatchOf
<1>2. MatchFrom(inp, max, valid)[0] \in MatchesFrom(inp, 0)
  BY <1>0, MatchFromIs
<1> QED
  BY <1>1, <1>2 DEF ParseIs, MatchesFrom

-----------------------------------------------------------------------------
(* A matrix. *)

AllKeys == Keys \cup {zero_key} \cup {p[2] : p \in AmbInitials \cup AmbFinals}

Item == [key : AllKeys, end : Nat]

\* An item of a column leads to one with items: a "'", alone in its column, to
\* the next, and a key over no "'".
ItemIs(M, width, i, x) ==
    IF x.key = zero_key
    THEN M[i] = <<x>> /\ x.end = i + 1 /\ (i # width => M[i + 1] # <<>>)
    ELSE /\ x.end \in i + 1 .. width /\ M[x.end] # <<>>
         /\ \A j \in i .. x.end - 1 : ~IsZero(M, j)

ItemsAre(M, width) == \A i \in 0 .. width : \A k \in DOMAIN M[i] : ItemIs(M, width, i, M[i][k])

\* The matrices of columns 0 .. width.
Matrices(width) == {M \in [0 .. width -> Seq(Item)] : IsZero(M, width) /\ ItemsAre(M, width)}

\* Those that are not fuzzed yet: their keys are typed or split off.
KeysSpan(M, width) == \A i \in 0 .. width : \A k \in DOMAIN M[i] :
                        M[i][k].key # zero_key => <<M[i][k].key, M[i][k].end - i>> \in Spans

Unfuzzed(width) == {M \in Matrices(width) : KeysSpan(M, width)}

MatrixIs == \/ matrix = NoMatrix /\ offset = 0
            \/ \E width \in Nat : matrix \in Matrices(width) /\ offset \in 0 .. width

\* The inductive invariant.
KeysInv ==
    /\ InputIs(input)
    /\ parse.parsed_len \in Nat
    /\ MatrixIs
    /\ status # "aborted" => offset = 0 \/ (matrix[offset] # <<>> /\ CheckOffset(matrix, offset))

LEMMA KeysAreNotZero == zero_key \notin Keys /\ Keys \subseteq AllKeys /\ zero_key \in AllKeys
<1>1. ASSUME NEW span \in Spans PROVE span[1] # zero_key
  BY KeyMatrixAssumption DEF KeysSplit
<1> QED
  BY <1>1 DEF Keys, AllKeys

\* A column with one item.
Single(c, key, end) == /\ c \in Seq(Item) /\ Len(c) = 1 /\ c # <<>> /\ DOMAIN c = {1}
                       /\ c[1].key = key /\ c[1].end = end /\ c = <<c[1]>>

LEMMA OneItem ==
    ASSUME NEW key \in AllKeys, NEW end \in Nat PROVE Single(<<At(key, end)>>, key, end)
<1>1. At(key, end) \in Item /\ At(key, end).key = key /\ At(key, end).end = end
  BY DEF At, Item
<1> QED
  BY <1>1 DEF Single

\* What fill_matrix makes of a parse.
LEMMA FilledIs ==
    ASSUME NEW inp, InputIs(inp), NEW parsed, ParseIs(inp, parsed), parsed.keys # <<>>
    PROVE  Filled(parsed) \in Unfuzzed(parsed.parsed_len)
<1> DEFINE n == parsed.parsed_len
           keys == parsed.keys
           D == DOMAIN keys
           begins(i) == {k \in D : keys[k].begin = i}
           inside == UNION {keys[k].begin .. keys[k].end - 1 : k \in D}
           Zero(i) == begins(i) = {} /\ i \notin inside /\ ~(i < keys[1].begin)
           Value0(i) == IF begins(i) # {} THEN <<At(keys[Min(begins(i))].key,
                                                   keys[Min(begins(i))].end)>>
                        ELSE IF i \in inside \/ i < keys[1].begin THEN <<>>
                        ELSE <<At(zero_key, i + 1)>>
           M == Filled(parsed)
<1>0. n \in Nat /\ KeysAre(keys, 0, n)
  BY DEF ParseIs, InputIs
<1>1. /\ keys \in Seq(ParsedKey) /\ D = 1 .. Len(keys) /\ 1 \in D /\ D \subseteq Nat
      /\ \A k \in D : keys[k] \in ParsedKey
  BY <1>0 DEF KeysAre
<1>2. ASSUME NEW k \in D
      PROVE  /\ keys[k].begin \in Nat /\ keys[k].end \in Nat /\ keys[k].key \in Keys
             /\ keys[k].begin < keys[k].end /\ keys[k].end <= n
             /\ keys[k].key \in AllKeys /\ keys[k].key # zero_key
             /\ <<keys[k].key, keys[k].end - keys[k].begin>> \in Spans
  BY <1>0, <1>1, KeysAreNotZero DEF KeysAre, ParsedKey
<1>a. \A k \in D : /\ keys[k].begin \in Nat /\ keys[k].end \in Nat
                   /\ keys[k].begin < keys[k].end /\ keys[k].end <= n
  BY <1>2
<1>3. \A j, k \in D : j < k => keys[j].end <= keys[k].begin
  BY <1>0 DEF KeysAre
<1>4. M = [i \in 0 .. n |-> Value0(i)]
  BY DEF Filled
<1> HIDE DEF M, keys, D, n, begins, inside
<1>5. ASSUME NEW i \in 0 .. n, begins(i) # {}
      PROVE  \E k \in D : keys[k].begin = i /\ M[i] = <<At(keys[k].key, keys[k].end)>>
  <2>1. begins(i) \subseteq Nat /\ \A k \in begins(i) : k \in D /\ keys[k].begin = i
    BY <1>1 DEF begins
  <2>2. Min(begins(i)) \in begins(i)
    BY <1>5, <2>1, LeastIs
  <2> QED
    BY <1>4, <1>5, <2>1, <2>2
<1>6. ASSUME NEW i \in 0 .. n PROVE Zero(i) => M[i] = <<At(zero_key, i + 1)>>
  BY <1>4
<1>7. ASSUME NEW i \in 0 .. n PROVE begins(i) = {} /\ ~Zero(i) => M[i] = <<>>
  BY <1>4
<1> HIDE DEF Value0
<1>8. \A j : j \in inside <=> \E k \in D : j \in keys[k].begin .. keys[k].end - 1
  BY DEF inside
<1>9. \A i : begins(i) # {} <=> \E k \in D : keys[k].begin = i
  BY DEF begins
\* A key ends where one begins or a zero key is.
<1>10. ASSUME NEW k \in D
       PROVE  keys[k].end \in 0 .. n /\ (begins(keys[k].end) # {} \/ Zero(keys[k].end))
  <2>1. ASSUME NEW j \in D, keys[k].end \in keys[j].begin .. keys[j].end - 1
        PROVE  keys[j].begin = keys[k].end
    <3>1. CASE j < k
      BY <1>a, <1>3, <2>1, <3>1
    <3>2. CASE k < j
      BY <1>a, <1>3, <2>1, <3>2
    <3>3. CASE j = k
      BY <1>2, <2>1, <3>3
    <3> QED
      BY <1>1, <3>1, <3>2, <3>3
  <2>2. ~(keys[k].end < keys[1].begin)
    <3>1. CASE k = 1
      BY <1>a, <3>1
    <3>2. CASE 1 < k
      BY <1>1, <1>a, <1>3, <3>2
    <3> QED
      BY <1>1, <3>1, <3>2
  <2> QED
    BY <1>0, <1>a, <1>8, <1>9, <2>1, <2>2
\* Behind a "'" as well.
<1>11. ASSUME NEW i \in 0 .. n, Zero(i), i # n PROVE begins(i + 1) # {} \/ Zero(i + 1)
  <2>1. ASSUME NEW j \in D, i + 1 \in keys[j].begin .. keys[j].end - 1
        PROVE  keys[j].begin = i + 1
    <3>1. ~(i \in keys[j].begin .. keys[j].end - 1)
      BY <1>8, <1>11
    <3> QED
      BY <1>0, <1>a, <2>1, <3>1
  <2>2. ~(i + 1 < keys[1].begin)
    BY <1>0, <1>1, <1>a, <1>11
  <2> QED
    BY <1>8, <1>9, <2>1, <2>2
<1>12. Zero(n)
  <2>1. ASSUME NEW j \in D PROVE n \notin keys[j].begin .. keys[j].end - 1 /\ keys[j].begin < n
    BY <1>0, <1>a
  <2> QED
    BY <1>0, <1>1, <1>a, <1>8, <1>9, <2>1
<1>13. ASSUME NEW k \in D, NEW j \in keys[k].begin .. keys[k].end - 1 PROVE ~Zero(j)
  BY <1>8
<1> HIDE DEF Zero
<1>14. ASSUME NEW i \in 0 .. n
       PROVE  /\ M[i] \in Seq(Item)
              /\ IsZero(M, i) => Zero(i)
              /\ begins(i) # {} \/ Zero(i) => M[i] # <<>>
              /\ Zero(i) => IsZero(M, i)
  <2>0. i + 1 \in Nat
    BY <1>0
  <2>1. CASE begins(i) # {}
    <3>1. PICK k \in D : M[i] = <<At(keys[k].key, keys[k].end)>>
      BY <1>5, <2>1
    <3>2. ~Zero(i)
      BY <2>1 DEF Zero
    <3>3. Single(M[i], keys[k].key, keys[k].end)
      BY <1>2, <3>1, OneItem
    <3> QED
      BY <1>2, <2>1, <3>2, <3>3 DEF IsZero, Single
  <2>2. CASE Zero(i)
    <3>1. zero_key \in AllKeys
      BY KeysAreNotZero
    <3>2. Single(M[i], zero_key, i + 1)
      BY <1>6, <2>0, <2>2, <3>1, OneItem
    <3> QED
      BY <2>2, <3>2 DEF IsZero, Single
  <2>3. CASE begins(i) = {} /\ ~Zero(i)
    <3>1. M[i] = <<>>
      BY <1>7, <2>3
    <3> QED
      BY <2>3, <3>1 DEF IsZero
  <2> QED
    BY <2>1, <2>2, <2>3
<1>15. ASSUME NEW i \in 0 .. n, NEW k \in DOMAIN M[i]
       PROVE  ItemIs(M, n, i, M[i][k]) /\
              (M[i][k].key # zero_key => <<M[i][k].key, M[i][k].end - i>> \in Spans)
  <2>0. i \in Nat /\ i + 1 \in Nat
    BY <1>0
  <2>1. CASE begins(i) # {}
    <3>1. PICK l \in D : keys[l].begin = i /\ M[i] = <<At(keys[l].key, keys[l].end)>>
      BY <1>5, <2>1
    <3>a. Single(M[i], keys[l].key, keys[l].end)
      BY <1>2, <3>1, OneItem
    <3>2. M[i][k].key = keys[l].key /\ M[i][k].end = keys[l].end
      BY <1>15, <3>a DEF Single
    <3>3. keys[l].end \in i + 1 .. n /\ M[keys[l].end] # <<>>
      BY <1>0, <1>a, <1>10, <1>14, <3>1
    <3>4. ASSUME NEW j \in i .. keys[l].end - 1 PROVE ~IsZero(M, j)
      <4>1. j \in 0 .. n
        BY <1>0, <1>a, <2>0
      <4> QED
        BY <1>13, <1>14, <3>1, <4>1
    <3> QED
      BY <1>2, <3>1, <3>2, <3>3, <3>4 DEF ItemIs
  <2>2. CASE Zero(i)
    <3>1. M[i] = <<At(zero_key, i + 1)>>
      BY <1>6, <2>2
    <3>2. /\ k = 1 /\ M[i] = <<M[i][k]>>
          /\ M[i][k].key = zero_key /\ M[i][k].end = i + 1
      <4>1. Single(M[i], zero_key, i + 1)
        BY <2>0, <3>1, OneItem, KeysAreNotZero
      <4> QED
        BY <1>15, <4>1 DEF Single
    <3>3. i # n => i + 1 \in 0 .. n
      BY <1>0
    <3>4. i # n => M[i + 1] # <<>>
      BY <1>11, <1>14, <2>2, <3>3
    <3> QED
      BY <3>2, <3>4 DEF ItemIs
  <2>3. CASE begins(i) = {} /\ ~Zero(i)
    BY <1>7, <1>15, <2>3
  <2> QED
    BY <2>1, <2>2, <2>3
<1>16. n \in 0 .. n
  BY <1>0
<1>17. M \in [0 .. n -> Seq(Item)] /\ IsZero(M, n)
  <2>1. IsZero(M, n)
    BY <1>12, <1>14, <1>16
  <2>2. M = [i \in 0 .. n |-> M[i]]
    BY <1>4
  <2> QED
    BY <1>14, <2>1, <2>2
<1> QED
  BY <1>15, <1>17 DEF Unfuzzed, Matrices, ItemsAre, KeysSpan, M, n

-----------------------------------------------------------------------------
(* Ways to read it that are added to a matrix. *)

Grows(M, N, width) ==
    \A j \in 0 .. width : \A k \in DOMAIN M[j] : k \in DOMAIN N[j] /\ N[j][k] = M[j][k]

LEMMA GrowsOn ==
    ASSUME NEW L, NEW M, NEW N, NEW width, Grows(L, M, width), Grows(M, N, width)
    PROVE  Grows(L, N, width)
BY DEF Grows

\* What is added are keys over no "'", and nothing to a "'".
AddsKeys(M, N, width) ==
    /\ \A j \in 0 .. width : IsZero(M, j) => N[j] = M[j]
    /\ \A j \in 0 .. width : \A k \in DOMAIN N[j] : k \notin DOMAIN M[j] =>
          /\ N[j][k].key # zero_key
          /\ N[j][k].end \in j + 1 .. width /\ N[N[j][k].end] # <<>>
          /\ \A l \in j .. N[j][k].end - 1 : ~IsZero(M, l)

LEMMA OneOnly == ASSUME NEW n \in Nat, 1 .. n = {1} PROVE n = 1
<1>1. 1 \in 1 .. n /\ 2 \notin 1 .. n
  OBVIOUS
<1> QED
  BY <1>1

LEMMA MatrixGrows ==
    ASSUME NEW width \in Nat, NEW M \in Matrices(width), NEW N \in [0 .. width -> Seq(Item)],
           Grows(M, N, width), AddsKeys(M, N, width)
    PROVE  N \in Matrices(width)
<1>1. /\ IsZero(M, width) /\ ItemsAre(M, width)
      /\ \A j \in 0 .. width : M[j] \in Seq(Item) /\ N[j] \in Seq(Item)
  BY DEF Matrices
<1>2. ASSUME NEW j \in 0 .. width, M[j] # <<>> PROVE N[j] # <<>>
  <2>1. 1 \in DOMAIN M[j]
    BY <1>1, <1>2
  <2>2. 1 \in DOMAIN N[j]
    BY <2>1 DEF Grows
  <2> QED
    BY <2>2
<1>3. ASSUME NEW j \in 0 .. width PROVE IsZero(N, j) <=> IsZero(M, j)
  <2>1. ASSUME IsZero(N, j) PROVE IsZero(M, j)
    <3>1. Len(N[j]) = 1 /\ N[j][1].key = zero_key /\ DOMAIN N[j] = {1}
      BY <1>1, <2>1 DEF IsZero
    <3>2. 1 \in DOMAIN M[j]
      BY <3>1 DEF AddsKeys
    <3>3. M[j][1] = N[j][1] /\ \A k \in DOMAIN M[j] : k = 1
      BY <3>1, <3>2 DEF Grows
    <3>4. Len(M[j]) = 1
      <4>1. DOMAIN M[j] = 1 .. Len(M[j]) /\ Len(M[j]) \in Nat
        BY <1>1
      <4>2. 1 .. Len(M[j]) = {1}
        BY <3>2, <3>3, <4>1
      <4> QED
        BY <4>1, <4>2, OneOnly
    <3> QED
      BY <3>1, <3>3, <3>4 DEF IsZero
  <2>2. ASSUME IsZero(M, j) PROVE IsZero(N, j)
    BY <2>2 DEF AddsKeys, IsZero
  <2> QED
    BY <2>1, <2>2
<1>4. ASSUME NEW j \in 0 .. width, NEW k \in DOMAIN N[j]
      PROVE  ItemIs(N, width, j, N[j][k])
  <2>1. CASE k \in DOMAIN M[j]
    <3> DEFINE x == M[j][k]
    <3>1. N[j][k] = x /\ ItemIs(M, width, j, x)
      BY <1>1, <2>1 DEF Grows, ItemsAre
    <3> HIDE DEF x
    <3>2. CASE x.key = zero_key
      <4>1. M[j] = <<x>> /\ x.end = j + 1 /\ (j # width => M[j + 1] # <<>>)
        BY <3>1, <3>2 DEF ItemIs
      <4>2. IsZero(M, j)
        BY <3>2, <4>1 DEF IsZero
      <4>3. N[j] = <<x>>
        BY <4>1, <4>2 DEF AddsKeys
      <4>4. j # width => j + 1 \in 0 .. width
        OBVIOUS
      <4>5. j # width => N[j + 1] # <<>>
        BY <1>2, <4>1, <4>4
      <4> QED
        BY <3>1, <3>2, <4>1, <4>3, <4>5 DEF ItemIs
    <3>3. CASE x.key # zero_key
      <4>1. /\ x.end \in j + 1 .. width /\ M[x.end] # <<>>
            /\ \A l \in j .. x.end - 1 : ~IsZero(M, l)
        BY <3>1, <3>3 DEF ItemIs
      <4>2. x.end \in 0 .. width /\ \A l \in j .. x.end - 1 : l \in 0 .. width
        BY <4>1
      <4>3. N[x.end] # <<>> /\ \A l \in j .. x.end - 1 : ~IsZero(N, l)
        BY <1>2, <1>3, <4>1, <4>2
      <4> QED
        BY <3>1, <3>3, <4>1, <4>3 DEF ItemIs
    <3> QED
      BY <3>2, <3>3
  <2>2. CASE k \notin DOMAIN M[j]
    <3> DEFINE x == N[j][k]
    <3>1. /\ x.key # zero_key
          /\ x.end \in j + 1 .. width /\ N[x.end] # <<>>
          /\ \A l \in j .. x.end - 1 : ~IsZero(M, l)
      BY <2>2 DEF AddsKeys
    <3>2. \A l \in j .. x.end - 1 : l \in 0 .. width
      BY <3>1
    <3>3. \A l \in j .. x.end - 1 : ~IsZero(N, l)
      BY <1>3, <3>1, <3>2
    <3> QED
      BY <3>1, <3>3 DEF ItemIs
  <2> QED
    BY <2>1, <2>2
<1>5. IsZero(N, width)
  BY <1>1, <1>3
<1> QED
  BY <1>4, <1>5 DEF Matrices, ItemsAre

\* A key between two columns that are not "'"s and have no "'" between them may be
\* replaced by two.
Splits(M, width, i, new, end) ==
    /\ end \in i + 1 .. width /\ M[end] # <<>>
    /\ \A j \in i .. end - 1 : ~IsZero(M, j)
    /\ new.length \in 1 .. (end - i) - 1
    /\ <<new.first, new.length>> \in Spans
    /\ <<new.second, (end - i) - new.length>> \in Spans

LEMMA AppendKeeps ==
    ASSUME NEW c \in Seq(Item), NEW x \in Item
    PROVE  /\ Append(c, x) # <<>>
           /\ \A k \in DOMAIN c : k \in DOMAIN Append(c, x) /\ Append(c, x)[k] = c[k]
           /\ \A k \in DOMAIN Append(c, x) : k \notin DOMAIN c => Append(c, x)[k] = x
<1>1. /\ DOMAIN c = 1 .. Len(c) /\ Len(c) \in Nat
      /\ DOMAIN Append(c, x) = 1 .. Len(c) + 1
  OBVIOUS
<1>2. \A k \in 1 .. Len(c) : k \in 1 .. Len(c) + 1 /\ Append(c, x)[k] = c[k]
  BY <1>1
<1>3. \A k \in 1 .. Len(c) + 1 : k \notin 1 .. Len(c) => k = Len(c) + 1
  BY <1>1
<1>4. Append(c, x)[Len(c) + 1] = x
  OBVIOUS
<1>5. Len(Append(c, x)) = Len(c) + 1 /\ Len(<<>>) = 0
  OBVIOUS
<1> QED
  BY <1>1, <1>2, <1>3, <1>4, <1>5

LEMMA SplitIs ==
    ASSUME NEW width \in Nat, NEW M \in Unfuzzed(width), NEW i \in 0 .. width, NEW new, NEW end,
           Splits(M, width, i, new, end)
    PROVE  /\ Split(M, i, new, end) \in Unfuzzed(width)
           /\ Grows(M, Split(M, i, new, end), width)
<1> DEFINE mid == i + new.length
           a == At(new.first, mid)
           b == At(new.second, end)
           N == Split(M, i, new, end)
<1>1. /\ i \in Nat /\ mid \in Nat /\ end \in Nat /\ mid \in i + 1 .. end - 1
      /\ mid \in 0 .. width /\ end \in 0 .. width /\ mid # i
      /\ mid - i = new.length /\ end - mid = (end - i) - new.length
  BY DEF Splits
<1>2. new.first \in Keys /\ new.second \in Keys
  <2>1. /\ <<new.first, new.length>>[1] \in Keys
        /\ <<new.second, (end - i) - new.length>>[1] \in Keys
    BY DEF Splits, Keys
  <2> QED
    BY <2>1
<1>3. /\ a \in Item /\ a.key = new.first /\ a.end = mid /\ a.key # zero_key
      /\ b \in Item /\ b.key = new.second /\ b.end = end /\ b.key # zero_key
  <2> HIDE DEF mid
  <2> QED
    BY <1>1, <1>2, KeysAreNotZero DEF At, Item
<1>4. M \in [0 .. width -> Seq(Item)] /\ M \in Matrices(width) /\ KeysSpan(M, width)
  BY DEF Unfuzzed, Matrices
<1>5. N = [[M EXCEPT ![i] = Append(M[i], a)] EXCEPT ![mid] = Append(M[mid], b)]
  <2> HIDE DEF mid, a, b
  <2>1. Appended(M, i, a) = [M EXCEPT ![i] = Append(M[i], a)]
    BY <1>4 DEF Appended
  <2>2. Appended(Appended(M, i, a), mid, b)
           = [[M EXCEPT ![i] = Append(M[i], a)] EXCEPT ![mid] = Append(M[mid], b)]
    BY <1>1, <1>4, <2>1 DEF Appended
  <2> QED
    BY <2>2 DEF Split, mid, a, b
<1> HIDE DEF N, mid, a, b
<1>6. /\ N \in [0 .. width -> Seq(Item)]
      /\ N[i] = Append(M[i], a) /\ N[mid] = Append(M[mid], b)
      /\ \A j \in 0 .. width : j # i /\ j # mid => N[j] = M[j]
  <2> DEFINE L == [M EXCEPT ![i] = Append(M[i], a)]
  <2>1. Append(M[i], a) \in Seq(Item) /\ Append(M[mid], b) \in Seq(Item)
    BY <1>1, <1>3, <1>4
  <2>2. /\ L \in [0 .. width -> Seq(Item)] /\ L[i] = Append(M[i], a)
        /\ \A j \in 0 .. width : j # i => L[j] = M[j]
    BY <1>4, <2>1
  <2>3. N = [L EXCEPT ![mid] = Append(M[mid], b)]
    BY <1>5
  <2> HIDE DEF L
  <2>4. /\ N \in [0 .. width -> Seq(Item)] /\ N[mid] = Append(M[mid], b)
        /\ \A j \in 0 .. width : j # mid => N[j] = L[j]
    BY <1>1, <2>1, <2>2, <2>3
  <2> QED
    BY <1>1, <2>2, <2>4
<1>7. ASSUME NEW j \in 0 .. width, NEW k \in DOMAIN M[j]
      PROVE  k \in DOMAIN N[j] /\ N[j][k] = M[j][k]
  <2>1. M[j] \in Seq(Item)
    BY <1>4
  <2>2. CASE j = i
    <3>1. N[j] = Append(M[j], a)
      BY <1>6, <2>2
    <3> QED
      BY <1>3, <2>1, <3>1, AppendKeeps
  <2>3. CASE j = mid
    <3>1. N[j] = Append(M[j], b)
      BY <1>6, <2>3
    <3> QED
      BY <1>3, <2>1, <3>1, AppendKeeps
  <2> QED
    BY <1>6, <2>2, <2>3
<1>8. ASSUME NEW j \in 0 .. width, NEW k \in DOMAIN N[j], k \notin DOMAIN M[j]
      PROVE  \/ j = i /\ N[j][k] = a
             \/ j = mid /\ N[j][k] = b
  <2>1. M[j] \in Seq(Item)
    BY <1>4
  <2>2. CASE j = i
    <3>1. N[j] = Append(M[j], a)
      BY <1>6, <2>2
    <3> QED
      BY <1>3, <1>8, <2>1, <2>2, <3>1, AppendKeeps
  <2>3. CASE j = mid
    <3>1. N[j] = Append(M[j], b)
      BY <1>6, <2>3
    <3> QED
      BY <1>3, <1>8, <2>1, <2>3, <3>1, AppendKeeps
  <2> QED
    BY <1>6, <1>8, <2>2, <2>3
<1>9. N[mid] # <<>> /\ N[end] # <<>>
  <2>1. N[mid] # <<>>
    <3>1. M[mid] \in Seq(Item)
      BY <1>1, <1>4
    <3> QED
      BY <1>3, <1>6, <3>1, AppendKeeps
  <2>2. M[end] # <<>> /\ end # mid /\ end # i
    BY <1>1 DEF Splits
  <2> QED
    BY <1>1, <1>6, <2>1, <2>2
<1>10. Grows(M, N, width)
  BY <1>7 DEF Grows
<1>11. ~IsZero(M, i) /\ ~IsZero(M, mid)
  BY <1>1 DEF Splits
<1>12. AddsKeys(M, N, width)
  <2>1. ASSUME NEW j \in 0 .. width, IsZero(M, j) PROVE N[j] = M[j]
    BY <1>6, <1>11, <2>1
  <2>2. ASSUME NEW j \in 0 .. width, NEW k \in DOMAIN N[j], k \notin DOMAIN M[j]
        PROVE  /\ N[j][k].key # zero_key
               /\ N[j][k].end \in j + 1 .. width /\ N[N[j][k].end] # <<>>
               /\ \A l \in j .. N[j][k].end - 1 : ~IsZero(M, l)
    <3>1. CASE j = i /\ N[j][k] = a
      <4>1. mid \in i + 1 .. width
        BY <1>1
      <4>2. \A l \in i .. mid - 1 : ~IsZero(M, l)
        <5>1. \A l \in i .. mid - 1 : l \in i .. end - 1
          BY <1>1
        <5> QED
          BY <5>1 DEF Splits
      <4> QED
        BY <1>3, <1>9, <3>1, <4>1, <4>2
    <3>2. CASE j = mid /\ N[j][k] = b
      <4>1. end \in mid + 1 .. width
        BY <1>1
      <4>2. \A l \in mid .. end - 1 : ~IsZero(M, l)
        <5>1. \A l \in mid .. end - 1 : l \in i .. end - 1
          BY <1>1
        <5> QED
          BY <5>1 DEF Splits
      <4> QED
        BY <1>3, <1>9, <3>2, <4>1, <4>2
    <3> QED
      BY <1>8, <2>2, <3>1, <3>2
  <2> QED
    BY <2>1, <2>2 DEF AddsKeys
<1>13. N \in Matrices(width)
  BY <1>4, <1>6, <1>10, <1>12, MatrixGrows
<1>14. ASSUME NEW j \in 0 .. width, NEW k \in DOMAIN N[j], N[j][k].key # zero_key
       PROVE  <<N[j][k].key, N[j][k].end - j>> \in Spans
  <2>1. CASE k \in DOMAIN M[j]
    BY <1>4, <1>7, <1>14, <2>1 DEF KeysSpan
  <2>2. CASE k \notin DOMAIN M[j]
    BY <1>1, <1>3, <1>8, <2>2 DEF Splits
  <2> QED
    BY <2>1, <2>2
<1> QED
  BY <1>10, <1>13, <1>14 DEF Unfuzzed, KeysSpan, N

-----------------------------------------------------------------------------
(* Two keys read as two others, and one key as two. *)

\* What a matrix may have become while keys were added to it.
Extensions(M, width) == {N \in Unfuzzed(width) : Grows(M, N, width)}

LEMMA ExtendsItself ==
    ASSUME NEW width \in Nat, NEW M \in Unfuzzed(width) PROVE M \in Extensions(M, width)
BY DEF Extensions, Grows

LEMMA NoItems == ASSUME NEW c \in Seq(Item), DOMAIN c = {} PROVE c = <<>>
<1>1. Len(c) = 0
  <2>1. Len(c) \in Nat /\ DOMAIN c = 1 .. Len(c)
    OBVIOUS
  <2>2. Len(c) # 0 => 1 \in 1 .. Len(c)
    BY <2>1
  <2> QED
    BY <2>1, <2>2
<1> QED
  BY <1>1

LEMMA ColumnIs ==
    ASSUME NEW width \in Nat, NEW M \in Matrices(width), NEW i \in 0 .. width
    PROVE  /\ M[i] \in Seq(Item) /\ Len(M[i]) \in Nat /\ DOMAIN M[i] = 1 .. Len(M[i])
           /\ DOMAIN M = 0 .. width
BY DEF Matrices

\* A key of a matrix that is not fuzzed.
LEMMA KeySpans ==
    ASSUME NEW width \in Nat, NEW M \in Unfuzzed(width), NEW i \in 0 .. width,
           NEW k \in DOMAIN M[i], M[i][k].key # zero_key
    PROVE  /\ M[i][k].end \in i + 1 .. width /\ M[M[i][k].end] # <<>>
           /\ \A j \in i .. M[i][k].end - 1 : ~IsZero(M, j)
           /\ <<M[i][k].key, M[i][k].end - i>> \in Spans
BY DEF Unfuzzed, Matrices, ItemsAre, ItemIs, KeysSpan

LEMMA ResplitPair ==
    ASSUME NEW width \in Nat, NEW N \in Unfuzzed(width), NEW i \in 0 .. width,
           NEW k \in DOMAIN N[i], NEW l \in DOMAIN N[N[i][k].end],
           N[i][k].end \in 0 .. width,
           <<N[i][k].key, N[N[i][k].end][l].key>> \in DOMAIN Resplit
    PROVE  Splits(N, width, i, Resplit[<<N[i][k].key, N[N[i][k].end][l].key>>],
                  N[N[i][k].end][l].end)
<1> DEFINE x == N[i][k]
           y == N[x.end][l]
           pair == <<x.key, y.key>>
           new == Resplit[pair]
<1>1. x.key # zero_key /\ y.key # zero_key
  <2>1. pair \in DOMAIN Resplit
    OBVIOUS
  <2>2. zero_key \notin {pair[1], pair[2]}
    BY <2>1, KeyMatrixAssumption DEF KeysSplit
  <2> QED
    BY <2>2
<1>2. /\ x.end \in i + 1 .. width /\ N[x.end] # <<>>
      /\ \A j \in i .. x.end - 1 : ~IsZero(N, j)
      /\ <<x.key, x.end - i>> \in Spans
  BY <1>1, KeySpans
<1>3. /\ y.end \in x.end + 1 .. width /\ N[y.end] # <<>>
      /\ \A j \in x.end .. y.end - 1 : ~IsZero(N, j)
      /\ <<y.key, y.end - x.end>> \in Spans
  BY <1>1, KeySpans
<1>4. /\ new.length \in 1 .. ((x.end - i) + (y.end - x.end)) - 1
      /\ <<new.first, new.length>> \in Spans
      /\ <<new.second, ((x.end - i) + (y.end - x.end)) - new.length>> \in Spans
  <2> DEFINE a == <<x.key, x.end - i>>
             b == <<y.key, y.end - x.end>>
  <2>1. <<a[1], b[1]>> = pair /\ pair \in DOMAIN Resplit
    OBVIOUS
  <2>2. a \in Spans /\ b \in Spans
    BY <1>2, <1>3
  <2>3. /\ new.length \in 1 .. (a[2] + b[2]) - 1
        /\ {<<new.first, new.length>>, <<new.second, (a[2] + b[2]) - new.length>>} \subseteq Spans
    <3> HIDE DEF a, b, pair
    <3> QED
      BY <2>1, <2>2, KeyMatrixAssumption DEF KeysSplit
  <2>4. a[2] = x.end - i /\ b[2] = y.end - x.end
    OBVIOUS
  <2> HIDE DEF a, b, pair, x, y
  <2> QED
    BY <2>3, <2>4
<1>5. i \in Nat /\ x.end \in Nat /\ y.end \in Nat /\ (x.end - i) + (y.end - x.end) = y.end - i
  <2>1. x.end \in i + 1 .. width
    BY <1>2
  <2>2. y.end \in x.end + 1 .. width
    BY <1>3
  <2> HIDE DEF x, y
  <2> QED
    BY <2>1, <2>2
<1>6. y.end \in i + 1 .. width
  <2>1. x.end \in i + 1 .. width
    BY <1>2
  <2>2. y.end \in x.end + 1 .. width
    BY <1>3
  <2> HIDE DEF x, y
  <2> QED
    BY <2>1, <2>2
<1>7. ASSUME NEW j \in i .. y.end - 1 PROVE ~IsZero(N, j)
  <2>1. j \in i .. x.end - 1 \/ j \in x.end .. y.end - 1
    <3> HIDE DEF x, y
    <3> QED
      BY <1>5
  <2> QED
    BY <1>2, <1>3, <2>1
<1> HIDE DEF new, x, y
<1>8. Splits(N, width, i, new, y.end)
  BY <1>3, <1>4, <1>5, <1>6, <1>7 DEF Splits
<1> QED
  BY <1>8 DEF new, x, y

LEMMA DividedKey ==
    ASSUME NEW width \in Nat, NEW N \in Unfuzzed(width), NEW i \in 0 .. width,
           NEW k \in DOMAIN N[i], N[i][k].key \in DOMAIN Divided
    PROVE  Splits(N, width, i, Divided[N[i][k].key], N[i][k].end)
<1> DEFINE x == N[i][k]
           new == Divided[x.key]
<1>1. x.key # zero_key
  BY KeyMatrixAssumption DEF KeysSplit
<1>2. /\ x.end \in i + 1 .. width /\ N[x.end] # <<>>
      /\ \A j \in i .. x.end - 1 : ~IsZero(N, j)
      /\ <<x.key, x.end - i>> \in Spans
  BY <1>1, KeySpans
<1>3. /\ new.length \in 1 .. (x.end - i) - 1
      /\ <<new.first, new.length>> \in Spans
      /\ <<new.second, (x.end - i) - new.length>> \in Spans
  <2> DEFINE a == <<x.key, x.end - i>>
  <2>1. a[1] = x.key /\ a[2] = x.end - i /\ a \in Spans
    BY <1>2
  <2>2. /\ new.length \in 1 .. a[2] - 1
        /\ {<<new.first, new.length>>, <<new.second, a[2] - new.length>>} \subseteq Spans
    <3> HIDE DEF a, x
    <3>1. a[1] \in DOMAIN Divided /\ Divided[a[1]] = new
      BY <2>1 DEF x
    <3> HIDE DEF new
    <3> QED
      BY <2>1, <3>1, KeyMatrixAssumption DEF KeysSplit
  <2> HIDE DEF a, x, new
  <2> QED
    BY <2>1, <2>2
<1> HIDE DEF new, x
<1>4. Splits(N, width, i, new, x.end)
  BY <1>2, <1>3 DEF Splits
<1> QED
  BY <1>4 DEF new, x

LEMMA ExtendedMore ==
    ASSUME NEW width \in Nat, NEW M \in Unfuzzed(width), NEW N \in Extensions(M, width),
           NEW L \in Extensions(N, width)
    PROVE  L \in Extensions(M, width)
BY GrowsOn DEF Extensions

LEMMA SplitExtends ==
    ASSUME NEW width \in Nat, NEW M \in Unfuzzed(width), NEW N \in Extensions(M, width),
           NEW i \in 0 .. width, NEW new, NEW end, Splits(N, width, i, new, end)
    PROVE  Split(N, i, new, end) \in Extensions(M, width)
<1>1. N \in Unfuzzed(width)
  BY DEF Extensions
<1>2. Split(N, i, new, end) \in Extensions(N, width)
  BY <1>1, SplitIs DEF Extensions
<1> QED
  BY <1>2, ExtendedMore

\* resplit_step, for a key of a column.
LEMMA ResplitKeyIs ==
    ASSUME NEW width \in Nat, NEW M \in Unfuzzed(width), NEW i \in 0 .. width,
           NEW m \in DOMAIN M[i]
    PROVE  ResplitKey(M, i, M[i][m]) \in Extensions(M, width)
<1> DEFINE x == M[i][m]
           found == M[x.end]
<1> SUFFICES ASSUME x.end \in DOMAIN M
             PROVE  ResplitKey(M, i, x) \in Extensions(M, width)
  <2>1. CASE x.end \in DOMAIN M
    BY <2>1
  <2>2. CASE x.end \notin DOMAIN M
    <3>1. ResplitKey(M, i, x) = M
      BY <2>2 DEF ResplitKey
    <3> QED
      BY <3>1, ExtendsItself
  <2> QED
    BY <2>1, <2>2
<1>a. M \in Matrices(width)
  BY DEF Unfuzzed
<1>b. DOMAIN M = 0 .. width
  BY <1>a, ColumnIs
<1>c. Len(found) \in Nat /\ DOMAIN found = 1 .. Len(found)
  BY <1>a, <1>b, ColumnIs
<1> DEFINE n == Len(found)
           A == Extensions(M, width)
           Body(k, N) == IF <<x.key, found[k].key>> \in DOMAIN Resplit
                          THEN Split(N, i, Resplit[<<x.key, found[k].key>>], found[k].end)
                          ELSE N
           Step == [k \in 1 .. n |-> [N \in A |-> Body(k, N)]]
           Eq(done) == done = [k \in 0 .. n |-> IF k = 0 THEN M ELSE Body(k, done[k - 1])]
           function == CHOOSE done : Eq(done)
<1>0. n \in Nat
  BY <1>c
<1>1. M \in A
  BY ExtendsItself
<1>2. ASSUME NEW k \in 1 .. n, NEW N \in A PROVE Body(k, N) \in A
  <2>1. N \in Unfuzzed(width) /\ Grows(M, N, width)
    BY DEF Extensions
  <2>2. m \in DOMAIN N[i] /\ N[i][m] = x
    BY <2>1 DEF Grows
  <2>3. k \in DOMAIN N[x.end] /\ N[x.end][k] = found[k]
    BY <1>b, <1>c, <2>1 DEF Grows
  <2>4. CASE <<x.key, found[k].key>> \in DOMAIN Resplit
    <3>1. Splits(N, width, i, Resplit[<<x.key, found[k].key>>], found[k].end)
      <4>1. Splits(N, width, i, Resplit[<<N[i][m].key, N[N[i][m].end][k].key>>],
                   N[N[i][m].end][k].end)
        BY <1>b, <2>1, <2>2, <2>3, <2>4, ResplitPair
      <4> HIDE DEF x, found
      <4> QED
        BY <2>2, <2>3, <4>1
    <3> QED
      BY <2>4, <3>1, SplitExtends
  <2>5. CASE <<x.key, found[k].key>> \notin DOMAIN Resplit
    BY <2>5
  <2> QED
    BY <2>4, <2>5
<1> HIDE DEF n, A, Body
<1>3. Step \in [1 .. n -> [A -> A]]
  BY <1>2
<1>4. Recursions(n, A, M, Step) # {}
  <2> HIDE DEF Step
  <2> QED
    BY <1>0, <1>1, <1>3, RecursionUpTo
<1>5. PICK f \in [0 .. n -> A] : f[0] = M /\ \A k \in 1 .. n : f[k] = Step[k][f[k - 1]]
  BY <1>4 DEF Recursions
<1>6. ASSUME NEW k \in 0 .. n PROVE f[k] = IF k = 0 THEN M ELSE Body(k, f[k - 1])
  <2>1. CASE k = 0
    BY <1>5, <2>1
  <2>2. CASE k # 0
    <3>1. k \in 1 .. n /\ f[k - 1] \in A
      BY <1>0, <2>2
    <3> QED
      BY <1>5, <2>2, <3>1
  <2> QED
    BY <2>1, <2>2
<1>7. Eq(f)
  <2>1. f = [k \in 0 .. n |-> f[k]]
    OBVIOUS
  <2> QED
    BY <1>6, <2>1
<1>8. Eq(function)
  <2> HIDE DEF Eq
  <2> QED
    BY <1>7
<1>9. \A k \in 0 .. n : function[k] = IF k = 0 THEN M ELSE Body(k, function[k - 1])
  <2> HIDE DEF function
  <2> QED
    BY <1>8
<1>10. function[n] \in A
  <2> DEFINE T == {k \in 0 .. n : function[k] \in A}
  <2> HIDE DEF function
  <2>1. 0 \in T
    <3>1. 0 \in 0 .. n
      BY <1>0
    <3> QED
      BY <1>1, <1>9, <3>1
  <2>2. ASSUME NEW k \in 1 .. n, k - 1 \in T PROVE k \in T
    <3>1. k \in 0 .. n /\ k # 0 /\ function[k - 1] \in A
      BY <1>0, <2>2
    <3>2. function[k] = Body(k, function[k - 1])
      BY <1>9, <3>1
    <3> QED
      BY <1>2, <3>1, <3>2
  <2>3. 0 .. n \subseteq T
    <3> HIDE DEF T
    <3> QED
      BY <1>0, <2>1, <2>2, InductionUpTo
  <2> QED
    BY <1>0, <2>3
<1>11. ResplitKey(M, i, x) = function[n]
  BY DEF ResplitKey, function, Eq, n, Body
<1> QED
  BY <1>10, <1>11 DEF A

LEMMA ResplitAtIs ==
    ASSUME NEW width \in Nat, NEW M \in Unfuzzed(width), NEW i \in 0 .. width
    PROVE  ResplitAt(M, i) \in Extensions(M, width)
<1> SUFFICES ASSUME i # size(M) - 1
             PROVE  ResplitAt(M, i) \in Extensions(M, width)
  <2>1. CASE i = size(M) - 1
    <3>1. ResplitAt(M, i) = M
      BY <2>1 DEF ResplitAt
    <3> QED
      BY <3>1, ExtendsItself
  <2> QED
    BY <2>1
<1>a. M \in Matrices(width)
  BY DEF Unfuzzed
<1>b. Len(M[i]) \in Nat /\ DOMAIN M[i] = 1 .. Len(M[i])
  BY <1>a, ColumnIs
<1> DEFINE n == Len(M[i])
           A == Extensions(M, width)
           Body(k, N) == ResplitKey(N, i, M[i][k])
           Step == [k \in 1 .. n |-> [N \in A |-> Body(k, N)]]
           Eq(done) == done = [k \in 0 .. n |-> IF k = 0 THEN M ELSE Body(k, done[k - 1])]
           function == CHOOSE done : Eq(done)
<1>0. n \in Nat
  BY <1>b
<1>1. M \in A
  BY ExtendsItself
<1>2. ASSUME NEW k \in 1 .. n, NEW N \in A PROVE Body(k, N) \in A
  <2>1. N \in Unfuzzed(width) /\ Grows(M, N, width)
    BY DEF Extensions
  <2>2. k \in DOMAIN N[i] /\ N[i][k] = M[i][k]
    BY <1>b, <2>1 DEF Grows
  <2>3. ResplitKey(N, i, N[i][k]) \in Extensions(N, width)
    BY <2>1, <2>2, ResplitKeyIs
  <2> QED
    BY <2>2, <2>3, ExtendedMore
<1> HIDE DEF n, A, Body
<1>3. Step \in [1 .. n -> [A -> A]]
  BY <1>2
<1>4. Recursions(n, A, M, Step) # {}
  <2> HIDE DEF Step
  <2> QED
    BY <1>0, <1>1, <1>3, RecursionUpTo
<1>5. PICK f \in [0 .. n -> A] : f[0] = M /\ \A k \in 1 .. n : f[k] = Step[k][f[k - 1]]
  BY <1>4 DEF Recursions
<1>6. ASSUME NEW k \in 0 .. n PROVE f[k] = IF k = 0 THEN M ELSE Body(k, f[k - 1])
  <2>1. CASE k = 0
    BY <1>5, <2>1
  <2>2. CASE k # 0
    <3>1. k \in 1 .. n /\ f[k - 1] \in A
      BY <1>0, <2>2
    <3> QED
      BY <1>5, <2>2, <3>1
  <2> QED
    BY <2>1, <2>2
<1>7. Eq(f)
  <2>1. f = [k \in 0 .. n |-> f[k]]
    OBVIOUS
  <2> QED
    BY <1>6, <2>1
<1>8. Eq(function)
  <2> HIDE DEF Eq
  <2> QED
    BY <1>7
<1>9. \A k \in 0 .. n : function[k] = IF k = 0 THEN M ELSE Body(k, function[k - 1])
  <2> HIDE DEF function
  <2> QED
    BY <1>8
<1>10. function[n] \in A
  <2> DEFINE T == {k \in 0 .. n : function[k] \in A}
  <2> HIDE DEF function
  <2>1. 0 \in T
    <3>1. 0 \in 0 .. n
      BY <1>0
    <3> QED
      BY <1>1, <1>9, <3>1
  <2>2. ASSUME NEW k \in 1 .. n, k - 1 \in T PROVE k \in T
    <3>1. k \in 0 .. n /\ k # 0 /\ function[k - 1] \in A
      BY <1>0, <2>2
    <3>2. function[k] = Body(k, function[k - 1])
      BY <1>9, <3>1
    <3> QED
      BY <1>2, <3>1, <3>2
  <2>3. 0 .. n \subseteq T
    <3> HIDE DEF T
    <3> QED
      BY <1>0, <2>1, <2>2, InductionUpTo
  <2> QED
    BY <1>0, <2>3
<1>11. ResplitAt(M, i) = function[n]
  BY DEF ResplitAt, function, Eq, n, Body
<1> QED
  BY <1>10, <1>11 DEF A

\* inner_split_step, for a column.
LEMMA InnerSplitAtIs ==
    ASSUME NEW width \in Nat, NEW M \in Unfuzzed(width), NEW i \in 0 .. width
    PROVE  InnerSplitAt(M, i) \in Extensions(M, width)
<1>a. M \in Matrices(width)
  BY DEF Unfuzzed
<1>b. Len(M[i]) \in Nat /\ DOMAIN M[i] = 1 .. Len(M[i])
  BY <1>a, ColumnIs
<1> DEFINE n == Len(M[i])
           A == Extensions(M, width)
           Body(k, N) == IF M[i][k].key \in DOMAIN Divided
                          THEN Split(N, i, Divided[M[i][k].key], M[i][k].end)
                          ELSE N
           Step == [k \in 1 .. n |-> [N \in A |-> Body(k, N)]]
           Eq(done) == done = [k \in 0 .. n |-> IF k = 0 THEN M ELSE Body(k, done[k - 1])]
           function == CHOOSE done : Eq(done)
<1>0. n \in Nat
  BY <1>b
<1>1. M \in A
  BY ExtendsItself
<1>2. ASSUME NEW k \in 1 .. n, NEW N \in A PROVE Body(k, N) \in A
  <2>1. N \in Unfuzzed(width) /\ Grows(M, N, width)
    BY DEF Extensions
  <2>2. k \in DOMAIN N[i] /\ N[i][k] = M[i][k]
    BY <1>b, <2>1 DEF Grows
  <2>3. CASE M[i][k].key \in DOMAIN Divided
    <3>1. Splits(N, width, i, Divided[M[i][k].key], M[i][k].end)
      BY <2>1, <2>2, <2>3, DividedKey
    <3> QED
      BY <2>3, <3>1, SplitExtends
  <2>4. CASE M[i][k].key \notin DOMAIN Divided
    BY <2>4
  <2> QED
    BY <2>3, <2>4
<1> HIDE DEF n, A, Body
<1>3. Step \in [1 .. n -> [A -> A]]
  BY <1>2
<1>4. Recursions(n, A, M, Step) # {}
  <2> HIDE DEF Step
  <2> QED
    BY <1>0, <1>1, <1>3, RecursionUpTo
<1>5. PICK f \in [0 .. n -> A] : f[0] = M /\ \A k \in 1 .. n : f[k] = Step[k][f[k - 1]]
  BY <1>4 DEF Recursions
<1>6. ASSUME NEW k \in 0 .. n PROVE f[k] = IF k = 0 THEN M ELSE Body(k, f[k - 1])
  <2>1. CASE k = 0
    BY <1>5, <2>1
  <2>2. CASE k # 0
    <3>1. k \in 1 .. n /\ f[k - 1] \in A
      BY <1>0, <2>2
    <3> QED
      BY <1>5, <2>2, <3>1
  <2> QED
    BY <2>1, <2>2
<1>7. Eq(f)
  <2>1. f = [k \in 0 .. n |-> f[k]]
    OBVIOUS
  <2> QED
    BY <1>6, <2>1
<1>8. Eq(function)
  <2> HIDE DEF Eq
  <2> QED
    BY <1>7
<1>9. \A k \in 0 .. n : function[k] = IF k = 0 THEN M ELSE Body(k, function[k - 1])
  <2> HIDE DEF function
  <2> QED
    BY <1>8
<1>10. function[n] \in A
  <2> DEFINE T == {k \in 0 .. n : function[k] \in A}
  <2> HIDE DEF function
  <2>1. 0 \in T
    <3>1. 0 \in 0 .. n
      BY <1>0
    <3> QED
      BY <1>1, <1>9, <3>1
  <2>2. ASSUME NEW k \in 1 .. n, k - 1 \in T PROVE k \in T
    <3>1. k \in 0 .. n /\ k # 0 /\ function[k - 1] \in A
      BY <1>0, <2>2
    <3>2. function[k] = Body(k, function[k - 1])
      BY <1>9, <3>1
    <3> QED
      BY <1>2, <3>1, <3>2
  <2>3. 0 .. n \subseteq T
    <3> HIDE DEF T
    <3> QED
      BY <1>0, <2>1, <2>2, InductionUpTo
  <2> QED
    BY <1>0, <2>3
<1>11. InnerSplitAt(M, i) = function[n]
  BY DEF InnerSplitAt, function, Eq, n, Body
<1> QED
  BY <1>10, <1>11 DEF A

LEMMA SizeIs ==
    ASSUME NEW width \in Nat, NEW M \in Matrices(width) PROVE size(M) = width + 1
<1>1. DOMAIN M = 0 .. width
  BY DEF Matrices
<1>2. Cardinality(0 .. width) = width + 1
  <2>1. 0 \in Int /\ width \in Int /\ ~(0 > width)
    OBVIOUS
  <2>2. Cardinality(0 .. width) = IF 0 > width THEN 0 ELSE width - 0 + 1
    BY <2>1, FS_Interval
  <2> QED
    BY <2>1, <2>2
<1> QED
  BY <1>1, <1>2 DEF size

LEMMA NoColumns == size(NoMatrix) = 0
<1>1. DOMAIN NoMatrix = {}
  BY DEF NoMatrix
<1>2. Cardinality({}) = 0
  BY FS_EmptySet
<1> QED
  BY <1>1, <1>2 DEF size

\* resplit_step
LEMMA ResplittedIs ==
    ASSUME NEW width \in Nat, NEW M \in Unfuzzed(width) \cup {NoMatrix}
    PROVE  Resplitted(M) \in Unfuzzed(width) \cup {NoMatrix}
<1>a. M # NoMatrix => size(M) = width + 1
  BY SizeIs DEF Unfuzzed
<1>b. M = NoMatrix => size(M) = 0
  BY NoColumns
<1> DEFINE n == size(M)
           A == Unfuzzed(width) \cup ({M} \cap {NoMatrix})
           Body(k, N) == ResplitAt(N, k - 1)
           Step == [k \in 1 .. n |-> [N \in A |-> Body(k, N)]]
           Eq(done) == done = [k \in 0 .. n |-> IF k = 0 THEN M ELSE Body(k, done[k - 1])]
           function == CHOOSE done : Eq(done)
<1>0. n \in Nat
  BY <1>a, <1>b
<1>1. M \in A
  OBVIOUS
<1>2. ASSUME NEW k \in 1 .. n, NEW N \in A PROVE Body(k, N) \in A
  <2>1. M # NoMatrix
    BY <1>b
  <2>2. k - 1 \in 0 .. width /\ N \in Unfuzzed(width)
    BY <1>a, <2>1
  <2> QED
    BY <2>2, ResplitAtIs DEF Extensions
<1> HIDE DEF n, A, Body
<1>3. Step \in [1 .. n -> [A -> A]]
  BY <1>2
<1>4. Recursions(n, A, M, Step) # {}
  <2> HIDE DEF Step
  <2> QED
    BY <1>0, <1>1, <1>3, RecursionUpTo
<1>5. PICK f \in [0 .. n -> A] : f[0] = M /\ \A k \in 1 .. n : f[k] = Step[k][f[k - 1]]
  BY <1>4 DEF Recursions
<1>6. ASSUME NEW k \in 0 .. n PROVE f[k] = IF k = 0 THEN M ELSE Body(k, f[k - 1])
  <2>1. CASE k = 0
    BY <1>5, <2>1
  <2>2. CASE k # 0
    <3>1. k \in 1 .. n /\ f[k - 1] \in A
      BY <1>0, <2>2
    <3> QED
      BY <1>5, <2>2, <3>1
  <2> QED
    BY <2>1, <2>2
<1>7. Eq(f)
  <2>1. f = [k \in 0 .. n |-> f[k]]
    OBVIOUS
  <2> QED
    BY <1>6, <2>1
<1>8. Eq(function)
  <2> HIDE DEF Eq
  <2> QED
    BY <1>7
<1>9. \A k \in 0 .. n : function[k] = IF k = 0 THEN M ELSE Body(k, function[k - 1])
  <2> HIDE DEF function
  <2> QED
    BY <1>8
<1>10. function[n] \in A
  <2> DEFINE T == {k \in 0 .. n : function[k] \in A}
  <2> HIDE DEF function
  <2>1. 0 \in T
    <3>1. 0 \in 0 .. n
      BY <1>0
    <3> QED
      BY <1>1, <1>9, <3>1
  <2>2. ASSUME NEW k \in 1 .. n, k - 1 \in T PROVE k \in T
    <3>1. k \in 0 .. n /\ k # 0 /\ function[k - 1] \in A
      BY <1>0, <2>2
    <3>2. function[k] = Body(k, function[k - 1])
      BY <1>9, <3>1
    <3> QED
      BY <1>2, <3>1, <3>2
  <2>3. 0 .. n \subseteq T
    <3> HIDE DEF T
    <3> QED
      BY <1>0, <2>1, <2>2, InductionUpTo
  <2> QED
    BY <1>0, <2>3
<1>11. Resplitted(M) = function[n]
  BY DEF Resplitted, function, Eq, n, Body
<1> QED
  BY <1>10, <1>11 DEF A

\* inner_split_step
LEMMA InnerSplitIs ==
    ASSUME NEW width \in Nat, NEW M \in Unfuzzed(width) \cup {NoMatrix}
    PROVE  InnerSplit(M) \in Unfuzzed(width) \cup {NoMatrix}
<1>a. M # NoMatrix => size(M) = width + 1
  BY SizeIs DEF Unfuzzed
<1>b. M = NoMatrix => size(M) = 0
  BY NoColumns
<1> DEFINE n == size(M)
           A == Unfuzzed(width) \cup ({M} \cap {NoMatrix})
           Body(k, N) == InnerSplitAt(N, k - 1)
           Step == [k \in 1 .. n |-> [N \in A |-> Body(k, N)]]
           Eq(done) == done = [k \in 0 .. n |-> IF k = 0 THEN M ELSE Body(k, done[k - 1])]
           function == CHOOSE done : Eq(done)
<1>0. n \in Nat
  BY <1>a, <1>b
<1>1. M \in A
  OBVIOUS
<1>2. ASSUME NEW k \in 1 .. n, NEW N \in A PROVE Body(k, N) \in A
  <2>1. M # NoMatrix
    BY <1>b
  <2>2. k - 1 \in 0 .. width /\ N \in Unfuzzed(width)
    BY <1>a, <2>1
  <2> QED
    BY <2>2, InnerSplitAtIs DEF Extensions
<1> HIDE DEF n, A, Body
<1>3. Step \in [1 .. n -> [A -> A]]
  BY <1>2
<1>4. Recursions(n, A, M, Step) # {}
  <2> HIDE DEF Step
  <2> QED
    BY <1>0, <1>1, <1>3, RecursionUpTo
<1>5. PICK f \in [0 .. n -> A] : f[0] = M /\ \A k \in 1 .. n : f[k] = Step[k][f[k - 1]]
  BY <1>4 DEF Recursions
<1>6. ASSUME NEW k \in 0 .. n PROVE f[k] = IF k = 0 THEN M ELSE Body(k, f[k - 1])
  <2>1. CASE k = 0
    BY <1>5, <2>1
  <2>2. CASE k # 0
    <3>1. k \in 1 .. n /\ f[k - 1] \in A
      BY <1>0, <2>2
    <3> QED
      BY <1>5, <2>2, <3>1
  <2> QED
    BY <2>1, <2>2
<1>7. Eq(f)
  <2>1. f = [k \in 0 .. n |-> f[k]]
    OBVIOUS
  <2> QED
    BY <1>6, <2>1
<1>8. Eq(function)
  <2> HIDE DEF Eq
  <2> QED
    BY <1>7
<1>9. \A k \in 0 .. n : function[k] = IF k = 0 THEN M ELSE Body(k, function[k - 1])
  <2> HIDE DEF function
  <2> QED
    BY <1>8
<1>10. function[n] \in A
  <2> DEFINE T == {k \in 0 .. n : function[k] \in A}
  <2> HIDE DEF function
  <2>1. 0 \in T
    <3>1. 0 \in 0 .. n
      BY <1>0
    <3> QED
      BY <1>1, <1>9, <3>1
  <2>2. ASSUME NEW k \in 1 .. n, k - 1 \in T PROVE k \in T
    <3>1. k \in 0 .. n /\ k # 0 /\ function[k - 1] \in A
      BY <1>0, <2>2
    <3>2. function[k] = Body(k, function[k - 1])
      BY <1>9, <3>1
    <3> QED
      BY <1>2, <3>1, <3>2
  <2>3. 0 .. n \subseteq T
    <3> HIDE DEF T
    <3> QED
      BY <1>0, <2>1, <2>2, InductionUpTo
  <2> QED
    BY <1>0, <2>3
<1>11. InnerSplit(M) = function[n]
  BY DEF InnerSplit, function, Eq, n, Body
<1> QED
  BY <1>10, <1>11 DEF A

-----------------------------------------------------------------------------
(* Fuzzy syllables. *)

LEMMA SetToSeqIs ==
    ASSUME NEW S, IsFiniteSet(S) PROVE SetToSeq(S) \in Seq(S)
<1> DEFINE n == Cardinality(S)
<1>1. n \in Nat /\ ExistsBijection(1 .. n, S)
  BY FS_CardinalityType
<1>2. \E f \in [1 .. n -> S] : IsInjective(f)
  BY <1>1 DEF ExistsBijection, Bijection, Injection
<1>3. SetToSeq(S) \in [1 .. n -> S]
  BY <1>2 DEF SetToSeq
<1> HIDE DEF n
<1> QED
  BY <1>1, <1>3

\* The keys made of those of a column.
Variants(items) ==
    {s \in Seq(Item) : \A k \in DOMAIN s : \E m \in DOMAIN items :
        /\ s[k].key # zero_key /\ items[m].key # zero_key
        /\ s[k].end = items[m].end}

LEMMA VariantsOfKey ==
    ASSUME NEW items \in Seq(Item), NEW m \in DOMAIN items,
           NEW amb \in SUBSET (AmbInitials \cup AmbFinals)
    PROVE  SetToSeq({At(key, items[m].end) : key \in
                        {p[2] : p \in {q \in amb : q[1] = items[m].key}}}) \in Variants(items)
<1> DEFINE x == items[m]
           Q == {q \in amb : q[1] = x.key}
           S == {At(key, x.end) : key \in {p[2] : p \in Q}}
           f == [q \in Q |-> At(q[2], x.end)]
<1>1. x \in Item /\ x.end \in Nat
  <2>1. items[m] \in Item
    OBVIOUS
  <2> QED
    BY <2>1 DEF Item
<1>2. IsFiniteSet(S)
  <2>1. IsFiniteSet(AmbInitials \cup AmbFinals)
    BY KeyMatrixAssumption, FS_Union
  <2>2. Q \in SUBSET (AmbInitials \cup AmbFinals)
    OBVIOUS
  <2>3. IsFiniteSet(Q)
    BY <2>1, <2>2, FS_Subset
  <2>4. f \in Surjection(Q, S)
    BY DEF Surjection
  <2> HIDE DEF Q, S, f
  <2> QED
    BY <2>3, <2>4, FS_Surjection
<1>3. ASSUME NEW item \in S
      PROVE  item \in Item /\ item.key # zero_key /\ x.key # zero_key /\ item.end = x.end
  <2>1. PICK q \in Q : item = At(q[2], x.end)
    OBVIOUS
  <2>2. q \in AmbInitials \cup AmbFinals /\ zero_key \notin {q[1], q[2]} /\ q[1] = x.key
    BY KeyMatrixAssumption
  <2>3. q[2] \in AllKeys
    BY <2>2 DEF AllKeys
  <2> QED
    BY <1>1, <2>1, <2>2, <2>3 DEF At, Item
<1>4. SetToSeq(S) \in Seq(S)
  BY <1>2, SetToSeqIs
<1>5. ASSUME NEW s \in Seq(S) PROVE s \in Variants(items)
  <2>1. DOMAIN s = 1 .. Len(s) /\ Len(s) \in Nat
    OBVIOUS
  <2>2. ASSUME NEW k \in DOMAIN s
        PROVE  /\ s[k] \in Item /\ s[k].key # zero_key /\ x.key # zero_key
               /\ s[k].end = x.end
    <3>1. s[k] \in S
      BY <2>1
    <3> HIDE DEF S, x
    <3> QED
      BY <1>3, <3>1
  <2>3. s \in Seq(Item)
    <3>1. s = [k \in 1 .. Len(s) |-> s[k]] /\ \A k \in 1 .. Len(s) : s[k] \in Item
      BY <2>1, <2>2
    <3>2. s \in [1 .. Len(s) -> Item]
      BY <3>1
    <3> QED
      BY <2>1, <3>2
  <2> QED
    BY <2>2, <2>3 DEF Variants
<1> QED
  BY <1>4, <1>5

LEMMA VariantsAppended ==
    ASSUME NEW items, NEW s \in Variants(items), NEW t \in Variants(items)
    PROVE  s \o t \in Variants(items)
<1>1. s \in Seq(Item) /\ t \in Seq(Item) /\ s \o t \in Seq(Item)
  BY DEF Variants
<1>2. /\ DOMAIN s = 1 .. Len(s) /\ DOMAIN t = 1 .. Len(t)
      /\ Len(s) \in Nat /\ Len(t) \in Nat
      /\ DOMAIN (s \o t) = 1 .. Len(s) + Len(t)
  BY <1>1
<1>3. ASSUME NEW k \in DOMAIN (s \o t)
      PROVE  \/ k \in DOMAIN s /\ (s \o t)[k] = s[k]
             \/ k - Len(s) \in DOMAIN t /\ (s \o t)[k] = t[k - Len(s)]
  BY <1>1, <1>2
<1>4. ASSUME NEW k \in DOMAIN (s \o t)
      PROVE  \E m \in DOMAIN items :
                /\ (s \o t)[k].key # zero_key /\ items[m].key # zero_key
                /\ (s \o t)[k].end = items[m].end
  <2>1. CASE k \in DOMAIN s /\ (s \o t)[k] = s[k]
    BY <2>1 DEF Variants
  <2>2. CASE k - Len(s) \in DOMAIN t /\ (s \o t)[k] = t[k - Len(s)]
    BY <2>2 DEF Variants
  <2> QED
    BY <1>3, <2>1, <2>2
<1> QED
  BY <1>1, <1>4 DEF Variants

LEMMA OthersIs ==
    ASSUME NEW items \in Seq(Item), NEW amb \in SUBSET (AmbInitials \cup AmbFinals)
    PROVE  Others(items, amb) \in Variants(items)
<1> DEFINE n == Len(items)
           A == Variants(items)
           Body(k, N) == N \o SetToSeq({At(key, items[k].end) : key \in
                               {p[2] : p \in {q \in amb : q[1] = items[k].key}}})
           Step == [k \in 1 .. n |-> [N \in A |-> Body(k, N)]]
           Eq(done) == done = [k \in 0 .. n |-> IF k = 0 THEN <<>> ELSE Body(k, done[k - 1])]
           function == CHOOSE done : Eq(done)
<1>0. n \in Nat
  OBVIOUS
<1>1. <<>> \in A
  BY DEF Variants
<1>2. ASSUME NEW k \in 1 .. n, NEW N \in A PROVE Body(k, N) \in A
  <2>1. k \in DOMAIN items
    OBVIOUS
  <2> QED
    BY <2>1, VariantsOfKey, VariantsAppended
<1> HIDE DEF n, A, Body
<1>3. Step \in [1 .. n -> [A -> A]]
  BY <1>2
<1>4. Recursions(n, A, <<>>, Step) # {}
  <2> HIDE DEF Step
  <2> QED
    BY <1>0, <1>1, <1>3, RecursionUpTo
<1>5. PICK f \in [0 .. n -> A] : f[0] = <<>> /\ \A k \in 1 .. n : f[k] = Step[k][f[k - 1]]
  BY <1>4 DEF Recursions
<1>6. ASSUME NEW k \in 0 .. n PROVE f[k] = IF k = 0 THEN <<>> ELSE Body(k, f[k - 1])
  <2>1. CASE k = 0
    BY <1>5, <2>1
  <2>2. CASE k # 0
    <3>1. k \in 1 .. n /\ f[k - 1] \in A
      BY <1>0, <2>2
    <3> QED
      BY <1>5, <2>2, <3>1
  <2> QED
    BY <2>1, <2>2
<1>7. Eq(f)
  <2>1. f = [k \in 0 .. n |-> f[k]]
    OBVIOUS
  <2> QED
    BY <1>6, <2>1
<1>8. Eq(function)
  <2> HIDE DEF Eq
  <2> QED
    BY <1>7
<1>9. \A k \in 0 .. n : function[k] = IF k = 0 THEN <<>> ELSE Body(k, function[k - 1])
  <2> HIDE DEF function
  <2> QED
    BY <1>8
<1>10. function[n] \in A
  <2> DEFINE T == {k \in 0 .. n : function[k] \in A}
  <2> HIDE DEF function
  <2>1. 0 \in T
    <3>1. 0 \in 0 .. n
      BY <1>0
    <3> QED
      BY <1>1, <1>9, <3>1
  <2>2. ASSUME NEW k \in 1 .. n, k - 1 \in T PROVE k \in T
    <3>1. k \in 0 .. n /\ k # 0 /\ function[k - 1] \in A
      BY <1>0, <2>2
    <3>2. function[k] = Body(k, function[k - 1])
      BY <1>9, <3>1
    <3> QED
      BY <1>2, <3>1, <3>2
  <2>3. 0 .. n \subseteq T
    <3> HIDE DEF T
    <3> QED
      BY <1>0, <2>1, <2>2, InductionUpTo
  <2> QED
    BY <1>0, <2>3
<1>11. Others(items, amb) = function[n]
  BY DEF Others, function, Eq, n, Body
<1> QED
  BY <1>10, <1>11 DEF A

\* fuzzy_syllable_step, for a column: a "'" makes nothing, and what keys make ends
\* where keys end.
LEMMA FuzzyAtIs ==
    ASSUME NEW width \in Nat, NEW M \in Matrices(width), NEW i \in 0 .. width
    PROVE  FuzzyAt(M, i) \in Matrices(width)
<1> DEFINE syllables == {p \in AmbInitials : p[2] \notin NoSyllable}
           V == Others(M[i], syllables)
           initials == M[i] \o V
           W == Others(initials, AmbFinals)
           N == FuzzyAt(M, i)
<1>1. /\ M \in [0 .. width -> Seq(Item)] /\ ItemsAre(M, width)
      /\ M[i] \in Seq(Item)
  BY DEF Matrices
<1>2. V \in Variants(M[i])
  <2>1. syllables \in SUBSET (AmbInitials \cup AmbFinals)
    OBVIOUS
  <2> HIDE DEF syllables
  <2> QED
    BY <1>1, <2>1, OthersIs
<1>3. initials \in Seq(Item)
  BY <1>1, <1>2 DEF Variants
<1>4. W \in Variants(initials)
  <2>1. AmbFinals \in SUBSET (AmbInitials \cup AmbFinals)
    OBVIOUS
  <2> HIDE DEF initials
  <2> QED
    BY <1>3, <2>1, OthersIs
<1> HIDE DEF V, W
\* What is added ends where a key of the column does.
<1>5. ASSUME NEW k \in DOMAIN (M[i] \o V)
      PROVE  \/ k \in DOMAIN M[i] /\ (M[i] \o V)[k] = M[i][k]
             \/ /\ k \notin DOMAIN M[i] /\ (M[i] \o V)[k].key # zero_key
                /\ \E m \in DOMAIN M[i] : /\ M[i][m].key # zero_key
                                          /\ (M[i] \o V)[k].end = M[i][m].end
  <2>1. k \in DOMAIN M[i] => (M[i] \o V)[k] = M[i][k]
    BY <1>1, <1>2 DEF Variants
  <2>2. ASSUME k \notin DOMAIN M[i]
        PROVE  k - Len(M[i]) \in DOMAIN V /\ (M[i] \o V)[k] = V[k - Len(M[i])]
    BY <1>1, <1>2, <2>2 DEF Variants
  <2>3. ASSUME k \notin DOMAIN M[i]
        PROVE  /\ (M[i] \o V)[k].key # zero_key
               /\ \E m \in DOMAIN M[i] : /\ M[i][m].key # zero_key
                                         /\ (M[i] \o V)[k].end = M[i][m].end
    BY <1>2, <2>2, <2>3 DEF Variants
  <2> QED
    BY <2>1, <2>3
<1>6. ASSUME NEW m \in DOMAIN initials, initials[m].key # zero_key
      PROVE  \E o \in DOMAIN M[i] : M[i][o].key # zero_key /\ initials[m].end = M[i][o].end
  BY <1>5, <1>6
<1> HIDE DEF initials
<1>7. /\ N = [M EXCEPT ![i] = initials \o W]
      /\ initials \o W \in Seq(Item) /\ Len(initials) \in Nat /\ Len(M[i]) \in Nat
      /\ DOMAIN M[i] = 1 .. Len(M[i]) /\ DOMAIN initials = 1 .. Len(initials)
  <2>1. initials \o W \in Seq(Item)
    BY <1>3, <1>4 DEF Variants
  <2> QED
    BY <1>1, <1>3, <2>1 DEF FuzzyAt, W, V, initials
<1> HIDE DEF N
<1>8. /\ N \in [0 .. width -> Seq(Item)] /\ N[i] = initials \o W
      /\ \A j \in 0 .. width : j # i => N[j] = M[j]
  BY <1>1, <1>7
<1>9. ASSUME NEW k \in DOMAIN M[i]
      PROVE  k \in DOMAIN initials /\ initials[k] = M[i][k]
  BY <1>1, <1>2, <1>9 DEF initials, Variants
<1>10. ASSUME NEW k \in DOMAIN initials
       PROVE  k \in DOMAIN N[i] /\ N[i][k] = initials[k]
  BY <1>3, <1>4, <1>8 DEF Variants
<1>11. Grows(M, N, width)
  BY <1>8, <1>9, <1>10 DEF Grows
<1>12. ASSUME NEW k \in DOMAIN N[i], k \notin DOMAIN M[i]
       PROVE  /\ N[i][k].key # zero_key
              /\ \E o \in DOMAIN M[i] : M[i][o].key # zero_key /\ N[i][k].end = M[i][o].end
  <2>1. CASE k \in DOMAIN initials
    BY <1>5, <1>10, <1>12, <2>1 DEF initials
  <2>2. CASE k \notin DOMAIN initials
    <3>1. k - Len(initials) \in DOMAIN W /\ N[i][k] = W[k - Len(initials)]
      BY <1>3, <1>4, <1>8, <2>2 DEF Variants
    <3>2. PICK m \in DOMAIN initials :
            /\ N[i][k].key # zero_key /\ initials[m].key # zero_key
            /\ N[i][k].end = initials[m].end
      BY <1>4, <3>1 DEF Variants
    <3> QED
      BY <1>6, <3>2
  <2> QED
    BY <2>1, <2>2
<1>13. AddsKeys(M, N, width)
  <2>1. ASSUME NEW j \in 0 .. width, IsZero(M, j) PROVE N[j] = M[j]
    <3>1. CASE j # i
      BY <1>8, <3>1
    <3>2. CASE j = i
      <4>1. Len(M[i]) = 1 /\ M[i][1].key = zero_key
        BY <2>1, <3>2 DEF IsZero
      <4>2. \A m \in DOMAIN M[i] : M[i][m].key = zero_key
        BY <1>7, <4>1
      <4>3. V = <<>>
        <5>1. ASSUME NEW k \in DOMAIN V PROVE FALSE
          BY <1>2, <4>2, <5>1 DEF Variants
        <5>2. V \in Seq(Item)
          BY <1>2 DEF Variants
        <5> QED
          BY <5>1, <5>2, NoItems
      <4>4. initials = M[i]
        BY <1>1, <4>3 DEF initials
      <4>5. W = <<>>
        <5>1. ASSUME NEW k \in DOMAIN W PROVE FALSE
          BY <1>4, <4>2, <4>4, <5>1 DEF Variants
        <5>2. W \in Seq(Item)
          BY <1>4 DEF Variants
        <5> QED
          BY <5>1, <5>2, NoItems
      <4> QED
        BY <1>1, <1>8, <3>2, <4>4, <4>5
    <3> QED
      BY <3>1, <3>2
  <2>2. ASSUME NEW j \in 0 .. width, NEW k \in DOMAIN N[j], k \notin DOMAIN M[j]
        PROVE  /\ N[j][k].key # zero_key
               /\ N[j][k].end \in j + 1 .. width /\ N[N[j][k].end] # <<>>
               /\ \A l \in j .. N[j][k].end - 1 : ~IsZero(M, l)
    <3>1. j = i
      BY <1>8, <2>2
    <3>2. PICK o \in DOMAIN M[i] : M[i][o].key # zero_key /\ N[i][k].end = M[i][o].end
      BY <1>12, <2>2, <3>1
    <3>3. /\ M[i][o].end \in i + 1 .. width /\ M[M[i][o].end] # <<>>
          /\ \A l \in i .. M[i][o].end - 1 : ~IsZero(M, l)
      BY <1>1, <3>2 DEF ItemsAre, ItemIs
    <3>4. M[i][o].end \in 0 .. width /\ M[i][o].end # i
      BY <3>3
    <3>5. N[M[i][o].end] = M[M[i][o].end]
      BY <1>8, <3>4
    <3> QED
      BY <1>12, <2>2, <3>1, <3>2, <3>3, <3>5
  <2> QED
    BY <2>1, <2>2 DEF AddsKeys
<1> QED
  BY <1>8, <1>11, <1>13, MatrixGrows DEF N

\* fuzzy_syllable_step
LEMMA FuzzyIs ==
    ASSUME NEW width \in Nat, NEW M \in Matrices(width) \cup {NoMatrix}
    PROVE  Fuzzy(M) \in Matrices(width) \cup {NoMatrix}
<1>a. M # NoMatrix => size(M) = width + 1
  BY SizeIs
<1>b. M = NoMatrix => size(M) = 0
  BY NoColumns
<1> DEFINE n == size(M)
           A == Matrices(width) \cup ({M} \cap {NoMatrix})
           Body(k, N) == FuzzyAt(N, k - 1)
           Step == [k \in 1 .. n |-> [N \in A |-> Body(k, N)]]
           Eq(done) == done = [k \in 0 .. n |-> IF k = 0 THEN M ELSE Body(k, done[k - 1])]
           function == CHOOSE done : Eq(done)
<1>0. n \in Nat
  BY <1>a, <1>b
<1>1. M \in A
  OBVIOUS
<1>2. ASSUME NEW k \in 1 .. n, NEW N \in A PROVE Body(k, N) \in A
  <2>1. M # NoMatrix
    BY <1>b
  <2>2. k - 1 \in 0 .. width /\ N \in Matrices(width)
    BY <1>a, <2>1
  <2> QED
    BY <2>2, FuzzyAtIs
<1> HIDE DEF n, A, Body
<1>3. Step \in [1 .. n -> [A -> A]]
  BY <1>2
<1>4. Recursions(n, A, M, Step) # {}
  <2> HIDE DEF Step
  <2> QED
    BY <1>0, <1>1, <1>3, RecursionUpTo
<1>5. PICK f \in [0 .. n -> A] : f[0] = M /\ \A k \in 1 .. n : f[k] = Step[k][f[k - 1]]
  BY <1>4 DEF Recursions
<1>6. ASSUME NEW k \in 0 .. n PROVE f[k] = IF k = 0 THEN M ELSE Body(k, f[k - 1])
  <2>1. CASE k = 0
    BY <1>5, <2>1
  <2>2. CASE k # 0
    <3>1. k \in 1 .. n /\ f[k - 1] \in A
      BY <1>0, <2>2
    <3> QED
      BY <1>5, <2>2, <3>1
  <2> QED
    BY <2>1, <2>2
<1>7. Eq(f)
  <2>1. f = [k \in 0 .. n |-> f[k]]
    OBVIOUS
  <2> QED
    BY <1>6, <2>1
<1>8. Eq(function)
  <2> HIDE DEF Eq
  <2> QED
    BY <1>7
<1>9. \A k \in 0 .. n : function[k] = IF k = 0 THEN M ELSE Body(k, function[k - 1])
  <2> HIDE DEF function
  <2> QED
    BY <1>8
<1>10. function[n] \in A
  <2> DEFINE T == {k \in 0 .. n : function[k] \in A}
  <2> HIDE DEF function
  <2>1. 0 \in T
    <3>1. 0 \in 0 .. n
      BY <1>0
    <3> QED
      BY <1>1, <1>9, <3>1
  <2>2. ASSUME NEW k \in 1 .. n, k - 1 \in T PROVE k \in T
    <3>1. k \in 0 .. n /\ k # 0 /\ function[k - 1] \in A
      BY <1>0, <2>2
    <3>2. function[k] = Body(k, function[k - 1])
      BY <1>9, <3>1
    <3> QED
      BY <1>2, <3>1, <3>2
  <2>3. 0 .. n \subseteq T
    <3> HIDE DEF T
    <3> QED
      BY <1>0, <2>1, <2>2, InductionUpTo
  <2> QED
    BY <1>0, <2>3
<1>11. Fuzzy(M) = function[n]
  BY DEF Fuzzy, function, Eq, n, Body
<1> QED
  BY <1>10, <1>11 DEF A

-----------------------------------------------------------------------------
(* The cursor stays on keys. *)

\* An offset that the cursor may be left at.
OnKey(M, o) == o = 0 \/ M[o] # <<>>

LEMMA ZeroStartIs ==
    ASSUME NEW width \in Nat, NEW o \in 0 .. width, NEW M, OnKey(M, o)
    PROVE  ZeroStart(M, o) \in 0 .. width /\ OnKey(M, ZeroStart(M, o))
<1> DEFINE T == {o} \cup {z \in 1 .. o - 1 : \A i \in z .. o - 1 : IsZero(M, i)}
<1>1. T \in SUBSET Nat /\ T # {} /\ T \subseteq 0 .. width
  OBVIOUS
<1>2. ZeroStart(M, o) \in T
  <2>1. ZeroStart(M, o) = Min(T)
    BY DEF ZeroStart
  <2> HIDE DEF T
  <2> QED
    BY <1>1, <2>1, LeastIs
<1>3. ASSUME NEW z \in T PROVE OnKey(M, z)
  <2>1. CASE z = o
    BY <2>1
  <2>2. CASE z # o
    <3>1. z \in 1 .. o - 1 /\ \A i \in z .. o - 1 : IsZero(M, i)
      BY <2>2
    <3>2. z \in z .. o - 1
      BY <3>1
    <3>3. Len(M[z]) = 1
      BY <3>1, <3>2 DEF IsZero
    <3>4. M[z] # <<>>
      BY <3>3
    <3> QED
      BY <3>4 DEF OnKey
  <2> QED
    BY <2>1, <2>2
<1> HIDE DEF T
<1> QED
  BY <1>1, <1>2, <1>3

LEMMA KeyAtOrBeforeIs ==
    ASSUME NEW width \in Nat, NEW cursor \in 0 .. width, NEW M
    PROVE  KeyAtOrBefore(M, cursor) \in 0 .. width /\ OnKey(M, KeyAtOrBefore(M, cursor))
<1> DEFINE T == {0} \cup {i \in 1 .. cursor : M[i] # <<>>}
<1>1. T \in SUBSET (0 .. width) /\ T # {}
  OBVIOUS
<1>2. KeyAtOrBefore(M, cursor) \in T
  <2>1. KeyAtOrBefore(M, cursor) = Max(T)
    BY DEF KeyAtOrBefore
  <2> HIDE DEF T
  <2> QED
    BY <1>1, <2>1, GreatestIs
<1> QED
  BY <1>1, <1>2 DEF OnKey

LEMMA KeyBeforeIs ==
    ASSUME NEW width \in Nat, NEW M \in Matrices(width), NEW o \in 0 .. width
    PROVE  KeyBefore(M, o) \in 0 .. width /\ OnKey(M, KeyBefore(M, o))
<1> DEFINE T == {0} \cup {i \in 1 .. o - 1 : \E item \in ToSet(M[i]) : item.end = o}
<1>1. T \in SUBSET (0 .. width) /\ T # {}
  OBVIOUS
<1>2. KeyBefore(M, o) \in T
  <2>1. KeyBefore(M, o) = Max(T)
    BY DEF KeyBefore
  <2> HIDE DEF T
  <2> QED
    BY <1>1, <2>1, GreatestIs
<1>3. ASSUME NEW i \in T PROVE OnKey(M, i)
  <2>1. CASE i = 0
    BY <2>1 DEF OnKey
  <2>2. CASE i # 0
    <3>1. i \in 0 .. width /\ \E item \in ToSet(M[i]) : item.end = o
      BY <2>2
    <3>2. DOMAIN M[i] # {}
      BY <3>1 DEF ToSet
    <3>3. M[i] \in Seq(Item) /\ DOMAIN <<>> = {}
      BY <3>1, ColumnIs
    <3> QED
      BY <3>2, <3>3 DEF OnKey
  <2> QED
    BY <2>1, <2>2
<1> HIDE DEF T
<1> QED
  BY <1>1, <1>2, <1>3

LEMMA KeyFromIs ==
    ASSUME NEW width \in Nat, NEW M \in Matrices(width), NEW o \in 0 .. width
    PROVE  KeyFrom(M, o) \in 0 .. width
<1> DEFINE T == {o} \cup {i \in o + 1 .. size(M) - 1 : \A z \in o .. i - 1 : IsZero(M, z)}
<1>1. T \in SUBSET (0 .. width) /\ T # {}
  BY SizeIs
<1>2. KeyFrom(M, o) \in T
  <2>1. KeyFrom(M, o) = Max(T)
    BY DEF KeyFrom
  <2> HIDE DEF T
  <2> QED
    BY <1>1, <2>1, GreatestIs
<1> QED
  BY <1>1, <1>2

\* The first key of a column ends where it may be looked up from, or CheckOffset is
\* false of its end, which follows a "'".
LEMMA KeyBehindIs ==
    ASSUME NEW width \in Nat, NEW M \in Matrices(width), NEW from \in 0 .. width,
           M[from] # <<>>, CheckOffset(M, M[from][1].end)
    PROVE  M[from][1].end \in 0 .. width /\ OnKey(M, M[from][1].end)
<1> DEFINE x == M[from][1]
<1>1. M[from] \in Seq(Item) /\ 1 \in DOMAIN M[from]
  BY ColumnIs
<1>2. ItemIs(M, width, from, x)
  BY <1>1 DEF Matrices, ItemsAre
<1>3. x.key # zero_key
  <2>1. ASSUME x.key = zero_key PROVE FALSE
    <3>1. M[from] = <<x>> /\ x.end = from + 1
      BY <1>2, <2>1 DEF ItemIs
    <3>2. IsZero(M, from)
      BY <2>1, <3>1 DEF IsZero
    <3>3. x.end > 0 /\ x.end - 1 = from
      BY <3>1
    <3> QED
      BY <3>2, <3>3 DEF CheckOffset
  <2> QED
    BY <2>1
<1> QED
  BY <1>2, <1>3 DEF ItemIs, OnKey

LEMMA MoveToKeepsKeysInv ==
    ASSUME KeysInv, NEW o, NEW fits, MoveTo(o, fits),
           fits => o = 0 \/ CheckOffset(matrix, o),
           fits => \/ matrix = NoMatrix /\ o = 0
                   \/ \E width \in Nat : /\ matrix \in Matrices(width) /\ o \in 0 .. width
                                         /\ OnKey(matrix, o)
    PROVE  KeysInv'
<1>1. input' = input /\ parse' = parse /\ matrix' = matrix
  BY DEF MoveTo
<1>2. CASE fits
  <2>1. offset' = o /\ status' = status
    BY <1>2 DEF MoveTo
  <2>2. MatrixIs'
    BY <1>1, <1>2, <2>1 DEF MatrixIs
  <2>3. offset' = 0 \/ (matrix'[offset'] # <<>> /\ CheckOffset(matrix', offset'))
    BY <1>1, <1>2, <2>1 DEF OnKey
  <2> QED
    BY <1>1, <2>2, <2>3 DEF KeysInv
<1>3. CASE ~fits
  <2>1. offset' = offset /\ status' = "aborted"
    BY <1>3 DEF MoveTo
  <2>2. MatrixIs'
    BY <1>1, <2>1 DEF MatrixIs, KeysInv
  <2> QED
    BY <1>1, <2>1, <2>2 DEF KeysInv
<1> QED
  BY <1>2, <1>3

LEMMA GetPinyinOffsetKeepsKeysInv ==
    ASSUME KeysInv, NEW cursor \in Nat, GetPinyinOffset(cursor) PROVE KeysInv'
<1> DEFINE from == Min({cursor, parse.parsed_len})
           to == ZeroStart(matrix, KeyAtOrBefore(matrix, from))
<1>1. from \in Nat
  <2>1. {cursor, parse.parsed_len} \in SUBSET Nat /\ {cursor, parse.parsed_len} # {}
    BY DEF KeysInv
  <2> QED
    BY <2>1, LeastIs
<1> HIDE DEF from
<1>2. CASE from = 0 \/ from \in DOMAIN matrix
  <2>1. MoveTo(to, CheckOffset(matrix, to))
    BY <1>2 DEF GetPinyinOffset, from
  <2>2. ASSUME NEW width \in Nat, from \in 0 .. width
        PROVE  to \in 0 .. width /\ OnKey(matrix, to)
    BY <2>2, KeyAtOrBeforeIs, ZeroStartIs
  <2>3. \/ matrix = NoMatrix /\ to = 0
        \/ \E width \in Nat : /\ matrix \in Matrices(width) /\ to \in 0 .. width
                              /\ OnKey(matrix, to)
    <3> HIDE DEF to
    <3>1. CASE matrix = NoMatrix
      <4>1. from = 0
        BY <1>2, <3>1 DEF NoMatrix
      <4>2. to \in 0 .. 0
        BY <2>2, <4>1
      <4> QED
        BY <3>1, <4>2
    <3>2. CASE \E width \in Nat : matrix \in Matrices(width)
      <4>1. PICK width \in Nat : matrix \in Matrices(width)
        BY <3>2
      <4>2. from \in 0 .. width
        BY <1>2, <4>1 DEF Matrices
      <4> QED
        BY <2>2, <4>1, <4>2
    <3> QED
      BY <3>1, <3>2 DEF KeysInv, MatrixIs
  <2> HIDE DEF to
  <2> QED
    BY <2>1, <2>3, MoveToKeepsKeysInv
<1>3. CASE ~(from = 0 \/ from \in DOMAIN matrix)
  <2>1. MoveTo(0, FALSE)
    BY <1>3 DEF GetPinyinOffset, from
  <2> QED
    BY <2>1, MoveToKeepsKeysInv
<1> QED
  BY <1>2, <1>3

LEMMA GetLeftPinyinOffsetKeepsKeysInv ==
    ASSUME KeysInv, GetLeftPinyinOffset PROVE KeysInv'
<1> DEFINE to == ZeroStart(matrix, KeyBefore(matrix, offset))
<1>1. MoveTo(to, CheckOffset(matrix, to))
  BY DEF GetLeftPinyinOffset
<1>2. \/ matrix = NoMatrix /\ to = 0
      \/ \E width \in Nat : /\ matrix \in Matrices(width) /\ to \in 0 .. width
                            /\ OnKey(matrix, to)
  <2>1. CASE matrix = NoMatrix /\ offset = 0
    <3>1. KeyBefore(matrix, offset) = Max({0})
      <4>1. {0} \cup {i \in 1 .. 0 - 1 : \E item \in ToSet(matrix[i]) : item.end = offset} = {0}
        OBVIOUS
      <4> QED
        BY <2>1, <4>1 DEF KeyBefore
    <3>2. Max({0}) = 0
      BY GreatestIs
    <3>3. OnKey(matrix, 0)
      BY DEF OnKey
    <3>4. to \in 0 .. 0
      BY <3>1, <3>2, <3>3, ZeroStartIs
    <3> QED
      BY <2>1, <3>4
  <2>2. CASE \E width \in Nat : matrix \in Matrices(width) /\ offset \in 0 .. width
    <3>1. PICK width \in Nat : matrix \in Matrices(width) /\ offset \in 0 .. width
      BY <2>2
    <3>2. to \in 0 .. width /\ OnKey(matrix, to)
      BY <3>1, KeyBeforeIs, ZeroStartIs
    <3> QED
      BY <3>1, <3>2
  <2> QED
    BY <2>1, <2>2 DEF KeysInv, MatrixIs
<1> HIDE DEF to
<1> QED
  BY <1>1, <1>2, MoveToKeepsKeysInv

LEMMA GetRightPinyinOffsetKeepsKeysInv ==
    ASSUME KeysInv, GetRightPinyinOffset PROVE KeysInv'
<1>1. CASE matrix = NoMatrix
  <2>1. MoveTo(0, FALSE)
    BY <1>1 DEF GetRightPinyinOffset
  <2> QED
    BY <2>1, MoveToKeepsKeysInv
<1>2. CASE matrix # NoMatrix
  <2> DEFINE from == KeyFrom(matrix, offset)
             to == matrix[from][1].end
  <2>1. matrix[from] # <<>> /\ MoveTo(to, CheckOffset(matrix, to))
    BY <1>2 DEF GetRightPinyinOffset
  <2>2. PICK width \in Nat : matrix \in Matrices(width) /\ offset \in 0 .. width
    BY <1>2 DEF KeysInv, MatrixIs
  <2>3. from \in 0 .. width
    BY <2>2, KeyFromIs
  <2> HIDE DEF from
  <2>4. CheckOffset(matrix, to) => to \in 0 .. width /\ OnKey(matrix, to)
    BY <2>1, <2>2, <2>3, KeyBehindIs
  <2> HIDE DEF to
  <2> QED
    BY <2>1, <2>2, <2>4, MoveToKeepsKeysInv
<1> QED
  BY <1>1, <1>2

-----------------------------------------------------------------------------
(* The matrix of every parse. *)

LEMMA ParsedKeepsKeysInv ==
    ASSUME KeysInv, NEW parsed, NEW M, Parsed(parsed, M), ParseIs(input, parsed),
           M \in Matrices(parsed.parsed_len) \cup {NoMatrix}
    PROVE  KeysInv'
<1>1. /\ input' = input /\ parse' = parsed /\ matrix' = M /\ offset' = offset
      /\ status' = status /\ matrix = NoMatrix
  BY DEF Parsed
<1>2. input.len \in Nat /\ parsed.parsed_len \in 0 .. input.len
  BY DEF KeysInv, InputIs, ParseIs
<1>3. parsed.parsed_len \in Nat
  BY <1>2
<1>4. offset = 0
  <2>1. ASSUME NEW width \in Nat, NoMatrix \in Matrices(width) PROVE FALSE
    <3>1. DOMAIN NoMatrix = 0 .. width
      BY <2>1 DEF Matrices
    <3>2. DOMAIN NoMatrix = {} /\ 0 \in 0 .. width
      BY DEF NoMatrix
    <3> QED
      BY <3>1, <3>2
  <2> QED
    BY <1>1, <2>1 DEF KeysInv, MatrixIs
<1>5. MatrixIs'
  <2>1. CASE M = NoMatrix
    BY <1>1, <1>4, <2>1 DEF MatrixIs
  <2>2. CASE M \in Matrices(parsed.parsed_len)
    <3>1. matrix' \in Matrices(parsed.parsed_len) /\ offset' \in 0 .. parsed.parsed_len
      BY <1>1, <1>3, <1>4, <2>2
    <3> QED
      BY <1>3, <3>1 DEF MatrixIs
  <2> QED
    BY <2>1, <2>2
<1> QED
  BY <1>1, <1>3, <1>4, <1>5 DEF KeysInv

LEMMA FuzzyWhenIs ==
    ASSUME NEW width \in Nat, NEW M \in Unfuzzed(width) \cup {NoMatrix}, NEW options
    PROVE  FuzzyWhen(M, options) \in Matrices(width) \cup {NoMatrix}
<1>1. M \in Matrices(width) \cup {NoMatrix}
  BY DEF Unfuzzed
<1> QED
  BY <1>1, FuzzyIs DEF FuzzyWhen

LEMMA FilledOrEmpty ==
    ASSUME NEW inp, InputIs(inp), NEW parsed, ParseIs(inp, parsed)
    PROVE  /\ parsed.parsed_len \in Nat
           /\ Filled(parsed) \in Unfuzzed(parsed.parsed_len) \cup {NoMatrix}
<1>1. parsed.parsed_len \in Nat
  BY DEF InputIs, ParseIs
<1>2. parsed.keys = <<>> => Filled(parsed) = NoMatrix
  BY DEF Filled
<1> QED
  BY <1>1, <1>2, FilledIs

LEMMA ParseMoreFullPinyinsKeepsKeysInv ==
    ASSUME KeysInv, NEW options, ParseMoreFullPinyins(options) PROVE KeysInv'
<1> DEFINE parsed == FullParse(input)
           M1 == Filled(parsed)
           M2 == IF "USE_RESPLIT_TABLE" \in options THEN Resplitted(M1) ELSE M1
           M3 == IF "USE_DIVIDED_TABLE" \in options THEN InnerSplit(M2) ELSE M2
           width == parsed.parsed_len
<1>1. InputIs(input)
  BY DEF KeysInv
<1>2. ParseIs(input, parsed)
  BY <1>1, FullParseIs
<1>3. Parsed(parsed, FuzzyWhen(M3, options))
  BY DEF ParseMoreFullPinyins
<1> HIDE DEF parsed
<1>4. width \in Nat /\ M1 \in Unfuzzed(width) \cup {NoMatrix}
  BY <1>1, <1>2, FilledOrEmpty
<1> HIDE DEF M1
<1>5. M2 \in Unfuzzed(width) \cup {NoMatrix}
  BY <1>4, ResplittedIs
<1> HIDE DEF M2
<1>6. M3 \in Unfuzzed(width) \cup {NoMatrix}
  BY <1>4, <1>5, InnerSplitIs
<1> HIDE DEF M3
<1>7. FuzzyWhen(M3, options) \in Matrices(width) \cup {NoMatrix}
  BY <1>4, <1>6, FuzzyWhenIs
<1> QED
  BY <1>2, <1>3, <1>7, ParsedKeepsKeysInv

\* pinyin_parse_more_double_pinyins and pinyin_parse_more_chewings.
LEMMA ForwardParseKeepsKeysInv ==
    ASSUME KeysInv, NEW max, NEW valid, NEW options,
           Parsed(ForwardMatch(input, max, valid),
                  FuzzyWhen(Filled(ForwardMatch(input, max, valid)), options))
    PROVE  KeysInv'
<1> DEFINE parsed == ForwardMatch(input, max, valid)
<1>1. InputIs(input)
  BY DEF KeysInv
<1>2. ParseIs(input, parsed)
  BY <1>1, ForwardMatchIs
<1>3. Parsed(parsed, FuzzyWhen(Filled(parsed), options))
  OBVIOUS
<1> HIDE DEF parsed
<1>4. FuzzyWhen(Filled(parsed), options) \in Matrices(parsed.parsed_len) \cup {NoMatrix}
  BY <1>1, <1>2, FilledOrEmpty, FuzzyWhenIs
<1> QED
  BY <1>2, <1>3, <1>4, ParsedKeepsKeysInv

-----------------------------------------------------------------------------
(* The key matrix, in every state. *)

LEMMA KeysInvAtInit == KeyMatrixInit => KeysInv
<1> SUFFICES ASSUME KeyMatrixInit PROVE KeysInv
  OBVIOUS
<1>1. InputIs(input)
  BY NoInputIs DEF KeyMatrixInit
<1>2. /\ parse.parsed_len = 0 /\ matrix = NoMatrix /\ offset = 0
  BY DEF KeyMatrixInit
<1> QED
  BY <1>1, <1>2 DEF KeysInv, MatrixIs

LEMMA KeysInvKept == KeysInv /\ [KeyMatrixNext]_keyMatrixVars => KeysInv'
<1> SUFFICES ASSUME KeysInv, [KeyMatrixNext]_keyMatrixVars PROVE KeysInv'
  OBVIOUS
<1>1. ASSUME NEW keys, NEW token, LoadText(keys, token) PROVE KeysInv'
  <2>1. /\ input' = input /\ parse' = parse /\ matrix' = matrix /\ offset' = offset
        /\ status # "aborted"
    BY <1>1 DEF LoadText
  <2> QED
    BY <2>1 DEF KeysInv, MatrixIs
<1>2. ASSUME UNCHANGED session PROVE KeysInv'
  <2>1. /\ input' = input /\ parse' = parse /\ matrix' = matrix /\ offset' = offset
        /\ status' = status
    BY <1>2 DEF session
  <2> QED
    BY <2>1 DEF KeysInv, MatrixIs
<1>3. ASSUME Type PROVE KeysInv'
  <2>1. /\ parse' = parse /\ matrix' = matrix /\ offset' = offset /\ status' = status
        /\ input' \in Grown
    BY <1>3 DEF Type
  <2>2. InputIs(input')
    BY <2>1, GrownIs DEF KeysInv
  <2> QED
    BY <2>1, <2>2 DEF KeysInv, MatrixIs
<1>4. ASSUME Reset PROVE KeysInv'
  <2>1. /\ parse'.parsed_len = 0 /\ matrix' = NoMatrix /\ offset' = 0 /\ input' = NoInput
    BY <1>4 DEF Reset
  <2>2. InputIs(input')
    BY <2>1, NoInputIs
  <2> QED
    BY <2>1, <2>2 DEF KeysInv, MatrixIs
<1>5. ASSUME NEW options, ParseMoreDoublePinyins(options) \/ ParseMoreChewings(options)
      PROVE  KeysInv'
  BY <1>5, ForwardParseKeepsKeysInv
     DEF ParseMoreDoublePinyins, ParseMoreChewings, DoubleParse, ChewingParse
<1>6. ASSUME NEW cursor \in 0 .. MaxTyped, GetPinyinOffset(cursor) PROVE KeysInv'
  <2>1. cursor \in Nat
    OBVIOUS
  <2> QED
    BY <1>6, <2>1, GetPinyinOffsetKeepsKeysInv
<1>7. ASSUME NEW keys, NEW token, AddPhrase(keys, token) \/ RemovePhrase(keys, token)
      PROVE  KeysInv'
  BY <1>2, <1>7 DEF AddPhrase, RemovePhrase
<1>8. ASSUME NEW S, MaskOut(S) PROVE KeysInv'
  BY <1>2, <1>8 DEF MaskOut
<1>9. CASE KeyMatrixNext
  BY <1>1, <1>3, <1>4, <1>5, <1>6, <1>7, <1>8, <1>9, ParseMoreFullPinyinsKeepsKeysInv,
     GetLeftPinyinOffsetKeepsKeysInv, GetRightPinyinOffsetKeepsKeysInv DEF KeyMatrixNext
<1>10. CASE UNCHANGED keyMatrixVars
  BY <1>2, <1>10 DEF keyMatrixVars
<1> QED
  BY <1>9, <1>10

\* What is typed is spelled by keys, and a matrix leads from key to key: in every
\* state, whatever options it was parsed with (the inductive invariant).
THEOREM MatrixLeadsToKeys == KeyMatrixSpec => []KeysInv
BY KeysInvAtInit, KeysInvKept, PTL DEF KeyMatrixSpec

\* The cursor calls leave the offset where candidates can be looked up from.
THEOREM CursorAlwaysOnKey == KeyMatrixSpec => []CursorOnKey
<1>1. KeysInv => CursorOnKey
  BY DEF KeysInv, CursorOnKey
<1> QED
  BY <1>1, MatrixLeadsToKeys, PTL

-----------------------------------------------------------------------------
(* The search of a matrix. *)

\* Whether the recursion comes to a column, by the columns before it.
VisitOf(M, start, end, visited, s) ==
    s = start \/ \E b \in start .. Min({s, end}) - 1 :
                    visited[b] /\ \E item \in ToSet(M[b]) : item.end = s

\* A key of a column before ends there.
EndsAt(M, start, end, s) ==
    \E b \in start .. end - 1 : b < s /\ \E item \in ToSet(M[b]) : item.end = s

\* A column it comes to, other than the first, is where a key ends of one before.
LEMMA VisitedIs ==
    ASSUME NEW width \in Nat, NEW M \in Matrices(width),
           NEW start \in 0 .. width, NEW end \in 0 .. width,
           NEW s \in Visited(M, start, end)
    PROVE  s \in start .. width + 1 /\ (s = start \/ EndsAt(M, start, end, s))
<1> DEFINE bound == size(M)
           D == start .. bound
           m == [c \in D |-> c - start]
           G == [c \in D |-> BOOLEAN]
           Step == [c \in D |-> [f \in [D -> BOOLEAN] |-> VisitOf(M, start, end, f, c)]]
           Eq(visited) == visited = [c \in D |-> VisitOf(M, start, end, visited, c)]
           function == CHOOSE visited : Eq(visited)
<1>0. bound = width + 1 /\ bound - start \in Nat
  BY SizeIs
<1> HIDE DEF bound
<1>1. \A c \in D : c \in Nat /\ \A b \in start .. Min({c, end}) - 1 :
         b \in D /\ b < c /\ b \in start .. end - 1
  <2>1. ASSUME NEW c \in D PROVE c \in Nat /\ Min({c, end}) <= c /\ Min({c, end}) <= end
                                 /\ Min({c, end}) \in Nat
    <3>1. {c, end} \in SUBSET Nat /\ {c, end} # {}
      BY <1>0
    <3> QED
      BY <1>0, <3>1, LeastIs
  <2> QED
    BY <1>0, <2>1
<1>2. m \in [D -> 0 .. bound - start] /\ \A c \in D : m[c] = c - start
  BY <1>0
<1>3. G \in [D -> SUBSET BOOLEAN]
  OBVIOUS
<1>4. ASSUME NEW c, NEW f PROVE VisitOf(M, start, end, f, c) \in BOOLEAN
  BY DEF VisitOf
<1>5. Step \in [D -> [[D -> BOOLEAN] -> BOOLEAN]]
  BY <1>4
<1>6. DependsOnLess(D, m, BOOLEAN, G, Step)
  <2>1. ASSUME NEW c \in D, NEW f \in [D -> BOOLEAN], NEW g \in [D -> BOOLEAN],
               \A b \in D : m[b] < m[c] => f[b] = g[b]
        PROVE  Step[c][f] = Step[c][g]
    <3>1. \A b \in start .. Min({c, end}) - 1 : f[b] = g[b]
      <4>1. ASSUME NEW b \in start .. Min({c, end}) - 1 PROVE b \in D /\ m[b] < m[c]
        <5>1. b \in D /\ b < c /\ c \in Nat /\ b \in Nat
          BY <1>1
        <5> QED
          BY <1>2, <5>1
      <4> QED
        BY <2>1, <4>1
    <3>2. VisitOf(M, start, end, f, c) = VisitOf(M, start, end, g, c)
      BY <3>1 DEF VisitOf
    <3> QED
      BY <3>2
  <2>2. ASSUME NEW c \in D, NEW f \in [D -> BOOLEAN],
               \A b \in D : m[b] < m[c] => f[b] \in G[b]
        PROVE  Step[c][f] \in G[c]
    BY <1>4
  <2> HIDE DEF D, m, G, Step
  <2> QED
    BY <2>1, <2>2 DEF DependsOnLess
<1>7. RecursionsOver(D, BOOLEAN, G, Step) # {}
  <2> HIDE DEF m, G, Step
  <2>1. m \in [D -> 0 .. bound - start] /\ BOOLEAN # {}
    BY <1>2
  <2> HIDE DEF D
  <2> QED
    BY <1>0, <1>3, <1>5, <1>6, <2>1, RecursionByMeasure
<1>8. PICK f \in [D -> BOOLEAN] : \A c \in D : f[c] = Step[c][f]
  <2> HIDE DEF D, G, Step
  <2> QED
    BY <1>7 DEF RecursionsOver
<1>9. Eq(f)
  <2>1. f = [c \in D |-> f[c]]
    OBVIOUS
  <2>2. \A c \in D : f[c] = VisitOf(M, start, end, f, c)
    BY <1>8
  <2> HIDE DEF D
  <2> QED
    BY <2>1, <2>2
<1>10. Eq(function)
  <2> HIDE DEF Eq
  <2> QED
    BY <1>9
<1>11. Visited(M, start, end) = {c \in D : function[c]}
  BY DEF Visited, VisitOf, bound
<1> HIDE DEF function
<1>12. \A c \in D : function[c] = VisitOf(M, start, end, function, c)
  BY <1>10
<1>13. s \in D /\ VisitOf(M, start, end, function, s)
  BY <1>11, <1>12
<1>14. s \in start .. width + 1
  BY <1>0, <1>13
<1>15. CASE s = start
  BY <1>14, <1>15
<1>16. CASE s # start
  <2>1. PICK b \in start .. Min({s, end}) - 1 : \E item \in ToSet(M[b]) : item.end = s
    BY <1>13, <1>16 DEF VisitOf
  <2>2. b \in start .. end - 1 /\ b < s
    BY <1>1, <1>13
  <2>3. EndsAt(M, start, end, s)
    BY <2>1, <2>2 DEF EndsAt
  <2> QED
    BY <1>14, <2>3
<1> QED
  BY <1>15, <1>16

LEMMA MatrixNeverAborts ==
    ASSUME NEW width \in Nat, NEW M \in Matrices(width),
           NEW start \in 0 .. width, NEW end \in 0 .. width, M[start] # <<>>
    PROVE  ~RecurAborts(M, start, end)
<1>1. ItemsAre(M, width) /\ \A i \in 0 .. width : M[i] \in Seq(Item)
  BY DEF Matrices
<1>2. ASSUME NEW s \in Visited(M, start, end), s \in 0 .. end - 1
      PROVE  M[s] # <<>> /\ s \in 0 .. width
  <2>1. s \in 0 .. width /\ s # width
    BY <1>2
  <2>2. CASE s = start
    BY <2>1, <2>2
  <2>3. CASE s # start
    <3>0. EndsAt(M, start, end, s)
      BY <2>3, VisitedIs
    <3>1. PICK b \in start .. end - 1 : b < s /\ \E item \in ToSet(M[b]) : item.end = s
      BY <3>0 DEF EndsAt
    <3>2. b \in 0 .. width
      OBVIOUS
    <3>3. PICK k \in DOMAIN M[b] : M[b][k].end = s
      BY <3>1 DEF ToSet
    <3>4. ItemIs(M, width, b, M[b][k])
      BY <1>1, <3>2 DEF ItemsAre
    <3>5. CASE M[b][k].key = zero_key
      <4>1. s = b + 1 /\ (b # width => M[b + 1] # <<>>)
        BY <3>3, <3>4, <3>5 DEF ItemIs
      <4>2. b # width
        BY <2>1, <3>2, <4>1
      <4> QED
        BY <2>1, <4>1, <4>2
    <3>6. CASE M[b][k].key # zero_key
      BY <2>1, <3>3, <3>4, <3>6 DEF ItemIs
    <3> QED
      BY <3>5, <3>6
  <2> QED
    BY <2>2, <2>3
<1>3. ASSUME NEW s \in 0 .. width, NEW item \in ToSet(M[s]), item.key = zero_key
      PROVE  IsZero(M, s)
  <2>1. PICK k \in DOMAIN M[s] : item = M[s][k]
    BY DEF ToSet
  <2>2. M[s] = <<item>>
    BY <1>1, <1>3, <2>1 DEF ItemsAre, ItemIs
  <2> QED
    BY <1>3, <2>2 DEF IsZero
<1> QED
  BY <1>2, <1>3 DEF RecurAborts

\* The two assertions of search_matrix_recur hold of every matrix: where a key ends
\* some key begins, and a "'" is alone in its column.
THEOREM SearchSafe == KeyMatrixSpec => []SearchNeverAborts
<1>1. KeysInv => SearchNeverAborts
  <2> SUFFICES ASSUME KeysInv, NEW start \in DOMAIN matrix, NEW end \in DOMAIN matrix,
                      matrix[start] # <<>>
               PROVE  ~RecurAborts(matrix, start, end)
    BY DEF SearchNeverAborts
  <2>1. PICK width \in Nat : matrix \in Matrices(width)
    <3>1. matrix # NoMatrix
      BY DEF NoMatrix
    <3> QED
      BY <3>1 DEF KeysInv, MatrixIs
  <2>2. DOMAIN matrix = 0 .. width
    BY <2>1 DEF Matrices
  <2> QED
    BY <2>1, <2>2, MatrixNeverAborts
<1> QED
  BY <1>1, MatrixLeadsToKeys, PTL


-----------------------------------------------------------------------------
(* The best way to cut the input. *)

\* Ways to cut something into keys that are spelled there.
SpelledCuts(inp) ==
    {c \in Seq(ParsedKey) : \A k \in DOMAIN c : <<c[k].begin, c[k].end>> \in DOMAIN inp.spell}

DistancesOf(inp, c) ==
    [k \in DOMAIN c |-> inp.spell[<<c[k].begin, c[k].end>>].distance]

LEMMA DistanceIs ==
    ASSUME NEW inp, NEW c
    PROVE  Distance(inp, c) = SumFunctionOnSet(DistancesOf(inp, c), DOMAIN c)
<1>1. DOMAIN DistancesOf(inp, c) = DOMAIN c
  BY DEF DistancesOf
<1> QED
  BY <1>1 DEF Distance, SumFunction, DistancesOf

LEMMA CutColumns ==
    ASSUME NEW inp, InputIs(inp), NEW c \in SpelledCuts(inp)
    PROVE  /\ c \in Seq(ParsedKey) /\ Len(c) \in Nat /\ DOMAIN c = 1 .. Len(c)
           /\ IsFiniteSet(DOMAIN c)
           /\ \A k \in DOMAIN c : DistancesOf(inp, c)[k] \in Nat
<1>1. c \in Seq(ParsedKey) /\ Len(c) \in Nat /\ DOMAIN c = 1 .. Len(c)
  BY DEF SpelledCuts
<1>2. IsFiniteSet(DOMAIN c)
  BY <1>1, FS_Interval
<1>3. ASSUME NEW k \in DOMAIN c PROVE DistancesOf(inp, c)[k] \in Nat
  <2>1. <<c[k].begin, c[k].end>> \in DOMAIN inp.spell
    BY DEF SpelledCuts
  <2> QED
    BY <2>1, SpellIs DEF DistancesOf
<1> QED
  BY <1>1, <1>2, <1>3

LEMMA DistanceNatural ==
    ASSUME NEW inp, InputIs(inp), NEW c \in SpelledCuts(inp)
    PROVE  Distance(inp, c) \in Nat
<1> DEFINE f == DistancesOf(inp, c)
           S == DOMAIN c
<1>1. IsFiniteSet(S) /\ \A k \in S : f[k] \in Nat
  BY CutColumns
<1>2. SumFunctionOnSet(f, S) \in Nat
  <2> HIDE DEF f, S
  <2> QED
    BY <1>1, SumOfNaturals
<1> QED
  BY <1>2, DistanceIs

LEMMA NoCut ==
    ASSUME NEW inp, InputIs(inp)
    PROVE  <<>> \in SpelledCuts(inp) /\ Len(<<>>) = 0 /\ Distance(inp, <<>>) = 0
<1>1. <<>> \in SpelledCuts(inp)
  BY NoKeys DEF SpelledCuts, KeysAre
<1>2. DOMAIN <<>> = {}
  OBVIOUS
<1>3. SumFunctionOnSet(DistancesOf(inp, <<>>), {}) = 0
  BY SumOverNone
<1> QED
  BY <1>1, <1>2, <1>3, DistanceIs

\* A key more.
LEMMA CutAppended ==
    ASSUME NEW inp, InputIs(inp), NEW c \in SpelledCuts(inp), NEW m, NEW n,
           <<m, n>> \in DOMAIN inp.spell
    PROVE  /\ Append(c, Key(inp, m, n)) \in SpelledCuts(inp)
           /\ Len(Append(c, Key(inp, m, n))) = Len(c) + 1
           /\ Distance(inp, Append(c, Key(inp, m, n)))
                 = Distance(inp, c) + inp.spell[<<m, n>>].distance
<1> DEFINE new == Key(inp, m, n)
           d == Append(c, new)
           x == Len(c) + 1
           f == DistancesOf(inp, d)
           g == DistancesOf(inp, c)
<1>1. c \in Seq(ParsedKey) /\ Len(c) \in Nat /\ DOMAIN c = 1 .. Len(c)
  BY CutColumns
<1>2. new \in ParsedKey /\ new.begin = m /\ new.end = n
  BY SpellIs DEF Key, ParsedKey
<1> HIDE DEF new
<1>3. /\ d \in Seq(ParsedKey) /\ Len(d) = x /\ DOMAIN d = 1 .. x
      /\ d[x] = new /\ \A k \in DOMAIN c : d[k] = c[k]
  BY <1>1, <1>2
<1> HIDE DEF d
<1>4. x \in DOMAIN d /\ DOMAIN d \ {x} = DOMAIN c
  BY <1>1, <1>3
<1>5. ASSUME NEW k \in DOMAIN d PROVE <<d[k].begin, d[k].end>> \in DOMAIN inp.spell
  <2>1. CASE k = x
    BY <1>2, <1>3, <2>1
  <2>2. CASE k # x
    <3>1. k \in DOMAIN c
      BY <1>4, <2>2
    <3> QED
      BY <1>3, <3>1 DEF SpelledCuts
  <2> QED
    BY <2>1, <2>2
<1>6. d \in SpelledCuts(inp)
  BY <1>3, <1>5 DEF SpelledCuts
<1>7. /\ IsFiniteSet(DOMAIN d) /\ \A k \in DOMAIN d : f[k] \in Nat
      /\ IsFiniteSet(DOMAIN c) /\ \A k \in DOMAIN c : g[k] \in Nat
  BY <1>6, CutColumns
<1>8. f[x] = inp.spell[<<m, n>>].distance /\ \A k \in DOMAIN c : f[k] = g[k]
  BY <1>2, <1>3, <1>4 DEF DistancesOf
<1> HIDE DEF f, g, x
<1>9. SumFunctionOnSet(f, DOMAIN d) = f[x] + SumFunctionOnSet(f, DOMAIN c)
  <2>1. \A k \in DOMAIN d : f[k] \in Int
    BY <1>7
  <2> QED
    BY <1>4, <1>7, <2>1, SumStep
<1>10. SumFunctionOnSet(f, DOMAIN c) = SumFunctionOnSet(g, DOMAIN c)
  <2>1. \A k \in DOMAIN c : f[k] \in Int /\ f[k] = g[k]
    BY <1>7, <1>8
  <2> QED
    BY <1>7, <2>1, SumsOverAgree
<1>11. /\ Distance(inp, d) = SumFunctionOnSet(f, DOMAIN d)
       /\ Distance(inp, c) = SumFunctionOnSet(g, DOMAIN c)
  BY DistanceIs DEF f, g
<1>12. f[x] \in Nat /\ Distance(inp, c) \in Nat
  BY <1>4, <1>7, DistanceNatural
<1>13. Distance(inp, d) = Distance(inp, c) + inp.spell[<<m, n>>].distance
  BY <1>8, <1>9, <1>10, <1>11, <1>12
<1> QED
  BY <1>3, <1>6, <1>13 DEF d, new, x

\* Cuts, from those of the columns before.
CutsAt(inp, cuts, n) ==
    IF n = 0 THEN {<<>>}
    ELSE IF n - 1 \in inp.seps THEN cuts[n - 1]
    ELSE UNION {{Append(c, Key(inp, m, n)) : c \in cuts[m]} :
                   m \in Starts(inp, n, max_full_pinyin_length)}

LEMMA StartsIs ==
    ASSUME NEW inp, InputIs(inp), NEW n \in 0 .. inp.len,
           NEW m \in Starts(inp, n, max_full_pinyin_length)
    PROVE  /\ m \in 0 .. inp.len /\ m < n /\ m \in Nat /\ n \in Nat
           /\ <<m, n>> \in DOMAIN inp.spell
<1>1. <<m, n>> \in DOMAIN inp.spell
  BY DEF Starts
<1> QED
  BY <1>1, SpellIs

LEMMA ColumnBefore ==
    ASSUME NEW inp, InputIs(inp), NEW n \in 0 .. inp.len, n # 0
    PROVE  n - 1 \in 0 .. inp.len /\ n - 1 < n /\ n - 1 \in Nat
BY DEF InputIs

LEMMA CutsAtIs ==
    ASSUME NEW inp, InputIs(inp), NEW n \in 0 .. inp.len, NEW cuts,
           \A k \in 0 .. inp.len : k < n => cuts[k] \in SUBSET SpelledCuts(inp)
    PROVE  CutsAt(inp, cuts, n) \in SUBSET SpelledCuts(inp)
<1>1. CASE n = 0
  BY <1>1, NoCut DEF CutsAt
<1>2. CASE n # 0 /\ n - 1 \in inp.seps
  BY <1>2, ColumnBefore DEF CutsAt
<1>3. CASE n # 0 /\ n - 1 \notin inp.seps
  <2>1. ASSUME NEW m \in Starts(inp, n, max_full_pinyin_length), NEW c \in cuts[m]
        PROVE  Append(c, Key(inp, m, n)) \in SpelledCuts(inp)
    <3>1. m \in 0 .. inp.len /\ m < n /\ <<m, n>> \in DOMAIN inp.spell
      BY StartsIs
    <3>2. c \in SpelledCuts(inp)
      BY <3>1
    <3> QED
      BY <3>1, <3>2, CutAppended
  <2>2. ASSUME NEW c \in CutsAt(inp, cuts, n) PROVE c \in SpelledCuts(inp)
    <3>1. PICK m \in Starts(inp, n, max_full_pinyin_length) :
             c \in {Append(b, Key(inp, m, n)) : b \in cuts[m]}
      BY <1>3 DEF CutsAt
    <3>2. PICK b \in cuts[m] : c = Append(b, Key(inp, m, n))
      BY <3>1
    <3> QED
      BY <2>1, <3>2
  <2> QED
    BY <2>2
<1> QED
  BY <1>1, <1>2, <1>3

LEMMA CutsAtDepends ==
    ASSUME NEW inp, InputIs(inp), NEW n \in 0 .. inp.len, NEW cuts, NEW other,
           \A k \in 0 .. inp.len : k < n => cuts[k] = other[k]
    PROVE  CutsAt(inp, cuts, n) = CutsAt(inp, other, n)
<1>1. CASE n = 0
  BY <1>1 DEF CutsAt
<1>2. CASE n # 0 /\ n - 1 \in inp.seps
  BY <1>2, ColumnBefore DEF CutsAt
<1>3. CASE n # 0 /\ n - 1 \notin inp.seps
  <2>1. ASSUME NEW m \in Starts(inp, n, max_full_pinyin_length) PROVE cuts[m] = other[m]
    BY StartsIs
  <2> QED
    BY <1>3, <2>1 DEF CutsAt
<1> QED
  BY <1>1, <1>2, <1>3

LEMMA CutsAre ==
    ASSUME NEW inp, InputIs(inp)
    PROVE  \A n \in 0 .. inp.len :
              /\ Cuts(inp)[n] \in SUBSET SpelledCuts(inp)
              /\ Cuts(inp)[n] = CutsAt(inp, Cuts(inp), n)
<1> DEFINE D == 0 .. inp.len
           A == SUBSET SpelledCuts(inp)
           m == [n \in D |-> n]
           G == [n \in D |-> A]
           Step == [n \in D |-> [f \in [D -> A] |-> CutsAt(inp, f, n)]]
           Eq(cuts) == cuts = [n \in D |-> CutsAt(inp, cuts, n)]
           function == CHOOSE cuts : Eq(cuts)
<1>0. inp.len \in Nat
  BY DEF InputIs
<1>1. A # {}
  OBVIOUS
<1>2. m \in [D -> 0 .. inp.len] /\ \A n \in D : m[n] = n
  OBVIOUS
<1>3. G \in [D -> SUBSET A]
  OBVIOUS
<1>4. ASSUME NEW n \in D, NEW f \in [D -> A] PROVE CutsAt(inp, f, n) \in A
  <2>1. \A k \in 0 .. inp.len : k < n => f[k] \in SUBSET SpelledCuts(inp)
    OBVIOUS
  <2> HIDE DEF A
  <2> QED
    BY <2>1, CutsAtIs DEF A
<1> HIDE DEF A
<1>5. Step \in [D -> [[D -> A] -> A]]
  BY <1>4
<1>6. DependsOnLess(D, m, A, G, Step)
  <2>1. ASSUME NEW n \in D, NEW f \in [D -> A], NEW g \in [D -> A],
               \A k \in D : m[k] < m[n] => f[k] = g[k]
        PROVE  Step[n][f] = Step[n][g]
    <3>1. CutsAt(inp, f, n) = CutsAt(inp, g, n)
      <4>1. \A k \in 0 .. inp.len : k < n => f[k] = g[k]
        BY <2>1, <1>2
      <4> QED
        BY <4>1, CutsAtDepends
    <3> QED
      BY <3>1
  <2>2. ASSUME NEW n \in D, NEW f \in [D -> A],
               \A k \in D : m[k] < m[n] => f[k] \in G[k]
        PROVE  Step[n][f] \in G[n]
    BY <1>4
  <2> HIDE DEF D, m, G, Step
  <2> QED
    BY <2>1, <2>2 DEF DependsOnLess
<1>7. RecursionsOver(D, A, G, Step) # {}
  <2> HIDE DEF m, G, Step
  <2>1. m \in [D -> 0 .. inp.len] /\ A # {}
    BY <1>1, <1>2
  <2> HIDE DEF D
  <2> QED
    BY <1>0, <1>3, <1>5, <1>6, <2>1, RecursionByMeasure
<1>8. PICK f \in [D -> A] : \A n \in D : f[n] = Step[n][f]
  <2> HIDE DEF D, G, Step
  <2> QED
    BY <1>7 DEF RecursionsOver
<1>9. Eq(f)
  <2>1. f = [n \in D |-> f[n]]
    BY <1>8
  <2>2. \A n \in D : f[n] = CutsAt(inp, f, n)
    BY <1>8
  <2> HIDE DEF D
  <2> QED
    BY <2>1, <2>2
<1>10. Eq(function)
  <2> HIDE DEF Eq
  <2> QED
    BY <1>9
<1>11. Cuts(inp) = function
  BY DEF Cuts, CutsAt
<1> HIDE DEF function
<1> DEFINE cuts == Cuts(inp)
           T == {n \in D : cuts[n] \in A}
<1>12. \A n \in D : cuts[n] = CutsAt(inp, cuts, n)
  BY <1>10, <1>11
<1> HIDE DEF cuts
<1>13. ASSUME NEW n \in D, \A k \in D : m[k] < m[n] => k \in T PROVE n \in T
  <2>1. \A k \in 0 .. inp.len : k < n => cuts[k] \in SUBSET SpelledCuts(inp)
    BY <1>2, <1>13 DEF A
  <2>2. CutsAt(inp, cuts, n) \in A
    BY <2>1, CutsAtIs DEF A
  <2> QED
    BY <1>12, <2>2
<1>14. D \subseteq T
  <2> HIDE DEF D, m, T
  <2>1. FollowsFromLess(D, m, T)
    BY <1>13 DEF FollowsFromLess
  <2>2. m \in [D -> 0 .. inp.len]
    BY <1>2
  <2> QED
    BY <1>0, <2>1, <2>2, InductionByMeasure
<1> QED
  BY <1>12, <1>14 DEF cuts, A

\* A value that is no worse than a way to cut.
NoWorseThan(inp, v, c) ==
    \/ v.num_keys < Len(c)
    \/ v.num_keys = Len(c) /\ v.distance <= Distance(inp, c)

\* A column the value of its step reaches from the beginning is one there is a way to
\* cut to, the value is no worse than any, and that of the keys saved for it.
BestAt(inp, step, saved, cuts, n) ==
    /\ step[n].parsed_len <= n
    /\ step[n].parsed_len = n <=> cuts[n] # {}
    /\ \A c \in cuts[n] : NoWorseThan(inp, step[n], c)
    /\ step[n].parsed_len = n =>
          /\ saved[n] \in cuts[n] /\ Len(saved[n]) = step[n].num_keys
          /\ Distance(inp, saved[n]) = step[n].distance

\* What is known of a column when those before it are known.
FollowsAt(inp, step, saved, cuts, n) ==
    /\ \A k \in 0 .. inp.len : k < n => BestAt(inp, step, saved, cuts, k)
    /\ \A k \in 0 .. inp.len : cuts[k] \in SUBSET SpelledCuts(inp)
    /\ \A k \in 0 .. inp.len : step[k] \in StepsAt(inp, k)
    /\ step[n] = StepOf(inp, step, n)
    /\ saved[n] = SavedOf(inp, step, saved, n)
    /\ cuts[n] = CutsAt(inp, cuts, n)

LEMMA BestAtFirst ==
    ASSUME NEW inp, InputIs(inp), NEW step, NEW saved, NEW cuts,
           FollowsAt(inp, step, saved, cuts, 0)
    PROVE  BestAt(inp, step, saved, cuts, 0)
<1>1. step[0] = NoStep /\ cuts[0] = {<<>>}
  BY DEF FollowsAt, StepOf, CutsAt
<1>2. /\ step[0].parsed_len = 0 /\ step[0].num_keys = 0 /\ step[0].distance = 0
      /\ step[0].last_step = -1
  BY <1>1 DEF NoStep
<1>3. saved[0] = <<>>
  BY <1>2 DEF FollowsAt, SavedOf
<1> QED
  BY <1>1, <1>2, <1>3, NoCut DEF BestAt, NoWorseThan

LEMMA BestAtSeparator ==
    ASSUME NEW inp, InputIs(inp), NEW n \in 0 .. inp.len, n # 0, n - 1 \in inp.seps,
           NEW step, NEW saved, NEW cuts, FollowsAt(inp, step, saved, cuts, n)
    PROVE  BestAt(inp, step, saved, cuts, n)
<1> DEFINE v == step[n - 1]
           w == step[n]
<1>1. n - 1 \in 0 .. inp.len /\ n - 1 < n /\ n - 1 \in Nat /\ n \in Nat
  BY ColumnBefore DEF InputIs
<1>2. v \in StepValue /\ BestAt(inp, step, saved, cuts, n - 1)
  BY <1>1 DEF FollowsAt, StepsAt
<1>3. w = [v EXCEPT !["parsed_len"] = v.parsed_len + 1, !["last_step"] = n - 1]
  BY DEF FollowsAt, StepOf
<1>4. /\ DOMAIN v = {"num_keys", "parsed_len", "distance", "last_step"}
      /\ v.num_keys \in Nat /\ v.parsed_len \in Nat /\ v.distance \in Nat
  BY <1>2 DEF StepValue
<1>a. v = step[n - 1] /\ w = step[n]
  OBVIOUS
<1> HIDE DEF v, w
<1>5. /\ w.num_keys = v.num_keys /\ w.parsed_len = v.parsed_len + 1
      /\ w.distance = v.distance /\ w.last_step = n - 1
  BY <1>3, <1>4
<1>6. cuts[n] = cuts[n - 1]
  BY DEF FollowsAt, CutsAt
<1>7. saved[n] = saved[n - 1]
  <2>1. w.last_step # -1
    BY <1>1, <1>5
  <2> QED
    BY <1>a, <2>1 DEF FollowsAt, SavedOf
<1>8. w.parsed_len = n <=> v.parsed_len = n - 1
  BY <1>1, <1>4, <1>5
<1>9. w.parsed_len <= n
  BY <1>1, <1>2, <1>4, <1>5, <1>a DEF BestAt
<1> QED
  BY <1>2, <1>5, <1>6, <1>7, <1>8, <1>9, <1>a DEF BestAt, NoWorseThan

LEMMA BestAtNowhere ==
    ASSUME NEW inp, InputIs(inp), NEW n \in 0 .. inp.len, n # 0, n - 1 \notin inp.seps,
           Starts(inp, n, max_full_pinyin_length) = {},
           NEW step, NEW saved, NEW cuts, FollowsAt(inp, step, saved, cuts, n)
    PROVE  BestAt(inp, step, saved, cuts, n)
<1>1. step[n] = NoStep
  BY DEF FollowsAt, StepOf
<1>2. cuts[n] = {}
  BY DEF FollowsAt, CutsAt
<1>3. step[n].parsed_len = 0 /\ 0 <= n
  BY <1>1 DEF NoStep
<1> QED
  BY <1>2, <1>3 DEF BestAt

\* The value that reaches a column from a start is no worse than the cuts that do.
Reaches(inp, step, cuts, n, m, v) ==
    /\ v \in StepValue /\ v.last_step = m /\ v.last_step \in Nat
    /\ v.parsed_len <= n /\ (v.parsed_len = n <=> cuts[m] # {})
    /\ v.parsed_len = n => step[m].parsed_len = m
    /\ v.num_keys = step[m].num_keys + 1
    /\ v.distance = step[m].distance + inp.spell[<<m, n>>].distance
    /\ \A c \in cuts[m] : NoWorseThan(inp, v, Append(c, Key(inp, m, n)))

LEMMA ValueFrom ==
    ASSUME NEW inp, InputIs(inp), NEW n \in 0 .. inp.len,
           NEW step, NEW saved, NEW cuts, FollowsAt(inp, step, saved, cuts, n),
           NEW m \in Starts(inp, n, max_full_pinyin_length)
    PROVE  Reaches(inp, step, cuts, n, m, ValuesOf(inp, step, n)[m])
<1> DEFINE v == ValuesOf(inp, step, n)[m]
<1>1. /\ m \in 0 .. inp.len /\ m < n /\ m \in Nat /\ n \in Nat
      /\ <<m, n>> \in DOMAIN inp.spell
  BY StartsIs
<1>2. /\ step[m] \in StepValue /\ BestAt(inp, step, saved, cuts, m)
      /\ cuts[m] \in SUBSET SpelledCuts(inp)
  BY <1>1 DEF FollowsAt, StepsAt
<1>3. v = [num_keys   |-> step[m].num_keys + 1,
           parsed_len |-> step[m].parsed_len + n - m,
           distance   |-> step[m].distance + inp.spell[<<m, n>>].distance,
           last_step  |-> m]
  BY DEF ValuesOf
<1> HIDE DEF v
<1>4. /\ v.num_keys = step[m].num_keys + 1 /\ v.parsed_len = step[m].parsed_len + n - m
      /\ v.distance = step[m].distance + inp.spell[<<m, n>>].distance /\ v.last_step = m
  BY <1>3
<1>5. /\ step[m].num_keys \in Nat /\ step[m].parsed_len \in Nat
      /\ step[m].distance \in Nat /\ inp.spell[<<m, n>>].distance \in Nat
  BY <1>1, <1>2, SpellIs DEF StepValue
<1>6. v \in StepValue
  <2>1. step[m].parsed_len + n - m \in Nat
    BY <1>1, <1>5
  <2> QED
    BY <1>1, <1>3, <1>5, <2>1 DEF StepValue
<1>7. v.parsed_len <= n /\ (v.parsed_len = n <=> step[m].parsed_len = m)
  BY <1>1, <1>2, <1>4, <1>5 DEF BestAt
<1>8. ASSUME NEW c \in cuts[m] PROVE NoWorseThan(inp, v, Append(c, Key(inp, m, n)))
  <2> DEFINE d == Append(c, Key(inp, m, n))
  <2>1. c \in SpelledCuts(inp) /\ NoWorseThan(inp, step[m], c)
    BY <1>2 DEF BestAt
  <2>2. /\ Len(d) = Len(c) + 1
        /\ Distance(inp, d) = Distance(inp, c) + inp.spell[<<m, n>>].distance
    BY <1>1, <2>1, CutAppended
  <2>3. Len(c) \in Nat /\ Distance(inp, c) \in Nat
    BY <2>1, CutColumns, DistanceNatural
  <2> HIDE DEF d
  <2>4. ASSUME step[m].num_keys < Len(c) PROVE v.num_keys < Len(d)
    BY <1>4, <1>5, <2>2, <2>3, <2>4
  <2>5. ASSUME step[m].num_keys = Len(c), step[m].distance <= Distance(inp, c)
        PROVE  v.num_keys = Len(d) /\ v.distance <= Distance(inp, d)
    <3>1. v.num_keys = Len(d)
      BY <1>4, <2>2, <2>5
    <3>2. v.distance <= Distance(inp, d)
      BY <1>4, <1>5, <2>2, <2>3, <2>5
    <3> QED
      BY <3>1, <3>2
  <2>6. NoWorseThan(inp, v, d)
    BY <2>1, <2>4, <2>5 DEF NoWorseThan
  <2> QED
    BY <2>6 DEF d
<1>9. Reaches(inp, step, cuts, n, m, v)
  BY <1>1, <1>2, <1>4, <1>6, <1>7, <1>8 DEF BestAt, Reaches
<1> QED
  BY <1>9 DEF v

LEMMA BestAtKey ==
    ASSUME NEW inp, InputIs(inp), NEW n \in 0 .. inp.len, n # 0, n - 1 \notin inp.seps,
           Starts(inp, n, max_full_pinyin_length) # {},
           NEW step, NEW saved, NEW cuts, FollowsAt(inp, step, saved, cuts, n)
    PROVE  BestAt(inp, step, saved, cuts, n)
<1> DEFINE starts == Starts(inp, n, max_full_pinyin_length)
           values == ValuesOf(inp, step, n)
           best == BestStep(values)
           v == values[best]
<1>1. n \in Nat /\ starts \in SUBSET (0 .. n) /\ DOMAIN values = starts
  <2>1. ASSUME NEW m \in starts PROVE m \in Nat /\ n \in Nat /\ m < n
    BY StartsIs
  <2>2. n \in Nat
    BY DEF InputIs
  <2>3. DOMAIN values = starts
    BY DEF ValuesOf
  <2> HIDE DEF starts, values
  <2> QED
    BY <2>1, <2>2, <2>3
<1>2. ASSUME NEW m \in starts
      PROVE  /\ values[m] \in StepValue /\ values[m].last_step \in Nat
             /\ values[m].parsed_len <= n
             /\ (values[m].parsed_len = n <=> cuts[m] # {})
             /\ \A c \in cuts[m] :
                   NoWorseThan(inp, values[m], Append(c, Key(inp, m, n)))
  <2>1. Reaches(inp, step, cuts, n, m, values[m])
    BY ValueFrom
  <2> HIDE DEF values
  <2> QED
    BY <2>1 DEF Reaches
<1>3. best \in starts /\ Stays(values, starts, best)
  <2> HIDE DEF values, starts
  <2>1. \A m \in starts : values[m] \in StepValue /\ values[m].last_step \in Nat
    BY <1>2
  <2>2. starts # {}
    BY DEF starts
  <2> QED
    BY <1>1, <2>1, <2>2, BestStepIs
<1>4. step[n] = v
  BY DEF FollowsAt, StepOf
<1>5. /\ v.last_step = best /\ v.last_step \in Nat
      /\ v.parsed_len = n => step[best].parsed_len = best
      /\ v.num_keys = step[best].num_keys + 1
      /\ v.distance = step[best].distance + inp.spell[<<best, n>>].distance
  <2>1. Reaches(inp, step, cuts, n, best, v)
    <3> HIDE DEF best
    <3> QED
      BY <1>3, ValueFrom
  <2> HIDE DEF best, v
  <2> QED
    BY <2>1 DEF Reaches
<1>6. cuts[n] = UNION {{Append(c, Key(inp, m, n)) : c \in cuts[m]} : m \in starts}
  BY DEF FollowsAt, CutsAt
<1> HIDE DEF values, starts, best
<1>7. ASSUME NEW m \in starts, NEW c \in cuts[m]
      PROVE  v.parsed_len = n /\ NoWorseThan(inp, v, Append(c, Key(inp, m, n)))
  <2> DEFINE w == values[m]
             d == Append(c, Key(inp, m, n))
  <2>1. w.parsed_len = n /\ NoWorseThan(inp, w, d) /\ w \in StepValue
    BY <1>2
  <2>2. ~Beats(w, v)
    BY <1>3 DEF Stays
  <2>3. v \in StepValue /\ v.last_step \in Nat /\ v.parsed_len <= n
    BY <1>2, <1>3
  <2>4. c \in SpelledCuts(inp) /\ <<m, n>> \in DOMAIN inp.spell
    BY StartsIs DEF FollowsAt, starts
  <2>5. d \in SpelledCuts(inp)
    BY <2>4, CutAppended
  <2>6. Len(d) \in Nat /\ Distance(inp, d) \in Nat
    BY <2>5, CutColumns, DistanceNatural
  <2> HIDE DEF w, d, v
  <2>7. v.parsed_len = n /\ NoWorseThan(inp, v, d)
    BY <1>1, <2>1, <2>2, <2>3, <2>6 DEF NoWorseThan, Beats, BeatsByLength, StepValue
  <2> QED
    BY <2>7 DEF d
<1>8. \A d \in cuts[n] : v.parsed_len = n /\ NoWorseThan(inp, v, d)
  <2> SUFFICES ASSUME NEW d \in cuts[n]
               PROVE  v.parsed_len = n /\ NoWorseThan(inp, v, d)
    OBVIOUS
  <2>1. PICK m \in starts : d \in {Append(c, Key(inp, m, n)) : c \in cuts[m]}
    BY <1>6
  <2>2. PICK c \in cuts[m] : d = Append(c, Key(inp, m, n))
    BY <2>1
  <2> QED
    BY <1>7, <2>2
<1>9. ASSUME v.parsed_len = n
      PROVE  /\ saved[n] \in cuts[n] /\ Len(saved[n]) = v.num_keys
             /\ Distance(inp, saved[n]) = v.distance
  <2>1. /\ best \in 0 .. inp.len /\ best < n /\ best \in Nat
        /\ <<best, n>> \in DOMAIN inp.spell
    BY <1>3, StartsIs DEF starts
  <2>2. /\ saved[best] \in cuts[best] /\ Len(saved[best]) = step[best].num_keys
        /\ Distance(inp, saved[best]) = step[best].distance
    BY <1>5, <1>9, <2>1 DEF FollowsAt, BestAt
  <2>3. saved[n] = Append(saved[best], Key(inp, best, n))
    <3>1. v.last_step # -1
      BY <1>5
    <3> QED
      BY <1>4, <1>5, <3>1 DEF FollowsAt, SavedOf
  <2>4. saved[best] \in SpelledCuts(inp)
    BY <2>1, <2>2 DEF FollowsAt
  <2>5. /\ Len(saved[n]) = Len(saved[best]) + 1
        /\ Distance(inp, saved[n]) = Distance(inp, saved[best])
                                     + inp.spell[<<best, n>>].distance
    BY <2>1, <2>3, <2>4, CutAppended
  <2>6. saved[n] \in cuts[n]
    <3>1. saved[n] \in {Append(c, Key(inp, best, n)) : c \in cuts[best]}
      BY <2>2, <2>3
    <3> QED
      BY <1>3, <1>6, <3>1
  <2> QED
    BY <1>5, <2>2, <2>5, <2>6
<1>10. v.parsed_len <= n
  BY <1>2, <1>3
<1> HIDE DEF v
<1> QED
  BY <1>4, <1>8, <1>9, <1>10 DEF BestAt

LEMMA BestFollows ==
    ASSUME NEW inp, InputIs(inp), NEW n \in 0 .. inp.len,
           NEW step, NEW saved, NEW cuts, FollowsAt(inp, step, saved, cuts, n)
    PROVE  BestAt(inp, step, saved, cuts, n)
<1>1. CASE n = 0
  BY <1>1, BestAtFirst
<1>2. CASE n # 0 /\ n - 1 \in inp.seps
  BY <1>2, BestAtSeparator
<1>3. CASE n # 0 /\ n - 1 \notin inp.seps
  BY <1>3, BestAtNowhere, BestAtKey
<1> QED
  BY <1>1, <1>2, <1>3

LEMMA BestEverywhere ==
    ASSUME NEW inp, InputIs(inp), NEW step, step = ParseSteps(inp),
           NEW saved, saved = SavedFrom(inp, step), NEW cuts, cuts = Cuts(inp)
    PROVE  \A n \in 0 .. inp.len : BestAt(inp, step, saved, cuts, n)
<1> DEFINE D == 0 .. inp.len
           m == [n \in D |-> n]
           T == {n \in D : BestAt(inp, step, saved, cuts, n)}
<1>0. inp.len \in Nat
  BY DEF InputIs
<1>1. m \in [D -> 0 .. inp.len] /\ \A n \in D : m[n] = n
  OBVIOUS
<1>2. \A n \in D : step[n] \in StepsAt(inp, n) /\ step[n] = StepOf(inp, step, n)
  BY ParseStepsIs
<1>3. \A n \in D : saved[n] = SavedOf(inp, step, saved, n)
  BY <1>2, SavedFromIs
<1>4. \A n \in D : cuts[n] \in SUBSET SpelledCuts(inp) /\ cuts[n] = CutsAt(inp, cuts, n)
  BY CutsAre
<1>5. ASSUME NEW n \in D, \A k \in D : m[k] < m[n] => k \in T PROVE n \in T
  <2>1. \A k \in 0 .. inp.len : k < n => BestAt(inp, step, saved, cuts, k)
    BY <1>1, <1>5
  <2>2. FollowsAt(inp, step, saved, cuts, n)
    BY <1>2, <1>3, <1>4, <2>1 DEF FollowsAt
  <2> QED
    BY <2>2, BestFollows
<1>6. D \subseteq T
  <2> HIDE DEF D, m, T
  <2>1. FollowsFromLess(D, m, T)
    BY <1>5 DEF FollowsFromLess
  <2> QED
    BY <1>0, <1>1, <2>1, InductionByMeasure
<1> QED
  BY <1>6

\* Of any input, the dynamic program finds a best way to cut it.
LEMMA FullParseIsBest ==
    ASSUME NEW inp, InputIs(inp) PROVE IsBest(inp, FullParse(inp))
<1> DEFINE step == ParseSteps(inp)
           reached == {n \in 0 .. inp.len : step[n].parsed_len = n}
           back == Max(reached)
           saved == SavedFrom(inp, step)
           cuts == Cuts(inp)
           parsed == FullParse(inp)
<1>0. inp.len \in Nat
  BY DEF InputIs
<1>1. parsed = [parsed_len |-> back, keys |-> saved[back]]
  BY DEF FullParse, SavedFrom, SavedOf
<1>2. \A n \in 0 .. inp.len : step[n] \in StepsAt(inp, n)
  BY ParseStepsIs
<1>3. \A n \in 0 .. inp.len : cuts[n] \in SUBSET SpelledCuts(inp)
  BY CutsAre
<1>4. \A n \in 0 .. inp.len : BestAt(inp, step, saved, cuts, n)
  BY BestEverywhere
<1> HIDE DEF step, saved, cuts
<1>5. 0 \in reached
  <2>1. 0 \in 0 .. inp.len /\ step[0] \in StepsAt(inp, 0)
    BY <1>0, <1>2
  <2>2. step[0] = NoStep
    BY <2>1 DEF StepsAt
  <2> QED
    BY <2>1, <2>2 DEF NoStep
<1>6. back \in reached /\ \A n \in reached : n <= back
  BY <1>0, <1>5, GreatestIs
<1> HIDE DEF back
<1>7. back \in 0 .. inp.len /\ step[back].parsed_len = back
  BY <1>6
<1>8. ASSUME NEW n \in back + 1 .. inp.len PROVE cuts[n] = {}
  <2>1. n \in 0 .. inp.len /\ ~(n <= back)
    BY <1>0, <1>7
  <2>2. step[n].parsed_len # n
    BY <1>6, <2>1
  <2> QED
    BY <1>4, <2>1, <2>2 DEF BestAt
<1>9. /\ saved[back] \in cuts[back] /\ Len(saved[back]) = step[back].num_keys
      /\ Distance(inp, saved[back]) = step[back].distance
      /\ \A c \in cuts[back] : NoWorseThan(inp, step[back], c)
  BY <1>4, <1>7 DEF BestAt
<1> HIDE DEF parsed, reached
<1>10. parsed.parsed_len = back /\ parsed.keys = saved[back]
  BY <1>1
<1>11. ASSUME NEW c \in cuts[back]
       PROVE  \/ Len(saved[back]) < Len(c)
              \/ /\ Len(saved[back]) = Len(c)
                 /\ Distance(inp, saved[back]) <= Distance(inp, c)
  BY <1>9 DEF NoWorseThan
<1> QED
  BY <1>8, <1>9, <1>10, <1>11 DEF IsBest, cuts, parsed

\* FullPinyinParser2::parse reads as much as can be read, with the fewest keys and
\* among those the fewest corrections, whatever was typed.
THEOREM ParseAlwaysBest == KeyMatrixSpec => []ParseIsBest
<1>1. KeysInv => ParseIsBest
  BY FullParseIsBest DEF KeysInv, ParseIsBest
<1> QED
  BY <1>1, MatrixLeadsToKeys, PTL

-----------------------------------------------------------------------------
(* The order of keys. *)

KeysOf(n) == {keys \in PinyinKeys : Len(keys) = n}

LEMMA Quotient ==
    ASSUME NEW w \in Nat \ {0}, NEW q \in Int, NEW r \in 0 .. w - 1
    PROVE  ((w * q) + r) \div w = q
OBVIOUS

LEMMA KeysOfAre ==
    ASSUME NEW n, NEW keys \in KeysOf(n)
    PROVE  /\ n \in Nat \ {0} /\ Len(keys) = n /\ DOMAIN keys = 1 .. n
           /\ keys \in Seq(Nat \X Nat \X Nat) /\ keys \in PinyinKeys
           /\ \A k \in 1 .. n : /\ keys[k] \in Nat \X Nat \X Nat
                                /\ keys[k][1] \in Nat /\ keys[k][2] \in Nat /\ keys[k][3] \in Nat
<1>1. keys \in Seq(Nat \X Nat \X Nat) /\ keys # <<>> /\ Len(keys) = n
  BY DEF KeysOf, PinyinKeys
<1>2. n \in Nat /\ DOMAIN keys = 1 .. n /\ n # 0
  BY <1>1
<1>3. \A k \in 1 .. n : keys[k] \in Nat \X Nat \X Nat
  BY <1>1, <1>2
<1> QED
  BY <1>1, <1>2, <1>3 DEF KeysOf

\* Where the parts of a key are.
LEMMA PlacesAre ==
    ASSUME NEW n \in Nat \ {0}, NEW i \in 1 .. 3 * n
    PROVE  \E k \in 1 .. n : i = k \/ i = n + k \/ i = 2 * n + k
<1>1. CASE i <= n
  BY <1>1
<1>2. CASE n < i /\ i <= 2 * n
  <2>1. i - n \in 1 .. n /\ i = n + (i - n)
    BY <1>2
  <2> QED
    BY <2>1
<1>3. CASE 2 * n < i
  <2>1. i - 2 * n \in 1 .. n /\ i = 2 * n + (i - 2 * n)
    BY <1>3
  <2> QED
    BY <2>1
<1> QED
  BY <1>1, <1>2, <1>3

LEMMA PartsAre ==
    ASSUME NEW n, NEW keys \in KeysOf(n)
    PROVE  /\ DOMAIN Parts(keys) = 1 .. 3 * n
           /\ \A k \in 1 .. n : /\ Parts(keys)[k] = keys[k][1]
                                /\ Parts(keys)[n + k] = keys[k][2]
                                /\ Parts(keys)[2 * n + k] = keys[k][3]
           /\ \A i \in 1 .. 3 * n : Parts(keys)[i] \in Nat
<1>1. n \in Nat \ {0} /\ Len(keys) = n
  BY KeysOfAre
<1>2. Parts(keys) = [i \in 1 .. 3 * n |-> keys[((i - 1) % n) + 1][((i - 1) \div n) + 1]]
  BY <1>1 DEF Parts
<1>3. ASSUME NEW k \in 1 .. n, NEW q \in {0, 1, 2}
      PROVE  /\ (n * q) + k \in 1 .. 3 * n
             /\ Parts(keys)[(n * q) + k] = keys[k][q + 1]
  <2>1. k - 1 \in 0 .. n - 1 /\ q \in Int
    BY <1>1
  <2>2. ((n * q) + (k - 1)) % n = k - 1 /\ ((n * q) + (k - 1)) \div n = q
    BY <1>1, <2>1, Remainder, Quotient
  <2>3. (n * q) + k \in 1 .. 3 * n
    BY <1>1
  <2>4. ((n * q) + k) - 1 = (n * q) + (k - 1)
    BY <1>1
  <2>5. (k - 1) + 1 = k
    BY <1>1
  <2> QED
    BY <1>2, <2>2, <2>3, <2>4, <2>5
<1>4. ASSUME NEW k \in 1 .. n
      PROVE  /\ Parts(keys)[k] = keys[k][1]
             /\ Parts(keys)[n + k] = keys[k][2]
             /\ Parts(keys)[2 * n + k] = keys[k][3]
  <2>1. k = (n * 0) + k /\ n + k = (n * 1) + k /\ 2 * n + k = (n * 2) + k
    BY <1>1
  <2>2. Parts(keys)[(n * 0) + k] = keys[k][0 + 1]
    BY <1>3
  <2>3. Parts(keys)[(n * 1) + k] = keys[k][1 + 1]
    BY <1>3
  <2>4. Parts(keys)[(n * 2) + k] = keys[k][2 + 1]
    BY <1>3
  <2> QED
    BY <2>1, <2>2, <2>3, <2>4
<1>5. ASSUME NEW i \in 1 .. 3 * n PROVE Parts(keys)[i] \in Nat
  <2>1. PICK k \in 1 .. n : i = k \/ i = n + k \/ i = 2 * n + k
    BY <1>1, PlacesAre
  <2>2. keys[k][1] \in Nat /\ keys[k][2] \in Nat /\ keys[k][3] \in Nat
    BY KeysOfAre
  <2> QED
    BY <1>4, <2>1, <2>2
<1> QED
  BY <1>2, <1>4, <1>5

\* Keys are their parts.
LEMMA SameParts ==
    ASSUME NEW n, NEW a \in KeysOf(n), NEW b \in KeysOf(n),
           \A i \in 1 .. 3 * n : Parts(a)[i] = Parts(b)[i]
    PROVE  a = b
<1>1. /\ n \in Nat \ {0}
      /\ Len(a) = n /\ DOMAIN a = 1 .. n /\ a \in Seq(Nat \X Nat \X Nat)
      /\ Len(b) = n /\ DOMAIN b = 1 .. n /\ b \in Seq(Nat \X Nat \X Nat)
  BY KeysOfAre
<1>2. ASSUME NEW k \in 1 .. n PROVE a[k] = b[k]
  <2>1. k \in 1 .. 3 * n /\ n + k \in 1 .. 3 * n /\ 2 * n + k \in 1 .. 3 * n
    BY <1>1
  <2>2. a[k][1] = b[k][1] /\ a[k][2] = b[k][2] /\ a[k][3] = b[k][3]
    BY <2>1, PartsAre
  <2>3. a[k] \in Nat \X Nat \X Nat /\ b[k] \in Nat \X Nat \X Nat
    BY <1>1
  <2> QED
    BY <2>2, <2>3
<1> QED
  BY <1>1, <1>2

\* The first part in which keys differ.
LEMMA FirstDifference ==
    ASSUME NEW n, NEW a \in KeysOf(n), NEW b \in KeysOf(n), NEW m \in 1 .. 3 * n,
           Parts(a)[m] # Parts(b)[m]
    PROVE  \E i \in 1 .. m : /\ Parts(a)[i] # Parts(b)[i]
                             /\ \A j \in 1 .. i - 1 : Parts(a)[j] = Parts(b)[j]
<1> DEFINE T == {i \in 1 .. m : Parts(a)[i] # Parts(b)[i]}
<1>1. T \in SUBSET Nat /\ T # {}
  <2>1. m \in 1 .. m
    OBVIOUS
  <2> QED
    BY <2>1
<1>2. PICK i \in T : \A y \in T : i <= y
  BY <1>1, LeastElement
<1>3. \A j \in 1 .. i - 1 : j \in 1 .. m /\ ~(i <= j)
  BY <1>2
<1> QED
  BY <1>2, <1>3

LEMMA OrderTotal ==
    ASSUME NEW n, NEW a \in KeysOf(n), NEW b \in KeysOf(n),
           ~ExactLess(a, b), ~ExactLess(b, a)
    PROVE  a = b
<1>1. ASSUME NEW m \in 1 .. 3 * n, Parts(a)[m] # Parts(b)[m] PROVE FALSE
  <2>1. PICK i \in 1 .. m : /\ Parts(a)[i] # Parts(b)[i]
                            /\ \A j \in 1 .. i - 1 : Parts(a)[j] = Parts(b)[j]
    BY <1>1, FirstDifference
  <2>2. i \in 1 .. 3 * n /\ n \in Nat
    BY KeysOfAre
  <2>3. i \in DOMAIN Parts(a) /\ i \in DOMAIN Parts(b)
    BY <2>2, PartsAre
  <2>4. Parts(a)[i] < Parts(b)[i] \/ Parts(b)[i] < Parts(a)[i]
    BY <2>1, <2>2, PartsAre
  <2> QED
    BY <2>1, <2>3, <2>4 DEF ExactLess
<1> QED
  BY <1>1, SameParts

LEMMA OrderIrreflexive ==
    ASSUME NEW n, NEW a \in KeysOf(n) PROVE ~ExactLess(a, a)
<1>1. /\ DOMAIN Parts(a) = 1 .. 3 * n
      /\ \A i \in 1 .. 3 * n : Parts(a)[i] \in Nat
  BY PartsAre
<1>2. \A i \in DOMAIN Parts(a) : ~(Parts(a)[i] < Parts(a)[i])
  BY <1>1
<1> QED
  BY <1>2 DEF ExactLess

LEMMA OrderTransitive ==
    ASSUME NEW n, NEW a \in KeysOf(n), NEW b \in KeysOf(n), NEW c \in KeysOf(n),
           ~ExactLess(b, a), ~ExactLess(c, b)
    PROVE  ~ExactLess(c, a)
<1> SUFFICES ASSUME ExactLess(c, a) PROVE FALSE
  OBVIOUS
<1> DEFINE p == Parts(a)
           q == Parts(b)
           r == Parts(c)
<1>1. /\ DOMAIN p = 1 .. 3 * n /\ DOMAIN q = 1 .. 3 * n /\ DOMAIN r = 1 .. 3 * n
      /\ \A i \in 1 .. 3 * n : p[i] \in Nat /\ q[i] \in Nat /\ r[i] \in Nat
      /\ n \in Nat
  BY PartsAre, KeysOfAre
<1>2. PICK i \in 1 .. 3 * n : r[i] < p[i] /\ \A j \in 1 .. i - 1 : r[j] = p[j]
  BY <1>1 DEF ExactLess
<1>3. CASE \A j \in 1 .. i : p[j] = q[j]
  <2>1. r[i] < q[i] /\ \A j \in 1 .. i - 1 : r[j] = q[j]
    <3>1. i \in 1 .. i /\ \A j \in 1 .. i - 1 : j \in 1 .. i
      BY <1>1
    <3> QED
      BY <1>2, <1>3, <3>1
  <2> QED
    BY <1>1, <2>1 DEF ExactLess
<1>4. CASE \E j \in 1 .. i : p[j] # q[j]
  <2>1. PICK m \in 1 .. i : p[m] # q[m]
    BY <1>4
  <2>2. m \in 1 .. 3 * n
    BY <1>1
  <2>3. PICK k \in 1 .. m : p[k] # q[k] /\ \A j \in 1 .. k - 1 : p[j] = q[j]
    BY <2>1, <2>2, FirstDifference
  <2>4. k \in 1 .. 3 * n /\ k \in 1 .. i /\ \A j \in 1 .. k - 1 : j \in 1 .. i - 1
    BY <1>1
  <2>5. p[k] < q[k]
    <3>1. ~(q[k] < p[k])
      BY <1>1, <2>3, <2>4 DEF ExactLess
    <3> QED
      BY <1>1, <2>3, <2>4, <3>1
  <2>6. r[k] <= p[k]
    <3>1. CASE k = i
      BY <1>1, <1>2, <3>1
    <3>2. CASE k # i
      <4>1. k \in 1 .. i - 1
        BY <1>1, <2>4, <3>2
      <4> QED
        BY <1>1, <1>2, <2>4, <4>1
    <3> QED
      BY <3>1, <3>2
  <2>7. r[k] < q[k]
    BY <1>1, <2>4, <2>5, <2>6
  <2>8. \A j \in 1 .. k - 1 : r[j] = q[j]
    BY <1>2, <2>3, <2>4
  <2> QED
    BY <1>1, <2>4, <2>7, <2>8 DEF ExactLess
<1> QED
  BY <1>3, <1>4

LEMMA OrderAsymmetric ==
    ASSUME NEW n, NEW a \in KeysOf(n), NEW b \in KeysOf(n), ExactLess(a, b)
    PROVE  ~ExactLess(b, a)
<1> SUFFICES ASSUME ExactLess(b, a) PROVE FALSE
  OBVIOUS
<1> DEFINE p == Parts(a)
           q == Parts(b)
<1>1. /\ DOMAIN p = 1 .. 3 * n /\ DOMAIN q = 1 .. 3 * n /\ n \in Nat
      /\ \A i \in 1 .. 3 * n : p[i] \in Nat /\ q[i] \in Nat
  BY PartsAre, KeysOfAre
<1>2. PICK i \in 1 .. 3 * n : p[i] < q[i] /\ \A j \in 1 .. i - 1 : p[j] = q[j]
  BY <1>1 DEF ExactLess
<1>3. PICK m \in 1 .. 3 * n : q[m] < p[m] /\ \A j \in 1 .. m - 1 : q[j] = p[j]
  BY <1>1 DEF ExactLess
<1>4. i \notin 1 .. m - 1 /\ m \notin 1 .. i - 1 /\ i # m
  BY <1>1, <1>2, <1>3
<1> QED
  BY <1>1, <1>4

-----------------------------------------------------------------------------
(* An entry of the pinyin table. *)

FiledItem == [keys : PinyinKeys, token : Nat]

ItemsIn(entry) == {entry[k] : k \in DOMAIN entry}

\* Items are in the order of their keys, and none is there twice.
EntryIs(entry, n) ==
    /\ entry \in Seq(FiledItem)
    /\ \A k \in DOMAIN entry : entry[k].keys \in KeysOf(n)
    /\ \A j, k \in DOMAIN entry :
          j < k => ~ExactLess(entry[k].keys, entry[j].keys) /\ entry[j] # entry[k]

LEMMA EntryIsSeq ==
    ASSUME NEW n, NEW entry, EntryIs(entry, n)
    PROVE  /\ entry \in Seq(FiledItem) /\ Len(entry) \in Nat /\ DOMAIN entry = 1 .. Len(entry)
           /\ \A k \in DOMAIN entry : /\ k \in Nat /\ entry[k] \in FiledItem
                                      /\ entry[k].keys \in KeysOf(n)
BY DEF EntryIs

LEMMA BoundsAre ==
    ASSUME NEW n, NEW entry, EntryIs(entry, n), NEW keys \in KeysOf(n)
    PROVE  /\ Lower(entry, keys) \in 1 .. Len(entry) + 1
           /\ Upper(entry, keys) \in 1 .. Len(entry) + 1
           /\ Lower(entry, keys) <= Upper(entry, keys)
           /\ \A k \in DOMAIN entry :
                 /\ k < Lower(entry, keys) => ExactLess(entry[k].keys, keys)
                 /\ k >= Lower(entry, keys) => ~ExactLess(entry[k].keys, keys)
                 /\ k < Upper(entry, keys) => ~ExactLess(keys, entry[k].keys)
                 /\ k = Upper(entry, keys) => ExactLess(keys, entry[k].keys)
<1> DEFINE behind == Len(entry) + 1
           L == {k \in DOMAIN entry : ~ExactLess(entry[k].keys, keys)} \cup {behind}
           U == {k \in DOMAIN entry : ExactLess(keys, entry[k].keys)} \cup {behind}
           lower == Lower(entry, keys)
           upper == Upper(entry, keys)
<1>1. /\ Len(entry) \in Nat /\ DOMAIN entry = 1 .. Len(entry)
      /\ \A k \in DOMAIN entry : k \in Nat /\ entry[k].keys \in KeysOf(n)
  BY EntryIsSeq
<1>2. /\ L \in SUBSET (1 .. behind) /\ L \in SUBSET Nat /\ L # {}
      /\ U \in SUBSET (1 .. behind) /\ U \in SUBSET Nat /\ U # {}
  BY <1>1
<1>3. lower = Min(L) /\ upper = Min(U)
  BY DEF Lower, Upper
<1> HIDE DEF L, U
<1>4. /\ Min(L) \in L /\ \A y \in L : Min(L) <= y
      /\ Min(U) \in U /\ \A y \in U : Min(U) <= y
  BY <1>2, LeastIs
<1> HIDE DEF lower, upper
<1>5. lower \in 1 .. behind /\ upper \in 1 .. behind
  BY <1>2, <1>3, <1>4
<1>6. ASSUME NEW k \in DOMAIN entry, k < lower PROVE ExactLess(entry[k].keys, keys)
  <2>1. k \notin L
    BY <1>1, <1>3, <1>4, <1>5, <1>6
  <2> QED
    BY <2>1 DEF L
<1>7. ASSUME NEW k \in DOMAIN entry, k < upper PROVE ~ExactLess(keys, entry[k].keys)
  <2>1. k \notin U
    BY <1>1, <1>3, <1>4, <1>5, <1>7
  <2> QED
    BY <2>1 DEF U
<1>8. ASSUME NEW k \in DOMAIN entry, k >= lower PROVE ~ExactLess(entry[k].keys, keys)
  <2>1. lower \in DOMAIN entry
    BY <1>1, <1>5, <1>8
  <2>2. ~ExactLess(entry[lower].keys, keys)
    BY <1>1, <1>3, <1>4, <2>1 DEF L
  <2>3. CASE k = lower
    BY <2>2, <2>3
  <2>4. CASE k # lower
    <3>1. lower < k
      BY <1>1, <1>5, <1>8, <2>4
    <3>2. ~ExactLess(entry[k].keys, entry[lower].keys)
      BY <2>1, <3>1 DEF EntryIs
    <3> QED
      BY <1>1, <2>1, <2>2, <3>2, OrderTransitive
  <2> QED
    BY <2>3, <2>4
<1>9. lower <= upper
  <2>1. CASE upper = behind
    BY <1>5, <2>1
  <2>2. CASE upper # behind
    <3>1. upper \in DOMAIN entry /\ ExactLess(keys, entry[upper].keys)
      BY <1>3, <1>4, <2>2 DEF U
    <3>2. ~ExactLess(entry[upper].keys, keys)
      BY <1>1, <3>1, OrderAsymmetric
    <3>3. upper \in L
      BY <3>1, <3>2 DEF L
    <3> QED
      BY <1>3, <1>4, <3>3
  <2> QED
    BY <2>1, <2>2
<1>10. ASSUME NEW k \in DOMAIN entry, k = upper PROVE ExactLess(keys, entry[k].keys)
  <2>1. k # behind /\ k \in U
    BY <1>1, <1>3, <1>4, <1>10
  <2> QED
    BY <2>1 DEF U
<1> QED
  BY <1>5, <1>6, <1>7, <1>8, <1>9, <1>10 DEF lower, upper

\* Searching by halves finds an item exactly where it is.
LEMMA SameIs ==
    ASSUME NEW n, NEW entry, EntryIs(entry, n), NEW keys \in KeysOf(n), NEW token
    PROVE  Same(entry, keys, token)
              = {k \in DOMAIN entry : entry[k] = [keys |-> keys, token |-> token]}
<1> DEFINE lower == Lower(entry, keys)
           upper == Upper(entry, keys)
<1>1. /\ Len(entry) \in Nat /\ DOMAIN entry = 1 .. Len(entry)
      /\ \A k \in DOMAIN entry : /\ k \in Nat /\ entry[k] \in FiledItem
                                 /\ entry[k].keys \in KeysOf(n)
  BY EntryIsSeq
<1>2. /\ lower \in 1 .. Len(entry) + 1 /\ upper \in 1 .. Len(entry) + 1
      /\ \A k \in DOMAIN entry :
                 /\ k < lower => ExactLess(entry[k].keys, keys)
                 /\ k >= lower => ~ExactLess(entry[k].keys, keys)
                 /\ k < upper => ~ExactLess(keys, entry[k].keys)
                 /\ k = upper => ExactLess(keys, entry[k].keys)
  BY BoundsAre
<1>3. ASSUME NEW k \in DOMAIN entry
      PROVE  entry[k] = [keys |-> keys, token |-> token]
                <=> entry[k].keys = keys /\ entry[k].token = token
  BY <1>1 DEF FiledItem
<1>4. Same(entry, keys, token) = {k \in lower .. upper - 1 : entry[k].token = token}
  BY DEF Same
<1> DEFINE S == Same(entry, keys, token)
           T == {k \in DOMAIN entry : entry[k] = [keys |-> keys, token |-> token]}
<1>5. ASSUME NEW k \in S PROVE k \in T
  <2>1. k \in lower .. upper - 1 /\ entry[k].token = token
    BY <1>4
  <2>2. k \in DOMAIN entry /\ k >= lower /\ k < upper
    BY <1>1, <1>2, <2>1
  <2>3. ~ExactLess(entry[k].keys, keys) /\ ~ExactLess(keys, entry[k].keys)
    BY <1>2, <2>2
  <2>4. entry[k].keys = keys
    BY <1>1, <2>2, <2>3, OrderTotal
  <2> QED
    BY <1>3, <2>1, <2>2, <2>4
<1>6. ASSUME NEW k \in T PROVE k \in S
  <2>1. k \in DOMAIN entry /\ entry[k].keys = keys /\ entry[k].token = token
    BY <1>3
  <2>2. k >= lower
    <3>1. ~ExactLess(entry[k].keys, keys)
      BY <2>1, OrderIrreflexive
    <3> QED
      BY <1>1, <1>2, <2>1, <3>1
  <2>3. k < upper
    <3>1. CASE upper \in DOMAIN entry /\ upper <= k
      <4>1. ExactLess(keys, entry[upper].keys)
        BY <1>2, <3>1
      <4>2. CASE upper = k
        BY <2>1, <4>1, <4>2, OrderIrreflexive
      <4>3. CASE upper < k
        <5>1. ~ExactLess(entry[k].keys, entry[upper].keys)
          BY <2>1, <3>1, <4>3 DEF EntryIs
        <5> QED
          BY <2>1, <4>1, <5>1
      <4> QED
        BY <1>1, <1>2, <3>1, <4>2, <4>3
    <3> QED
      BY <1>1, <1>2, <2>1, <3>1
  <2> QED
    BY <1>1, <1>2, <1>4, <2>1, <2>2, <2>3
<1> QED
  BY <1>5, <1>6

LEMMA ConcatBehind ==
    ASSUME NEW V, NEW s \in Seq(V), NEW t \in Seq(V), NEW k \in 1 .. Len(t)
    PROVE  (s \o t)[Len(s) + k] = t[k]
OBVIOUS

LEMMA InsertedIs ==
    ASSUME NEW T, NEW s \in Seq(T), NEW p \in 1 .. Len(s) + 1, NEW x \in T
    PROVE  /\ InsertAt(s, p, x) \in Seq(T) /\ Len(InsertAt(s, p, x)) = Len(s) + 1
           /\ \A k \in 1 .. Len(s) + 1 :
                 InsertAt(s, p, x)[k] = IF k < p THEN s[k] ELSE IF k = p THEN x ELSE s[k - 1]
<1> DEFINE a == SubSeq(s, 1, p - 1)
           b == <<x>>
           c == SubSeq(s, p, Len(s))
           d == (a \o b) \o c
<1>1. Len(s) \in Nat /\ p \in Nat /\ p - 1 \in Nat
  OBVIOUS
<1>2. a \in Seq(T) /\ Len(a) = p - 1 /\ \A k \in 1 .. p - 1 : a[k] = s[k]
  OBVIOUS
<1>3. b \in Seq(T) /\ Len(b) = 1 /\ b[1] = x
  OBVIOUS
<1>4. /\ c \in Seq(T) /\ Len(c) = Len(s) + 1 - p
      /\ \A k \in 1 .. Len(s) + 1 - p : c[k] = s[p + k - 1]
  OBVIOUS
<1>5. InsertAt(s, p, x) = d
  BY DEF InsertAt
<1> HIDE DEF a, b, c
<1>6. /\ a \o b \in Seq(T) /\ Len(a \o b) = p
      /\ \A k \in 1 .. p : (a \o b)[k] = IF k < p THEN s[k] ELSE x
  <2>1. a \o b \in Seq(T) /\ Len(a \o b) = Len(a) + Len(b)
    BY <1>2, <1>3, ConcatIs
  <2>2. Len(a \o b) = p
    BY <1>1, <1>2, <1>3, <2>1
  <2>3. ASSUME NEW k \in 1 .. p, k < p PROVE (a \o b)[k] = s[k]
    <3>1. k \in 1 .. p - 1 /\ k \in 1 .. Len(a)
      BY <1>1, <1>2, <2>3
    <3>2. (a \o b)[k] = a[k]
      BY <1>2, <1>3, <3>1
    <3> QED
      BY <1>2, <3>1, <3>2
  <2>4. (a \o b)[p] = x
    <3>1. (a \o b)[Len(a) + 1] = b[1]
      BY <1>2, <1>3, ConcatBehind
    <3>2. Len(a) + 1 = p
      BY <1>1, <1>2
    <3> QED
      BY <1>3, <3>1, <3>2
  <2>5. \A k \in 1 .. p : k < p \/ k = p
    BY <1>1
  <2> QED
    BY <1>1, <2>1, <2>2, <2>3, <2>4, <2>5
<1>7. d \in Seq(T) /\ Len(d) = Len(s) + 1
  BY <1>1, <1>4, <1>6
<1>8. ASSUME NEW k \in 1 .. Len(s) + 1
      PROVE  d[k] = IF k < p THEN s[k] ELSE IF k = p THEN x ELSE s[k - 1]
  <2>1. CASE k <= p
    <3>1. k \in 1 .. p /\ k \in 1 .. Len(a \o b)
      BY <1>1, <1>6, <2>1
    <3> DEFINE e == a \o b
    <3>2. e \in Seq(T) /\ k \in 1 .. Len(e)
      BY <1>6, <3>1
    <3> HIDE DEF e
    <3>3. (e \o c)[k] = e[k]
      BY <1>4, <3>2, ConcatIs
    <3>4. d[k] = (a \o b)[k]
      BY <3>3 DEF e
    <3> QED
      BY <1>1, <1>6, <2>1, <3>1, <3>4
  <2>2. CASE p < k
    <3> DEFINE e == a \o b
    <3> HIDE DEF e
    <3>1. /\ e \in Seq(T) /\ Len(e) = p
          /\ k - p \in 1 .. Len(c) /\ p + (k - p) = k
      <4>1. e \in Seq(T) /\ Len(e) = p
        BY <1>6 DEF e
      <4>2. k - p \in 1 .. Len(s) + 1 - p /\ p + (k - p) = k
        BY <1>1, <2>2
      <4>3. Len(c) = Len(s) + 1 - p
        BY <1>4
      <4> QED
        BY <4>1, <4>2, <4>3
    <3>2. (e \o c)[Len(e) + (k - p)] = c[k - p]
      BY <1>4, <3>1, ConcatBehind
    <3>3. d[k] = c[k - p]
      BY <3>1, <3>2 DEF e
    <3>4. k - p \in 1 .. Len(s) + 1 - p /\ p + (k - p) - 1 = k - 1
      BY <1>1, <2>2
    <3>5. c[k - p] = s[p + (k - p) - 1]
      BY <1>4, <3>4
    <3> QED
      BY <1>1, <2>2, <3>3, <3>4, <3>5
  <2>3. k <= p \/ p < k
    BY <1>1
  <2> QED
    BY <2>1, <2>2, <2>3
<1> QED
  BY <1>5, <1>7, <1>8

LEMMA RemovedIs ==
    ASSUME NEW T, NEW s \in Seq(T), NEW p \in 1 .. Len(s)
    PROVE  /\ RemoveAt(s, p) \in Seq(T) /\ Len(RemoveAt(s, p)) = Len(s) - 1
           /\ \A k \in 1 .. Len(s) - 1 : RemoveAt(s, p)[k] = IF k < p THEN s[k] ELSE s[k + 1]
<1> DEFINE a == SubSeq(s, 1, p - 1)
           c == SubSeq(s, p + 1, Len(s))
           d == a \o c
<1>1. Len(s) \in Nat /\ p \in Nat /\ p - 1 \in Nat
  OBVIOUS
<1>2. a \in Seq(T) /\ Len(a) = p - 1 /\ \A k \in 1 .. p - 1 : a[k] = s[k]
  OBVIOUS
<1>3. /\ c \in Seq(T) /\ Len(c) = Len(s) - p
      /\ \A k \in 1 .. Len(s) - p : c[k] = s[p + k]
  OBVIOUS
<1>4. RemoveAt(s, p) = d
  BY DEF RemoveAt
<1> HIDE DEF a, c
<1>5. d \in Seq(T) /\ Len(d) = Len(s) - 1
  <2>1. d \in Seq(T) /\ Len(d) = Len(a) + Len(c)
    BY <1>2, <1>3, ConcatIs
  <2> QED
    BY <1>1, <1>2, <1>3, <2>1
<1>6. ASSUME NEW k \in 1 .. Len(s) - 1 PROVE d[k] = IF k < p THEN s[k] ELSE s[k + 1]
  <2>1. CASE k < p
    BY <1>1, <1>2, <1>3, <2>1
  <2>2. CASE p <= k
    <3>1. d[k] = c[k - (p - 1)]
      BY <1>1, <1>2, <1>3, <2>2
    <3>2. k - (p - 1) \in 1 .. Len(s) - p /\ p + (k - (p - 1)) = k + 1
      BY <1>1, <2>2
    <3> QED
      BY <1>1, <1>3, <2>2, <3>1, <3>2
  <2>3. k < p \/ p <= k
    BY <1>1
  <2> QED
    BY <2>1, <2>2, <2>3
<1> QED
  BY <1>4, <1>5, <1>6

\* An item put where the order has room for it.
LEMMA EntryInserted ==
    ASSUME NEW n, NEW entry, EntryIs(entry, n), NEW p \in 1 .. Len(entry) + 1,
           NEW x \in FiledItem, x.keys \in KeysOf(n), x \notin ItemsIn(entry),
           \A k \in DOMAIN entry : k < p => ~ExactLess(x.keys, entry[k].keys),
           \A k \in DOMAIN entry : k >= p => ~ExactLess(entry[k].keys, x.keys)
    PROVE  /\ EntryIs(InsertAt(entry, p, x), n)
           /\ ItemsIn(InsertAt(entry, p, x)) = ItemsIn(entry) \cup {x}
<1> DEFINE d == InsertAt(entry, p, x)
<1>1. /\ entry \in Seq(FiledItem) /\ Len(entry) \in Nat /\ DOMAIN entry = 1 .. Len(entry)
      /\ \A k \in DOMAIN entry : /\ k \in Nat /\ entry[k] \in FiledItem
                                 /\ entry[k].keys \in KeysOf(n)
  BY EntryIsSeq
<1>2. /\ d \in Seq(FiledItem) /\ Len(d) = Len(entry) + 1
      /\ \A k \in 1 .. Len(entry) + 1 :
            d[k] = IF k < p THEN entry[k] ELSE IF k = p THEN x ELSE entry[k - 1]
  BY <1>1, InsertedIs
<1> HIDE DEF d
<1>3. DOMAIN d = 1 .. Len(entry) + 1 /\ p \in DOMAIN d /\ d[p] = x
  BY <1>1, <1>2
<1>4. ASSUME NEW k \in DOMAIN d
      PROVE  \/ k < p /\ k \in DOMAIN entry /\ d[k] = entry[k]
             \/ k = p /\ d[k] = x
             \/ k > p /\ k - 1 \in DOMAIN entry /\ d[k] = entry[k - 1]
  BY <1>1, <1>2, <1>3
<1>5. ASSUME NEW k \in DOMAIN d PROVE d[k].keys \in KeysOf(n)
  BY <1>1, <1>4
<1>6. \A k \in DOMAIN entry : x # entry[k]
  BY DEF ItemsIn
<1>7. ASSUME NEW j \in DOMAIN d, NEW k \in DOMAIN d, j < k
      PROVE  ~ExactLess(d[k].keys, d[j].keys) /\ d[j] # d[k]
  <2>1. CASE j < p /\ k < p
    <3>1. /\ j \in DOMAIN entry /\ d[j] = entry[j]
          /\ k \in DOMAIN entry /\ d[k] = entry[k]
      BY <1>1, <1>2, <1>3, <2>1
    <3> QED
      BY <1>7, <3>1 DEF EntryIs
  <2>2. CASE j < p /\ k = p
    <3>1. j \in DOMAIN entry /\ d[j] = entry[j] /\ d[k] = x
      BY <1>1, <1>2, <1>3, <2>2
    <3> QED
      BY <1>6, <2>2, <3>1
  <2>3. CASE j < p /\ k > p
    <3>1. j \in DOMAIN entry /\ d[j] = entry[j] /\ k - 1 \in DOMAIN entry /\ d[k] = entry[k - 1]
      BY <1>1, <1>2, <1>3, <2>3
    <3>2. j < k - 1
      BY <1>1, <1>3, <2>3
    <3> QED
      BY <3>1, <3>2 DEF EntryIs
  <2>4. CASE j = p /\ k > p
    <3>1. k - 1 \in DOMAIN entry /\ d[k] = entry[k - 1] /\ d[j] = x /\ k - 1 >= p
      BY <1>1, <1>2, <1>3, <2>4
    <3> QED
      BY <1>6, <3>1
  <2>5. CASE j > p /\ k > p
    <3>1. /\ j - 1 \in DOMAIN entry /\ d[j] = entry[j - 1]
          /\ k - 1 \in DOMAIN entry /\ d[k] = entry[k - 1]
      BY <1>1, <1>2, <1>3, <2>5
    <3>2. j - 1 < k - 1
      BY <1>1, <1>3, <1>7
    <3> QED
      BY <3>1, <3>2 DEF EntryIs
  <2>6. j \in Int /\ k \in Int /\ p \in Int
    BY <1>1, <1>3
  <2> QED
    BY <1>7, <2>1, <2>2, <2>3, <2>4, <2>5, <2>6
<1>8. EntryIs(d, n)
  BY <1>2, <1>5, <1>7 DEF EntryIs
<1>9. ASSUME NEW y \in ItemsIn(d) PROVE y \in ItemsIn(entry) \cup {x}
  <2>1. PICK k \in DOMAIN d : y = d[k]
    BY DEF ItemsIn
  <2> QED
    BY <1>4, <2>1 DEF ItemsIn
<1>10. ASSUME NEW y \in ItemsIn(entry) PROVE y \in ItemsIn(d)
  <2>1. PICK k \in DOMAIN entry : y = entry[k]
    BY DEF ItemsIn
  <2>2. CASE k < p
    <3>1. k \in DOMAIN d /\ d[k] = y
      BY <1>1, <1>2, <1>3, <2>1, <2>2
    <3> QED
      BY <3>1 DEF ItemsIn
  <2>3. CASE k >= p
    <3>1. k + 1 \in 1 .. Len(entry) + 1 /\ ~(k + 1 < p) /\ k + 1 # p /\ (k + 1) - 1 = k
      BY <1>1, <2>3
    <3>2. k + 1 \in DOMAIN d /\ d[k + 1] = y
      BY <1>2, <1>3, <2>1, <3>1
    <3> QED
      BY <3>2 DEF ItemsIn
  <2> QED
    BY <1>1, <2>2, <2>3
<1>11. x \in ItemsIn(d)
  BY <1>3 DEF ItemsIn
<1> QED
  BY <1>8, <1>9, <1>10, <1>11 DEF d

LEMMA EntryAddedIs ==
    ASSUME NEW n, NEW entry, EntryIs(entry, n), NEW keys \in KeysOf(n), NEW token \in Nat
    PROVE  /\ EntryIs(EntryAdded(entry, keys, token), n)
           /\ ItemsIn(EntryAdded(entry, keys, token))
                 = ItemsIn(entry) \cup {[keys |-> keys, token |-> token]}
<1> DEFINE x == [keys |-> keys, token |-> token]
           lower == Lower(entry, keys)
           upper == Upper(entry, keys)
           greater == {k \in lower .. upper - 1 : entry[k].token > token}
           p == Min(greater \cup {upper})
<1>1. /\ Len(entry) \in Nat /\ DOMAIN entry = 1 .. Len(entry)
      /\ \A k \in DOMAIN entry : k \in Nat /\ entry[k].keys \in KeysOf(n)
  BY EntryIsSeq
<1>2. /\ lower \in 1 .. Len(entry) + 1 /\ upper \in 1 .. Len(entry) + 1 /\ lower <= upper
      /\ \A k \in DOMAIN entry :
                 /\ k < lower => ExactLess(entry[k].keys, keys)
                 /\ k >= lower => ~ExactLess(entry[k].keys, keys)
                 /\ k < upper => ~ExactLess(keys, entry[k].keys)
  BY BoundsAre
<1>3. x \in FiledItem /\ x.keys = keys /\ x.keys \in KeysOf(n)
  BY KeysOfAre DEF FiledItem
<1>4. Same(entry, keys, token) = {k \in DOMAIN entry : entry[k] = x}
  BY SameIs
<1>5. EntryAdded(entry, keys, token)
         = IF Same(entry, keys, token) # {} THEN entry ELSE InsertAt(entry, p, x)
  BY DEF EntryAdded
<1> HIDE DEF x, lower, upper
<1>6. CASE Same(entry, keys, token) # {}
  <2>1. x \in ItemsIn(entry)
    BY <1>4, <1>6 DEF ItemsIn
  <2>2. EntryAdded(entry, keys, token) = entry
    BY <1>5, <1>6
  <2>3. ItemsIn(entry) = ItemsIn(entry) \cup {x}
    BY <2>1
  <2> QED
    BY <2>2, <2>3 DEF x
<1>7. CASE Same(entry, keys, token) = {}
  <2>1. x \notin ItemsIn(entry)
    BY <1>4, <1>7 DEF ItemsIn
  <2>2. greater \cup {upper} \in SUBSET (lower .. upper) /\ greater \cup {upper} # {}
    BY <1>1, <1>2
  <2>3. greater \cup {upper} \in SUBSET Nat
    BY <1>1, <1>2, <2>2
  <2> HIDE DEF greater
  <2>4. p \in greater \cup {upper}
    BY <2>2, <2>3, LeastIs
  <2>5. p \in lower .. upper
    BY <2>2, <2>4
  <2> HIDE DEF p
  <2>6. p \in 1 .. Len(entry) + 1
    BY <1>1, <1>2, <2>5
  <2>7. ASSUME NEW k \in DOMAIN entry, k < p PROVE ~ExactLess(x.keys, entry[k].keys)
    <3>1. k < upper
      BY <1>1, <1>2, <2>5, <2>7
    <3> QED
      BY <1>2, <1>3, <3>1
  <2>8. ASSUME NEW k \in DOMAIN entry, k >= p PROVE ~ExactLess(entry[k].keys, x.keys)
    <3>1. k >= lower
      BY <1>1, <1>2, <2>5, <2>8
    <3> QED
      BY <1>2, <1>3, <3>1
  <2>9. /\ EntryIs(InsertAt(entry, p, x), n)
        /\ ItemsIn(InsertAt(entry, p, x)) = ItemsIn(entry) \cup {x}
    BY <1>3, <2>1, <2>6, <2>7, <2>8, EntryInserted
  <2> QED
    BY <1>5, <1>7, <2>9 DEF x
<1> QED
  BY <1>6, <1>7

LEMMA EntryRemovedIs ==
    ASSUME NEW n, NEW entry, EntryIs(entry, n), NEW keys \in KeysOf(n), NEW token \in Nat
    PROVE  /\ EntryIs(EntryRemoved(entry, keys, token), n)
           /\ ItemsIn(EntryRemoved(entry, keys, token))
                 = ItemsIn(entry) \ {[keys |-> keys, token |-> token]}
<1> DEFINE x == [keys |-> keys, token |-> token]
           same == Same(entry, keys, token)
           p == Min(same)
           d == RemoveAt(entry, p)
<1>1. /\ entry \in Seq(FiledItem) /\ Len(entry) \in Nat /\ DOMAIN entry = 1 .. Len(entry)
      /\ \A k \in DOMAIN entry : /\ k \in Nat /\ entry[k] \in FiledItem
                                 /\ entry[k].keys \in KeysOf(n)
  BY EntryIsSeq
<1>2. same = {k \in DOMAIN entry : entry[k] = x}
  BY SameIs
<1>3. EntryRemoved(entry, keys, token) = IF same = {} THEN entry ELSE d
  BY DEF EntryRemoved
<1> HIDE DEF x, same
<1>4. CASE same = {}
  <2>1. x \notin ItemsIn(entry)
    BY <1>2, <1>4 DEF ItemsIn
  <2> QED
    BY <1>3, <1>4, <2>1 DEF x
<1>5. CASE same # {}
  <2>1. same \in SUBSET Nat
    BY <1>1, <1>2
  <2>2. p \in same
    BY <1>5, <2>1, LeastIs
  <2>3. p \in 1 .. Len(entry) /\ entry[p] = x
    BY <1>1, <1>2, <2>2
  <2> HIDE DEF p
  <2>4. /\ d \in Seq(FiledItem) /\ Len(d) = Len(entry) - 1
        /\ \A k \in 1 .. Len(entry) - 1 : d[k] = IF k < p THEN entry[k] ELSE entry[k + 1]
    BY <1>1, <2>3, RemovedIs
  <2> HIDE DEF d
  <2>5. DOMAIN d = 1 .. Len(entry) - 1
    BY <1>1, <2>4
  <2> DEFINE at(k) == IF k < p THEN k ELSE k + 1
  <2>6. ASSUME NEW k \in DOMAIN d
        PROVE  at(k) \in DOMAIN entry /\ at(k) # p /\ d[k] = entry[at(k)]
    BY <1>1, <2>3, <2>4, <2>5
  <2>7. \A j, k \in DOMAIN d : j < k => at(j) < at(k)
    BY <1>1, <2>3, <2>5
  <2>8. \A j \in DOMAIN entry : j # p => \E k \in DOMAIN d : at(k) = j
    <3>1. ASSUME NEW j \in DOMAIN entry, j < p PROVE j \in DOMAIN d /\ at(j) = j
      BY <1>1, <2>3, <2>5, <3>1
    <3>2. ASSUME NEW j \in DOMAIN entry, j > p PROVE j - 1 \in DOMAIN d /\ at(j - 1) = j
      BY <1>1, <2>3, <2>5, <3>2
    <3>3. \A j \in DOMAIN entry : j # p => j < p \/ j > p
      BY <1>1, <2>3
    <3> HIDE DEF at
    <3> QED
      BY <3>1, <3>2, <3>3
  <2> HIDE DEF at
  <2>9. EntryIs(d, n)
    <3>1. \A k \in DOMAIN d : d[k].keys \in KeysOf(n)
      BY <1>1, <2>6
    <3>2. ASSUME NEW j \in DOMAIN d, NEW k \in DOMAIN d, j < k
          PROVE  ~ExactLess(d[k].keys, d[j].keys) /\ d[j] # d[k]
      BY <2>6, <2>7, <3>2 DEF EntryIs
    <3> QED
      BY <2>4, <3>1, <3>2 DEF EntryIs
  <2>10. \A j \in DOMAIN entry : j # p => entry[j] # x
    <3>1. \A j \in DOMAIN entry : j # p => j < p \/ p < j
      BY <1>1, <2>3
    <3> QED
      BY <1>1, <2>3, <3>1 DEF EntryIs
  <2>11. ASSUME NEW y \in ItemsIn(d) PROVE y \in ItemsIn(entry) \ {x}
    <3>1. PICK k \in DOMAIN d : y = d[k]
      BY DEF ItemsIn
    <3> QED
      BY <2>6, <2>10, <3>1 DEF ItemsIn
  <2>12. ASSUME NEW y \in ItemsIn(entry), y # x PROVE y \in ItemsIn(d)
    <3>1. PICK j \in DOMAIN entry : y = entry[j]
      BY DEF ItemsIn
    <3>2. PICK k \in DOMAIN d : at(k) = j
      BY <2>3, <2>8, <2>12, <3>1
    <3> QED
      BY <2>6, <3>1, <3>2 DEF ItemsIn
  <2> QED
    BY <1>3, <1>5, <2>9, <2>11, <2>12 DEF x
<1> QED
  BY <1>4, <1>5

\* The items of an entry that a mask leaves, up to one of them.
Unmasked(entry, S, m) == {entry[k] : k \in {j \in 1 .. m : entry[j].token \notin S}}

EntryMaskedTo(entry, S, n, m) ==
    {d \in Seq(FiledItem) : EntryIs(d, n) /\ ItemsIn(d) = Unmasked(entry, S, m)}

LEMMA MaskedStep ==
    ASSUME NEW n, NEW entry, EntryIs(entry, n), NEW S, NEW m \in 1 .. Len(entry),
           NEW d \in EntryMaskedTo(entry, S, n, m - 1)
    PROVE  (IF entry[m].token \in S THEN d ELSE Append(d, entry[m]))
              \in EntryMaskedTo(entry, S, n, m)
<1> DEFINE x == entry[m]
           e == Append(d, x)
<1>1. /\ entry \in Seq(FiledItem) /\ Len(entry) \in Nat /\ DOMAIN entry = 1 .. Len(entry)
      /\ \A k \in DOMAIN entry : /\ k \in Nat /\ entry[k] \in FiledItem
                                 /\ entry[k].keys \in KeysOf(n)
  BY EntryIsSeq
<1>2. m \in DOMAIN entry /\ m \in Nat /\ \A k \in 1 .. m - 1 : k \in DOMAIN entry /\ k < m
  BY <1>1
<1>3. d \in Seq(FiledItem) /\ EntryIs(d, n) /\ ItemsIn(d) = Unmasked(entry, S, m - 1)
  BY DEF EntryMaskedTo
<1>4. \A j : j \in 1 .. m <=> j \in 1 .. m - 1 \/ j = m
  BY <1>2
<1>5. CASE entry[m].token \in S
  <2>1. {j \in 1 .. m : entry[j].token \notin S} = {j \in 1 .. m - 1 : entry[j].token \notin S}
    BY <1>4, <1>5
  <2> QED
    BY <1>3, <1>5, <2>1 DEF EntryMaskedTo, Unmasked
<1>6. CASE entry[m].token \notin S
  <2>1. Unmasked(entry, S, m) = Unmasked(entry, S, m - 1) \cup {x}
    <3>1. {j \in 1 .. m : entry[j].token \notin S}
             = {j \in 1 .. m - 1 : entry[j].token \notin S} \cup {m}
      BY <1>4, <1>6
    <3> QED
      BY <3>1 DEF Unmasked
  <2>2. ASSUME NEW y \in ItemsIn(d) PROVE ~ExactLess(x.keys, y.keys) /\ y # x
    <3>1. PICK k \in 1 .. m - 1 : y = entry[k]
      BY <1>3 DEF Unmasked
    <3>2. k \in DOMAIN entry /\ k < m
      BY <1>2
    <3> QED
      BY <1>2, <3>1, <3>2 DEF EntryIs
  <2>3. Len(d) \in Nat /\ DOMAIN d = 1 .. Len(d)
    BY <1>3
  <2>4. x \in FiledItem /\ x.keys \in KeysOf(n)
    BY <1>1, <1>2
  <2> HIDE DEF x
  <2>5. /\ e \in Seq(FiledItem) /\ DOMAIN e = 1 .. Len(d) + 1
        /\ e[Len(d) + 1] = x /\ \A k \in DOMAIN d : e[k] = d[k]
    BY <1>3, <2>3, <2>4
  <2> HIDE DEF e
  <2>6. \A k : k \in DOMAIN e <=> k \in DOMAIN d \/ k = Len(d) + 1
    BY <2>3, <2>5
  <2>7. \A k \in DOMAIN e : e[k].keys \in KeysOf(n)
    BY <1>3, <2>4, <2>5, <2>6, EntryIsSeq
  <2>8. ASSUME NEW j \in DOMAIN e, NEW k \in DOMAIN e, j < k
        PROVE  ~ExactLess(e[k].keys, e[j].keys) /\ e[j] # e[k]
    <3>1. j \in DOMAIN d
      BY <2>3, <2>5, <2>8
    <3>2. CASE k \in DOMAIN d
      BY <1>3, <2>5, <2>8, <3>1, <3>2 DEF EntryIs
    <3>3. CASE k = Len(d) + 1
      <4>1. e[j] \in ItemsIn(d) /\ e[k] = x
        BY <2>5, <3>1, <3>3 DEF ItemsIn
      <4> QED
        BY <2>2, <4>1
    <3> QED
      BY <2>6, <3>2, <3>3
  <2>9. EntryIs(e, n)
    BY <2>5, <2>7, <2>8 DEF EntryIs
  <2>10. ItemsIn(e) = ItemsIn(d) \cup {x}
    BY <2>5, <2>6 DEF ItemsIn
  <2> QED
    BY <1>3, <1>6, <2>1, <2>5, <2>9, <2>10 DEF EntryMaskedTo, e, x
<1> QED
  BY <1>5, <1>6

LEMMA EntryMaskedIs ==
    ASSUME NEW n, NEW entry, EntryIs(entry, n), NEW S
    PROVE  /\ EntryIs(EntryMasked(entry, S), n)
           /\ ItemsIn(EntryMasked(entry, S)) = {x \in ItemsIn(entry) : x.token \notin S}
<1> DEFINE length == Len(entry)
           A == Seq(FiledItem)
           Kept(d, k) == IF entry[k].token \in S THEN d ELSE Append(d, entry[k])
           Step == [k \in 1 .. length |-> [d \in A |-> Kept(d, k)]]
           Eq(kept) == kept = [k \in 0 .. length |-> IF k = 0 THEN <<>>
                                                    ELSE IF entry[k].token \in S THEN kept[k - 1]
                                                    ELSE Append(kept[k - 1], entry[k])]
           function == CHOOSE kept : Eq(kept)
<1>1. length \in Nat /\ DOMAIN entry = 1 .. length /\ \A k \in 1 .. length : entry[k] \in FiledItem
  BY EntryIsSeq
<1>a. EntryMasked(entry, S) = function[length]
  BY DEF EntryMasked
<1> HIDE DEF length
<1>2. <<>> \in A /\ Step \in [1 .. length -> [A -> A]]
  BY <1>1
<1>3. Recursions(length, A, <<>>, Step) # {}
  <2> HIDE DEF Step, A
  <2> QED
    BY <1>1, <1>2, RecursionUpTo
<1>4. PICK kept \in [0 .. length -> A] :
         kept[0] = <<>> /\ \A k \in 1 .. length : kept[k] = Step[k][kept[k - 1]]
  BY <1>3 DEF Recursions
<1> HIDE DEF A
<1>5. \A k \in 1 .. length : kept[k] = Kept(kept[k - 1], k)
  <2>1. \A k \in 1 .. length : kept[k - 1] \in A
    BY <1>1, <1>4
  <2> HIDE DEF Kept
  <2> QED
    BY <1>4, <2>1
<1>6. Eq(kept)
  <2>1. \A k \in 0 .. length : k = 0 \/ k \in 1 .. length
    BY <1>1
  <2>2. \A k \in 0 .. length : kept[k] = IF k = 0 THEN <<>> ELSE Kept(kept[k - 1], k)
    BY <1>4, <1>5, <2>1
  <2>3. kept = [k \in 0 .. length |-> kept[k]]
    OBVIOUS
  <2> QED
    BY <2>2, <2>3
<1>7. Eq(function)
  <2> HIDE DEF Eq
  <2> QED
    BY <1>6
<1> HIDE DEF function
<1> DEFINE T == {k \in 0 .. length : function[k] \in EntryMaskedTo(entry, S, n, k)}
<1>8. 0 \in T
  <2>1. 0 \in 0 .. length /\ function[0] = <<>>
    BY <1>1, <1>7
  <2>2. <<>> \in Seq(FiledItem) /\ DOMAIN <<>> = {}
    OBVIOUS
  <2>3. EntryIs(<<>>, n) /\ ItemsIn(<<>>) = {}
    BY <2>2 DEF EntryIs, ItemsIn
  <2>4. Unmasked(entry, S, 0) = {}
    BY DEF Unmasked
  <2> QED
    BY <2>1, <2>2, <2>3, <2>4 DEF EntryMaskedTo
<1>9. ASSUME NEW k \in 1 .. length, k - 1 \in T PROVE k \in T
  <2>1. k \in 0 .. length /\ k # 0
    BY <1>1
  <2>2. function[k] = Kept(function[k - 1], k)
    BY <1>7, <2>1
  <2>3. function[k - 1] \in EntryMaskedTo(entry, S, n, k - 1) /\ k \in 1 .. Len(entry)
    BY <1>9 DEF length
  <2>4. Kept(function[k - 1], k) \in EntryMaskedTo(entry, S, n, k)
    BY <2>3, MaskedStep
  <2> QED
    BY <2>1, <2>2, <2>4
<1>10. length \in T
  <2> HIDE DEF T
  <2>1. 0 .. length \subseteq T
    BY <1>1, <1>8, <1>9, InductionUpTo
  <2>2. length \in 0 .. length
    BY <1>1
  <2> QED
    BY <2>1, <2>2
<1>11. Unmasked(entry, S, length) = {x \in ItemsIn(entry) : x.token \notin S}
  BY <1>1 DEF Unmasked, ItemsIn
<1> QED
  BY <1>10, <1>11, <1>a DEF EntryMaskedTo

-----------------------------------------------------------------------------
(* The pinyin table, and what is filed in it. *)

LEMMA IndicesAre ==
    ASSUME NEW n, NEW keys \in KeysOf(n)
    PROVE  /\ IncompleteIndex(keys) \in KeysOf(n)
           /\ ChewingIndex(keys) \in KeysOf(n)
           /\ SearchIndex(keys) \in KeysOf(n)
           /\ \A k \in 1 .. n : /\ IncompleteIndex(keys)[k] = <<keys[k][1], 0, 0>>
                                /\ ChewingIndex(keys)[k] = <<keys[k][1], keys[k][2], 0>>
<1>1. /\ n \in Nat \ {0} /\ DOMAIN keys = 1 .. n
      /\ \A k \in 1 .. n : keys[k][1] \in Nat /\ keys[k][2] \in Nat
  BY KeysOfAre
<1> DEFINE a == [k \in 1 .. n |-> <<keys[k][1], 0, 0>>]
           b == [k \in 1 .. n |-> <<keys[k][1], keys[k][2], 0>>]
<1>2. IncompleteIndex(keys) = a /\ ChewingIndex(keys) = b
  BY <1>1 DEF IncompleteIndex, ChewingIndex
<1>3. a \in [1 .. n -> Nat \X Nat \X Nat] /\ b \in [1 .. n -> Nat \X Nat \X Nat]
  BY <1>1
<1>4. \A k \in 1 .. n : a[k] = <<keys[k][1], 0, 0>> /\ b[k] = <<keys[k][1], keys[k][2], 0>>
  OBVIOUS
<1> HIDE DEF a, b
<1>5. ASSUME NEW c \in [1 .. n -> Nat \X Nat \X Nat]
      PROVE  c \in Seq(Nat \X Nat \X Nat) /\ Len(c) = n /\ c # <<>>
  <2>1. c \in Seq(Nat \X Nat \X Nat)
    BY <1>1
  <2>2. Len(c) = n /\ Len(c) # 0
    BY <1>1
  <2>3. Len(<<>>) = 0
    OBVIOUS
  <2> QED
    BY <2>1, <2>2, <2>3
<1>6. a \in KeysOf(n) /\ b \in KeysOf(n)
  BY <1>3, <1>5 DEF KeysOf, PinyinKeys
<1> QED
  BY <1>2, <1>4, <1>6 DEF SearchIndex

LEMMA KeysHaveALength ==
    ASSUME NEW keys \in PinyinKeys PROVE keys \in KeysOf(Len(keys))
BY DEF KeysOf

\* A table that holds a set of files: triples of an index, keys and a token.
TableHolds(table, files) ==
    /\ \A i \in DOMAIN table : /\ i \in PinyinKeys /\ EntryIs(table[i], Len(i))
                               /\ \A x \in FiledItem :
                                     x \in ItemsIn(table[i]) <=> <<i, x.keys, x.token>> \in files
    /\ \A f \in files : f[1] \in DOMAIN table
    /\ \A i \in DOMAIN table : \A m \in 1 .. Len(i) - 1 : SubSeq(i, 1, m) \in DOMAIN table

FilesOf(pairs) ==
    {f \in PinyinKeys \X PinyinKeys \X Nat :
        <<f[2], f[3]>> \in pairs /\ f[1] \in {IncompleteIndex(f[2]), ChewingIndex(f[2])}}

LEMMA HasIs ==
    ASSUME NEW table, NEW files, TableHolds(table, files),
           NEW n, NEW index \in KeysOf(n), NEW keys \in KeysOf(n), NEW token \in Nat
    PROVE  Has(table, index, keys, token) <=> <<index, keys, token>> \in files
<1> DEFINE x == [keys |-> keys, token |-> token]
<1>1. x \in FiledItem /\ x.keys = keys /\ x.token = token /\ Len(index) = n
  BY KeysOfAre DEF FiledItem
<1> HIDE DEF x
<1>2. CASE index \in DOMAIN table
  <2>1. EntryIs(table[index], n)
    BY <1>1, <1>2 DEF TableHolds
  <2>2. Same(table[index], keys, token) = {k \in DOMAIN table[index] : table[index][k] = x}
    BY <2>1, SameIs DEF x
  <2>3. Has(table, index, keys, token) <=> x \in ItemsIn(table[index])
    BY <1>2, <2>2 DEF Has, ItemsIn
  <2> QED
    BY <1>1, <1>2, <2>3 DEF TableHolds
<1>3. CASE index \notin DOMAIN table
  <2>1. <<index, keys, token>> \notin files
    BY <1>3 DEF TableHolds
  <2> QED
    BY <1>3, <2>1 DEF Has
<1> QED
  BY <1>2, <1>3

\* The beginnings of an index.
LEMMA BeginningsAre ==
    ASSUME NEW index \in PinyinKeys
    PROVE  /\ Len(index) \in Nat \ {0}
           /\ \A m \in 1 .. Len(index) - 1 :
                 /\ SubSeq(index, 1, m) \in KeysOf(m)
                 /\ SubSeq(index, 1, m) \in PinyinKeys
                 /\ Len(SubSeq(index, 1, m)) = m
                 /\ SubSeq(index, 1, m) # index
                 /\ \A k \in 1 .. m : SubSeq(index, 1, m)[k] = index[k]
                 /\ \A k \in 1 .. m : SubSeq(SubSeq(index, 1, m), 1, k) = SubSeq(index, 1, k)
<1>1. index \in Seq(Nat \X Nat \X Nat) /\ index # <<>> /\ Len(index) \in Nat \ {0}
  BY DEF PinyinKeys
<1>2. ASSUME NEW m \in 1 .. Len(index) - 1
      PROVE  /\ SubSeq(index, 1, m) \in KeysOf(m)
             /\ SubSeq(index, 1, m) \in PinyinKeys
             /\ Len(SubSeq(index, 1, m)) = m
             /\ SubSeq(index, 1, m) # index
             /\ \A k \in 1 .. m : SubSeq(index, 1, m)[k] = index[k]
             /\ \A k \in 1 .. m : SubSeq(SubSeq(index, 1, m), 1, k) = SubSeq(index, 1, k)
  <2> DEFINE b == SubSeq(index, 1, m)
  <2>1. /\ b \in Seq(Nat \X Nat \X Nat) /\ Len(b) = m
        /\ \A k \in 1 .. m : b[k] = index[k]
    BY <1>1
  <2>2. b # <<>> /\ b # index
    <3>1. Len(b) # Len(index) /\ Len(b) # 0
      BY <1>1, <2>1
    <3>2. Len(<<>>) = 0
      OBVIOUS
    <3> HIDE DEF b
    <3> QED
      BY <3>1, <3>2
  <2>3. b \in PinyinKeys
    BY <2>1, <2>2 DEF PinyinKeys
  <2>4. ASSUME NEW k \in 1 .. m PROVE SubSeq(b, 1, k) = SubSeq(index, 1, k)
    <3>1. SubSeq(b, 1, k) \in Seq(Nat \X Nat \X Nat) /\ Len(SubSeq(b, 1, k)) = k
      BY <1>1, <2>1
    <3>2. SubSeq(index, 1, k) \in Seq(Nat \X Nat \X Nat) /\ Len(SubSeq(index, 1, k)) = k
      BY <1>1
    <3>3. \A l \in 1 .. k : SubSeq(b, 1, k)[l] = b[l] /\ SubSeq(index, 1, k)[l] = index[l]
      BY <1>1, <2>1
    <3>4. \A l \in 1 .. k : l \in 1 .. m
      BY <1>1
    <3> HIDE DEF b
    <3> QED
      BY <2>1, <3>1, <3>2, <3>3, <3>4
  <2> QED
    BY <2>1, <2>2, <2>3, <2>4 DEF KeysOf
<1> QED
  BY <1>1, <1>2

Beginnings(index) == {SubSeq(index, 1, m) : m \in 1 .. Len(index) - 1}

IsAdded(added, table, index, keys, token) ==
    /\ DOMAIN added = DOMAIN table \cup {index} \cup Beginnings(index)
    /\ \A i \in DOMAIN table \ {index} : added[i] = table[i]
    /\ \A i \in Beginnings(index) \ DOMAIN table : added[i] = <<>>
    /\ added[index] = EntryAdded(IF index \in DOMAIN table THEN table[index] ELSE <<>>,
                                 keys, token)

\* Where an item is filed, the shorter indices are there or are put there.
LEMMA AddedInternally ==
    ASSUME NEW table, NEW files, TableHolds(table, files),
           NEW index \in PinyinKeys, NEW keys, NEW token,
           NEW added, added = AddIndexInternal(table, index, keys, token)
    PROVE  IsAdded(added, table, index, keys, token)
<1> DEFINE prefix(len) == SubSeq(index, 1, len)
           missing == {prefix(len) : len \in {l \in 1 .. Len(index) - 1 :
                          \A m \in l .. Len(index) - 1 : prefix(m) \notin DOMAIN table}}
           continued == IF index \in DOMAIN table THEN {} ELSE missing
           filed == Filed(table, index, keys, token)
<1>1. added = [i \in DOMAIN filed \cup continued |-> IF i \in continued THEN <<>> ELSE filed[i]]
  BY DEF AddIndexInternal
<1>2. /\ Len(index) \in Nat \ {0}
      /\ \A m \in 1 .. Len(index) - 1 :
            /\ Len(prefix(m)) = m /\ prefix(m) # index
            /\ \A k \in 1 .. m : SubSeq(prefix(m), 1, k) = prefix(k)
  BY BeginningsAre
<1>3. missing = Beginnings(index) \ DOMAIN table
  <2>1. ASSUME NEW l \in 1 .. Len(index) - 1, prefix(l) \notin DOMAIN table,
               NEW m \in l .. Len(index) - 1, prefix(m) \in DOMAIN table
        PROVE  FALSE
    <3>1. m \in 1 .. Len(index) - 1 /\ l \in 1 .. m /\ l # m
      BY <1>2, <2>1
    <3>2. l \in 1 .. Len(prefix(m)) - 1
      BY <1>2, <3>1
    <3>3. SubSeq(prefix(m), 1, l) \in DOMAIN table
      BY <2>1, <3>2 DEF TableHolds
    <3>4. SubSeq(prefix(m), 1, l) = prefix(l)
      BY <1>2, <3>1
    <3> QED
      BY <2>1, <3>3, <3>4
  <2>2. \A l \in 1 .. Len(index) - 1 : l \in l .. Len(index) - 1
    BY <1>2
  <2> HIDE DEF prefix
  <2>3. Beginnings(index) = {prefix(m) : m \in 1 .. Len(index) - 1}
    BY DEF Beginnings, prefix
  <2> QED
    BY <2>1, <2>2, <2>3
<1>4. continued = Beginnings(index) \ DOMAIN table
  <2>1. CASE index \in DOMAIN table
    <3>1. Beginnings(index) \subseteq DOMAIN table
      BY <2>1 DEF TableHolds, Beginnings
    <3> QED
      BY <2>1, <3>1
  <2> QED
    BY <1>3, <2>1
<1>5. /\ DOMAIN filed = DOMAIN table \cup {index}
      /\ \A i \in DOMAIN table \ {index} : filed[i] = table[i]
      /\ filed[index] = EntryAdded(IF index \in DOMAIN table THEN table[index] ELSE <<>>,
                                   keys, token)
  BY DEF Filed
<1>6. index \notin Beginnings(index)
  BY <1>2 DEF Beginnings
<1> HIDE DEF continued, filed
<1> QED
  BY <1>1, <1>4, <1>5, <1>6 DEF IsAdded

LEMMA NothingFiled ==
    ASSUME NEW n PROVE EntryIs(<<>>, n) /\ ItemsIn(<<>>) = {}
<1>1. <<>> \in Seq(FiledItem) /\ DOMAIN <<>> = {}
  OBVIOUS
<1> QED
  BY <1>1 DEF EntryIs, ItemsIn

LEMMA AddIndexInternalFiles ==
    ASSUME NEW table, NEW files, TableHolds(table, files), NEW n,
           NEW index \in KeysOf(n), NEW keys \in KeysOf(n), NEW token \in Nat
    PROVE  TableHolds(AddIndexInternal(table, index, keys, token),
                      files \cup {<<index, keys, token>>})
<1> DEFINE added == AddIndexInternal(table, index, keys, token)
           before == IF index \in DOMAIN table THEN table[index] ELSE <<>>
           entry == EntryAdded(before, keys, token)
           x == [keys |-> keys, token |-> token]
           all == files \cup {<<index, keys, token>>}
<1>1. index \in PinyinKeys /\ Len(index) = n
  BY KeysOfAre
<1>2. /\ DOMAIN added = DOMAIN table \cup {index} \cup Beginnings(index)
      /\ \A i \in DOMAIN table \ {index} : added[i] = table[i]
      /\ \A i \in Beginnings(index) \ DOMAIN table : added[i] = <<>>
      /\ added[index] = entry
  <2>1. IsAdded(AddIndexInternal(table, index, keys, token), table, index, keys, token)
    BY <1>1, AddedInternally
  <2> QED
    BY <2>1 DEF IsAdded
<1>3. x \in FiledItem /\ \A y \in FiledItem : y = x <=> y.keys = keys /\ y.token = token
  BY KeysOfAre DEF FiledItem
<1>4. /\ EntryIs(before, n)
      /\ \A y \in FiledItem : y \in ItemsIn(before) <=> <<index, y.keys, y.token>> \in files
  <2>1. CASE index \in DOMAIN table
    BY <1>1, <2>1 DEF TableHolds
  <2>2. CASE index \notin DOMAIN table
    <3>1. \A y : <<index, y.keys, y.token>> \notin files
      BY <2>2 DEF TableHolds
    <3> QED
      BY <2>2, <3>1, NothingFiled
  <2> QED
    BY <2>1, <2>2
<1> HIDE DEF before
<1>5. EntryIs(entry, n) /\ ItemsIn(entry) = ItemsIn(before) \cup {x}
  BY <1>4, EntryAddedIs
<1>6. \A m \in 1 .. n - 1 : /\ SubSeq(index, 1, m) \in PinyinKeys
                            /\ Len(SubSeq(index, 1, m)) = m
                            /\ SubSeq(index, 1, m) # index
                            /\ \A k \in 1 .. m :
                                  SubSeq(SubSeq(index, 1, m), 1, k) = SubSeq(index, 1, k)
  BY <1>1, BeginningsAre
<1> HIDE DEF added, entry, x
<1>7. ASSUME NEW i \in DOMAIN added
      PROVE  /\ i \in PinyinKeys /\ EntryIs(added[i], Len(i))
             /\ \A y \in FiledItem : y \in ItemsIn(added[i]) <=> <<i, y.keys, y.token>> \in all
  <2>1. CASE i = index
    BY <1>1, <1>2, <1>3, <1>4, <1>5, <2>1
  <2>2. CASE i \in DOMAIN table \ {index}
    <3>1. \A y \in FiledItem : <<i, y.keys, y.token>> \in all <=> <<i, y.keys, y.token>> \in files
      BY <2>2
    <3> HIDE DEF all
    <3> QED
      BY <1>2, <2>2, <3>1 DEF TableHolds
  <2>3. CASE i \in Beginnings(index) \ DOMAIN table
    <3>1. i \in PinyinKeys /\ i # index
      BY <1>1, <1>6, <2>3 DEF Beginnings
    <3>2. \A y : <<i, y.keys, y.token>> \notin all
      BY <2>3, <3>1 DEF TableHolds
    <3> QED
      BY <1>2, <2>3, <3>1, <3>2, NothingFiled
  <2> QED
    BY <1>2, <2>1, <2>2, <2>3
<1>8. ASSUME NEW f \in all PROVE f[1] \in DOMAIN added
  BY <1>2 DEF TableHolds
<1>9. ASSUME NEW i \in DOMAIN added, NEW m \in 1 .. Len(i) - 1
      PROVE  SubSeq(i, 1, m) \in DOMAIN added
  <2>1. CASE i = index
    <3>1. SubSeq(i, 1, m) \in Beginnings(index)
      BY <2>1 DEF Beginnings
    <3> QED
      BY <1>2, <3>1
  <2>2. CASE i \in DOMAIN table
    BY <1>2, <2>2 DEF TableHolds
  <2>3. CASE i \in Beginnings(index)
    <3>1. PICK l \in 1 .. n - 1 : i = SubSeq(index, 1, l)
      BY <1>1, <2>3 DEF Beginnings
    <3>2. m \in 1 .. l /\ m \in 1 .. n - 1
      BY <1>6, <3>1, KeysOfAre
    <3>3. SubSeq(i, 1, m) = SubSeq(index, 1, m)
      BY <1>6, <3>1, <3>2
    <3>4. SubSeq(i, 1, m) \in Beginnings(index)
      BY <1>1, <3>2, <3>3 DEF Beginnings
    <3> QED
      BY <1>2, <3>4
  <2> QED
    BY <1>2, <2>1, <2>2, <2>3
<1> HIDE DEF all
<1> QED
  BY <1>7, <1>8, <1>9 DEF TableHolds, all, added

LEMMA RemoveIndexInternalFiles ==
    ASSUME NEW table, NEW files, TableHolds(table, files), NEW n,
           NEW index \in KeysOf(n), NEW keys \in KeysOf(n), NEW token \in Nat
    PROVE  TableHolds(RemoveIndexInternal(table, index, keys, token),
                      files \ {<<index, keys, token>>})
<1> DEFINE left == RemoveIndexInternal(table, index, keys, token)
           x == [keys |-> keys, token |-> token]
           some == files \ {<<index, keys, token>>}
<1>1. index \in PinyinKeys /\ Len(index) = n
  BY KeysOfAre
<1>2. x \in FiledItem /\ \A y \in FiledItem : y = x <=> y.keys = keys /\ y.token = token
  BY KeysOfAre DEF FiledItem
<1>3. CASE index \notin DOMAIN table
  <2>1. <<index, keys, token>> \notin files
    BY <1>3 DEF TableHolds
  <2>2. left = table /\ some = files
    BY <1>3, <2>1 DEF RemoveIndexInternal
  <2> HIDE DEF left, some
  <2> QED
    BY <2>2 DEF left, some
<1>4. CASE index \in DOMAIN table
  <2>1. /\ DOMAIN left = DOMAIN table
        /\ \A i \in DOMAIN table \ {index} : left[i] = table[i]
        /\ left[index] = EntryRemoved(table[index], keys, token)
    BY <1>4 DEF RemoveIndexInternal
  <2>2. EntryIs(table[index], n)
    BY <1>1, <1>4 DEF TableHolds
  <2>3. /\ EntryIs(left[index], n)
        /\ ItemsIn(left[index]) = ItemsIn(table[index]) \ {x}
    BY <2>1, <2>2, EntryRemovedIs
  <2> HIDE DEF left, x
  <2>4. ASSUME NEW i \in DOMAIN left
        PROVE  /\ i \in PinyinKeys /\ EntryIs(left[i], Len(i))
               /\ \A y \in FiledItem : y \in ItemsIn(left[i]) <=> <<i, y.keys, y.token>> \in some
    <3>1. CASE i = index
      <4>1. \A y \in FiledItem :
               y \in ItemsIn(table[index]) <=> <<index, y.keys, y.token>> \in files
        BY <1>4 DEF TableHolds
      <4> QED
        BY <1>1, <1>2, <2>3, <3>1, <4>1
    <3>2. CASE i # index
      <4>1. \A y \in FiledItem :
               <<i, y.keys, y.token>> \in some <=> <<i, y.keys, y.token>> \in files
        BY <3>2
      <4> HIDE DEF some
      <4> QED
        BY <2>1, <3>2, <4>1 DEF TableHolds
    <3> QED
      BY <3>1, <3>2
  <2>5. \A f \in some : f[1] \in DOMAIN left
    BY <2>1 DEF TableHolds
  <2>6. \A i \in DOMAIN left : \A m \in 1 .. Len(i) - 1 : SubSeq(i, 1, m) \in DOMAIN left
    BY <2>1 DEF TableHolds
  <2> HIDE DEF some
  <2> QED
    BY <2>4, <2>5, <2>6 DEF TableHolds, left, some
<1> QED
  BY <1>3, <1>4

LEMMA MaskedOutFiles ==
    ASSUME NEW table, NEW files, TableHolds(table, files), NEW S
    PROVE  TableHolds(MaskedOut(table, S), {f \in files : f[3] \notin S})
<1> DEFINE left == MaskedOut(table, S)
           some == {f \in files : f[3] \notin S}
<1>1. DOMAIN left = DOMAIN table /\ \A i \in DOMAIN table : left[i] = EntryMasked(table[i], S)
  BY DEF MaskedOut
<1>2. ASSUME NEW i \in DOMAIN left
      PROVE  /\ i \in PinyinKeys /\ EntryIs(left[i], Len(i))
             /\ \A y \in FiledItem : y \in ItemsIn(left[i]) <=> <<i, y.keys, y.token>> \in some
  <2>1. /\ i \in PinyinKeys /\ EntryIs(table[i], Len(i))
        /\ \A x \in FiledItem : x \in ItemsIn(table[i]) <=> <<i, x.keys, x.token>> \in files
    BY <1>1 DEF TableHolds
  <2>2. /\ EntryIs(left[i], Len(i))
        /\ ItemsIn(left[i]) = {x \in ItemsIn(table[i]) : x.token \notin S}
    BY <1>1, <2>1, EntryMaskedIs
  <2> HIDE DEF left
  <2> QED
    BY <2>1, <2>2
<1>3. \A f \in some : f[1] \in DOMAIN left
  BY <1>1 DEF TableHolds
<1>4. \A i \in DOMAIN left : \A m \in 1 .. Len(i) - 1 : SubSeq(i, 1, m) \in DOMAIN left
  BY <1>1 DEF TableHolds
<1> HIDE DEF left, some
<1> QED
  BY <1>2, <1>3, <1>4 DEF TableHolds, left, some

-----------------------------------------------------------------------------
(* Each pair is filed twice. *)

Pairs == SUBSET (PinyinKeys \X Nat)

LEMMA FilesAre ==
    ASSUME NEW pairs \in Pairs, NEW keys \in PinyinKeys, NEW token \in Nat, NEW i
    PROVE  <<i, keys, token>> \in FilesOf(pairs)
              <=> <<keys, token>> \in pairs /\ i \in {IncompleteIndex(keys), ChewingIndex(keys)}
<1>1. IncompleteIndex(keys) \in PinyinKeys /\ ChewingIndex(keys) \in PinyinKeys
  BY KeysHaveALength, IndicesAre, KeysOfAre
<1> QED
  BY <1>1 DEF FilesOf

LEMMA AddIndexFiles ==
    ASSUME NEW table, NEW pairs \in Pairs, TableHolds(table, FilesOf(pairs)),
           NEW keys \in PinyinKeys, NEW token \in Nat
    PROVE  TableHolds(AddIndex(table, keys, token), FilesOf(pairs \cup {<<keys, token>>}))
<1> DEFINE n == Len(keys)
           first == IncompleteIndex(keys)
           second == ChewingIndex(keys)
           more == pairs \cup {<<keys, token>>}
           two == FilesOf(pairs) \cup {<<first, keys, token>>} \cup {<<second, keys, token>>}
           once == AddIndexInternal(table, first, keys, token)
           twice == AddIndexInternal(once, second, keys, token)
<1>1. keys \in KeysOf(n) /\ first \in KeysOf(n) /\ second \in KeysOf(n)
  BY KeysHaveALength, IndicesAre
<1>2. first \in PinyinKeys /\ second \in PinyinKeys
  BY <1>1, KeysOfAre
<1>3. Has(table, first, keys, token) <=> <<keys, token>> \in pairs
  <2>1. Has(table, first, keys, token) <=> <<first, keys, token>> \in FilesOf(pairs)
    BY <1>1, HasIs
  <2> QED
    BY <2>1, FilesAre
<1>4. AddIndex(table, keys, token) = IF Has(table, first, keys, token) THEN table ELSE twice
  BY DEF AddIndex
<1>5. CASE <<keys, token>> \in pairs
  <2>1. more = pairs
    BY <1>5
  <2> HIDE DEF more
  <2> QED
    BY <1>3, <1>4, <1>5, <2>1 DEF more
<1>6. CASE <<keys, token>> \notin pairs
  <2>1. TableHolds(once, FilesOf(pairs) \cup {<<first, keys, token>>})
    BY <1>1, AddIndexInternalFiles
  <2>2. TableHolds(twice, two)
    <3> HIDE DEF once
    <3> QED
      BY <1>1, <2>1, AddIndexInternalFiles
  <2>3. FilesOf(more) = two
    BY <1>2 DEF FilesOf
  <2> QED
    BY <1>3, <1>4, <1>6, <2>2, <2>3
<1> QED
  BY <1>5, <1>6

LEMMA RemoveIndexFiles ==
    ASSUME NEW table, NEW pairs \in Pairs, TableHolds(table, FilesOf(pairs)),
           NEW keys \in PinyinKeys, NEW token \in Nat
    PROVE  TableHolds(RemoveIndex(table, keys, token), FilesOf(pairs \ {<<keys, token>>}))
<1> DEFINE n == Len(keys)
           first == IncompleteIndex(keys)
           second == ChewingIndex(keys)
           fewer == pairs \ {<<keys, token>>}
           two == (FilesOf(pairs) \ {<<first, keys, token>>}) \ {<<second, keys, token>>}
           once == RemoveIndexInternal(table, first, keys, token)
           twice == RemoveIndexInternal(once, second, keys, token)
<1>1. keys \in KeysOf(n) /\ first \in KeysOf(n) /\ second \in KeysOf(n)
  BY KeysHaveALength, IndicesAre
<1>2. first \in PinyinKeys /\ second \in PinyinKeys
  BY <1>1, KeysOfAre
<1>3. Has(table, first, keys, token) <=> <<keys, token>> \in pairs
  <2>1. Has(table, first, keys, token) <=> <<first, keys, token>> \in FilesOf(pairs)
    BY <1>1, HasIs
  <2> QED
    BY <2>1, FilesAre
<1>4. RemoveIndex(table, keys, token) = IF ~Has(table, first, keys, token) THEN table ELSE twice
  BY DEF RemoveIndex
<1>5. CASE <<keys, token>> \notin pairs
  <2>1. fewer = pairs
    BY <1>5
  <2> HIDE DEF fewer
  <2> QED
    BY <1>3, <1>4, <1>5, <2>1 DEF fewer
<1>6. CASE <<keys, token>> \in pairs
  <2>1. TableHolds(once, FilesOf(pairs) \ {<<first, keys, token>>})
    BY <1>1, RemoveIndexInternalFiles
  <2>2. TableHolds(twice, two)
    <3> HIDE DEF once
    <3> QED
      BY <1>1, <2>1, RemoveIndexInternalFiles
  <2>3. FilesOf(fewer) = two
    BY <1>2 DEF FilesOf
  <2> QED
    BY <1>3, <1>4, <1>6, <2>2, <2>3
<1> QED
  BY <1>5, <1>6

LEMMA MaskFiles ==
    ASSUME NEW table, NEW pairs \in Pairs, TableHolds(table, FilesOf(pairs)), NEW S
    PROVE  TableHolds(MaskedOut(table, S), FilesOf({p \in pairs : p[2] \notin S}))
<1>1. TableHolds(MaskedOut(table, S), {f \in FilesOf(pairs) : f[3] \notin S})
  BY MaskedOutFiles
<1>2. {f \in FilesOf(pairs) : f[3] \notin S} = FilesOf({p \in pairs : p[2] \notin S})
  BY DEF FilesOf
<1> QED
  BY <1>1, <1>2

LEMMA IndicesAreOne ==
    ASSUME NEW keys \in PinyinKeys
    PROVE  IncompleteIndex(keys) = ChewingIndex(keys) <=> InitialsOnly(keys)
<1> DEFINE n == Len(keys)
           first == IncompleteIndex(keys)
           second == ChewingIndex(keys)
<1>1. /\ keys \in KeysOf(n) /\ first \in KeysOf(n) /\ second \in KeysOf(n)
      /\ \A k \in 1 .. n : /\ first[k] = <<keys[k][1], 0, 0>>
                           /\ second[k] = <<keys[k][1], keys[k][2], 0>>
  BY KeysHaveALength, IndicesAre
<1>2. DOMAIN keys = 1 .. n /\ \A k \in 1 .. n : keys[k][1] \in Nat /\ keys[k][2] \in Nat
  BY <1>1, KeysOfAre
<1>3. /\ first \in Seq(Nat \X Nat \X Nat) /\ DOMAIN first = 1 .. n
      /\ second \in Seq(Nat \X Nat \X Nat) /\ DOMAIN second = 1 .. n
      /\ Len(first) = n /\ Len(second) = n
  BY <1>1, KeysOfAre
<1> HIDE DEF first, second, n
<1>4. ASSUME first = second, NEW k \in 1 .. n PROVE keys[k][2] = 0
  BY <1>1, <1>2, <1>4
<1>5. ASSUME \A k \in 1 .. n : keys[k][2] = 0 PROVE first = second
  <2>1. \A k \in 1 .. n : first[k] = second[k]
    BY <1>1, <1>5
  <2> QED
    BY <1>3, <2>1
<1> QED
  BY <1>2, <1>4, <1>5 DEF InitialsOnly, first, second

\* What was given can be taken away unless both its indices are one.
LEMMA TableRemoves ==
    ASSUME NEW table, NEW pairs \in Pairs, TableHolds(table, FilesOf(pairs))
    PROVE  RemovalAgrees(table, pairs)
<1> SUFFICES ASSUME NEW p \in pairs PROVE Removed(table, p[1], p[2]) <=> ~InitialsOnly(p[1])
  BY DEF RemovalAgrees
<1> DEFINE keys == p[1]
           token == p[2]
           n == Len(keys)
           first == IncompleteIndex(keys)
           second == ChewingIndex(keys)
           once == RemoveIndexInternal(table, first, keys, token)
           some == FilesOf(pairs) \ {<<first, keys, token>>}
<1>1. keys \in PinyinKeys /\ token \in Nat /\ <<keys, token>> \in pairs
  BY DEF Pairs
<1> HIDE DEF keys, token
<1>2. keys \in KeysOf(n) /\ first \in KeysOf(n) /\ second \in KeysOf(n)
  BY <1>1, KeysHaveALength, IndicesAre
<1>3. /\ <<first, keys, token>> \in FilesOf(pairs)
      /\ <<second, keys, token>> \in FilesOf(pairs)
  BY <1>1, FilesAre
<1>4. Has(table, first, keys, token)
  BY <1>1, <1>2, <1>3, HasIs
<1>5. TableHolds(once, some)
  BY <1>1, <1>2, RemoveIndexInternalFiles
<1>6. Has(once, second, keys, token) <=> <<second, keys, token>> \in some
  <2> HIDE DEF once, some
  <2> QED
    BY <1>1, <1>2, <1>5, HasIs
<1>7. <<second, keys, token>> \in some <=> first # second
  BY <1>3
<1>8. Removed(table, keys, token) <=> first # second
  BY <1>4, <1>6, <1>7 DEF Removed
<1> QED
  BY <1>1, <1>8, IndicesAreOne DEF keys, token

-----------------------------------------------------------------------------
(* Keys that match. *)

PartAlike(a, b, n, i) ==
    Parts(a)[i] = Parts(b)[i] \/ (i > n /\ 0 \in {Parts(a)[i], Parts(b)[i]})

LEMMA LessIs ==
    ASSUME NEW n, NEW a \in KeysOf(n), NEW b \in KeysOf(n)
    PROVE  LessWithTones(a, b)
              <=> \E i \in 1 .. 3 * n : /\ Parts(a)[i] < Parts(b)[i] /\ ~PartAlike(a, b, n, i)
                                        /\ \A j \in 1 .. i - 1 : PartAlike(a, b, n, j)
<1>1. Len(a) = n /\ DOMAIN Parts(a) = 1 .. 3 * n
  BY KeysOfAre, PartsAre
<1> QED
  BY <1>1 DEF LessWithTones, PartAlike

LEMMA AllAlikeMatch ==
    ASSUME NEW n, NEW a \in KeysOf(n), NEW b \in KeysOf(n)
    PROVE  ~LessWithTones(a, b) /\ ~LessWithTones(b, a)
              <=> \A i \in 1 .. 3 * n : PartAlike(a, b, n, i)
<1>1. \A i \in 1 .. 3 * n : PartAlike(a, b, n, i) <=> PartAlike(b, a, n, i)
  BY DEF PartAlike
<1>2. ASSUME \A i \in 1 .. 3 * n : PartAlike(a, b, n, i)
      PROVE  ~LessWithTones(a, b) /\ ~LessWithTones(b, a)
  BY <1>1, <1>2, LessIs
<1>3. ASSUME NEW m \in 1 .. 3 * n, ~PartAlike(a, b, n, m)
      PROVE  LessWithTones(a, b) \/ LessWithTones(b, a)
  <2> DEFINE T == {i \in 1 .. 3 * n : ~PartAlike(a, b, n, i)}
  <2>1. T \in SUBSET Nat /\ T # {}
    BY <1>3
  <2>2. PICK i \in T : \A y \in T : i <= y
    BY <2>1, LeastElement
  <2>3. i \in 1 .. 3 * n /\ ~PartAlike(a, b, n, i) /\ n \in Nat
    BY KeysOfAre
  <2>4. ASSUME NEW j \in 1 .. i - 1 PROVE PartAlike(a, b, n, j) /\ PartAlike(b, a, n, j)
    <3>1. j \in 1 .. 3 * n /\ ~(i <= j)
      BY <2>3
    <3>2. j \notin T
      BY <2>2, <3>1
    <3> QED
      BY <1>1, <3>1, <3>2
  <2>5. Parts(a)[i] \in Nat /\ Parts(b)[i] \in Nat
    BY <2>3, PartsAre
  <2>6. Parts(a)[i] < Parts(b)[i] \/ Parts(b)[i] < Parts(a)[i]
    BY <2>3, <2>5 DEF PartAlike
  <2> QED
    BY <1>1, <2>3, <2>4, <2>6, LessIs
<1> QED
  BY <1>2, <1>3

AlikeParts(x, y) == x = y \/ 0 \in {x, y}

\* The initials are the same; finals and tones are unless one is not given.
Alike(a, b, n) ==
    \A k \in 1 .. n : /\ a[k][1] = b[k][1]
                      /\ AlikeParts(a[k][2], b[k][2]) /\ AlikeParts(a[k][3], b[k][3])

LEMMA AlikeIs ==
    ASSUME NEW n, NEW a \in KeysOf(n), NEW b \in KeysOf(n)
    PROVE  ~LessWithTones(a, b) /\ ~LessWithTones(b, a) <=> Alike(a, b, n)
<1>1. n \in Nat \ {0}
  BY KeysOfAre
<1>2. \A k \in 1 .. n : /\ Parts(a)[k] = a[k][1] /\ Parts(b)[k] = b[k][1]
                        /\ Parts(a)[n + k] = a[k][2] /\ Parts(b)[n + k] = b[k][2]
                        /\ Parts(a)[2 * n + k] = a[k][3] /\ Parts(b)[2 * n + k] = b[k][3]
  BY PartsAre
<1>3. ASSUME NEW k \in 1 .. n
      PROVE  /\ k \in 1 .. 3 * n /\ ~(k > n)
             /\ n + k \in 1 .. 3 * n /\ n + k > n
             /\ 2 * n + k \in 1 .. 3 * n /\ 2 * n + k > n
  BY <1>1
<1>4. \A k \in 1 .. n : /\ PartAlike(a, b, n, k) <=> a[k][1] = b[k][1]
                        /\ PartAlike(a, b, n, n + k) <=> AlikeParts(a[k][2], b[k][2])
                        /\ PartAlike(a, b, n, 2 * n + k) <=> AlikeParts(a[k][3], b[k][3])
  BY <1>2, <1>3 DEF PartAlike, AlikeParts
<1>5. ASSUME \A i \in 1 .. 3 * n : PartAlike(a, b, n, i) PROVE Alike(a, b, n)
  BY <1>3, <1>4, <1>5 DEF Alike
<1>6. ASSUME Alike(a, b, n), NEW i \in 1 .. 3 * n PROVE PartAlike(a, b, n, i)
  <2>1. PICK k \in 1 .. n : i = k \/ i = n + k \/ i = 2 * n + k
    BY <1>1, PlacesAre
  <2> QED
    BY <1>4, <1>6, <2>1 DEF Alike
<1> QED
  BY <1>5, <1>6, AllAlikeMatch

LEMMA MatchesIs ==
    ASSUME NEW n, NEW a \in KeysOf(n), NEW b \in KeysOf(n)
    PROVE  Matches(a, b) <=> Alike(a, b, n)
<1>1. Len(a) = n /\ Len(b) = n
  BY KeysOfAre
<1> QED
  BY <1>1, AlikeIs DEF Matches

-----------------------------------------------------------------------------
(* What a search finds. *)

\* All items of an entry are in the range that is searched for an index.
LEMMA RangeIsAll ==
    ASSUME NEW l, NEW entry, EntryIs(entry, l), NEW n, NEW keys \in KeysOf(n),
           NEW index, index = SearchIndex(keys),
           \A k \in DOMAIN entry : /\ Begins(index, entry[k]) \in KeysOf(n)
                                   /\ Alike(Begins(index, entry[k]), index, n)
    PROVE  SearchRange(entry, keys) = entry
<1>1. /\ entry \in Seq(FiledItem) /\ Len(entry) \in Nat /\ DOMAIN entry = 1 .. Len(entry)
      /\ \A k \in DOMAIN entry : k \in Nat
  BY EntryIsSeq
<1>2. index \in KeysOf(n)
  BY IndicesAre
<1>3. \A k \in DOMAIN entry : /\ ~LessWithTones(Begins(index, entry[k]), index)
                              /\ ~LessWithTones(index, Begins(index, entry[k]))
  BY <1>2, AlikeIs
<1> DEFINE behind == Len(entry) + 1
           from == {k \in DOMAIN entry : ~LessWithTones(Begins(index, entry[k]), index)}
                   \cup {behind}
           least == Min(from)
           past == {k \in least .. Len(entry) : LessWithTones(index, Begins(index, entry[k]))}
                   \cup {behind}
<1>4. SearchRange(entry, keys) = SubSeq(entry, least, Min(past) - 1)
  BY DEF SearchRange, SearchRangeOfKeys
<1>5. from = 1 .. behind
  <2>1. from = DOMAIN entry \cup {behind}
    BY <1>3
  <2> QED
    BY <1>1, <2>1
<1> HIDE DEF from
<1>6. least = 1
  <2>1. from \in SUBSET Nat /\ 1 \in from
    BY <1>1, <1>5
  <2>2. Min(from) \in from /\ Min(from) <= 1
    BY <2>1, LeastIs
  <2> HIDE DEF least
  <2>3. least \in from /\ least <= 1
    BY <2>2 DEF least
  <2> QED
    BY <1>1, <1>5, <2>3
<1> HIDE DEF least
<1>7. past = {behind}
  BY <1>1, <1>3, <1>6
<1> HIDE DEF past
<1>8. Min(past) = behind
  <2>1. past \in SUBSET Nat /\ past # {}
    BY <1>1, <1>7
  <2> QED
    BY <1>7, <2>1, LeastIs
<1>9. Min(past) - 1 = Len(entry)
  BY <1>1, <1>8
<1>10. SubSeq(entry, 1, Len(entry)) = entry
  BY <1>1
<1> QED
  BY <1>4, <1>6, <1>9, <1>10

TokenRange == {r \in [begin : Nat, end : Nat] : r.begin < r.end}

LEMMA TokensAre ==
    ASSUME NEW ranges, NEW token
    PROVE  token \in TokensOf(ranges)
              <=> \E k \in DOMAIN ranges : token \in ranges[k].begin .. ranges[k].end - 1
BY DEF TokensOf, Range

LEMMA WithTokenIs ==
    ASSUME NEW ranges \in Seq(TokenRange), NEW token \in Nat
    PROVE  /\ WithToken(ranges, token) \in Seq(TokenRange)
           /\ TokensOf(WithToken(ranges, token)) = TokensOf(ranges) \cup {token}
<1> DEFINE m == Len(ranges)
           new == [begin |-> token, end |-> token + 1]
           appended == Append(ranges, new)
           longer == [ranges EXCEPT ![m].end = @ + 1]
           more == [begin |-> ranges[m].begin, end |-> token + 1]
           with == WithToken(ranges, token)
<1>1. /\ m \in Nat /\ DOMAIN ranges = 1 .. m
      /\ \A k \in 1 .. m : /\ ranges[k] \in TokenRange
                           /\ ranges[k].begin \in Nat /\ ranges[k].end \in Nat
                           /\ ranges[k].begin < ranges[k].end
  BY DEF TokenRange
<1>2. with = appended \/ (ranges # <<>> /\ ranges[m].end = token /\ with = longer)
  BY DEF WithToken, Last
<1> HIDE DEF with
<1>3. CASE with = appended
  <2>1. new \in TokenRange /\ new.begin .. new.end - 1 = {token}
    BY DEF TokenRange
  <2> HIDE DEF new
  <2>2. /\ appended \in Seq(TokenRange) /\ DOMAIN appended = 1 .. m + 1
        /\ appended[m + 1] = new /\ \A k \in 1 .. m : appended[k] = ranges[k]
    BY <1>1, <2>1
  <2>3. \A k : k \in 1 .. m + 1 <=> k \in 1 .. m \/ k = m + 1
    BY <1>1
  <2> HIDE DEF appended, m
  <2>4. ASSUME NEW t PROVE t \in TokensOf(appended) <=> t \in TokensOf(ranges) \/ t = token
    <3>1. (\E k \in DOMAIN appended : t \in appended[k].begin .. appended[k].end - 1)
             <=> \/ \E k \in DOMAIN ranges : t \in ranges[k].begin .. ranges[k].end - 1
                 \/ t = token
      BY <1>1, <2>1, <2>2, <2>3
    <3> QED
      BY <3>1, TokensAre
  <2> QED
    BY <1>3, <2>2, <2>4 DEF with
<1>4. CASE ranges # <<>> /\ ranges[m].end = token /\ with = longer
  <2>1. m \in 1 .. m
    BY <1>1, <1>4
  <2>2. /\ ranges[m] \in [begin : Nat, end : Nat] /\ ranges[m].begin < token
    BY <1>1, <1>4, <2>1 DEF TokenRange
  <2>3. longer = [ranges EXCEPT ![m] = more]
    <3>1. [ranges[m] EXCEPT !.end = @ + 1] = more
      BY <1>4, <2>2
    <3> QED
      BY <3>1
  <2>4. more \in TokenRange
    BY <2>2 DEF TokenRange
  <2>5. \A t : t \in more.begin .. more.end - 1
                  <=> t \in ranges[m].begin .. ranges[m].end - 1 \/ t = token
    BY <1>4, <2>2
  <2> HIDE DEF longer, more
  <2>6. /\ longer \in Seq(TokenRange) /\ DOMAIN longer = 1 .. m
        /\ longer[m] = more /\ \A k \in 1 .. m : k # m => longer[k] = ranges[k]
    <3> HIDE DEF m
    <3>1. ranges \in [1 .. m -> TokenRange]
      BY <1>1
    <3>2. longer \in [1 .. m -> TokenRange]
      BY <2>3, <2>4, <3>1
    <3>3. longer \in Seq(TokenRange)
      BY <1>1, <3>2
    <3> QED
      BY <1>1, <2>1, <2>3, <3>1, <3>2, <3>3
  <2> HIDE DEF m
  <2>7. ASSUME NEW t PROVE t \in TokensOf(longer) <=> t \in TokensOf(ranges) \/ t = token
    <3>1. (\E k \in DOMAIN longer : t \in longer[k].begin .. longer[k].end - 1)
             <=> \/ \E k \in DOMAIN ranges : t \in ranges[k].begin .. ranges[k].end - 1
                 \/ t = token
      BY <1>1, <2>1, <2>5, <2>6
    <3> QED
      BY <3>1, TokensAre
  <2> QED
    BY <1>4, <2>6, <2>7 DEF with
<1> QED
  BY <1>2, <1>3, <1>4

\* The tokens of the first items that match.
MatchingTo(items, keys, m) ==
    {items[k].token : k \in {j \in 1 .. m : Matches(keys, items[j].keys)}}

ConvertedTo(items, keys, m) ==
    {ranges \in Seq(TokenRange) : TokensOf(ranges) = MatchingTo(items, keys, m)}

LEMMA ConvertStep ==
    ASSUME NEW n, NEW items, EntryIs(items, n), NEW keys, NEW m \in 1 .. Len(items),
           NEW ranges \in ConvertedTo(items, keys, m - 1)
    PROVE  (IF ~Matches(keys, items[m].keys) THEN ranges ELSE WithToken(ranges, items[m].token))
              \in ConvertedTo(items, keys, m)
<1>1. ranges \in Seq(TokenRange) /\ TokensOf(ranges) = MatchingTo(items, keys, m - 1)
  BY DEF ConvertedTo
<1>2. \A j : j \in 1 .. m <=> j \in 1 .. m - 1 \/ j = m
  BY EntryIsSeq
<1>3. CASE ~Matches(keys, items[m].keys)
  <2>1. {j \in 1 .. m : Matches(keys, items[j].keys)}
           = {j \in 1 .. m - 1 : Matches(keys, items[j].keys)}
    BY <1>2, <1>3
  <2> QED
    BY <1>1, <1>3, <2>1 DEF ConvertedTo, MatchingTo
<1>4. CASE Matches(keys, items[m].keys)
  <2>1. {j \in 1 .. m : Matches(keys, items[j].keys)}
           = {j \in 1 .. m - 1 : Matches(keys, items[j].keys)} \cup {m}
    BY <1>2, <1>4
  <2>2. MatchingTo(items, keys, m) = MatchingTo(items, keys, m - 1) \cup {items[m].token}
    BY <2>1 DEF MatchingTo
  <2>3. items[m].token \in Nat
    <3>1. items[m] \in FiledItem
      BY EntryIsSeq
    <3> QED
      BY <3>1 DEF FiledItem
  <2> QED
    BY <1>1, <1>4, <2>2, <2>3, WithTokenIs DEF ConvertedTo
<1> QED
  BY <1>3, <1>4

\* ChewingTableEntry::convert finds the items that match, and nothing else.
LEMMA ConvertIs ==
    ASSUME NEW n, NEW items, EntryIs(items, n), NEW keys
    PROVE  TokensOf(Convert(items, keys))
              = {x.token : x \in {y \in ItemsIn(items) : Matches(keys, y.keys)}}
<1> DEFINE length == Len(items)
           A == Seq(TokenRange)
           Converted(r, k) == IF ~Matches(keys, items[k].keys) THEN r
                              ELSE WithToken(r, items[k].token)
           Step == [k \in 1 .. length |-> [r \in A |-> Converted(r, k)]]
           Eq(ranges) == ranges = [k \in 0 .. length |->
                                      IF k = 0 THEN <<>>
                                      ELSE IF ~Matches(keys, items[k].keys) THEN ranges[k - 1]
                                      ELSE WithToken(ranges[k - 1], items[k].token)]
           function == CHOOSE ranges : Eq(ranges)
<1>1. length \in Nat /\ DOMAIN items = 1 .. length /\ \A k \in 1 .. length : items[k] \in FiledItem
  BY EntryIsSeq
<1>2. Convert(items, keys) = function[length]
  BY DEF Convert
<1> HIDE DEF length
<1>3. <<>> \in A
  OBVIOUS
<1>4. Step \in [1 .. length -> [A -> A]]
  <2>1. ASSUME NEW k \in 1 .. length, NEW r \in A PROVE Converted(r, k) \in A
    <3>1. items[k].token \in Nat
      BY <1>1 DEF FiledItem
    <3>2. WithToken(r, items[k].token) \in A
      BY <3>1, WithTokenIs
    <3> QED
      BY <3>2
  <2> HIDE DEF Converted, A
  <2> QED
    BY <2>1
<1>5. Recursions(length, A, <<>>, Step) # {}
  <2> HIDE DEF Step, A
  <2> QED
    BY <1>1, <1>3, <1>4, RecursionUpTo
<1>6. PICK ranges \in [0 .. length -> A] :
         ranges[0] = <<>> /\ \A k \in 1 .. length : ranges[k] = Step[k][ranges[k - 1]]
  BY <1>5 DEF Recursions
<1> HIDE DEF A
<1>7. \A k \in 1 .. length : ranges[k] = Converted(ranges[k - 1], k)
  <2>1. \A k \in 1 .. length : ranges[k - 1] \in A
    BY <1>1, <1>6
  <2> HIDE DEF Converted
  <2> QED
    BY <1>6, <2>1
<1>8. Eq(ranges)
  <2>1. \A k \in 0 .. length : k = 0 \/ k \in 1 .. length
    BY <1>1
  <2>2. \A k \in 0 .. length : ranges[k] = IF k = 0 THEN <<>> ELSE Converted(ranges[k - 1], k)
    BY <1>6, <1>7, <2>1
  <2>3. ranges = [k \in 0 .. length |-> ranges[k]]
    OBVIOUS
  <2> QED
    BY <2>2, <2>3
<1>9. Eq(function)
  <2> HIDE DEF Eq
  <2> QED
    BY <1>8
<1> HIDE DEF function
<1> DEFINE T == {k \in 0 .. length : function[k] \in ConvertedTo(items, keys, k)}
<1>10. 0 \in T
  <2>1. 0 \in 0 .. length /\ function[0] = <<>>
    BY <1>1, <1>9
  <2>2. <<>> \in Seq(TokenRange) /\ TokensOf(<<>>) = {}
    BY TokensAre
  <2>3. MatchingTo(items, keys, 0) = {}
    BY DEF MatchingTo
  <2> QED
    BY <2>1, <2>2, <2>3 DEF ConvertedTo
<1>11. ASSUME NEW k \in 1 .. length, k - 1 \in T PROVE k \in T
  <2>1. k \in 0 .. length /\ k # 0
    BY <1>1
  <2>2. function[k] = Converted(function[k - 1], k)
    BY <1>9, <2>1
  <2>3. function[k - 1] \in ConvertedTo(items, keys, k - 1) /\ k \in 1 .. Len(items)
    BY <1>11 DEF length
  <2>4. Converted(function[k - 1], k) \in ConvertedTo(items, keys, k)
    BY <2>3, ConvertStep
  <2> QED
    BY <2>1, <2>2, <2>4
<1>12. length \in T
  <2> HIDE DEF T
  <2>1. 0 .. length \subseteq T
    BY <1>1, <1>10, <1>11, InductionUpTo
  <2>2. length \in 0 .. length
    BY <1>1
  <2> QED
    BY <2>1, <2>2
<1>13. MatchingTo(items, keys, length)
          = {x.token : x \in {y \in ItemsIn(items) : Matches(keys, y.keys)}}
  BY <1>1 DEF MatchingTo, ItemsIn
<1> QED
  BY <1>2, <1>12, <1>13 DEF ConvertedTo

LEMMA BeginIs ==
    ASSUME NEW l, NEW c \in KeysOf(l), NEW n \in 1 .. l
    PROVE  /\ l \in Nat /\ n \in Nat \ {0} /\ Len(c) = l
           /\ SubSeq(c, 1, n) \in KeysOf(n) /\ Len(SubSeq(c, 1, n)) = n
           /\ \A k \in 1 .. n : k \in 1 .. l /\ SubSeq(c, 1, n)[k] = c[k]
           /\ n = l => SubSeq(c, 1, n) = c
<1>1. /\ l \in Nat \ {0} /\ Len(c) = l /\ c \in PinyinKeys /\ c \in Seq(Nat \X Nat \X Nat)
  BY KeysOfAre
<1>2. CASE n = l
  <2>1. SubSeq(c, 1, n) = c
    BY <1>1, <1>2
  <2> QED
    BY <1>1, <1>2, <2>1
<1>3. CASE n # l
  <2>1. n \in 1 .. Len(c) - 1
    BY <1>1, <1>3
  <2>2. n \in Nat \ {0} /\ \A k \in 1 .. n : k \in 1 .. l
    BY <1>1
  <2>3. /\ SubSeq(c, 1, n) \in KeysOf(n) /\ Len(SubSeq(c, 1, n)) = n
        /\ \A k \in 1 .. n : SubSeq(c, 1, n)[k] = c[k]
    BY <1>1, <2>1, BeginningsAre
  <2> QED
    BY <1>1, <1>3, <2>2, <2>3
<1> QED
  BY <1>2, <1>3

LEMMA SameKeys ==
    ASSUME NEW n, NEW a \in KeysOf(n), NEW b \in KeysOf(n), \A k \in 1 .. n : a[k] = b[k]
    PROVE  a = b
<1>1. /\ a \in Seq(Nat \X Nat \X Nat) /\ Len(a) = n /\ DOMAIN a = 1 .. n
      /\ b \in Seq(Nat \X Nat \X Nat) /\ Len(b) = n /\ DOMAIN b = 1 .. n
  BY KeysOfAre
<1> QED
  BY <1>1

\* Keys that were typed out are filed where keys they match are searched for.
LEMMA FiledUnder ==
    ASSUME NEW l, NEW c \in KeysOf(l), NEW n \in 1 .. l, NEW keys \in KeysOf(n),
           ~Incomplete(c), Alike(keys, SubSeq(c, 1, n), n)
    PROVE  \E i \in {IncompleteIndex(c), ChewingIndex(c)} :
              i \in KeysOf(l) /\ SubSeq(i, 1, n) = SearchIndex(keys)
<1>1. /\ DOMAIN c = 1 .. l /\ DOMAIN keys = 1 .. n
      /\ \A k \in 1 .. n : k \in 1 .. l /\ SubSeq(c, 1, n)[k] = c[k]
  BY BeginIs, KeysOfAre
<1>2. /\ IncompleteIndex(c) \in KeysOf(l) /\ ChewingIndex(c) \in KeysOf(l)
      /\ \A k \in 1 .. l : /\ IncompleteIndex(c)[k] = <<c[k][1], 0, 0>>
                           /\ ChewingIndex(c)[k] = <<c[k][1], c[k][2], 0>>
  BY IndicesAre
<1>3. /\ IncompleteIndex(keys) \in KeysOf(n) /\ ChewingIndex(keys) \in KeysOf(n)
      /\ \A k \in 1 .. n : /\ IncompleteIndex(keys)[k] = <<keys[k][1], 0, 0>>
                           /\ ChewingIndex(keys)[k] = <<keys[k][1], keys[k][2], 0>>
  BY IndicesAre
<1>4. \A k \in 1 .. n : keys[k][1] = c[k][1] /\ AlikeParts(keys[k][2], c[k][2])
  BY <1>1 DEF Alike
<1>5. CASE Incomplete(keys)
  <2>1. \A k \in 1 .. n : SubSeq(IncompleteIndex(c), 1, n)[k] = IncompleteIndex(keys)[k]
    <3>1. \A k \in 1 .. n : SubSeq(IncompleteIndex(c), 1, n)[k] = IncompleteIndex(c)[k]
      BY <1>2, BeginIs
    <3> QED
      BY <1>1, <1>2, <1>3, <1>4, <3>1
  <2>2. SubSeq(IncompleteIndex(c), 1, n) \in KeysOf(n)
    BY <1>2, BeginIs
  <2>3. SubSeq(IncompleteIndex(c), 1, n) = IncompleteIndex(keys)
    BY <1>3, <2>1, <2>2, SameKeys
  <2> QED
    BY <1>2, <1>5, <2>3 DEF SearchIndex
<1>6. CASE ~Incomplete(keys)
  <2>1. \A k \in 1 .. n : keys[k][2] # 0 /\ c[k][2] # 0
    BY <1>1, <1>6 DEF Incomplete
  <2>2. \A k \in 1 .. n : keys[k][2] = c[k][2]
    BY <1>4, <2>1 DEF AlikeParts
  <2>3. \A k \in 1 .. n : SubSeq(ChewingIndex(c), 1, n)[k] = ChewingIndex(keys)[k]
    <3>1. \A k \in 1 .. n : SubSeq(ChewingIndex(c), 1, n)[k] = ChewingIndex(c)[k]
      BY <1>2, BeginIs
    <3> QED
      BY <1>1, <1>2, <1>3, <1>4, <2>2, <3>1
  <2>4. SubSeq(ChewingIndex(c), 1, n) \in KeysOf(n)
    BY <1>2, BeginIs
  <2>5. SubSeq(ChewingIndex(c), 1, n) = ChewingIndex(keys)
    BY <1>3, <2>3, <2>4, SameKeys
  <2> QED
    BY <1>2, <1>6, <2>5 DEF SearchIndex
<1> QED
  BY <1>5, <1>6

\* Keys are like the beginning of an index they are filed under.
LEMMA UnderIndex ==
    ASSUME NEW l, NEW c \in KeysOf(l), NEW n \in 1 .. l,
           NEW i \in {IncompleteIndex(c), ChewingIndex(c)}
    PROVE  /\ SubSeq(c, 1, n) \in KeysOf(n)
           /\ Alike(SubSeq(c, 1, n), SubSeq(i, 1, n), n)
<1>1. /\ SubSeq(c, 1, n) \in KeysOf(n)
      /\ \A k \in 1 .. n : k \in 1 .. l /\ SubSeq(c, 1, n)[k] = c[k]
  BY BeginIs
<1>2. /\ i \in KeysOf(l)
      /\ \A k \in 1 .. l : i[k] = <<c[k][1], 0, 0>> \/ i[k] = <<c[k][1], c[k][2], 0>>
  BY IndicesAre
<1>3. \A k \in 1 .. n : SubSeq(i, 1, n)[k] = i[k]
  BY <1>2, BeginIs
<1>4. \A k \in 1 .. n :
         \/ SubSeq(i, 1, n)[k] = <<c[k][1], 0, 0>> \/ SubSeq(i, 1, n)[k] = <<c[k][1], c[k][2], 0>>
  BY <1>1, <1>2, <1>3
<1>5. \A k \in 1 .. n : /\ SubSeq(i, 1, n)[k][1] = c[k][1]
                        /\ SubSeq(i, 1, n)[k][2] = 0 \/ SubSeq(i, 1, n)[k][2] = c[k][2]
                        /\ SubSeq(i, 1, n)[k][3] = 0
  BY <1>4
<1> QED
  BY <1>1, <1>5 DEF Alike, AlikeParts

\* The items of an index, and which pairs they are.
ItemsHold(entry, i, pairs) ==
    /\ i \in KeysOf(Len(i)) /\ EntryIs(entry, Len(i))
    /\ \A x : x \in ItemsIn(entry)
          <=> /\ x \in FiledItem /\ <<x.keys, x.token>> \in pairs
              /\ i \in {IncompleteIndex(x.keys), ChewingIndex(x.keys)}
    /\ \A x \in ItemsIn(entry) : x.keys \in KeysOf(Len(i))

LEMMA FiledItemsAre ==
    ASSUME NEW table, NEW pairs \in Pairs, TableHolds(table, FilesOf(pairs)),
           NEW i \in DOMAIN table
    PROVE  ItemsHold(table[i], i, pairs)
<1>1. /\ i \in PinyinKeys /\ EntryIs(table[i], Len(i))
      /\ \A x \in FiledItem : x \in ItemsIn(table[i]) <=> <<i, x.keys, x.token>> \in FilesOf(pairs)
  BY DEF TableHolds
<1>2. \A x \in ItemsIn(table[i]) : x \in FiledItem /\ x.keys \in KeysOf(Len(i))
  BY <1>1, EntryIsSeq DEF ItemsIn
<1>3. \A x \in FiledItem : <<i, x.keys, x.token>> \in FilesOf(pairs)
         <=> /\ <<x.keys, x.token>> \in pairs
             /\ i \in {IncompleteIndex(x.keys), ChewingIndex(x.keys)}
  <2>1. \A x \in FiledItem : x.keys \in PinyinKeys /\ x.token \in Nat
    BY DEF FiledItem
  <2> QED
    BY <2>1, FilesAre
<1>4. i \in KeysOf(Len(i))
  BY <1>1, KeysHaveALength
<1>5. \A x : x \in ItemsIn(table[i])
         <=> /\ x \in FiledItem /\ <<x.keys, x.token>> \in pairs
             /\ i \in {IncompleteIndex(x.keys), ChewingIndex(x.keys)}
  BY <1>1, <1>2, <1>3
<1> QED
  BY <1>1, <1>2, <1>4, <1>5 DEF ItemsHold

LEMMA WholeRange ==
    ASSUME NEW table, NEW pairs \in Pairs, TableHolds(table, FilesOf(pairs)),
           NEW i \in DOMAIN table, NEW n \in 1 .. Len(i), NEW keys \in KeysOf(n),
           SubSeq(i, 1, n) = SearchIndex(keys)
    PROVE  SearchRange(table[i], keys) = table[i]
<1> DEFINE index == SearchIndex(keys)
           entry == table[i]
<1>1. index \in KeysOf(n) /\ Len(index) = n
  BY IndicesAre, KeysOfAre
<1>2. /\ EntryIs(entry, Len(i))
      /\ \A x : x \in ItemsIn(entry)
            => i \in {IncompleteIndex(x.keys), ChewingIndex(x.keys)}
      /\ \A x \in ItemsIn(entry) : x.keys \in KeysOf(Len(i))
  <2>1. ItemsHold(entry, i, pairs)
    BY FiledItemsAre
  <2> HIDE DEF entry
  <2> QED
    BY <2>1 DEF ItemsHold
<1> HIDE DEF index, entry
<1>3. ASSUME NEW k \in DOMAIN entry
      PROVE  /\ Begins(index, entry[k]) \in KeysOf(n)
             /\ Alike(Begins(index, entry[k]), index, n)
  <2> DEFINE c == entry[k].keys
  <2>1. entry[k] \in ItemsIn(entry)
    BY DEF ItemsIn
  <2>2. c \in KeysOf(Len(i)) /\ i \in {IncompleteIndex(c), ChewingIndex(c)}
    BY <1>2, <2>1
  <2>3. Begins(index, entry[k]) = SubSeq(c, 1, n)
    BY <1>1 DEF Begins
  <2>4. SubSeq(i, 1, n) = index
    BY DEF index
  <2> HIDE DEF c
  <2>5. SubSeq(c, 1, n) \in KeysOf(n) /\ Alike(SubSeq(c, 1, n), SubSeq(i, 1, n), n)
    BY <2>2, UnderIndex
  <2> QED
    BY <2>3, <2>4, <2>5
<1>4. index = SearchIndex(keys)
  BY DEF index
<1>5. SearchRange(entry, keys) = entry
  BY <1>2, <1>3, <1>4, RangeIsAll
<1> QED
  BY <1>5 DEF entry

\* A pair that was typed out is under an index of which what is searched for is the
\* beginning.
LEMMA FoundUnder ==
    ASSUME NEW table, NEW pairs \in Pairs, TableHolds(table, FilesOf(pairs)),
           NEW n, NEW keys \in KeysOf(n), NEW p \in Complete(pairs), n \in 1 .. Len(p[1]),
           Matches(keys, SubSeq(p[1], 1, n))
    PROVE  \E i \in DOMAIN table :
              /\ Len(i) = Len(p[1]) /\ SubSeq(i, 1, n) = SearchIndex(keys)
              /\ [keys |-> p[1], token |-> p[2]] \in ItemsIn(table[i])
<1> DEFINE c == p[1]
           token == p[2]
           l == Len(c)
           x == [keys |-> c, token |-> token]
<1>1. c \in PinyinKeys /\ token \in Nat /\ <<c, token>> \in pairs /\ ~Incomplete(c)
  BY DEF Complete, Pairs
<1> HIDE DEF c, token
<1>2. c \in KeysOf(l) /\ n \in 1 .. l /\ Matches(keys, SubSeq(c, 1, n))
  BY <1>1, KeysHaveALength DEF c
<1> HIDE DEF l
<1>3. SubSeq(c, 1, n) \in KeysOf(n)
  BY <1>2, BeginIs
<1>4. Alike(keys, SubSeq(c, 1, n), n)
  BY <1>2, <1>3, MatchesIs
<1>5. PICK i \in {IncompleteIndex(c), ChewingIndex(c)} :
         i \in KeysOf(l) /\ SubSeq(i, 1, n) = SearchIndex(keys)
  BY <1>1, <1>2, <1>4, FiledUnder
<1>6. <<i, c, token>> \in FilesOf(pairs)
  BY <1>1, FilesAre
<1>7. i \in DOMAIN table
  BY <1>6 DEF TableHolds
<1>8. x \in FiledItem /\ x.keys = c /\ x.token = token
  BY <1>1 DEF FiledItem
<1>9. x \in ItemsIn(table[i])
  <2> HIDE DEF x
  <2> QED
    BY <1>6, <1>7, <1>8 DEF TableHolds
<1>10. Len(i) = l
  BY <1>5, KeysOfAre
<1> QED
  BY <1>5, <1>7, <1>9, <1>10 DEF c, token, l

\* The items that match, of an entry.
LEMMA SearchFinds ==
    ASSUME NEW table, NEW pairs \in Pairs, TableHolds(table, FilesOf(pairs)),
           NEW keys \in PinyinKeys
    PROVE  /\ Pronounced(Complete(pairs), keys) \subseteq TokensOf(SearchTable(table, keys))
           /\ TokensOf(SearchTable(table, keys)) \subseteq Pronounced(pairs, keys)
<1> DEFINE n == Len(keys)
           index == SearchIndex(keys)
           found == TokensOf(SearchTable(table, keys))
<1>1. keys \in KeysOf(n) /\ n \in 1 .. n
  BY KeysHaveALength, KeysOfAre
<1>2. index \in KeysOf(n)
  BY <1>1, IndicesAre
<1>3. Len(index) = n /\ SubSeq(index, 1, n) = index
  BY <1>1, <1>2, BeginIs
<1> HIDE DEF n
<1>4. ASSUME index \in DOMAIN table
      PROVE  found = {x.token : x \in {y \in ItemsIn(table[index]) : Matches(keys, y.keys)}}
  <2>1. EntryIs(table[index], n)
    BY <1>3, <1>4 DEF TableHolds
  <2>2. SearchRange(table[index], keys) = table[index]
    BY <1>1, <1>3, <1>4, WholeRange
  <2>3. SearchTable(table, keys) = Convert(table[index], keys)
    BY <1>4, <2>2 DEF SearchTable, Continues
  <2> QED
    BY <2>1, <2>3, ConvertIs
<1>5. ASSUME NEW token \in Pronounced(Complete(pairs), keys) PROVE token \in found
  <2>1. PICK p \in Complete(pairs) : Matches(keys, p[1]) /\ token = p[2]
    BY DEF Pronounced
  <2>2. p[1] \in PinyinKeys
    BY DEF Complete, Pairs
  <2>3. Len(p[1]) = n
    BY <2>1 DEF Matches, n
  <2>4. p[1] \in KeysOf(n) /\ n \in 1 .. Len(p[1])
    BY <1>1, <2>2, <2>3, KeysHaveALength
  <2>5. SubSeq(p[1], 1, n) = p[1]
    BY <1>1, <2>4, BeginIs
  <2>6. PICK i \in DOMAIN table :
           /\ Len(i) = Len(p[1]) /\ SubSeq(i, 1, n) = index
           /\ [keys |-> p[1], token |-> p[2]] \in ItemsIn(table[i])
    <3>1. Matches(keys, SubSeq(p[1], 1, n))
      BY <2>1, <2>5
    <3>2. keys \in KeysOf(n) /\ n \in 1 .. Len(p[1])
      BY <1>1, <2>4
    <3>3. \E i \in DOMAIN table :
             /\ Len(i) = Len(p[1]) /\ SubSeq(i, 1, n) = SearchIndex(keys)
             /\ [keys |-> p[1], token |-> p[2]] \in ItemsIn(table[i])
      BY <3>1, <3>2, FoundUnder
    <3> HIDE DEF index
    <3> QED
      BY <3>3 DEF index
  <2>7. i = index
    <3>1. i \in PinyinKeys
      BY DEF TableHolds
    <3>2. i \in KeysOf(n)
      BY <2>3, <2>6, <3>1, KeysHaveALength
    <3> QED
      BY <1>1, <2>6, <3>2, BeginIs
  <2>8. \E x \in ItemsIn(table[index]) : Matches(keys, x.keys) /\ x.token = token
    BY <2>1, <2>6, <2>7
  <2> HIDE DEF index, found
  <2> QED
    BY <1>4, <2>6, <2>7, <2>8
<1>6. ASSUME NEW token \in found PROVE token \in Pronounced(pairs, keys)
  <2>1. index \in DOMAIN table
    <3>1. SUFFICES ASSUME index \notin DOMAIN table PROVE FALSE
      OBVIOUS
    <3>2. SearchTable(table, keys) = <<>>
      BY <3>1 DEF SearchTable, Continues
    <3>3. token \in TokensOf(<<>>)
      BY <3>2
    <3> QED
      BY <3>3, TokensAre
  <2>2. PICK x \in ItemsIn(table[index]) : Matches(keys, x.keys) /\ x.token = token
    BY <1>4, <2>1
  <2>3. ItemsHold(table[index], index, pairs)
    BY <2>1, FiledItemsAre
  <2>4. <<x.keys, x.token>> \in pairs
    BY <2>3 DEF ItemsHold
  <2> QED
    BY <2>2, <2>4 DEF Pronounced
<1> QED
  BY <1>5, <1>6

LEMMA SuggestionFinds ==
    ASSUME NEW table, NEW pairs \in Pairs, TableHolds(table, FilesOf(pairs)),
           NEW keys \in PinyinKeys
    PROVE  /\ Begun(Complete(pairs), keys) \subseteq SearchSuggestion(table, keys)
           /\ SearchSuggestion(table, keys) \subseteq Begun(pairs, keys)
           /\ Begun(Complete(pairs), keys) # {} => Continues(table, keys)
<1> DEFINE n == Len(keys)
           index == SearchIndex(keys)
           suggested == SearchSuggestion(table, keys)
           longer == {i \in DOMAIN table : Len(i) > Len(index) /\ IsPrefix(index, i)}
           from(i) == ConvertSuggestion(SearchRange(table[i], keys), keys)
<1>1. keys \in KeysOf(n) /\ n \in Nat \ {0}
  BY KeysHaveALength, KeysOfAre
<1>2. index \in KeysOf(n) /\ Len(index) = n /\ SubSeq(index, 1, n) = index
  <2>1. index \in KeysOf(n) /\ n \in 1 .. n
    BY <1>1, IndicesAre
  <2> QED
    BY <2>1, BeginIs
<1>3. ASSUME NEW i \in DOMAIN table
      PROVE  i \in longer <=> Len(i) > n /\ SubSeq(i, 1, n) = index
  <2>1. i \in PinyinKeys /\ Len(i) \in Nat
    BY KeysOfAre, KeysHaveALength DEF TableHolds
  <2>2. IsPrefix(index, i) <=> n <= Len(i) /\ index = SubSeq(i, 1, n)
    BY <1>2 DEF IsPrefix
  <2> QED
    BY <1>1, <1>2, <2>1, <2>2
<1>4. suggested = IF index \notin DOMAIN table THEN {} ELSE UNION {from(i) : i \in longer}
  BY DEF SearchSuggestion
<1> HIDE DEF n, longer, suggested
<1>5. ASSUME NEW i \in longer
      PROVE  from(i) = {x.token : x \in {y \in ItemsIn(table[i]) :
                                            Matches(keys, SubSeq(y.keys, 1, n))}}
  <2>1. i \in DOMAIN table /\ Len(i) > n /\ SubSeq(i, 1, n) = index
    BY <1>3 DEF longer
  <2>2. n \in 1 .. Len(i)
    BY <1>1, <2>1, KeysOfAre, KeysHaveALength DEF TableHolds
  <2>3. SearchRange(table[i], keys) = table[i]
    BY <1>1, <2>1, <2>2, WholeRange
  <2>4. Range(table[i]) = ItemsIn(table[i])
    BY DEF Range, ItemsIn
  <2> QED
    BY <2>3, <2>4 DEF ConvertSuggestion, Begins, n
<1>6. ASSUME NEW token \in Begun(Complete(pairs), keys)
      PROVE  token \in suggested /\ index \in DOMAIN table
  <2>1. PICK p \in Complete(pairs) :
           Len(p[1]) > n /\ Matches(keys, SubSeq(p[1], 1, n)) /\ token = p[2]
    BY DEF Begun, n
  <2>2. Len(p[1]) \in Nat
    BY KeysOfAre, KeysHaveALength DEF Complete, Pairs
  <2>3. n \in 1 .. Len(p[1])
    BY <1>1, <2>1, <2>2
  <2>4. PICK i \in DOMAIN table :
           /\ Len(i) = Len(p[1]) /\ SubSeq(i, 1, n) = index
           /\ [keys |-> p[1], token |-> p[2]] \in ItemsIn(table[i])
    BY <1>1, <2>1, <2>3, FoundUnder
  <2>5. i \in longer
    BY <1>3, <2>1, <2>4
  <2>6. index \in DOMAIN table
    <3>1. n \in 1 .. Len(i) - 1
      BY <1>1, <2>1, <2>2, <2>4
    <3>2. SubSeq(i, 1, n) \in DOMAIN table
      BY <3>1 DEF TableHolds
    <3> QED
      BY <2>4, <3>2
  <2>7. \E x \in ItemsIn(table[i]) : Matches(keys, SubSeq(x.keys, 1, n)) /\ x.token = token
    BY <2>1, <2>4
  <2> HIDE DEF from, index
  <2>8. token \in from(i)
    BY <1>5, <2>5, <2>7
  <2> QED
    BY <1>4, <2>5, <2>6, <2>8
<1>7. ASSUME NEW token \in suggested PROVE token \in Begun(pairs, keys)
  <2> HIDE DEF from, index
  <2>1. PICK i \in longer : token \in from(i)
    BY <1>4
  <2>2. PICK x \in ItemsIn(table[i]) : Matches(keys, SubSeq(x.keys, 1, n)) /\ x.token = token
    BY <1>5, <2>1
  <2>3. i \in DOMAIN table /\ Len(i) > n
    BY <1>3 DEF longer
  <2>4. ItemsHold(table[i], i, pairs)
    BY <2>3, FiledItemsAre
  <2>5. <<x.keys, x.token>> \in pairs /\ x.keys \in KeysOf(Len(i))
    BY <2>4 DEF ItemsHold
  <2>6. Len(x.keys) > n
    BY <2>3, <2>5, KeysOfAre
  <2> QED
    BY <2>2, <2>5, <2>6 DEF Begun, n
<1>8. Continues(table, keys) <=> index \in DOMAIN table
  BY DEF Continues
<1> HIDE DEF index
<1> QED
  BY <1>6, <1>7, <1>8 DEF suggested

LEMMA TableFinds ==
    ASSUME NEW table, NEW pairs \in Pairs, TableHolds(table, FilesOf(pairs)),
           NEW keys \in PinyinKeys
    PROVE  SearchAgrees(table, pairs, keys)
BY SearchFinds, SuggestionFinds DEF SearchAgrees

\* The user's table holds each pair it was given and not taken, under its two indices.
UserTableInv ==
    /\ indexed \in Pairs
    /\ TableHolds(user_chewing_table, FilesOf(indexed))

LEMMA UserTableInvKept == UserTableInv /\ [KeyMatrixNext]_keyMatrixVars => UserTableInv'
<1> SUFFICES ASSUME UserTableInv, [KeyMatrixNext]_keyMatrixVars PROVE UserTableInv'
  OBVIOUS
<1>1. indexed \in Pairs /\ TableHolds(user_chewing_table, FilesOf(indexed))
  BY DEF UserTableInv
<1>2. ASSUME UNCHANGED tables PROVE UserTableInv'
  <2>1. user_chewing_table' = user_chewing_table /\ indexed' = indexed
    BY <1>2 DEF tables
  <2> QED
    BY <1>1, <2>1 DEF UserTableInv
<1>3. ASSUME NEW keys, NEW token, LoadText(keys, token) PROVE UserTableInv'
  <2>1. user_chewing_table' = user_chewing_table /\ indexed' = indexed
    BY <1>3 DEF LoadText
  <2> QED
    BY <1>1, <2>1 DEF UserTableInv
<1>4. ASSUME NEW p \in UserPhrases
      PROVE  p[1] \in PinyinKeys /\ p[2] \in Nat /\ <<p[1], p[2]>> \in PinyinKeys \X Nat
  BY KeyMatrixAssumption
<1>5. ASSUME NEW p \in UserPhrases, AddPhrase(p[1], p[2]) PROVE UserTableInv'
  <2>1. /\ user_chewing_table' = AddIndex(user_chewing_table, p[1], p[2])
        /\ indexed' = indexed \cup {<<p[1], p[2]>>}
    BY <1>5 DEF AddPhrase
  <2>2. TableHolds(AddIndex(user_chewing_table, p[1], p[2]),
                   FilesOf(indexed \cup {<<p[1], p[2]>>}))
    BY <1>1, <1>4, AddIndexFiles
  <2> QED
    BY <1>1, <1>4, <2>1, <2>2 DEF UserTableInv, Pairs
<1>6. ASSUME NEW p \in UserPhrases, RemovePhrase(p[1], p[2]) PROVE UserTableInv'
  <2>1. /\ user_chewing_table' = RemoveIndex(user_chewing_table, p[1], p[2])
        /\ indexed' = indexed \ {<<p[1], p[2]>>}
    BY <1>6 DEF RemovePhrase
  <2>2. TableHolds(RemoveIndex(user_chewing_table, p[1], p[2]),
                   FilesOf(indexed \ {<<p[1], p[2]>>}))
    BY <1>1, <1>4, RemoveIndexFiles
  <2> QED
    BY <1>1, <2>1, <2>2 DEF UserTableInv, Pairs
<1>7. ASSUME NEW S \in Masks, MaskOut(S) PROVE UserTableInv'
  <2>1. /\ user_chewing_table' = MaskedOut(user_chewing_table, S)
        /\ indexed' = {p \in indexed : p[2] \notin S}
    BY <1>7 DEF MaskOut
  <2>2. TableHolds(MaskedOut(user_chewing_table, S), FilesOf({p \in indexed : p[2] \notin S}))
    BY <1>1, MaskFiles
  <2> QED
    BY <1>1, <2>1, <2>2 DEF UserTableInv, Pairs
<1>8. CASE Type
  BY <1>2, <1>8 DEF Type
<1>9. ASSUME NEW parsed, NEW M, Parsed(parsed, M) PROVE UserTableInv'
  BY <1>2, <1>9 DEF Parsed
<1>10. ASSUME NEW options, \/ ParseMoreFullPinyins(options)
                           \/ ParseMoreDoublePinyins(options) \/ ParseMoreChewings(options)
       PROVE  UserTableInv'
  BY <1>9, <1>10 DEF ParseMoreFullPinyins, ParseMoreDoublePinyins, ParseMoreChewings
<1>11. ASSUME NEW o, NEW fits, MoveTo(o, fits) PROVE UserTableInv'
  BY <1>2, <1>11 DEF MoveTo
<1>12. ASSUME NEW cursor, GetPinyinOffset(cursor) PROVE UserTableInv'
  BY <1>11, <1>12 DEF GetPinyinOffset
<1>13. CASE GetLeftPinyinOffset \/ GetRightPinyinOffset
  BY <1>11, <1>13 DEF GetLeftPinyinOffset, GetRightPinyinOffset
<1>14. CASE Reset
  BY <1>2, <1>14 DEF Reset
<1>15. CASE UNCHANGED keyMatrixVars
  BY <1>2, <1>15 DEF keyMatrixVars
<1> QED
  BY <1>3, <1>5, <1>6, <1>7, <1>8, <1>10, <1>12, <1>13, <1>14, <1>15 DEF KeyMatrixNext

\* However phrases are imported, removed and masked, the user's pinyin table finds for
\* any keys what they pronounce and what they begin, and lets be removed what it was
\* given (ChewingLargeTable2::search, search_suggestion, add_index, remove_index,
\* mask_out).
THEOREM TableAlwaysAgrees == KeyMatrixSpec => []TableAgrees
<1>1. KeyMatrixInit => UserTableInv
  <2> SUFFICES ASSUME KeyMatrixInit PROVE UserTableInv
    OBVIOUS
  <2>1. user_chewing_table = NoTable /\ indexed = {}
    BY DEF KeyMatrixInit
  <2>2. TableHolds(NoTable, FilesOf({}))
    BY DEF TableHolds, NoTable, FilesOf
  <2> QED
    BY <2>1, <2>2 DEF UserTableInv, Pairs
<1>2. UserTableInv => TableAgrees
  <2> SUFFICES ASSUME UserTableInv PROVE TableAgrees
    OBVIOUS
  <2>1. indexed \in Pairs /\ TableHolds(user_chewing_table, FilesOf(indexed))
    BY DEF UserTableInv
  <2>2. \A keys \in Queries : SearchAgrees(user_chewing_table, indexed, keys)
    BY <2>1, KeyMatrixAssumption, TableFinds
  <2>3. RemovalAgrees(user_chewing_table, indexed)
    BY <2>1, TableRemoves
  <2> QED
    BY <2>2, <2>3 DEF TableAgrees
<1> QED
  BY <1>1, <1>2, UserTableInvKept, PTL DEF KeyMatrixSpec
=============================================================================
