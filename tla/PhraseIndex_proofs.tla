------------------------- MODULE PhraseIndex_proofs -------------------------
(***************************************************************************)
(* Proofs about module PhraseIndex: the types of its state, and that the   *)
(* libraries with their logs implement DurableStore, for every set of      *)
(* libraries and slots, every shipped file and every mask.                 *)
(*                                                                         *)
(* The refinement rests on one fact about the log: diff and merge are      *)
(* inverse (LogRestores), whatever the totals in its header are.           *)
(*                                                                         *)
(* That the totals balance (BooksAlwaysBalance) rests on BooksInv: while   *)
(* nothing was left behind, the total of every library is the sum of its   *)
(* items, in memory and as the files restore it, and a system library has  *)
(* only grown since it was shipped, so that masking part of its log does   *)
(* not make the sum overflow.                                              *)
(***************************************************************************)
EXTENDS PhraseIndex, NumberLemmas

(* The items of the log and of the stored libraries.                       *)
StoredItems ==
    /\ DOMAIN stored = Lib
    /\ \A l \in SystemLib :
          \A s \in Slot \cap DOMAIN stored[l].records :
              stored[l].records[s].new \in Item \cup {NoItem}
    /\ \A l \in UserLib : stored[l].items \in [Slot -> Item \cup {NoItem}]

ItemsInv == items \in Items /\ StoredItems

---------------------------------------------------------------------------

(* What the diff of a system library says is what merging it brings back:  *)
(* slots that are not recorded are those that equal the shipped file.      *)
LEMMA LogRestores ==
    ASSUME NEW its, NEW sub, NEW l, NEW s \in Slot
    PROVE  MergedItem(Diff(its, sub, l), l, s) = its[<<l, s>>]
  BY DEF MergedItem, Diff

(* A library without a log has the shipped items.                          *)
LEMMA EmptyLogRestores ==
    ASSUME NEW l, NEW s
    PROVE  MergedItem(NoLog, l, s) = Shipped[<<l, s>>]
  BY DEF MergedItem, NoLog

(* Masking a log leaves no masked slot in it and drops no other.           *)
LEMMA MaskedLog ==
    ASSUME NEW log, NEW slots, NEW l, NEW s
    PROVE  MergedItem(Unmasked(log, slots), l, s) =
               IF s \in slots THEN Shipped[<<l, s>>] ELSE MergedItem(log, l, s)
  <1>1. CASE log = NoLog
    BY <1>1, EmptyLogRestores DEF Unmasked
  <1>2. CASE log # NoLog
    BY <1>2 DEF Unmasked, MergedItem
  <1> QED BY <1>1, <1>2

(* What is saved is what a new process reads back, key by key.             *)
LEMMA SaveRestores ==
    ASSUME NEW its \in Items, NEW sub
    PROVE  Restored([l \in Lib |-> IF l \in SystemLib THEN Diff(its, sub, l)
                                   ELSE Library(its, sub, l)]) = its
  <1> DEFINE files == [l \in Lib |-> IF l \in SystemLib THEN Diff(its, sub, l)
                                     ELSE Library(its, sub, l)]
  <1>1. ASSUME NEW k \in Key
        PROVE  Restored(files)[k] = its[k]
    <2>1. /\ k[1] \in Lib /\ k[2] \in Slot
          /\ k = <<k[1], k[2]>>
      BY DEF Key
    <2>2. CASE k[1] \in SystemLib
      BY <2>1, <2>2, LogRestores DEF Restored
    <2>3. CASE k[1] \notin SystemLib
      BY <2>1, <2>3 DEF Restored, Library
    <2> QED BY <2>2, <2>3
  <1>2. its = [k \in Key |-> its[k]]
    BY DEF Items
  <1>3. Restored(files) = [k \in Key |-> Restored(files)[k]]
    BY DEF Restored
  <1> QED BY <1>1, <1>2, <1>3

(* Masking changes no other library's item, forgets the masked ones and    *)
(* lets an item of a system library fall back to what was saved or shipped.*)
LEMMA MaskedItems ==
    ASSUME NEW M \in Masks, NEW k \in Key
    PROVE  MaskedItem(M, k) \in
               IF k \in M.libs \X M.slots THEN {Shipped[k]}
               ELSE {items[k], Restored(stored)[k], Shipped[k]}
  <1>1. /\ k[1] \in Lib /\ k[2] \in Slot
        /\ k = <<k[1], k[2]>>
        /\ k \in M.libs \X M.slots <=> k[1] \in M.libs /\ k[2] \in M.slots
    BY PhraseIndexAssumption DEF Key
  <1>2. CASE k[1] \in UserLib
    BY <1>1, <1>2, PhraseIndexAssumption DEF MaskedItem
  <1>3. CASE k[1] \notin UserLib
    <2>1. k[1] \in SystemLib
      BY <1>1, <1>3 DEF Lib
    <2>2. MergedItem(Unmasked(stored[k[1]], M.slots), k[1], k[2]) =
              IF k[2] \in M.slots THEN Shipped[<<k[1], k[2]>>]
              ELSE MergedItem(stored[k[1]], k[1], k[2])
      BY MaskedLog
    <2>3. Restored(stored)[k] = MergedItem(stored[k[1]], k[1], k[2])
      BY <2>1 DEF Restored
    <2> QED BY <1>1, <1>3, <2>2, <2>3 DEF MaskedItem
  <1> QED BY <1>2, <1>3

---------------------------------------------------------------------------
(* The actions that learn change one item of memory and no file.           *)
LearnsOne == \E k \in Key : \E v \in Item \cup {NoItem} : items' = [items EXCEPT ![k] = v]

\* add_unigram_frequency changes the frequency of one item, or refuses.
LEMMA AddLearnsOne ==
    ASSUME NEW its \in Items, NEW k \in Key, NEW d \in Seeds,
           AddUnigramFrequency(its, k, d)
    PROVE  \E v \in Item \cup {NoItem} : items' = [its EXCEPT ![k] = v]
  <1>1. its[k] \in Item \cup {NoItem}
    BY DEF Items
  <1>2. CASE its[k] # NoItem /\ items' = [its EXCEPT ![k].freq = Plus(@, d)]
    <2>1. its[k].freq \in Nat /\ d \in Nat /\ Wrap \in Nat \ {0}
      BY <1>1, <1>2, PhraseIndexAssumption DEF Item
    <2>2. Plus(its[k].freq, d) \in 0 .. Wrap - 1
      BY <2>1 DEF Plus
    <2>3. [its[k] EXCEPT !.freq = Plus(@, d)] \in Item
      BY <1>1, <1>2, <2>2 DEF Item
    <2> QED BY <1>2, <2>3
  <1>3. CASE items' = its
    <2>1. items' = [its EXCEPT ![k] = its[k]]
      BY <1>3 DEF Items
    <2> QED BY <1>1, <2>1
  <1> QED BY <1>2, <1>3 DEF AddUnigramFrequency

\* A new phrase takes one free slot.
LEMMA ImportLearnsOne ==
    ASSUME ItemsInv, NEW l \in Lib, NEW d \in Seeds, ImportPhrase(l, d)
    PROVE  LearnsOne
  <1> DEFINE k == <<l, RangeEnd(items, l)>>
             empty == [prons |-> 1, freq |-> 0]
             its == [items EXCEPT ![k] = empty]
  <1>1. k \in Key /\ AddUnigramFrequency(its, k, d)
    BY DEF ImportPhrase, Key
  <1>2. empty \in Item
    BY PhraseIndexAssumption DEF Item
  <1>3. its \in Items
    BY <1>1, <1>2 DEF Items, ItemsInv
  <1>4. PICK v \in Item \cup {NoItem} : items' = [its EXCEPT ![k] = v]
    <2> HIDE DEF k, its
    <2> QED BY <1>1, <1>3, AddLearnsOne
  <1>5. items' = [items EXCEPT ![k] = v]
    <2> HIDE DEF k, empty
    <2> QED BY <1>1, <1>4 DEF Items, ItemsInv
  <1> QED BY <1>1, <1>5 DEF LearnsOne

\* A new pronunciation, or a removal, is of one item.
LEMMA EditsLearnOne ==
    ASSUME ItemsInv, NEW k \in Key, ImportPronunciation(k) \/ RemovePhrase(k)
    PROVE  LearnsOne
  <1>1. CASE ImportPronunciation(k)
    <2>1. items[k] \in Item /\ items[k].prons < MaxPron
      BY <1>1 DEF ImportPronunciation, ItemsInv, Items
    <2>2. [items[k] EXCEPT !.prons = @ + 1] \in Item
      BY <2>1, PhraseIndexAssumption DEF Item
    <2>3. items' = [items EXCEPT ![k] = [items[k] EXCEPT !.prons = @ + 1]]
      BY <1>1 DEF ImportPronunciation
    <2> QED BY <2>2, <2>3 DEF LearnsOne
  <1>2. CASE RemovePhrase(k)
    BY <1>2 DEF RemovePhrase, LearnsOne
  <1> QED BY <1>1, <1>2

(* Every step but saving, reopening and masking changes at most one item   *)
(* and no file.                                                            *)
Learning ==
    \/ \E k \in Key, d \in Seeds : Train(k, d) \/ Choose(k, d)
    \/ \E l \in Lib, d \in Seeds : ImportPhrase(l, d)
    \/ \E k \in Key : ImportPronunciation(k) \/ RemovePhrase(k)

\* So every call that learns touches one item and no file.
LEMMA LearningLearnsOne ==
    ASSUME ItemsInv, Learning
    PROVE  LearnsOne /\ UNCHANGED stored
  <1>1. CASE \E k \in Key, d \in Seeds : Train(k, d) \/ Choose(k, d)
    <2>1. PICK k \in Key, d \in Seeds : Train(k, d) \/ Choose(k, d)
      BY <1>1
    <2>2. AddUnigramFrequency(items, k, d) /\ UNCHANGED stored
      BY <2>1 DEF Train, Choose
    <2> QED BY <2>2, AddLearnsOne DEF ItemsInv, LearnsOne
  <1>2. CASE \E l \in Lib, d \in Seeds : ImportPhrase(l, d)
    BY <1>2, ImportLearnsOne DEF ImportPhrase
  <1>3. CASE \E k \in Key : ImportPronunciation(k) \/ RemovePhrase(k)
    BY <1>3, EditsLearnOne DEF ImportPronunciation, RemovePhrase
  <1> QED BY <1>1, <1>2, <1>3 DEF Learning

---------------------------------------------------------------------------
(* The invariant the refinement needs: items and stored items are items.   *)

\* The libraries as shipped hold items, and their logs are empty.
LEMMA ItemsInit ==
    ASSUME Init
    PROVE  ItemsInv
  <1>1. items \in Items
    BY PhraseIndexAssumption DEF Init
  <1>2. StoredItems
    <2>1. \A l \in SystemLib : DOMAIN stored[l].records = {}
      BY DEF Init, NoLog, Lib
    <2>2. \A l \in UserLib : stored[l] = NoLibrary
      BY PhraseIndexAssumption DEF Init, Lib
    <2>3. NoLibrary.items \in [Slot -> Item \cup {NoItem}]
      BY DEF NoLibrary
    <2> QED BY <2>1, <2>2, <2>3 DEF Init, StoredItems
  <1> QED BY <1>1, <1>2 DEF ItemsInv

(* What the files restore are items of the libraries.                      *)
LEMMA RestoredIsItems ==
    ASSUME StoredItems
    PROVE  Restored(stored) \in Items
  <1>1. ASSUME NEW k \in Key
        PROVE  Restored(stored)[k] \in Item \cup {NoItem}
    <2>1. k[1] \in Lib /\ k[2] \in Slot /\ k = <<k[1], k[2]>>
      BY DEF Key
    <2>2. Shipped[<<k[1], k[2]>>] \in Item \cup {NoItem}
      BY <2>1, PhraseIndexAssumption DEF Items
    <2>3. CASE k[1] \in SystemLib
      BY <2>1, <2>2, <2>3 DEF Restored, MergedItem, StoredItems
    <2>4. CASE k[1] \notin SystemLib
      BY <2>1, <2>4 DEF Restored, StoredItems, Lib
    <2> QED BY <2>3, <2>4
  <1> QED BY <1>1 DEF Restored, Items

\* What a save writes are items: each record of a log, and each user library.
LEMMA SavedItems ==
    ASSUME ItemsInv, Save
    PROVE  StoredItems'
  <1> USE DEF Items, ItemsInv
  <1>1. DOMAIN stored' = Lib
    BY DEF Save
  <1>2. ASSUME NEW l \in SystemLib, NEW s \in Slot, s \in DOMAIN (stored'[l]).records
        PROVE  (stored'[l]).records[s].new \in Item \cup {NoItem}
    <2>1. l \in Lib /\ <<l, s>> \in Key
      BY <1>2 DEF Lib, Key
    <2>2. stored'[l] = Diff(items, subtotal', l)
      BY <1>2, <2>1 DEF Save
    <2>3. (stored'[l]).records[s].new = items[<<l, s>>]
      BY <1>2, <2>2 DEF Diff
    <2> QED BY <2>1, <2>3
  <1>3. ASSUME NEW l \in UserLib
        PROVE  (stored'[l]).items \in [Slot -> Item \cup {NoItem}]
    <2>1. l \in Lib /\ l \notin SystemLib /\ \A s \in Slot : <<l, s>> \in Key
      BY PhraseIndexAssumption DEF Lib, Key
    <2>2. stored'[l] = Library(items, subtotal', l)
      BY <2>1 DEF Save
    <2> QED BY <2>1, <2>2 DEF Library
  <1> QED BY <1>1, <1>2, <1>3 DEF StoredItems

\* Every call keeps the items of memory and of the files items.
LEMMA ItemsNext ==
    ASSUME ItemsInv, [Next]_vars
    PROVE  ItemsInv'
  <1>1. CASE Learning
    <2>1. LearnsOne /\ UNCHANGED stored
      BY <1>1, LearningLearnsOne
    <2>2. items' \in Items
      BY <2>1 DEF LearnsOne, ItemsInv, Items
    <2> QED BY <2>1, <2>2 DEF ItemsInv, StoredItems
  <1>2. CASE Save
    BY <1>2, SavedItems DEF Save, ItemsInv
  <1>3. CASE Reopen
    BY <1>3, RestoredIsItems DEF Reopen, ItemsInv, StoredItems
  <1>4. ASSUME NEW M \in Masks, MaskOut(M)
        PROVE  ItemsInv'
    <2>1. ASSUME NEW k \in Key
          PROVE  MaskedItem(M, k) \in Item \cup {NoItem}
      <3>1. /\ items[k] \in Item \cup {NoItem}
            /\ Shipped[k] \in Item \cup {NoItem}
            /\ Restored(stored)[k] \in Item \cup {NoItem}
        BY RestoredIsItems, PhraseIndexAssumption DEF ItemsInv, Items
      <3> QED BY <3>1, MaskedItems
    <2>2. items' \in Items /\ UNCHANGED stored
      BY <1>4, <2>1 DEF MaskOut, Items
    <2> QED BY <2>2 DEF ItemsInv, StoredItems
  <1>5. CASE UNCHANGED <<items, stored>>
    BY <1>5 DEF ItemsInv, StoredItems
  <1> QED
    BY <1>1, <1>2, <1>3, <1>4, <1>5
    DEF Next, vars, Learning, EndAddPhrases, MaskOutAborts

\* Memory and files hold items in every state reached, which the refinement rests on.
THEOREM ItemsInvariant == Spec => []ItemsInv
  BY ItemsInit, ItemsNext, PTL DEF Spec

---------------------------------------------------------------------------

\* The libraries as shipped are the store at its start.
LEMMA StoreInit ==
    ASSUME Init
    PROVE  Store!Init
  <1>1. items = Shipped
    BY DEF Init
  <1>2. \A k \in Key : Restored(stored)[k] = Shipped[k]
    <2> SUFFICES ASSUME NEW k \in Key
                 PROVE  Restored(stored)[k] = Shipped[k]
      OBVIOUS
    <2>1. k[1] \in Lib /\ k[2] \in Slot /\ k = <<k[1], k[2]>>
      BY DEF Key
    <2>2. CASE k[1] \in SystemLib
      <3>1. stored[k[1]] = NoLog
        BY <2>1, <2>2 DEF Init
      <3> QED BY <2>1, <2>2, <3>1, EmptyLogRestores DEF Restored
    <2>3. CASE k[1] \notin SystemLib
      <3>1. stored[k[1]] = NoLibrary /\ Shipped[k] = NoItem
        BY <2>1, <2>3, PhraseIndexAssumption DEF Init, Lib
      <3> QED BY <2>1, <2>3, <3>1 DEF Restored, NoLibrary
    <2> QED BY <2>2, <2>3
  <1>3. Restored(stored) = Shipped
    BY <1>2, PhraseIndexAssumption DEF Restored, Items
  <1> QED BY <1>1, <1>3 DEF Store!Init

\* Every call is a step of the store: one value learned, all saved, all reopened, some
\* forgotten; or it changes nothing the store has.
LEMMA StoreNext ==
    ASSUME ItemsInv, [Next]_vars
    PROVE  [Store!Next]_(Store!vars)
  <1>1. CASE Learning
    <2>1. LearnsOne /\ UNCHANGED stored
      BY <1>1, LearningLearnsOne
    <2>2. PICK k \in Key : \E v \in Item \cup {NoItem} : items' = [items EXCEPT ![k] = v]
      BY <2>1 DEF LearnsOne
    <2>3. Restored(stored)' = Restored(stored)
      BY <2>1 DEF Restored
    <2>4. Store!Learn(k)
      BY <2>2, <2>3 DEF Store!Learn
    <2> QED BY <2>4 DEF Store!Next
  <1>2. CASE Save
    <2>1. Restored(stored)' = Restored(stored')
      BY DEF Restored
    <2>2. Restored(stored') = items
      <3>1. stored' = [l \in Lib |-> IF l \in SystemLib THEN Diff(items, subtotal', l)
                                     ELSE Library(items, subtotal', l)]
        BY <1>2 DEF Save
      <3> QED BY <3>1, SaveRestores DEF ItemsInv
    <2>3. Store!Save
      BY <1>2, <2>1, <2>2 DEF Save, Store!Save
    <2> QED BY <2>3 DEF Store!Next
  <1>3. CASE Reopen
    BY <1>3 DEF Reopen, Restored, Store!Next, Store!Reopen
  <1>4. ASSUME NEW M \in Masks, MaskOut(M)
        PROVE  Store!Next
    <2> DEFINE K == M.libs \X M.slots
    <2>1. K \in SUBSET Key
      BY PhraseIndexAssumption DEF Key
    <2>2. items' = [k \in Key |-> MaskedItem(M, k)] /\ UNCHANGED stored
      BY <1>4 DEF MaskOut
    <2>3. \A k \in Key : items'[k] \in
              IF k \in K THEN {Shipped[k]} ELSE {items[k], Restored(stored)[k], Shipped[k]}
      BY <2>2, MaskedItems
    <2>4. Restored(stored)' = Restored(stored)
      BY <2>2 DEF Restored
    <2>5. DOMAIN items' = Key
      BY <2>2
    <2>6. Store!Forget(K)
      BY <2>3, <2>4, <2>5 DEF Store!Forget
    <2> QED BY <2>1, <2>6 DEF Store!Next
  <1>5. CASE UNCHANGED <<items, stored>>
    BY <1>5 DEF Store!vars, Restored
  <1> QED
    BY <1>1, <1>2, <1>3, <1>4, <1>5
    DEF Next, vars, Learning, EndAddPhrases, MaskOutAborts

(* Reopening a context brings back exactly what its last save held, and    *)
(* between the two only learning and masking change what it holds.         *)
THEOREM StoreImplemented == Spec => ImplementsStore
  <1>1. Init => Store!Init
    BY StoreInit
  <1>2. ItemsInv /\ [Next]_vars => [Store!Next]_(Store!vars)
    BY StoreNext
  <1> QED BY <1>1, <1>2, ItemsInvariant, PTL DEF Spec, ImplementsStore, Store!Spec

(* Masking forgets every phrase that matches the mask: nothing of what was *)
(* learned about it in memory or in the files is left.                     *)
THEOREM MaskingForgets == Spec => MaskedForgotten
  <1>1. \A M \in Masks : MaskOut(M) =>
            \A k \in M.libs \X M.slots : items'[k] = Shipped[k]
    <2> SUFFICES ASSUME NEW M \in Masks, MaskOut(M), NEW k \in M.libs \X M.slots
                 PROVE  items'[k] = Shipped[k]
      OBVIOUS
    <2>1. k \in Key
      BY PhraseIndexAssumption DEF Key
    <2>2. items'[k] = MaskedItem(M, k)
      BY <2>1 DEF MaskOut
    <2> QED BY <2>1, <2>2, MaskedItems
  <1> QED BY <1>1, PTL DEF MaskedForgotten
---------------------------------------------------------------------------
(* Sums.  IsSum(n, f, g): g is the running total of f, from 0 to n.        *)

IsSum(n, f, g) ==
    g \in [0 .. n -> Int] /\ g[0] = 0 /\ \A i \in 1 .. n : g[i] = g[i - 1] + f[i]

\* The sum is where a running total ends.
LEMMA SumIs ==
    ASSUME NEW n \in Nat, NEW f, NEW g, IsSum(n, f, g)
    PROVE  SumTo(n, f) = g[n]
  <1> DEFINE sum[i \in 0 .. n] == IF i = 0 THEN 0 ELSE sum[i - 1] + f[i]
  <1>1. SumTo(n, f) = sum[n]
    BY DEF SumTo
  <1>2. g = [i \in 0 .. n |-> IF i = 0 THEN 0 ELSE g[i - 1] + f[i]]
    BY DEF IsSum
  <1>3. sum = [i \in 0 .. n |-> IF i = 0 THEN 0 ELSE sum[i - 1] + f[i]]
    <2>1. \E h : h = [i \in 0 .. n |-> IF i = 0 THEN 0 ELSE h[i - 1] + f[i]]
      BY <1>2
    <2> QED BY <2>1
  <1> HIDE DEF sum
  <1> DEFINE T == {i \in 0 .. n : sum[i] = g[i]}
  <1>4. 0 \in T
    BY <1>3 DEF IsSum
  <1>5. ASSUME NEW i \in 1 .. n, i - 1 \in T PROVE i \in T
    BY <1>3, <1>5 DEF IsSum
  <1>6. n \in T
    <2> HIDE DEF T
    <2>1. 0 .. n \subseteq T
      BY <1>4, <1>5, InductionUpTo
    <2> QED BY <2>1
  <1> QED BY <1>1, <1>6

\* Integers have a running total.
LEMMA SumExists ==
    ASSUME NEW n \in Nat, NEW f, \A i \in 1 .. n : f[i] \in Int
    PROVE  \E g : IsSum(n, f, g) /\ SumTo(n, f) = g[n]
  <1> DEFINE Step == [i \in 1 .. n |-> [x \in Int |-> x + f[i]]]
  <1>1. Step \in [1 .. n -> [Int -> Int]]
    OBVIOUS
  <1>2. Recursions(n, Int, 0, Step) # {}
    <2>1. 0 \in Int
      OBVIOUS
    <2> HIDE DEF Step
    <2> QED BY <1>1, <2>1, RecursionUpTo
  <1>3. PICK g \in Recursions(n, Int, 0, Step) : TRUE
    BY <1>2
  <1>4. IsSum(n, f, g)
    <2>1. g \in [0 .. n -> Int] /\ g[0] = 0 /\ \A i \in 1 .. n : g[i] = Step[i][g[i - 1]]
      BY <1>3 DEF Recursions
    <2>2. \A i \in 1 .. n : g[i - 1] \in Int
      BY <2>1
    <2>3. \A i \in 1 .. n : Step[i][g[i - 1]] = g[i - 1] + f[i]
      BY <2>2
    <2> HIDE DEF Step
    <2> QED BY <2>1, <2>3 DEF IsSum
  <1> QED BY <1>4, SumIs

\* A sum of integers is one, a sum of nothing is 0.
LEMMA SumInt ==
    ASSUME NEW n \in Nat, NEW f, \A i \in 1 .. n : f[i] \in Int
    PROVE  SumTo(n, f) \in Int
  BY SumExists DEF IsSum

\* If two terms are never more than two others, neither are their sums.
LEMMA SumsCompare ==
    ASSUME NEW n \in Nat, NEW a, NEW b, NEW c, NEW d,
           \A i \in 1 .. n : a[i] \in Int /\ b[i] \in Int /\ c[i] \in Int /\ d[i] \in Int,
           \A i \in 1 .. n : a[i] + b[i] <= c[i] + d[i]
    PROVE  SumTo(n, a) + SumTo(n, b) <= SumTo(n, c) + SumTo(n, d)
  <1>1. PICK A : IsSum(n, a, A) /\ SumTo(n, a) = A[n]
    BY SumExists
  <1>2. PICK B : IsSum(n, b, B) /\ SumTo(n, b) = B[n]
    BY SumExists
  <1>3. PICK C : IsSum(n, c, C) /\ SumTo(n, c) = C[n]
    BY SumExists
  <1>4. PICK D : IsSum(n, d, D) /\ SumTo(n, d) = D[n]
    BY SumExists
  <1> DEFINE T == {i \in 0 .. n : A[i] + B[i] <= C[i] + D[i]}
  <1>5. 0 \in T
    BY <1>1, <1>2, <1>3, <1>4 DEF IsSum
  <1>6. ASSUME NEW i \in 1 .. n, i - 1 \in T PROVE i \in T
    <2>1. /\ A[i] = A[i - 1] + a[i] /\ B[i] = B[i - 1] + b[i]
          /\ C[i] = C[i - 1] + c[i] /\ D[i] = D[i - 1] + d[i]
      BY <1>1, <1>2, <1>3, <1>4 DEF IsSum
    <2>2. /\ A[i - 1] \in Int /\ B[i - 1] \in Int /\ C[i - 1] \in Int /\ D[i - 1] \in Int
          /\ A[i - 1] + B[i - 1] <= C[i - 1] + D[i - 1]
      BY <1>1, <1>2, <1>3, <1>4, <1>6 DEF IsSum
    <2> QED BY <2>1, <2>2
  <1>7. n \in T
    <2> HIDE DEF T
    <2>1. 0 .. n \subseteq T
      BY <1>5, <1>6, InductionUpTo
    <2> QED BY <2>1
  <1> QED BY <1>1, <1>2, <1>3, <1>4, <1>7

\* Two pairs of terms that agree have sums that agree.
LEMMA SumsAgree ==
    ASSUME NEW n \in Nat, NEW a, NEW b, NEW c, NEW d,
           \A i \in 1 .. n : a[i] \in Int /\ b[i] \in Int /\ c[i] \in Int /\ d[i] \in Int,
           \A i \in 1 .. n : a[i] + b[i] = c[i] + d[i]
    PROVE  SumTo(n, a) + SumTo(n, b) = SumTo(n, c) + SumTo(n, d)
  <1>1. SumTo(n, a) + SumTo(n, b) <= SumTo(n, c) + SumTo(n, d)
    BY SumsCompare
  <1>2. SumTo(n, c) + SumTo(n, d) <= SumTo(n, a) + SumTo(n, b)
    BY SumsCompare
  <1>3. SumTo(n, a) \in Int /\ SumTo(n, b) \in Int /\ SumTo(n, c) \in Int /\ SumTo(n, d) \in Int
    BY SumInt
  <1> QED BY <1>1, <1>2, <1>3

\* A sum with one term.
LEMMA SumOfOne ==
    ASSUME NEW n \in Nat, NEW f, NEW k \in 1 .. n, f[k] \in Int,
           \A i \in 1 .. n : i # k => f[i] = 0
    PROVE  SumTo(n, f) = f[k]
  <1> DEFINE g == [i \in 0 .. n |-> IF i < k THEN 0 ELSE f[k]]
  <1>1. IsSum(n, f, g)
    <2>1. g \in [0 .. n -> Int] /\ g[0] = 0
      OBVIOUS
    <2>2. ASSUME NEW i \in 1 .. n PROVE g[i] = g[i - 1] + f[i]
      <3>1. CASE i < k
        BY <3>1
      <3>2. CASE i = k
        BY <3>2
      <3>3. CASE i > k
        BY <3>3
      <3> QED BY <3>1, <3>2, <3>3
    <2> QED BY <2>1, <2>2 DEF IsSum
  <1>2. SumTo(n, f) = g[n]
    <2> HIDE DEF g
    <2> QED BY <1>1, SumIs
  <1> QED BY <1>2

\* A sum in which one term changes.
LEMMA SumOfChanged ==
    ASSUME NEW n \in Nat, NEW f, NEW g, NEW k \in 1 .. n,
           \A i \in 1 .. n : f[i] \in Int /\ g[i] \in Int,
           \A i \in 1 .. n : i # k => g[i] = f[i]
    PROVE  SumTo(n, g) = SumTo(n, f) - f[k] + g[k]
  <1> DEFINE old == [i \in 1 .. n |-> IF i = k THEN f[k] ELSE 0]
             new == [i \in 1 .. n |-> IF i = k THEN g[k] ELSE 0]
  <1>1. \A i \in 1 .. n : old[i] \in Int /\ new[i] \in Int /\ g[i] + old[i] = f[i] + new[i]
    OBVIOUS
  <1>2. old[k] = f[k] /\ new[k] = g[k] /\ \A i \in 1 .. n : i # k => old[i] = 0 /\ new[i] = 0
    OBVIOUS
  <1> HIDE DEF old, new
  <1>3. SumTo(n, g) + SumTo(n, old) = SumTo(n, f) + SumTo(n, new)
    BY <1>1, SumsAgree
  <1>4. SumTo(n, old) = f[k] /\ SumTo(n, new) = g[k]
    BY <1>1, <1>2, SumOfOne
  <1>5. SumTo(n, f) \in Int /\ SumTo(n, g) \in Int
    BY SumInt
  <1> QED BY <1>3, <1>4, <1>5

\* The sum of nothing.
LEMMA SumOfZeros ==
    ASSUME NEW n \in Nat, NEW f, \A i \in 1 .. n : f[i] = 0
    PROVE  SumTo(n, f) = 0
  <1> DEFINE g == [i \in 0 .. n |-> 0]
  <1>1. IsSum(n, f, g)
    BY DEF IsSum
  <1>2. SumTo(n, f) = g[n]
    <2> HIDE DEF g
    <2> QED BY <1>1, SumIs
  <1> QED BY <1>2

\* Smaller terms have the smaller sum, equal terms the same.
LEMMA SumsOrdered ==
    ASSUME NEW n \in Nat, NEW f, NEW g, \A i \in 1 .. n : f[i] \in Int /\ g[i] \in Int
    PROVE  /\ (\A i \in 1 .. n : f[i] <= g[i]) => SumTo(n, f) <= SumTo(n, g)
           /\ (\A i \in 1 .. n : f[i] = g[i]) => SumTo(n, f) = SumTo(n, g)
  <1> DEFINE z == [i \in 1 .. n |-> 0]
  <1>1. \A i \in 1 .. n : z[i] = 0
    OBVIOUS
  <1> HIDE DEF z
  <1>2. SumTo(n, z) = 0
    BY <1>1, SumOfZeros
  <1>3. SumTo(n, f) \in Int /\ SumTo(n, g) \in Int
    BY SumInt
  <1>4. ASSUME \A i \in 1 .. n : f[i] <= g[i] PROVE SumTo(n, f) <= SumTo(n, g)
    <2>1. \A i \in 1 .. n : f[i] + z[i] <= g[i] + z[i]
      BY <1>1, <1>4
    <2>2. SumTo(n, f) + SumTo(n, z) <= SumTo(n, g) + SumTo(n, z)
      BY <1>1, <2>1, SumsCompare
    <2> QED BY <1>2, <1>3, <2>2
  <1>5. ASSUME \A i \in 1 .. n : f[i] = g[i] PROVE SumTo(n, f) = SumTo(n, g)
    <2>1. \A i \in 1 .. n : f[i] + z[i] = g[i] + z[i]
      BY <1>1, <1>5
    <2>2. SumTo(n, f) + SumTo(n, z) = SumTo(n, g) + SumTo(n, z)
      BY <1>1, <2>1, SumsAgree
    <2> QED BY <1>2, <1>3, <2>2
  <1> QED BY <1>4, <1>5

\* A term that is not negative is at most the sum of such terms.
LEMMA TermAtMostSum ==
    ASSUME NEW n \in Nat, NEW f, NEW k \in 1 .. n, \A i \in 1 .. n : f[i] \in Nat
    PROVE  SumTo(n, f) \in Nat /\ f[k] <= SumTo(n, f)
  <1> DEFINE one == [i \in 1 .. n |-> IF i = k THEN f[k] ELSE 0]
  <1>1. /\ \A i \in 1 .. n : one[i] \in Int /\ one[i] <= f[i]
        /\ one[k] = f[k] /\ \A i \in 1 .. n : i # k => one[i] = 0
    OBVIOUS
  <1> HIDE DEF one
  <1>2. SumTo(n, one) = f[k]
    BY <1>1, SumOfOne
  <1>3. SumTo(n, one) <= SumTo(n, f)
    BY <1>1, SumsOrdered
  <1>4. SumTo(n, f) \in Int
    BY SumInt
  <1> QED BY <1>2, <1>3, <1>4
---------------------------------------------------------------------------
(* The books.  While no total has been left behind, the total of each      *)
(* library is the sum of its items, and none overflows; a system library   *)
(* has only grown since it was shipped; and the files say the same of what *)
(* they restore: a log starts from the shipped items and the shipped total.*)

Balanced(its, sub, tot) ==
    /\ sub = [l \in Lib |-> SumFreq(its, l)]
    /\ tot = SumTotals(sub)
    /\ \A l \in Lib : SumFreq(its, l) < Wrap

Grown(its) == \A k \in Key : k[1] \in SystemLib => FreqOf(its[k]) >= FreqOf(Shipped[k])

LogIs(log, l) ==
    /\ log.before = ShippedTotal(l)
    /\ log.after = SumFreq(Restored(stored), l)
    /\ DOMAIN log.records \subseteq Slot
    /\ \A s \in DOMAIN log.records :
          /\ log.records[s].old = Shipped[<<l, s>>]
          /\ FreqOf(log.records[s].new) >= FreqOf(log.records[s].old)

Filed ==
    /\ \A l \in SystemLib : stored[l] = NoLog \/ LogIs(stored[l], l)
    /\ \A l \in UserLib : stored[l].total = SumFreq(Restored(stored), l)
    /\ \A l \in Lib : SumFreq(Restored(stored), l) < Wrap

BooksInv == exact => Balanced(items, subtotal, total) /\ Grown(items) /\ Filed

\* The constants that the arithmetic needs.
LEMMA Widths ==
    /\ MaxSlot \in Nat /\ Slot = 1 .. MaxSlot /\ Wrap \in Nat \ {0}
    /\ SystemLib \cap UserLib = {} /\ Lib \subseteq LibIndex
    /\ \A d \in Seeds : d \in Nat
  BY PhraseIndexAssumption DEF Slot

\* Frequencies are natural numbers, and so are their sums.
LEMMA FreqsAreNat ==
    ASSUME NEW its \in Items, NEW l \in Lib
    PROVE  /\ SumFreq(its, l) \in Nat
           /\ \A s \in Slot : /\ Freqs(its, l)[s] = FreqOf(its[<<l, s>>])
                              /\ FreqOf(its[<<l, s>>]) \in Nat
                              /\ FreqOf(its[<<l, s>>]) <= SumFreq(its, l)
  <1>1. ASSUME NEW s \in Slot
        PROVE  Freqs(its, l)[s] = FreqOf(its[<<l, s>>]) /\ FreqOf(its[<<l, s>>]) \in Nat
    <2>1. its[<<l, s>>] \in Item \cup {NoItem}
      BY DEF Items, Key
    <2>2. its[<<l, s>>] # NoItem => its[<<l, s>>].freq \in Nat
      BY <2>1, Widths DEF Item
    <2> QED BY <2>2 DEF Freqs, FreqOf
  <1> DEFINE f == Freqs(its, l)
  <1>2. \A s \in 1 .. MaxSlot : f[s] \in Nat
    BY <1>1, Widths
  <1>3. ASSUME NEW s \in Slot PROVE f[s] <= SumTo(MaxSlot, f)
    <2> HIDE DEF f
    <2> QED BY <1>2, Widths, TermAtMostSum
  <1>4. SumTo(MaxSlot, f) \in Nat
    <2> HIDE DEF f
    <2>1. CASE MaxSlot = 0
      <3>1. \A i \in 1 .. MaxSlot : f[i] = 0
        BY <2>1
      <3> QED BY <2>1, <3>1, SumOfZeros, Widths
    <2>2. CASE MaxSlot # 0
      <3>1. 1 \in 1 .. MaxSlot
        BY <2>2, Widths
      <3> QED BY <1>2, <3>1, Widths, TermAtMostSum
    <2> QED BY <2>1, <2>2
  <1> QED BY <1>1, <1>3, <1>4 DEF SumFreq

\* Libraries with the same frequencies, or with smaller ones.
LEMMA SumFreqOrdered ==
    ASSUME NEW its \in Items, NEW new \in Items, NEW l \in Lib
    PROVE  /\ (\A s \in Slot : FreqOf(its[<<l, s>>]) <= FreqOf(new[<<l, s>>]))
                  => SumFreq(its, l) <= SumFreq(new, l)
           /\ (\A s \in Slot : its[<<l, s>>] = new[<<l, s>>]) => SumFreq(its, l) = SumFreq(new, l)
  <1> DEFINE f == Freqs(its, l)
             g == Freqs(new, l)
  <1>1. \A s \in 1 .. MaxSlot : /\ f[s] = FreqOf(its[<<l, s>>]) /\ f[s] \in Int
                                /\ g[s] = FreqOf(new[<<l, s>>]) /\ g[s] \in Int
    BY FreqsAreNat, Widths
  <1>2. SumFreq(its, l) = SumTo(MaxSlot, f) /\ SumFreq(new, l) = SumTo(MaxSlot, g)
    BY DEF SumFreq
  <1> HIDE DEF f, g
  <1>3. /\ (\A s \in 1 .. MaxSlot : f[s] <= g[s]) => SumTo(MaxSlot, f) <= SumTo(MaxSlot, g)
        /\ (\A s \in 1 .. MaxSlot : f[s] = g[s]) => SumTo(MaxSlot, f) = SumTo(MaxSlot, g)
    BY <1>1, Widths, SumsOrdered
  <1> QED BY <1>1, <1>2, <1>3, Widths

\* One item changes: its library's sum changes by as much, the others not.
LEMMA SumFreqOfChanged ==
    ASSUME NEW its \in Items, NEW k \in Key, NEW v \in Item \cup {NoItem}
    PROVE  LET new == [its EXCEPT ![k] = v]
           IN  /\ SumFreq(new, k[1]) = SumFreq(its, k[1]) - FreqOf(its[k]) + FreqOf(v)
               /\ \A l \in Lib : l # k[1] => SumFreq(new, l) = SumFreq(its, l)
  <1> DEFINE new == [its EXCEPT ![k] = v]
             l == k[1]
             s == k[2]
             f == Freqs(its, l)
             g == Freqs(new, l)
  <1>1. l \in Lib /\ s \in Slot /\ k = <<l, s>> /\ new \in Items
    BY DEF Key, Items
  <1>2. \A i \in 1 .. MaxSlot : /\ f[i] = FreqOf(its[<<l, i>>]) /\ f[i] \in Int
                                /\ g[i] = FreqOf(new[<<l, i>>]) /\ g[i] \in Int
    <2> HIDE DEF new, l
    <2> QED BY <1>1, FreqsAreNat, Widths
  <1>3. new[<<l, s>>] = v /\ its[<<l, s>>] = its[k]
        /\ \A i \in Slot : i # s => new[<<l, i>>] = its[<<l, i>>]
    BY <1>1 DEF Items, Key
  <1>4. \A m \in Lib : m # l => \A i \in Slot : new[<<m, i>>] = its[<<m, i>>]
    BY <1>1 DEF Items, Key
  <1>5. SumFreq(new, l) = SumFreq(its, l) - f[s] + g[s]
    <2>1. SumFreq(its, l) = SumTo(MaxSlot, f) /\ SumFreq(new, l) = SumTo(MaxSlot, g)
      BY DEF SumFreq
    <2>2. \A i \in 1 .. MaxSlot : i # s => g[i] = f[i]
      BY <1>2, <1>3, Widths
    <2>3. \A i \in 1 .. MaxSlot : f[i] \in Int /\ g[i] \in Int
      BY <1>2
    <2>4. s \in 1 .. MaxSlot /\ MaxSlot \in Nat
      BY <1>1, Widths
    <2> HIDE DEF f, g, s, new, l
    <2>5. SumTo(MaxSlot, g) = SumTo(MaxSlot, f) - f[s] + g[s]
      BY <2>2, <2>3, <2>4, SumOfChanged
    <2> QED BY <2>1, <2>5
  <1>6. f[s] = FreqOf(its[k]) /\ g[s] = FreqOf(v)
    BY <1>1, <1>2, <1>3, Widths
  <1>7. ASSUME NEW m \in Lib, m # l PROVE SumFreq(new, m) = SumFreq(its, m)
    <2> HIDE DEF new, l
    <2> QED BY <1>1, <1>4, <1>7, SumFreqOrdered
  <1> QED BY <1>5, <1>6, <1>7

\* What the facade counts is within the width, and changes by what a library changes by.
LEMMA TotalsChange ==
    ASSUME NEW sub \in [Lib -> Nat]
    PROVE  /\ SumTotals(sub) \in 0 .. Wrap - 1
           /\ \A l \in Lib, x \in Nat :
                 SumTotals([sub EXCEPT ![l] = x]) = (SumTotals(sub) + (x - sub[l])) % Wrap
  <1> DEFINE n == PHRASE_INDEX_LIBRARY_COUNT - 1
             Counts(t) == [l \in LibIndex |-> IF l \in Lib THEN t[l] ELSE 0]
  <1>1. n \in Nat /\ LibIndex = 1 .. n
    BY DEF PHRASE_INDEX_LIBRARY_COUNT, LibIndex
  <1>2. ASSUME NEW t \in [Lib -> Nat]
        PROVE  /\ \A i \in 1 .. n : Counts(t)[i] \in Int
               /\ SumTotals(t) = SumTo(n, Counts(t)) % Wrap
    BY <1>1 DEF SumTotals
  <1>3. SumTo(n, Counts(sub)) \in Int
    <2> DEFINE f == Counts(sub)
    <2>1. \A i \in 1 .. n : f[i] \in Int
      BY <1>2
    <2> HIDE DEF f, n
    <2> QED BY <1>1, <2>1, SumInt
  <1>4. SumTotals(sub) \in 0 .. Wrap - 1
    <2> DEFINE x == SumTo(n, Counts(sub))
    <2>1. x \in Int /\ SumTotals(sub) = x % Wrap
      BY <1>2, <1>3
    <2> HIDE DEF x
    <2> QED BY <2>1, Widths, WrapAround
  <1>5. ASSUME NEW l \in Lib, NEW x \in Nat
        PROVE  SumTotals([sub EXCEPT ![l] = x]) = (SumTotals(sub) + (x - sub[l])) % Wrap
    <2> DEFINE new == [sub EXCEPT ![l] = x]
               f == Counts(sub)
               g == Counts(new)
    <2>1. new \in [Lib -> Nat]
      OBVIOUS
    <2>2. (\A i \in 1 .. n : f[i] \in Int /\ g[i] \in Int) /\ SumTotals(sub) = SumTo(n, f) % Wrap
      BY <1>2, <2>1
    <2>3. SumTotals(new) = SumTo(n, g) % Wrap
      <3> HIDE DEF new, n
      <3> QED BY <1>2, <2>1
    <2>4. l \in 1 .. n /\ f[l] = sub[l] /\ g[l] = x /\ \A i \in 1 .. n : i # l => g[i] = f[i]
      BY <1>1, Widths
    <2>5. sub[l] \in Int /\ x \in Int
      OBVIOUS
    <2> HIDE DEF new, f, g, n
    <2>6. SumTo(n, g) = SumTo(n, f) - sub[l] + x /\ SumTo(n, f) \in Int
      <3>1. n \in Nat /\ \A i \in 1 .. n : f[i] \in Int /\ g[i] \in Int
        BY <1>1, <2>2
      <3>2. SumTo(n, g) = SumTo(n, f) - f[l] + g[l]
        <4>1. l \in 1 .. n
          BY <2>4
        <4>2. \A i \in 1 .. n : i # l => g[i] = f[i]
          BY <2>4
        <4> QED BY <3>1, <4>1, <4>2, SumOfChanged
      <3>3. SumTo(n, f) \in Int
        BY <3>1, SumInt
      <3> QED BY <2>4, <3>2, <3>3
    <2> DEFINE a == SumTo(n, f)
               b == x - sub[l]
    <2>7. a \in Int /\ b \in Int /\ SumTo(n, g) = a + b
      BY <2>5, <2>6
    <2> HIDE DEF a, b
    <2>8. ((a % Wrap) + b) % Wrap = (a + b) % Wrap
      BY <2>7, Widths, WrapOnce
    <2> QED BY <2>2, <2>3, <2>7, <2>8 DEF a, b, new
  <1> QED BY <1>4, <1>5
\* One item's frequency, its library's total and the facade's change by the same amount.
LEMMA OneChanged ==
    ASSUME NEW its \in Items, NEW sub, NEW tot, Balanced(its, sub, tot), NEW k \in Key,
           NEW v \in Item \cup {NoItem}, NEW d \in Int, FreqOf(v) = FreqOf(its[k]) + d,
           sub[k[1]] + d < Wrap
    PROVE  Balanced([its EXCEPT ![k] = v], [sub EXCEPT ![k[1]] = @ + d], (tot + d) % Wrap)
  <1> DEFINE new == [its EXCEPT ![k] = v]
             l == k[1]
             x == sub[l] + d
             changed == [sub EXCEPT ![l] = x]
  <1>1. l \in Lib /\ k[2] \in Slot /\ k = <<l, k[2]>> /\ new \in Items
    BY DEF Key, Items
  <1>2. sub \in [Lib -> Nat] /\ sub[l] = SumFreq(its, l)
    BY <1>1, FreqsAreNat DEF Balanced
  <1>3. SumFreq(new, l) = x
    <2>1. SumFreq(new, l) = SumFreq(its, l) - FreqOf(its[k]) + FreqOf(v)
      BY SumFreqOfChanged
    <2>2. FreqOf(its[k]) \in Nat /\ SumFreq(its, l) \in Nat
      BY <1>1, FreqsAreNat
    <2> HIDE DEF new, l
    <2> QED BY <1>2, <2>1, <2>2
  <1>4. \A m \in Lib : m # l => SumFreq(new, m) = SumFreq(its, m)
    BY SumFreqOfChanged
  <1>5. x \in Nat
    <2> HIDE DEF new, l, x
    <2> QED BY <1>1, <1>3, FreqsAreNat
  <1>6. changed = [m \in Lib |-> SumFreq(new, m)]
    <2> HIDE DEF new, l, x
    <2> QED BY <1>1, <1>2, <1>3, <1>4 DEF Balanced
  <1>7. SumTotals(changed) = (tot + d) % Wrap
    <2>1. SumTotals(changed) = (SumTotals(sub) + (x - sub[l])) % Wrap
      BY <1>1, <1>2, <1>5, TotalsChange
    <2>2. x - sub[l] = d
      BY <1>1, <1>2
    <2> QED BY <2>1, <2>2 DEF Balanced
  <1>8. \A m \in Lib : SumFreq(new, m) < Wrap
    BY <1>3, <1>4 DEF Balanced
  <1> QED BY <1>6, <1>7, <1>8 DEF Balanced

\* add_unigram_frequency keeps the books, unless it leaves a total behind.
LEMMA AddKeepsBooks ==
    ASSUME NEW its \in Items, Balanced(its, subtotal, total), Grown(its),
           NEW k \in Key, NEW d \in Seeds, AddUnigramFrequency(its, k, d), exact'
    PROVE  Balanced(items', subtotal', total') /\ Grown(items')
  <1> DEFINE l == k[1]
             it == its[k]
             v == [it EXCEPT !.freq = @ + d]
  <1>1. l \in Lib /\ k[2] \in Slot /\ k = <<l, k[2]>> /\ d \in Nat
    BY Widths DEF Key
  <1>2. /\ it # NoItem /\ subtotal[l] + d < Wrap
        /\ items' = [its EXCEPT ![k].freq = Plus(@, d)]
        /\ subtotal' = [subtotal EXCEPT ![l] = @ + d]
        /\ total' = Plus(total, d)
    BY DEF AddUnigramFrequency
  <1>3. it \in Item /\ it.freq = FreqOf(it)
    BY <1>2 DEF Items, FreqOf
  <1>4. /\ FreqOf(it) \in Nat /\ FreqOf(it) <= SumFreq(its, l)
        /\ subtotal[l] = SumFreq(its, l) /\ SumFreq(its, l) \in Nat
    BY <1>1, FreqsAreNat DEF Balanced
  <1>5. it.freq + d \in 0 .. Wrap - 1
    BY <1>1, <1>2, <1>3, <1>4, Widths
  <1>6. Plus(it.freq, d) = it.freq + d
    <2> DEFINE y == it.freq + d
    <2>1. y \in Int /\ y \in 0 .. Wrap - 1 /\ Plus(it.freq, d) = y % Wrap
      BY <1>5 DEF Plus
    <2> HIDE DEF y, it
    <2>2. y % Wrap = y
      BY <2>1, Widths, WrapAround
    <2> QED BY <2>1, <2>2 DEF y
  <1>7. items' = [its EXCEPT ![k] = v]
    BY <1>2, <1>6
  <1>8. v \in Item /\ FreqOf(v) = FreqOf(it) + d
    <2>1. v = [prons |-> it.prons, freq |-> it.freq + d]
      BY <1>3 DEF Item
    <2>2. v \in Item
      BY <1>3, <1>5, <2>1 DEF Item
    <2> QED BY <1>3, <2>1, <2>2, PhraseIndexAssumption DEF FreqOf
  <1>9. Balanced([its EXCEPT ![k] = v], [subtotal EXCEPT ![l] = @ + d], (total + d) % Wrap)
    <2>1. v \in Item \cup {NoItem} /\ d \in Int /\ subtotal[k[1]] + d < Wrap
      BY <1>1, <1>2, <1>8
    <2> HIDE DEF v
    <2> QED BY <1>8, <2>1, OneChanged
  <1>10. Grown(items')
    <2>1. ASSUME NEW j \in Key PROVE FreqOf(items'[j]) >= FreqOf(its[j])
      <3>1. CASE j = k
        <4>1. items'[j] = v
          BY <1>7, <3>1 DEF Items
        <4> HIDE DEF v
        <4> QED BY <1>1, <1>4, <1>8, <3>1, <4>1
      <3>2. CASE j # k
        <4>1. items'[j] = its[j]
          BY <1>7, <3>2 DEF Items
        <4>2. FreqOf(its[j]) \in Nat
          <5>1. j[1] \in Lib /\ j[2] \in Slot /\ j = <<j[1], j[2]>>
            BY DEF Key
          <5> QED BY <5>1, FreqsAreNat
        <4> QED BY <4>1, <4>2
      <3> QED BY <3>1, <3>2
    <2>2. ASSUME NEW j \in Key
          PROVE  FreqOf(items'[j]) \in Nat /\ FreqOf(its[j]) \in Nat /\ FreqOf(Shipped[j]) \in Nat
      <3>1. j[1] \in Lib /\ j[2] \in Slot /\ j = <<j[1], j[2]>>
        BY DEF Key
      <3>2. items' \in Items /\ Shipped \in Items
        <4> HIDE DEF v
        <4> QED BY <1>7, <1>8, PhraseIndexAssumption DEF Items
      <3> QED BY <3>1, <3>2, FreqsAreNat
    <2> QED BY <2>1, <2>2 DEF Grown
  <1> QED BY <1>2, <1>7, <1>9, <1>10 DEF Plus

\* A new phrase has no frequency yet, and a new pronunciation changes none.
LEMMA SameFrequency ==
    ASSUME NEW its \in Items, NEW sub, NEW tot, Balanced(its, sub, tot), Grown(its),
           NEW k \in Key, NEW v \in Item \cup {NoItem}, FreqOf(v) = FreqOf(its[k])
    PROVE  LET new == [its EXCEPT ![k] = v]
           IN  new \in Items /\ Balanced(new, sub, tot) /\ Grown(new)
  <1> DEFINE new == [its EXCEPT ![k] = v]
  <1>1. new \in Items
    BY DEF Items
  <1>2. \A j \in Key : FreqOf(new[j]) = FreqOf(its[j])
    BY DEF Items
  <1>3. \A l \in Lib : SumFreq(new, l) = SumFreq(its, l)
    <2>1. k[1] \in Lib /\ k[2] \in Slot /\ k = <<k[1], k[2]>>
      BY DEF Key
    <2>2. FreqOf(its[k]) \in Nat /\ SumFreq(its, k[1]) \in Nat
      BY <2>1, FreqsAreNat
    <2>3. /\ SumFreq(new, k[1]) = SumFreq(its, k[1]) - FreqOf(its[k]) + FreqOf(v)
          /\ \A l \in Lib : l # k[1] => SumFreq(new, l) = SumFreq(its, l)
      BY SumFreqOfChanged
    <2> HIDE DEF new
    <2> QED BY <2>2, <2>3
  <1> HIDE DEF new
  <1>4. Balanced(new, sub, tot)
    BY <1>3 DEF Balanced
  <1>5. Grown(new)
    BY <1>2 DEF Grown
  <1> QED BY <1>1, <1>4, <1>5 DEF new
\* The slot behind the last item has none.
LEMMA FreeSlot ==
    ASSUME NEW its, NEW l \in Lib, RangeEnd(its, l) \in Slot
    PROVE  its[<<l, RangeEnd(its, l)>>] = NoItem
  <1> DEFINE used == {s \in Slot : its[<<l, s>>] # NoItem}
  <1>1. CASE used = {}
    BY <1>1
  <1>2. CASE used # {}
    <2>1. RangeEnd(its, l) = Max(used) + 1
      BY <1>2 DEF RangeEnd
    <2>2. Max(used) \in Nat /\ \A s \in used : s \in Nat /\ Max(used) >= s
      <3>1. used \subseteq 0 .. MaxSlot /\ MaxSlot \in Nat
        BY Widths
      <3> HIDE DEF used
      <3>2. \E x \in used : \A y \in used : y <= x
        BY <1>2, <3>1, GreatestUpTo
      <3>3. \E x \in used : \A y \in used : x >= y
        BY <3>1, <3>2
      <3>4. Max(used) \in used /\ \A y \in used : Max(used) >= y
        BY <3>3 DEF Max
      <3>5. \A s \in used : s \in Nat
        BY <3>1
      <3> QED BY <3>4, <3>5
    <2>3. RangeEnd(its, l) \notin used
      <3> HIDE DEF used
      <3> QED BY <2>1, <2>2
    <2> QED BY <2>3
  <1> QED BY <1>1, <1>2
\* Every call that learns keeps the books and touches no file.
LEMMA LearningKeepsBooks ==
    ASSUME ItemsInv, BooksInv, Learning, exact'
    PROVE  Balanced(items', subtotal', total') /\ Grown(items') /\ exact /\ UNCHANGED stored
  <1>1. items \in Items
    BY DEF ItemsInv
  <1>2. exact
    BY DEF Learning, Train, Choose, ImportPhrase, ImportPronunciation, RemovePhrase,
           AddUnigramFrequency
  <1>3. Balanced(items, subtotal, total) /\ Grown(items)
    BY <1>2 DEF BooksInv
  <1>4. UNCHANGED stored
    BY LearningLearnsOne
  <1>5. ASSUME NEW k \in Key, NEW d \in Seeds, Train(k, d) \/ Choose(k, d)
        PROVE  Balanced(items', subtotal', total') /\ Grown(items')
    BY <1>1, <1>3, <1>5, AddKeepsBooks DEF Train, Choose
  <1>6. ASSUME NEW l \in Lib, NEW d \in Seeds, ImportPhrase(l, d)
        PROVE  Balanced(items', subtotal', total') /\ Grown(items')
    <2> DEFINE k == <<l, RangeEnd(items, l)>>
               empty == [prons |-> 1, freq |-> 0]
               its == [items EXCEPT ![k] = empty]
    <2>1. k \in Key /\ RangeEnd(items, l) \in Slot /\ AddUnigramFrequency(its, k, d)
      BY <1>6 DEF ImportPhrase, Key
    <2>2. empty \in Item /\ FreqOf(empty) = 0
      BY PhraseIndexAssumption DEF Item, FreqOf
    <2>3. FreqOf(items[k]) = 0
      BY <2>1, FreeSlot DEF FreqOf
    <2>4. its \in Items /\ Balanced(its, subtotal, total) /\ Grown(its)
      <3> HIDE DEF k, empty
      <3> QED BY <1>1, <1>3, <2>1, <2>2, <2>3, SameFrequency
    <2> HIDE DEF k, its
    <2> QED BY <2>1, <2>4, AddKeepsBooks
  <1>7. ASSUME NEW k \in Key, ImportPronunciation(k)
        PROVE  Balanced(items', subtotal', total') /\ Grown(items')
    <2> DEFINE v == [items[k] EXCEPT !.prons = @ + 1]
    <2>1. items[k] \in Item /\ items[k].prons < MaxPron
      BY <1>1, <1>7 DEF ImportPronunciation, Items
    <2>2. v \in Item /\ v.freq = items[k].freq
      BY <2>1, PhraseIndexAssumption DEF Item
    <2>3. FreqOf(v) = FreqOf(items[k])
      BY <2>1, <2>2, PhraseIndexAssumption DEF FreqOf
    <2>4. items' = [items EXCEPT ![k] = v] /\ UNCHANGED <<subtotal, total>>
      BY <1>7 DEF ImportPronunciation
    <2> HIDE DEF v
    <2> QED BY <1>1, <1>3, <2>2, <2>3, <2>4, SameFrequency
  <1>8. ASSUME NEW k \in Key, RemovePhrase(k)
        PROVE  Balanced(items', subtotal', total') /\ Grown(items')
    <2> DEFINE l == k[1]
               d == items[k].freq
    <2>1. /\ l \in UserLib /\ items[k] # NoItem
          /\ items' = [items EXCEPT ![k] = NoItem]
          /\ subtotal' = [subtotal EXCEPT ![l] = Minus(@, d)]
          /\ total' = Minus(total, d)
      BY <1>8 DEF RemovePhrase
    <2>2. l \in Lib /\ k[2] \in Slot /\ k = <<l, k[2]>>
      BY DEF Key
    <2>3. /\ d = FreqOf(items[k]) /\ d \in Nat /\ d <= subtotal[l]
          /\ subtotal[l] \in 0 .. Wrap - 1 /\ subtotal = [m \in Lib |-> SumFreq(items, m)]
      <3>1. subtotal[l] = SumFreq(items, l) /\ SumFreq(items, l) < Wrap
        BY <1>3, <2>2 DEF Balanced
      <3>2. d = FreqOf(items[k])
        BY <2>1 DEF FreqOf
      <3>3. FreqOf(items[k]) \in Nat /\ FreqOf(items[k]) <= SumFreq(items, l)
            /\ SumFreq(items, l) \in Nat
        BY <1>1, <2>2, FreqsAreNat
      <3> HIDE DEF d, l
      <3> QED BY <1>3, <3>1, <3>2, <3>3, Widths DEF Balanced
    <2>4. total \in 0 .. Wrap - 1
      <3>1. subtotal \in [Lib -> Nat]
        BY <1>1, <2>3, FreqsAreNat
      <3> QED BY <1>3, <3>1, TotalsChange DEF Balanced
    <2> HIDE DEF d, l
    <2>5. /\ Minus(subtotal[l], d) = subtotal[l] + (0 - d)
          /\ Minus(total, d) = (total + (0 - d)) % Wrap
      <3> DEFINE a == subtotal[l] - d
                 b == total - d
      <3>1. a \in Int /\ b \in Int /\ a \in 0 .. Wrap - 1
        BY <2>3, <2>4, Widths
      <3>2. Minus(subtotal[l], d) = (a + Wrap) % Wrap /\ Minus(total, d) = (b + Wrap) % Wrap
        <4>1. subtotal[l] + Wrap - d = a + Wrap /\ total + Wrap - d = b + Wrap
          BY <2>3, <2>4, Widths
        <4> QED BY <4>1 DEF Minus
      <3>3. a = subtotal[l] + (0 - d) /\ b = total + (0 - d)
        BY <2>3, <2>4, Widths
      <3> HIDE DEF a, b
      <3>4. (a + Wrap) % Wrap = a /\ (b + Wrap) % Wrap = b % Wrap
        BY <3>1, Widths, WrapAround
      <3> QED BY <3>2, <3>3, <3>4
    <2>6. FreqOf(NoItem) = FreqOf(items[k]) + (0 - d) /\ 0 - d \in Int
          /\ subtotal[k[1]] + (0 - d) < Wrap
      BY <2>3, Widths DEF FreqOf, l
    <2>7. Balanced([items EXCEPT ![k] = NoItem],
                   [subtotal EXCEPT ![k[1]] = @ + (0 - d)], (total + (0 - d)) % Wrap)
      BY <1>1, <1>3, <2>6, OneChanged
    <2>8. Balanced(items', subtotal', total')
      BY <2>1, <2>5, <2>7 DEF l
    <2>9. Grown(items')
      <3>1. \A j \in Key : j[1] \in SystemLib => j # k
        BY <2>1, Widths DEF l
      <3> QED BY <1>1, <1>3, <2>1, <3>1 DEF Grown, Items
    <2> QED BY <2>8, <2>9
  <1> QED BY <1>2, <1>4, <1>5, <1>6, <1>7, <1>8 DEF Learning
\* Sums that do not overflow are the totals compact computes.
LEMMA CompactedIs ==
    ASSUME NEW its \in Items, \A l \in Lib : SumFreq(its, l) < Wrap
    PROVE  Compacted(its) = [l \in Lib |-> SumFreq(its, l)]
  <1>1. ASSUME NEW l \in Lib PROVE SumFreq(its, l) % Wrap = SumFreq(its, l)
    <2> DEFINE a == SumFreq(its, l)
    <2>1. a \in Nat /\ a < Wrap
      BY FreqsAreNat
    <2> HIDE DEF a
    <2>2. a \in 0 .. Wrap - 1 /\ a \in Int
      BY <2>1, Widths
    <2>3. a % Wrap = a
      BY <2>2, Widths, WrapAround
    <2> QED BY <2>3 DEF a
  <1> QED BY <1>1 DEF Compacted

\* The shipped totals are the sums of the shipped items.
LEMMA ShippedTotalIs ==
    /\ Shipped \in Items
    /\ \A l \in Lib : ShippedTotal(l) = SumFreq(Shipped, l) /\ ShippedTotal(l) \in 0 .. Wrap - 1
  <1>1. Shipped \in Items
    BY PhraseIndexAssumption
  <1>2. ASSUME NEW l \in Lib
        PROVE  ShippedTotal(l) = SumFreq(Shipped, l) /\ ShippedTotal(l) \in 0 .. Wrap - 1
    <2> DEFINE a == SumFreq(Shipped, l)
    <2>1. a \in Nat /\ a < Wrap /\ ShippedTotal(l) = a % Wrap
      BY <1>1, FreqsAreNat, ShippedAssumption DEF ShippedTotal
    <2> HIDE DEF a
    <2>2. a \in 0 .. Wrap - 1 /\ a \in Int
      BY <2>1, Widths
    <2>3. a % Wrap = a
      BY <2>2, Widths, WrapAround
    <2> QED BY <2>1, <2>2, <2>3 DEF a
  <1> QED BY <1>1, <1>2

\* What is saved balances: the log of a system library and the file of a user library.
LEMMA SaveKeepsBooks ==
    ASSUME ItemsInv, Balanced(items, subtotal, total), Grown(items), Save
    PROVE  Balanced(items', subtotal', total') /\ Grown(items') /\ Filed'
  <1>1. /\ items' = items /\ total' = total /\ items \in Items
        /\ stored' = [l \in Lib |-> IF l \in SystemLib THEN Diff(items, subtotal', l)
                                    ELSE Library(items, subtotal', l)]
    BY DEF Save, ItemsInv
  <1>2. subtotal' = [l \in Lib |-> SumFreq(items, l)] /\ subtotal' = subtotal
    BY <1>1, CompactedIs DEF Save, Balanced
  <1>3. Balanced(items', subtotal', total') /\ Grown(items')
    BY <1>1, <1>2
  <1>4. Restored(stored)' = items
    <2>1. Restored(stored)' = Restored(stored')
      BY DEF Restored
    <2>2. Restored(stored') = items
      BY <1>1, SaveRestores
    <2> QED BY <2>1, <2>2
  <1>5. \A l \in Lib : SumFreq(Restored(stored), l)' = SumFreq(items, l)
    <2>1. \A l \in Lib : SumFreq(Restored(stored), l)' = SumFreq(Restored(stored)', l)
      BY DEF SumFreq, Freqs
    <2> QED BY <1>4, <2>1
  <1>6. ASSUME NEW l \in SystemLib PROVE LogIs(stored[l], l)'
    <2>1. l \in Lib /\ stored'[l] = Diff(items, subtotal', l)
      BY <1>1 DEF Lib
    <2>2. /\ (stored'[l]).before = ShippedTotal(l) /\ (stored'[l]).after = SumFreq(items, l)
          /\ DOMAIN (stored'[l]).records \subseteq Slot
          /\ \A s \in DOMAIN (stored'[l]).records :
                /\ (stored'[l]).records[s].old = Shipped[<<l, s>>]
                /\ (stored'[l]).records[s].new = items[<<l, s>>]
      BY <1>2, <2>1 DEF Diff
    <2>3. \A s \in Slot : FreqOf(items[<<l, s>>]) >= FreqOf(Shipped[<<l, s>>])
      <3> SUFFICES ASSUME NEW s \in Slot
                   PROVE  FreqOf(items[<<l, s>>]) >= FreqOf(Shipped[<<l, s>>])
        OBVIOUS
      <3>1. <<l, s>> \in Key /\ <<l, s>>[1] \in SystemLib
        BY <2>1 DEF Key
      <3> QED BY <3>1 DEF Grown
    <2> QED BY <1>5, <2>1, <2>2, <2>3 DEF LogIs
  <1>7. ASSUME NEW l \in UserLib PROVE (stored'[l]).total = SumFreq(items, l)
    <2>1. l \in Lib /\ l \notin SystemLib
      BY Widths DEF Lib
    <2> QED BY <1>1, <1>2, <2>1 DEF Library
  <1>8. \A l \in Lib : SumFreq(items, l) < Wrap
    BY DEF Balanced
  <1>9. Filed'
    BY <1>5, <1>6, <1>7, <1>8 DEF Filed, Lib
  <1> QED BY <1>3, <1>9

\* The files restore a library that has only grown since it was shipped.
LEMMA RestoredHasGrown ==
    ASSUME StoredItems, Filed
    PROVE  Grown(Restored(stored))
  <1> SUFFICES ASSUME NEW k \in Key, k[1] \in SystemLib
               PROVE  FreqOf(Restored(stored)[k]) >= FreqOf(Shipped[k])
    BY DEF Grown
  <1> DEFINE l == k[1]
             s == k[2]
             log == stored[l]
  <1>1. l \in Lib /\ s \in Slot /\ k = <<l, s>> /\ FreqOf(Shipped[k]) \in Nat
    <2>1. l \in Lib /\ s \in Slot /\ k = <<l, s>>
      BY DEF Key
    <2> QED BY <2>1, FreqsAreNat, ShippedTotalIs
  <1>2. Restored(stored)[k] = MergedItem(log, l, s)
    BY <1>1 DEF Restored
  <1>3. CASE s \in DOMAIN log.records
    <2>1. log # NoLog
      BY <1>3 DEF NoLog
    <2>2. LogIs(log, l)
      BY <2>1 DEF Filed
    <2>3. log.records[s].old = Shipped[<<l, s>>]
          /\ FreqOf(log.records[s].new) >= FreqOf(log.records[s].old)
      BY <1>3, <2>2 DEF LogIs
    <2> QED BY <1>1, <1>2, <1>3, <2>3 DEF MergedItem
  <1>4. CASE s \notin DOMAIN log.records
    BY <1>1, <1>2, <1>4 DEF MergedItem
  <1> QED BY <1>3, <1>4
\* What the records of S add to a total, and what they take from it.
Added(log, S) == SumOver(S, [s \in S |-> FreqOf(log.records[s].new)])
Removed(log, S) == SumOver(S, [s \in S |-> FreqOf(log.records[s].old)])

\* A sum over some slots is one over all, with nothing for the others.
LEMMA SumOverInt ==
    ASSUME NEW S, NEW f, \A s \in S \cap Slot : f[s] \in Int
    PROVE  SumOver(S, f) \in Int
  <1> DEFINE g == [s \in Slot |-> IF s \in S THEN f[s] ELSE 0]
  <1>1. \A i \in 1 .. MaxSlot : g[i] \in Int
    BY Widths
  <1>2. SumOver(S, f) = SumTo(MaxSlot, g)
    BY DEF SumOver
  <1> HIDE DEF g
  <1> QED BY <1>1, <1>2, Widths, SumInt

\* Counting the records of a log in a total, with all the wrapping done at the end.
LEMMA CountedIs ==
    ASSUME NEW log, NEW t \in Int, NEW S,
           \A s \in S \cap Slot : /\ FreqOf(log.records[s].new) \in Int
                                  /\ FreqOf(log.records[s].old) \in Int
    PROVE  /\ Added(log, S) \in Int /\ Removed(log, S) \in Int
           /\ Counted(t, log, S) = (t + Added(log, S) - Removed(log, S)) % Wrap
  <1> DEFINE a == Added(log, S)
             b == Removed(log, S)
             p == (t + (a % Wrap)) % Wrap
  <1>1. a \in Int
    <2> DEFINE f == [s \in S |-> FreqOf(log.records[s].new)]
    <2>1. \A s \in S \cap Slot : f[s] \in Int
      OBVIOUS
    <2> HIDE DEF f
    <2>2. SumOver(S, f) \in Int
      BY <2>1, SumOverInt
    <2> QED BY <2>2 DEF f, Added
  <1>2. b \in Int
    <2> DEFINE f == [s \in S |-> FreqOf(log.records[s].old)]
    <2>1. \A s \in S \cap Slot : f[s] \in Int
      OBVIOUS
    <2> HIDE DEF f
    <2>2. SumOver(S, f) \in Int
      BY <2>1, SumOverInt
    <2> QED BY <2>2 DEF f, Removed
  <1>3. Counted(t, log, S) = (p + Wrap - (b % Wrap)) % Wrap
    BY DEF Counted, Plus, Minus, Added, Removed
  <1> HIDE DEF a, b
  <1>4. p = (t + a) % Wrap
    <2> DEFINE r == a % Wrap
    <2>1. r \in Int /\ t + r = r + t
      BY <1>1, Widths, WrapAround
    <2>2. ((a % Wrap) + t) % Wrap = (a + t) % Wrap
      BY <1>1, Widths, WrapOnce
    <2>3. a + t = t + a
      BY <1>1
    <2> QED BY <2>1, <2>2, <2>3
  <1> HIDE DEF p
  <1>5. (p + Wrap - (b % Wrap)) % Wrap = (p + Wrap - b) % Wrap
    <2> DEFINE c == p + Wrap
    <2>1. c \in Int /\ p \in Int
      <3> DEFINE e == t + a
      <3>1. e \in Int /\ p = e % Wrap
        BY <1>1, <1>4
      <3> HIDE DEF e
      <3>2. p \in 0 .. Wrap - 1
        BY <3>1, Widths, WrapAround
      <3> QED BY <3>2, Widths
    <2> HIDE DEF c
    <2>2. (c - (b % Wrap)) % Wrap = (c - b) % Wrap
      BY <1>2, <2>1, Widths, WrapOnceMinus
    <2>3. b % Wrap \in Int
      BY <1>2, Widths, WrapAround
    <2>4. p + Wrap - (b % Wrap) = c - (b % Wrap) /\ p + Wrap - b = c - b
      BY <1>2, <2>1, <2>3, Widths DEF c
    <2> QED BY <2>2, <2>4
  <1>6. (p + Wrap - b) % Wrap = (t + a - b) % Wrap
    <2> DEFINE e == t + a
               c == Wrap - b
               d == e - b
    <2>1. e \in Int /\ c \in Int /\ d \in Int /\ e + c = d + Wrap
      BY <1>1, <1>2, Widths
    <2>2. p = e % Wrap /\ p \in Int
      <3> HIDE DEF e
      <3> QED BY <1>4, <2>1, Widths, WrapAround DEF e
    <2>3. p + Wrap - b = p + c
      BY <1>2, <2>2, Widths
    <2>4. d = t + a - b
      BY <1>1, <1>2, <2>1
    <2> HIDE DEF e, c, d
    <2>5. ((e % Wrap) + c) % Wrap = (e + c) % Wrap
      BY <2>1, Widths, WrapOnce
    <2>6. (d + Wrap) % Wrap = d % Wrap
      BY <2>1, Widths, WrapAround
    <2> QED BY <2>1, <2>2, <2>3, <2>4, <2>5, <2>6
  <1> QED BY <1>1, <1>2, <1>3, <1>5, <1>6 DEF a, b

\* Merging a log whose records all fit sets the total its header has.
LEMMA MergedTotalIs ==
    ASSUME NEW log, NEW l, log # NoLog, MergedExactly(log), log.after \in 0 .. Wrap - 1
    PROVE  MergedTotal(log, l) = log.after
  <1> DEFINE t == log.after
             none == [s \in Slot |-> IF s \in {} THEN [r \in {} |-> 0][s] ELSE 0]
  <1>1. MergedTotal(log, l) = Counted(t, log, {})
    BY DEF MergedTotal, MergedExactly
  <1>2. t \in Int /\ t \in 0 .. Wrap - 1
    BY Widths
  <1> HIDE DEF t
  <1>3. Counted(t, log, {}) = (t + Added(log, {}) - Removed(log, {})) % Wrap
    BY <1>2, CountedIs
  <1>4. Added(log, {}) = 0 /\ Removed(log, {}) = 0
    <2>1. \A f : SumOver({}, f) = 0
      <3> TAKE f
      <3> DEFINE g == [s \in Slot |-> IF s \in {} THEN f[s] ELSE 0]
      <3>1. \A i \in 1 .. MaxSlot : g[i] = 0
        BY Widths
      <3>2. SumOver({}, f) = SumTo(MaxSlot, g)
        BY DEF SumOver
      <3> HIDE DEF g
      <3> QED BY <3>1, <3>2, Widths, SumOfZeros
    <2> QED BY <2>1 DEF Added, Removed
  <1>5. t % Wrap = t
    BY <1>2, Widths, WrapAround
  <1>6. t + 0 - 0 = t
    BY <1>2
  <1> QED BY <1>1, <1>3, <1>4, <1>5, <1>6 DEF t

\* Without a log a library is as shipped.
LEMMA RestoredAsShipped ==
    ASSUME StoredItems, NEW l \in SystemLib, stored[l] = NoLog
    PROVE  SumFreq(Restored(stored), l) = SumFreq(Shipped, l)
  <1>1. l \in Lib /\ Restored(stored) \in Items /\ Shipped \in Items
    BY RestoredIsItems, PhraseIndexAssumption DEF Lib
  <1>2. ASSUME NEW s \in Slot PROVE Restored(stored)[<<l, s>>] = Shipped[<<l, s>>]
    <2>1. <<l, s>> \in Key
      BY <1>1 DEF Key
    <2> QED BY <2>1, EmptyLogRestores DEF Restored
  <1> QED BY <1>1, <1>2, SumFreqOrdered

\* A process that opens the files has the books they were saved with.
LEMMA ReopenKeepsBooks ==
    ASSUME StoredItems, Filed, Reopen, exact'
    PROVE  Balanced(items', subtotal', total') /\ Grown(items')
  <1>1. /\ items' = Restored(stored) /\ subtotal' = RestoredTotals(stored)
        /\ total' = SumTotals(subtotal')
        /\ \A l \in SystemLib : MergedExactly(stored[l])
    BY DEF Reopen
  <1>2. Restored(stored) \in Items
    BY RestoredIsItems
  <1>3. ASSUME NEW l \in Lib PROVE RestoredTotals(stored)[l] = SumFreq(Restored(stored), l)
    <2>1. CASE l \in SystemLib /\ stored[l] = NoLog
      BY <2>1, RestoredAsShipped, ShippedTotalIs DEF RestoredTotals, MergedTotal
    <2>2. CASE l \in SystemLib /\ stored[l] # NoLog
      <3>1. stored[l].after = SumFreq(Restored(stored), l)
        BY <2>2 DEF Filed, LogIs
      <3>2. stored[l].after \in 0 .. Wrap - 1
        <4> DEFINE a == SumFreq(Restored(stored), l)
        <4>1. a \in Nat /\ a < Wrap
          BY <1>2, FreqsAreNat DEF Filed
        <4> HIDE DEF a
        <4>2. a \in 0 .. Wrap - 1
          BY <4>1, Widths
        <4> QED BY <3>1, <4>2 DEF a
      <3>3. MergedTotal(stored[l], l) = stored[l].after
        BY <1>1, <2>2, <3>2, MergedTotalIs
      <3> QED BY <2>2, <3>1, <3>3 DEF RestoredTotals
    <2>3. CASE l \notin SystemLib
      BY <2>3 DEF RestoredTotals, Filed, Lib
    <2> QED BY <2>1, <2>2, <2>3
  <1>4. RestoredTotals(stored) = [l \in Lib |-> SumFreq(Restored(stored), l)]
    BY <1>3 DEF RestoredTotals
  <1>5. \A l \in Lib : SumFreq(Restored(stored), l) < Wrap
    BY DEF Filed
  <1>6. Balanced(items', subtotal', total')
    BY <1>1, <1>4, <1>5 DEF Balanced
  <1> QED BY <1>1, <1>6, RestoredHasGrown
\* What masking leaves of the libraries.
AfterMask(M) == [k \in Key |-> MaskedItem(M, k)]

\* What it leaves is items, and slot by slot what MaskedItem says.
LEMMA AfterMaskIs ==
    ASSUME ItemsInv, NEW M \in Masks
    PROVE  /\ AfterMask(M) \in Items
           /\ \A l \in Lib, s \in Slot :
                 /\ <<l, s>> \in Key
                 /\ AfterMask(M)[<<l, s>>] = MaskedItem(M, <<l, s>>)
                 /\ AfterMask(M)[<<l, s>>] \in
                       {items[<<l, s>>], Restored(stored)[<<l, s>>], Shipped[<<l, s>>]}
  <1>1. \A k \in Key : MaskedItem(M, k) \in {items[k], Restored(stored)[k], Shipped[k]}
    BY MaskedItems
  <1>2. items \in Items /\ Restored(stored) \in Items /\ Shipped \in Items
    BY RestoredIsItems, PhraseIndexAssumption DEF ItemsInv
  <1>3. AfterMask(M) \in Items
    BY <1>1, <1>2 DEF AfterMask, Items
  <1>4. \A l \in Lib, s \in Slot : <<l, s>> \in Key
    BY DEF Key
  <1> QED BY <1>1, <1>3, <1>4 DEF AfterMask

\* Masking a user library subtracts what it removes.
LEMMA UserMasked ==
    ASSUME ItemsInv, Balanced(items, subtotal, total), NEW M \in Masks, NEW l \in UserLib
    PROVE  SumFreq(AfterMask(M), l) < Wrap /\ MaskedTotal(M, l) = SumFreq(AfterMask(M), l)
  <1> DEFINE its == AfterMask(M)
  <1>1. /\ l \in Lib /\ l \notin SystemLib /\ items \in Items
        /\ subtotal[l] = SumFreq(items, l) /\ SumFreq(items, l) < Wrap
    BY Widths DEF Lib, ItemsInv, Balanced
  <1>2. its \in Items /\ \A s \in Slot : its[<<l, s>>] = MaskedItem(M, <<l, s>>)
    BY <1>1, AfterMaskIs
  <1>3. CASE l \notin M.libs
    <2>1. \A s \in Slot : its[<<l, s>>] = items[<<l, s>>]
      BY <1>2, <1>3 DEF MaskedItem
    <2>2. SumFreq(its, l) = SumFreq(items, l)
      <3> HIDE DEF its
      <3> QED BY <1>1, <1>2, <2>1, SumFreqOrdered
    <2> QED BY <1>1, <1>3, <2>2 DEF MaskedTotal
  <1>4. CASE l \in M.libs
    <2> DEFINE f == Freqs(items, l)
               g == Freqs(its, l)
               gone == [s \in Slot |-> IF s \in M.slots THEN f[s] ELSE 0]
               zero == [s \in Slot |-> 0]
               a == SumFreq(its, l)
               b == SumTo(MaxSlot, gone)
    <2>1. \A s \in Slot : its[<<l, s>>] = IF s \in M.slots THEN NoItem ELSE items[<<l, s>>]
      BY <1>2, <1>4 DEF MaskedItem
    <2>2. \A s \in Slot : /\ f[s] = FreqOf(items[<<l, s>>]) /\ f[s] \in Nat
                          /\ g[s] = FreqOf(its[<<l, s>>]) /\ g[s] \in Nat
      <3> HIDE DEF its
      <3> QED BY <1>1, <1>2, FreqsAreNat
    <2>3. \A s \in Slot : g[s] = IF s \in M.slots THEN 0 ELSE f[s]
      BY <2>1, <2>2 DEF FreqOf
    <2> HIDE DEF f, g, its
    <2>4. \A i \in 1 .. MaxSlot : /\ f[i] \in Int /\ g[i] \in Int /\ gone[i] \in Int
                                  /\ zero[i] = 0 /\ gone[i] >= 0
                                  /\ g[i] + gone[i] = f[i] + zero[i]
      <3>1. ASSUME NEW i \in Slot
            PROVE  gone[i] = (IF i \in M.slots THEN f[i] ELSE 0) /\ zero[i] = 0
        OBVIOUS
      <3> HIDE DEF gone, zero
      <3>2. ASSUME NEW i \in Slot
            PROVE  /\ f[i] \in Int /\ g[i] \in Int /\ gone[i] \in Int
                   /\ zero[i] = 0 /\ gone[i] >= 0 /\ g[i] + gone[i] = f[i] + zero[i]
        <4>1. f[i] \in Nat
          BY <2>2
        <4>2. CASE i \in M.slots
          BY <2>3, <3>1, <4>1, <4>2
        <4>3. CASE i \notin M.slots
          BY <2>3, <3>1, <4>1, <4>3
        <4> QED BY <4>2, <4>3
      <3> QED BY <3>2, Widths
    <2> HIDE DEF gone, zero
    <2>5. SumTo(MaxSlot, g) + SumTo(MaxSlot, gone) = SumTo(MaxSlot, f) + SumTo(MaxSlot, zero)
      BY <2>4, Widths, SumsAgree
    <2>6. SumTo(MaxSlot, zero) = 0 /\ SumTo(MaxSlot, zero) <= SumTo(MaxSlot, gone)
          /\ SumTo(MaxSlot, gone) \in Int
      <3>1. \A i \in 1 .. MaxSlot : zero[i] \in Int /\ gone[i] \in Int /\ zero[i] <= gone[i]
        BY <2>4
      <3>2. SumTo(MaxSlot, zero) = 0
        BY <2>4, Widths, SumOfZeros
      <3>3. SumTo(MaxSlot, zero) <= SumTo(MaxSlot, gone)
        BY <3>1, Widths, SumsOrdered
      <3>4. SumTo(MaxSlot, gone) \in Int
        BY <3>1, Widths, SumInt
      <3> QED BY <3>2, <3>3, <3>4
    <2>7. SumFreq(items, l) = SumTo(MaxSlot, f) /\ SumFreq(its, l) = SumTo(MaxSlot, g)
      BY DEF SumFreq, f, g
    <2>8. SumFreq(items, l) \in Nat /\ SumFreq(its, l) \in Nat
      BY <1>1, <1>2, FreqsAreNat
    <2>9. a \in 0 .. Wrap - 1 /\ b \in 0 .. Wrap - 1 /\ subtotal[l] = a + b
      BY <1>1, <2>5, <2>6, <2>7, <2>8, Widths
    <2>10. MaskedTotal(M, l) = (subtotal[l] + Wrap - (b % Wrap)) % Wrap
      BY <1>4, <2>9 DEF MaskedTotal, Minus, SumOver, gone, f
    <2> HIDE DEF a, b
    <2>11. b % Wrap = b /\ (a + Wrap) % Wrap = a
      <3>1. a \in Int /\ b \in Int /\ Wrap \in Nat \ {0}
        BY <2>9, Widths
      <3>2. b % Wrap = b
        BY <2>9, <3>1, WrapAround
      <3>3. (a + Wrap) % Wrap = a % Wrap /\ a % Wrap = a
        BY <2>9, <3>1, WrapAround
      <3> QED BY <3>2, <3>3
    <2>12. subtotal[l] + Wrap - b = a + Wrap /\ a < Wrap
      BY <2>9, Widths
    <2> QED BY <2>10, <2>11, <2>12 DEF a, its
  <1> QED BY <1>3, <1>4
\* Merging what masking leaves of a log: no more than the whole log would restore, and the
\* total the new header has.
LEMMA LogMasked ==
    ASSUME ItemsInv, Filed, NEW M \in Masks, NEW l \in SystemLib, l \in M.libs,
           stored[l] # NoLog, MergedExactly(Unmasked(stored[l], M.slots))
    PROVE  SumFreq(AfterMask(M), l) < Wrap /\ MaskedTotal(M, l) = SumFreq(AfterMask(M), l)
  <1> DEFINE its == AfterMask(M)
             log == stored[l]
             u == Unmasked(log, M.slots)
             kept == DOMAIN log.records \ M.slots
             a == SumFreq(its, l)
  <1>1. l \in Lib /\ l \notin UserLib /\ LogIs(log, l) /\ log # NoLog
    BY Widths DEF Lib, Filed
  <1>2. its \in Items /\ Shipped \in Items /\ Restored(stored) \in Items
    BY AfterMaskIs, ShippedTotalIs, RestoredIsItems DEF ItemsInv
  <1>3. ASSUME NEW s \in Slot
        PROVE  /\ its[<<l, s>>] = IF s \in kept THEN log.records[s].new ELSE Shipped[<<l, s>>]
               /\ Restored(stored)[<<l, s>>] = IF s \in DOMAIN log.records
                                               THEN log.records[s].new ELSE Shipped[<<l, s>>]
    <2>1. <<l, s>> \in Key /\ its[<<l, s>>] = MaskedItem(M, <<l, s>>)
      BY <1>1, AfterMaskIs
    <2>2. MaskedItem(M, <<l, s>>) = MergedItem(u, l, s)
      BY <1>1 DEF MaskedItem
    <2>3. MergedItem(u, l, s) =
              IF s \in M.slots THEN Shipped[<<l, s>>] ELSE MergedItem(log, l, s)
      BY MaskedLog
    <2>4. Restored(stored)[<<l, s>>] = MergedItem(log, l, s)
      BY <2>1 DEF Restored
    <2> QED BY <2>1, <2>2, <2>3, <2>4 DEF MergedItem
  <1>4. ASSUME NEW s \in Slot \cap DOMAIN log.records
        PROVE  /\ FreqOf(log.records[s].new) \in Nat
               /\ log.records[s].old = Shipped[<<l, s>>]
    <2>1. Restored(stored)[<<l, s>>] = log.records[s].new /\ FreqOf(Restored(stored)[<<l, s>>]) \in Nat
      BY <1>1, <1>2, <1>3, FreqsAreNat
    <2>2. log.records[s].old = Shipped[<<l, s>>]
      BY <1>1 DEF LogIs
    <2> QED BY <2>1, <2>2
  <1>5. a <= SumFreq(Restored(stored), l)
    <2>1. ASSUME NEW s \in Slot
          PROVE  FreqOf(its[<<l, s>>]) <= FreqOf(Restored(stored)[<<l, s>>])
      <3>1. <<l, s>> \in Key /\ FreqOf(Restored(stored)[<<l, s>>]) \in Nat
            /\ FreqOf(Shipped[<<l, s>>]) \in Nat
        BY <1>1, <1>2, FreqsAreNat DEF Key
      <3>2. FreqOf(Restored(stored)[<<l, s>>]) >= FreqOf(Shipped[<<l, s>>])
        BY <3>1, RestoredHasGrown DEF Grown, ItemsInv
      <3>3. its[<<l, s>>] \in {Restored(stored)[<<l, s>>], Shipped[<<l, s>>]}
        BY <1>3
      <3> HIDE DEF its
      <3> QED BY <3>1, <3>2, <3>3
    <2> HIDE DEF its
    <2> QED BY <1>1, <1>2, <2>1, SumFreqOrdered DEF its
  <1>6. a \in 0 .. Wrap - 1 /\ a < Wrap
    <2>1. a \in Nat
      <3> HIDE DEF its
      <3> QED BY <1>1, <1>2, FreqsAreNat
    <2>2. SumFreq(Restored(stored), l) < Wrap /\ SumFreq(Restored(stored), l) \in Nat
      BY <1>1, <1>2, FreqsAreNat DEF Filed
    <2> HIDE DEF a
    <2> QED BY <1>5, <2>1, <2>2, Widths
  <1>7. a + Removed(log, kept) = SumFreq(Shipped, l) + Added(log, kept)
        /\ Added(log, kept) \in Int /\ Removed(log, kept) \in Int
    <2> DEFINE f == Freqs(Shipped, l)
               g == Freqs(its, l)
               news == [s \in kept |-> FreqOf(log.records[s].new)]
               olds == [s \in kept |-> FreqOf(log.records[s].old)]
               new == [s \in Slot |-> IF s \in kept THEN news[s] ELSE 0]
               old == [s \in Slot |-> IF s \in kept THEN olds[s] ELSE 0]
    <2>1. \A s \in Slot : /\ f[s] = FreqOf(Shipped[<<l, s>>]) /\ f[s] \in Nat
                          /\ g[s] = FreqOf(its[<<l, s>>]) /\ g[s] \in Nat
      <3> HIDE DEF its
      <3> QED BY <1>1, <1>2, FreqsAreNat
    <2>2. ASSUME NEW s \in Slot
          PROVE  /\ f[s] \in Int /\ g[s] \in Int /\ new[s] \in Int /\ old[s] \in Int
                 /\ g[s] + old[s] = f[s] + new[s]
      <3>1. CASE s \in kept
        <4>1. g[s] = FreqOf(log.records[s].new) /\ f[s] = FreqOf(log.records[s].old)
          BY <1>3, <1>4, <2>1, <3>1
        <4>2. new[s] = FreqOf(log.records[s].new) /\ old[s] = FreqOf(log.records[s].old)
          BY <3>1
        <4>3. f[s] \in Nat /\ g[s] \in Nat
          BY <2>1
        <4> HIDE DEF f, g, new, old
        <4>4. g[s] = new[s] /\ f[s] = old[s]
          BY <4>1, <4>2
        <4> QED BY <4>3, <4>4
      <3>2. CASE s \notin kept
        <4>1. g[s] = f[s]
          BY <1>3, <2>1, <3>2
        <4>2. new[s] = 0 /\ old[s] = 0
          BY <3>2
        <4>3. f[s] \in Nat /\ g[s] \in Nat
          BY <2>1
        <4> HIDE DEF f, g, new, old
        <4> QED BY <4>1, <4>2, <4>3
      <3> QED BY <3>1, <3>2
    <2>3. /\ a = SumTo(MaxSlot, g) /\ SumFreq(Shipped, l) = SumTo(MaxSlot, f)
          /\ Added(log, kept) = SumTo(MaxSlot, new) /\ Removed(log, kept) = SumTo(MaxSlot, old)
      BY DEF SumFreq, Added, Removed, SumOver
    <2> HIDE DEF f, g, new, old, a, kept, log
    <2>4. \A i \in 1 .. MaxSlot : /\ f[i] \in Int /\ g[i] \in Int
                                  /\ new[i] \in Int /\ old[i] \in Int
                                  /\ g[i] + old[i] = f[i] + new[i]
      BY <2>2, Widths
    <2>5. SumTo(MaxSlot, g) + SumTo(MaxSlot, old) = SumTo(MaxSlot, f) + SumTo(MaxSlot, new)
      BY <2>4, Widths, SumsAgree
    <2>6. SumTo(MaxSlot, new) \in Int /\ SumTo(MaxSlot, old) \in Int
      BY <2>4, Widths, SumInt
    <2> QED BY <2>3, <2>5, <2>6
  <1>8. Counted(log.before, log, kept) = a
    <2>1. log.before = SumFreq(Shipped, l) /\ SumFreq(Shipped, l) \in Nat
      BY <1>1, <1>2, ShippedTotalIs, FreqsAreNat DEF LogIs
    <2>2. \A s \in kept \cap Slot : /\ FreqOf(log.records[s].new) \in Int
                                    /\ FreqOf(log.records[s].old) \in Int
      <3>1. \A s \in Slot : FreqOf(Shipped[<<l, s>>]) \in Nat
        BY <1>1, <1>2, FreqsAreNat
      <3>2. ASSUME NEW s \in kept \cap Slot
            PROVE  /\ FreqOf(log.records[s].new) \in Nat
                   /\ FreqOf(log.records[s].old) \in Nat
        <4>1. s \in Slot \cap DOMAIN log.records
          OBVIOUS
        <4> HIDE DEF kept, log
        <4>2. FreqOf(log.records[s].new) \in Nat /\ log.records[s].old = Shipped[<<l, s>>]
          BY <1>4, <4>1
        <4> QED BY <3>1, <4>2
      <3> HIDE DEF kept, log
      <3> QED BY <3>2
    <2> DEFINE t == log.before
    <2>3. t \in Int
      BY <2>1
    <2> HIDE DEF kept, log, t, a
    <2>4. Counted(t, log, kept) = (t + Added(log, kept) - Removed(log, kept)) % Wrap
      BY <2>2, <2>3, CountedIs
    <2>5. t + Added(log, kept) - Removed(log, kept) = a
      BY <1>6, <1>7, <2>1, <2>3 DEF t
    <2>6. a % Wrap = a
      <3>1. a \in Int
        BY <1>6, Widths
      <3> QED BY <1>6, <3>1, Widths, WrapAround
    <2> QED BY <2>4, <2>5, <2>6 DEF t
  <1>9. u.before = log.before /\ u.after = a
    BY <1>1, <1>8 DEF Unmasked
  <1>10. MergedTotal(u, l) = a
    <2>1. CASE u = NoLog
      <3>1. a = 0 /\ log.before = 0
        BY <1>9, <2>1 DEF NoLog
      <3>2. ShippedTotal(l) = log.before
        BY <1>1 DEF LogIs
      <3> QED BY <2>1, <3>1, <3>2 DEF MergedTotal
    <2>2. CASE u # NoLog
      <3>1. MergedExactly(u) /\ u.after \in 0 .. Wrap - 1
        BY <1>6, <1>9
      <3> HIDE DEF u, a
      <3> QED BY <1>9, <2>2, <3>1, MergedTotalIs
    <2> QED BY <2>1, <2>2
  <1>11. MaskedTotal(M, l) = MergedTotal(u, l)
    BY <1>1 DEF MaskedTotal
  <1> QED BY <1>6, <1>10, <1>11

\* Masking a system library.
LEMMA SystemMasked ==
    ASSUME ItemsInv, Filed, NEW M \in Masks, NEW l \in SystemLib,
           l \in M.libs => MergedExactly(Unmasked(stored[l], M.slots))
    PROVE  SumFreq(AfterMask(M), l) < Wrap /\ MaskedTotal(M, l) = SumFreq(AfterMask(M), l)
  <1> DEFINE its == AfterMask(M)
  <1>1. l \in Lib /\ l \notin UserLib
    BY Widths DEF Lib
  <1>2. its \in Items /\ \A s \in Slot : its[<<l, s>>] = MaskedItem(M, <<l, s>>)
    BY <1>1, AfterMaskIs
  <1>3. CASE l \in M.libs /\ stored[l] # NoLog
    BY <1>3, LogMasked
  <1>4. CASE l \notin M.libs \/ stored[l] = NoLog
    <2>1. Unmasked(NoLog, M.slots) = NoLog
      BY DEF Unmasked
    <2>2. \A s \in Slot : its[<<l, s>>] = Shipped[<<l, s>>]
      BY <1>1, <1>2, <1>4, <2>1, EmptyLogRestores DEF MaskedItem
    <2>3. MaskedTotal(M, l) = ShippedTotal(l)
      BY <1>1, <1>4, <2>1 DEF MaskedTotal, MergedTotal
    <2>4. SumFreq(its, l) = SumFreq(Shipped, l)
      <3> HIDE DEF its
      <3> QED BY <1>1, <1>2, <2>2, ShippedTotalIs, SumFreqOrdered
    <2> QED BY <1>1, <2>3, <2>4, ShippedTotalIs, ShippedAssumption
  <1> QED BY <1>3, <1>4
\* Masking keeps the books: what the facade adds and subtracts for the libraries comes to
\* the totals they have after compact.
LEMMA MaskKeepsBooks ==
    ASSUME ItemsInv, BooksInv, NEW M \in Masks, MaskOut(M), exact'
    PROVE  Balanced(items', subtotal', total') /\ Grown(items')
  <1> DEFINE its == AfterMask(M)
             sums == [l \in Lib |-> SumFreq(its, l)]
             T == SumTotals(subtotal)
             X == SumTotals(sums)
  <1>1. /\ exact /\ items' = its /\ subtotal' = Compacted(its)
        /\ \A l \in SystemLib \cap M.libs : MergedExactly(Unmasked(stored[l], M.slots))
        /\ total' = Minus(Plus(total, SumTotals([l \in Lib |-> MaskedTotal(M, l)])), T)
    BY DEF MaskOut, AfterMask
  <1>2. Balanced(items, subtotal, total) /\ Grown(items) /\ Filed
    BY <1>1 DEF BooksInv
  <1>3. its \in Items /\ items \in Items
    BY AfterMaskIs DEF ItemsInv
  <1>4. ASSUME NEW l \in Lib
        PROVE  SumFreq(its, l) < Wrap /\ MaskedTotal(M, l) = SumFreq(its, l)
    <2>1. CASE l \in UserLib
      BY <1>2, <2>1, UserMasked
    <2>2. CASE l \in SystemLib
      BY <1>1, <1>2, <2>2, SystemMasked
    <2> QED BY <2>1, <2>2 DEF Lib
  <1>5. subtotal' = sums /\ [l \in Lib |-> MaskedTotal(M, l)] = sums
    <2>1. Compacted(its) = sums
      BY <1>3, <1>4, CompactedIs
    <2> QED BY <1>1, <1>4, <2>1
  <1>6. T \in 0 .. Wrap - 1 /\ X \in 0 .. Wrap - 1 /\ total = T
    <2>1. subtotal \in [Lib -> Nat]
      BY <1>2, <1>3, FreqsAreNat DEF Balanced
    <2>2. sums \in [Lib -> Nat]
      <3> HIDE DEF its
      <3> QED BY <1>3, FreqsAreNat
    <2> HIDE DEF sums
    <2> QED BY <1>2, <2>1, <2>2, TotalsChange DEF Balanced
  <1>7. total' = X
    <2>1. total' = (((T + X) % Wrap) + (Wrap - T)) % Wrap
      <3>1. total' = Minus(Plus(total, X), T)
        BY <1>1, <1>5
      <3> HIDE DEF T, X
      <3>2. total' = Minus(Plus(T, X), T)
        BY <1>6, <3>1
      <3> QED BY <3>2 DEF Minus, Plus
    <2> HIDE DEF T, X
    <2> DEFINE a == T + X
               b == Wrap - T
    <2>2. a \in Int /\ b \in Int /\ a + b = X + Wrap /\ X \in Int /\ T \in Int
      BY <1>6, Widths
    <2>3. total' = ((a % Wrap) + b) % Wrap
      BY <2>1
    <2> HIDE DEF a, b
    <2>4. ((a % Wrap) + b) % Wrap = (a + b) % Wrap
      BY <2>2, Widths, WrapOnce
    <2>5. (X + Wrap) % Wrap = X % Wrap /\ X % Wrap = X
      BY <1>6, <2>2, Widths, WrapAround
    <2> QED BY <2>2, <2>3, <2>4, <2>5
  <1>8. Balanced(items', subtotal', total')
    BY <1>1, <1>4, <1>5, <1>7 DEF Balanced
  <1>9. Grown(items')
    <2> SUFFICES ASSUME NEW k \in Key, k[1] \in SystemLib
                 PROVE  FreqOf(its[k]) >= FreqOf(Shipped[k])
      BY <1>1 DEF Grown
    <2>1. k[1] \in Lib /\ k[2] \in Slot /\ k = <<k[1], k[2]>>
      BY DEF Key
    <2>2. its[k] \in {items[k], Restored(stored)[k], Shipped[k]}
      BY <2>1, AfterMaskIs
    <2>3. FreqOf(items[k]) >= FreqOf(Shipped[k])
          /\ FreqOf(Restored(stored)[k]) >= FreqOf(Shipped[k])
      BY <1>2, RestoredHasGrown DEF Grown, ItemsInv
    <2>4. FreqOf(Shipped[k]) \in Nat
      BY <2>1, ShippedTotalIs, FreqsAreNat
    <2> HIDE DEF its
    <2> QED BY <2>2, <2>3, <2>4
  <1> QED BY <1>8, <1>9

\* The books of a new user are the shipped ones.
LEMMA BooksInit ==
    ASSUME Init
    PROVE  BooksInv
  <1>1. /\ items = Shipped /\ subtotal = Compacted(Shipped) /\ total = SumTotals(subtotal)
        /\ stored = [l \in Lib |-> IF l \in SystemLib THEN NoLog ELSE NoLibrary]
    BY DEF Init
  <1>2. ItemsInv
    BY ItemsInit
  <1>3. Compacted(Shipped) = [l \in Lib |-> SumFreq(Shipped, l)]
    BY ShippedTotalIs, ShippedAssumption, CompactedIs
  <1>4. Balanced(items, subtotal, total)
    BY <1>1, <1>3, ShippedAssumption DEF Balanced
  <1>5. Grown(items)
    <2> SUFFICES ASSUME NEW k \in Key PROVE FreqOf(Shipped[k]) >= FreqOf(Shipped[k])
      BY <1>1 DEF Grown
    <2>1. k[1] \in Lib /\ k[2] \in Slot /\ k = <<k[1], k[2]>>
      BY DEF Key
    <2> QED BY <2>1, ShippedTotalIs, FreqsAreNat
  <1>6. \A l \in Lib : SumFreq(Restored(stored), l) = SumFreq(Shipped, l)
    <2>1. \A k \in Key : Restored(stored)[k] = Shipped[k]
      BY StoreInit, ShippedTotalIs DEF Store!Init, Init
    <2>2. \A l \in Lib, s \in Slot : Restored(stored)[<<l, s>>] = Shipped[<<l, s>>]
      BY <2>1 DEF Key
    <2>3. Restored(stored) \in Items /\ Shipped \in Items
      BY <1>2, RestoredIsItems, ShippedTotalIs DEF ItemsInv
    <2> QED BY <2>2, <2>3, SumFreqOrdered
  <1>7. \A l \in UserLib : stored[l].total = SumFreq(Restored(stored), l)
    <2> SUFFICES ASSUME NEW l \in UserLib PROVE stored[l].total = SumFreq(Shipped, l)
      BY <1>6 DEF Lib
    <2>1. l \in Lib /\ l \notin SystemLib
      BY Widths DEF Lib
    <2>2. stored[l].total = 0
      BY <1>1, <2>1 DEF NoLibrary
    <2> DEFINE f == Freqs(Shipped, l)
    <2>3. \A s \in 1 .. MaxSlot : f[s] = 0
      <3> SUFFICES ASSUME NEW s \in Slot PROVE FreqOf(Shipped[<<l, s>>]) = 0
        BY Widths DEF Freqs
      <3>1. <<l, s>> \in Key /\ <<l, s>>[1] \in UserLib
        BY <2>1 DEF Key
      <3>2. Shipped[<<l, s>>] = NoItem
        BY <3>1, PhraseIndexAssumption
      <3> QED BY <3>2 DEF FreqOf
    <2> HIDE DEF f
    <2>4. SumTo(MaxSlot, f) = 0
      BY <2>3, Widths, SumOfZeros
    <2> QED BY <2>2, <2>4 DEF f, SumFreq
  <1>8. Filed
    <2>1. \A l \in SystemLib : stored[l] = NoLog
      BY <1>1 DEF Lib
    <2> QED BY <1>6, <1>7, <2>1, ShippedAssumption DEF Filed
  <1> QED BY <1>4, <1>5, <1>8 DEF BooksInv

\* What the files say, and what they restore, depends on the files only.
LEMMA FiledKept ==
    ASSUME Filed, UNCHANGED stored
    PROVE  Filed'
  <1>1. \A l : SumFreq(Restored(stored), l)' = SumFreq(Restored(stored), l)
    BY DEF SumFreq, Freqs, Restored
  <1>2. \A l \in SystemLib : LogIs(stored[l], l)' <=> LogIs(stored[l], l)
    BY <1>1 DEF LogIs
  <1> QED BY <1>1, <1>2 DEF Filed

\* Every call keeps the books, or leaves a total behind and says so.
LEMMA BooksNext ==
    ASSUME ItemsInv, BooksInv, [Next]_vars
    PROVE  BooksInv'
  <1> SUFFICES ASSUME exact'
               PROVE  Balanced(items', subtotal', total') /\ Grown(items') /\ Filed'
    BY DEF BooksInv, Balanced, Grown
  <1>1. CASE Learning
    <2>1. Balanced(items', subtotal', total') /\ Grown(items') /\ exact /\ UNCHANGED stored
      BY <1>1, LearningKeepsBooks
    <2>2. Filed
      BY <2>1 DEF BooksInv
    <2> QED BY <2>1, <2>2, FiledKept
  <1>2. CASE Save
    <2>1. exact
      BY <1>2 DEF Save
    <2> QED BY <1>2, <2>1, SaveKeepsBooks DEF BooksInv
  <1>3. CASE Reopen
    <2>1. exact /\ UNCHANGED stored
      BY <1>3 DEF Reopen
    <2>2. Filed /\ StoredItems
      BY <2>1 DEF BooksInv, ItemsInv
    <2> QED BY <1>3, <2>1, <2>2, ReopenKeepsBooks, FiledKept
  <1>4. ASSUME NEW M \in Masks, MaskOut(M)
        PROVE  Balanced(items', subtotal', total') /\ Grown(items') /\ Filed'
    <2>1. exact /\ UNCHANGED stored
      BY <1>4 DEF MaskOut
    <2>2. Filed
      BY <2>1 DEF BooksInv
    <2> QED BY <1>4, <2>1, <2>2, MaskKeepsBooks, FiledKept
  <1>5. CASE EndAddPhrases
    <2>1. exact /\ UNCHANGED <<items, total, stored>> /\ subtotal' = Compacted(items)
      BY <1>5 DEF EndAddPhrases
    <2>2. Balanced(items, subtotal, total) /\ Grown(items) /\ Filed
      BY <2>1 DEF BooksInv
    <2>3. subtotal' = subtotal
      BY <2>1, <2>2, CompactedIs DEF Balanced, ItemsInv
    <2> QED BY <2>1, <2>2, <2>3, FiledKept
  <1>6. CASE UNCHANGED <<items, subtotal, total, stored, exact>>
    <2>1. exact
      BY <1>6
    <2>2. Balanced(items, subtotal, total) /\ Grown(items) /\ Filed
      BY <2>1 DEF BooksInv
    <2> QED BY <1>6, <2>2, FiledKept
  <1> QED
    BY <1>1, <1>2, <1>3, <1>4, <1>5, <1>6 DEF Next, vars, Learning, MaskOutAborts

\* As long as no total has been left behind, the total of every library is the sum of its
\* frequencies, never wrapped, and the facade's total the sum of theirs: through training,
\* importing, removing, masking, saving and reopening in any order.
THEOREM BooksAlwaysBalance == Spec => []BooksBalance
  <1>1. Init => BooksInv
    BY BooksInit
  <1>2. ItemsInv /\ BooksInv /\ [Next]_vars => BooksInv'
    BY BooksNext
  <1>3. BooksInv => BooksBalance
    BY DEF BooksInv, Balanced, BooksBalance
  <1> QED BY <1>1, <1>2, <1>3, ItemsInvariant, PTL DEF Spec
=============================================================================
