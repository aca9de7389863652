------------------------- MODULE KMixtureModel_proofs -------------------------
(***************************************************************************)
(* Of a K mixture model, for every set of documents, every limit and any   *)
(* number of files: what its items count is possible, its sums balance and *)
(* a validation finds nothing, what pruning divides by and asserts of its  *)
(* probabilities holds, its interpolation counts add up, and a model from  *)
(* which nothing was left out is that of the documents it was made from.   *)
(***************************************************************************)
EXTENDS KMixtureModel, NumberLemmas

Item == [m_WC : Nat, m_N_n_0 : Nat, m_n_1 : Nat, m_Mr : Nat]

IsGram(gram) == gram = [m_WC |-> gram.m_WC, m_freq |-> gram.m_freq, items |-> gram.items]

PossibleGram(N, gram) ==
    \A u \in DOMAIN gram.items : gram.items[u] \in Item /\ ItemPossible(N, gram.items[u])

PossibleModel(model) ==
    \/ model = EmptyModel
    \/ /\ model.header.m_N \in Nat
       /\ \A t \in DOMAIN model.grams :
             IsGram(model.grams[t]) /\ PossibleGram(model.header.m_N, model.grams[t])

PossibleLines(lines) ==
    \/ lines.data = NoHeader
    \/ /\ lines.data.m_N \in Nat
       /\ \A line \in lines.bigrams :
             line.item \in Item /\ ItemPossible(lines.data.m_N, line.item)

\* The text matters as well: a file is imported from it.
IInv ==
    /\ DOMAIN models = File
    /\ \A file \in File \ refused : PossibleModel(models[file])
    /\ PossibleLines(text.lines)
-----------------------------------------------------------------------------

\* The greater of two counts, as Max says it of their set.
LEMMA MaxOfTwo ==
    ASSUME NEW a \in Nat, NEW b \in Nat
    PROVE  Max({a, b}) = IF a >= b THEN a ELSE b
<1> DEFINE m == IF a >= b THEN a ELSE b
<1>1. m \in {a, b} /\ \A y \in {a, b} : m >= y
  OBVIOUS
<1>2. \A x \in {a, b} : (\A y \in {a, b} : x >= y) => x = m
  OBVIOUS
<1> QED
  BY <1>1, <1>2 DEF Max

\* A pair that was never seen fits any number of documents.
LEMMA NoItemPossible ==
    ASSUME NEW N \in Nat
    PROVE  NoItem \in Item /\ ItemPossible(N, NoItem)
BY DEF NoItem, Item, ItemPossible

\* More documents never make an item impossible.
LEMMA PossibleInMore ==
    ASSUME NEW N \in Nat, NEW more \in Nat, N <= more,
           NEW item \in Item, ItemPossible(N, item)
    PROVE  ItemPossible(more, item)
BY DEF Item, ItemPossible

\* One more document with the pair.
LEMMA CountedPossible ==
    ASSUME NEW N \in Nat, NEW item \in Item, ItemPossible(N, item), NEW count \in Nat \ {0}
    PROVE  Counted(item, count) \in Item /\ ItemPossible(N + 1, Counted(item, count))
<1>1. Max({item.m_Mr, count}) = IF item.m_Mr >= count THEN item.m_Mr ELSE count
  BY MaxOfTwo DEF Item
<1> QED
  BY <1>1 DEF Counted, Item, ItemPossible

\* The same pair of two models.
LEMMA AddedPossible ==
    ASSUME NEW N1 \in Nat, NEW N2 \in Nat, NEW first \in Item, NEW second \in Item,
           ItemPossible(N1, first), ItemPossible(N2, second)
    PROVE  Added(first, second) \in Item /\ ItemPossible(N1 + N2, Added(first, second))
<1>1. Max({first.m_Mr, second.m_Mr})
          = IF first.m_Mr >= second.m_Mr THEN first.m_Mr ELSE second.m_Mr
  BY MaxOfTwo DEF Item
<1> QED
  BY <1>1 DEF Added, Item, ItemPossible

\* A second word is counted at least once.
LEMMA PairCounted ==
    ASSUME NEW document \in Document, NEW token1, NEW token2 \in SecondWords(document, token1)
    PROVE  PairCount(document, token1, token2) \in Nat \ {0}
<1> DEFINE S == {i \in Pairs(document) :
                    LastToken(document, i) = token1 /\ document[i] = token2}
<1>1. document \in Seq(Nat)
  BY KMixtureModelAssumption
<1>2. S \subseteq 1 .. Len(document) /\ IsFiniteSet(1 .. Len(document))
  BY <1>1, FS_Interval DEF Pairs, Words
<1>3. IsFiniteSet(S)
  BY <1>2, FS_Subset
<1>4. PICK i \in Pairs(document) : LastToken(document, i) = token1 /\ document[i] = token2
  BY DEF SecondWords
<1>5. S # {}
  BY <1>4
<1> HIDE DEF S
<1>6. Cardinality(S) \in Nat /\ Cardinality(S) # 0
  BY <1>3, <1>5, FS_CardinalityType, FS_EmptySet
<1> QED
  BY <1>6 DEF PairCount, S

\* The gram of a word, if there is none an empty one, is possible.
LEMMA GetPossible ==
    ASSUME NEW N \in Nat, NEW grams, NEW t,
           \A u \in DOMAIN grams : IsGram(grams[u]) /\ PossibleGram(N, grams[u])
    PROVE  IsGram(Get(grams, t, EmptyGram)) /\ PossibleGram(N, Get(grams, t, EmptyGram))
<1>1. IsGram(EmptyGram) /\ PossibleGram(N, EmptyGram)
  BY DEF IsGram, PossibleGram, EmptyGram
<1> QED
  BY <1>1 DEF Get

\* So does what a gram says of a word, whether it has an item for it or not.
LEMMA GetItemPossible ==
    ASSUME NEW N \in Nat, NEW gram, NEW u, PossibleGram(N, gram)
    PROVE  /\ Get(gram.items, u, NoItem) \in Item
           /\ ItemPossible(N, Get(gram.items, u, NoItem))
BY NoItemPossible DEF Get, PossibleGram

\* One more document: a gram counts it at most once for each word
\* (train_second_word in gen_k_mixture_model.cpp).
LEMMA TrainedGramPossible ==
    ASSUME NEW N \in Nat, NEW gram, IsGram(gram), PossibleGram(N, gram),
           NEW document \in Document, NEW token1
    PROVE  /\ IsGram(TrainedGram(gram, document, token1))
           /\ PossibleGram(N + 1, TrainedGram(gram, document, token1))
<1> DEFINE kept == Kept(gram, document, token1)
           count(u) == PairCount(document, token1, u)
           words == gram.m_WC + Delta(gram, document, token1)
           items == [u \in DOMAIN gram.items \cup kept |->
                        IF u \notin kept THEN gram.items[u]
                        ELSE Counted(Get(gram.items, u, NoItem), count(u))]
<1>1. TrainedGram(gram, document, token1)
        = [m_WC |-> words, m_freq |-> gram.m_freq, items |-> items]
  <2>1. TrainedGram(gram, document, token1) = [gram EXCEPT !.m_WC = words, !.items = items]
    BY DEF TrainedGram
  <2> HIDE DEF words, items
  <2>2. PICK a, b, c : gram = [m_WC |-> a, m_freq |-> b, items |-> c]
    BY DEF IsGram
  <2> QED
    BY <2>1, <2>2
<1>2. ASSUME NEW u \in DOMAIN gram.items \cup kept
      PROVE  items[u] \in Item /\ ItemPossible(N + 1, items[u])
  <2>1. CASE u \notin kept
    <3>1. gram.items[u] \in Item /\ ItemPossible(N, gram.items[u])
      BY <2>1 DEF PossibleGram
    <3>2. ItemPossible(N + 1, gram.items[u])
      BY <3>1, PossibleInMore
    <3> QED
      BY <2>1, <3>1, <3>2
  <2>2. CASE u \in kept
    <3>1. count(u) \in Nat \ {0}
      BY <2>2, PairCounted DEF Kept
    <3>2. /\ Get(gram.items, u, NoItem) \in Item
          /\ ItemPossible(N, Get(gram.items, u, NoItem))
      BY GetItemPossible
    <3> HIDE DEF count
    <3>3. LET item == Counted(Get(gram.items, u, NoItem), count(u))
          IN  item \in Item /\ ItemPossible(N + 1, item)
      BY <3>1, <3>2, CountedPossible
    <3> QED
      BY <2>2, <3>3
  <2> QED
    BY <2>1, <2>2
<1> HIDE DEF items
<1>3. DOMAIN items = DOMAIN gram.items \cup kept
  BY DEF items
<1> QED
  BY <1>1, <1>2, <1>3 DEF IsGram, PossibleGram

\* The same for every gram of the model, those the document begins included.
LEMMA TrainedGramsPossible ==
    ASSUME NEW N \in Nat, NEW grams, NEW document \in Document,
           \A u \in DOMAIN grams : IsGram(grams[u]) /\ PossibleGram(N, grams[u]),
           NEW t \in DOMAIN TrainedGrams(grams, document)
    PROVE  /\ IsGram(TrainedGrams(grams, document)[t])
           /\ PossibleGram(N + 1, TrainedGrams(grams, document)[t])
<1> DEFINE old == Get(grams, t, EmptyGram)
           new == TrainedGram(old, document, t)
           result == TrainedGrams(grams, document)[t]
<1>1. IsGram(old) /\ PossibleGram(N, old)
  BY GetPossible
<1>2. IsGram(new) /\ PossibleGram(N + 1, new)
  BY <1>1, TrainedGramPossible
<1>3. PossibleGram(N + 1, old)
  BY <1>1, PossibleInMore DEF PossibleGram
<1>4. \E base \in {old, new} : \E freq : result = [base EXCEPT !.m_freq = freq]
  BY DEF TrainedGrams
<1> HIDE DEF old, new, result
<1>5a. PICK base \in {old, new} : \E freq : result = [base EXCEPT !.m_freq = freq]
  BY <1>4
<1>5. PICK freq : result = [base EXCEPT !.m_freq = freq]
  BY <1>5a
<1>6. IsGram(base) /\ PossibleGram(N + 1, base)
  BY <1>1, <1>2, <1>3
<1>7. result = [m_WC |-> base.m_WC, m_freq |-> freq, items |-> base.items]
  BY <1>5, <1>6 DEF IsGram
<1>8. IsGram(result) /\ PossibleGram(N + 1, result)
  BY <1>6, <1>7 DEF IsGram, PossibleGram
<1> QED
  BY <1>8 DEF result

\* Merging two grams adds their counts, and their documents add up with them.
LEMMA MergedGramPossible ==
    ASSUME NEW N1 \in Nat, NEW N2 \in Nat, NEW first, NEW second,
           PossibleGram(N1, first), PossibleGram(N2, second)
    PROVE  IsGram(MergedGram(first, second)) /\ PossibleGram(N1 + N2, MergedGram(first, second))
<1> DEFINE item(u) == Added(Get(first.items, u, NoItem), Get(second.items, u, NoItem))
           both == DOMAIN first.items \cup DOMAIN second.items
<1>1. \A u : item(u) \in Item /\ ItemPossible(N1 + N2, item(u))
  BY GetItemPossible, AddedPossible
<1>2. MergedGram(first, second)
        = [m_WC |-> first.m_WC + second.m_WC, m_freq |-> first.m_freq + second.m_freq,
           items |-> [u \in both |-> item(u)]]
  BY DEF MergedGram
<1> HIDE DEF item, both
<1> QED
  BY <1>1, <1>2 DEF IsGram, PossibleGram

\* What a tool starts from: no documents and no grams if there is no header.
LEMMA OldPossible ==
    ASSUME NEW model, PossibleModel(model)
    PROVE  /\ Old(model.header).m_N \in Nat
           /\ \A t \in DOMAIN model.grams :
                 IsGram(model.grams[t]) /\ PossibleGram(Old(model.header).m_N, model.grams[t])
<1>1. CASE model = EmptyModel
  BY <1>1 DEF EmptyModel, Old
<1>2. CASE model # EmptyModel
  <2>1. /\ model.header.m_N \in Nat
        /\ \A t \in DOMAIN model.grams :
              IsGram(model.grams[t]) /\ PossibleGram(model.header.m_N, model.grams[t])
    BY <1>2 DEF PossibleModel
  <2>2. model.header # NoHeader
    BY <2>1 DEF NoHeader
  <2> QED
    BY <2>1, <2>2 DEF Old
<1> QED
  BY <1>1, <1>2
-----------------------------------------------------------------------------

\* Models without a document are possible.
LEMMA InitPossible == Init => IInv
BY DEF Init, IInv, PossibleModel, PossibleLines, Exported, EmptyModel

\* Generating from a document keeps every counter possible.
LEMMA TrainPossible ==
    ASSUME IInv, NEW file \in File, NEW document \in Document, Train(file, document)
    PROVE  IInv'
<1> DEFINE grams == models[file].grams
           N == Old(models[file].header).m_N
           new == models'[file]
<1>1. file \notin refused /\ PossibleModel(models[file])
  BY DEF Train, IInv
<1>2. N \in Nat /\ \A t \in DOMAIN grams : IsGram(grams[t]) /\ PossibleGram(N, grams[t])
  BY <1>1, OldPossible
<1>3. \E WC, freq :
        models' = [models EXCEPT ![file] =
                      [header |-> [m_WC |-> WC, m_N |-> N + 1, m_total_freq |-> freq],
                       grams |-> TrainedGrams(grams, document)]]
  BY DEF Train
<1>4. new.header.m_N = N + 1 /\ new.grams = TrainedGrams(grams, document)
  BY <1>3 DEF IInv
<1>5. \A t \in DOMAIN TrainedGrams(grams, document) :
          /\ IsGram(TrainedGrams(grams, document)[t])
          /\ PossibleGram(N + 1, TrainedGrams(grams, document)[t])
  <2> HIDE DEF grams, N
  <2> QED
    BY <1>2, TrainedGramsPossible
<1>6. PossibleModel(new)
  <2> HIDE DEF grams, N, new
  <2> QED
    BY <1>2, <1>4, <1>5 DEF PossibleModel
<1>7. /\ DOMAIN models' = File
      /\ \A other \in File \ {file} : models'[other] = models[other]
  BY <1>3 DEF IInv
<1>8. refused \subseteq refused' /\ text' = text
  BY DEF Train
<1> QED
  BY <1>6, <1>7, <1>8 DEF IInv

\* Merging adds the documents of both models to the header and to the items alike.
LEMMA MergePossible ==
    ASSUME IInv, NEW target \in File, NEW new_one \in File, Merge(target, new_one)
    PROVE  IInv'
<1> DEFINE N1 == Old(models[target].header).m_N
           N2 == Old(models[new_one].header).m_N
           first == models[target].grams
           second == models[new_one].grams
           merged == [t \in DOMAIN first \cup DOMAIN second |->
                         MergedGram(Get(first, t, EmptyGram), Get(second, t, EmptyGram))]
<1>1. /\ target \notin refused /\ new_one \notin refused
      /\ models[new_one].header # NoHeader
  BY DEF Merge
<1>2. /\ N1 \in Nat /\ \A t \in DOMAIN first : IsGram(first[t]) /\ PossibleGram(N1, first[t])
      /\ N2 \in Nat /\ \A t \in DOMAIN second : IsGram(second[t]) /\ PossibleGram(N2, second[t])
  BY <1>1, OldPossible DEF IInv
<1>3. N2 = models[new_one].header.m_N
  BY <1>1 DEF Old
<1>4. /\ DOMAIN models' = File
      /\ \A other \in File \ {target} : models'[other] = models[other]
      /\ models'[target].grams = merged
      /\ target \notin refused' => models'[target].header.m_N = N1 + N2
      /\ refused \subseteq refused' /\ text' = text
  BY <1>3 DEF Merge, IInv
<1>5. \A t \in DOMAIN merged : IsGram(merged[t]) /\ PossibleGram(N1 + N2, merged[t])
  <2> TAKE t \in DOMAIN merged
  <2>1. /\ PossibleGram(N1, Get(first, t, EmptyGram))
        /\ PossibleGram(N2, Get(second, t, EmptyGram))
    <3> HIDE DEF N1, N2, first, second
    <3> QED
      BY <1>2, GetPossible
  <2>2. merged[t] = MergedGram(Get(first, t, EmptyGram), Get(second, t, EmptyGram))
    OBVIOUS
  <2> HIDE DEF N1, N2, first, second, merged
  <2> QED
    BY <1>2, <2>1, <2>2, MergedGramPossible
<1>6. target \notin refused' => PossibleModel(models'[target])
  <2> HIDE DEF N1, N2, merged
  <2> QED
    BY <1>2, <1>4, <1>5 DEF PossibleModel
<1> QED
  BY <1>4, <1>6 DEF IInv

\* Pruning takes whole items away.
LEMMA PrunePossible ==
    ASSUME IInv, NEW file \in File, Prune(file)
    PROVE  IInv'
<1> DEFINE grams == models[file].grams
           N == models[file].header.m_N
           new == models'[file]
           removed == [t \in DOMAIN grams |-> RemovedWords(N, grams[t])]
<1>1. file \notin refused /\ models[file].header # NoHeader
  BY DEF Prune
<1>2. N \in Nat /\ \A t \in DOMAIN grams : IsGram(grams[t]) /\ PossibleGram(N, grams[t])
  BY <1>1 DEF IInv, PossibleModel, EmptyModel
<1>3. \E count, S :
        /\ S \subseteq DOMAIN grams
        /\ models' = [models EXCEPT ![file] =
              [header |-> [models[file].header EXCEPT !.m_WC = @ - count,
                                                      !.m_total_freq = @ - count],
               grams |-> [t \in S |-> PrunedGram(grams, removed, t)]]]
  <2> DEFINE pruned == [t \in DOMAIN grams |-> PrunedGram(grams, removed, t)]
             left == {t \in DOMAIN pruned : pruned[t].m_WC # 0 \/ pruned[t].m_freq # 0}
             count == SumFunction([t \in DOMAIN grams |-> RemovedCount(grams[t], removed[t])])
  <2>1. models' = [models EXCEPT ![file] =
              [header |-> [models[file].header EXCEPT !.m_WC = @ - count,
                                                      !.m_total_freq = @ - count],
               grams |-> Restrict(pruned, left)]]
    BY DEF Prune
  <2>2. Restrict(pruned, left) = [t \in left |-> PrunedGram(grams, removed, t)]
    BY DEF Restrict
  <2>3. left \subseteq DOMAIN grams
    OBVIOUS
  <2> HIDE DEF left, pruned, count
  <2> QED
    BY <2>1, <2>2, <2>3
<1>4. /\ DOMAIN models' = File
      /\ \A other \in File \ {file} : models'[other] = models[other]
      /\ refused' = refused /\ text' = text
  BY <1>3 DEF Prune, IInv
<1>5. new.header.m_N = N
  BY <1>3 DEF IInv
<1>6. ASSUME NEW t \in DOMAIN new.grams
      PROVE  IsGram(new.grams[t]) /\ PossibleGram(N, new.grams[t])
  <2>1. t \in DOMAIN grams /\ new.grams[t] = PrunedGram(grams, removed, t)
    BY <1>3, <1>6 DEF IInv
  <2>2. PossibleGram(N, grams[t])
    BY <1>2, <2>1
  <2> HIDE DEF grams, new, N, removed
  <2>3. \E a, b, S : /\ S \subseteq DOMAIN grams[t].items
                     /\ PrunedGram(grams, removed, t)
                          = [m_WC |-> a, m_freq |-> b,
                             items |-> [u \in S |-> grams[t].items[u]]]
    BY DEF PrunedGram, Restrict
  <2> QED
    BY <2>1, <2>2, <2>3 DEF IsGram, PossibleGram
<1>7. PossibleModel(new)
  <2> HIDE DEF new, N
  <2> QED
    BY <1>2, <1>5, <1>6 DEF PossibleModel
<1> QED
  BY <1>4, <1>7 DEF IInv

\* The text has the header and the items of the model.
LEMMA ExportPossible ==
    ASSUME IInv, NEW file \in File, Export(file)
    PROVE  IInv'
<1> DEFINE model == models[file]
           lines == Exported(model)
<1>1. PossibleModel(model) /\ model.header # NoHeader
  BY DEF Export, IInv
<1>2. /\ model.header.m_N \in Nat
      /\ \A t \in DOMAIN model.grams : PossibleGram(model.header.m_N, model.grams[t])
  BY <1>1 DEF PossibleModel, EmptyModel
<1>3. lines.data = model.header
  BY DEF Exported
<1>4. \A line \in lines.bigrams :
          \E t \in DOMAIN model.grams : \E u \in DOMAIN model.grams[t].items :
              line.item = model.grams[t].items[u]
  BY DEF Exported
<1>5. PossibleLines(lines)
  <2> HIDE DEF model, lines
  <2> QED
    BY <1>2, <1>3, <1>4 DEF PossibleLines, PossibleGram
<1>6. text'.lines = lines /\ UNCHANGED <<models, refused>>
  BY DEF Export
<1> QED
  BY <1>5, <1>6 DEF IInv

\* A model read from such text has the header and items of the text.
LEMMA ImportPossible ==
    ASSUME IInv, NEW file \in File, Import(file)
    PROVE  IInv'
<1> DEFINE lines == text.lines
           new == Imported(lines)
           N == lines.data.m_N
<1>1. N \in Nat /\ \A line \in lines.bigrams : line.item \in Item /\ ItemPossible(N, line.item)
  BY DEF Import, IInv, PossibleLines
<1>2. new.header.m_N = N
  BY DEF Imported
<1>3. ASSUME NEW t \in DOMAIN new.grams
      PROVE  IsGram(new.grams[t]) /\ PossibleGram(N, new.grams[t])
  <2> DEFINE pairs == {line \in lines.bigrams : line.token1 = t}
             items == [u \in {line.token2 : line \in pairs} |->
                          (CHOOSE line \in pairs : line.token2 = u).item]
  <2>1. \E a, b : new.grams[t] = [m_WC |-> a, m_freq |-> b, items |-> items]
    BY <1>3 DEF Imported
  <2>2. ASSUME NEW u \in DOMAIN items
        PROVE  items[u] \in Item /\ ItemPossible(N, items[u])
    <3>1. PICK line \in pairs : line.token2 = u
      BY <2>2
    <3>2. (CHOOSE l \in pairs : l.token2 = u) \in pairs
      BY <3>1
    <3> QED
      BY <1>1, <3>2
  <2> HIDE DEF items, N, new
  <2> QED
    BY <2>1, <2>2 DEF IsGram, PossibleGram
<1>4. PossibleModel(new)
  <2> HIDE DEF new, N
  <2> QED
    BY <1>1, <1>2, <1>3 DEF PossibleModel
<1>5. models' = [models EXCEPT ![file] = new] /\ UNCHANGED <<refused, text>>
  BY DEF Import
<1> HIDE DEF new
<1> QED
  BY <1>4, <1>5 DEF IInv

\* Every tool keeps the counters of all models and of the text possible.
LEMMA StepPossible == IInv /\ [Next]_vars => IInv'
<1> SUFFICES ASSUME IInv, [Next]_vars PROVE IInv'
  OBVIOUS
<1>1. CASE UNCHANGED vars
  BY <1>1 DEF vars, IInv
<1>2. ASSUME NEW file \in File, NEW document \in Document, Train(file, document)
      PROVE  IInv'
  BY <1>2, TrainPossible
<1>3. ASSUME NEW target \in File, NEW new_one \in File, Merge(target, new_one)
      PROVE  IInv'
  BY <1>3, MergePossible
<1>4. ASSUME NEW file \in File, Prune(file)
      PROVE  IInv'
  BY <1>4, PrunePossible
<1>5. ASSUME NEW file \in File, Export(file)
      PROVE  IInv'
  BY <1>5, ExportPossible
<1>6. ASSUME NEW file \in File, Import(file)
      PROVE  IInv'
  BY <1>6, ImportPossible
<1> QED
  BY <1>1, <1>2, <1>3, <1>4, <1>5, <1>6 DEF Next

\* Whatever documents are trained, and however the files are merged, pruned and
\* carried over as text, every item of a model no tool refused counts what some
\* documents can hold: the probabilities of prune_k_mixture_model are shares.
THEOREM ItemsAlwaysPossible == Spec => []ItemsPossible
<1>1. IInv => ItemsPossible
  <2> SUFFICES ASSUME IInv, NEW file \in Good, NEW t \in DOMAIN models[file].grams,
                      NEW u \in DOMAIN models[file].grams[t].items
               PROVE  ItemPossible(models[file].header.m_N, models[file].grams[t].items[u])
    BY DEF ItemsPossible
  <2>1. PossibleModel(models[file]) /\ models[file].header # NoHeader
    BY DEF IInv, Good
  <2> QED
    BY <2>1 DEF PossibleModel, PossibleGram, EmptyModel
<1> QED
  BY <1>1, InitPossible, StepPossible, PTL DEF Spec

-----------------------------------------------------------------------------
(* The sums of a model.  Its pairs are read as a table with a row for each *)
(* first word and a column for each second word, over the words of the     *)
(* model or over more: a pair without an item was counted zero times.      *)

Times(grams, t, u) ==
    IF t \in DOMAIN grams /\ u \in DOMAIN grams[t].items THEN grams[t].items[u].m_WC ELSE 0

\* How often a word is the first of a pair, and how often the second.
AsFirst(grams, T, t) == SumFunctionOnSet([u \in T |-> Times(grams, t, u)], T)
AsSecond(grams, T, u) == SumFunctionOnSet([t \in T |-> Times(grams, t, u)], T)

\* Each word count is that of the pairs of the word, each frequency has that of
\* the pairs with it as second word, and no gram and no item is there for nothing.
SummedGram(grams, t) ==
    /\ IsGram(grams[t])
    /\ grams[t].items = [u \in DOMAIN grams[t].items |-> grams[t].items[u]]
    /\ DOMAIN grams[t].items \subseteq DOMAIN grams
    /\ \A u \in DOMAIN grams[t].items : grams[t].items[u].m_WC \in Nat \ {0}
    /\ grams[t].m_WC \in Nat /\ grams[t].m_freq \in Nat
    /\ grams[t].m_WC = AsFirst(grams, DOMAIN grams, t)
    /\ grams[t].m_freq >= AsSecond(grams, DOMAIN grams, t)
    /\ g_train_pi_gram => grams[t].m_freq = AsSecond(grams, DOMAIN grams, t)

BalancedGram(grams, t) ==
    SummedGram(grams, t) /\ (grams[t].m_WC # 0 \/ grams[t].m_freq # 0)

BalancedGrams(grams) ==
    /\ IsFiniteSet(DOMAIN grams) /\ grams = [t \in DOMAIN grams |-> grams[t]]
    /\ \A t \in DOMAIN grams : BalancedGram(grams, t)

BalancedModel(model) ==
    \/ model = EmptyModel
    \/ /\ model = [header |-> [m_WC |-> WordCounts(model), m_N |-> model.header.m_N,
                               m_total_freq |-> Freqs(model)],
                   grams |-> model.grams]
       /\ model.header.m_N \in Nat \ {0}
       /\ BalancedGrams(model.grams)

\* The text is one of such a model.
Balanced ==
    /\ DOMAIN models = File
    /\ \A file \in File \ refused : BalancedModel(models[file])
    /\ BalancedModel(Imported(text.lines))
    /\ text.lines = Exported(Imported(text.lines))

\* How often a pair was counted is a number.
LEMMA TimesNatural ==
    ASSUME NEW grams, BalancedGrams(grams), NEW t, NEW u
    PROVE  Times(grams, t, u) \in Nat
BY DEF Times, BalancedGrams, BalancedGram, SummedGram

\* The words that are summed over need not be those of the model.
LEMMA SumsOverMore ==
    ASSUME NEW grams, BalancedGrams(grams), NEW T, IsFiniteSet(T), DOMAIN grams \subseteq T,
           NEW t
    PROVE  /\ AsFirst(grams, T, t) \in Nat /\ AsSecond(grams, T, t) \in Nat
           /\ AsFirst(grams, T, t) = AsFirst(grams, DOMAIN grams, t)
           /\ AsSecond(grams, T, t) = AsSecond(grams, DOMAIN grams, t)
<1> DEFINE S == DOMAIN grams
           row(D) == [u \in D |-> Times(grams, t, u)]
           column(D) == [u \in D |-> Times(grams, u, t)]
           wide == row(T)
           narrow == row(S)
           high == column(T)
           low == column(S)
<1>1. \A u \in T : wide[u] \in Nat /\ high[u] \in Nat
  BY TimesNatural
<1>2. \A u \in T \ S : wide[u] = 0 /\ high[u] = 0
  BY DEF Times, BalancedGrams, BalancedGram, SummedGram
<1>3. \A u \in S : wide[u] \in Int /\ wide[u] = narrow[u] /\ high[u] \in Int /\ high[u] = low[u]
  BY TimesNatural
<1>4. S \in SUBSET T /\ IsFiniteSet(S)
  BY FS_Subset
<1>5. /\ AsFirst(grams, T, t) = SumFunctionOnSet(wide, T)
      /\ AsFirst(grams, S, t) = SumFunctionOnSet(narrow, S)
      /\ AsSecond(grams, T, t) = SumFunctionOnSet(high, T)
      /\ AsSecond(grams, S, t) = SumFunctionOnSet(low, S)
  BY DEF AsFirst, AsSecond
<1> HIDE DEF wide, narrow, high, low, S
<1>6. SumFunctionOnSet(wide, T) \in Nat /\ SumFunctionOnSet(high, T) \in Nat
  BY <1>1, SumOfNaturals
<1>7. /\ SumFunctionOnSet(wide, T) = SumFunctionOnSet(wide, S)
      /\ SumFunctionOnSet(high, T) = SumFunctionOnSet(high, S)
  BY <1>1, <1>2, <1>4, SumsExtend
<1>8. /\ SumFunctionOnSet(wide, S) = SumFunctionOnSet(narrow, S)
      /\ SumFunctionOnSet(high, S) = SumFunctionOnSet(low, S)
  BY <1>3, <1>4, SumsOverAgree
<1> QED
  BY <1>5, <1>6, <1>7, <1>8 DEF S

\* What the model says of a word, whether it has a gram for it or not.
LEMMA GetBalanced ==
    ASSUME NEW grams, BalancedGrams(grams), NEW T, IsFiniteSet(T), DOMAIN grams \subseteq T,
           NEW t
    PROVE  LET gram == Get(grams, t, EmptyGram)
           IN  /\ IsGram(gram) /\ gram.m_WC \in Nat /\ gram.m_freq \in Nat
               /\ gram.items = [u \in DOMAIN gram.items |-> gram.items[u]]
               /\ DOMAIN gram.items \subseteq DOMAIN grams
               /\ \A u \in DOMAIN gram.items : gram.items[u].m_WC \in Nat \ {0}
               /\ \A u : Get(gram.items, u, NoItem).m_WC = Times(grams, t, u)
               /\ gram.m_WC = AsFirst(grams, T, t)
               /\ gram.m_freq >= AsSecond(grams, T, t)
<1> DEFINE S == DOMAIN grams
<1>1. /\ AsFirst(grams, T, t) = AsFirst(grams, S, t)
      /\ AsSecond(grams, T, t) = AsSecond(grams, S, t)
  BY SumsOverMore
<1>2. CASE t \in S
  <2>1. Get(grams, t, EmptyGram) = grams[t]
    BY <1>2 DEF Get
  <2>2. \A u : Get(grams[t].items, u, NoItem).m_WC = Times(grams, t, u)
    BY <1>2 DEF Get, Times, NoItem
  <2> QED
    BY <1>1, <1>2, <2>1, <2>2 DEF BalancedGrams, BalancedGram, SummedGram
<1>3. CASE t \notin S
  <2> DEFINE row == [u \in S |-> Times(grams, t, u)]
             column == [u \in S |-> Times(grams, u, t)]
  <2>1. Get(grams, t, EmptyGram) = EmptyGram
    BY <1>3 DEF Get
  <2>2. \A u \in S : row[u] = 0 /\ column[u] = 0
    BY <1>3 DEF Times, BalancedGrams, BalancedGram, SummedGram
  <2>3. AsFirst(grams, S, t) = SumFunctionOnSet(row, S)
        /\ AsSecond(grams, S, t) = SumFunctionOnSet(column, S)
    BY DEF AsFirst, AsSecond
  <2>4. IsFiniteSet(S)
    BY FS_Subset
  <2> HIDE DEF row, column
  <2>5. AsFirst(grams, S, t) = 0 /\ AsSecond(grams, S, t) = 0
    BY <2>2, <2>3, <2>4, SumOverZeros
  <2>6. \A u : Get(<<>>, u, NoItem).m_WC = Times(grams, t, u)
    BY <1>3 DEF Get, Times, NoItem
  <2>7. /\ EmptyGram.items = <<>> /\ EmptyGram.m_WC = 0 /\ EmptyGram.m_freq = 0
        /\ IsGram(EmptyGram)
    BY DEF EmptyGram, IsGram
  <2> QED
    BY <1>1, <2>1, <2>5, <2>6, <2>7
<1> QED
  BY <1>2, <1>3

\* With the start of a sentence trained, the frequency has nothing else.
LEMMA GetSecond ==
    ASSUME g_train_pi_gram,
           NEW grams, BalancedGrams(grams), NEW T, IsFiniteSet(T), DOMAIN grams \subseteq T,
           NEW t
    PROVE  Get(grams, t, EmptyGram).m_freq = AsSecond(grams, T, t)
<1>1. AsSecond(grams, T, t) = AsSecond(grams, DOMAIN grams, t)
  BY SumsOverMore
<1>2. CASE t \in DOMAIN grams
  BY <1>1, <1>2 DEF Get, BalancedGrams, BalancedGram, SummedGram
<1>3. CASE t \notin DOMAIN grams
  <2> DEFINE column == [u \in DOMAIN grams |-> Times(grams, u, t)]
  <2>1. \A u \in DOMAIN grams : column[u] = 0
    BY <1>3 DEF Times, BalancedGrams, BalancedGram, SummedGram
  <2>2. AsSecond(grams, DOMAIN grams, t) = SumFunctionOnSet(column, DOMAIN grams)
    BY DEF AsSecond
  <2> HIDE DEF column
  <2>3. AsSecond(grams, DOMAIN grams, t) = 0
    BY <2>1, <2>2, SumOverZeros DEF BalancedGrams
  <2> QED
    BY <1>1, <1>3, <2>3 DEF Get, EmptyGram
<1> QED
  BY <1>2, <1>3

\* More is counted of some pairs: the table of what is added, by rows and by columns.
IsMore(old, new, T, more, turned) ==
    \A t, u \in T : /\ more[t][u] \in Nat /\ turned[u][t] = more[t][u]
                    /\ Times(old, t, u) \in Nat
                    /\ Times(new, t, u) = Times(old, t, u) + more[t][u]

\* Then both sums of every word grow by as much.
LEMMA SumsGrow ==
    ASSUME NEW old, NEW new, NEW T, IsFiniteSet(T),
           NEW more, NEW turned, IsMore(old, new, T, more, turned), NEW t \in T
    PROVE  /\ AsFirst(new, T, t) = AsFirst(old, T, t) + SumFunctionOnSet(more[t], T)
           /\ AsSecond(new, T, t) = AsSecond(old, T, t) + SumFunctionOnSet(turned[t], T)
           /\ SumFunctionOnSet(more[t], T) \in Nat /\ SumFunctionOnSet(turned[t], T) \in Nat
           /\ AsFirst(new, T, t) \in Nat /\ AsSecond(new, T, t) \in Nat
<1> DEFINE row(grams) == [u \in T |-> Times(grams, t, u)]
           column(grams) == [u \in T |-> Times(grams, u, t)]
           r1 == row(old)
           r2 == row(new)
           c1 == column(old)
           c2 == column(new)
           r == more[t]
           c == turned[t]
<1>1. \A u \in T : /\ r1[u] \in Nat /\ r[u] \in Nat /\ r2[u] = r1[u] + r[u]
                   /\ c1[u] \in Nat /\ c[u] \in Nat /\ c2[u] = c1[u] + c[u]
  BY DEF IsMore
<1>2. /\ AsFirst(old, T, t) = SumFunctionOnSet(r1, T)
      /\ AsFirst(new, T, t) = SumFunctionOnSet(r2, T)
      /\ AsSecond(old, T, t) = SumFunctionOnSet(c1, T)
      /\ AsSecond(new, T, t) = SumFunctionOnSet(c2, T)
  BY DEF AsFirst, AsSecond
<1> HIDE DEF r1, r2, c1, c2, r, c
<1>3. /\ SumFunctionOnSet(r2, T) = SumFunctionOnSet(r1, T) + SumFunctionOnSet(r, T)
      /\ SumFunctionOnSet(c2, T) = SumFunctionOnSet(c1, T) + SumFunctionOnSet(c, T)
  BY <1>1, SumsAdd
<1>4. /\ SumFunctionOnSet(r, T) \in Nat /\ SumFunctionOnSet(r1, T) \in Nat
      /\ SumFunctionOnSet(c, T) \in Nat /\ SumFunctionOnSet(c1, T) \in Nat
  BY <1>1, SumOfNaturals
<1> QED
  BY <1>2, <1>3, <1>4 DEF r, c

\* The word count and the frequency of a model, over its words or over more.
LEMMA TotalsOverMore ==
    ASSUME NEW model, BalancedGrams(model.grams),
           NEW T, IsFiniteSet(T), DOMAIN model.grams \subseteq T
    PROVE  /\ WordCounts(model)
                 = SumFunctionOnSet([t \in T |-> Get(model.grams, t, EmptyGram).m_WC], T)
           /\ Freqs(model)
                 = SumFunctionOnSet([t \in T |-> Get(model.grams, t, EmptyGram).m_freq], T)
           /\ WordCounts(model) \in Nat /\ Freqs(model) \in Nat
<1> DEFINE grams == model.grams
           S == DOMAIN grams
           wide == [t \in T |-> Get(grams, t, EmptyGram).m_WC]
           narrow == [t \in S |-> grams[t].m_WC]
           wider == [t \in T |-> Get(grams, t, EmptyGram).m_freq]
           narrower == [t \in S |-> grams[t].m_freq]
<1>1. \A t \in T : wide[t] \in Nat /\ wider[t] \in Nat
  BY GetBalanced
<1>2. \A t \in T \ S : wide[t] = 0 /\ wider[t] = 0
  BY DEF Get, EmptyGram
<1>3. \A t \in S : /\ wide[t] \in Int /\ narrow[t] = wide[t] /\ narrow[t] \in Nat
                   /\ wider[t] \in Int /\ narrower[t] = wider[t] /\ narrower[t] \in Nat
  <2> TAKE t \in S
  <2>1. Get(grams, t, EmptyGram) = grams[t]
    BY DEF Get
  <2>2. grams[t].m_WC \in Nat /\ grams[t].m_freq \in Nat
    BY DEF BalancedGrams, BalancedGram, SummedGram
  <2> QED
    BY <2>1, <2>2
<1>4. S \in SUBSET T /\ IsFiniteSet(S)
  BY FS_Subset
<1>5. /\ WordCounts(model) = SumFunctionOnSet(narrow, S)
      /\ Freqs(model) = SumFunctionOnSet(narrower, S)
  BY DEF WordCounts, Freqs, SumFunction
<1> HIDE DEF wide, narrow, wider, narrower, S
<1>6. /\ SumFunctionOnSet(wide, T) = SumFunctionOnSet(wide, S)
      /\ SumFunctionOnSet(wider, T) = SumFunctionOnSet(wider, S)
  BY <1>1, <1>2, <1>4, SumsExtend
<1>7. /\ SumFunctionOnSet(wide, S) = SumFunctionOnSet(narrow, S)
      /\ SumFunctionOnSet(wider, S) = SumFunctionOnSet(narrower, S)
  BY <1>3, <1>4, SumsOverAgree
<1>8. SumFunctionOnSet(narrow, S) \in Nat /\ SumFunctionOnSet(narrower, S) \in Nat
  BY <1>3, <1>4, SumOfNaturals
<1> QED
  BY <1>5, <1>6, <1>7, <1>8 DEF wide, wider

\* More is counted of some words.
IsGrown(model, new, T, counts, freqs) ==
    /\ IsFiniteSet(T) /\ DOMAIN model.grams \subseteq T /\ DOMAIN new.grams = T
    /\ \A t \in T : LET gram == Get(model.grams, t, EmptyGram)
                    IN  /\ counts[t] \in Nat /\ new.grams[t].m_WC = gram.m_WC + counts[t]
                        /\ freqs[t] \in Nat /\ new.grams[t].m_freq = gram.m_freq + freqs[t]

\* Then the totals grow by as much.
LEMMA TotalsGrow ==
    ASSUME NEW model, BalancedGrams(model.grams), NEW new, NEW T, NEW counts, NEW freqs,
           IsGrown(model, new, T, counts, freqs)
    PROVE  /\ WordCounts(new) = WordCounts(model) + SumFunctionOnSet(counts, T)
           /\ Freqs(new) = Freqs(model) + SumFunctionOnSet(freqs, T)
<1> DEFINE wc == [t \in T |-> Get(model.grams, t, EmptyGram).m_WC]
           fr == [t \in T |-> Get(model.grams, t, EmptyGram).m_freq]
           newwc == [t \in T |-> new.grams[t].m_WC]
           newfr == [t \in T |-> new.grams[t].m_freq]
<1>0. IsFiniteSet(T) /\ DOMAIN model.grams \subseteq T /\ DOMAIN new.grams = T
  BY DEF IsGrown
<1>1. \A t \in T : /\ wc[t] \in Int /\ counts[t] \in Int /\ newwc[t] = wc[t] + counts[t]
                   /\ fr[t] \in Int /\ freqs[t] \in Int /\ newfr[t] = fr[t] + freqs[t]
  <2> TAKE t \in T
  <2> DEFINE gram == Get(model.grams, t, EmptyGram)
  <2>1. gram.m_WC \in Nat /\ gram.m_freq \in Nat
    BY <1>0, GetBalanced
  <2>2. /\ counts[t] \in Nat /\ new.grams[t].m_WC = gram.m_WC + counts[t]
        /\ freqs[t] \in Nat /\ new.grams[t].m_freq = gram.m_freq + freqs[t]
    BY DEF IsGrown
  <2>3. wc[t] = gram.m_WC /\ fr[t] = gram.m_freq
    OBVIOUS
  <2>4. newwc[t] = new.grams[t].m_WC /\ newfr[t] = new.grams[t].m_freq
    OBVIOUS
  <2> HIDE DEF gram, wc, fr, newwc, newfr
  <2> QED
    BY <2>1, <2>2, <2>3, <2>4
<1>2. /\ WordCounts(model) = SumFunctionOnSet(wc, T) /\ Freqs(model) = SumFunctionOnSet(fr, T)
      /\ WordCounts(new) = SumFunctionOnSet(newwc, T) /\ Freqs(new) = SumFunctionOnSet(newfr, T)
  BY <1>0, TotalsOverMore DEF WordCounts, Freqs, SumFunction
<1> HIDE DEF wc, fr, newwc, newfr
<1>3. /\ SumFunctionOnSet(newwc, T) = SumFunctionOnSet(wc, T) + SumFunctionOnSet(counts, T)
      /\ SumFunctionOnSet(newfr, T) = SumFunctionOnSet(fr, T) + SumFunctionOnSet(freqs, T)
  BY <1>0, <1>1, SumsAdd
<1> QED
  BY <1>2, <1>3

\* What a tool starts from is balanced, and its totals are those of the header.
LEMMA OldBalanced ==
    ASSUME NEW model, BalancedModel(model)
    PROVE  /\ BalancedGrams(model.grams)
           /\ Old(model.header).m_N \in Nat
           /\ Old(model.header).m_WC = WordCounts(model)
           /\ Old(model.header).m_total_freq = Freqs(model)
<1>1. CASE model = EmptyModel
  <2>1. model.grams = <<>> /\ model.header = NoHeader
    BY <1>1 DEF EmptyModel
  <2>2. BalancedGrams(<<>>)
    <3>1. DOMAIN <<>> = {}
      OBVIOUS
    <3>2. <<>> = [t \in {} |-> <<>>[t]]
      OBVIOUS
    <3> QED
      BY <3>1, <3>2, FS_EmptySet DEF BalancedGrams, BalancedGram, SummedGram
  <2>3. WordCounts(model) = 0 /\ Freqs(model) = 0
    BY <2>1, SumOverNone DEF WordCounts, Freqs, SumFunction
  <2> QED
    BY <2>1, <2>2, <2>3 DEF Old
<1>2. CASE model # EmptyModel
  <2>1. /\ BalancedGrams(model.grams) /\ model.header.m_N \in Nat
        /\ model.header.m_WC = WordCounts(model) /\ model.header.m_total_freq = Freqs(model)
    BY <1>2 DEF BalancedModel
  <2>2. model.header # NoHeader
    BY <2>1 DEF NoHeader
  <2> QED
    BY <2>1, <2>2 DEF Old
<1> QED
  BY <1>1, <1>2

-----------------------------------------------------------------------------
(* The words and the pairs of a document. *)

\* A document has finitely many, and what it does not have is not counted.
LEMMA DocumentFinite ==
    ASSUME NEW document \in Document
    PROVE  /\ IsFiniteSet(Words(document)) /\ IsFiniteSet(Pairs(document))
           /\ IsFiniteSet(FirstWords(document))
           /\ IsFiniteSet({document[i] : i \in Words(document)})
           /\ \A t : /\ IsFiniteSet(SecondWords(document, t))
                     /\ WordCount(document, t) \in Nat
                     /\ t \notin {document[i] : i \in Words(document)} =>
                            WordCount(document, t) = 0
                     /\ t \notin FirstWords(document) => SecondWords(document, t) = {}
                     /\ SecondWords(document, t) \subseteq {document[i] : i \in Words(document)}
           /\ \A t, u : /\ PairCount(document, t, u) \in Nat
                        /\ u \in SecondWords(document, t) => PairCount(document, t, u) # 0
                        /\ u \notin SecondWords(document, t) => PairCount(document, t, u) = 0
<1>1. document \in Seq(Nat)
  BY KMixtureModelAssumption
<1>2. Words(document) \subseteq 1 .. Len(document) /\ IsFiniteSet(1 .. Len(document))
  BY <1>1, FS_Interval DEF Words
<1>3. IsFiniteSet(Words(document)) /\ Pairs(document) \subseteq Words(document)
  BY <1>2, FS_Subset DEF Pairs
<1>4. \A S \in SUBSET Words(document) : IsFiniteSet(S) /\ Cardinality(S) \in Nat
  BY <1>3, FS_Subset, FS_CardinalityType
<1>5. /\ IsFiniteSet(FirstWords(document))
      /\ IsFiniteSet({document[i] : i \in Words(document)})
  <2> DEFINE S == Pairs(document)
             last == [i \in S |-> LastToken(document, i)]
             W == Words(document)
             word == [i \in W |-> document[i]]
  <2>1. {LastToken(document, i) : i \in S} = {last[i] : i \in S}
    OBVIOUS
  <2>1a. {document[i] : i \in W} = {word[i] : i \in W}
    OBVIOUS
  <2>2. IsFiniteSet(S) /\ IsFiniteSet(W)
    BY <1>3, <1>4
  <2>2a. last \in [S -> {last[i] : i \in S}] /\ word \in [W -> {word[i] : i \in W}]
    OBVIOUS
  <2> HIDE DEF last, word, S, W
  <2>2b. /\ last \in Surjection(S, {last[i] : i \in S})
         /\ word \in Surjection(W, {word[i] : i \in W})
    BY <2>2a DEF Surjection
  <2>3. IsFiniteSet({last[i] : i \in S}) /\ IsFiniteSet({word[i] : i \in W})
    BY <2>2, <2>2b, FS_Surjection
  <2> QED
    BY <2>1, <2>1a, <2>3 DEF FirstWords, S, W
<1>6. ASSUME NEW t
      PROVE  /\ WordCount(document, t) \in Nat
             /\ t \notin {document[i] : i \in Words(document)} => WordCount(document, t) = 0
             /\ t \notin FirstWords(document) => SecondWords(document, t) = {}
             /\ SecondWords(document, t) \subseteq {document[i] : i \in Words(document)}
  <2> DEFINE S == {i \in Words(document) : document[i] = t}
  <2>1. Cardinality(S) \in Nat
    BY <1>4
  <2>2. t \notin {document[i] : i \in Words(document)} => S = {}
    OBVIOUS
  <2> HIDE DEF S
  <2>3. S = {} => Cardinality(S) = 0
    BY FS_EmptySet
  <2>4. WordCount(document, t) = Cardinality(S)
    BY DEF WordCount, S
  <2>5. t \notin FirstWords(document) => SecondWords(document, t) = {}
    BY DEF FirstWords, SecondWords
  <2>6. SecondWords(document, t) \subseteq {document[i] : i \in Words(document)}
    BY <1>3 DEF SecondWords
  <2> QED
    BY <2>1, <2>2, <2>3, <2>4, <2>5, <2>6
<1>7. ASSUME NEW t, NEW u
      PROVE  /\ PairCount(document, t, u) \in Nat
             /\ u \in SecondWords(document, t) => PairCount(document, t, u) # 0
             /\ u \notin SecondWords(document, t) => PairCount(document, t, u) = 0
  <2> DEFINE S == {i \in Pairs(document) : LastToken(document, i) = t /\ document[i] = u}
  <2>1. Cardinality(S) \in Nat /\ IsFiniteSet(S)
    BY <1>3, <1>4
  <2>2. u \in SecondWords(document, t) <=> S # {}
    BY DEF SecondWords
  <2> HIDE DEF S
  <2>3. S = {} <=> Cardinality(S) = 0
    BY <2>1, FS_EmptySet
  <2>4. PairCount(document, t, u) = Cardinality(S)
    BY DEF PairCount, S
  <2> QED
    BY <2>1, <2>2, <2>3, <2>4
<1>8. \A t : IsFiniteSet(SecondWords(document, t))
  BY <1>5, <1>6, FS_Subset
<1> QED
  BY <1>3, <1>4, <1>5, <1>6, <1>7, <1>8

\* What a gram adds to its word count: something if a pair is kept.
LEMMA DeltaNatural ==
    ASSUME NEW document \in Document, NEW gram, NEW t
    PROVE  /\ Kept(gram, document, t) \subseteq SecondWords(document, t)
           /\ IsFiniteSet(Kept(gram, document, t))
           /\ Delta(gram, document, t) \in Nat
           /\ Delta(gram, document, t) = 0 <=> Kept(gram, document, t) = {}
<1> DEFINE K == Kept(gram, document, t)
           count == [u \in K |-> PairCount(document, t, u)]
<1>1. K \subseteq SecondWords(document, t)
  BY DEF Kept
<1>2. IsFiniteSet(K)
  BY <1>1, DocumentFinite, FS_Subset
<1>3. \A u \in K : count[u] \in Nat /\ count[u] # 0
  BY <1>1, DocumentFinite
<1>4. Delta(gram, document, t) = SumFunctionOnSet(count, K)
  BY DEF Delta, SumFunction
<1> HIDE DEF K, count
<1>5. /\ SumFunctionOnSet(count, K) \in Nat
      /\ SumFunctionOnSet(count, K) = 0 => \A u \in K : count[u] = 0
  BY <1>2, <1>3, SumOfNaturals
<1>6. SumFunctionOnSet(count, K) = 0 <=> K = {}
  BY <1>3, <1>5, SumOverNone
<1> QED
  BY <1>1, <1>2, <1>4, <1>5, <1>6 DEF K

\* The words that are counted once the pairs are trained are at least those of the
\* pairs that were kept, and no others if the start of a sentence has pairs.
LEMMA RemainingCovers ==
    ASSUME NEW document \in Document, NEW grams, NEW u, NEW kept,
           \A t \in FirstWords(document) :
              kept[t] = IF u \in Kept(Get(grams, t, EmptyGram), document, t)
                        THEN PairCount(document, t, u) ELSE 0
    PROVE  /\ Remaining(grams, document, u) \in Nat
           /\ SumFunctionOnSet(kept, FirstWords(document)) \in Nat
           /\ Remaining(grams, document, u) >= SumFunctionOnSet(kept, FirstWords(document))
           /\ g_train_pi_gram =>
                 Remaining(grams, document, u) = SumFunctionOnSet(kept, FirstWords(document))
           /\ u \notin {document[i] : i \in Words(document)} => Remaining(grams, document, u) = 0
<1> DEFINE V == FirstWords(document)
           K(t) == Kept(Get(grams, t, EmptyGram), document, t)
           all == [t \in V |-> PairCount(document, t, u)]
           L == {t \in V : u \in SecondWords(document, t) /\ u \notin K(t)}
           left == [t \in L |-> PairCount(document, t, u)]
           others == [t \in V |-> IF t \in L THEN PairCount(document, t, u) ELSE 0]
           S == {i \in Pairs(document) : document[i] = u}
           W == {i \in Words(document) : document[i] = u}
           last == [i \in S |-> LastToken(document, i)]
<1>1. IsFiniteSet(V) /\ L \in SUBSET V /\ IsFiniteSet(L)
  BY DocumentFinite, FS_Subset
<1>2. Remaining(grams, document, u) = WordCount(document, u) - SumFunctionOnSet(left, L)
  BY DEF Remaining, SumFunction
<1>3. ASSUME NEW t \in V
      PROVE  /\ all[t] \in Nat /\ kept[t] \in Nat /\ others[t] \in Nat
             /\ all[t] = kept[t] + others[t]
             /\ t \notin L => others[t] = 0
             /\ t \in L => others[t] = left[t]
  <2>1. PairCount(document, t, u) \in Nat
    BY DocumentFinite
  <2>2. u \notin SecondWords(document, t) => PairCount(document, t, u) = 0
    BY DocumentFinite
  <2>3. K(t) \subseteq SecondWords(document, t)
    BY DEF Kept
  <2> QED
    BY <2>1, <2>2, <2>3
<1>4. SumFunctionOnSet(all, V) = Cardinality(S)
  <2>1. IsFiniteSet(S)
    BY DocumentFinite, FS_Subset
  <2>2. \A i \in S : last[i] \in V
    BY DEF FirstWords
  <2> DEFINE part == [t \in V |-> {i \in Pairs(document) :
                                     LastToken(document, i) = t /\ document[i] = u}]
  <2>3. \A t \in V : part[t] \subseteq S /\ \A i \in S : i \in part[t] <=> last[i] = t
    OBVIOUS
  <2>4. \A t \in V : all[t] = Cardinality(part[t])
    BY DEF PairCount
  <2> HIDE DEF S, V, last, all, part
  <2> QED
    BY <1>1, <2>1, <2>2, <2>3, <2>4, CountedByValue
<1>5. /\ Cardinality(S) <= WordCount(document, u)
      /\ g_train_pi_gram => Cardinality(S) = WordCount(document, u)
      /\ WordCount(document, u) \in Nat
  <2>1. IsFiniteSet(W) /\ S \subseteq W
    BY DocumentFinite, FS_Subset DEF Pairs
  <2>2. g_train_pi_gram => S = W
    BY DEF Pairs
  <2>3. WordCount(document, u) = Cardinality(W)
    BY DEF WordCount
  <2> HIDE DEF S, W
  <2>4. Cardinality(S) <= Cardinality(W) /\ Cardinality(W) \in Nat
    BY <2>1, FS_Subset, FS_CardinalityType
  <2> QED
    BY <2>2, <2>3, <2>4
<1> HIDE DEF V, L, all, left, others, S
<1>6. SumFunctionOnSet(all, V) = SumFunctionOnSet(kept, V) + SumFunctionOnSet(others, V)
  BY <1>1, <1>3, SumsAdd
<1>7. SumFunctionOnSet(others, V) = SumFunctionOnSet(others, L)
  BY <1>1, <1>3, SumsExtend
<1>8. SumFunctionOnSet(others, L) = SumFunctionOnSet(left, L)
  BY <1>1, <1>3, SumsOverAgree
<1>9. SumFunctionOnSet(kept, V) \in Nat /\ SumFunctionOnSet(others, V) \in Nat
  BY <1>1, <1>3, SumOfNaturals
<1>10. u \notin {document[i] : i \in Words(document)} => WordCount(document, u) = 0
  BY DocumentFinite
<1> QED
  BY <1>2, <1>4, <1>5, <1>6, <1>7, <1>8, <1>9, <1>10 DEF V

-----------------------------------------------------------------------------
(* Every tool keeps the models balanced. *)

\* A gram once a document is trained: also if it has nothing for the word.
LEMMA TrainedGramIs ==
    ASSUME NEW grams, BalancedGrams(grams), NEW document \in Document,
           NEW t \in DOMAIN TrainedGrams(grams, document)
    PROVE  LET gram == Get(grams, t, EmptyGram)
               kept == Kept(gram, document, t)
           IN  TrainedGrams(grams, document)[t]
                 = [m_WC |-> gram.m_WC + Delta(gram, document, t),
                    m_freq |-> gram.m_freq + Remaining(grams, document, t),
                    items |-> [u \in DOMAIN gram.items \cup kept |->
                                  IF u \notin kept THEN gram.items[u]
                                  ELSE Counted(Get(gram.items, u, NoItem),
                                               PairCount(document, t, u))]]
<1> DEFINE gram == Get(grams, t, EmptyGram)
           kept == Kept(gram, document, t)
           items == [u \in DOMAIN gram.items \cup kept |->
                        IF u \notin kept THEN gram.items[u]
                        ELSE Counted(Get(gram.items, u, NoItem), PairCount(document, t, u))]
           delta == Delta(gram, document, t)
           words == {document[i] : i \in Words(document)}
           R == Remaining(grams, document, t)
           trained == t \in FirstWords(document) /\ delta # 0
           counts == t \in words /\ R # 0
           base == IF trained THEN TrainedGram(gram, document, t) ELSE gram
<1>1. TrainedGrams(grams, document)[t] = [base EXCEPT !.m_freq = @ + (IF counts THEN R ELSE 0)]
  BY DEF TrainedGrams
<1>2. PICK a, b, c :
        /\ a \in Nat /\ b \in Nat
        /\ gram = [m_WC |-> a, m_freq |-> b, items |-> c]
        /\ c = [u \in DOMAIN c |-> c[u]]
  <2>1. IsFiniteSet(DOMAIN grams)
    BY DEF BalancedGrams, BalancedGram, SummedGram
  <2>2. /\ IsGram(gram) /\ gram.m_WC \in Nat /\ gram.m_freq \in Nat
        /\ gram.items = [u \in DOMAIN gram.items |-> gram.items[u]]
    BY <2>1, GetBalanced
  <2> HIDE DEF gram
  <2> QED
    BY <2>2 DEF IsGram
<1>3. /\ delta \in Nat /\ (delta = 0 => kept = {})
      /\ t \notin FirstWords(document) => kept = {} /\ delta = 0
  <2>1. t \notin FirstWords(document) => SecondWords(document, t) = {}
    BY DocumentFinite
  <2> HIDE DEF gram
  <2> QED
    BY <2>1, DeltaNatural
<1>4. R \in Nat /\ (~counts => R = 0)
  <2> DEFINE count == [v \in FirstWords(document) |->
                          IF t \in Kept(Get(grams, v, EmptyGram), document, v)
                          THEN PairCount(document, v, t) ELSE 0]
  <2>1. \A v \in FirstWords(document) :
            count[v] = IF t \in Kept(Get(grams, v, EmptyGram), document, v)
                       THEN PairCount(document, v, t) ELSE 0
    OBVIOUS
  <2> HIDE DEF count
  <2> QED
    BY <2>1, RemainingCovers
<1>5. base = [m_WC |-> gram.m_WC + delta, m_freq |-> gram.m_freq, items |-> items]
  <2>1. CASE trained
    <3>1. TrainedGram(gram, document, t)
            = [gram EXCEPT !.m_WC = gram.m_WC + delta, !.items = items]
      BY DEF TrainedGram
    <3> HIDE DEF items, delta, gram
    <3> QED
      BY <1>2, <2>1, <3>1
  <2>2. CASE ~trained
    <3>1. kept = {} /\ delta = 0
      BY <1>3, <2>2
    <3> HIDE DEF kept, delta, gram
    <3>2. items = gram.items
      BY <1>2, <3>1
    <3> HIDE DEF items
    <3> QED
      BY <1>2, <2>2, <3>1, <3>2
  <2> QED
    BY <2>1, <2>2
<1>6. TrainedGrams(grams, document)[t]
        = [m_WC |-> gram.m_WC + delta, m_freq |-> gram.m_freq + R, items |-> items]
  <2> HIDE DEF items, delta, gram, R, counts, base
  <2> QED
    BY <1>1, <1>2, <1>4, <1>5
<1> QED
  BY <1>6

\* The words of the model once a document is trained.
LEMMA TrainedWords ==
    ASSUME NEW grams, BalancedGrams(grams), NEW document \in Document,
           NEW T, T = DOMAIN TrainedGrams(grams, document)
    PROVE  /\ IsFiniteSet(T) /\ DOMAIN grams \subseteq T
           /\ T \subseteq DOMAIN grams \cup FirstWords(document)
                              \cup {document[i] : i \in Words(document)}
           /\ \A t : LET gram == Get(grams, t, EmptyGram)
                     IN  /\ Kept(gram, document, t) \subseteq T
                         /\ Delta(gram, document, t) # 0 => t \in T /\ t \in FirstWords(document)
                         /\ t \notin DOMAIN grams /\ t \in T =>
                               \/ Delta(gram, document, t) # 0
                               \/ Remaining(grams, document, t) # 0
           /\ \A t : /\ Remaining(grams, document, t) \in Nat
                     /\ Remaining(grams, document, t) # 0 =>
                           t \in T /\ t \in {document[i] : i \in Words(document)}
<1> DEFINE gram(t) == Get(grams, t, EmptyGram)
           words == {document[i] : i \in Words(document)}
           V == FirstWords(document)
           trained == {t \in V : Delta(gram(t), document, t) # 0}
           counted == {t \in words : Remaining(grams, document, t) # 0}
<1>1. T = DOMAIN grams \cup trained \cup counted
  BY DEF TrainedGrams
<1>2. IsFiniteSet(T)
  <2>1. IsFiniteSet(DOMAIN grams) /\ IsFiniteSet(V) /\ IsFiniteSet(words)
    BY DocumentFinite DEF BalancedGrams, BalancedGram, SummedGram
  <2>2. IsFiniteSet(trained) /\ IsFiniteSet(counted)
    BY <2>1, FS_Subset
  <2> HIDE DEF trained, counted
  <2> QED
    BY <1>1, <2>1, <2>2, FS_Union
<1>3. ASSUME NEW u
      PROVE  /\ Remaining(grams, document, u) \in Nat
             /\ u \notin words => Remaining(grams, document, u) = 0
             /\ \A t : u \in Kept(gram(t), document, t) => Remaining(grams, document, u) # 0
  <2> DEFINE kept == [t \in V |-> IF u \in Kept(gram(t), document, t)
                                  THEN PairCount(document, t, u) ELSE 0]
             R == Remaining(grams, document, u)
  <2>1. \A t \in V : kept[t] = IF u \in Kept(Get(grams, t, EmptyGram), document, t)
                               THEN PairCount(document, t, u) ELSE 0
    OBVIOUS
  <2>2. ASSUME NEW t, u \in Kept(gram(t), document, t)
        PROVE  t \in V /\ kept[t] # 0
    <3>1. u \in SecondWords(document, t)
      BY <2>2 DEF Kept
    <3>2. t \in V /\ PairCount(document, t, u) # 0
      BY <3>1, DocumentFinite
    <3> QED
      BY <2>2, <3>2
  <2>3. \A t \in V : kept[t] \in Nat
    BY DocumentFinite
  <2>4. IsFiniteSet(V)
    BY DocumentFinite
  <2> HIDE DEF kept, R, V
  <2>5. R \in Nat /\ R >= SumFunctionOnSet(kept, V) /\ (u \notin words => R = 0)
    BY <2>1, RemainingCovers DEF R, V
  <2>6. SumFunctionOnSet(kept, V) \in Nat /\ \A t \in V : kept[t] <= SumFunctionOnSet(kept, V)
    BY <2>3, <2>4, SumOfNaturals
  <2>7. ASSUME NEW t, u \in Kept(gram(t), document, t) PROVE R # 0
    BY <2>2, <2>3, <2>5, <2>6, <2>7
  <2> QED
    BY <2>5, <2>7 DEF R
<1>4. ASSUME NEW t
      PROVE  /\ Kept(gram(t), document, t) \subseteq T
             /\ Delta(gram(t), document, t) # 0 => t \in V /\ t \in T
  <2>1. Kept(gram(t), document, t) \subseteq SecondWords(document, t)
    BY DEF Kept
  <2>2. SecondWords(document, t) \subseteq words /\ (t \notin V => SecondWords(document, t) = {})
    BY DocumentFinite
  <2>3. Kept(gram(t), document, t) \subseteq counted
    BY <1>3, <2>1, <2>2
  <2>4. t \notin V => Delta(gram(t), document, t) = 0
    BY <2>1, <2>2, DeltaNatural
  <2> QED
    BY <1>1, <2>3, <2>4
<1> QED
  BY <1>1, <1>2, <1>3, <1>4

\* What one more document adds to the sums of every word.
LEMMA TrainedSums ==
    ASSUME NEW grams, BalancedGrams(grams), NEW document \in Document,
           NEW new, new = TrainedGrams(grams, document), NEW t \in DOMAIN new
    PROVE  LET T == DOMAIN new
               gram == Get(grams, t, EmptyGram)
           IN  /\ AsFirst(new, T, t) = AsFirst(grams, T, t) + Delta(gram, document, t)
               /\ AsSecond(new, T, t) \in Nat
               /\ AsSecond(new, T, t) <= AsSecond(grams, T, t) + Remaining(grams, document, t)
               /\ g_train_pi_gram =>
                     AsSecond(new, T, t) = AsSecond(grams, T, t) + Remaining(grams, document, t)
<1> DEFINE T == DOMAIN new
           V == FirstWords(document)
           K(v) == Kept(Get(grams, v, EmptyGram), document, v)
           times(v, u) == IF u \in K(v) THEN PairCount(document, v, u) ELSE 0
           more == [v \in T |-> [u \in T |-> times(v, u)]]
           turned == [u \in T |-> [v \in T |-> times(v, u)]]
           row == more[t]
           count == [u \in K(t) |-> PairCount(document, t, u)]
           column == turned[t]
           kept == [v \in V |-> times(v, t)]
           both == {v \in V : v \in T}
<1>1. IsFiniteSet(T) /\ DOMAIN grams \subseteq T
  BY TrainedWords
<1>2. \A v, u : times(v, u) \in Nat
  BY DocumentFinite
<1>3. ASSUME NEW v \in T, NEW u \in T
      PROVE  Times(new, v, u) = Times(grams, v, u) + times(v, u)
  <2> DEFINE gram == Get(grams, v, EmptyGram)
             items == [w \in DOMAIN gram.items \cup K(v) |->
                          IF w \notin K(v) THEN gram.items[w]
                          ELSE Counted(Get(gram.items, w, NoItem), PairCount(document, v, w))]
  <2>0. v \in DOMAIN TrainedGrams(grams, document)
    OBVIOUS
  <2>1. new[v].items = items
    <3>1. new[v] = [m_WC |-> gram.m_WC + Delta(gram, document, v),
                    m_freq |-> gram.m_freq + Remaining(grams, document, v),
                    items |-> items]
      BY <2>0, TrainedGramIs
    <3> HIDE DEF gram, items
    <3> QED
      BY <3>1
  <2>2. Get(gram.items, u, NoItem).m_WC = Times(grams, v, u) /\ Times(grams, v, u) \in Nat
    BY <1>1, GetBalanced, TimesNatural
  <2>3. Times(new, v, u) = IF u \in DOMAIN items THEN items[u].m_WC ELSE 0
    BY <2>1 DEF Times
  <2>4. CASE u \in K(v)
    <3>1. items[u].m_WC = Get(gram.items, u, NoItem).m_WC + PairCount(document, v, u)
      BY <2>4 DEF Counted
    <3> QED
      BY <2>2, <2>3, <2>4, <3>1
  <2>5. CASE u \notin K(v)
    <3>1. Times(new, v, u) = Get(gram.items, u, NoItem).m_WC
      BY <2>3, <2>5 DEF Get, NoItem
    <3> QED
      BY <2>2, <2>5, <3>1
  <2> QED
    BY <2>4, <2>5
<1>4. IsMore(grams, new, T, more, turned)
  BY <1>2, <1>3, TimesNatural DEF IsMore
<1>5. /\ AsFirst(new, T, t) = AsFirst(grams, T, t) + SumFunctionOnSet(row, T)
      /\ AsSecond(new, T, t) = AsSecond(grams, T, t) + SumFunctionOnSet(column, T)
      /\ SumFunctionOnSet(column, T) \in Nat /\ AsSecond(new, T, t) \in Nat
  <2>1. t \in T
    OBVIOUS
  <2> HIDE DEF more, turned, T
  <2> QED
    BY <1>1, <1>4, <2>1, SumsGrow
<1>6. SumFunctionOnSet(row, T) = Delta(Get(grams, t, EmptyGram), document, t)
  <2>1. K(t) \in SUBSET T
    BY TrainedWords
  <2>2. \A u \in T : row[u] \in Int /\ (u \notin K(t) => row[u] = 0)
    BY <1>2
  <2>3. \A u \in K(t) : row[u] \in Int /\ row[u] = count[u]
    BY <1>2, <2>1
  <2>4. Delta(Get(grams, t, EmptyGram), document, t) = SumFunctionOnSet(count, K(t))
    BY DEF Delta, SumFunction
  <2>5. IsFiniteSet(K(t))
    BY <1>1, <2>1, FS_Subset
  <2> HIDE DEF row, count, K, T
  <2>6. SumFunctionOnSet(row, T) = SumFunctionOnSet(row, K(t))
    BY <1>1, <2>1, <2>2, SumsExtend
  <2>7. SumFunctionOnSet(row, K(t)) = SumFunctionOnSet(count, K(t))
    BY <2>3, <2>5, SumsOverAgree
  <2> QED
    BY <2>4, <2>6, <2>7
<1>7. SumFunctionOnSet(column, T) = SumFunctionOnSet(kept, V)
  <2>1. IsFiniteSet(V) /\ IsFiniteSet(both) /\ both \in SUBSET T /\ both \in SUBSET V
    BY DocumentFinite, FS_Subset
  <2>2. ASSUME NEW v, times(v, t) # 0 PROVE v \in both
    <3>1. t \in K(v)
      BY <2>2
    <3>2. Delta(Get(grams, v, EmptyGram), document, v) # 0
      BY <3>1, DeltaNatural
    <3> QED
      BY <3>2, TrainedWords
  <2>3. \A v \in T : column[v] \in Int /\ (v \notin both => column[v] = 0)
    BY <1>2, <2>2
  <2>4. \A v \in V : kept[v] \in Int /\ (v \notin both => kept[v] = 0)
    BY <1>2, <2>2
  <2>5. \A v \in both : column[v] \in Int /\ column[v] = kept[v]
    BY <2>3
  <2> HIDE DEF column, kept, both, T, V
  <2>6. /\ SumFunctionOnSet(column, T) = SumFunctionOnSet(column, both)
        /\ SumFunctionOnSet(kept, V) = SumFunctionOnSet(kept, both)
    BY <1>1, <2>1, <2>3, <2>4, SumsExtend
  <2>7. SumFunctionOnSet(column, both) = SumFunctionOnSet(kept, both)
    BY <2>1, <2>5, SumsOverAgree
  <2> QED
    BY <2>6, <2>7
<1>8. /\ Remaining(grams, document, t) \in Nat
      /\ Remaining(grams, document, t) >= SumFunctionOnSet(kept, V)
      /\ g_train_pi_gram => Remaining(grams, document, t) = SumFunctionOnSet(kept, V)
  <2>1. \A v \in V : kept[v] = IF t \in Kept(Get(grams, v, EmptyGram), document, v)
                               THEN PairCount(document, v, t) ELSE 0
    OBVIOUS
  <2> HIDE DEF kept
  <2> QED
    BY <2>1, RemainingCovers
<1>9. AsSecond(grams, T, t) \in Nat
  BY <1>1, SumsOverMore
<1> QED
  BY <1>5, <1>6, <1>7, <1>8, <1>9

\* Training a document keeps the grams balanced.
LEMMA TrainedBalanced ==
    ASSUME NEW grams, BalancedGrams(grams), NEW document \in Document
    PROVE  BalancedGrams(TrainedGrams(grams, document))
<1> DEFINE new == TrainedGrams(grams, document)
           T == DOMAIN new
<1>1. IsFiniteSet(T) /\ DOMAIN grams \subseteq T
  BY TrainedWords
<1>2. new = [t \in T |-> new[t]]
  BY DEF TrainedGrams
<1>3. ASSUME NEW t \in T
      PROVE  BalancedGram(new, t)
  <2> DEFINE gram == Get(grams, t, EmptyGram)
             K == Kept(gram, document, t)
             delta == Delta(gram, document, t)
             R == Remaining(grams, document, t)
             items == [u \in DOMAIN gram.items \cup K |->
                          IF u \notin K THEN gram.items[u]
                          ELSE Counted(Get(gram.items, u, NoItem), PairCount(document, t, u))]
  <2>1. new[t] = [m_WC |-> gram.m_WC + delta, m_freq |-> gram.m_freq + R, items |-> items]
    BY TrainedGramIs
  <2>2. /\ gram.m_WC \in Nat /\ gram.m_freq \in Nat
        /\ DOMAIN gram.items \subseteq DOMAIN grams
        /\ \A u \in DOMAIN gram.items : gram.items[u].m_WC \in Nat \ {0}
        /\ gram.m_WC = AsFirst(grams, T, t)
        /\ gram.m_freq >= AsSecond(grams, T, t)
        /\ g_train_pi_gram => gram.m_freq = AsSecond(grams, T, t)
    <3>1. IsFiniteSet(T) /\ DOMAIN grams \subseteq T
      BY <1>1
    <3> HIDE DEF T
    <3>2. gram.m_WC \in Nat /\ gram.m_freq \in Nat /\ gram.m_WC = AsFirst(grams, T, t)
      BY <3>1, GetBalanced
    <3>2a. gram.m_freq >= AsSecond(grams, T, t)
      BY <3>1, GetBalanced
    <3>2b. ASSUME g_train_pi_gram PROVE gram.m_freq = AsSecond(grams, T, t)
      BY <3>1, <3>2b, GetSecond
    <3>3. /\ DOMAIN gram.items \subseteq DOMAIN grams
          /\ \A u \in DOMAIN gram.items : gram.items[u].m_WC \in Nat \ {0}
      BY <3>1, GetBalanced
    <3> QED
      BY <3>2, <3>2a, <3>2b, <3>3
  <2>2a. gram.m_WC \in Nat /\ gram.m_freq \in Nat
    BY <2>2
  <2>3. delta \in Nat /\ R \in Nat
    BY DeltaNatural, TrainedWords
  <2>3a. K \subseteq T
    BY TrainedWords
  <2>4. ASSUME NEW u \in DOMAIN items PROVE items[u].m_WC \in Nat \ {0}
    <3>1. CASE u \in K
      <4>1. PairCount(document, t, u) \in Nat \ {0}
        BY <3>1, DocumentFinite DEF Kept
      <4>2. Get(gram.items, u, NoItem).m_WC \in Nat
        BY <2>2 DEF Get, NoItem
      <4>3. items[u].m_WC = Get(gram.items, u, NoItem).m_WC + PairCount(document, t, u)
        BY <3>1 DEF Counted
      <4> QED
        BY <4>1, <4>2, <4>3
    <3>2. CASE u \notin K
      BY <2>2, <3>2
    <3> QED
      BY <3>1, <3>2
  <2>5. /\ items = [u \in DOMAIN items |-> items[u]]
        /\ DOMAIN items \subseteq T
    BY <1>1, <2>2, <2>3a
  <2>6. gram.m_WC + delta # 0 \/ gram.m_freq + R # 0
    <3>1. CASE t \in DOMAIN grams
      <4>1. gram.m_WC # 0 \/ gram.m_freq # 0
        BY <3>1 DEF Get, BalancedGrams, BalancedGram, SummedGram
      <4> HIDE DEF gram, delta, R
      <4>2. gram.m_WC # 0 => gram.m_WC + delta # 0
        BY <2>2a, <2>3
      <4>3. gram.m_freq # 0 => gram.m_freq + R # 0
        BY <2>2a, <2>3
      <4> QED
        BY <4>1, <4>2, <4>3
    <3>2. CASE t \notin DOMAIN grams
      <4>1. delta # 0 \/ R # 0
        BY <3>2, TrainedWords
      <4> HIDE DEF gram, delta, R
      <4> QED
        BY <2>2a, <2>3, <4>1
    <3> QED
      BY <3>1, <3>2
  <2>7. /\ AsFirst(new, T, t) = AsFirst(grams, T, t) + delta
        /\ AsSecond(new, T, t) \in Nat
        /\ AsSecond(new, T, t) <= AsSecond(grams, T, t) + R
        /\ g_train_pi_gram => AsSecond(new, T, t) = AsSecond(grams, T, t) + R
    BY TrainedSums
  <2>8. AsSecond(grams, T, t) \in Nat
    BY <1>1, SumsOverMore
  <2> HIDE DEF gram, K, delta, R, items, new, T
  <2>9. IsGram(new[t])
    BY <2>1 DEF IsGram
  <2>10. /\ new[t].m_WC = gram.m_WC + delta
         /\ new[t].m_freq = gram.m_freq + R
         /\ new[t].items = items
    BY <2>1
  <2>11. /\ new[t].m_WC \in Nat /\ new[t].m_freq \in Nat
         /\ new[t].m_WC # 0 \/ new[t].m_freq # 0
         /\ new[t].m_WC = AsFirst(new, T, t)
         /\ new[t].m_freq >= AsSecond(new, T, t)
         /\ g_train_pi_gram => new[t].m_freq = AsSecond(new, T, t)
    BY <2>2, <2>3, <2>6, <2>7, <2>8, <2>10
  <2> QED
    BY <2>4, <2>5, <2>9, <2>10, <2>11 DEF BalancedGram, SummedGram, T
<1>4. BalancedGrams(new)
  <2> HIDE DEF new
  <2> QED
    BY <1>1, <1>2, <1>3 DEF BalancedGrams
<1> QED
  BY <1>4

\* Merging two balanced models adds the gram of the one to the gram of the other.
LEMMA MergedBalanced ==
    ASSUME NEW first, BalancedGrams(first), NEW second, BalancedGrams(second),
           NEW T, T = DOMAIN first \cup DOMAIN second,
           NEW new, new = [t \in T |-> MergedGram(Get(first, t, EmptyGram),
                                                  Get(second, t, EmptyGram))]
    PROVE  BalancedGrams(new) /\ IsFiniteSet(T)
<1> DEFINE more == [t \in T |-> [u \in T |-> Times(second, t, u)]]
           turned == [u \in T |-> [t \in T |-> Times(second, t, u)]]
<1>1. IsFiniteSet(T) /\ DOMAIN first \subseteq T /\ DOMAIN second \subseteq T
  BY FS_Union DEF BalancedGrams
<1>2. new = [t \in T |-> new[t]] /\ DOMAIN new = T
  OBVIOUS
<1>3. ASSUME NEW t \in T
      PROVE  LET g1 == Get(first, t, EmptyGram)
                 g2 == Get(second, t, EmptyGram)
             IN  /\ new[t] = [m_WC |-> g1.m_WC + g2.m_WC, m_freq |-> g1.m_freq + g2.m_freq,
                              items |-> new[t].items]
                 /\ new[t].items = [u \in DOMAIN g1.items \cup DOMAIN g2.items |->
                                       Added(Get(g1.items, u, NoItem), Get(g2.items, u, NoItem))]
  BY DEF MergedGram
<1>4. ASSUME NEW t \in T, NEW u \in T
      PROVE  /\ Times(first, t, u) \in Nat /\ Times(second, t, u) \in Nat
             /\ Times(new, t, u) = Times(first, t, u) + Times(second, t, u)
             /\ u \in DOMAIN new[t].items => new[t].items[u].m_WC \in Nat \ {0}
  <2> DEFINE g1 == Get(first, t, EmptyGram)
             g2 == Get(second, t, EmptyGram)
             i1 == Get(g1.items, u, NoItem)
             i2 == Get(g2.items, u, NoItem)
             items == new[t].items
  <2>1. /\ i1.m_WC = Times(first, t, u) /\ Times(first, t, u) \in Nat
        /\ i2.m_WC = Times(second, t, u) /\ Times(second, t, u) \in Nat
    BY <1>1, GetBalanced, TimesNatural
  <2>2. Times(new, t, u) = IF u \in DOMAIN items THEN items[u].m_WC ELSE 0
    BY <1>2 DEF Times
  <2>3. /\ DOMAIN items = DOMAIN g1.items \cup DOMAIN g2.items
        /\ u \in DOMAIN items => items[u] = Added(i1, i2)
    <3>1. items = [v \in DOMAIN g1.items \cup DOMAIN g2.items |->
                      Added(Get(g1.items, v, NoItem), Get(g2.items, v, NoItem))]
      BY <1>3
    <3> HIDE DEF items, g1, g2
    <3> QED
      BY <3>1
  <2>4. /\ \A v \in DOMAIN g1.items : g1.items[v].m_WC \in Nat \ {0}
        /\ \A v \in DOMAIN g2.items : g2.items[v].m_WC \in Nat \ {0}
    BY <1>1, GetBalanced
  <2>5. /\ u \in DOMAIN g1.items => i1.m_WC # 0
        /\ u \in DOMAIN g2.items => i2.m_WC # 0
        /\ u \notin DOMAIN g1.items => i1.m_WC = 0
        /\ u \notin DOMAIN g2.items => i2.m_WC = 0
    BY <2>4 DEF Get, NoItem
  <2>6. u \in DOMAIN items => items[u].m_WC = i1.m_WC + i2.m_WC
    BY <2>3 DEF Added
  <2> HIDE DEF g1, g2, i1, i2, items
  <2>7. u \in DOMAIN items => i1.m_WC + i2.m_WC \in Nat \ {0}
    BY <2>1, <2>3, <2>5
  <2>8. Times(new, t, u) = Times(first, t, u) + Times(second, t, u)
    BY <2>1, <2>2, <2>3, <2>5, <2>6
  <2> QED
    BY <2>1, <2>6, <2>7, <2>8 DEF items
<1>5. IsMore(first, new, T, more, turned)
  BY <1>4 DEF IsMore
<1>6. ASSUME NEW t \in T PROVE BalancedGram(new, t)
  <2> DEFINE g1 == Get(first, t, EmptyGram)
             g2 == Get(second, t, EmptyGram)
  <2>1. /\ g1.m_WC \in Nat /\ g1.m_freq \in Nat /\ g1.m_WC = AsFirst(first, T, t)
        /\ g1.m_freq >= AsSecond(first, T, t)
    BY <1>1, GetBalanced
  <2>2. /\ g2.m_WC \in Nat /\ g2.m_freq \in Nat /\ g2.m_WC = AsFirst(second, T, t)
        /\ g2.m_freq >= AsSecond(second, T, t)
    BY <1>1, GetBalanced
  <2>3. ASSUME g_train_pi_gram
        PROVE  g1.m_freq = AsSecond(first, T, t) /\ g2.m_freq = AsSecond(second, T, t)
    BY <1>1, <2>3, GetSecond
  <2>4. DOMAIN g1.items \subseteq DOMAIN first /\ DOMAIN g2.items \subseteq DOMAIN second
    BY <1>1, GetBalanced
  <2>5. /\ SumFunctionOnSet(more[t], T) = AsFirst(second, T, t)
        /\ SumFunctionOnSet(turned[t], T) = AsSecond(second, T, t)
    BY DEF AsFirst, AsSecond
  <2>6. /\ AsFirst(first, T, t) \in Nat /\ AsSecond(first, T, t) \in Nat
        /\ AsFirst(second, T, t) \in Nat /\ AsSecond(second, T, t) \in Nat
    BY <1>1, SumsOverMore
  <2> HIDE DEF more, turned
  <2>7. /\ AsFirst(new, T, t) = AsFirst(first, T, t) + SumFunctionOnSet(more[t], T)
        /\ AsSecond(new, T, t) = AsSecond(first, T, t) + SumFunctionOnSet(turned[t], T)
    BY <1>1, <1>5, SumsGrow
  <2>8. g1.m_WC # 0 \/ g2.m_WC # 0 \/ g1.m_freq # 0 \/ g2.m_freq # 0
    <3>1. t \in DOMAIN first \/ t \in DOMAIN second
      OBVIOUS
    <3>2. t \in DOMAIN first => g1.m_WC # 0 \/ g1.m_freq # 0
      BY DEF Get, BalancedGrams, BalancedGram, SummedGram
    <3>3. t \in DOMAIN second => g2.m_WC # 0 \/ g2.m_freq # 0
      BY DEF Get, BalancedGrams, BalancedGram, SummedGram
    <3> QED
      BY <3>1, <3>2, <3>3
  <2>9. /\ new[t] = [m_WC |-> g1.m_WC + g2.m_WC, m_freq |-> g1.m_freq + g2.m_freq,
                     items |-> new[t].items]
        /\ new[t].items = [u \in DOMAIN new[t].items |-> new[t].items[u]]
        /\ DOMAIN new[t].items = DOMAIN g1.items \cup DOMAIN g2.items
    BY <1>3
  <2> HIDE DEF g1, g2
  <2>10. /\ new[t].m_WC = g1.m_WC + g2.m_WC /\ new[t].m_freq = g1.m_freq + g2.m_freq
         /\ IsGram(new[t])
    BY <2>9 DEF IsGram
  <2>11. /\ new[t].m_WC \in Nat /\ new[t].m_freq \in Nat
         /\ new[t].m_WC = AsFirst(new, T, t)
         /\ new[t].m_freq >= AsSecond(new, T, t)
    BY <2>1, <2>2, <2>5, <2>6, <2>7, <2>10
  <2>12. ASSUME g_train_pi_gram PROVE new[t].m_freq = AsSecond(new, T, t)
    BY <2>3, <2>5, <2>7, <2>10, <2>12
  <2>13. new[t].m_WC # 0 \/ new[t].m_freq # 0
    <3>1. g1.m_WC # 0 \/ g2.m_WC # 0 => new[t].m_WC # 0
      BY <2>1, <2>2, <2>10
    <3>2. g1.m_freq # 0 \/ g2.m_freq # 0 => new[t].m_freq # 0
      BY <2>1, <2>2, <2>10
    <3> QED
      BY <2>8, <3>1, <3>2
  <2>14. DOMAIN new[t].items \subseteq T
    BY <1>1, <2>4, <2>9
  <2>15. \A u \in DOMAIN new[t].items : new[t].items[u].m_WC \in Nat \ {0}
    BY <1>4, <2>14
  <2> QED
    BY <1>2, <2>9, <2>10, <2>11, <2>12, <2>13, <2>14, <2>15 DEF BalancedGram, SummedGram
<1> QED
  BY <1>1, <1>2, <1>6 DEF BalancedGrams

\* Grams with neither a pair nor a word can go.
LEMMA RestrictedBalanced ==
    ASSUME NEW grams, NEW D, D = DOMAIN grams, IsFiniteSet(D), \A t \in D : SummedGram(grams, t),
           NEW left, left = {t \in D : grams[t].m_WC # 0 \/ grams[t].m_freq # 0},
           NEW new, new = Restrict(grams, left)
    PROVE  BalancedGrams(new)
<1>1. left \in SUBSET D /\ IsFiniteSet(left)
  BY FS_Subset
<1>2. /\ DOMAIN new = left /\ new = [t \in left |-> new[t]]
      /\ \A t \in left : new[t] = grams[t]
  BY DEF Restrict
<1>3. \A t, u : Times(grams, t, u) \in Nat
  BY DEF Times, SummedGram
<1>4. ASSUME NEW t \in D, NEW u \in D, t \notin left
      PROVE  Times(grams, t, u) = 0 /\ Times(grams, u, t) = 0
  <2> DEFINE row == [v \in D |-> Times(grams, t, v)]
             column == [v \in D |-> Times(grams, v, t)]
  <2>1. \A v \in D : row[v] \in Nat /\ column[v] \in Nat
    BY <1>3
  <2>2. AsFirst(grams, D, t) = SumFunctionOnSet(row, D)
        /\ AsSecond(grams, D, t) = SumFunctionOnSet(column, D)
    BY DEF AsFirst, AsSecond
  <2>3. row[u] = Times(grams, t, u) /\ column[u] = Times(grams, u, t)
    OBVIOUS
  <2>4. SummedGram(grams, t) /\ grams[t].m_WC = 0 /\ grams[t].m_freq = 0
    BY <1>4
  <2> HIDE DEF row, column
  <2>5. /\ SumFunctionOnSet(row, D) \in Nat
        /\ SumFunctionOnSet(row, D) = 0 => row[u] = 0
        /\ SumFunctionOnSet(column, D) \in Nat
        /\ SumFunctionOnSet(column, D) = 0 => column[u] = 0
    BY <2>1, SumOfNaturals
  <2>6. AsFirst(grams, D, t) = 0 /\ AsSecond(grams, D, t) <= 0
    BY <2>4 DEF SummedGram
  <2> QED
    BY <2>2, <2>3, <2>5, <2>6
<1>5. ASSUME NEW t \in left PROVE BalancedGram(new, t)
  <2> DEFINE row(S) == [v \in S |-> Times(grams, t, v)]
             column(S) == [v \in S |-> Times(grams, v, t)]
             newrow == [v \in left |-> Times(new, t, v)]
             newcolumn == [v \in left |-> Times(new, v, t)]
             r == row(D)
             c == column(D)
  <2>1. /\ AsFirst(grams, D, t) = SumFunctionOnSet(r, D)
        /\ AsSecond(grams, D, t) = SumFunctionOnSet(c, D)
        /\ AsFirst(new, left, t) = SumFunctionOnSet(newrow, left)
        /\ AsSecond(new, left, t) = SumFunctionOnSet(newcolumn, left)
    BY DEF AsFirst, AsSecond
  <2>2. \A v \in D : r[v] \in Int /\ c[v] \in Int /\ (v \notin left => r[v] = 0 /\ c[v] = 0)
    BY <1>1, <1>3, <1>4
  <2>3. \A v \in left : Times(new, t, v) = Times(grams, t, v) /\ Times(new, v, t) = Times(grams, v, t)
    BY <1>1, <1>2 DEF Times
  <2>4. \A v \in left : r[v] = newrow[v] /\ c[v] = newcolumn[v] /\ r[v] \in Int /\ c[v] \in Int
    BY <1>1, <2>2, <2>3
  <2> HIDE DEF r, c, newrow, newcolumn
  <2>5. /\ SumFunctionOnSet(r, D) = SumFunctionOnSet(r, left)
        /\ SumFunctionOnSet(c, D) = SumFunctionOnSet(c, left)
    BY <1>1, <2>2, SumsExtend
  <2>6. /\ SumFunctionOnSet(r, left) = SumFunctionOnSet(newrow, left)
        /\ SumFunctionOnSet(c, left) = SumFunctionOnSet(newcolumn, left)
    BY <1>1, <2>4, SumsOverAgree
  <2>7. AsFirst(new, left, t) = AsFirst(grams, D, t) /\ AsSecond(new, left, t) = AsSecond(grams, D, t)
    BY <2>1, <2>5, <2>6
  <2>8. SummedGram(grams, t) /\ new[t] = grams[t] /\ (grams[t].m_WC # 0 \/ grams[t].m_freq # 0)
    BY <1>2
  <2>9. DOMAIN grams[t].items \subseteq left
    <3> SUFFICES ASSUME NEW u \in DOMAIN grams[t].items, u \notin left PROVE FALSE
      OBVIOUS
    <3>1. u \in D /\ grams[t].items[u].m_WC # 0
      BY <2>8 DEF SummedGram
    <3>2. Times(grams, t, u) = grams[t].items[u].m_WC
      BY <1>1 DEF Times
    <3>3. Times(grams, t, u) = 0
      BY <1>1, <1>4, <3>1
    <3> QED
      BY <3>1, <3>2, <3>3
  <2> QED
    BY <1>2, <2>7, <2>8, <2>9 DEF SummedGram, BalancedGram
<1> QED
  BY <1>1, <1>2, <1>5 DEF BalancedGrams

\* Items are removed of each gram, and nothing else.
IsPruned(grams, removed, pruned) ==
    /\ DOMAIN pruned = DOMAIN grams
    /\ \A t \in DOMAIN grams : /\ removed[t] \subseteq DOMAIN grams[t].items
                              /\ pruned[t] = PrunedGram(grams, removed, t)

\* What pruning takes from the pairs of each first word it takes from the words
\* that are second in them: the headers lose the same count twice.
AllRemoved(grams, removed) ==
    SumFunction([t \in DOMAIN grams |-> RemovedCount(grams[t], removed[t])])

LEMMA PrunedSummed ==
    ASSUME NEW grams, BalancedGrams(grams), NEW D, D = DOMAIN grams,
           NEW removed, NEW pruned, IsPruned(grams, removed, pruned)
    PROVE  /\ \A t \in D : SummedGram(pruned, t)
           /\ \A old, new : old.grams = grams /\ new.grams = pruned =>
                 /\ WordCounts(new) = WordCounts(old) - AllRemoved(grams, removed)
                 /\ Freqs(new) = Freqs(old) - AllRemoved(grams, removed)
<1> DEFINE times(t, u) == IF u \in removed[t] THEN Times(grams, t, u) ELSE 0
           gone == [t \in D |-> [u \in D |-> times(t, u)]]
           turned == [u \in D |-> [t \in D |-> times(t, u)]]
           rows == [t \in D |-> RemovedCount(grams[t], removed[t])]
           from(t) == {t2 \in D : t \in removed[t2]}
           lost(t) == SumFunction([t1 \in from(t) |-> grams[t1].items[t].m_WC])
           columns == [t \in D |-> lost(t)]
<1>0. /\ DOMAIN pruned = D
      /\ \A t \in D : /\ removed[t] \subseteq DOMAIN grams[t].items
                       /\ pruned[t] = PrunedGram(grams, removed, t)
  BY DEF IsPruned
<1>1. IsFiniteSet(D) /\ \A t \in D : SummedGram(grams, t)
  BY DEF BalancedGrams, BalancedGram
<1>2. \A t \in D : DOMAIN grams[t].items \subseteq D /\ removed[t] \subseteq D
  BY <1>0, <1>1 DEF SummedGram
<1>3. \A t, u : Times(grams, t, u) \in Nat /\ times(t, u) \in Nat
  BY TimesNatural
<1>4. ASSUME NEW t \in D
      PROVE  pruned[t] = [m_WC |-> grams[t].m_WC - rows[t], m_freq |-> grams[t].m_freq - columns[t],
                          items |-> [u \in DOMAIN grams[t].items \ removed[t] |->
                                        grams[t].items[u]]]
  <2>1. Restrict(grams[t].items, DOMAIN grams[t].items \ removed[t])
          = [u \in DOMAIN grams[t].items \ removed[t] |-> grams[t].items[u]]
    BY DEF Restrict
  <2>2. pruned[t] = PrunedGram(grams, removed, t) /\ rows[t] = RemovedCount(grams[t], removed[t])
        /\ columns[t] = lost(t)
    BY <1>0
  <2> HIDE DEF rows, columns
  <2> QED
    BY <2>1, <2>2 DEF PrunedGram
<1> HIDE DEF rows, columns
<1>4a. ASSUME NEW t \in D
       PROVE  /\ pruned[t].m_WC = grams[t].m_WC - rows[t]
              /\ pruned[t].m_freq = grams[t].m_freq - columns[t]
              /\ pruned[t].items = [u \in DOMAIN grams[t].items \ removed[t] |->
                                       grams[t].items[u]]
              /\ IsGram(pruned[t])
  <2> DEFINE a == grams[t].m_WC - rows[t]
             b == grams[t].m_freq - columns[t]
             c == [u \in DOMAIN grams[t].items \ removed[t] |-> grams[t].items[u]]
  <2>1. pruned[t] = [m_WC |-> a, m_freq |-> b, items |-> c]
    BY <1>4
  <2> HIDE DEF a, b, c
  <2>2. pruned[t].m_WC = a /\ pruned[t].m_freq = b /\ pruned[t].items = c /\ IsGram(pruned[t])
    BY <2>1 DEF IsGram
  <2> QED
    BY <2>2 DEF a, b, c
<1>5. ASSUME NEW t \in D, NEW u \in D
      PROVE  /\ Times(pruned, t, u) \in Nat
             /\ Times(grams, t, u) = Times(pruned, t, u) + times(t, u)
  <2>1. pruned[t].items = [v \in DOMAIN grams[t].items \ removed[t] |-> grams[t].items[v]]
    BY <1>4a
  <2>2. Times(pruned, t, u) = IF u \in removed[t] THEN 0 ELSE Times(grams, t, u)
    BY <1>0, <2>1 DEF Times
  <2> QED
    BY <1>3, <2>2
<1>6. IsMore(pruned, grams, D, gone, turned)
  BY <1>3, <1>5 DEF IsMore
<1>7. ASSUME NEW t \in D
      PROVE  rows[t] = SumFunctionOnSet(gone[t], D) /\ columns[t] = SumFunctionOnSet(turned[t], D)
  <2> DEFINE row == gone[t]
             column == turned[t]
             count == [u \in removed[t] |-> grams[t].items[u].m_WC]
             counts == [t1 \in from(t) |-> grams[t1].items[t].m_WC]
             R == removed[t]
             C == from(t)
  <2>1. /\ R \in SUBSET D /\ IsFiniteSet(R)
        /\ C \in SUBSET D /\ IsFiniteSet(C)
    BY <1>1, <1>2, FS_Subset
  <2>2. rows[t] = SumFunctionOnSet(count, R) /\ columns[t] = SumFunctionOnSet(counts, C)
    BY DEF RemovedCount, SumFunction, rows, columns
  <2>3. \A u \in D : /\ row[u] \in Int /\ (u \notin R => row[u] = 0)
                     /\ column[u] \in Int /\ (u \notin C => column[u] = 0)
    BY <1>3
  <2>4. \A u \in R : row[u] = count[u] /\ row[u] \in Int
    BY <1>0, <1>3, <2>1 DEF Times
  <2>5. \A u \in C : column[u] = counts[u] /\ column[u] \in Int
    BY <1>0, <1>3, <2>1 DEF Times
  <2> HIDE DEF row, column, count, counts, R, C
  <2>6. /\ SumFunctionOnSet(row, D) = SumFunctionOnSet(row, R)
        /\ SumFunctionOnSet(column, D) = SumFunctionOnSet(column, C)
    BY <1>1, <2>1, <2>3, SumsExtend
  <2>7. /\ SumFunctionOnSet(row, R) = SumFunctionOnSet(count, R)
        /\ SumFunctionOnSet(column, C) = SumFunctionOnSet(counts, C)
    BY <2>1, <2>4, <2>5, SumsOverAgree
  <2>8. rows[t] = SumFunctionOnSet(row, D) /\ columns[t] = SumFunctionOnSet(column, D)
    BY <2>2, <2>6, <2>7
  <2> QED
    BY <2>8 DEF row, column
<1>8. ASSUME NEW t \in D
      PROVE  /\ rows[t] \in Nat /\ columns[t] \in Nat
             /\ AsFirst(pruned, D, t) \in Nat /\ AsSecond(pruned, D, t) \in Nat
             /\ AsFirst(grams, D, t) = AsFirst(pruned, D, t) + rows[t]
             /\ AsSecond(grams, D, t) = AsSecond(pruned, D, t) + columns[t]
  <2> DEFINE row == [u \in D |-> Times(pruned, t, u)]
             column == [u \in D |-> Times(pruned, u, t)]
  <2>1. \A u \in D : row[u] \in Nat /\ column[u] \in Nat
    BY <1>5
  <2>2. /\ AsFirst(pruned, D, t) = SumFunctionOnSet(row, D)
        /\ AsSecond(pruned, D, t) = SumFunctionOnSet(column, D)
    BY DEF AsFirst, AsSecond
  <2> HIDE DEF gone, turned, row, column
  <2>3. SumFunctionOnSet(row, D) \in Nat /\ SumFunctionOnSet(column, D) \in Nat
    BY <1>1, <2>1, SumOfNaturals
  <2>4. /\ AsFirst(grams, D, t) = AsFirst(pruned, D, t) + SumFunctionOnSet(gone[t], D)
        /\ AsSecond(grams, D, t) = AsSecond(pruned, D, t) + SumFunctionOnSet(turned[t], D)
        /\ SumFunctionOnSet(gone[t], D) \in Nat /\ SumFunctionOnSet(turned[t], D) \in Nat
    BY <1>1, <1>6, SumsGrow
  <2> QED
    BY <1>7, <2>2, <2>3, <2>4
<1>9. ASSUME NEW t \in D PROVE SummedGram(pruned, t)
  <2>1. SummedGram(grams, t)
    BY <1>1
  <2>2. /\ grams[t].m_WC = AsFirst(grams, D, t) /\ grams[t].m_freq >= AsSecond(grams, D, t)
        /\ grams[t].m_WC \in Nat /\ grams[t].m_freq \in Nat
    BY <2>1 DEF SummedGram
  <2>3. ASSUME g_train_pi_gram PROVE grams[t].m_freq = AsSecond(grams, D, t)
    BY <2>1, <2>3 DEF SummedGram
  <2>4. /\ \A u \in DOMAIN grams[t].items : grams[t].items[u].m_WC \in Nat \ {0}
        /\ DOMAIN grams[t].items \subseteq D
    BY <2>1 DEF SummedGram
  <2>5. DOMAIN pruned = D
    BY <1>0
  <2>6. /\ pruned[t].m_WC = grams[t].m_WC - rows[t]
        /\ pruned[t].m_freq = grams[t].m_freq - columns[t]
        /\ pruned[t].items = [u \in DOMAIN grams[t].items \ removed[t] |-> grams[t].items[u]]
        /\ IsGram(pruned[t])
    BY <1>4a
  <2>7. /\ pruned[t].m_WC = AsFirst(pruned, D, t) /\ pruned[t].m_WC \in Nat
        /\ pruned[t].m_freq >= AsSecond(pruned, D, t) /\ pruned[t].m_freq \in Nat
    BY <1>8, <2>2, <2>6
  <2>8. ASSUME g_train_pi_gram PROVE pruned[t].m_freq = AsSecond(pruned, D, t)
    BY <1>8, <2>2, <2>3, <2>6, <2>8
  <2>9. /\ pruned[t].items = [u \in DOMAIN pruned[t].items |-> pruned[t].items[u]]
        /\ DOMAIN pruned[t].items \subseteq D
        /\ \A u \in DOMAIN pruned[t].items : pruned[t].items[u].m_WC \in Nat \ {0}
    BY <2>4, <2>6
  <2> QED
    BY <2>5, <2>6, <2>7, <2>8, <2>9 DEF SummedGram
<1>10. /\ SumFunctionOnSet(rows, D) \in Nat
       /\ SumFunctionOnSet(rows, D) = SumFunctionOnSet(columns, D)
  <2>1. IsTable(gone, turned, D, D)
    BY <1>3 DEF IsTable
  <2>2. AreRowSums(rows, gone, D, D) /\ AreRowSums(columns, turned, D, D)
    BY <1>7 DEF AreRowSums
  <2>3. \A t \in D : rows[t] \in Nat
    BY <1>8
  <2> HIDE DEF gone, turned
  <2>4. SumFunctionOnSet(rows, D) \in Nat
    BY <1>1, <2>3, SumOfNaturals
  <2> QED
    BY <1>1, <2>1, <2>2, <2>4, SumsSwap
<1>11. /\ SumFunction([t \in D |-> pruned[t].m_WC])
            = SumFunction([t \in D |-> grams[t].m_WC]) - SumFunctionOnSet(rows, D)
       /\ SumFunction([t \in D |-> pruned[t].m_freq])
            = SumFunction([t \in D |-> grams[t].m_freq]) - SumFunctionOnSet(columns, D)
  <2> DEFINE wc == [t \in D |-> grams[t].m_WC]
             newwc == [t \in D |-> pruned[t].m_WC]
             fr == [t \in D |-> grams[t].m_freq]
             newfr == [t \in D |-> pruned[t].m_freq]
  <2>1. ASSUME NEW t \in D
        PROVE  /\ newwc[t] \in Int /\ rows[t] \in Int /\ wc[t] = newwc[t] + rows[t]
               /\ newfr[t] \in Int /\ columns[t] \in Int /\ fr[t] = newfr[t] + columns[t]
    <3>1. SummedGram(grams, t)
      BY <1>1
    <3>2. grams[t].m_WC \in Nat /\ grams[t].m_freq \in Nat
      BY <3>1 DEF SummedGram
    <3>3. /\ pruned[t].m_WC = grams[t].m_WC - rows[t]
          /\ pruned[t].m_freq = grams[t].m_freq - columns[t]
      BY <1>4a
    <3> QED
      BY <1>8, <3>2, <3>3
  <2>2. /\ SumFunction([t \in D |-> pruned[t].m_WC]) = SumFunctionOnSet(newwc, D)
        /\ SumFunction([t \in D |-> grams[t].m_WC]) = SumFunctionOnSet(wc, D)
        /\ SumFunction([t \in D |-> pruned[t].m_freq]) = SumFunctionOnSet(newfr, D)
        /\ SumFunction([t \in D |-> grams[t].m_freq]) = SumFunctionOnSet(fr, D)
    BY DEF SumFunction
  <2> HIDE DEF wc, newwc, fr, newfr
  <2>3. SumFunctionOnSet(wc, D) = SumFunctionOnSet(newwc, D) + SumFunctionOnSet(rows, D)
    BY <1>1, <2>1, SumsAdd
  <2>3a. SumFunctionOnSet(fr, D) = SumFunctionOnSet(newfr, D) + SumFunctionOnSet(columns, D)
    BY <1>1, <2>1, SumsAdd
  <2>4. /\ SumFunctionOnSet(newwc, D) \in Int /\ SumFunctionOnSet(rows, D) \in Int
        /\ SumFunctionOnSet(newfr, D) \in Int /\ SumFunctionOnSet(columns, D) \in Int
    BY <1>1, <2>1, SumStep
  <2> QED
    BY <2>2, <2>3, <2>3a, <2>4
<1>12. AllRemoved(grams, removed) = SumFunctionOnSet(rows, D)
  BY DEF SumFunction, AllRemoved, rows
<1>13. ASSUME NEW old, NEW new, old.grams = grams, new.grams = pruned
       PROVE  /\ WordCounts(new) = WordCounts(old) - AllRemoved(grams, removed)
              /\ Freqs(new) = Freqs(old) - AllRemoved(grams, removed)
  <2>1. /\ WordCounts(new) = SumFunction([t \in D |-> pruned[t].m_WC])
        /\ WordCounts(old) = SumFunction([t \in D |-> grams[t].m_WC])
        /\ Freqs(new) = SumFunction([t \in D |-> pruned[t].m_freq])
        /\ Freqs(old) = SumFunction([t \in D |-> grams[t].m_freq])
    BY <1>0, <1>13 DEF WordCounts, Freqs
  <2> QED
    BY <1>10, <1>11, <1>12, <2>1
<1> QED
  BY <1>9, <1>13

\* What training a document adds to the header is what it adds to the grams.
LEMMA TrainedTotals ==
    ASSUME NEW model, BalancedGrams(model.grams), NEW document \in Document,
           NEW new, new.grams = TrainedGrams(model.grams, document),
           NEW deltas, deltas = [t \in FirstWords(document) |->
                                    Delta(Get(model.grams, t, EmptyGram), document, t)]
    PROVE  /\ WordCounts(new) = WordCounts(model) + SumFunctionOnSet(deltas, DOMAIN deltas)
           /\ Freqs(new) = Freqs(model)
                 + SumFunction([t \in {document[i] : i \in Words(document)} |->
                                   Remaining(model.grams, document, t)])
<1> DEFINE grams == model.grams
           after == TrainedGrams(grams, document)
           T == DOMAIN after
           V == FirstWords(document)
           words == {document[i] : i \in Words(document)}
           counts == [t \in T |-> Delta(Get(grams, t, EmptyGram), document, t)]
           freqs == [t \in T |-> Remaining(grams, document, t)]
           remaining == [t \in words |-> Remaining(grams, document, t)]
           trained == {t \in V : t \in T}
           counted == {t \in words : t \in T}
<1>1. IsFiniteSet(T) /\ DOMAIN grams \subseteq T
  BY TrainedWords
<1>2. /\ IsFiniteSet(V) /\ IsFiniteSet(words) /\ IsFiniteSet(trained) /\ IsFiniteSet(counted)
      /\ trained \in SUBSET T /\ trained \in SUBSET V
      /\ counted \in SUBSET T /\ counted \in SUBSET words
  BY DocumentFinite, FS_Subset
<1>3. ASSUME NEW t \in T
      PROVE  LET gram == Get(grams, t, EmptyGram)
             IN  /\ counts[t] \in Nat /\ new.grams[t].m_WC = gram.m_WC + counts[t]
                 /\ freqs[t] \in Nat /\ new.grams[t].m_freq = gram.m_freq + freqs[t]
  <2> DEFINE gram == Get(grams, t, EmptyGram)
             kept == Kept(gram, document, t)
             items == [u \in DOMAIN gram.items \cup kept |->
                          IF u \notin kept THEN gram.items[u]
                          ELSE Counted(Get(gram.items, u, NoItem), PairCount(document, t, u))]
  <2>0. t \in DOMAIN TrainedGrams(grams, document) /\ new.grams[t] = after[t]
    OBVIOUS
  <2>2. Delta(gram, document, t) \in Nat /\ Remaining(grams, document, t) \in Nat
    BY DeltaNatural, TrainedWords
  <2> HIDE DEF grams
  <2>0a. after[t] = [m_WC |-> gram.m_WC + Delta(gram, document, t),
                     m_freq |-> gram.m_freq + Remaining(grams, document, t),
                     items |-> items]
    BY <2>0, TrainedGramIs DEF grams
  <2>1. new.grams[t] = [m_WC |-> gram.m_WC + Delta(gram, document, t),
                        m_freq |-> gram.m_freq + Remaining(grams, document, t),
                        items |-> items]
    BY <2>0, <2>0a
  <2>3. counts[t] = Delta(gram, document, t) /\ freqs[t] = Remaining(grams, document, t)
    OBVIOUS
  <2> HIDE DEF gram, items, counts, freqs
  <2>4. /\ counts[t] \in Nat /\ new.grams[t].m_WC = gram.m_WC + counts[t]
        /\ freqs[t] \in Nat /\ new.grams[t].m_freq = gram.m_freq + freqs[t]
    BY <2>1, <2>2, <2>3
  <2> QED
    BY <2>4 DEF gram
<1>4. /\ WordCounts(new) = WordCounts(model) + SumFunctionOnSet(counts, T)
      /\ Freqs(new) = Freqs(model) + SumFunctionOnSet(freqs, T)
  <2>1. DOMAIN new.grams = T
    OBVIOUS
  <2> HIDE DEF counts, freqs, T
  <2>2. IsGrown(model, new, T, counts, freqs)
    BY <1>1, <1>3, <2>1 DEF IsGrown
  <2> QED
    BY <2>2, TotalsGrow
<1>5. /\ \A t \in T : /\ counts[t] \in Int /\ (t \notin trained => counts[t] = 0)
                      /\ freqs[t] \in Int /\ (t \notin counted => freqs[t] = 0)
      /\ \A t \in V : /\ deltas[t] \in Int /\ (t \notin trained => deltas[t] = 0)
                      /\ t \in trained => deltas[t] = counts[t]
      /\ \A t \in words : /\ remaining[t] \in Int /\ (t \notin counted => remaining[t] = 0)
                          /\ t \in counted => remaining[t] = freqs[t]
  <2>1. \A t : /\ Delta(Get(grams, t, EmptyGram), document, t) \in Nat
               /\ Delta(Get(grams, t, EmptyGram), document, t) # 0 => t \in T /\ t \in V
               /\ Remaining(grams, document, t) \in Nat
               /\ Remaining(grams, document, t) # 0 => t \in T /\ t \in words
    BY DeltaNatural, TrainedWords
  <2> HIDE DEF T, V, words
  <2> QED
    BY <2>1 DEF V
<1>6. DOMAIN deltas = V /\ SumFunction(remaining) = SumFunctionOnSet(remaining, words)
  BY DEF SumFunction
<1>7. /\ SumFunctionOnSet(counts, T) = SumFunctionOnSet(deltas, V)
      /\ SumFunctionOnSet(freqs, T) = SumFunctionOnSet(remaining, words)
  <2> HIDE DEF counts, freqs, remaining, trained, counted, T, V, words
  <2>1. /\ SumFunctionOnSet(counts, T) = SumFunctionOnSet(counts, trained)
        /\ SumFunctionOnSet(deltas, V) = SumFunctionOnSet(deltas, trained)
        /\ SumFunctionOnSet(freqs, T) = SumFunctionOnSet(freqs, counted)
        /\ SumFunctionOnSet(remaining, words) = SumFunctionOnSet(remaining, counted)
    BY <1>1, <1>2, <1>5, SumsExtend
  <2>2. \A t \in trained : deltas[t] \in Int /\ deltas[t] = counts[t]
    BY <1>2, <1>5
  <2>3. \A t \in counted : remaining[t] \in Int /\ remaining[t] = freqs[t]
    BY <1>2, <1>5
  <2>4. /\ SumFunctionOnSet(deltas, trained) = SumFunctionOnSet(counts, trained)
        /\ SumFunctionOnSet(remaining, counted) = SumFunctionOnSet(freqs, counted)
    BY <1>2, <2>2, <2>3, SumsOverAgree
  <2> QED
    BY <2>1, <2>4
<1> QED
  BY <1>4, <1>6, <1>7

\* The totals of a merged model are those of the two.
LEMMA MergedTotals ==
    ASSUME NEW first, BalancedGrams(first.grams), NEW second, BalancedGrams(second.grams),
           NEW T, T = DOMAIN first.grams \cup DOMAIN second.grams,
           NEW new, new.grams = [t \in T |-> MergedGram(Get(first.grams, t, EmptyGram),
                                                        Get(second.grams, t, EmptyGram))]
    PROVE  /\ WordCounts(new) = WordCounts(first) + WordCounts(second)
           /\ Freqs(new) = Freqs(first) + Freqs(second)
<1> DEFINE counts == [t \in T |-> Get(second.grams, t, EmptyGram).m_WC]
           freqs == [t \in T |-> Get(second.grams, t, EmptyGram).m_freq]
<1>1. IsFiniteSet(T) /\ DOMAIN first.grams \subseteq T /\ DOMAIN second.grams \subseteq T
  BY FS_Union DEF BalancedGrams
<1>2. ASSUME NEW t \in T
      PROVE  LET gram == Get(first.grams, t, EmptyGram)
             IN  /\ counts[t] \in Nat /\ new.grams[t].m_WC = gram.m_WC + counts[t]
                 /\ freqs[t] \in Nat /\ new.grams[t].m_freq = gram.m_freq + freqs[t]
  <2> DEFINE g1 == Get(first.grams, t, EmptyGram)
             g2 == Get(second.grams, t, EmptyGram)
  <2>1. g2.m_WC \in Nat /\ g2.m_freq \in Nat
    BY <1>1, GetBalanced
  <2>2. new.grams[t].m_WC = g1.m_WC + g2.m_WC /\ new.grams[t].m_freq = g1.m_freq + g2.m_freq
    BY DEF MergedGram
  <2> QED
    BY <2>1, <2>2
<1>3. /\ WordCounts(second) = SumFunctionOnSet(counts, T)
      /\ Freqs(second) = SumFunctionOnSet(freqs, T)
  BY <1>1, TotalsOverMore
<1>4. DOMAIN new.grams = T /\ IsGrown(first, new, T, counts, freqs)
  BY <1>1, <1>2 DEF IsGrown
<1> HIDE DEF counts, freqs
<1>5. /\ WordCounts(new) = WordCounts(first) + SumFunctionOnSet(counts, T)
      /\ Freqs(new) = Freqs(first) + SumFunctionOnSet(freqs, T)
  BY <1>4, TotalsGrow
<1> QED
  BY <1>3, <1>5

\* Grams with nothing left add nothing to the totals.
LEMMA RestrictedTotals ==
    ASSUME NEW grams, NEW D, D = DOMAIN grams, IsFiniteSet(D), \A t \in D : SummedGram(grams, t),
           NEW left, left = {t \in D : grams[t].m_WC # 0 \/ grams[t].m_freq # 0},
           NEW new, new.grams = Restrict(grams, left)
    PROVE  \A old : old.grams = grams =>
              WordCounts(new) = WordCounts(old) /\ Freqs(new) = Freqs(old)
<1> DEFINE wc == [t \in D |-> grams[t].m_WC]
           fr == [t \in D |-> grams[t].m_freq]
           newwc == [t \in left |-> new.grams[t].m_WC]
           newfr == [t \in left |-> new.grams[t].m_freq]
<1>1. left \in SUBSET D /\ IsFiniteSet(left)
  BY FS_Subset
<1>2. DOMAIN new.grams = left /\ \A t \in left : new.grams[t] = grams[t]
  BY DEF Restrict
<1>3. /\ \A t \in D : /\ wc[t] \in Int /\ (t \notin left => wc[t] = 0)
                      /\ fr[t] \in Int /\ (t \notin left => fr[t] = 0)
      /\ \A t \in left : wc[t] \in Int /\ newwc[t] = wc[t] /\ fr[t] \in Int /\ newfr[t] = fr[t]
  <2>1. \A t \in D : grams[t].m_WC \in Nat /\ grams[t].m_freq \in Nat
    BY DEF SummedGram
  <2>2. \A t \in D : t \notin left => grams[t].m_WC = 0 /\ grams[t].m_freq = 0
    OBVIOUS
  <2> QED
    BY <1>1, <1>2, <2>1, <2>2
<1>4. /\ WordCounts(new) = SumFunctionOnSet(newwc, left)
      /\ Freqs(new) = SumFunctionOnSet(newfr, left)
      /\ \A old : old.grams = grams => /\ WordCounts(old) = SumFunctionOnSet(wc, D)
                                       /\ Freqs(old) = SumFunctionOnSet(fr, D)
  BY <1>2 DEF WordCounts, Freqs, SumFunction
<1> HIDE DEF wc, fr, newwc, newfr
<1>5. /\ SumFunctionOnSet(wc, D) = SumFunctionOnSet(wc, left)
      /\ SumFunctionOnSet(fr, D) = SumFunctionOnSet(fr, left)
  BY <1>1, <1>3, SumsExtend
<1>6. /\ SumFunctionOnSet(wc, left) = SumFunctionOnSet(newwc, left)
      /\ SumFunctionOnSet(fr, left) = SumFunctionOnSet(newfr, left)
  BY <1>1, <1>3, SumsOverAgree
<1> QED
  BY <1>4, <1>5, <1>6

\* Importing an exported model gives the model.
LEMMA ImportedExported ==
    ASSUME NEW model, BalancedModel(model)
    PROVE  Imported(Exported(model)) = model
<1> DEFINE grams == model.grams
           lines == Exported(model)
           pairs(t) == {line \in lines.bigrams : line.token1 = t}
           unigram(t) == {line \in lines.unigrams : line.token = t}
           items(t) == [u \in {line.token2 : line \in pairs(t)} |->
                           (CHOOSE line \in pairs(t) : line.token2 = u).item]
<1>1. BalancedGrams(grams)
  BY OldBalanced
<1>2. \A t \in DOMAIN grams : BalancedGram(grams, t)
  BY <1>1 DEF BalancedGrams
<1>3. ASSUME NEW t \in DOMAIN grams PROVE items(t) = grams[t].items
  <2> DEFINE its == grams[t].items
  <2>1. \A line : line \in pairs(t) <=>
                    \E u \in DOMAIN its : line = [token1 |-> t, token2 |-> u, item |-> its[u]]
    BY <1>3 DEF Exported
  <2>2. its = [u \in DOMAIN its |-> its[u]]
    BY <1>2 DEF BalancedGram, SummedGram
  <2> HIDE DEF pairs, its
  <2>3. {line.token2 : line \in pairs(t)} = DOMAIN its
    <3>1. ASSUME NEW u \in DOMAIN its PROVE u \in {line.token2 : line \in pairs(t)}
      <4> DEFINE line == [token1 |-> t, token2 |-> u, item |-> its[u]]
      <4>1. line \in pairs(t) /\ line.token2 = u
        BY <2>1
      <4> HIDE DEF line
      <4> QED
        BY <4>1
    <3>2. ASSUME NEW u \in {line.token2 : line \in pairs(t)} PROVE u \in DOMAIN its
      BY <2>1
    <3> QED
      BY <3>1, <3>2
  <2>4. ASSUME NEW u \in DOMAIN its
        PROVE  (CHOOSE line \in pairs(t) : line.token2 = u).item = its[u]
    <3>1. \E line \in pairs(t) : line.token2 = u
      BY <2>3
    <3> DEFINE line == CHOOSE l \in pairs(t) : l.token2 = u
    <3>2. line \in pairs(t) /\ line.token2 = u
      BY <3>1
    <3> HIDE DEF line
    <3>3. line = [token1 |-> t, token2 |-> u, item |-> its[u]]
      BY <2>1, <3>2
    <3>4. line.item = its[u]
      BY <3>3
    <3> QED
      BY <3>4 DEF line
  <2>5. items(t) = [u \in DOMAIN its |-> its[u]]
    BY <2>3, <2>4
  <2> QED
    BY <2>2, <2>5 DEF its
<1>4. {line.token : line \in lines.unigrams} = DOMAIN grams
  <2>1. \A line : line \in lines.unigrams <=>
            \E t \in DOMAIN grams :
               line = [token |-> t, count |-> grams[t].m_WC, freq |-> grams[t].m_freq]
    BY DEF Exported
  <2> HIDE DEF lines, grams
  <2>2. ASSUME NEW t \in DOMAIN grams PROVE t \in {line.token : line \in lines.unigrams}
    <3> DEFINE line == [token |-> t, count |-> grams[t].m_WC, freq |-> grams[t].m_freq]
    <3>1. line \in lines.unigrams /\ line.token = t
      BY <2>1
    <3> HIDE DEF line
    <3> QED
      BY <3>1
  <2>3. ASSUME NEW t \in {line.token : line \in lines.unigrams} PROVE t \in DOMAIN grams
    BY <2>1
  <2> QED
    BY <2>2, <2>3
<1>5. ASSUME NEW t \in DOMAIN grams
      PROVE  LET line == CHOOSE l \in unigram(t) : TRUE
             IN  line.count = grams[t].m_WC /\ line.freq = grams[t].m_freq
  <2> DEFINE line == [token |-> t, count |-> grams[t].m_WC, freq |-> grams[t].m_freq]
             chosen == CHOOSE l \in unigram(t) : TRUE
  <2>1. \A l : l \in unigram(t) <=> l = line
    BY <1>5 DEF Exported
  <2>2. chosen \in unigram(t)
    BY <2>1
  <2>3. chosen = line
    BY <2>1, <2>2
  <2> HIDE DEF chosen
  <2>4. chosen.count = grams[t].m_WC /\ chosen.freq = grams[t].m_freq
    BY <2>3
  <2> QED
    BY <2>4 DEF chosen
<1>6. Imported(lines)
        = [header |-> lines.data,
           grams |-> [t \in {line.token : line \in lines.unigrams} |->
                         [m_WC |-> (CHOOSE line \in unigram(t) : TRUE).count,
                          m_freq |-> (CHOOSE line \in unigram(t) : TRUE).freq,
                          items |-> items(t)]]]
  BY DEF Imported
<1>7. lines.data = model.header
  BY DEF Exported
<1>8. \A t \in DOMAIN grams :
          grams[t] = [m_WC |-> grams[t].m_WC, m_freq |-> grams[t].m_freq,
                      items |-> grams[t].items]
  BY <1>2 DEF BalancedGram, SummedGram, IsGram
<1>9. grams = [t \in DOMAIN grams |-> grams[t]]
  BY <1>1 DEF BalancedGrams
<1>10. model = [header |-> model.header, grams |-> grams]
  BY DEF BalancedModel, EmptyModel
<1> HIDE DEF lines, items, unigram, pairs
<1>11. \A t \in DOMAIN grams :
           [m_WC |-> (CHOOSE line \in unigram(t) : TRUE).count,
            m_freq |-> (CHOOSE line \in unigram(t) : TRUE).freq,
            items |-> items(t)] = grams[t]
  BY <1>3, <1>5, <1>8
<1> HIDE DEF grams
<1>12. Imported(lines) = [header |-> model.header, grams |-> [t \in DOMAIN grams |-> grams[t]]]
  BY <1>4, <1>6, <1>7, <1>11
<1> QED
  BY <1>9, <1>10, <1>12 DEF lines

-----------------------------------------------------------------------------
(* The tools, one by one. *)

\* A model of grams that are balanced, with the header a tool wrote.
LEMMA ModelBalanced ==
    ASSUME NEW grams, BalancedGrams(grams), NEW WC, NEW N \in Nat \ {0}, NEW freq,
           NEW model, model = [header |-> [m_WC |-> WC, m_N |-> N, m_total_freq |-> freq],
                               grams |-> grams],
           WC = WordCounts(model), freq = Freqs(model)
    PROVE  BalancedModel(model)
BY DEF BalancedModel

\* Models without a document are balanced.
LEMMA InitBalanced == Init => Balanced
<1> SUFFICES ASSUME Init PROVE Balanced
  OBVIOUS
<1>1. BalancedModel(EmptyModel)
  BY DEF BalancedModel
<1>2. Imported(Exported(EmptyModel)) = EmptyModel
  BY <1>1, ImportedExported
<1> QED
  BY <1>1, <1>2 DEF Init, Balanced

\* Generating from a document, if no overflow is reported.
LEMMA TrainKeepsBalance ==
    ASSUME Balanced, NEW file \in File, NEW document \in Document, Train(file, document)
    PROVE  Balanced'
<1> DEFINE model == models[file]
           grams == model.grams
           old == Old(model.header)
           deltas == [t \in FirstWords(document) |->
                         Delta(Get(grams, t, EmptyGram), document, t)]
           words == SumFunction([t \in {document[i] : i \in Words(document)} |->
                                    Remaining(grams, document, t)])
           overflows == old.m_total_freq + words > MaxCount
           after(accepted) ==
               [header |-> [m_WC |-> old.m_WC + SumFunctionOnSet(deltas, accepted),
                            m_N |-> old.m_N + 1,
                            m_total_freq |-> old.m_total_freq + (IF overflows THEN 0 ELSE words)],
                grams |-> TrainedGrams(grams, document)]
           new == models'[file]
<1>1. /\ file \notin refused /\ text' = text
      /\ \E accepted : /\ models' = [models EXCEPT ![file] = after(accepted)]
                       /\ refused' = IF accepted # DOMAIN deltas \/ overflows
                                     THEN refused \cup {file} ELSE refused
  BY DEF Train
<1>2. BalancedModel(model)
  BY <1>1 DEF Balanced
<1>3. /\ BalancedGrams(grams) /\ old.m_N \in Nat
      /\ old.m_WC = WordCounts(model) /\ old.m_total_freq = Freqs(model)
  BY <1>2, OldBalanced
<1>4. PICK accepted : /\ models' = [models EXCEPT ![file] = after(accepted)]
                      /\ refused' = IF accepted # DOMAIN deltas \/ overflows
                                    THEN refused \cup {file} ELSE refused
  BY <1>1
<1> HIDE DEF overflows, deltas, words
<1>5. /\ DOMAIN models' = File /\ new = after(accepted)
      /\ \A other \in File \ {file} : models'[other] = models[other]
      /\ refused \subseteq refused'
  BY <1>4 DEF Balanced
<1>6. ASSUME file \notin refused' PROVE BalancedModel(new)
  <2>1. accepted = DOMAIN deltas /\ ~overflows
    BY <1>4, <1>6
  <2> DEFINE WC == old.m_WC + SumFunctionOnSet(deltas, DOMAIN deltas)
             freq == old.m_total_freq + words
             N == old.m_N + 1
             trained == TrainedGrams(grams, document)
  <2>2. /\ new = [header |-> [m_WC |-> WC, m_N |-> N, m_total_freq |-> freq],
                  grams |-> trained]
        /\ new.grams = trained
    <3> HIDE DEF old, new
    <3>1. new = [header |-> [m_WC |-> WC, m_N |-> N, m_total_freq |-> freq], grams |-> trained]
      BY <1>5, <2>1
    <3> QED
      BY <3>1
  <2>3. BalancedGrams(trained)
    BY <1>3, TrainedBalanced
  <2>4. WordCounts(new) = WC /\ Freqs(new) = freq
    <3> HIDE DEF new
    <3> QED
      BY <1>3, <2>2, TrainedTotals DEF deltas, words
  <2>5. N \in Nat \ {0}
    BY <1>3
  <2> HIDE DEF WC, freq, N, trained, new
  <2> QED
    BY <2>2, <2>3, <2>4, <2>5, ModelBalanced
<1> QED
  BY <1>1, <1>5, <1>6 DEF Balanced

\* Merging two models, if no overflow is reported.
LEMMA MergeKeepsBalance ==
    ASSUME Balanced, NEW target \in File, NEW new_one \in File, Merge(target, new_one)
    PROVE  Balanced'
<1> DEFINE first == models[target]
           second == models[new_one]
           old == Old(first.header)
           overflows == \/ old.m_WC + second.header.m_WC > MaxCount
                        \/ old.m_total_freq + second.header.m_total_freq > MaxCount
           T == DOMAIN first.grams \cup DOMAIN second.grams
           merged == [t \in T |-> MergedGram(Get(first.grams, t, EmptyGram),
                                             Get(second.grams, t, EmptyGram))]
           new == models'[target]
<1>1. /\ target \notin refused /\ new_one \notin refused /\ text' = text
      /\ second.header # NoHeader
      /\ models' = [models EXCEPT ![target] =
              [header |-> IF overflows THEN first.header
                          ELSE [m_WC |-> old.m_WC + second.header.m_WC,
                                m_N |-> old.m_N + second.header.m_N,
                                m_total_freq |-> old.m_total_freq + second.header.m_total_freq],
               grams |-> merged]]
      /\ refused' = IF overflows THEN refused \cup {target} ELSE refused
  BY DEF Merge
<1>2. BalancedModel(first) /\ BalancedModel(second)
  BY <1>1 DEF Balanced
<1>3. /\ BalancedGrams(first.grams) /\ BalancedGrams(second.grams)
      /\ old.m_N \in Nat /\ old.m_WC = WordCounts(first) /\ old.m_total_freq = Freqs(first)
  BY <1>2, OldBalanced
<1>4. /\ second.header.m_N \in Nat \ {0} /\ second.header.m_WC = WordCounts(second)
      /\ second.header.m_total_freq = Freqs(second)
  BY <1>1, <1>2 DEF BalancedModel, EmptyModel
<1> HIDE DEF overflows, merged
<1>5. /\ DOMAIN models' = File /\ new.grams = merged
      /\ \A other \in File \ {target} : models'[other] = models[other]
      /\ refused \subseteq refused'
  BY <1>1 DEF Balanced
<1>6. ASSUME target \notin refused' PROVE BalancedModel(new)
  <2> DEFINE WC == old.m_WC + second.header.m_WC
             freq == old.m_total_freq + second.header.m_total_freq
             N == old.m_N + second.header.m_N
  <2>1. ~overflows
    BY <1>1, <1>6
  <2>2. new = [header |-> [m_WC |-> WC, m_N |-> N, m_total_freq |-> freq], grams |-> merged]
    BY <1>1, <2>1 DEF Balanced
  <2>3. BalancedGrams(merged)
    BY <1>3, MergedBalanced DEF merged
  <2>4. WordCounts(new) = WordCounts(first) + WordCounts(second)
        /\ Freqs(new) = Freqs(first) + Freqs(second)
    <3> HIDE DEF first, second, new
    <3> QED
      BY <1>3, <1>5, MergedTotals DEF merged
  <2>5. WC = WordCounts(new) /\ freq = Freqs(new) /\ N \in Nat \ {0}
    <3>0. old.m_N \in Nat /\ second.header.m_N \in Nat \ {0}
      BY <1>3, <1>4
    <3> HIDE DEF new, first, second, old
    <3>1. N \in Nat \ {0}
      BY <3>0
    <3> QED
      BY <1>3, <1>4, <2>4, <3>1
  <2> HIDE DEF WC, freq, N, new
  <2> QED
    BY <2>2, <2>3, <2>5, ModelBalanced
<1> QED
  BY <1>1, <1>5, <1>6 DEF Balanced

\* Pruning a model.
LEMMA PruneKeepsBalance ==
    ASSUME Balanced, NEW file \in File, Prune(file)
    PROVE  Balanced'
<1> DEFINE model == models[file]
           grams == model.grams
           header == model.header
           D == DOMAIN grams
           removed == [t \in D |-> RemovedWords(header.m_N, grams[t])]
           count == AllRemoved(grams, removed)
           pruned == [t \in D |-> PrunedGram(grams, removed, t)]
           left == {t \in D : pruned[t].m_WC # 0 \/ pruned[t].m_freq # 0}
           new == models'[file]
<1>1. /\ file \notin refused /\ header # NoHeader /\ refused' = refused /\ text' = text
      /\ models' = [models EXCEPT ![file] =
              [header |-> [header EXCEPT !.m_WC = @ - count, !.m_total_freq = @ - count],
               grams |-> Restrict(pruned, left)]]
  BY DEF Prune, AllRemoved
<1>2. BalancedModel(model)
  BY <1>1 DEF Balanced
<1>3. /\ header = [m_WC |-> WordCounts(model), m_N |-> header.m_N, m_total_freq |-> Freqs(model)]
      /\ header.m_N \in Nat \ {0} /\ BalancedGrams(grams)
  BY <1>1, <1>2 DEF BalancedModel, EmptyModel
<1>4. /\ IsFiniteSet(D) /\ DOMAIN pruned = D
      /\ \A t \in D : pruned[t] = PrunedGram(grams, removed, t)
  BY <1>3 DEF BalancedGrams
<1>5. IsPruned(grams, removed, pruned)
  BY DEF IsPruned, RemovedWords
<1> DEFINE before == [header |-> header, grams |-> pruned]
<1>6. /\ \A t \in D : SummedGram(pruned, t)
      /\ WordCounts(before) = WordCounts(model) - count
      /\ Freqs(before) = Freqs(model) - count
  <2>1. BalancedGrams(grams) /\ D = DOMAIN grams
    BY <1>3
  <2>2. model.grams = grams /\ before.grams = pruned
    OBVIOUS
  <2> HIDE DEF removed, pruned, D, grams, before, model
  <2> QED
    BY <1>5, <2>1, <2>2, PrunedSummed
<1> HIDE DEF count, pruned, removed
<1>7. /\ DOMAIN models' = File /\ new.grams = Restrict(pruned, left)
      /\ new = [header |-> [header EXCEPT !.m_WC = @ - count, !.m_total_freq = @ - count],
                grams |-> Restrict(pruned, left)]
      /\ \A other \in File \ {file} : models'[other] = models[other]
  BY <1>1 DEF Balanced
<1>8. BalancedGrams(Restrict(pruned, left))
  <2> HIDE DEF left, D
  <2> QED
    BY <1>4, <1>6, RestrictedBalanced DEF left
<1>9. WordCounts(new) = WordCounts(before) /\ Freqs(new) = Freqs(before)
  <2>1. before.grams = pruned
    OBVIOUS
  <2> HIDE DEF left, D, new, before
  <2> QED
    BY <1>4, <1>6, <1>7, <2>1, RestrictedTotals DEF left
<1>10. [header EXCEPT !.m_WC = @ - count, !.m_total_freq = @ - count]
         = [m_WC |-> WordCounts(model) - count, m_N |-> header.m_N,
            m_total_freq |-> Freqs(model) - count]
  <2> DEFINE a == WordCounts(model)
             n == header.m_N
             b == Freqs(model)
  <2>1. header = [m_WC |-> a, m_N |-> n, m_total_freq |-> b]
    BY <1>3
  <2> HIDE DEF header, a, n, b
  <2>2. PICK lower : lower = [header EXCEPT !.m_WC = a - count]
    OBVIOUS
  <2>3. lower = [m_WC |-> a - count, m_N |-> n, m_total_freq |-> b]
    BY <2>1, <2>2
  <2>4. [lower EXCEPT !.m_total_freq = b - count]
          = [m_WC |-> a - count, m_N |-> n, m_total_freq |-> b - count]
    BY <2>3
  <2>5. [header EXCEPT !.m_WC = @ - count, !.m_total_freq = @ - count]
          = [lower EXCEPT !.m_total_freq = b - count]
    BY <2>1, <2>2
  <2> QED
    BY <2>4, <2>5 DEF a, n, b
<1>11. BalancedModel(new)
  <2> HIDE DEF new, header, before, left
  <2>1. new = [header |-> [m_WC |-> WordCounts(model) - count, m_N |-> header.m_N,
                           m_total_freq |-> Freqs(model) - count],
               grams |-> Restrict(pruned, left)]
    BY <1>7, <1>10
  <2> QED
    BY <1>3, <1>6, <1>8, <1>9, <2>1, ModelBalanced
<1> QED
  BY <1>1, <1>7, <1>11 DEF Balanced

\* The text is one of a balanced model, and the model read from it the same one.
LEMMA TextKeepsBalance ==
    ASSUME Balanced, NEW file \in File, Export(file) \/ Import(file)
    PROVE  Balanced'
<1>1. CASE Export(file)
  <2>1. BalancedModel(models[file]) /\ UNCHANGED <<models, refused>>
    BY <1>1 DEF Export, Balanced
  <2>2. text'.lines = Exported(models[file])
    BY <1>1 DEF Export
  <2>3. Imported(Exported(models[file])) = models[file]
    BY <2>1, ImportedExported
  <2> QED
    BY <2>1, <2>2, <2>3 DEF Balanced
<1>2. CASE Import(file)
  <2>1. /\ models' = [models EXCEPT ![file] = Imported(text.lines)]
        /\ UNCHANGED <<refused, text>>
    BY <1>2 DEF Import
  <2>2. BalancedModel(Imported(text.lines))
    BY DEF Balanced
  <2> QED
    BY <2>1, <2>2 DEF Balanced
<1> QED
  BY <1>1, <1>2

\* Every tool keeps every model balanced.
LEMMA StepBalanced == Balanced /\ [Next]_vars => Balanced'
<1> SUFFICES ASSUME Balanced, [Next]_vars PROVE Balanced'
  OBVIOUS
<1>1. CASE UNCHANGED vars
  BY <1>1 DEF vars, Balanced
<1>2. ASSUME NEW file \in File, NEW document \in Document, Train(file, document)
      PROVE  Balanced'
  BY <1>2, TrainKeepsBalance
<1>3. ASSUME NEW target \in File, NEW new_one \in File, Merge(target, new_one)
      PROVE  Balanced'
  BY <1>3, MergeKeepsBalance
<1>4. ASSUME NEW file \in File, Prune(file)
      PROVE  Balanced'
  BY <1>4, PruneKeepsBalance
<1>5. ASSUME NEW file \in File, Export(file) \/ Import(file)
      PROVE  Balanced'
  BY <1>5, TextKeepsBalance
<1> QED
  BY <1>1, <1>2, <1>3, <1>4, <1>5 DEF Next

\* The sums over the words of a model are those over the items that are there.
LEMMA SumsOfItems ==
    ASSUME NEW grams, BalancedGrams(grams), NEW t \in DOMAIN grams
    PROVE  /\ ItemCount(grams[t]) = AsFirst(grams, DOMAIN grams, t)
           /\ SumFunction([t1 \in {t2 \in DOMAIN grams : t \in DOMAIN grams[t2].items} |->
                              grams[t1].items[t].m_WC]) = AsSecond(grams, DOMAIN grams, t)
           /\ grams[t].m_WC = 0 => DOMAIN grams[t].items = {}
<1> DEFINE D == DOMAIN grams
           I == DOMAIN grams[t].items
           C == {t2 \in D : t \in DOMAIN grams[t2].items}
           row == [u \in D |-> Times(grams, t, u)]
           column == [u \in D |-> Times(grams, u, t)]
           count == [u \in I |-> grams[t].items[u].m_WC]
           counts == [t1 \in C |-> grams[t1].items[t].m_WC]
<1>1. IsFiniteSet(D) /\ BalancedGram(grams, t)
  BY DEF BalancedGrams
<1>2. I \in SUBSET D /\ IsFiniteSet(I) /\ C \in SUBSET D /\ IsFiniteSet(C)
  BY <1>1, FS_Subset DEF BalancedGram, SummedGram
<1>3. \A u \in D : /\ row[u] \in Nat /\ (u \notin I => row[u] = 0)
                   /\ column[u] \in Nat /\ (u \notin C => column[u] = 0)
  <2>1. \A v, u : Times(grams, v, u) \in Nat
    BY TimesNatural
  <2> QED
    BY <2>1 DEF Times
<1>4. /\ \A u \in I : row[u] \in Int /\ row[u] = count[u]
      /\ \A u \in C : column[u] \in Int /\ column[u] = counts[u]
  BY <1>2, <1>3 DEF Times
<1>5. /\ AsFirst(grams, D, t) = SumFunctionOnSet(row, D)
      /\ AsSecond(grams, D, t) = SumFunctionOnSet(column, D)
  BY DEF AsFirst, AsSecond
<1>6. /\ ItemCount(grams[t]) = SumFunctionOnSet(count, I)
      /\ SumFunction([t1 \in {t2 \in DOMAIN grams : t \in DOMAIN grams[t2].items} |->
                         grams[t1].items[t].m_WC]) = SumFunctionOnSet(counts, C)
  BY DEF ItemCount, SumFunction
<1>7. \A u \in I : count[u] \in Nat /\ count[u] # 0
  BY <1>1 DEF BalancedGram, SummedGram
<1>8. grams[t].m_WC = AsFirst(grams, D, t)
  BY <1>1 DEF BalancedGram, SummedGram
<1> HIDE DEF D, I, C, row, column, count, counts
<1>9. /\ SumFunctionOnSet(row, D) = SumFunctionOnSet(row, I)
      /\ SumFunctionOnSet(column, D) = SumFunctionOnSet(column, C)
  BY <1>1, <1>2, <1>3, SumsExtend
<1>10. /\ SumFunctionOnSet(row, I) = SumFunctionOnSet(count, I)
       /\ SumFunctionOnSet(column, C) = SumFunctionOnSet(counts, C)
  BY <1>2, <1>4, SumsOverAgree
<1>11. SumFunctionOnSet(count, I) = 0 => I = {}
  BY <1>2, <1>7, SumOfNaturals
<1> QED
  BY <1>5, <1>6, <1>8, <1>9, <1>10, <1>11 DEF D, I

\* With the start of a sentence trained, as many words are second in a pair as first.
LEMMA TotalsBalance ==
    ASSUME g_train_pi_gram, NEW model, BalancedGrams(model.grams)
    PROVE  WordCounts(model) = Freqs(model)
<1> DEFINE grams == model.grams
           D == DOMAIN grams
           F == [t \in D |-> [u \in D |-> Times(grams, t, u)]]
           G == [u \in D |-> [t \in D |-> Times(grams, t, u)]]
           wc == [t \in D |-> grams[t].m_WC]
           fr == [t \in D |-> grams[t].m_freq]
<1>1. IsFiniteSet(D) /\ \A t \in D : BalancedGram(grams, t)
  BY DEF BalancedGrams
<1>2. WordCounts(model) = SumFunctionOnSet(wc, D) /\ Freqs(model) = SumFunctionOnSet(fr, D)
  BY DEF WordCounts, Freqs, SumFunction
<1>3. IsTable(F, G, D, D)
  BY TimesNatural DEF IsTable
<1>4. AreRowSums(wc, F, D, D)
  BY <1>1 DEF AreRowSums, BalancedGram, SummedGram, AsFirst
<1>5. AreRowSums(fr, G, D, D)
  BY <1>1 DEF AreRowSums, BalancedGram, SummedGram, AsSecond
<1> HIDE DEF D, F, G, wc, fr
<1> QED
  BY <1>1, <1>2, <1>3, <1>4, <1>5, SumsSwap

\* A model with a count of zero has nothing.
LEMMA NothingCounted ==
    ASSUME NEW model, BalancedGrams(model.grams), WordCounts(model) = 0, Freqs(model) = 0
    PROVE  model.grams = <<>>
<1> DEFINE grams == model.grams
           D == DOMAIN grams
           wc == [t \in D |-> grams[t].m_WC]
           fr == [t \in D |-> grams[t].m_freq]
<1>1. IsFiniteSet(D) /\ \A t \in D : BalancedGram(grams, t)
  BY DEF BalancedGrams
<1>2. WordCounts(model) = SumFunctionOnSet(wc, D) /\ Freqs(model) = SumFunctionOnSet(fr, D)
  BY DEF WordCounts, Freqs, SumFunction
<1>3. \A t \in D : wc[t] \in Nat /\ fr[t] \in Nat /\ (wc[t] # 0 \/ fr[t] # 0)
  BY <1>1 DEF BalancedGram, SummedGram
<1>4. D = {}
  <2> HIDE DEF D, wc, fr
  <2>1. /\ \A t \in D : wc[t] = 0
        /\ \A t \in D : fr[t] = 0
    BY <1>1, <1>2, <1>3, SumOfNaturals
  <2> QED
    BY <1>3, <2>1
<1>5. grams = [t \in D |-> grams[t]]
  BY DEF BalancedGrams
<1> QED
  BY <1>4, <1>5

\* A balanced model with a document passes validate_k_mixture_model.
LEMMA BalancedValidates ==
    ASSUME g_train_pi_gram, NEW model, BalancedModel(model), model.header # NoHeader
    PROVE  /\ IF model.header.m_WC = 0 THEN model.grams = <<>> ELSE Validates(model)
           /\ WordsOfPairs(model)
<1> DEFINE grams == model.grams
<1>1. /\ BalancedGrams(grams) /\ model.header.m_WC = WordCounts(model)
      /\ model.header.m_total_freq = Freqs(model)
  BY DEF BalancedModel, EmptyModel
<1>2. WordCounts(model) = Freqs(model)
  BY <1>1, TotalsBalance
<1>3. model.header.m_WC = 0 => grams = <<>>
  BY <1>1, <1>2, NothingCounted
<1>4. ASSUME NEW t \in DOMAIN grams
      PROVE  /\ grams[t].m_WC = 0 => grams[t].items = <<>> /\ grams[t].m_freq # 0
             /\ ItemCount(grams[t]) = grams[t].m_WC
             /\ grams[t].m_freq =
                   SumFunction([t1 \in {t2 \in DOMAIN grams : t \in DOMAIN grams[t2].items} |->
                                   grams[t1].items[t].m_WC])
  <2>1. BalancedGram(grams, t)
    BY <1>1 DEF BalancedGrams
  <2>2. /\ grams[t].m_WC = AsFirst(grams, DOMAIN grams, t)
        /\ grams[t].m_freq = AsSecond(grams, DOMAIN grams, t)
        /\ grams[t].m_WC # 0 \/ grams[t].m_freq # 0
        /\ grams[t].items = [u \in DOMAIN grams[t].items |-> grams[t].items[u]]
    BY <2>1 DEF BalancedGram, SummedGram
  <2>3. /\ ItemCount(grams[t]) = AsFirst(grams, DOMAIN grams, t)
        /\ SumFunction([t1 \in {t2 \in DOMAIN grams : t \in DOMAIN grams[t2].items} |->
                           grams[t1].items[t].m_WC]) = AsSecond(grams, DOMAIN grams, t)
        /\ grams[t].m_WC = 0 => DOMAIN grams[t].items = {}
    BY <1>1, SumsOfItems
  <2>4. ASSUME grams[t].m_WC = 0 PROVE grams[t].items = <<>> /\ grams[t].m_freq # 0
    <3> DEFINE items == grams[t].items
    <3>1. DOMAIN items = {} /\ items = [u \in DOMAIN items |-> items[u]]
      BY <2>2, <2>3, <2>4
    <3> HIDE DEF items
    <3>2. items = <<>>
      BY <3>1
    <3> QED
      BY <2>2, <2>4, <3>2 DEF items
  <2> QED
    BY <2>2, <2>3, <2>4
<1>5. WordsOfPairs(model)
  BY <1>4 DEF WordsOfPairs
<1>6. model.header.m_WC # 0 => Validates(model)
  BY <1>1, <1>2, <1>4 DEF Validates
<1> QED
  BY <1>3, <1>5, <1>6

\* Whatever documents are trained, and however the files are merged, pruned and
\* carried over as text, a model no tool refused passes validate_k_mixture_model,
\* and its frequencies are the words that are second in its pairs.
THEOREM ModelsAlwaysValidate == Spec => []ModelsValidate
<1>1. Balanced => ModelsValidate
  BY BalancedValidates DEF Balanced, ModelsValidate, Good
<1> QED
  BY <1>1, InitBalanced, StepBalanced, PTL DEF Spec

-----------------------------------------------------------------------------
(* The probabilities of prune_k_mixture_model.  With s = m_N_n_0 - m_n_1,   *)
(* f = m_WC - m_N_n_0 and g = f - s, the probability of k > 1 times is      *)
(* (s * s * g^(k - 2)) / (N * f^(k - 1)), and what is left below k times is *)
(* the share of (s * g^(k - 2)) / (N * f^(k - 2)): each sum follows from    *)
(* the one before it, as f = g + s.                                         *)

IsPower(n, base, p) ==
    /\ p \in [0 .. n -> Int]
    /\ p[0] = 1 /\ \A k \in 1 .. n : p[k] = base * p[k - 1]

\* A power is what such a function has for it.
LEMMA PowerIs ==
    ASSUME NEW n \in Nat, NEW base \in Int
    PROVE  \E p : IsPower(n, base, p) /\ Power(base, n) = p[n]
<1> DEFINE Eq(p) == p = [k \in 0 .. n |-> IF k = 0 THEN 1 ELSE base * p[k - 1]]
           power == CHOOSE p : Eq(p)
           Step == [k \in 1 .. n |-> [x \in Int |-> base * x]]
<1>1. Step \in [1 .. n -> [Int -> Int]] /\ 1 \in Int
  OBVIOUS
<1>2. Recursions(n, Int, 1, Step) # {}
  <2> HIDE DEF Step
  <2> QED
    BY <1>1, RecursionUpTo
<1>3. PICK p \in [0 .. n -> Int] : p[0] = 1 /\ \A k \in 1 .. n : p[k] = Step[k][p[k - 1]]
  BY <1>2 DEF Recursions
<1>4. IsPower(n, base, p)
  <2>1. \A k \in 1 .. n : p[k - 1] \in Int
    OBVIOUS
  <2>2. \A k \in 1 .. n : Step[k][p[k - 1]] = base * p[k - 1]
    BY <2>1
  <2> HIDE DEF Step
  <2> QED
    BY <1>3, <2>2 DEF IsPower
<1>5. Eq(p)
  <2>1. \A k \in 0 .. n : p[k] = IF k = 0 THEN 1 ELSE base * p[k - 1]
    BY <1>4 DEF IsPower
  <2>2. p = [k \in 0 .. n |-> p[k]]
    OBVIOUS
  <2> QED
    BY <2>1, <2>2
<1>6. Eq(power)
  <2> HIDE DEF Eq
  <2> QED
    BY <1>5
<1>7. Power(base, n) = power[n]
  BY DEF Power
<1> HIDE DEF power
<1>8. power[n] = p[n]
  <2> DEFINE T == {k \in 0 .. n : power[k] = p[k]}
  <2>1. 0 \in T
    BY <1>5, <1>6
  <2>2. ASSUME NEW k \in 1 .. n, k - 1 \in T PROVE k \in T
    <3>1. power[k] = base * power[k - 1] /\ p[k] = base * p[k - 1]
      BY <1>5, <1>6
    <3> QED
      BY <2>2, <3>1
  <2>3. n \in T
    <3> HIDE DEF T
    <3>1. 0 .. n \subseteq T
      BY <2>1, <2>2, InductionUpTo
    <3> QED
      BY <3>1
  <2> QED
    BY <2>3
<1> QED
  BY <1>4, <1>7, <1>8

\* No factor, and one factor more.
LEMMA PowerStep ==
    ASSUME NEW base \in Int
    PROVE  /\ Power(base, 0) = 1
           /\ \A n \in Nat : /\ Power(base, n) \in Int
                             /\ Power(base, n + 1) = base * Power(base, n)
<1>1. Power(base, 0) = 1
  <2>1. PICK p : IsPower(0, base, p) /\ Power(base, 0) = p[0]
    BY PowerIs
  <2> QED
    BY <2>1 DEF IsPower
<1>2. ASSUME NEW n \in Nat
      PROVE  Power(base, n) \in Int /\ Power(base, n + 1) = base * Power(base, n)
  <2>1. PICK p : IsPower(n, base, p) /\ Power(base, n) = p[n]
    BY PowerIs
  <2>2. PICK q : IsPower(n + 1, base, q) /\ Power(base, n + 1) = q[n + 1]
    BY PowerIs
  <2> DEFINE T == {k \in 0 .. n : p[k] = q[k]}
  <2>3. 0 \in T
    BY <2>1, <2>2 DEF IsPower
  <2>4. ASSUME NEW k \in 1 .. n, k - 1 \in T PROVE k \in T
    <3>1. p[k] = base * p[k - 1] /\ q[k] = base * q[k - 1]
      BY <2>1, <2>2 DEF IsPower
    <3> QED
      BY <2>4, <3>1
  <2>5. n \in T
    <3> HIDE DEF T
    <3>1. 0 .. n \subseteq T
      BY <2>3, <2>4, InductionUpTo
    <3> QED
      BY <3>1
  <2>6. q[n + 1] = base * q[n] /\ p[n] \in Int
    BY <2>1, <2>2 DEF IsPower
  <2> QED
    BY <2>1, <2>2, <2>5, <2>6
<1> QED
  BY <1>1, <1>2

\* The greater base has the greater power.
LEMMA PowersOrdered ==
    ASSUME NEW f \in Nat \ {0}, NEW g \in Nat, g <= f, NEW n \in Nat
    PROVE  Power(f, n) \in Nat \ {0} /\ Power(g, n) \in Nat /\ Power(g, n) <= Power(f, n)
<1> DEFINE T == {k \in 0 .. n : /\ Power(f, k) \in Nat \ {0} /\ Power(g, k) \in Nat
                                /\ Power(g, k) <= Power(f, k)}
<1>1. 0 \in T
  <2>1. Power(f, 0) = 1 /\ Power(g, 0) = 1
    BY PowerStep
  <2> QED
    BY <2>1
<1>2. ASSUME NEW k \in 1 .. n, k - 1 \in T PROVE k \in T
  <2> DEFINE x == Power(f, k - 1)
             y == Power(g, k - 1)
  <2>1. x \in Nat \ {0} /\ y \in Nat /\ y <= x
    BY <1>2
  <2>2. Power(f, k) = f * x /\ Power(g, k) = g * y
    <3>1. k - 1 \in Nat /\ (k - 1) + 1 = k
      OBVIOUS
    <3>2. /\ Power(f, (k - 1) + 1) = f * Power(f, k - 1)
          /\ Power(g, (k - 1) + 1) = g * Power(g, k - 1)
      BY <3>1, PowerStep
    <3> QED
      BY <3>1, <3>2
  <2> HIDE DEF x, y
  <2>3. f * x \in Nat \ {0} /\ g * y \in Nat
    BY <2>1
  <2>4. g * y <= f * y /\ f * y <= f * x
    BY <2>1
  <2>5. f * y \in Int
    BY <2>1
  <2> QED
    BY <2>2, <2>3, <2>4, <2>5
<1>3. n \in T
  <2> HIDE DEF T
  <2>1. 0 .. n \subseteq T
    BY <1>1, <1>2, InductionUpTo
  <2> QED
    BY <2>1
<1> QED
  BY <1>3

\* The share is one, whatever is counted.
Share(d, x) == d \in Nat \ {0} /\ x \in Nat /\ x <= d

\* What is left of it: a share of (d - x) / d is taken.
IsLeft(p, d, x) ==
    /\ p = <<p[1], p[2]>> /\ p[1] \in Int /\ p[2] \in Nat \ {0}
    /\ p[1] * d = p[2] * (d - x)

\* So what is taken is a probability, and what remains is one.
LEMMA LeftPoss ==
    ASSUME NEW p, NEW d, NEW x, Share(d, x), IsLeft(p, d, x)
    PROVE  0 <= p[1] /\ p[1] <= p[2]
<1> DEFINE a == p[1]
           b == p[2]
<1>1. /\ d \in Nat \ {0} /\ x \in Nat /\ x <= d /\ a \in Int /\ b \in Nat \ {0}
      /\ a * d = b * (d - x)
  BY DEF Share, IsLeft
<1> HIDE DEF a, b
<1>2. d - x \in Nat /\ b * (d - x) >= 0 /\ b * (d - x) <= b * d
  <2>1. d - x \in Nat /\ d - x <= d
    BY <1>1
  <2> DEFINE y == d - x
  <2>2. y \in Nat /\ y <= d
    BY <2>1
  <2> HIDE DEF y
  <2>3. b * y >= 0 /\ b * y <= b * d
    BY <1>1, <2>2
  <2> QED
    BY <2>2, <2>3 DEF y
<1>3. a >= 0
  <2>1. a < 0 => a * d < 0
    BY <1>1
  <2> QED
    BY <1>1, <1>2, <2>1
<1>4. a <= b
  <2>1. a > b => a * d > b * d
    BY <1>1
  <2> QED
    BY <1>1, <1>2, <2>1
<1> QED
  BY <1>3, <1>4 DEF a, b

\* The next probability: the share shrinks by g / f, and f = g + s.
LEMMA LeftStep ==
    ASSUME NEW s \in Nat, NEW g \in Nat, NEW d \in Nat \ {0}, NEW x \in Nat,
           NEW p, IsLeft(p, d, x), NEW one, one = <<s * x, d * (g + s)>>, g + s # 0
    PROVE  IsLeft(Sum(p, one), d * (g + s), x * g)
<1> DEFINE f == g + s
           a == p[1]
           b == p[2]
           e == d * f
<1>1. a \in Int /\ b \in Nat \ {0} /\ a * d = b * (d - x) /\ f \in Nat \ {0}
  BY DEF IsLeft
<1>2. Sum(p, one) = <<(a * e) + ((s * x) * b), b * e>>
  BY DEF Sum
<1>3. e \in Nat \ {0}
  BY <1>1
<1> HIDE DEF f, a, b, e
<1>4. b * e \in Nat \ {0} /\ (a * e) + ((s * x) * b) \in Int
  BY <1>1, <1>3
<1>5. (a * e) + ((s * x) * b) = b * (e - (x * g))
  <2>1. a * e = (a * d) * f
    BY <1>1 DEF e
  <2>2. (a * d) * f = (b * (d - x)) * f
    BY <1>1
  <2>3. (b * (d - x)) * f = b * (e - (x * f))
    BY <1>1 DEF e
  <2>4. x * f = (x * g) + (s * x)
    BY DEF f
  <2>5. b * (e - (x * f)) = (b * (e - (x * g))) - ((s * x) * b)
    BY <1>1, <1>3, <2>4
  <2> DEFINE u == b * (e - (x * g))
             v == (s * x) * b
             w == a * e
  <2>6. u \in Int /\ v \in Int /\ w = u - v
    BY <1>1, <1>3, <2>1, <2>2, <2>3, <2>5
  <2> HIDE DEF u, v, w
  <2>7. w + v = u
    BY <2>6
  <2> QED
    BY <2>7 DEF u, v, w
<1>6. ((a * e) + ((s * x) * b)) * e = (b * e) * (e - (x * g))
  <2> DEFINE u == (a * e) + ((s * x) * b)
             z == e - (x * g)
  <2>1. u = b * z /\ z \in Int
    BY <1>3, <1>5
  <2> HIDE DEF u, z
  <2>2. u * e = (b * e) * z
    BY <1>1, <1>3, <2>1
  <2> QED
    BY <2>2 DEF u, z
<1>7. IsLeft(Sum(p, one), e, x * g)
  <2> DEFINE q == Sum(p, one)
  <2>1. q = <<q[1], q[2]>> /\ q[1] = (a * e) + ((s * x) * b) /\ q[2] = b * e
    BY <1>2
  <2> HIDE DEF q
  <2>2. IsLeft(q, e, x * g)
    BY <1>4, <1>6, <2>1 DEF IsLeft
  <2> QED
    BY <2>2 DEF q
<1> QED
  BY <1>7 DEF e, f

Several(item) == item.m_N_n_0 - item.m_n_1
Further(item) == item.m_WC - item.m_N_n_0

\* The share that is left below k times.
Whole(N, item, k) == IF Further(item) = 0 THEN 1 ELSE N * Power(Further(item), k - 2)
Part(N, item, k) ==
    IF Further(item) = 0 THEN 0
    ELSE Several(item) * Power(Further(item) - Several(item), k - 2)

\* An item that is possible: no pair is counted twice in a document without being
\* counted once more, and if none is, no document has it twice.
LEMMA FurtherIs ==
    ASSUME NEW N \in Nat \ {0}, NEW item \in Item, ItemPossible(N, item)
    PROVE  /\ Several(item) \in Nat /\ Further(item) \in Nat /\ Several(item) <= N
           /\ Several(item) <= Further(item)
           /\ (item.m_WC = item.m_n_1 /\ Several(item) = 0) <=> Further(item) = 0
<1> DEFINE WC == item.m_WC
           n0 == item.m_N_n_0
           n1 == item.m_n_1
<1>1. /\ WC \in Nat /\ n0 \in Nat /\ n1 \in Nat
      /\ n0 <= N /\ n1 <= n0 /\ WC >= n1 + 2 * (n0 - n1)
  BY DEF Item, ItemPossible
<1>2. Several(item) = n0 - n1 /\ Further(item) = WC - n0
  BY DEF Several, Further
<1> HIDE DEF WC, n0, n1
<1>3. (WC = n1 /\ n0 - n1 = 0) <=> WC - n0 = 0
  BY <1>1
<1>4. n0 - n1 \in Nat /\ WC - n0 \in Nat /\ n0 - n1 <= N /\ n0 - n1 <= WC - n0
  BY <1>1
<1>5. item.m_WC = item.m_n_1 <=> WC = n1
  BY DEF WC, n1
<1> QED
  BY <1>2, <1>3, <1>4, <1>5

\* It is a share.
LEMMA ShareIs ==
    ASSUME NEW N \in Nat \ {0}, NEW item \in Item, ItemPossible(N, item),
           NEW k \in Nat \ {0, 1}
    PROVE  Share(Whole(N, item, k), Part(N, item, k))
<1> DEFINE s == Several(item)
           f == Further(item)
           x == Power(f, k - 2)
           y == Power(f - s, k - 2)
<1>1. s \in Nat /\ f \in Nat /\ s <= N /\ s <= f
  BY FurtherIs
<1>2. CASE f = 0
  BY <1>2 DEF Whole, Part, Share
<1>3. CASE f # 0
  <2>1. k - 2 \in Nat /\ f \in Nat \ {0} /\ f - s \in Nat /\ f - s <= f
    BY <1>1, <1>3
  <2>2. x \in Nat \ {0} /\ y \in Nat /\ y <= x
    BY <2>1, PowersOrdered
  <2>3. Whole(N, item, k) = N * x /\ Part(N, item, k) = s * y
    BY <1>3 DEF Whole, Part
  <2> HIDE DEF s, f, x, y
  <2>4. N * x \in Nat \ {0} /\ s * y \in Nat
    BY <1>1, <2>2
  <2>5. s * y <= N * y /\ N * y <= N * x /\ N * y \in Int
    BY <1>1, <2>2
  <2> QED
    BY <2>3, <2>4, <2>5 DEF Share
<1> QED
  BY <1>2, <1>3

\* What the probability of k times takes of it.
IsTakenOf(one, s, g, d, x) ==
    /\ s \in Nat /\ g \in Nat /\ g + s # 0 /\ one = <<s * x, d * (g + s)>>

LEMMA OnePossTakes ==
    ASSUME NEW N \in Nat \ {0}, NEW item \in Item, ItemPossible(N, item),
           NEW k \in Nat \ {0, 1}
    PROVE  \E s, g : /\ IsTakenOf(OnePoss(N, item, k), s, g, Whole(N, item, k), Part(N, item, k))
                     /\ Whole(N, item, k + 1) = Whole(N, item, k) * (g + s)
                     /\ Part(N, item, k + 1) = Part(N, item, k) * g
<1> DEFINE s == Several(item)
           f == Further(item)
           g == f - s
<1>1. s \in Nat /\ f \in Nat /\ s <= f /\ ((item.m_WC = item.m_n_1 /\ s = 0) <=> f = 0)
  BY FurtherIs
<1>2. CASE f = 0
  <2>1. OnePoss(N, item, k) = <<0, 1>>
    <3>1. item.m_WC = item.m_n_1 /\ item.m_N_n_0 - item.m_n_1 = 0
      BY <1>1, <1>2 DEF Several
    <3>2. k > 1 /\ k # 0 /\ k # 1
      OBVIOUS
    <3> QED
      BY <3>1, <3>2 DEF OnePoss
  <2>2. \A j \in Nat : Whole(N, item, j) = 1 /\ Part(N, item, j) = 0
    BY <1>2 DEF Whole, Part
  <2>3. Whole(N, item, k) = 1 /\ Part(N, item, k) = 0
        /\ Whole(N, item, k + 1) = 1 /\ Part(N, item, k + 1) = 0
    BY <2>2
  <2>4. IsTakenOf(<<0, 1>>, 0, 1, 1, 0)
    BY DEF IsTakenOf
  <2>5. IsTakenOf(OnePoss(N, item, k), 0, 1, Whole(N, item, k), Part(N, item, k))
    BY <2>1, <2>3, <2>4
  <2> QED
    BY <2>3, <2>5
<1>3. CASE f # 0
  <2> DEFINE x == Power(f, k - 2)
             y == Power(g, k - 2)
  <2>1. k - 2 \in Nat /\ k - 1 = (k - 2) + 1 /\ (k + 1) - 2 = (k - 2) + 1 /\ g \in Int /\ f \in Int
    BY <1>1
  <2>2. /\ Power(f, k - 1) = f * x /\ Power(g, (k + 1) - 2) = g * y
        /\ Power(f, (k + 1) - 2) = f * x /\ x \in Int /\ y \in Int
    <3>1. /\ x \in Int /\ Power(f, (k - 2) + 1) = f * x
          /\ y \in Int /\ Power(g, (k - 2) + 1) = g * y
      BY <2>1, PowerStep
    <3> QED
      BY <2>1, <3>1
  <2>3. OnePoss(N, item, k) = <<s * s * y, N * (f * x)>>
    <3>1. ~(item.m_WC = item.m_n_1 /\ s = 0)
      BY <1>1, <1>3
    <3>2. OnePoss(N, item, k) = <<s * s * Power(g, k - 2), N * Power(f, k - 1)>>
      BY <3>1 DEF OnePoss, Several, Further
    <3> QED
      BY <2>2, <3>2
  <2>4. /\ Whole(N, item, k) = N * x /\ Part(N, item, k) = s * y
        /\ Whole(N, item, k + 1) = N * (f * x) /\ Part(N, item, k + 1) = s * (g * y)
    <3>1. /\ Whole(N, item, k + 1) = N * Power(f, (k + 1) - 2)
          /\ Part(N, item, k + 1) = s * Power(g, (k + 1) - 2)
          /\ Whole(N, item, k) = N * x /\ Part(N, item, k) = s * y
      BY <1>3 DEF Whole, Part
    <3> QED
      BY <2>2, <3>1
  <2>5. g \in Nat /\ g + s = f
    BY <1>1
  <2> HIDE DEF s, f, g, x, y
  <2>6. s * s * y = s * (s * y) /\ N * (f * x) = (N * x) * f /\ s * (g * y) = (s * y) * g
    BY <1>1, <2>2, <2>5
  <2>7. IsTakenOf(OnePoss(N, item, k), s, g, Whole(N, item, k), Part(N, item, k))
    BY <1>1, <1>3, <2>3, <2>4, <2>5, <2>6 DEF IsTakenOf
  <2> QED
    BY <2>4, <2>5, <2>6, <2>7
<1> QED
  BY <1>2, <1>3

\* Each is a probability.
LEMMA OnePossIs ==
    ASSUME NEW N \in Nat \ {0}, NEW item \in Item, ItemPossible(N, item), NEW k \in Nat
    PROVE  /\ OnePoss(N, item, k) \in Int \X Int
           /\ IsPoss(OnePoss(N, item, k))
<1>1. CASE k = 0
  BY <1>1 DEF OnePoss, IsPoss, Item, ItemPossible
<1>2. CASE k = 1
  BY <1>2 DEF OnePoss, IsPoss, Item, ItemPossible
<1>3. CASE k \notin {0, 1}
  <2> DEFINE d == Whole(N, item, k)
             x == Part(N, item, k)
             one == OnePoss(N, item, k)
  <2>1. Share(d, x)
    BY <1>3, ShareIs
  <2>2. PICK s, g : IsTakenOf(one, s, g, d, x)
    BY <1>3, OnePossTakes
  <2> HIDE DEF d, x, one
  <2> DEFINE f == g + s
  <2>3. /\ d \in Nat \ {0} /\ x \in Nat /\ x <= d
        /\ s \in Nat /\ f \in Nat \ {0} /\ s <= f /\ one = <<s * x, d * f>>
    BY <2>1, <2>2 DEF Share, IsTakenOf
  <2> HIDE DEF f
  <2>4. s * x \in Nat /\ d * f \in Nat \ {0} /\ s * x <= f * x /\ f * x <= d * f /\ f * x \in Int
    BY <2>3
  <2>5. one[1] = s * x /\ one[2] = d * f /\ one \in Int \X Int
    BY <2>3, <2>4
  <2>6. one \in Int \X Int /\ IsPoss(one)
    BY <2>4, <2>5 DEF IsPoss
  <2> QED
    BY <2>6 DEF one
<1> QED
  BY <1>1, <1>2, <1>3

\* What is taken below each number of times.
IsTaken(N, item, taken) ==
    /\ taken \in [0 .. g_prune_k -> Int \X Int]
    /\ taken[0] = <<0, 1>>
    /\ \A k \in 1 .. g_prune_k : taken[k] = Sum(taken[k - 1], OnePoss(N, item, k - 1))

\* What remains is what such a function leaves.
LEMMA RemainedIs ==
    ASSUME NEW N, NEW item, \A k \in Nat : OnePoss(N, item, k) \in Int \X Int
    PROVE  \E taken : /\ IsTaken(N, item, taken)
                      /\ RemainedPoss(N, item)
                            = <<taken[g_prune_k][2] - taken[g_prune_k][1], taken[g_prune_k][2]>>
<1> DEFINE n == g_prune_k
           Pair == Int \X Int
           one(k) == OnePoss(N, item, k)
           Eq(p) == p = [k \in 0 .. n |-> IF k = 0 THEN <<0, 1>> ELSE Sum(p[k - 1], one(k - 1))]
           all == CHOOSE p : Eq(p)
           Step == [k \in 1 .. n |-> [x \in Pair |-> Sum(x, one(k - 1))]]
<1>1. n \in Nat
  BY KMixtureModelAssumption
<1>2. \A k \in 1 .. n : \A x \in Pair : Sum(x, one(k - 1)) \in Pair
  <2> TAKE k \in 1 .. n
  <2> TAKE x \in Pair
  <2>1. one(k - 1) \in Int \X Int
    BY <1>1
  <2> HIDE DEF one
  <2> QED
    BY <2>1 DEF Sum
<1>3. Step \in [1 .. n -> [Pair -> Pair]] /\ <<0, 1>> \in Pair
  <2> HIDE DEF one
  <2> QED
    BY <1>2
<1>4. Recursions(n, Pair, <<0, 1>>, Step) # {}
  <2> HIDE DEF Step, Pair, n
  <2> QED
    BY <1>1, <1>3, RecursionUpTo
<1>5. PICK p \in [0 .. n -> Pair] : p[0] = <<0, 1>> /\ \A k \in 1 .. n : p[k] = Step[k][p[k - 1]]
  <2> HIDE DEF Step, Pair, n
  <2> QED
    BY <1>4 DEF Recursions
<1>6. \A k \in 1 .. n : p[k] = Sum(p[k - 1], one(k - 1))
  <2>1. \A k \in 1 .. n : p[k - 1] \in Pair
    BY <1>1
  <2> HIDE DEF one, Pair
  <2>2. \A k \in 1 .. n : Step[k][p[k - 1]] = Sum(p[k - 1], one(k - 1))
    BY <2>1
  <2> HIDE DEF Step
  <2> QED
    BY <1>5, <2>2
<1>7. IsTaken(N, item, p)
  BY <1>5, <1>6 DEF IsTaken
<1> HIDE DEF one
<1>8. Eq(p)
  <2>1. \A k \in 0 .. n : p[k] = IF k = 0 THEN <<0, 1>> ELSE Sum(p[k - 1], one(k - 1))
    BY <1>1, <1>5, <1>6
  <2>2. p = [k \in 0 .. n |-> p[k]]
    BY <1>5
  <2> QED
    BY <2>1, <2>2
<1>9. Eq(all)
  <2> HIDE DEF Eq
  <2> QED
    BY <1>8
<1>10. RemainedPoss(N, item) = <<all[n][2] - all[n][1], all[n][2]>>
  BY DEF RemainedPoss, one
<1> HIDE DEF all
<1>11. all[n] = p[n]
  <2> DEFINE T == {k \in 0 .. n : all[k] = p[k]}
  <2>1. 0 \in T
    BY <1>1, <1>8, <1>9
  <2>2. ASSUME NEW k \in 1 .. n, k - 1 \in T PROVE k \in T
    <3>1. k \in 0 .. n /\ k # 0
      BY <1>1
    <3> HIDE DEF n
    <3>2. all[k] = Sum(all[k - 1], one(k - 1)) /\ p[k] = Sum(p[k - 1], one(k - 1))
      BY <1>8, <1>9, <3>1
    <3> QED
      BY <2>2, <3>1, <3>2
  <2>3. n \in T
    <3> HIDE DEF T, n
    <3>1. 0 .. n \subseteq T
      BY <1>1, <2>1, <2>2, InductionUpTo
    <3> QED
      BY <1>1, <3>1
  <2> QED
    BY <2>3
<1> QED
  BY <1>7, <1>10, <1>11

\* Once the probabilities of none and of one are taken, the share is left.
LEMMA TakenTwo ==
    ASSUME NEW N \in Nat \ {0}, NEW item \in Item, ItemPossible(N, item),
           NEW taken, IsTaken(N, item, taken), g_prune_k >= 2
    PROVE  IsLeft(taken[2], Whole(N, item, 2), Part(N, item, 2))
<1> DEFINE n0 == item.m_N_n_0
           n1 == item.m_n_1
           s == Several(item)
<1>1. g_prune_k \in Nat
  BY KMixtureModelAssumption
<1>2. n0 \in Nat /\ n1 \in Nat /\ s = n0 - n1 /\ n1 <= n0 /\ n0 <= N
  BY DEF Item, ItemPossible, Several
<1>3. taken[1] = <<(0 * N) + ((N - n0) * 1), 1 * N>>
  <2>0. 1 \in 1 .. g_prune_k /\ 1 - 1 = 0
    BY <1>1
  <2>1. taken[1] = Sum(<<0, 1>>, OnePoss(N, item, 0))
    BY <2>0 DEF IsTaken
  <2>2. OnePoss(N, item, 0) = <<N - n0, N>>
    BY DEF OnePoss
  <2> QED
    BY <2>1, <2>2 DEF Sum
<1>4. taken[2] = <<((N - n0) * N) + (n1 * N), N * N>>
  <2>0. 2 \in 1 .. g_prune_k /\ 2 - 1 = 1
    BY <1>1
  <2>1. taken[2] = Sum(taken[1], OnePoss(N, item, 1))
    BY <2>0 DEF IsTaken
  <2>2. OnePoss(N, item, 1) = <<n1, N>>
    BY DEF OnePoss
  <2> HIDE DEF n0, n1
  <2>3. taken[1] = <<N - n0, N>>
    BY <1>2, <1>3
  <2> QED
    BY <2>1, <2>2, <2>3 DEF Sum
<1>5. CASE Further(item) = 0
  <2>1. s = 0
    BY <1>5, FurtherIs
  <2>2. Whole(N, item, 2) = 1 /\ Part(N, item, 2) = 0
    BY <1>5 DEF Whole, Part
  <2> HIDE DEF n0, n1, s
  <2>3. ((N - n0) * N) + (n1 * N) = N * N /\ N * N \in Nat \ {0}
    BY <1>2, <2>1
  <2>4. taken[2] = <<N * N, N * N>>
    BY <1>4, <2>3
  <2> QED
    BY <2>2, <2>3, <2>4 DEF IsLeft
<1>6. CASE Further(item) # 0
  <2>1. Power(Further(item), 0) = 1 /\ Power(Further(item) - s, 0) = 1
    <3>1. Further(item) \in Int /\ Further(item) - s \in Int
      BY FurtherIs
    <3> QED
      BY <3>1, PowerStep
  <2>2. Whole(N, item, 2) = N /\ Part(N, item, 2) = s
    <3>1. Whole(N, item, 2) = N * 1 /\ Part(N, item, 2) = s * 1
      BY <1>6, <2>1 DEF Whole, Part
    <3> QED
      BY <1>2, <3>1
  <2> HIDE DEF n0, n1, s
  <2>3. ((N - n0) * N) + (n1 * N) = N * (N - s) /\ N * N \in Nat \ {0}
    BY <1>2
  <2>4. N * (N - s) \in Int /\ (N * (N - s)) * N = (N * N) * (N - s)
    BY <1>2
  <2>5. taken[2] = <<N * (N - s), N * N>>
    BY <1>4, <2>3
  <2> QED
    BY <2>2, <2>3, <2>4, <2>5 DEF IsLeft
<1> QED
  BY <1>5, <1>6

\* And each probability after them takes what OnePossTakes says.
LEMMA TakenLeft ==
    ASSUME NEW N \in Nat \ {0}, NEW item \in Item, ItemPossible(N, item),
           NEW taken, IsTaken(N, item, taken), g_prune_k >= 2
    PROVE  IsLeft(taken[g_prune_k], Whole(N, item, g_prune_k), Part(N, item, g_prune_k))
<1> DEFINE n == g_prune_k - 2
           left(k) == IsLeft(taken[k], Whole(N, item, k), Part(N, item, k))
           T == {j \in 0 .. n : left(j + 2)}
<1>1. g_prune_k \in Nat /\ n \in Nat /\ n + 2 = g_prune_k
  BY KMixtureModelAssumption
<1>2. 0 \in T
  <2>1. left(2)
    BY TakenTwo
  <2> HIDE DEF left
  <2> QED
    BY <1>1, <2>1
<1>3. ASSUME NEW j \in 1 .. n, j - 1 \in T PROVE j \in T
  <2> DEFINE k == j + 1
             d == Whole(N, item, k)
             x == Part(N, item, k)
             p == taken[k]
             one == OnePoss(N, item, k)
  <2>1. k \in Nat \ {0, 1} /\ k + 1 = j + 2 /\ (j - 1) + 2 = k /\ k + 1 \in 1 .. g_prune_k
        /\ (k + 1) - 1 = k
    BY <1>1
  <2>2. IsLeft(p, d, x)
    BY <1>3, <2>1
  <2>3. taken[k + 1] = Sum(p, one)
    BY <2>1 DEF IsTaken
  <2>4. Share(d, x)
    BY <2>1, ShareIs
  <2>5. PICK s, g : /\ IsTakenOf(one, s, g, d, x)
                    /\ Whole(N, item, k + 1) = d * (g + s)
                    /\ Part(N, item, k + 1) = x * g
    BY <2>1, OnePossTakes
  <2> HIDE DEF d, x, p, one
  <2>6. IsLeft(Sum(p, one), d * (g + s), x * g)
    BY <2>2, <2>4, <2>5, LeftStep DEF Share, IsTakenOf
  <2>7. left(k + 1)
    BY <2>3, <2>5, <2>6
  <2> HIDE DEF left, k
  <2>8. left(j + 2)
    BY <2>1, <2>7
  <2> QED
    BY <2>8
<1>4. n \in T
  <2> HIDE DEF T, n
  <2>1. 0 .. n \subseteq T
    BY <1>1, <1>2, <1>3, InductionUpTo
  <2> QED
    BY <1>1, <2>1
<1>5. left(n + 2)
  BY <1>4
<1> HIDE DEF left, n
<1>6. left(g_prune_k)
  BY <1>1, <1>5
<1> QED
  BY <1>6 DEF left

\* What remains is a probability.
LEMMA RemainedRight ==
    ASSUME NEW N \in Nat \ {0}, NEW item \in Item, ItemPossible(N, item)
    PROVE  IsPoss(RemainedPoss(N, item))
<1> DEFINE n == g_prune_k
           remained == RemainedPoss(N, item)
<1>1. n \in Nat \ {0}
  BY KMixtureModelAssumption
<1>2. PICK taken : /\ IsTaken(N, item, taken)
                   /\ remained = <<taken[n][2] - taken[n][1], taken[n][2]>>
  BY OnePossIs, RemainedIs
<1>3. CASE n = 1
  <2>1. taken[1] = Sum(<<0, 1>>, OnePoss(N, item, 0))
    BY <1>2, <1>3 DEF IsTaken
  <2>2. OnePoss(N, item, 0) = <<N - item.m_N_n_0, N>>
    BY DEF OnePoss
  <2>3. taken[1] = <<(0 * N) + ((N - item.m_N_n_0) * 1), 1 * N>>
    BY <2>1, <2>2 DEF Sum
  <2>4. item.m_N_n_0 \in 0 .. N
    BY DEF Item, ItemPossible
  <2> DEFINE n0 == item.m_N_n_0
  <2> HIDE DEF remained, n0
  <2>5. taken[1] = <<N - n0, N>>
    BY <2>3, <2>4 DEF n0
  <2>6. remained = <<N - (N - n0), N>> /\ n0 \in 0 .. N
    BY <1>2, <1>3, <2>4, <2>5 DEF n0
  <2>7. IsPoss(remained)
    BY <2>6 DEF IsPoss
  <2> QED
    BY <2>7 DEF remained
<1>4. CASE n # 1
  <2>1. n >= 2
    BY <1>1, <1>4
  <2>2. IsLeft(taken[n], Whole(N, item, n), Part(N, item, n))
    BY <1>2, <2>1, TakenLeft
  <2>3. Share(Whole(N, item, n), Part(N, item, n))
    BY <1>1, <1>4, ShareIs
  <2> DEFINE p == taken[n]
  <2>4. 0 <= p[1] /\ p[1] <= p[2] /\ p[1] \in Int /\ p[2] \in Nat \ {0}
    <3>1. 0 <= p[1] /\ p[1] <= p[2]
      <4> HIDE DEF p
      <4> QED
        BY <2>2, <2>3, LeftPoss DEF p
    <3> QED
      BY <2>2, <3>1 DEF IsLeft
  <2> HIDE DEF remained, p
  <2>5. remained = <<p[2] - p[1], p[2]>>
    BY <1>2 DEF p
  <2>6. IsPoss(remained)
    BY <2>4, <2>5 DEF IsPoss
  <2> QED
    BY <2>6 DEF remained
<1> QED
  BY <1>3, <1>4

\* Whatever is trained, merged and pruned, every probability that is computed from a
\* model no tool refused is one, and each second word has its header:
\* prune_k_mixture_model gets to its end.
THEOREM PruningNeverStops == Spec => []PruneNeverStops
<1>1. IInv /\ Balanced => PruneNeverStops
  <2> SUFFICES ASSUME IInv, Balanced, NEW file \in Good, NEW t \in DOMAIN models[file].grams
               PROVE  /\ \A u \in DOMAIN models[file].grams[t].items :
                             PossRight(models[file].header.m_N, models[file].grams[t].items[u])
                      /\ DOMAIN models[file].grams[t].items \subseteq DOMAIN models[file].grams
    BY DEF PruneNeverStops
  <2> DEFINE model == models[file]
             N == model.header.m_N
  <2>1. PossibleModel(model) /\ BalancedModel(model) /\ model.header # NoHeader
    BY DEF IInv, Balanced, Good
  <2> HIDE DEF model
  <2>2. N \in Nat \ {0} /\ BalancedGram(model.grams, t) /\ PossibleGram(N, model.grams[t])
    BY <2>1 DEF BalancedModel, BalancedGrams, PossibleModel, EmptyModel, model
  <2>3. DOMAIN model.grams[t].items \subseteq DOMAIN model.grams
    BY <2>2 DEF BalancedGram, SummedGram
  <2>4. ASSUME NEW u \in DOMAIN model.grams[t].items
        PROVE  PossRight(N, model.grams[t].items[u])
    <3> DEFINE item == model.grams[t].items[u]
    <3>1. item \in Item /\ ItemPossible(N, item)
      BY <2>2 DEF PossibleGram
    <3>2. g_prune_k \in Nat
      BY KMixtureModelAssumption
    <3> HIDE DEF item, N
    <3>3. IsPoss(RemainedPoss(N, item))
      BY <2>2, <3>1, RemainedRight
    <3>4. \A k \in 0 .. g_prune_k - 1 : IsPoss(OnePoss(N, item, k))
      BY <2>2, <3>1, <3>2, OnePossIs
    <3>5. PossRight(N, item)
      BY <3>3, <3>4 DEF PossRight
    <3> QED
      BY <3>5 DEF item
  <2> QED
    BY <2>3, <2>4 DEF model
<1> QED
  BY <1>1, InitPossible, StepPossible, InitBalanced, StepBalanced, PTL DEF Spec

-----------------------------------------------------------------------------
(* The words of a model.  A second word is one of a document: the start of *)
(* a sentence is never one, and so has no frequency.                       *)

SecondsAreTokens(grams) == \A t \in DOMAIN grams : DOMAIN grams[t].items \subseteq Token

WordsFollow ==
    /\ \A file \in File \ refused : SecondsAreTokens(models[file].grams)
    /\ SecondsAreTokens(Imported(text.lines).grams)

\* The word of a pair is a word of its document.
LEMMA SecondIsToken ==
    ASSUME NEW document \in Document, NEW token1
    PROVE  SecondWords(document, token1) \subseteq Token
<1> SUFFICES ASSUME NEW t \in SecondWords(document, token1) PROVE t \in Token
  OBVIOUS
<1>1. PICK i \in Words(document) : t = document[i]
  BY DEF SecondWords, Pairs
<1>2. t # null_token /\ i \in DOMAIN document
  BY <1>1 DEF Words
<1>3. t \in Range(document)
  BY <1>1, <1>2 DEF Range
<1>4. \E d \in Document : t \in Range(d)
  BY <1>3
<1> QED
  BY <1>2, <1>4 DEF Token

LEMMA InitWords == Init => WordsFollow
<1> SUFFICES ASSUME Init PROVE WordsFollow
  OBVIOUS
<1>1. BalancedModel(EmptyModel)
  BY DEF BalancedModel
<1>2. Imported(Exported(EmptyModel)) = EmptyModel
  BY <1>1, ImportedExported
<1>3. SecondsAreTokens(EmptyModel.grams)
  BY DEF SecondsAreTokens, EmptyModel
<1> QED
  BY <1>2, <1>3 DEF Init, WordsFollow

\* A document adds words of its own, another model its words, pruning none.
LEMMA TrainKeepsWords ==
    ASSUME Balanced, WordsFollow, NEW file \in File, NEW document \in Document,
           Train(file, document)
    PROVE  WordsFollow'
<1> DEFINE grams == models[file].grams
           new == TrainedGrams(grams, document)
<1>1. /\ file \notin refused /\ text' = text /\ refused \subseteq refused'
      /\ \E header : models' = [models EXCEPT ![file] = [header |-> header, grams |-> new]]
  BY DEF Train
<1>2. /\ models'[file].grams = new
      /\ \A other \in File \ {file} : models'[other] = models[other]
  BY <1>1 DEF Balanced
<1>3. BalancedGrams(grams) /\ SecondsAreTokens(grams)
  <2>1. BalancedModel(models[file])
    BY <1>1 DEF Balanced
  <2> QED
    BY <1>1, <2>1, OldBalanced DEF WordsFollow
<1>4. ASSUME NEW t \in DOMAIN new PROVE DOMAIN new[t].items \subseteq Token
  <2> DEFINE gram == Get(grams, t, EmptyGram)
             kept == Kept(gram, document, t)
  <2>1. DOMAIN new[t].items = DOMAIN gram.items \cup kept
    <3> DEFINE items == [u \in DOMAIN gram.items \cup kept |->
                            IF u \notin kept THEN gram.items[u]
                            ELSE Counted(Get(gram.items, u, NoItem), PairCount(document, t, u))]
    <3>1. new[t] = [m_WC |-> gram.m_WC + Delta(gram, document, t),
                    m_freq |-> gram.m_freq + Remaining(grams, document, t), items |-> items]
      <4> HIDE DEF grams
      <4> QED
        BY <1>3, TrainedGramIs
    <3>2. DOMAIN items = DOMAIN gram.items \cup kept
      OBVIOUS
    <3> HIDE DEF items, gram, kept, grams, new
    <3> QED
      BY <3>1, <3>2
  <2>2. kept \subseteq Token
    BY SecondIsToken DEF Kept
  <2>3. DOMAIN gram.items \subseteq Token
    BY <1>3 DEF Get, EmptyGram, SecondsAreTokens
  <2> QED
    BY <2>1, <2>2, <2>3
<1>5. SecondsAreTokens(new)
  BY <1>4 DEF SecondsAreTokens
<1> QED
  BY <1>1, <1>2, <1>5 DEF WordsFollow

LEMMA MergeKeepsWords ==
    ASSUME Balanced, WordsFollow, NEW target \in File, NEW new_one \in File,
           Merge(target, new_one)
    PROVE  WordsFollow'
<1> DEFINE first == models[target].grams
           second == models[new_one].grams
           new == [t \in DOMAIN first \cup DOMAIN second |->
                      MergedGram(Get(first, t, EmptyGram), Get(second, t, EmptyGram))]
<1>1. /\ target \notin refused /\ new_one \notin refused
      /\ text' = text /\ refused \subseteq refused'
      /\ \E header : models' = [models EXCEPT ![target] = [header |-> header, grams |-> new]]
  BY DEF Merge
<1>2. /\ models'[target].grams = new
      /\ \A other \in File \ {target} : models'[other] = models[other]
  BY <1>1 DEF Balanced
<1>3. SecondsAreTokens(first) /\ SecondsAreTokens(second)
  BY <1>1 DEF WordsFollow
<1>4. ASSUME NEW t \in DOMAIN new PROVE DOMAIN new[t].items \subseteq Token
  <2> DEFINE a == Get(first, t, EmptyGram)
             b == Get(second, t, EmptyGram)
  <2>1. DOMAIN new[t].items = DOMAIN a.items \cup DOMAIN b.items
    BY DEF MergedGram
  <2>2. DOMAIN a.items \subseteq Token /\ DOMAIN b.items \subseteq Token
    BY <1>3 DEF Get, EmptyGram, SecondsAreTokens
  <2> QED
    BY <2>1, <2>2
<1>5. SecondsAreTokens(new)
  BY <1>4 DEF SecondsAreTokens
<1> QED
  BY <1>1, <1>2, <1>5 DEF WordsFollow

LEMMA PruneKeepsWords ==
    ASSUME Balanced, WordsFollow, NEW file \in File, Prune(file)
    PROVE  WordsFollow'
<1> DEFINE grams == models[file].grams
           removed == [t \in DOMAIN grams |-> RemovedWords(models[file].header.m_N, grams[t])]
           pruned == [t \in DOMAIN grams |-> PrunedGram(grams, removed, t)]
           left == {t \in DOMAIN pruned : pruned[t].m_WC # 0 \/ pruned[t].m_freq # 0}
           new == Restrict(pruned, left)
<1>1. /\ file \notin refused /\ text' = text /\ refused' = refused
      /\ \E header : models' = [models EXCEPT ![file] = [header |-> header, grams |-> new]]
  BY DEF Prune
<1>2. /\ models'[file].grams = new
      /\ \A other \in File \ {file} : models'[other] = models[other]
  BY <1>1 DEF Balanced
<1>3. SecondsAreTokens(grams)
  BY <1>1 DEF WordsFollow
<1>4. ASSUME NEW t \in DOMAIN new PROVE DOMAIN new[t].items \subseteq Token
  <2>1. t \in DOMAIN grams /\ new[t] = PrunedGram(grams, removed, t)
    BY DEF Restrict
  <2> HIDE DEF new, removed
  <2>2. DOMAIN new[t].items \subseteq DOMAIN grams[t].items
    BY <2>1 DEF PrunedGram, Restrict
  <2> QED
    BY <1>3, <2>1, <2>2 DEF SecondsAreTokens
<1>5. SecondsAreTokens(new)
  BY <1>4 DEF SecondsAreTokens
<1> QED
  BY <1>1, <1>2, <1>5 DEF WordsFollow

LEMMA TextKeepsWords ==
    ASSUME Balanced, WordsFollow, NEW file \in File, Export(file) \/ Import(file)
    PROVE  WordsFollow'
<1>1. CASE Export(file)
  <2>1. /\ BalancedModel(models[file]) /\ SecondsAreTokens(models[file].grams)
        /\ UNCHANGED <<models, refused>> /\ text'.lines = Exported(models[file])
    BY <1>1 DEF Export, Balanced, WordsFollow
  <2>2. Imported(Exported(models[file])) = models[file]
    BY <2>1, ImportedExported
  <2> QED
    BY <2>1, <2>2 DEF WordsFollow
<1>2. CASE Import(file)
  <2>1. /\ models' = [models EXCEPT ![file] = Imported(text.lines)]
        /\ UNCHANGED <<refused, text>>
    BY <1>2 DEF Import
  <2> QED
    BY <2>1 DEF WordsFollow, Balanced
<1> QED
  BY <1>1, <1>2

LEMMA StepWords == Balanced /\ WordsFollow /\ [Next]_vars => WordsFollow'
<1> SUFFICES ASSUME Balanced, WordsFollow, [Next]_vars PROVE WordsFollow'
  OBVIOUS
<1>1. CASE UNCHANGED vars
  BY <1>1 DEF vars, WordsFollow
<1>2. ASSUME NEW file \in File, NEW document \in Document, Train(file, document)
      PROVE  WordsFollow'
  BY <1>2, TrainKeepsWords
<1>3. ASSUME NEW target \in File, NEW new_one \in File, Merge(target, new_one)
      PROVE  WordsFollow'
  BY <1>3, MergeKeepsWords
<1>4. ASSUME NEW file \in File, Prune(file)
      PROVE  WordsFollow'
  BY <1>4, PruneKeepsWords
<1>5. ASSUME NEW file \in File, Export(file) \/ Import(file)
      PROVE  WordsFollow'
  BY <1>5, TextKeepsWords
<1> QED
  BY <1>1, <1>2, <1>3, <1>4, <1>5 DEF Next

-----------------------------------------------------------------------------
(* The interpolation model of a balanced text, loaded into the libraries   *)
(* and the bigram.                                                         *)

\* What import_interpolation has for each word of a model.
IsLoadedGram(gram, single) ==
    /\ single.total_freq = ItemCount(gram)
    /\ single.items = [u \in DOMAIN gram.items |-> gram.items[u].m_WC]

LEMMA LoadedBigram ==
    ASSUME NEW grams, BalancedGrams(grams), NEW model, model.grams = grams,
           NEW loaded, loaded = Loaded(Interpolation(Exported(model)))
    PROVE  /\ DOMAIN loaded.bigram = {t \in DOMAIN grams : DOMAIN grams[t].items # {}}
           /\ \A t \in DOMAIN loaded.bigram : IsLoadedGram(grams[t], loaded.bigram[t])
<1> DEFINE lines == Interpolation(Exported(model)).bigrams
           counts(t) == {line \in lines : line.token1 = t}
           items(t) == [u \in {line.token2 : line \in counts(t)} |->
                           (CHOOSE line \in counts(t) : line.token2 = u).count]
           total(t) == SumFunction([line \in counts(t) |-> line.count])
           firsts == {line.token1 : line \in lines}
<1>1. \A line : line \in lines <=>
          \E t \in DOMAIN grams : \E u \in DOMAIN grams[t].items :
              line = [token1 |-> t, token2 |-> u, count |-> grams[t].items[u].m_WC]
  <2> DEFINE pairs == Exported(model).bigrams
  <2>1. \A pair : pair \in pairs <=>
            \E t \in DOMAIN grams : \E u \in DOMAIN grams[t].items :
                pair = [token1 |-> t, token2 |-> u, item |-> grams[t].items[u]]
    BY DEF Exported
  <2>2. \A line : line \in lines <=>
            \E pair \in pairs : line = [token1 |-> pair.token1, token2 |-> pair.token2,
                                        count |-> pair.item.m_WC]
    BY DEF Interpolation
  <2> HIDE DEF pairs, lines
  <2>3. ASSUME NEW line \in lines
        PROVE  \E t \in DOMAIN grams : \E u \in DOMAIN grams[t].items :
                   line = [token1 |-> t, token2 |-> u, count |-> grams[t].items[u].m_WC]
    <3>1. PICK pair \in pairs : line = [token1 |-> pair.token1, token2 |-> pair.token2,
                                        count |-> pair.item.m_WC]
      BY <2>2
    <3>2a. PICK t \in DOMAIN grams : \E u \in DOMAIN grams[t].items :
              pair = [token1 |-> t, token2 |-> u, item |-> grams[t].items[u]]
      BY <2>1
    <3>2. PICK u \in DOMAIN grams[t].items :
              pair = [token1 |-> t, token2 |-> u, item |-> grams[t].items[u]]
      BY <3>2a
    <3>3. pair.token1 = t /\ pair.token2 = u /\ pair.item = grams[t].items[u]
      BY <3>2
    <3> QED
      BY <3>1, <3>3
  <2>4. ASSUME NEW t \in DOMAIN grams, NEW u \in DOMAIN grams[t].items
        PROVE  [token1 |-> t, token2 |-> u, count |-> grams[t].items[u].m_WC] \in lines
    <3> DEFINE pair == [token1 |-> t, token2 |-> u, item |-> grams[t].items[u]]
    <3>1. pair \in pairs /\ pair.token1 = t /\ pair.token2 = u
          /\ pair.item = grams[t].items[u]
      BY <2>1
    <3> HIDE DEF pair
    <3> QED
      BY <2>2, <3>1
  <2> QED
    BY <2>3, <2>4
<1>2. /\ DOMAIN loaded.bigram = firsts
      /\ \A t \in firsts : loaded.bigram[t] = [total_freq |-> total(t), items |-> items(t)]
  <2> HIDE DEF lines
  <2>1. loaded.bigram = [t \in firsts |-> [total_freq |-> total(t), items |-> items(t)]]
    BY DEF Loaded, lines
  <2> HIDE DEF firsts, total, items
  <2> QED
    BY <2>1
<1> HIDE DEF lines
<1>3. firsts = {t \in DOMAIN grams : DOMAIN grams[t].items # {}}
  <2>1. ASSUME NEW t \in firsts PROVE t \in DOMAIN grams /\ DOMAIN grams[t].items # {}
    BY <1>1
  <2>2. ASSUME NEW t \in DOMAIN grams, DOMAIN grams[t].items # {} PROVE t \in firsts
    <3>1. PICK u \in DOMAIN grams[t].items : TRUE
      BY <2>2
    <3> DEFINE line == [token1 |-> t, token2 |-> u, count |-> grams[t].items[u].m_WC]
    <3>2. line \in lines /\ line.token1 = t
      BY <1>1
    <3> HIDE DEF line
    <3> QED
      BY <3>2
  <2> QED
    BY <2>1, <2>2
<1>4. ASSUME NEW t \in DOMAIN grams
      PROVE  /\ total(t) = ItemCount(grams[t])
             /\ items(t) = [u \in DOMAIN grams[t].items |-> grams[t].items[u].m_WC]
  <2> DEFINE I == DOMAIN grams[t].items
             L == counts(t)
             line(u) == [token1 |-> t, token2 |-> u, count |-> grams[t].items[u].m_WC]
             b == [u \in I |-> line(u)]
             h == [u \in I |-> grams[t].items[u].m_WC]
             f == [l \in L |-> l.count]
  <2>1. \A l : l \in L <=> \E u \in I : l = line(u)
    <3>1. ASSUME NEW l \in L PROVE \E u \in I : l = line(u)
      <4>1a. PICK v \in DOMAIN grams : \E u \in DOMAIN grams[v].items :
                l = [token1 |-> v, token2 |-> u, count |-> grams[v].items[u].m_WC]
        BY <1>1
      <4>1. PICK u \in DOMAIN grams[v].items :
                l = [token1 |-> v, token2 |-> u, count |-> grams[v].items[u].m_WC]
        BY <4>1a
      <4>2. v = t
        BY <4>1
      <4> QED
        BY <4>1, <4>2
    <3>2. ASSUME NEW u \in I PROVE line(u) \in L
      <4>1. line(u) \in lines /\ line(u).token1 = t
        BY <1>1
      <4> HIDE DEF line
      <4> QED
        BY <4>1
    <3> QED
      BY <3>1, <3>2
  <2>2. \A u : line(u).token2 = u /\ line(u).count = grams[t].items[u].m_WC
    OBVIOUS
  <2>3. BalancedGram(grams, t)
    BY DEF BalancedGrams
  <2>4. IsFiniteSet(I) /\ \A u \in I : h[u] \in Int
    <3>1. IsFiniteSet(DOMAIN grams) /\ I \subseteq DOMAIN grams
      BY <2>3 DEF BalancedGrams, BalancedGram, SummedGram
    <3>2. \A u \in I : h[u] \in Int
      BY <2>3 DEF BalancedGram, SummedGram
    <3> HIDE DEF I
    <3> QED
      BY <3>1, <3>2, FS_Subset
  <2> HIDE DEF L, line
  <2>5. IsRenaming(b, I, L)
    <3>1. b \in [I -> L] /\ \A u \in I : b[u] = line(u)
      BY <2>1
    <3> HIDE DEF b, I
    <3> QED
      BY <2>1, <2>2, <3>1 DEF IsRenaming
  <2>6. \A u \in I : f[b[u]] = h[u]
    BY <2>1, <2>2
  <2>7. total(t) = SumFunctionOnSet(f, L) /\ ItemCount(grams[t]) = SumFunctionOnSet(h, I)
    <3>1. DOMAIN f = L /\ DOMAIN h = I
      OBVIOUS
    <3>2. total(t) = SumFunction(f) /\ ItemCount(grams[t]) = SumFunction(h)
      BY DEF ItemCount, L
    <3> HIDE DEF f, h, total, I
    <3> QED
      BY <3>1, <3>2 DEF SumFunction
  <2>8. total(t) = ItemCount(grams[t])
    <3> HIDE DEF b, f, h, I, total
    <3> QED
      BY <2>4, <2>5, <2>6, <2>7, SumsRenamed
  <2>9. {l.token2 : l \in L} = I
    <3>1. ASSUME NEW u \in I PROVE u \in {l.token2 : l \in L}
      BY <2>1, <2>2
    <3>2. ASSUME NEW u \in {l.token2 : l \in L} PROVE u \in I
      BY <2>1, <2>2
    <3> QED
      BY <3>1, <3>2
  <2>10. ASSUME NEW u \in I
         PROVE  (CHOOSE l \in L : l.token2 = u).count = grams[t].items[u].m_WC
    <3> DEFINE chosen == CHOOSE l \in L : l.token2 = u
    <3>1. chosen \in L /\ chosen.token2 = u
      BY <2>9
    <3> HIDE DEF chosen
    <3>2. chosen = line(u)
      BY <2>1, <2>2, <3>1
    <3> QED
      BY <2>2, <3>2 DEF chosen
  <2>11. items(t) = [u \in {l.token2 : l \in L} |-> (CHOOSE l \in L : l.token2 = u).count]
    BY DEF L
  <2>12. items(t) = h
    <3> HIDE DEF items, I
    <3> QED
      BY <2>9, <2>10, <2>11
  <2> QED
    BY <2>8, <2>12
<1> HIDE DEF total, items, firsts
<1>5. ASSUME NEW t \in firsts PROVE IsLoadedGram(grams[t], loaded.bigram[t])
  <2>1. t \in DOMAIN grams
    BY <1>3
  <2>2. loaded.bigram[t] = [total_freq |-> total(t), items |-> items(t)]
    BY <1>2
  <2>3. /\ loaded.bigram[t].total_freq = total(t)
        /\ loaded.bigram[t].items = items(t)
    BY <2>2
  <2> QED
    BY <1>4, <2>1, <2>3 DEF IsLoadedGram
<1> QED
  BY <1>2, <1>3, <1>5

\* And the frequency of each word that has one, but for the start of a sentence.
LEMMA LoadedUnigram ==
    ASSUME NEW grams, BalancedGrams(grams), NEW model, model.grams = grams,
           NEW loaded, loaded = Loaded(Interpolation(Exported(model))),
           NEW words, words = {t \in DOMAIN grams : t # sentence_start /\ grams[t].m_freq # 0}
    PROVE  /\ loaded.unigram = [t \in words |-> loaded.unigram[t]]
           /\ \A t \in words : loaded.unigram[t] = grams[t].m_freq
<1> DEFINE lines == Interpolation(Exported(model)).unigrams
           of(t) == {line \in lines : line.token = t}
           freq(t) == SumFunction([line \in of(t) |-> line.count])
           line(t) == [token |-> t, count |-> grams[t].m_freq]
<1>1. \A l : l \in lines <=> \E t \in words : l = line(t)
  <2> DEFINE all == Exported(model).unigrams
             whole(t) == [token |-> t, count |-> grams[t].m_WC, freq |-> grams[t].m_freq]
  <2>1. \A w : w \in all <=> \E t \in DOMAIN grams : w = whole(t)
    BY DEF Exported
  <2>2. \A l : l \in lines <=>
            \E w \in all : w.token # sentence_start /\ w.freq # 0
                           /\ l = [token |-> w.token, count |-> w.freq]
    BY DEF Interpolation
  <2>3. \A t : whole(t).token = t /\ whole(t).freq = grams[t].m_freq
    OBVIOUS
  <2> HIDE DEF all, whole, lines
  <2>4. ASSUME NEW l \in lines PROVE \E t \in words : l = line(t)
    <3>1. PICK w \in all : w.token # sentence_start /\ w.freq # 0
                           /\ l = [token |-> w.token, count |-> w.freq]
      BY <2>2
    <3>2. PICK t \in DOMAIN grams : w = whole(t)
      BY <2>1
    <3> QED
      BY <2>3, <3>1, <3>2
  <2>5. ASSUME NEW t \in words PROVE line(t) \in lines
    <3>1. whole(t) \in all /\ t # sentence_start /\ grams[t].m_freq # 0
      BY <2>1
    <3> QED
      BY <2>2, <2>3, <3>1
  <2> QED
    BY <2>4, <2>5
<1>2. loaded.unigram = [t \in {l.token : l \in lines} |-> freq(t)]
  <2> HIDE DEF lines
  <2> QED
    BY DEF Loaded, lines
<1>3. \A t : line(t).token = t /\ line(t).count = grams[t].m_freq
  OBVIOUS
<1> HIDE DEF lines, line
<1>4. {l.token : l \in lines} = words
  <2>1. ASSUME NEW t \in words PROVE t \in {l.token : l \in lines}
    BY <1>1, <1>3
  <2>2. ASSUME NEW t \in {l.token : l \in lines} PROVE t \in words
    BY <1>1, <1>3
  <2> QED
    BY <2>1, <2>2
<1>5. ASSUME NEW t \in words PROVE freq(t) = grams[t].m_freq
  <2> DEFINE f == [l \in of(t) |-> l.count]
  <2>1. of(t) = {line(t)}
    <3>1. \A l : l \in of(t) <=> l = line(t)
      BY <1>1, <1>3
    <3> HIDE DEF of
    <3> QED
      BY <3>1
  <2>2. f[line(t)] = grams[t].m_freq /\ DOMAIN f = {line(t)}
    BY <1>3, <2>1
  <2>3. grams[t].m_freq \in Int
    <3>1. BalancedGram(grams, t)
      BY DEF BalancedGrams
    <3> QED
      BY <3>1 DEF BalancedGram, SummedGram
  <2> HIDE DEF f
  <2>4. SumFunctionOnSet(f, {line(t)}) = grams[t].m_freq
    BY <2>2, <2>3, SumOverOne
  <2> QED
    BY <2>2, <2>4 DEF SumFunction, f
<1> HIDE DEF freq
<1>6. loaded.unigram = [t \in words |-> freq(t)]
  BY <1>2, <1>4
<1> QED
  BY <1>5, <1>6

\* A pair is part of the frequency of its second word.
LEMMA PairInFrequency ==
    ASSUME NEW grams, BalancedGrams(grams), NEW t \in DOMAIN grams,
           NEW u \in DOMAIN grams[t].items
    PROVE  /\ u \in DOMAIN grams /\ grams[u].m_freq # 0
           /\ grams[t].items[u].m_WC <= grams[u].m_freq
<1> DEFINE D == DOMAIN grams
           column == [v \in D |-> Times(grams, v, u)]
           count == grams[t].items[u].m_WC
           freq == grams[u].m_freq
<1>1. BalancedGram(grams, t) /\ IsFiniteSet(D)
  BY DEF BalancedGrams
<1>2. u \in D /\ count \in Nat \ {0}
  BY <1>1 DEF BalancedGram, SummedGram
<1>3. BalancedGram(grams, u)
  BY <1>2 DEF BalancedGrams
<1>4. freq \in Nat /\ freq >= SumFunctionOnSet(column, D)
  BY <1>3 DEF BalancedGram, SummedGram, AsSecond
<1>5. \A v \in D : column[v] \in Nat
  BY TimesNatural
<1>6. column[t] = count
  BY DEF Times
<1> HIDE DEF column
<1>7. count <= SumFunctionOnSet(column, D) /\ SumFunctionOnSet(column, D) \in Nat
  <2> HIDE DEF D, count
  <2> QED
    BY <1>1, <1>5, <1>6, SumOfNaturals DEF D
<1> HIDE DEF count, freq
<1>8. freq # 0 /\ count <= freq
  BY <1>2, <1>4, <1>7
<1> QED
  BY <1>2, <1>8 DEF count, freq

\* The start of a sentence has no frequency, where no word is left out of the pairs.
LEMMA StartIsNoWord ==
    ASSUME g_train_pi_gram, NEW grams, BalancedGrams(grams), SecondsAreTokens(grams),
           sentence_start \in DOMAIN grams
    PROVE  grams[sentence_start].m_freq = 0
<1> DEFINE D == DOMAIN grams
           column == [v \in D |-> Times(grams, v, sentence_start)]
<1>1. BalancedGram(grams, sentence_start) /\ IsFiniteSet(D)
  BY DEF BalancedGrams
<1>2. grams[sentence_start].m_freq = SumFunctionOnSet(column, D)
  BY <1>1 DEF BalancedGram, SummedGram, AsSecond
<1>3. sentence_start \notin Token
  BY KMixtureModelAssumption
<1>4. \A v \in D : column[v] = 0
  BY <1>3 DEF Times, SecondsAreTokens
<1> HIDE DEF D, column
<1> QED
  BY <1>1, <1>2, <1>4, SumOverZeros

\* The frequencies that are loaded add up to those of the model.
LEMMA LoadedFrequencies ==
    ASSUME g_train_pi_gram, NEW model, BalancedGrams(model.grams),
           SecondsAreTokens(model.grams),
           NEW loaded, loaded = Loaded(Interpolation(Exported(model)))
    PROVE  SumFunction(loaded.unigram) = Freqs(model)
<1> DEFINE grams == model.grams
           D == DOMAIN grams
           words == {t \in D : t # sentence_start /\ grams[t].m_freq # 0}
           unigram == loaded.unigram
           freqs == [t \in D |-> grams[t].m_freq]
<1>1. /\ unigram = [t \in words |-> unigram[t]]
      /\ \A t \in words : unigram[t] = grams[t].m_freq
  BY LoadedUnigram
<1>2. IsFiniteSet(D) /\ \A t \in D : freqs[t] \in Int
  <2>1. IsFiniteSet(D) /\ \A t \in D : BalancedGram(grams, t)
    BY DEF BalancedGrams
  <2>2. ASSUME NEW t \in D PROVE grams[t].m_freq \in Int
    <3>1. BalancedGram(grams, t)
      BY <2>1
    <3> QED
      BY <3>1 DEF BalancedGram, SummedGram
  <2> QED
    BY <2>1, <2>2
<1>3. \A t \in D \ words : freqs[t] = 0
  BY StartIsNoWord
<1>4. \A t \in words : unigram[t] = freqs[t]
  BY <1>1
<1>5. Freqs(model) = SumFunctionOnSet(freqs, D)
  BY DEF Freqs, SumFunction
<1>6. words \in SUBSET D /\ DOMAIN unigram = words
  BY <1>1
<1> HIDE DEF freqs, D, unigram, words
<1>7. IsFiniteSet(words)
  BY <1>2, <1>6, FS_Subset
<1>8. SumFunctionOnSet(freqs, D) = SumFunctionOnSet(freqs, words)
  BY <1>2, <1>3, <1>6, SumsExtend
<1>9. SumFunctionOnSet(freqs, words) = SumFunctionOnSet(unigram, words)
  BY <1>2, <1>4, <1>6, <1>7, SumsOverAgree
<1> QED
  BY <1>5, <1>6, <1>8, <1>9 DEF SumFunction, unigram

\* The counts of one word, loaded.
LEMMA LoadedCounts ==
    ASSUME g_train_pi_gram, NEW model, BalancedGrams(model.grams),
           SecondsAreTokens(model.grams),
           NEW loaded, loaded = Loaded(Interpolation(Exported(model))),
           NEW t \in DOMAIN model.grams
    PROVE  /\ t \in DOMAIN loaded.bigram <=> model.grams[t].m_WC # 0
           /\ t \in DOMAIN loaded.bigram =>
                 /\ loaded.bigram[t].total_freq = model.grams[t].m_WC
                 /\ SumFunction(loaded.bigram[t].items) = model.grams[t].m_WC
                 /\ \A u \in DOMAIN loaded.bigram[t].items :
                       /\ u \in DOMAIN loaded.unigram
                       /\ loaded.bigram[t].items[u] <= loaded.unigram[u]
<1> DEFINE grams == model.grams
           gram == grams[t]
           single == loaded.bigram[t]
<1>1. BalancedGram(grams, t)
  BY DEF BalancedGrams
<1>2. /\ DOMAIN loaded.bigram = {v \in DOMAIN grams : DOMAIN grams[v].items # {}}
      /\ \A v \in DOMAIN loaded.bigram : IsLoadedGram(grams[v], loaded.bigram[v])
  BY LoadedBigram
<1>3. ItemCount(gram) = gram.m_WC /\ (gram.m_WC = 0 => DOMAIN gram.items = {})
  BY <1>1, SumsOfItems DEF BalancedGram, SummedGram
<1>4. ASSUME DOMAIN gram.items = {} PROVE gram.m_WC = 0
  <2> DEFINE count == [u \in DOMAIN gram.items |-> gram.items[u].m_WC]
  <2>1. ItemCount(gram) = SumFunctionOnSet(count, DOMAIN count) /\ DOMAIN count = {}
    BY <1>4 DEF ItemCount, SumFunction
  <2> HIDE DEF count
  <2> QED
    BY <1>3, <2>1, SumOverNone
<1>5. t \in DOMAIN loaded.bigram <=> gram.m_WC # 0
  BY <1>2, <1>3, <1>4
<1>6. ASSUME t \in DOMAIN loaded.bigram
      PROVE  single.total_freq = gram.m_WC /\ SumFunction(single.items) = gram.m_WC
  <2>1. /\ single.total_freq = ItemCount(gram)
        /\ single.items = [u \in DOMAIN gram.items |-> gram.items[u].m_WC]
    BY <1>2, <1>6 DEF IsLoadedGram
  <2>2. SumFunction(single.items) = ItemCount(gram)
    BY <2>1 DEF ItemCount
  <2> QED
    BY <1>3, <2>1, <2>2
<1>7. ASSUME t \in DOMAIN loaded.bigram, NEW u \in DOMAIN single.items
      PROVE  u \in DOMAIN loaded.unigram /\ single.items[u] <= loaded.unigram[u]
  <2> DEFINE words == {v \in DOMAIN grams : v # sentence_start /\ grams[v].m_freq # 0}
  <2>1. u \in DOMAIN gram.items /\ single.items[u] = gram.items[u].m_WC
    BY <1>2, <1>7 DEF IsLoadedGram
  <2>2. u \in DOMAIN grams /\ grams[u].m_freq # 0 /\ gram.items[u].m_WC <= grams[u].m_freq
    BY <2>1, PairInFrequency
  <2>3. u # sentence_start
    BY <2>1, KMixtureModelAssumption DEF SecondsAreTokens
  <2>4. /\ loaded.unigram = [v \in words |-> loaded.unigram[v]]
        /\ \A v \in words : loaded.unigram[v] = grams[v].m_freq
    BY LoadedUnigram
  <2>5. u \in words
    BY <2>2, <2>3
  <2> HIDE DEF words
  <2>6. DOMAIN loaded.unigram = words
    BY <2>4
  <2> QED
    BY <2>1, <2>2, <2>4, <2>5, <2>6
<1> QED
  BY <1>5, <1>6, <1>7

\* The text has a line for each word of its model.
LEMMA LinesOfModel ==
    ASSUME NEW model, NEW lines, lines = Exported(model)
    PROVE  /\ \A line \in lines.unigrams :
                 line.token \in DOMAIN model.grams /\ line.count = model.grams[line.token].m_WC
           /\ \A t \in DOMAIN model.grams :
                 \E line \in lines.unigrams :
                     line.token = t /\ line.count = model.grams[t].m_WC
           /\ lines.data = model.header
<1> DEFINE grams == model.grams
           whole(t) == [token |-> t, count |-> grams[t].m_WC, freq |-> grams[t].m_freq]
<1>1. \A line : line \in lines.unigrams <=> \E t \in DOMAIN grams : line = whole(t)
  BY DEF Exported
<1>2. \A t : whole(t).token = t /\ whole(t).count = grams[t].m_WC
  OBVIOUS
<1>3. lines.data = model.header
  BY DEF Exported
<1> HIDE DEF whole
<1> QED
  BY <1>1, <1>2, <1>3

\* Whatever models the text comes from, the libraries and the bigram that are built
\* from it have its counts.
THEOREM InterpolationAlwaysBalances == Spec => []InterpolationBalances
<1>1. Balanced /\ WordsFollow => InterpolationBalances
  <2> SUFFICES ASSUME Balanced, WordsFollow PROVE InterpolationBalances
    OBVIOUS
  <2> DEFINE lines == text.lines
             model == Imported(lines)
             loaded == Loaded(Interpolation(lines))
  <2>1. BalancedModel(model) /\ lines = Exported(model) /\ SecondsAreTokens(model.grams)
    BY DEF Balanced, WordsFollow
  <2>2. SUFFICES ASSUME lines.data # NoHeader, g_train_pi_gram
                 PROVE  /\ DOMAIN loaded.bigram =
                              {line.token : line \in {l \in lines.unigrams : l.count # 0}}
                        /\ \A line \in lines.unigrams :
                              line.count # 0 =>
                                  /\ loaded.bigram[line.token].total_freq = line.count
                                  /\ line.count = SumFunction(loaded.bigram[line.token].items)
                        /\ lines.data.m_total_freq = SumFunction(loaded.unigram)
                        /\ \A t \in DOMAIN loaded.bigram :
                              \A u \in DOMAIN loaded.bigram[t].items :
                                  /\ u \in DOMAIN loaded.unigram
                                  /\ loaded.bigram[t].items[u] <= loaded.unigram[u]
    BY DEF InterpolationBalances
  <2> HIDE DEF model
  <2>3. loaded = Loaded(Interpolation(Exported(model)))
    BY <2>1
  <2>4. /\ \A line \in lines.unigrams :
              line.token \in DOMAIN model.grams /\ line.count = model.grams[line.token].m_WC
        /\ \A t \in DOMAIN model.grams :
              \E line \in lines.unigrams : line.token = t /\ line.count = model.grams[t].m_WC
        /\ lines.data = model.header
    <3> HIDE DEF lines
    <3> QED
      BY <2>1, LinesOfModel
  <2> HIDE DEF lines, loaded
  <2>5. BalancedGrams(model.grams) /\ lines.data.m_total_freq = Freqs(model)
    BY <2>1, <2>2, <2>4 DEF BalancedModel, EmptyModel
  <2>6. \A t \in DOMAIN model.grams :
            /\ t \in DOMAIN loaded.bigram <=> model.grams[t].m_WC # 0
            /\ t \in DOMAIN loaded.bigram =>
                  /\ loaded.bigram[t].total_freq = model.grams[t].m_WC
                  /\ SumFunction(loaded.bigram[t].items) = model.grams[t].m_WC
                  /\ \A u \in DOMAIN loaded.bigram[t].items :
                        /\ u \in DOMAIN loaded.unigram
                        /\ loaded.bigram[t].items[u] <= loaded.unigram[u]
    BY <2>1, <2>2, <2>3, <2>5, LoadedCounts
  <2>7. DOMAIN loaded.bigram \subseteq DOMAIN model.grams
    <3>1. DOMAIN loaded.bigram = {t \in DOMAIN model.grams : DOMAIN model.grams[t].items # {}}
      BY <2>3, <2>5, LoadedBigram
    <3> QED
      BY <3>1
  <2>8. SumFunction(loaded.unigram) = Freqs(model)
    BY <2>1, <2>2, <2>3, <2>5, LoadedFrequencies
  <2>9. DOMAIN loaded.bigram = {line.token : line \in {l \in lines.unigrams : l.count # 0}}
    <3>1. ASSUME NEW t \in DOMAIN loaded.bigram
          PROVE  \E line \in {l \in lines.unigrams : l.count # 0} : line.token = t
      BY <2>4, <2>6, <2>7
    <3>2. ASSUME NEW line \in {l \in lines.unigrams : l.count # 0}
          PROVE  line.token \in DOMAIN loaded.bigram
      BY <2>4, <2>6
    <3> QED
      BY <3>1, <3>2
  <2>10. ASSUME NEW line \in lines.unigrams, line.count # 0
         PROVE  /\ loaded.bigram[line.token].total_freq = line.count
                /\ line.count = SumFunction(loaded.bigram[line.token].items)
    BY <2>4, <2>6, <2>10
  <2> QED
    BY <2>5, <2>6, <2>7, <2>8, <2>9, <2>10
<1> QED
  BY <1>1, InitBalanced, StepBalanced, InitWords, StepWords, PTL DEF Spec

-----------------------------------------------------------------------------
(* The model of a corpus.  Every count of a model is a total over the      *)
(* documents that were trained; a document more and the documents of       *)
(* another model add to each of them.                                      *)

IsCorpus(documents) ==
    /\ documents \in [Document -> Nat]
    /\ IsFiniteSet(Used(documents))

IsCount(count) == \A d \in Document : count[d] \in Nat

Shares(documents, count) == [d \in Document |-> documents[d] * count[d]]

\* The documents of both.
AreBoth(documents, first, second) ==
    /\ documents \in [Document -> Nat]
    /\ \A d \in Document : documents[d] = first[d] + second[d]

TotalsAdd(documents, first, second) ==
    \A count : IsCount(count) =>
        Total(documents, count) = Total(first, count) + Total(second, count)

TotalsGrowBy(more, documents, d) ==
    \A count : IsCount(count) => Total(more, count) = Total(documents, count) + count[d]

\* The total over more documents than were trained.
LEMMA TotalOver ==
    ASSUME NEW documents, IsCorpus(documents), NEW count, IsCount(count),
           NEW T, IsFiniteSet(T), Used(documents) \subseteq T, T \subseteq Document
    PROVE  /\ Total(documents, count) = SumFunctionOnSet(Shares(documents, count), T)
           /\ Total(documents, count) \in Nat
<1> DEFINE f == Shares(documents, count)
           S == Used(documents)
<1>1. \A d \in Document : f[d] \in Nat /\ (d \notin S => f[d] = 0)
  <2> SUFFICES ASSUME NEW d \in Document PROVE f[d] \in Nat /\ (d \notin S => f[d] = 0)
    OBVIOUS
  <2>1. documents[d] \in Nat /\ count[d] \in Nat /\ f[d] = documents[d] * count[d]
    BY DEF IsCorpus, IsCount, Shares
  <2>2. d \notin S => documents[d] = 0
    BY DEF Used
  <2> HIDE DEF f, S
  <2> QED
    BY <2>1, <2>2
<1>2. Total(documents, count) = SumFunctionOnSet(f, S)
  BY DEF Total, Shares
<1> HIDE DEF f, S
<1>3. SumFunctionOnSet(f, T) = SumFunctionOnSet(f, S)
  BY <1>1, SumsExtend DEF S
<1>4. SumFunctionOnSet(f, T) \in Nat
  BY <1>1, SumOfNaturals
<1> QED
  BY <1>2, <1>3, <1>4 DEF f

\* The totals of two corpora add up.
LEMMA TotalsOfBoth ==
    ASSUME NEW first, IsCorpus(first), NEW second, IsCorpus(second),
           NEW documents, AreBoth(documents, first, second)
    PROVE  /\ IsCorpus(documents) /\ Used(documents) = Used(first) \cup Used(second)
           /\ TotalsAdd(documents, first, second)
<1> DEFINE T == Used(first) \cup Used(second)
<1>1. \A d \in Document : /\ first[d] \in Nat /\ second[d] \in Nat
                          /\ documents[d] = first[d] + second[d]
  BY DEF IsCorpus, AreBoth
<1>2. Used(documents) = T
  BY <1>1 DEF Used
<1>3. IsFiniteSet(T) /\ T \subseteq Document
  BY FS_Union DEF IsCorpus, Used
<1>4. IsCorpus(documents)
  BY <1>2, <1>3 DEF IsCorpus, AreBoth
<1>5. ASSUME NEW count, IsCount(count)
      PROVE  Total(documents, count) = Total(first, count) + Total(second, count)
  <2> DEFINE f == Shares(first, count)
             g == Shares(second, count)
             h == Shares(documents, count)
  <2>1. ASSUME NEW d \in T PROVE f[d] \in Int /\ g[d] \in Int /\ h[d] = f[d] + g[d]
    <3>1. /\ first[d] \in Nat /\ second[d] \in Nat /\ count[d] \in Nat
          /\ documents[d] = first[d] + second[d]
      BY <1>1, <1>3, <1>5 DEF IsCount
    <3>2. \A a, b, c \in Nat : a * c \in Int /\ b * c \in Int /\ (a + b) * c = a * c + b * c
      OBVIOUS
    <3>3. /\ f[d] = first[d] * count[d] /\ g[d] = second[d] * count[d]
          /\ h[d] = documents[d] * count[d]
      BY <1>3 DEF Shares
    <3> HIDE DEF f, g, h
    <3> QED
      BY <3>1, <3>2, <3>3
  <2>2. /\ Total(first, count) = SumFunctionOnSet(f, T)
        /\ Total(second, count) = SumFunctionOnSet(g, T)
        /\ Total(documents, count) = SumFunctionOnSet(h, T)
    <3>1. Used(first) \subseteq T /\ Used(second) \subseteq T /\ Used(documents) \subseteq T
      BY <1>2
    <3> HIDE DEF T
    <3> QED
      BY <1>3, <1>4, <1>5, <3>1, TotalOver
  <2> HIDE DEF f, g, h, T
  <2>3. SumFunctionOnSet(h, T) = SumFunctionOnSet(f, T) + SumFunctionOnSet(g, T)
    BY <1>3, <2>1, SumsAdd
  <2> QED
    BY <2>2, <2>3
<1> QED
  BY <1>2, <1>4, <1>5 DEF TotalsAdd

\* Without documents there is nothing to count.
LEMMA TotalOfNone ==
    ASSUME NEW documents, documents = [d \in Document |-> 0]
    PROVE  /\ IsCorpus(documents) /\ Used(documents) = {}
           /\ \A count : Total(documents, count) = 0
<1>1. Used(documents) = {} /\ documents \in [Document -> Nat]
  BY DEF Used
<1>2. IsCorpus(documents)
  BY <1>1, FS_EmptySet DEF IsCorpus
<1>3. \A count : Total(documents, count) = 0
  BY <1>1, SumOverNone DEF Total
<1> QED
  BY <1>1, <1>2, <1>3

\* One document more.
LEMMA TotalWithOneMore ==
    ASSUME NEW documents, IsCorpus(documents), NEW d \in Document,
           NEW more, more = [documents EXCEPT ![d] = @ + 1]
    PROVE  /\ IsCorpus(more) /\ Used(more) = Used(documents) \cup {d}
           /\ TotalsGrowBy(more, documents, d)
<1> DEFINE one == [x \in Document |-> IF x = d THEN 1 ELSE 0]
<1>1. Used(one) = {d} /\ one \in [Document -> Nat] /\ one[d] = 1
  BY DEF Used
<1>2. AreBoth(more, documents, one)
  BY DEF IsCorpus, AreBoth
<1>3. IsFiniteSet({d})
  BY FS_Singleton
<1> HIDE DEF one
<1>4. IsCorpus(one)
  BY <1>1, <1>3 DEF IsCorpus
<1>5. ASSUME NEW count, IsCount(count) PROVE Total(one, count) = count[d]
  <2> DEFINE f == Shares(one, count)
  <2>1. count[d] \in Nat /\ f[d] = 1 * count[d]
    BY <1>1, <1>5 DEF IsCount, Shares
  <2>2. Total(one, count) = SumFunctionOnSet(f, {d})
    BY <1>1 DEF Total, Shares
  <2> HIDE DEF f
  <2>3. f[d] = count[d] /\ f[d] \in Int
    BY <2>1
  <2> QED
    BY <2>2, <2>3, SumOverOne
<1>6. /\ IsCorpus(more) /\ Used(more) = Used(documents) \cup Used(one)
      /\ TotalsAdd(more, documents, one)
  BY <1>2, <1>4, TotalsOfBoth
<1> QED
  BY <1>1, <1>5, <1>6 DEF TotalsAdd, TotalsGrowBy

\* What is counted of a pair in each document.
PairTimes(t, u) == [d \in Document |-> PairCount(d, t, u)]
WithPair(t, u) == [d \in Document |-> IF PairCount(d, t, u) > 0 THEN 1 ELSE 0]
WithOne(t, u) == [d \in Document |-> IF PairCount(d, t, u) = 1 THEN 1 ELSE 0]

IsGreatest(m, documents, count) ==
    /\ m \in Nat /\ \A d \in Used(documents) : count[d] <= m
    /\ m = 0 \/ \E d \in Used(documents) : count[d] = m

\* An item, also NoItem, is that of the documents.
ItemOfCorpus(item, documents, t, u) ==
    /\ item = [m_WC |-> Total(documents, PairTimes(t, u)),
               m_N_n_0 |-> Total(documents, WithPair(t, u)),
               m_n_1 |-> Total(documents, WithOne(t, u)), m_Mr |-> item.m_Mr]
    /\ IsGreatest(item.m_Mr, documents, PairTimes(t, u))

LEMMA PairTimesNatural ==
    ASSUME NEW t, NEW u
    PROVE  IsCount(PairTimes(t, u)) /\ IsCount(WithPair(t, u)) /\ IsCount(WithOne(t, u))
<1>1. \A d \in Document : PairCount(d, t, u) \in Nat
  BY DocumentFinite
<1> QED
  BY <1>1 DEF IsCount, PairTimes, WithPair, WithOne

\* Where nothing was trained there is no item.
LEMMA NoItemOfNone ==
    ASSUME NEW documents, documents = [d \in Document |-> 0], NEW t, NEW u
    PROVE  ItemOfCorpus(NoItem, documents, t, u)
<1>1. Used(documents) = {} /\ \A count : Total(documents, count) = 0
  BY TotalOfNone
<1>2. IsGreatest(0, documents, PairTimes(t, u))
  BY <1>1 DEF IsGreatest
<1>3. /\ Total(documents, PairTimes(t, u)) = 0 /\ Total(documents, WithPair(t, u)) = 0
      /\ Total(documents, WithOne(t, u)) = 0
  BY <1>1
<1> QED
  BY <1>2, <1>3 DEF ItemOfCorpus, NoItem

\* A document with the pair more: the item counts it; without it, it stays.
LEMMA CountedOfCorpus ==
    ASSUME NEW documents, IsCorpus(documents), NEW d \in Document,
           NEW more, more = [documents EXCEPT ![d] = @ + 1],
           NEW t, NEW u, NEW item, ItemOfCorpus(item, documents, t, u)
    PROVE  /\ PairCount(d, t, u) = 0 => ItemOfCorpus(item, more, t, u)
           /\ PairCount(d, t, u) # 0 =>
                 ItemOfCorpus(Counted(item, PairCount(d, t, u)), more, t, u)
<1> DEFINE n == PairCount(d, t, u)
           a == Total(documents, PairTimes(t, u))
           b == Total(documents, WithPair(t, u))
           c == Total(documents, WithOne(t, u))
           m == item.m_Mr
<1>1. n \in Nat /\ PairTimes(t, u)[d] = n
  BY DocumentFinite DEF PairTimes
<1>2. /\ WithPair(t, u)[d] = (IF n > 0 THEN 1 ELSE 0)
      /\ WithOne(t, u)[d] = (IF n = 1 THEN 1 ELSE 0)
  BY DEF WithPair, WithOne
<1>3. /\ IsCorpus(more) /\ Used(more) = Used(documents) \cup {d}
      /\ Total(more, PairTimes(t, u)) = a + n
      /\ Total(more, WithPair(t, u)) = b + (IF n > 0 THEN 1 ELSE 0)
      /\ Total(more, WithOne(t, u)) = c + (IF n = 1 THEN 1 ELSE 0)
  <2>1. /\ IsCorpus(more) /\ Used(more) = Used(documents) \cup {d}
        /\ TotalsGrowBy(more, documents, d)
    BY TotalWithOneMore
  <2> HIDE DEF n
  <2> QED
    BY <1>1, <1>2, <2>1, PairTimesNatural DEF TotalsGrowBy
<1>4. a \in Nat /\ b \in Nat /\ c \in Nat
  <2>1. IsFiniteSet(Used(documents)) /\ Used(documents) \subseteq Document
    BY DEF IsCorpus, Used
  <2> QED
    BY <2>1, TotalOver, PairTimesNatural
<1>5. /\ item = [m_WC |-> a, m_N_n_0 |-> b, m_n_1 |-> c, m_Mr |-> m]
      /\ m \in Nat /\ \A x \in Used(documents) : PairTimes(t, u)[x] <= m
      /\ m = 0 \/ \E x \in Used(documents) : PairTimes(t, u)[x] = m
  BY DEF ItemOfCorpus, IsGreatest
<1> DEFINE greatest == IF m >= n THEN m ELSE n
<1> HIDE DEF n, a, b, c, m
<1>6. IsGreatest(greatest, more, PairTimes(t, u))
  <2> DEFINE f == PairTimes(t, u)
  <2>1. \A x \in Used(documents) : f[x] \in Nat
    BY PairTimesNatural DEF IsCount, Used
  <2>2. f[d] = n /\ n \in Nat /\ m \in Nat /\ Used(more) = Used(documents) \cup {d}
    BY <1>1, <1>3, <1>5
  <2>3. /\ \A x \in Used(documents) : f[x] <= m
        /\ m = 0 \/ \E x \in Used(documents) : f[x] = m
    BY <1>5
  <2> HIDE DEF f
  <2>3a. greatest \in Nat /\ greatest >= m /\ greatest >= n
    BY <2>2
  <2>3b. \A x \in Used(more) : f[x] <= greatest
    <3> SUFFICES ASSUME NEW x \in Used(more) PROVE f[x] <= greatest
      OBVIOUS
    <3>1. f[x] \in Nat /\ (f[x] <= m \/ f[x] = n)
      BY <2>1, <2>2, <2>3
    <3> QED
      BY <2>2, <2>3a, <3>1
  <2>3c. greatest = 0 \/ \E x \in Used(more) : f[x] = greatest
    <3>1. CASE m >= n
      BY <2>2, <2>3, <3>1
    <3>2. CASE ~(m >= n)
      BY <2>2, <3>2
    <3> QED
      BY <3>1, <3>2
  <2>4. IsGreatest(greatest, more, f)
    BY <2>3a, <2>3b, <2>3c DEF IsGreatest
  <2> QED
    BY <2>4 DEF f
<1>7. CASE n = 0
  <2>1. greatest = m /\ a + n = a /\ b + (IF n > 0 THEN 1 ELSE 0) = b
        /\ c + (IF n = 1 THEN 1 ELSE 0) = c
    BY <1>4, <1>5, <1>7
  <2>2. item = [m_WC |-> Total(more, PairTimes(t, u)), m_N_n_0 |-> Total(more, WithPair(t, u)),
                m_n_1 |-> Total(more, WithOne(t, u)), m_Mr |-> m]
    BY <1>3, <1>5, <2>1
  <2> QED
    BY <1>6, <1>7, <2>1, <2>2 DEF ItemOfCorpus, n, m
<1>8. CASE n # 0
  <2>1. Max({m, n}) = greatest
    BY <1>1, <1>5, MaxOfTwo
  <2>2. Counted(item, n)
          = [m_WC |-> a + n, m_N_n_0 |-> b + 1,
             m_n_1 |-> c + (IF n = 1 THEN 1 ELSE 0), m_Mr |-> greatest]
    <3>1. item.m_WC = a /\ item.m_N_n_0 = b /\ item.m_n_1 = c /\ item.m_Mr = m
      BY <1>5
    <3> HIDE DEF greatest
    <3> QED
      BY <2>1, <3>1 DEF Counted
  <2>3. b + 1 = b + (IF n > 0 THEN 1 ELSE 0)
    BY <1>1, <1>8
  <2> HIDE DEF greatest
  <2>4. Counted(item, n)
          = [m_WC |-> Total(more, PairTimes(t, u)), m_N_n_0 |-> Total(more, WithPair(t, u)),
             m_n_1 |-> Total(more, WithOne(t, u)), m_Mr |-> greatest]
    BY <1>3, <2>2, <2>3
  <2>5. Counted(item, n).m_Mr = greatest
    BY <2>4
  <2>6. ItemOfCorpus(Counted(item, n), more, t, u)
    BY <1>6, <2>4, <2>5 DEF ItemOfCorpus
  <2> QED
    BY <1>8, <2>6 DEF n
<1> QED
  BY <1>7, <1>8

\* The items of two corpora, added.
LEMMA AddedOfCorpora ==
    ASSUME NEW one, IsCorpus(one), NEW other, IsCorpus(other),
           NEW documents, AreBoth(documents, one, other),
           NEW t, NEW u, NEW first, ItemOfCorpus(first, one, t, u),
           NEW second, ItemOfCorpus(second, other, t, u)
    PROVE  ItemOfCorpus(Added(first, second), documents, t, u)
<1> DEFINE a1 == Total(one, PairTimes(t, u))
           b1 == Total(one, WithPair(t, u))
           c1 == Total(one, WithOne(t, u))
           a2 == Total(other, PairTimes(t, u))
           b2 == Total(other, WithPair(t, u))
           c2 == Total(other, WithOne(t, u))
           m1 == first.m_Mr
           m2 == second.m_Mr
           m == IF m1 >= m2 THEN m1 ELSE m2
<1>1. /\ Used(documents) = Used(one) \cup Used(other)
      /\ Total(documents, PairTimes(t, u)) = a1 + a2
      /\ Total(documents, WithPair(t, u)) = b1 + b2
      /\ Total(documents, WithOne(t, u)) = c1 + c2
  <2>1. Used(documents) = Used(one) \cup Used(other) /\ TotalsAdd(documents, one, other)
    BY TotalsOfBoth
  <2> QED
    BY <2>1, PairTimesNatural DEF TotalsAdd
<1>2. /\ first = [m_WC |-> a1, m_N_n_0 |-> b1, m_n_1 |-> c1, m_Mr |-> m1]
      /\ second = [m_WC |-> a2, m_N_n_0 |-> b2, m_n_1 |-> c2, m_Mr |-> m2]
  BY DEF ItemOfCorpus
<1>3. /\ m1 \in Nat /\ \A x \in Used(one) : PairTimes(t, u)[x] <= m1
      /\ m1 = 0 \/ \E x \in Used(one) : PairTimes(t, u)[x] = m1
      /\ m2 \in Nat /\ \A x \in Used(other) : PairTimes(t, u)[x] <= m2
      /\ m2 = 0 \/ \E x \in Used(other) : PairTimes(t, u)[x] = m2
  BY DEF ItemOfCorpus, IsGreatest
<1>4. \A x \in Used(one) \cup Used(other) : PairTimes(t, u)[x] \in Nat
  BY PairTimesNatural DEF IsCount, Used
<1> HIDE DEF a1, b1, c1, a2, b2, c2, m1, m2
<1>5. IsGreatest(m, documents, PairTimes(t, u))
  BY <1>1, <1>3, <1>4 DEF IsGreatest
<1>6. Max({m1, m2}) = m
  BY <1>3, MaxOfTwo
<1> HIDE DEF m
<1>7. Added(first, second)
        = [m_WC |-> a1 + a2, m_N_n_0 |-> b1 + b2, m_n_1 |-> c1 + c2, m_Mr |-> m]
  <2>1. /\ first.m_WC = a1 /\ first.m_N_n_0 = b1 /\ first.m_n_1 = c1 /\ first.m_Mr = m1
        /\ second.m_WC = a2 /\ second.m_N_n_0 = b2 /\ second.m_n_1 = c2 /\ second.m_Mr = m2
    BY <1>2
  <2> QED
    BY <1>6, <2>1 DEF Added
<1>8. Added(first, second).m_Mr = m
  BY <1>7
<1> QED
  BY <1>1, <1>5, <1>7, <1>8 DEF ItemOfCorpus

\* The pairs of a first word in a document.
LEMMA PairsFromFinite ==
    ASSUME NEW document \in Document, NEW t
    PROVE  /\ IsFiniteSet(PairsFrom(document, t)) /\ Cardinality(PairsFrom(document, t)) \in Nat
           /\ t \notin FirstWords(document) => Cardinality(PairsFrom(document, t)) = 0
           /\ Cardinality(Pairs(document)) \in Nat /\ Cardinality(Words(document)) \in Nat
<1>1. IsFiniteSet(Pairs(document)) /\ IsFiniteSet(Words(document))
  BY DocumentFinite
<1>2. IsFiniteSet(PairsFrom(document, t))
  BY <1>1, FS_Subset DEF PairsFrom
<1>3. t \notin FirstWords(document) => PairsFrom(document, t) = {}
  BY DEF PairsFrom, FirstWords
<1> QED
  BY <1>1, <1>2, <1>3, FS_CardinalityType, FS_EmptySet

\* With nothing left out a gram counts all its pairs.
LEMMA DeltaOfAll ==
    ASSUME NEW document \in Document, NEW gram, NEW t,
           Kept(gram, document, t) = SecondWords(document, t)
    PROVE  Delta(gram, document, t) = Cardinality(PairsFrom(document, t))
<1> DEFINE S == PairsFrom(document, t)
           V == SecondWords(document, t)
           word == [i \in S |-> document[i]]
           count == [u \in V |-> PairCount(document, t, u)]
           part == [u \in V |-> {i \in Pairs(document) :
                                    LastToken(document, i) = t /\ document[i] = u}]
<1>1. IsFiniteSet(S) /\ IsFiniteSet(V)
  BY PairsFromFinite, DocumentFinite
<1>2. \A i \in S : word[i] \in V
  BY DEF PairsFrom, SecondWords
<1>3. \A u \in V : part[u] \subseteq S /\ \A i \in S : i \in part[u] <=> word[i] = u
  BY DEF PairsFrom
<1>4. \A u \in V : count[u] = Cardinality(part[u])
  BY DEF PairCount
<1>5. Delta(gram, document, t) = SumFunctionOnSet(count, V)
  BY DEF Delta, SumFunction
<1> HIDE DEF S, V, word, count, part
<1> QED
  BY <1>1, <1>2, <1>3, <1>4, <1>5, CountedByValue DEF S

\* Every pair has one first word.
LEMMA PairsByFirst ==
    ASSUME NEW document \in Document, NEW deltas,
           \A t \in FirstWords(document) : deltas[t] = Cardinality(PairsFrom(document, t))
    PROVE  SumFunctionOnSet(deltas, FirstWords(document)) = Cardinality(Pairs(document))
<1> DEFINE S == Pairs(document)
           V == FirstWords(document)
           last == [i \in S |-> LastToken(document, i)]
           part == [t \in V |-> PairsFrom(document, t)]
<1>1. IsFiniteSet(S) /\ IsFiniteSet(V)
  BY DocumentFinite
<1>2. \A i \in S : last[i] \in V
  BY DEF FirstWords
<1>3. \A t \in V : part[t] \subseteq S /\ \A i \in S : i \in part[t] <=> last[i] = t
  BY DEF PairsFrom
<1>4. \A t \in V : deltas[t] = Cardinality(part[t])
  OBVIOUS
<1> HIDE DEF S, V, last, part
<1> QED
  BY <1>1, <1>2, <1>3, <1>4, CountedByValue DEF S, V

\* Every word is one word.
LEMMA WordsByToken ==
    ASSUME NEW document \in Document, NEW counts,
           \A t \in {document[i] : i \in Words(document)} : counts[t] = WordCount(document, t)
    PROVE  SumFunctionOnSet(counts, {document[i] : i \in Words(document)})
               = Cardinality(Words(document))
<1> DEFINE S == Words(document)
           V == {document[i] : i \in Words(document)}
           word == [i \in S |-> document[i]]
           part == [t \in V |-> {i \in Words(document) : document[i] = t}]
<1>1. IsFiniteSet(S) /\ IsFiniteSet(V)
  BY DocumentFinite
<1>2. \A i \in S : word[i] \in V
  OBVIOUS
<1>3. \A t \in V : part[t] \subseteq S /\ \A i \in S : i \in part[t] <=> word[i] = t
  OBVIOUS
<1>4. \A t \in V : counts[t] = Cardinality(part[t])
  BY DEF WordCount
<1> HIDE DEF S, V, word, part
<1> QED
  BY <1>1, <1>2, <1>3, <1>4, CountedByValue DEF S, V

\* A word is counted as often as it is there, if none of its pairs is left out.
LEMMA RemainingOfAll ==
    ASSUME NEW document \in Document, NEW grams, ~LeavesOut(grams, document), NEW u
    PROVE  Remaining(grams, document, u) = WordCount(document, u)
<1> DEFINE L == {t \in FirstWords(document) :
                    /\ u \in SecondWords(document, t)
                    /\ u \notin Kept(Get(grams, t, EmptyGram), document, t)}
           left == [t \in L |-> PairCount(document, t, u)]
<1>1. L = {}
  BY DEF LeavesOut
<1>2. Remaining(grams, document, u) = WordCount(document, u) - SumFunctionOnSet(left, L)
  BY DEF Remaining, SumFunction
<1> HIDE DEF left, L
<1>3. SumFunctionOnSet(left, L) = 0
  BY <1>1, SumOverNone
<1>4. WordCount(document, u) \in Nat
  BY DocumentFinite
<1> QED
  BY <1>2, <1>3, <1>4

\* What is counted of a word, and of all words, in each document.
FromCount(t) == [d \in Document |-> Cardinality(PairsFrom(d, t))]
OccursCount(t) == [d \in Document |-> WordCount(d, t)]
AllPairs == [d \in Document |-> Cardinality(Pairs(d))]
Each == [d \in Document |-> 1]
AllWords == [d \in Document |-> Cardinality(Words(d))]

SecondsOf(documents, t) == UNION {SecondWords(d, t) : d \in Used(documents)}
WordsOf(documents) == UNION {TokensOf(d) : d \in Used(documents)}

\* A gram, also EmptyGram, is that of the documents.
GramOfCorpus(gram, documents, t) ==
    /\ gram.m_WC = Total(documents, FromCount(t))
    /\ gram.m_freq = Total(documents, OccursCount(t))
    /\ DOMAIN gram.items = SecondsOf(documents, t)
    /\ \A u : ItemOfCorpus(Get(gram.items, u, NoItem), documents, t, u)

GramsOfCorpus(grams, documents) ==
    /\ DOMAIN grams = WordsOf(documents)
    /\ \A t : GramOfCorpus(Get(grams, t, EmptyGram), documents, t)

HeaderOfCorpus(header, documents) ==
    header = [m_WC |-> Total(documents, AllPairs), m_N |-> Total(documents, Each),
              m_total_freq |-> Total(documents, AllWords)]

LEMMA CountsNatural ==
    /\ \A t : IsCount(FromCount(t)) /\ IsCount(OccursCount(t))
    /\ IsCount(AllPairs) /\ IsCount(Each) /\ IsCount(AllWords)
<1>1. \A d \in Document : \A t : Cardinality(PairsFrom(d, t)) \in Nat /\ WordCount(d, t) \in Nat
  BY PairsFromFinite, DocumentFinite
<1>2. \A d \in Document : Cardinality(Pairs(d)) \in Nat /\ Cardinality(Words(d)) \in Nat
  BY PairsFromFinite
<1> QED
  BY <1>1, <1>2 DEF IsCount, FromCount, OccursCount, AllPairs, Each, AllWords

\* What is not in a document adds nothing.
LEMMA TokensCounted ==
    ASSUME NEW document \in Document, NEW t, t \notin TokensOf(document)
    PROVE  /\ Cardinality(PairsFrom(document, t)) = 0 /\ WordCount(document, t) = 0
           /\ SecondWords(document, t) = {} /\ \A u : PairCount(document, t, u) = 0
<1>1. t \notin FirstWords(document) /\ t \notin {document[i] : i \in Words(document)}
  BY DEF TokensOf
<1>2. SecondWords(document, t) = {} /\ WordCount(document, t) = 0
  BY <1>1, DocumentFinite
<1>3. Cardinality(PairsFrom(document, t)) = 0
  BY <1>1, PairsFromFinite
<1>4. \A u : PairCount(document, t, u) = 0
  BY <1>2, DocumentFinite
<1> QED
  BY <1>2, <1>3, <1>4

\* With nothing left out all words of the document have a gram.
LEMMA TrainedTokens ==
    ASSUME NEW grams, NEW document \in Document, ~LeavesOut(grams, document)
    PROVE  DOMAIN TrainedGrams(grams, document) = DOMAIN grams \cup TokensOf(document)
<1> DEFINE gram(t) == Get(grams, t, EmptyGram)
           V == FirstWords(document)
           W == {document[i] : i \in Words(document)}
           trained == {t \in V : Delta(gram(t), document, t) # 0}
           counted == {t \in W : Remaining(grams, document, t) # 0}
<1>1. DOMAIN TrainedGrams(grams, document) = DOMAIN grams \cup trained \cup counted
  BY DEF TrainedGrams
<1>2. trained = V
  <2>1. ASSUME NEW t \in V PROVE Delta(gram(t), document, t) # 0
    <3>1. SecondWords(document, t) # {}
      BY DEF FirstWords, SecondWords
    <3>2. Kept(gram(t), document, t) = SecondWords(document, t)
      BY DEF LeavesOut
    <3> HIDE DEF gram
    <3> QED
      BY <3>1, <3>2, DeltaNatural
  <2> QED
    BY <2>1
<1>3. counted = W
  <2>1. ASSUME NEW t \in W PROVE Remaining(grams, document, t) # 0
    <3> DEFINE S == {i \in Words(document) : document[i] = t}
    <3>1. S # {} /\ IsFiniteSet(S)
      BY DocumentFinite, FS_Subset
    <3>2. WordCount(document, t) = Cardinality(S)
      BY DEF WordCount
    <3> HIDE DEF S
    <3>3. Cardinality(S) # 0
      BY <3>1, FS_EmptySet
    <3> QED
      BY <3>2, <3>3, RemainingOfAll
  <2> QED
    BY <2>1
<1> HIDE DEF trained, counted, V, W
<1> QED
  BY <1>1, <1>2, <1>3 DEF TokensOf, V, W

\* The grams of one document more.
LEMMA TrainedOfCorpus ==
    ASSUME NEW grams, BalancedGrams(grams), NEW documents, IsCorpus(documents),
           GramsOfCorpus(grams, documents),
           NEW document \in Document, ~LeavesOut(grams, document),
           NEW more, more = [documents EXCEPT ![document] = @ + 1]
    PROVE  GramsOfCorpus(TrainedGrams(grams, document), more)
<1> DEFINE new == TrainedGrams(grams, document)
<1>1. /\ IsCorpus(more) /\ Used(more) = Used(documents) \cup {document}
      /\ TotalsGrowBy(more, documents, document)
  BY TotalWithOneMore
<1>2. DOMAIN new = WordsOf(more)
  <2>1. DOMAIN new = WordsOf(documents) \cup TokensOf(document)
    BY TrainedTokens DEF GramsOfCorpus
  <2> QED
    BY <1>1, <2>1 DEF WordsOf
<1>3. ASSUME NEW t PROVE GramOfCorpus(Get(new, t, EmptyGram), more, t)
  <2> DEFINE gram == Get(grams, t, EmptyGram)
             after == Get(new, t, EmptyGram)
             n(u) == PairCount(document, t, u)
             V == SecondWords(document, t)
  <2>1. GramOfCorpus(gram, documents, t)
    BY DEF GramsOfCorpus
  <2>2. /\ after.m_WC = gram.m_WC + Cardinality(PairsFrom(document, t))
        /\ after.m_freq = gram.m_freq + WordCount(document, t)
        /\ DOMAIN after.items = DOMAIN gram.items \cup V
        /\ \A u : Get(after.items, u, NoItem)
                    = IF u \in V THEN Counted(Get(gram.items, u, NoItem), n(u))
                      ELSE Get(gram.items, u, NoItem)
    <3>1. CASE t \in DOMAIN new
      <4>1. Kept(gram, document, t) = V
        <5>1. CASE t \in FirstWords(document)
          BY <5>1 DEF LeavesOut
        <5>2. CASE t \notin FirstWords(document)
          <6>1. V = {}
            BY <5>2, DocumentFinite
          <6> QED
            BY <6>1 DEF Kept
        <5> QED
          BY <5>1, <5>2
      <4>2. Delta(gram, document, t) = Cardinality(PairsFrom(document, t))
        BY <4>1, DeltaOfAll
      <4>3. Remaining(grams, document, t) = WordCount(document, t)
        BY RemainingOfAll
      <4> DEFINE items == [u \in DOMAIN gram.items \cup V |->
                             IF u \notin V THEN gram.items[u]
                             ELSE Counted(Get(gram.items, u, NoItem), n(u))]
      <4>4. after = [m_WC |-> gram.m_WC + Delta(gram, document, t),
                     m_freq |-> gram.m_freq + Remaining(grams, document, t),
                     items |-> items]
        <5>1. after = new[t]
          BY <3>1 DEF Get
        <5>2. new[t] = [m_WC |-> gram.m_WC + Delta(gram, document, t),
                        m_freq |-> gram.m_freq + Remaining(grams, document, t),
                        items |-> [u \in DOMAIN gram.items \cup Kept(gram, document, t) |->
                                      IF u \notin Kept(gram, document, t) THEN gram.items[u]
                                      ELSE Counted(Get(gram.items, u, NoItem),
                                                   PairCount(document, t, u))]]
          BY <3>1, TrainedGramIs
        <5> QED
          BY <4>1, <5>1, <5>2
      <4>5. \A u : Get(items, u, NoItem)
                    = IF u \in V THEN Counted(Get(gram.items, u, NoItem), n(u))
                      ELSE Get(gram.items, u, NoItem)
        <5> SUFFICES ASSUME NEW u
                     PROVE  Get(items, u, NoItem)
                              = IF u \in V THEN Counted(Get(gram.items, u, NoItem), n(u))
                                ELSE Get(gram.items, u, NoItem)
          OBVIOUS
        <5> HIDE DEF gram, V
        <5> QED
          BY DEF Get
      <4>6. after.items = items /\ DOMAIN items = DOMAIN gram.items \cup V
        BY <4>4
      <4> HIDE DEF gram, after, items, V
      <4> QED
        BY <4>2, <4>3, <4>4, <4>5, <4>6
    <3>2. CASE t \notin DOMAIN new
      <4>1. t \notin DOMAIN grams /\ t \notin TokensOf(document)
        BY <3>2, TrainedTokens
      <4>2. gram = EmptyGram /\ after = EmptyGram
        BY <3>2, <4>1 DEF Get
      <4>3. /\ Cardinality(PairsFrom(document, t)) = 0 /\ WordCount(document, t) = 0
            /\ V = {}
        BY <4>1, TokensCounted
      <4>4. EmptyGram.m_WC = 0 /\ EmptyGram.m_freq = 0
        BY DEF EmptyGram
      <4> HIDE DEF gram, after, V
      <4> QED
        BY <4>2, <4>3, <4>4
    <3> QED
      BY <3>1, <3>2
  <2> HIDE DEF gram, after, V, n
  <2>3. after.m_WC = Total(more, FromCount(t)) /\ after.m_freq = Total(more, OccursCount(t))
    <3>1. /\ FromCount(t)[document] = Cardinality(PairsFrom(document, t))
          /\ OccursCount(t)[document] = WordCount(document, t)
      BY DEF FromCount, OccursCount
    <3> QED
      BY <1>1, <2>1, <2>2, <3>1, CountsNatural DEF TotalsGrowBy, GramOfCorpus
  <2>4. DOMAIN after.items = SecondsOf(more, t)
    <3>1. DOMAIN after.items = SecondsOf(documents, t) \cup SecondWords(document, t)
      BY <2>1, <2>2 DEF GramOfCorpus, V
    <3> QED
      BY <1>1, <3>1 DEF SecondsOf
  <2>5. ASSUME NEW u PROVE ItemOfCorpus(Get(after.items, u, NoItem), more, t, u)
    <3> DEFINE item == Get(gram.items, u, NoItem)
    <3>1. ItemOfCorpus(item, documents, t, u)
      BY <2>1 DEF GramOfCorpus
    <3> HIDE DEF item
    <3>2. /\ PairCount(document, t, u) = 0 => ItemOfCorpus(item, more, t, u)
          /\ PairCount(document, t, u) # 0 =>
                ItemOfCorpus(Counted(item, PairCount(document, t, u)), more, t, u)
      BY <3>1, CountedOfCorpus
    <3>3. u \in V <=> PairCount(document, t, u) # 0
      BY DocumentFinite DEF V
    <3> QED
      BY <2>2, <3>2, <3>3 DEF item, n
  <2> QED
    BY <2>3, <2>4, <2>5 DEF GramOfCorpus, after
<1> QED
  BY <1>2, <1>3 DEF GramsOfCorpus

\* The grams of two corpora, merged.
LEMMA MergedOfCorpora ==
    ASSUME NEW one, IsCorpus(one), NEW other, IsCorpus(other),
           NEW documents, AreBoth(documents, one, other),
           NEW old, GramsOfCorpus(old, one), NEW new, GramsOfCorpus(new, other),
           NEW merged, merged = [t \in DOMAIN old \cup DOMAIN new |->
                                    MergedGram(Get(old, t, EmptyGram), Get(new, t, EmptyGram))]
    PROVE  GramsOfCorpus(merged, documents)
<1>1. /\ IsCorpus(documents) /\ Used(documents) = Used(one) \cup Used(other)
      /\ TotalsAdd(documents, one, other)
  BY TotalsOfBoth
<1>2. DOMAIN merged = WordsOf(documents)
  <2>1. DOMAIN merged = WordsOf(one) \cup WordsOf(other)
    BY DEF GramsOfCorpus
  <2> QED
    BY <1>1, <2>1 DEF WordsOf
<1>3. ASSUME NEW t PROVE GramOfCorpus(Get(merged, t, EmptyGram), documents, t)
  <2> DEFINE first == Get(old, t, EmptyGram)
             second == Get(new, t, EmptyGram)
             gram == Get(merged, t, EmptyGram)
  <2>1. GramOfCorpus(first, one, t) /\ GramOfCorpus(second, other, t)
    BY DEF GramsOfCorpus
  <2>2. /\ gram.m_WC = first.m_WC + second.m_WC /\ gram.m_freq = first.m_freq + second.m_freq
        /\ DOMAIN gram.items = DOMAIN first.items \cup DOMAIN second.items
        /\ \A u : Get(gram.items, u, NoItem)
                     = Added(Get(first.items, u, NoItem), Get(second.items, u, NoItem))
    <3>0. ASSUME NEW u
          PROVE  Added(Get(<<>>, u, NoItem), Get(<<>>, u, NoItem)) = NoItem
      <4>1. Get(<<>>, u, NoItem) = NoItem
        BY DEF Get
      <4>2. /\ NoItem.m_WC = 0 /\ NoItem.m_N_n_0 = 0 /\ NoItem.m_n_1 = 0 /\ NoItem.m_Mr = 0
            /\ NoItem = [m_WC |-> 0, m_N_n_0 |-> 0, m_n_1 |-> 0, m_Mr |-> 0]
        BY DEF NoItem
      <4>3. Max({NoItem.m_Mr, NoItem.m_Mr}) = 0
        BY <4>2, MaxOfTwo
      <4>4. Added(NoItem, NoItem) = NoItem
        BY <4>2, <4>3 DEF Added
      <4> QED
        BY <4>1, <4>4
    <3>1. CASE t \in DOMAIN merged
      <4> DEFINE items == [u \in DOMAIN first.items \cup DOMAIN second.items |->
                              Added(Get(first.items, u, NoItem), Get(second.items, u, NoItem))]
      <4>1. gram = [m_WC |-> first.m_WC + second.m_WC, m_freq |-> first.m_freq + second.m_freq,
                    items |-> items]
        BY <3>1 DEF Get, MergedGram
      <4>2. ASSUME NEW u
            PROVE  Get(items, u, NoItem)
                     = Added(Get(first.items, u, NoItem), Get(second.items, u, NoItem))
        <5>1. CASE u \in DOMAIN items
          BY <5>1 DEF Get
        <5>2. CASE u \notin DOMAIN items
          <6>1. /\ Get(items, u, NoItem) = NoItem /\ Get(first.items, u, NoItem) = NoItem
                /\ Get(second.items, u, NoItem) = NoItem /\ Get(<<>>, u, NoItem) = NoItem
            <7> HIDE DEF first, second
            <7> QED
              BY <5>2 DEF Get
          <6> QED
            BY <3>0, <6>1
        <5> QED
          BY <5>1, <5>2
      <4>3. DOMAIN items = DOMAIN first.items \cup DOMAIN second.items /\ gram.items = items
        BY <4>1
      <4> HIDE DEF gram, first, second, items
      <4> QED
        BY <4>1, <4>2, <4>3
    <3>2. CASE t \notin DOMAIN merged
      <4>1. gram = EmptyGram /\ first = EmptyGram /\ second = EmptyGram
        BY <3>2 DEF Get
      <4>2. EmptyGram.m_WC = 0 /\ EmptyGram.m_freq = 0 /\ EmptyGram.items = <<>>
        BY DEF EmptyGram
      <4>3. \A u : Get(<<>>, u, NoItem) = NoItem
        BY DEF Get
      <4> HIDE DEF gram, first, second
      <4> QED
        BY <3>0, <4>1, <4>2, <4>3
    <3> QED
      BY <3>1, <3>2
  <2> HIDE DEF first, second, gram
  <2>3. gram.m_WC = Total(documents, FromCount(t)) /\ gram.m_freq = Total(documents, OccursCount(t))
    BY <1>1, <2>1, <2>2, CountsNatural DEF TotalsAdd, GramOfCorpus
  <2>4. DOMAIN gram.items = SecondsOf(documents, t)
    <3>1. DOMAIN gram.items = SecondsOf(one, t) \cup SecondsOf(other, t)
      BY <2>1, <2>2 DEF GramOfCorpus
    <3> QED
      BY <1>1, <3>1 DEF SecondsOf
  <2>5. ASSUME NEW u PROVE ItemOfCorpus(Get(gram.items, u, NoItem), documents, t, u)
    <3> DEFINE a == Get(first.items, u, NoItem)
               b == Get(second.items, u, NoItem)
    <3>1. ItemOfCorpus(a, one, t, u) /\ ItemOfCorpus(b, other, t, u)
      BY <2>1 DEF GramOfCorpus
    <3> HIDE DEF a, b
    <3>2. ItemOfCorpus(Added(a, b), documents, t, u)
      BY <3>1, AddedOfCorpora
    <3> QED
      BY <2>2, <3>2 DEF a, b
  <2> QED
    BY <2>3, <2>4, <2>5 DEF GramOfCorpus, gram
<1> QED
  BY <1>2, <1>3 DEF GramsOfCorpus

\* The headers of both, and of a document more.
LEMMA HeadersOfCorpora ==
    ASSUME NEW one, IsCorpus(one), NEW other, IsCorpus(other),
           NEW documents, AreBoth(documents, one, other),
           NEW old, HeaderOfCorpus(old, one), NEW new, HeaderOfCorpus(new, other)
    PROVE  HeaderOfCorpus([m_WC |-> old.m_WC + new.m_WC, m_N |-> old.m_N + new.m_N,
                           m_total_freq |-> old.m_total_freq + new.m_total_freq], documents)
<1>1. TotalsAdd(documents, one, other)
  BY TotalsOfBoth
<1>2. /\ Total(documents, AllPairs) = Total(one, AllPairs) + Total(other, AllPairs)
      /\ Total(documents, Each) = Total(one, Each) + Total(other, Each)
      /\ Total(documents, AllWords) = Total(one, AllWords) + Total(other, AllWords)
  BY <1>1, CountsNatural DEF TotalsAdd
<1>3. /\ old.m_WC = Total(one, AllPairs) /\ old.m_N = Total(one, Each)
      /\ old.m_total_freq = Total(one, AllWords)
      /\ new.m_WC = Total(other, AllPairs) /\ new.m_N = Total(other, Each)
      /\ new.m_total_freq = Total(other, AllWords)
  BY DEF HeaderOfCorpus
<1> QED
  BY <1>2, <1>3 DEF HeaderOfCorpus

LEMMA HeaderOfOneMore ==
    ASSUME NEW documents, IsCorpus(documents), NEW document \in Document,
           NEW more, more = [documents EXCEPT ![document] = @ + 1],
           NEW old, HeaderOfCorpus(old, documents)
    PROVE  HeaderOfCorpus([m_WC |-> old.m_WC + Cardinality(Pairs(document)),
                           m_N |-> old.m_N + 1,
                           m_total_freq |-> old.m_total_freq + Cardinality(Words(document))],
                          more)
<1>1. TotalsGrowBy(more, documents, document)
  BY TotalWithOneMore
<1>2. /\ AllPairs[document] = Cardinality(Pairs(document)) /\ Each[document] = 1
      /\ AllWords[document] = Cardinality(Words(document))
  BY DEF AllPairs, Each, AllWords
<1>3. /\ Total(more, AllPairs) = Total(documents, AllPairs) + Cardinality(Pairs(document))
      /\ Total(more, Each) = Total(documents, Each) + 1
      /\ Total(more, AllWords) = Total(documents, AllWords) + Cardinality(Words(document))
  BY <1>1, <1>2, CountsNatural DEF TotalsGrowBy
<1>4. /\ old.m_WC = Total(documents, AllPairs) /\ old.m_N = Total(documents, Each)
      /\ old.m_total_freq = Total(documents, AllWords)
  BY DEF HeaderOfCorpus
<1> QED
  BY <1>3, <1>4 DEF HeaderOfCorpus

IsModelOf(model, documents) ==
    /\ IsCorpus(documents)
    /\ HeaderOfCorpus(Old(model.header), documents)
    /\ GramsOfCorpus(model.grams, documents)

IsCorpusRecord(c) == c = [known |-> c.known, documents |-> c.documents]

KnownCorpus(c, model) == c.known => IsModelOf(model, c.documents)

\* Every file holds the model of its corpus, and so does the text: a file is
\* imported from it.
CorporaKnown ==
    /\ DOMAIN corpus = File
    /\ \A file \in File : IsCorpusRecord(corpus[file])
    /\ \A file \in File \ refused : KnownCorpus(corpus[file], models[file])
    /\ IsCorpusRecord(text.corpus)
    /\ KnownCorpus(text.corpus, Imported(text.lines))

\* A header that counts documents is not the one of an empty file.
LEMMA HeaderStays ==
    ASSUME NEW a, NEW n \in Nat, NEW b
    PROVE  Old([m_WC |-> a, m_N |-> n, m_total_freq |-> b])
               = [m_WC |-> a, m_N |-> n, m_total_freq |-> b]
<1> DEFINE header == [m_WC |-> a, m_N |-> n, m_total_freq |-> b]
<1>1. header.m_N = n /\ NoHeader.m_N = -1
  BY DEF NoHeader
<1>2. header # NoHeader
  BY <1>1
<1> QED
  BY <1>2 DEF Old

\* An empty file is the model of no documents.
LEMMA EmptyModelOfNone ==
    ASSUME NEW documents, documents = [d \in Document |-> 0]
    PROVE  IsModelOf(EmptyModel, documents)
<1>1. /\ IsCorpus(documents) /\ Used(documents) = {}
      /\ \A count : Total(documents, count) = 0
  BY TotalOfNone
<1>2. HeaderOfCorpus(Old(EmptyModel.header), documents)
  <2>1. Old(EmptyModel.header) = [m_WC |-> 0, m_N |-> 0, m_total_freq |-> 0]
    BY DEF EmptyModel, Old
  <2>2. /\ Total(documents, AllPairs) = 0 /\ Total(documents, Each) = 0
        /\ Total(documents, AllWords) = 0
    BY <1>1
  <2> QED
    BY <2>1, <2>2 DEF HeaderOfCorpus
<1>3. EmptyModel.grams = <<>> /\ DOMAIN <<>> = {} /\ WordsOf(documents) = {}
  BY <1>1 DEF EmptyModel, WordsOf
<1>4. ASSUME NEW t PROVE GramOfCorpus(Get(<<>>, t, EmptyGram), documents, t)
  <2>1. Get(<<>>, t, EmptyGram) = EmptyGram /\ \A u : Get(<<>>, u, NoItem) = NoItem
    BY DEF Get
  <2>2. EmptyGram.m_WC = 0 /\ EmptyGram.m_freq = 0 /\ EmptyGram.items = <<>>
    BY DEF EmptyGram
  <2>3. SecondsOf(documents, t) = {}
    BY <1>1 DEF SecondsOf
  <2>4. Total(documents, FromCount(t)) = 0 /\ Total(documents, OccursCount(t)) = 0
    BY <1>1
  <2>5. \A u : ItemOfCorpus(NoItem, documents, t, u)
    BY NoItemOfNone
  <2> QED
    BY <1>3, <2>1, <2>2, <2>3, <2>4, <2>5 DEF GramOfCorpus
<1> QED
  BY <1>1, <1>2, <1>3, <1>4 DEF IsModelOf, GramsOfCorpus

\* A model of one document more.
LEMMA TrainedModelOf ==
    ASSUME NEW model, BalancedModel(model), NEW documents, IsModelOf(model, documents),
           NEW document \in Document, ~LeavesOut(model.grams, document),
           NEW deltas, deltas = [t \in FirstWords(document) |->
                                    Delta(Get(model.grams, t, EmptyGram), document, t)],
           NEW words, words = SumFunction([t \in {document[i] : i \in Words(document)} |->
                                              Remaining(model.grams, document, t)]),
           NEW new, new = [header |-> [m_WC |-> Old(model.header).m_WC
                                                  + SumFunctionOnSet(deltas, DOMAIN deltas),
                                       m_N |-> Old(model.header).m_N + 1,
                                       m_total_freq |-> Old(model.header).m_total_freq + words],
                           grams |-> TrainedGrams(model.grams, document)]
    PROVE  IsModelOf(new, [documents EXCEPT ![document] = @ + 1])
<1> DEFINE more == [documents EXCEPT ![document] = @ + 1]
           old == Old(model.header)
           grams == model.grams
<1>1. /\ IsCorpus(documents) /\ HeaderOfCorpus(old, documents) /\ GramsOfCorpus(grams, documents)
  BY DEF IsModelOf
<1>2. BalancedGrams(grams) /\ old.m_N \in Nat
  BY OldBalanced
<1>3. SumFunctionOnSet(deltas, DOMAIN deltas) = Cardinality(Pairs(document))
  <2>1. ASSUME NEW t \in FirstWords(document)
        PROVE  deltas[t] = Cardinality(PairsFrom(document, t))
    <3>1. Kept(Get(grams, t, EmptyGram), document, t) = SecondWords(document, t)
      BY DEF LeavesOut
    <3> QED
      BY <3>1, DeltaOfAll
  <2>2. DOMAIN deltas = FirstWords(document)
    OBVIOUS
  <2> QED
    BY <2>1, <2>2, PairsByFirst
<1>4. words = Cardinality(Words(document))
  <2> DEFINE W == {document[i] : i \in Words(document)}
             counts == [t \in W |-> Remaining(grams, document, t)]
  <2>1. words = SumFunctionOnSet(counts, W)
    BY DEF SumFunction
  <2>2. \A t \in W : counts[t] = WordCount(document, t)
    BY RemainingOfAll
  <2> HIDE DEF counts
  <2> QED
    BY <2>1, <2>2, WordsByToken
<1> HIDE DEF old, more
<1>5. HeaderOfCorpus(new.header, more)
  <2>1. HeaderOfCorpus([m_WC |-> old.m_WC + Cardinality(Pairs(document)), m_N |-> old.m_N + 1,
                        m_total_freq |-> old.m_total_freq + Cardinality(Words(document))], more)
    BY <1>1, HeaderOfOneMore DEF more
  <2>2. new.header = [m_WC |-> old.m_WC + Cardinality(Pairs(document)), m_N |-> old.m_N + 1,
                      m_total_freq |-> old.m_total_freq + Cardinality(Words(document))]
    BY <1>3, <1>4 DEF old
  <2> QED
    BY <2>1, <2>2
<1>6. Old(new.header) = new.header
  <2> DEFINE a == old.m_WC + SumFunctionOnSet(deltas, DOMAIN deltas)
             b == old.m_total_freq + words
             n == old.m_N + 1
  <2>1. new.header = [m_WC |-> a, m_N |-> n, m_total_freq |-> b] /\ n \in Nat
    BY <1>2 DEF old
  <2> HIDE DEF a, b, n
  <2> QED
    BY <2>1, HeaderStays
<1>7. GramsOfCorpus(new.grams, more) /\ IsCorpus(more)
  <2>1. new.grams = TrainedGrams(grams, document)
    OBVIOUS
  <2>2. IsCorpus(more)
    BY <1>1, TotalWithOneMore DEF more
  <2> QED
    BY <1>1, <1>2, <2>1, <2>2, TrainedOfCorpus DEF more
<1> QED
  BY <1>5, <1>6, <1>7 DEF IsModelOf, more

\* The model of two corpora.
LEMMA MergedModelOf ==
    ASSUME NEW first, BalancedModel(first), NEW one, IsModelOf(first, one),
           NEW second, BalancedModel(second), second.header # NoHeader,
           NEW other, IsModelOf(second, other),
           NEW documents, AreBoth(documents, one, other),
           NEW merged, merged = [t \in DOMAIN first.grams \cup DOMAIN second.grams |->
                                    MergedGram(Get(first.grams, t, EmptyGram),
                                               Get(second.grams, t, EmptyGram))],
           NEW new, new = [header |-> [m_WC |-> Old(first.header).m_WC + second.header.m_WC,
                                       m_N |-> Old(first.header).m_N + second.header.m_N,
                                       m_total_freq |-> Old(first.header).m_total_freq
                                                          + second.header.m_total_freq],
                           grams |-> merged]
    PROVE  IsModelOf(new, documents)
<1> DEFINE old == Old(first.header)
           header == second.header
<1>1. /\ IsCorpus(one) /\ HeaderOfCorpus(old, one) /\ GramsOfCorpus(first.grams, one)
      /\ IsCorpus(other) /\ GramsOfCorpus(second.grams, other)
      /\ HeaderOfCorpus(header, other)
  BY DEF IsModelOf, Old
<1>2. old.m_N \in Nat /\ header.m_N \in Nat
  <2>1. Old(second.header).m_N \in Nat /\ old.m_N \in Nat
    BY OldBalanced
  <2> QED
    BY <2>1 DEF Old
<1> HIDE DEF old, header
<1>3. HeaderOfCorpus(new.header, documents)
  <2>1. HeaderOfCorpus([m_WC |-> old.m_WC + header.m_WC, m_N |-> old.m_N + header.m_N,
                        m_total_freq |-> old.m_total_freq + header.m_total_freq], documents)
    BY <1>1, HeadersOfCorpora
  <2>2. new.header = [m_WC |-> old.m_WC + header.m_WC, m_N |-> old.m_N + header.m_N,
                      m_total_freq |-> old.m_total_freq + header.m_total_freq]
    BY DEF old, header
  <2> QED
    BY <2>1, <2>2
<1>4. Old(new.header) = new.header
  <2> DEFINE a == old.m_WC + header.m_WC
             b == old.m_total_freq + header.m_total_freq
             n == old.m_N + header.m_N
  <2>1. new.header = [m_WC |-> a, m_N |-> n, m_total_freq |-> b] /\ n \in Nat
    BY <1>2 DEF old, header
  <2> HIDE DEF a, b, n
  <2> QED
    BY <2>1, HeaderStays
<1>5. GramsOfCorpus(new.grams, documents) /\ IsCorpus(documents)
  <2>1. new.grams = merged
    OBVIOUS
  <2>2. IsCorpus(documents)
    BY <1>1, TotalsOfBoth
  <2>3. GramsOfCorpus(merged, documents)
    BY <1>1, MergedOfCorpora
  <2> QED
    BY <2>1, <2>2, <2>3
<1> QED
  BY <1>3, <1>4, <1>5 DEF IsModelOf

LEMMA InitKnown == Init => CorporaKnown
<1> SUFFICES ASSUME Init PROVE CorporaKnown
  OBVIOUS
<1> DEFINE none == [d \in Document |-> 0]
<1>1. NoDocuments = [known |-> TRUE, documents |-> none]
  <2>1. Unknown = [known |-> FALSE, documents |-> none]
    BY DEF Unknown
  <2> HIDE DEF none
  <2>2. PICK u : u = Unknown
    OBVIOUS
  <2>3. NoDocuments = [u EXCEPT !.known = TRUE]
    BY <2>2 DEF NoDocuments
  <2>4. u = [known |-> FALSE, documents |-> none]
    BY <2>1, <2>2
  <2> QED
    BY <2>3, <2>4
<1>2. IsModelOf(EmptyModel, none)
  BY EmptyModelOfNone
<1> HIDE DEF none
<1>3. IsCorpusRecord(NoDocuments) /\ KnownCorpus(NoDocuments, EmptyModel)
  BY <1>1, <1>2 DEF IsCorpusRecord, KnownCorpus
<1>4. Imported(Exported(EmptyModel)) = EmptyModel
  BY ImportedExported DEF BalancedModel
<1> QED
  BY <1>3, <1>4 DEF Init, CorporaKnown

\* What is known of a corpus a document was trained into, and of two that were merged.
LEMMA CorpusWithDocument ==
    ASSUME NEW c, IsCorpusRecord(c), NEW document \in Document, NEW left,
           NEW new, new = IF c.known /\ ~left THEN WithOneMore(c, document) ELSE Unknown
    PROVE  /\ IsCorpusRecord(new)
           /\ new.known => /\ ~left /\ c.known
                           /\ new.documents = [c.documents EXCEPT ![document] = @ + 1]
<1>1. IsCorpusRecord(Unknown) /\ ~Unknown.known
  BY DEF IsCorpusRecord, Unknown
<1>2. ASSUME ~left, c.known
      PROVE  /\ IsCorpusRecord(new)
             /\ new.documents = [c.documents EXCEPT ![document] = @ + 1]
  <2> DEFINE more == [c.documents EXCEPT ![document] = @ + 1]
  <2>1. new = [c EXCEPT !.documents = more]
    BY <1>2 DEF WithOneMore
  <2> HIDE DEF more
  <2>2. PICK a, b : c = [known |-> a, documents |-> b]
    BY DEF IsCorpusRecord
  <2>3. new = [known |-> a, documents |-> more]
    BY <2>1, <2>2
  <2>4. new.known = a /\ new.documents = more
    BY <2>3
  <2> QED
    BY <2>3, <2>4 DEF IsCorpusRecord, more
<1> QED
  BY <1>1, <1>2

LEMMA CorpusOfBoth ==
    ASSUME NEW c, IsCorpusRecord(c), NEW other,
           NEW new, new = IF c.known /\ other.known THEN WithThose(c, other) ELSE Unknown
    PROVE  /\ IsCorpusRecord(new)
           /\ new.known => /\ other.known /\ c.known
                           /\ new.documents =
                                 [d \in Document |-> c.documents[d] + other.documents[d]]
<1>1. IsCorpusRecord(Unknown) /\ ~Unknown.known
  BY DEF IsCorpusRecord, Unknown
<1>2. ASSUME other.known, c.known
      PROVE  /\ IsCorpusRecord(new)
             /\ new.documents = [d \in Document |-> c.documents[d] + other.documents[d]]
  <2> DEFINE both == [d \in Document |-> c.documents[d] + other.documents[d]]
  <2>1. new = [c EXCEPT !.documents = both]
    BY <1>2 DEF WithThose
  <2> HIDE DEF both
  <2>2. PICK a, b : c = [known |-> a, documents |-> b]
    BY DEF IsCorpusRecord
  <2>3. new = [known |-> a, documents |-> both]
    BY <2>1, <2>2
  <2>4. new.known = a /\ new.documents = both
    BY <2>3
  <2> QED
    BY <2>3, <2>4 DEF IsCorpusRecord, both
<1> QED
  BY <1>1, <1>2

\* Training a document.
LEMMA TrainKeepsCorpora ==
    ASSUME Balanced, CorporaKnown, NEW file \in File, NEW document \in Document,
           Train(file, document)
    PROVE  CorporaKnown'
<1> DEFINE model == models[file]
           grams == model.grams
           old == Old(model.header)
           c == corpus[file]
           deltas == [t \in FirstWords(document) |->
                         Delta(Get(grams, t, EmptyGram), document, t)]
           words == SumFunction([t \in {document[i] : i \in Words(document)} |->
                                    Remaining(grams, document, t)])
           overflows == old.m_total_freq + words > MaxCount
           after(accepted) ==
               [header |-> [m_WC |-> old.m_WC + SumFunctionOnSet(deltas, accepted),
                            m_N |-> old.m_N + 1,
                            m_total_freq |-> old.m_total_freq + (IF overflows THEN 0 ELSE words)],
                grams |-> TrainedGrams(grams, document)]
           left == LeavesOut(grams, document)
           known == IF c.known /\ ~left THEN WithOneMore(c, document) ELSE Unknown
           new == models'[file]
           d == corpus'[file]
<1>1. /\ file \notin refused /\ text' = text
      /\ \E accepted : /\ models' = [models EXCEPT ![file] = after(accepted)]
                       /\ refused' = IF accepted # DOMAIN deltas \/ overflows
                                     THEN refused \cup {file} ELSE refused
      /\ corpus' = [corpus EXCEPT ![file] = known]
  BY DEF Train
<1>2. BalancedModel(model) /\ IsCorpusRecord(c) /\ KnownCorpus(c, model) /\ DOMAIN corpus = File
  BY <1>1 DEF Balanced, CorporaKnown
<1>3. PICK accepted : /\ models' = [models EXCEPT ![file] = after(accepted)]
                      /\ refused' = IF accepted # DOMAIN deltas \/ overflows
                                    THEN refused \cup {file} ELSE refused
  BY <1>1
<1>4. IsCorpusRecord(d) /\ (d.known => /\ ~left /\ c.known
                                       /\ d.documents = [c.documents EXCEPT ![document] = @ + 1])
  <2>1. d = known
    <3> HIDE DEF known
    <3> QED
      BY <1>1, <1>2
  <2>2. d = IF c.known /\ ~left THEN WithOneMore(c, document) ELSE Unknown
    BY <2>1
  <2> HIDE DEF d, c, left
  <2> QED
    BY <1>2, <2>2, CorpusWithDocument
<1> HIDE DEF overflows, deltas, words, left, known
<1>5. /\ new = after(accepted) /\ DOMAIN corpus' = File
      /\ \A other \in File \ {file} : models'[other] = models[other] /\ corpus'[other] = corpus[other]
      /\ refused \subseteq refused'
  BY <1>1, <1>2, <1>3 DEF Balanced
<1>6. ASSUME file \notin refused', d.known PROVE IsModelOf(new, d.documents)
  <2>1. accepted = DOMAIN deltas /\ ~overflows
    BY <1>3, <1>6
  <2>2. new = [header |-> [m_WC |-> old.m_WC + SumFunctionOnSet(deltas, DOMAIN deltas),
                           m_N |-> old.m_N + 1,
                           m_total_freq |-> old.m_total_freq + words],
               grams |-> TrainedGrams(grams, document)]
    <3> HIDE DEF old, new
    <3> QED
      BY <1>5, <2>1
  <2>3. IsModelOf(model, c.documents) /\ ~LeavesOut(model.grams, document)
    BY <1>2, <1>4, <1>6 DEF KnownCorpus, left
  <2>4. IsModelOf(new, [c.documents EXCEPT ![document] = @ + 1])
    <3> HIDE DEF model, c, new
    <3> QED
      BY <1>2, <2>2, <2>3, TrainedModelOf DEF deltas, words
  <2> QED
    BY <1>4, <1>6, <2>4
<1> HIDE DEF new, d
<1>7. file \notin refused' => KnownCorpus(d, new)
  BY <1>6 DEF KnownCorpus
<1>8. \A other \in File : IsCorpusRecord(corpus'[other])
  BY <1>4, <1>5 DEF CorporaKnown, d
<1>9. \A other \in File \ refused' : KnownCorpus(corpus'[other], models'[other])
  BY <1>5, <1>7 DEF CorporaKnown, d, new
<1> QED
  BY <1>1, <1>5, <1>8, <1>9 DEF CorporaKnown

\* Merging two models.
LEMMA MergeKeepsCorpora ==
    ASSUME Balanced, CorporaKnown, NEW target \in File, NEW new_one \in File,
           Merge(target, new_one)
    PROVE  CorporaKnown'
<1> DEFINE first == models[target]
           second == models[new_one]
           old == Old(first.header)
           c == corpus[target]
           other == corpus[new_one]
           overflows == \/ old.m_WC + second.header.m_WC > MaxCount
                        \/ old.m_total_freq + second.header.m_total_freq > MaxCount
           merged == [t \in DOMAIN first.grams \cup DOMAIN second.grams |->
                         MergedGram(Get(first.grams, t, EmptyGram),
                                    Get(second.grams, t, EmptyGram))]
           both == [x \in Document |-> c.documents[x] + other.documents[x]]
           known == IF c.known /\ other.known THEN WithThose(c, other) ELSE Unknown
           new == models'[target]
           d == corpus'[target]
<1>1. /\ target \notin refused /\ new_one \notin refused /\ text' = text
      /\ second.header # NoHeader
      /\ models' = [models EXCEPT ![target] =
              [header |-> IF overflows THEN first.header
                          ELSE [m_WC |-> old.m_WC + second.header.m_WC,
                                m_N |-> old.m_N + second.header.m_N,
                                m_total_freq |-> old.m_total_freq + second.header.m_total_freq],
               grams |-> merged]]
      /\ refused' = IF overflows THEN refused \cup {target} ELSE refused
      /\ corpus' = [corpus EXCEPT ![target] = known]
  BY DEF Merge
<1>2. /\ BalancedModel(first) /\ BalancedModel(second)
      /\ IsCorpusRecord(c) /\ KnownCorpus(c, first) /\ KnownCorpus(other, second)
      /\ DOMAIN corpus = File
  BY <1>1 DEF Balanced, CorporaKnown
<1>3. IsCorpusRecord(d) /\ (d.known => other.known /\ c.known /\ d.documents = both)
  <2>1. d = known
    <3> HIDE DEF known
    <3> QED
      BY <1>1, <1>2
  <2>2. d = IF c.known /\ other.known THEN WithThose(c, other) ELSE Unknown
    BY <2>1
  <2> HIDE DEF d, c, other
  <2> QED
    BY <1>2, <2>2, CorpusOfBoth
<1> HIDE DEF overflows, merged, known
<1>4. /\ DOMAIN corpus' = File
      /\ \A file \in File \ {target} : models'[file] = models[file] /\ corpus'[file] = corpus[file]
      /\ refused \subseteq refused'
  BY <1>1, <1>2 DEF Balanced
<1>5. ASSUME target \notin refused', d.known PROVE IsModelOf(new, d.documents)
  <2>1. ~overflows
    BY <1>1, <1>5
  <2>2. new = [header |-> [m_WC |-> old.m_WC + second.header.m_WC,
                           m_N |-> old.m_N + second.header.m_N,
                           m_total_freq |-> old.m_total_freq + second.header.m_total_freq],
               grams |-> merged]
    BY <1>1, <2>1 DEF Balanced
  <2>3. IsModelOf(first, c.documents) /\ IsModelOf(second, other.documents)
    BY <1>2, <1>3, <1>5 DEF KnownCorpus
  <2>4. AreBoth(both, c.documents, other.documents)
    <3>1. c.documents \in [Document -> Nat] /\ other.documents \in [Document -> Nat]
      BY <2>3 DEF IsModelOf, IsCorpus
    <3> QED
      BY <3>1 DEF AreBoth
  <2>5. IsModelOf(new, both)
    <3> HIDE DEF first, second, c, other, both, new
    <3> QED
      BY <1>1, <1>2, <2>2, <2>3, <2>4, MergedModelOf DEF merged
  <2> QED
    BY <1>3, <1>5, <2>5
<1> HIDE DEF new, d
<1>6. target \notin refused' => KnownCorpus(d, new)
  BY <1>5 DEF KnownCorpus
<1>7. \A file \in File : IsCorpusRecord(corpus'[file])
  BY <1>3, <1>4 DEF CorporaKnown, d
<1>8. \A file \in File \ refused' : KnownCorpus(corpus'[file], models'[file])
  BY <1>4, <1>6 DEF CorporaKnown, d, new
<1> QED
  BY <1>1, <1>4, <1>7, <1>8 DEF CorporaKnown

\* After pruning nothing is known; the text has the model and the corpus of its file.
LEMMA OthersKeepCorpora ==
    ASSUME Balanced, CorporaKnown, NEW file \in File,
           Prune(file) \/ Export(file) \/ Import(file)
    PROVE  CorporaKnown'
<1>1. CASE Prune(file)
  <2> DEFINE pruned == models'[file]
  <2>1. /\ corpus' = [corpus EXCEPT ![file] = Unknown] /\ UNCHANGED <<refused, text>>
        /\ \E model : models' = [models EXCEPT ![file] = model]
    BY <1>1 DEF Prune
  <2>2. IsCorpusRecord(Unknown) /\ ~Unknown.known
    BY DEF IsCorpusRecord, Unknown
  <2>3. /\ DOMAIN corpus' = File /\ corpus'[file] = Unknown
        /\ \A other \in File \ {file} : models'[other] = models[other] /\ corpus'[other] = corpus[other]
    BY <2>1 DEF CorporaKnown, Balanced
  <2>4. \A other \in File : IsCorpusRecord(corpus'[other])
    BY <2>2, <2>3 DEF CorporaKnown
  <2>5. \A other \in File \ refused' : KnownCorpus(corpus'[other], models'[other])
    <3>1. KnownCorpus(Unknown, models'[file])
      BY <2>2 DEF KnownCorpus
    <3> QED
      BY <2>1, <2>3, <3>1 DEF CorporaKnown
  <2> QED
    BY <2>1, <2>3, <2>4, <2>5 DEF CorporaKnown
<1>2. CASE Export(file)
  <2>1. /\ UNCHANGED <<models, refused, corpus>> /\ file \notin refused
        /\ text' = [lines |-> Exported(models[file]), corpus |-> corpus[file]]
    BY <1>2 DEF Export
  <2>2. text'.lines = Exported(models[file]) /\ text'.corpus = corpus[file]
    BY <2>1
  <2>3. Imported(Exported(models[file])) = models[file]
    BY <2>1, ImportedExported DEF Balanced
  <2>4. IsCorpusRecord(corpus[file]) /\ KnownCorpus(corpus[file], models[file])
    BY <2>1 DEF CorporaKnown
  <2> QED
    BY <2>1, <2>2, <2>3, <2>4 DEF CorporaKnown
<1>3. CASE Import(file)
  <2>1. /\ models' = [models EXCEPT ![file] = Imported(text.lines)]
        /\ corpus' = [corpus EXCEPT ![file] = text.corpus] /\ UNCHANGED <<refused, text>>
    BY <1>3 DEF Import
  <2>2. /\ DOMAIN corpus' = File /\ corpus'[file] = text.corpus
        /\ models'[file] = Imported(text.lines)
        /\ \A other \in File \ {file} : models'[other] = models[other] /\ corpus'[other] = corpus[other]
    BY <2>1 DEF CorporaKnown, Balanced
  <2>3. \A other \in File : IsCorpusRecord(corpus'[other])
    BY <2>2 DEF CorporaKnown
  <2>4. \A other \in File \ refused' : KnownCorpus(corpus'[other], models'[other])
    BY <2>1, <2>2 DEF CorporaKnown
  <2> QED
    BY <2>1, <2>2, <2>3, <2>4 DEF CorporaKnown
<1> QED
  BY <1>1, <1>2, <1>3

LEMMA StepKnown == Balanced /\ CorporaKnown /\ [Next]_vars => CorporaKnown'
<1> SUFFICES ASSUME Balanced, CorporaKnown, [Next]_vars PROVE CorporaKnown'
  OBVIOUS
<1>1. CASE UNCHANGED vars
  BY <1>1 DEF vars, CorporaKnown
<1>2. ASSUME NEW file \in File, NEW document \in Document, Train(file, document)
      PROVE  CorporaKnown'
  BY <1>2, TrainKeepsCorpora
<1>3. ASSUME NEW target \in File, NEW new_one \in File, Merge(target, new_one)
      PROVE  CorporaKnown'
  BY <1>3, MergeKeepsCorpora
<1>4. ASSUME NEW file \in File, Prune(file) \/ Export(file) \/ Import(file)
      PROVE  CorporaKnown'
  BY <1>4, OthersKeepCorpora
<1> QED
  BY <1>1, <1>2, <1>3, <1>4 DEF Next

\* The counts of an item that is there are those ItemOf gives.
LEMMA ItemOfDocuments ==
    ASSUME NEW documents, IsCorpus(documents), NEW t, NEW u \in SecondsOf(documents, t),
           NEW item, ItemOfCorpus(item, documents, t, u)
    PROVE  item = ItemOf(documents, t, u)
<1> DEFINE times == PairTimes(t, u)
           m == item.m_Mr
           S == {times[d] : d \in Used(documents)}
<1>1. ItemOf(documents, t, u)
        = [m_WC |-> Total(documents, times), m_N_n_0 |-> Total(documents, WithPair(t, u)),
           m_n_1 |-> Total(documents, WithOne(t, u)), m_Mr |-> Max(S)]
  <2>1. /\ WithPair(t, u) = [d \in Document |-> IF times[d] > 0 THEN 1 ELSE 0]
        /\ WithOne(t, u) = [d \in Document |-> IF times[d] = 1 THEN 1 ELSE 0]
    BY DEF WithPair, WithOne, PairTimes
  <2> QED
    BY <2>1 DEF ItemOf, PairTimes
<1>2. /\ m \in Nat /\ \A d \in Used(documents) : times[d] <= m
      /\ m = 0 \/ \E d \in Used(documents) : times[d] = m
  BY DEF ItemOfCorpus, IsGreatest
<1>3. PICK d \in Used(documents) : u \in SecondWords(d, t)
  BY DEF SecondsOf
<1>4. times[d] \in Nat /\ times[d] # 0
  BY <1>3, DocumentFinite DEF PairTimes, Used
<1>5. \A x \in Used(documents) : times[x] \in Nat
  BY DocumentFinite DEF PairTimes, Used
<1> HIDE DEF times, m
<1>6. m \in S /\ \A x \in S : m >= x
  BY <1>2, <1>3, <1>4, <1>5
<1>7. \A x \in S : (\A y \in S : x >= y) => x = m
  BY <1>2, <1>5, <1>6
<1>8. Max(S) = m
  BY <1>6, <1>7 DEF Max
<1> HIDE DEF S
<1> QED
  BY <1>1, <1>8 DEF ItemOfCorpus, times, m

\* A model of the documents is the model of the documents.
LEMMA ModelIs ==
    ASSUME NEW model, BalancedModel(model), model.header # NoHeader,
           NEW documents, IsModelOf(model, documents)
    PROVE  model = Model(documents)
<1> DEFINE grams == model.grams
<1>1. /\ IsCorpus(documents) /\ GramsOfCorpus(grams, documents)
      /\ HeaderOfCorpus(model.header, documents)
  BY DEF IsModelOf, Old
<1>2. /\ BalancedGrams(grams)
      /\ model = [header |-> model.header, grams |-> grams]
  BY OldBalanced DEF BalancedModel, EmptyModel
<1>3. ASSUME NEW t \in DOMAIN grams PROVE grams[t] = GramOf(documents, t)
  <2> DEFINE gram == grams[t]
             its == gram.items
  <2>1. GramOfCorpus(gram, documents, t)
    BY <1>1 DEF GramsOfCorpus, Get
  <2>2. BalancedGram(grams, t)
    BY <1>2 DEF BalancedGrams
  <2>3. gram = [m_WC |-> gram.m_WC, m_freq |-> gram.m_freq, items |-> its]
        /\ its = [u \in DOMAIN its |-> its[u]]
    BY <2>2 DEF BalancedGram, SummedGram, IsGram
  <2>4. DOMAIN its = SecondsOf(documents, t)
    BY <2>1 DEF GramOfCorpus
  <2>5. ASSUME NEW u \in DOMAIN its PROVE its[u] = ItemOf(documents, t, u)
    <3>1. ItemOfCorpus(its[u], documents, t, u)
      BY <2>1 DEF GramOfCorpus, Get
    <3> HIDE DEF its
    <3> QED
      BY <1>1, <2>4, <3>1, ItemOfDocuments
  <2> HIDE DEF its
  <2>6. its = [u \in SecondsOf(documents, t) |-> ItemOf(documents, t, u)]
    BY <2>3, <2>4, <2>5
  <2>7. /\ gram.m_WC = Total(documents, FromCount(t))
        /\ gram.m_freq = Total(documents, OccursCount(t))
    BY <2>1 DEF GramOfCorpus
  <2> HIDE DEF gram
  <2>8. gram = GramOf(documents, t)
    BY <2>3, <2>6, <2>7 DEF GramOf, SecondsOf, FromCount, OccursCount
  <2> QED
    BY <2>8 DEF gram
<1>4. grams = [t \in DOMAIN grams |-> grams[t]] /\ DOMAIN grams = WordsOf(documents)
  BY <1>1, <1>2 DEF BalancedGrams, GramsOfCorpus
<1> HIDE DEF grams
<1>5. grams = [t \in WordsOf(documents) |-> GramOf(documents, t)]
  BY <1>3, <1>4
<1> QED
  BY <1>1, <1>2, <1>5 DEF Model, HeaderOfCorpus, WordsOf, AllPairs, Each, AllWords

\* However a model came about, by training, merging, exporting and importing, it is
\* the one of its documents: their order and where they were trained does not matter.
THEOREM ModelsAreOfTheirCorpora == Spec => []ModelOfCorpus
<1>1. Init => Balanced /\ CorporaKnown
  BY InitBalanced, InitKnown
<1>2. Balanced /\ CorporaKnown /\ [Next]_vars => Balanced' /\ CorporaKnown'
  BY StepBalanced, StepKnown
<1>3. Balanced /\ CorporaKnown => ModelOfCorpus
  <2> SUFFICES ASSUME Balanced, CorporaKnown, NEW file \in Good, corpus[file].known
               PROVE  models[file] = Model(corpus[file].documents)
    BY DEF ModelOfCorpus
  <2>1. BalancedModel(models[file]) /\ models[file].header # NoHeader
    BY DEF Good, Balanced
  <2>2. IsModelOf(models[file], corpus[file].documents)
    BY DEF Good, CorporaKnown, KnownCorpus
  <2> QED
    BY <2>1, <2>2, ModelIs
<1> QED
  BY <1>1, <1>2, <1>3, PTL DEF Spec
=============================================================================
