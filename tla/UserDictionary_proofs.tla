------------------------ MODULE UserDictionary_proofs ------------------------
(***************************************************************************)
(* Proofs about module UserDictionary, for every set of instances, phrases *)
(* and pronunciations, every addon library and every number of slots.      *)
(*                                                                         *)
(* The six invariants are proved together.  What holds them together is    *)
(* that a new phrase gets a token no item has (NewToken), so that, by      *)
(* TablesNameItems, no table entry, candidate or pair of the bigram that   *)
(* is still meant can name it.                                             *)
(***************************************************************************)
EXTENDS UserDictionary, FiniteSetTheorems, WellFoundedInduction, TLAPS

(* A set of natural numbers has a least one.                               *)
LEMMA LeastNatural ==
    ASSUME NEW S \in SUBSET Nat, S # {}
    PROVE  \E n \in S : \A m \in S : n <= m
  <1> DEFINE R == StrictSubsetOrdering(Nat)
             I == {0 .. n : n \in S}
  <1>1. I \subseteq FiniteSubsetsOf(Nat) /\ I # {}
    <2>1. \A n \in S : IsFiniteSet(0 .. n) /\ 0 .. n \in SUBSET Nat
      BY FS_Interval
    <2> QED
      BY <2>1 DEF FiniteSubsetsOf
  <1>2. \E i \in I : \A j \in I : ~ (<<j, i>> \in R)
    <2>1. IsWellFoundedOn(R, FiniteSubsetsOf(Nat))
      BY FS_StrictSubsetOrderingWellFounded
    <2> HIDE DEF R, I
    <2> QED
      BY <1>1, <2>1, WFMin, Zenon
  <1>3. PICK n \in S : \A m \in S : ~ (<<0 .. m, 0 .. n>> \in R)
    BY <1>2
  <1>4. ASSUME NEW m \in S, m < n  PROVE FALSE
    <2>1. 0 .. m \in SUBSET Nat /\ 0 .. n \in SUBSET Nat
      OBVIOUS
    <2>2. n \in 0 .. n /\ n \notin 0 .. m /\ 0 .. m \subseteq 0 .. n
      BY <1>4
    <2>3. <<0 .. m, 0 .. n>> \in R
      BY <2>1, <2>2 DEF StrictSubsetOrdering
    <2> QED
      BY <2>3, <1>3
  <1> QED
    BY <1>4

(* A bounded set of natural numbers has a greatest one, which is its Max.  *)
LEMMA MaxOfBounded ==
    ASSUME NEW S \in SUBSET Nat, S # {}, NEW b \in Nat, \A s \in S : s <= b
    PROVE  Max(S) \in S /\ \A s \in S : s <= Max(S)
  <1> DEFINE Above == {u \in Nat : \A s \in S : s <= u}
  <1>1. PICK n \in Above : \A m \in Above : n <= m
    <2>1. Above \in SUBSET Nat /\ Above # {}
      OBVIOUS
    <2> HIDE DEF Above
    <2> QED
      BY <2>1, LeastNatural
  <1>2. n \in S
    <2>1. SUFFICES ASSUME n \notin S  PROVE FALSE
      OBVIOUS
    <2>2. \A s \in S : s < n
      BY <2>1
    <2>3. n > 0 /\ n - 1 \in Nat
      <3>1. PICK s \in S : TRUE
        OBVIOUS
      <3>2. s \in Nat /\ n \in Nat /\ s < n
        BY <1>1, <2>2
      <3> QED
        BY <3>2
    <2>4. n - 1 \in Above
      BY <1>1, <2>2, <2>3
    <2> QED
      BY <2>4, <1>1
  <1>3. \A y \in S : n >= y
    BY <1>1
  <1>4. Max(S) \in S /\ \A y \in S : Max(S) >= y
    BY <1>2, <1>3 DEF Max
  <1> QED
    BY <1>4

---------------------------------------------------------------------------

(* RangeEnd names a slot that no item of its library has.                  *)
LEMMA NewToken ==
    ASSUME NEW l \in Lib, <<l, RangeEnd(l)>> \in Token
    PROVE  items[<<l, RangeEnd(l)>>] = NoItem
  <1> DEFINE used == {s \in Slot : items[<<l, s>>] # NoItem}
  <1>1. MaxSlot \in Nat
    BY UserDictionaryAssumption
  <1>2. RangeEnd(l) \in Slot
    BY DEF Token
  <1>3. CASE used = {}
    BY <1>2, <1>3
  <1>4. CASE used # {}
    <2>1. used \in SUBSET Nat /\ \A s \in used : s <= MaxSlot
      BY <1>1 DEF Slot
    <2>2. Max(used) \in used /\ \A s \in used : s <= Max(used)
      <3> HIDE DEF used
      <3> QED
        BY <1>1, <1>4, <2>1, MaxOfBounded
    <2>3. RangeEnd(l) = Max(used) + 1
      BY <1>4 DEF RangeEnd
    <2>4. RangeEnd(l) \notin used
      <3> DEFINE last == Max(used)
      <3>1. last \in Nat /\ \A s \in used : s <= last
        BY <2>1, <2>2
      <3>2. RangeEnd(l) = last + 1
        BY <2>3
      <3> HIDE DEF used, last
      <3> QED
        BY <2>1, <3>1, <3>2
    <2> QED
      BY <1>2, <2>4
  <1> QED
    BY <1>3, <1>4

---------------------------------------------------------------------------

(* What the tables and the items say of each other, in one conjunct each.  *)
Agree == TypeOK /\ TablesNameItems /\ ItemsFindable

(* Entering an item under a token no item has keeps the tables and the     *)
(* items in agreement, and every other item as it is.                      *)
LEMMA EnterAgrees ==
    ASSUME Agree,
           NEW t \in Token, items[t] = NoItem,
           NEW p \in Phrase, NEW prons \in (SUBSET Pinyin) \ {{}},
           NEW typed \in (SUBSET prons) \ {{}},
           Enter(t, p, prons, typed)
    PROVE  /\ items' \in [Token -> Item \cup {NoItem}]
           /\ keyTable' \subseteq Pinyin \X Token
           /\ phraseTable' \subseteq Phrase \X Token
           /\ TablesNameItems' /\ ItemsFindable'
           /\ items'[t] = [phrase |-> p, prons |-> prons] /\ items'[t] # NoItem
           /\ \A u \in Token \ {t} : items'[u] = items[u]
  <1> USE DEF Agree
  <1>1. /\ items \in [Token -> Item \cup {NoItem}]
        /\ keyTable \subseteq Pinyin \X Token
        /\ phraseTable \subseteq Phrase \X Token
    BY DEF TypeOK
  <1> DEFINE new == [phrase |-> p, prons |-> prons]
  <1>2. new \in Item /\ new # NoItem
    BY UserDictionaryAssumption DEF Item
  <1>3. /\ items' \in [Token -> Item \cup {NoItem}]
        /\ items'[t] = new
        /\ \A u \in Token \ {t} : items'[u] = items[u]
    BY <1>1, <1>2 DEF Enter
  <1>4. /\ keyTable' \subseteq Pinyin \X Token
        /\ phraseTable' \subseteq Phrase \X Token
    BY <1>1 DEF Enter
  <1>5. TablesNameItems'
    <2>1. ASSUME NEW e \in phraseTable'
          PROVE  items'[e[2]] # NoItem /\ items'[e[2]].phrase = e[1]
      <3>1. CASE e \in phraseTable
        <4>1. /\ e[2] \in Token /\ items[e[2]] # NoItem
              /\ items[e[2]].phrase = e[1]
          BY <1>1, <3>1 DEF TablesNameItems
        <4> QED
          BY <4>1, <1>3
      <3>2. CASE e = <<p, t>>
        BY <1>2, <1>3, <3>2
      <3> QED
        BY <2>1, <3>1, <3>2 DEF Enter
    <2>2. ASSUME NEW e \in keyTable'
          PROVE  items'[e[2]] # NoItem /\ e[1] \in items'[e[2]].prons
      <3>1. CASE e \in keyTable
        <4>1. /\ e[2] \in Token /\ items[e[2]] # NoItem
              /\ e[1] \in items[e[2]].prons
          BY <1>1, <3>1 DEF TablesNameItems
        <4> QED
          BY <4>1, <1>3
      <3>2. CASE e \in typed \X {t}
        BY <1>2, <1>3, <3>2
      <3> QED
        BY <2>2, <3>1, <3>2 DEF Enter
    <2> QED
      BY <2>1, <2>2 DEF TablesNameItems
  <1>6. ItemsFindable'
    <2>1. ASSUME NEW u \in Token, items'[u] # NoItem
          PROVE  /\ <<items'[u].phrase, u>> \in phraseTable'
                 /\ \E k \in items'[u].prons : <<k, u>> \in keyTable'
      <3>1. CASE u = t
        <4>1. PICK k \in typed : TRUE
          OBVIOUS
        <4> QED
          BY <1>3, <3>1, <4>1 DEF Enter
      <3>2. CASE u # t
        BY <1>3, <2>1, <3>2 DEF Enter, ItemsFindable
      <3> QED
        BY <3>1, <3>2
    <2> QED
      BY <2>1 DEF ItemsFindable
  <1> QED
    BY <1>2, <1>3, <1>4, <1>5, <1>6

(* The inductive invariant.                                                *)
DictionaryInv ==
    /\ Agree
    /\ UserPhrasesOnce
    /\ FreshListsHold
    /\ LearnedOfItsOwn

(* What is shown and learned stays right while no item loses its phrase.   *)
LEMMA MeaningKept ==
    ASSUME DictionaryInv,
           \A u \in Token : items[u] # NoItem =>
               items'[u] # NoItem /\ items'[u].phrase = items[u].phrase,
           UNCHANGED <<learned, guesses, misled>>
    PROVE  FreshListsHold' /\ LearnedOfItsOwn'
  <1>1. learned \subseteq Word
    BY DEF DictionaryInv, Agree, TypeOK
  <1>2. FreshListsHold'
    BY DEF DictionaryInv, FreshListsHold, guesses
  <1>3. LearnedOfItsOwn'
    <2>1. ASSUME ~misled', NEW w \in learned'
          PROVE  items'[w.token] # NoItem /\ items'[w.token].phrase = w.phrase
      <3>1. w \in learned /\ ~misled /\ w.token \in Token
        BY <1>1, <2>1 DEF Word
      <3>2. items[w.token] # NoItem /\ items[w.token].phrase = w.phrase
        BY <3>1 DEF DictionaryInv, LearnedOfItsOwn
      <3> QED
        BY <3>1, <3>2
    <2> QED
      BY <2>1 DEF LearnedOfItsOwn
  <1> QED
    BY <1>2, <1>3

(* Each call keeps the invariant: importing a new phrase enters it under   *)
(* a free token; the library did not have it (Same, ItemsFindable).        *)
LEMMA ImportPhraseStep ==
    ASSUME DictionaryInv, NEW e \in Imports, ImportPhrase(e[1], e[2], e[3])
    PROVE  DictionaryInv'
  <1> DEFINE l == e[1]
             p == e[2]
             prons == {e[3]}
             t == <<l, RangeEnd(l)>>
  <1>1. /\ l \in Lib /\ p \in Phrase /\ prons \in (SUBSET Pinyin) \ {{}}
    BY UserDictionaryAssumption
  <1>2. /\ Same(l, p) = {} /\ t \in Token /\ Enter(t, p, prons, prons)
        /\ UNCHANGED <<learned, guesses, misled, status>>
    BY DEF ImportPhrase
  <1>3. items[t] = NoItem
    BY <1>1, <1>2, NewToken
  <1>4. Agree
    BY DEF DictionaryInv
  <1>5. /\ items' \in [Token -> Item \cup {NoItem}]
        /\ keyTable' \subseteq Pinyin \X Token
        /\ phraseTable' \subseteq Phrase \X Token
        /\ TablesNameItems' /\ ItemsFindable'
        /\ items'[t].phrase = p /\ items'[t] # NoItem
        /\ \A u \in Token \ {t} : items'[u] = items[u]
    <2> HIDE DEF t, prons, p, l
    <2>1. Enter(t, p, prons, prons) /\ t \in Token
      BY <1>2
    <2>2. /\ items' \in [Token -> Item \cup {NoItem}]
          /\ keyTable' \subseteq Pinyin \X Token
          /\ phraseTable' \subseteq Phrase \X Token
          /\ TablesNameItems' /\ ItemsFindable'
          /\ items'[t] = [phrase |-> p, prons |-> prons] /\ items'[t] # NoItem
          /\ \A u \in Token \ {t} : items'[u] = items[u]
      BY <2>1, <1>1, <1>3, <1>4, EnterAgrees
    <2> QED
      BY <2>2
  <1>6. Agree'
    BY <1>2, <1>4, <1>5 DEF Agree, TypeOK, guesses
  <1>7. FreshListsHold' /\ LearnedOfItsOwn'
    BY <1>2, <1>3, <1>5, MeaningKept
  <1>8. UserPhrasesOnce'
    <2>1. \A u \in Token : u[1] = l /\ items[u] # NoItem => items[u].phrase # p
      BY <1>2, <1>4 DEF Same, Agree, ItemsFindable
    <2>2. l = t[1]
      OBVIOUS
    <2> HIDE DEF t, p, l
    <2> QED
      BY <1>2, <1>5, <2>1, <2>2 DEF DictionaryInv, UserPhrasesOnce
  <1> QED
    BY <1>6, <1>7, <1>8 DEF DictionaryInv

(* Remembering a new phrase enters it as importing one does; that only one *)
(* of its pronunciations gets into the pinyin table is enough to find it.  *)
LEMMA RememberNewStep ==
    ASSUME DictionaryInv, NEW e \in Remembered, RememberNew(e[1], e[2])
    PROVE  DictionaryInv'
  <1> DEFINE p == e[1]
             prons == e[2]
             t == <<"user", RangeEnd("user")>>
  <1>1. p \in Phrase /\ prons \in (SUBSET Pinyin) \ {{}}
    BY UserDictionaryAssumption
  <1>2. /\ Same("user", p) = {} /\ t \in Token
        /\ UNCHANGED <<learned, guesses, misled, status>>
    BY DEF RememberNew
  <1>3. PICK k \in prons : Enter(t, p, prons, {k})
    BY DEF RememberNew
  <1>4. items[t] = NoItem
    BY <1>2, NewToken DEF Lib
  <1>5. Agree
    BY DEF DictionaryInv
  <1>6. /\ items' \in [Token -> Item \cup {NoItem}]
        /\ keyTable' \subseteq Pinyin \X Token
        /\ phraseTable' \subseteq Phrase \X Token
        /\ TablesNameItems' /\ ItemsFindable'
        /\ items'[t] = [phrase |-> p, prons |-> prons] /\ items'[t] # NoItem
        /\ \A u \in Token \ {t} : items'[u] = items[u]
    <2>1. {k} \in (SUBSET prons) \ {{}}
      OBVIOUS
    <2> HIDE DEF t, prons, p
    <2> QED
      BY <2>1, <1>1, <1>2, <1>3, <1>4, <1>5, EnterAgrees
  <1>7. Agree'
    BY <1>2, <1>5, <1>6 DEF Agree, TypeOK, guesses
  <1>8. FreshListsHold' /\ LearnedOfItsOwn'
    BY <1>2, <1>4, <1>6, MeaningKept
  <1>9. UserPhrasesOnce'
    <2>1. \A u \in Token : u[1] = "user" /\ items[u] # NoItem => items[u].phrase # p
      BY <1>2, <1>5 DEF Same, Agree, ItemsFindable
    <2>2. items'[t].phrase = p /\ \A u \in Token \ {t} : items'[u] = items[u]
      BY <1>6
    <2> HIDE DEF t, p
    <2> QED
      BY <2>1, <2>2 DEF DictionaryInv, UserPhrasesOnce
  <1> QED
    BY <1>7, <1>8, <1>9 DEF DictionaryInv

(* More pronunciations only add to an item.                                *)
LEMMA PronunciationsAgree ==
    ASSUME DictionaryInv, NEW more \in SUBSET Pinyin, NEW t \in Token,
           items[t] # NoItem,
           items' = [items EXCEPT ![t].prons = @ \cup more],
           UNCHANGED <<keyTable, phraseTable, learned, guesses, misled, status>>
    PROVE  DictionaryInv'
  <1>1. /\ items \in [Token -> Item \cup {NoItem}]
        /\ keyTable \subseteq Pinyin \X Token
        /\ phraseTable \subseteq Phrase \X Token
    BY DEF DictionaryInv, Agree, TypeOK
  <1>2. /\ items'[t] = [phrase |-> items[t].phrase, prons |-> items[t].prons \cup more]
        /\ items'[t] \in Item /\ items'[t] # NoItem
        /\ \A u \in Token \ {t} : items'[u] = items[u]
        /\ items' \in [Token -> Item \cup {NoItem}]
    <2>1. items[t] \in Item
      BY <1>1
    <2>2. items'[t] = [phrase |-> items[t].phrase, prons |-> items[t].prons \cup more]
      BY <1>1, <2>1 DEF Item
    <2>3. items'[t] \in Item
      BY <2>1, <2>2 DEF Item
    <2>4. \A u \in Token \ {t} : items'[u] = items[u]
      BY <1>1
    <2>5. items' \in [Token -> Item \cup {NoItem}]
      BY <1>1, <2>3, <2>4
    <2> QED
      BY <2>2, <2>3, <2>4, <2>5, UserDictionaryAssumption
  <1>3. \A u \in Token :
            /\ items'[u] = NoItem <=> items[u] = NoItem
            /\ items[u] # NoItem => /\ items'[u].phrase = items[u].phrase
                                   /\ items[u].prons \subseteq items'[u].prons
    BY <1>2
  <1>4. Agree'
    <2>1. TypeOK'
      BY <1>2 DEF DictionaryInv, Agree, TypeOK, guesses
    <2>2. TablesNameItems'
      BY <1>1, <1>3 DEF DictionaryInv, Agree, TablesNameItems
    <2>3. ItemsFindable'
      BY <1>3 DEF DictionaryInv, Agree, ItemsFindable
    <2> QED
      BY <2>1, <2>2, <2>3 DEF Agree
  <1>5. FreshListsHold' /\ LearnedOfItsOwn'
    BY <1>3, MeaningKept
  <1>6. UserPhrasesOnce'
    BY <1>3 DEF DictionaryInv, UserPhrasesOnce
  <1> QED
    BY <1>4, <1>5, <1>6 DEF DictionaryInv

(* Another pronunciation imported, or several remembered.                  *)
LEMMA ImportPronunciationStep ==
    ASSUME DictionaryInv, NEW e \in Imports, ImportPronunciation(e[1], e[2], e[3])
    PROVE  DictionaryInv'
  <1>1. {e[3]} \in SUBSET Pinyin
    BY UserDictionaryAssumption
  <1>2. PICK t \in Token :
            /\ items[t] # NoItem
            /\ items' = [items EXCEPT ![t].prons = @ \cup {e[3]}]
    BY DEF ImportPronunciation
  <1>3. UNCHANGED <<keyTable, phraseTable, learned, guesses, misled, status>>
    BY DEF ImportPronunciation
  <1> QED
    BY <1>1, <1>2, <1>3, PronunciationsAgree

\* Remembering a phrase that the libraries have adds pronunciations to its item and to the
\* pinyin table alike.
LEMMA RememberKnownStep ==
    ASSUME DictionaryInv, NEW e \in Remembered, RememberKnown(e[1], e[2])
    PROVE  DictionaryInv'
  <1>1. e[2] \in SUBSET Pinyin
    BY UserDictionaryAssumption
  <1>2. PICK t \in Token :
            /\ items[t] # NoItem
            /\ items' = [items EXCEPT ![t].prons = @ \cup e[2]]
    BY DEF RememberKnown
  <1>3. UNCHANGED <<keyTable, phraseTable, learned, guesses, misled, status>>
    BY DEF RememberKnown
  <1> QED
    BY <1>1, <1>2, <1>3, PronunciationsAgree

(* A new list shows what the tables find, which are items.                 *)
LEMMA GuessStep ==
    ASSUME DictionaryInv, NEW i \in Instance, NEW k \in Pinyin, Guess(i, k)
    PROVE  DictionaryInv'
  <1>1. /\ UNCHANGED <<tables, learned, misled, status>>
        /\ fresh' = [fresh EXCEPT ![i] = TRUE]
    BY DEF Guess
  <1>2. PICK list \in SUBSET (Found(k) \cup FoundAddon(k)) :
            lists' = [lists EXCEPT ![i] = list]
    BY DEF Guess
  <1>3. TypeOK /\ TablesNameItems
    BY DEF DictionaryInv, Agree
  <1>4. \A c \in Found(k) :
            /\ c \in Shown /\ c.token \in Token
            /\ items[c.token] # NoItem /\ items[c.token].phrase = c.phrase
    <2>1. ASSUME NEW u \in Token, <<k, u>> \in keyTable
          PROVE  items[u] # NoItem /\ items[u].phrase \in Phrase
      <3>1. items[u] # NoItem
        BY <1>3, <2>1 DEF TablesNameItems
      <3>2. items[u] \in Item
        BY <1>3, <3>1 DEF TypeOK
      <3> QED
        BY <3>1, <3>2 DEF Item
    <2>2. ASSUME NEW c \in Found(k)
          PROVE  /\ c \in Shown /\ c.token \in Token
                 /\ items[c.token] # NoItem /\ items[c.token].phrase = c.phrase
      <3>1. PICK u \in Token : /\ <<k, u>> \in keyTable
                               /\ c = [token |-> u, phrase |-> items[u].phrase]
        BY DEF Found
      <3> QED
        BY <2>1, <3>1 DEF Shown
    <2> QED
      BY <2>2
  <1>5. \A c \in FoundAddon(k) : c \in Shown /\ c.token \notin Token
    BY UserDictionaryAssumption DEF FoundAddon, Shown, Item
  <1>6. Agree'
    <2>1. lists' \in [Instance -> SUBSET Shown] /\ fresh' \in [Instance -> BOOLEAN]
      BY <1>1, <1>2, <1>3, <1>4, <1>5 DEF TypeOK
    <2>2. TypeOK'
      BY <1>1, <1>3, <2>1 DEF TypeOK, tables
    <2> QED
      BY <1>1, <2>2 DEF DictionaryInv, Agree, TablesNameItems, ItemsFindable, tables
  <1>7. UserPhrasesOnce' /\ LearnedOfItsOwn'
    BY <1>1 DEF DictionaryInv, UserPhrasesOnce, LearnedOfItsOwn, tables
  <1>8. FreshListsHold'
    <2>1. ASSUME NEW j \in Instance, fresh'[j], NEW c \in lists'[j], c.token \in Token
          PROVE  items'[c.token] # NoItem /\ items'[c.token].phrase = c.phrase
      <3>1. items' = items
        BY <1>1 DEF tables
      <3>2. CASE j = i
        <4>1. c \in list
          BY <1>2, <1>3, <2>1, <3>2 DEF TypeOK
        <4> QED
          BY <1>4, <1>5, <2>1, <3>1, <4>1
      <3>3. CASE j # i
        <4>1. fresh[j] /\ c \in lists[j]
          BY <1>1, <1>2, <1>3, <2>1, <3>3 DEF TypeOK
        <4> QED
          BY <2>1, <3>1, <4>1 DEF DictionaryInv, FreshListsHold
      <3> QED
        BY <3>2, <3>3
    <2> QED
      BY <2>1 DEF FreshListsHold
  <1> QED
    BY <1>6, <1>7, <1>8 DEF DictionaryInv

(* An addon phrase is entered under a free token of the addon dictionary.  *)
LEMMA ChooseAddonStep ==
    ASSUME DictionaryInv, NEW i \in Instance, NEW c \in lists[i], ChooseAddon(i, c)
    PROVE  DictionaryInv'
  <1> DEFINE t == <<"addon", RangeEnd("addon")>>
             prons == Addon[c.token].prons
             chosen == [token |-> t, phrase |-> c.phrase]
  <1>1. /\ c.token \in AddonToken /\ t \in Token /\ Enter(t, c.phrase, prons, prons)
        /\ lists' = [lists EXCEPT ![i] = (@ \ {c}) \cup {chosen}]
        /\ UNCHANGED <<learned, fresh, misled, status>>
    BY DEF ChooseAddon
  <1>2. Agree /\ TypeOK
    BY DEF DictionaryInv, Agree
  <1>3. c.phrase \in Phrase /\ prons \in (SUBSET Pinyin) \ {{}}
    <2>1. c \in Shown
      BY <1>2 DEF TypeOK
    <2>2. Addon[c.token] \in Item
      BY <1>1, UserDictionaryAssumption
    <2> QED
      BY <2>1, <2>2 DEF Shown, Item
  <1>4. items[t] = NoItem
    BY <1>1, NewToken DEF Lib
  <1>5. /\ items' \in [Token -> Item \cup {NoItem}]
        /\ keyTable' \subseteq Pinyin \X Token
        /\ phraseTable' \subseteq Phrase \X Token
        /\ TablesNameItems' /\ ItemsFindable'
        /\ items'[t].phrase = c.phrase /\ items'[t] # NoItem
        /\ \A u \in Token \ {t} : items'[u] = items[u]
    <2> HIDE DEF t, prons
    <2>1. Enter(t, c.phrase, prons, prons) /\ t \in Token
      BY <1>1
    <2>2. /\ items' \in [Token -> Item \cup {NoItem}]
          /\ keyTable' \subseteq Pinyin \X Token
          /\ phraseTable' \subseteq Phrase \X Token
          /\ TablesNameItems' /\ ItemsFindable'
          /\ items'[t] = [phrase |-> c.phrase, prons |-> prons] /\ items'[t] # NoItem
          /\ \A u \in Token \ {t} : items'[u] = items[u]
      BY <2>1, <1>2, <1>3, <1>4, EnterAgrees
    <2> QED
      BY <2>2
  <1>6. Agree'
    <2>1. chosen \in Shown
      BY <1>1, <1>3 DEF Shown
    <2>2. lists' \in [Instance -> SUBSET Shown]
      <3> HIDE DEF chosen
      <3> QED
        BY <1>1, <1>2, <2>1 DEF TypeOK
    <2> QED
      BY <1>1, <1>2, <1>5, <2>2 DEF Agree, TypeOK
  <1>7. UserPhrasesOnce'
    <2>1. t[1] # "user"
      OBVIOUS
    <2> HIDE DEF t
    <2> QED
      BY <1>5, <2>1 DEF DictionaryInv, UserPhrasesOnce
  <1>8. LearnedOfItsOwn'
    <2>1. ASSUME ~misled', NEW w \in learned'
          PROVE  items'[w.token] # NoItem /\ items'[w.token].phrase = w.phrase
      <3>1. w \in learned /\ ~misled /\ w.token \in Token
        BY <1>1, <1>2, <2>1 DEF TypeOK, Word
      <3>2. items[w.token] # NoItem /\ items[w.token].phrase = w.phrase
        BY <3>1 DEF DictionaryInv, LearnedOfItsOwn
      <3> QED
        BY <1>4, <1>5, <3>1, <3>2
    <2> QED
      BY <2>1 DEF LearnedOfItsOwn
  <1>9. FreshListsHold'
    <2>1. ASSUME NEW j \in Instance, fresh'[j], NEW d \in lists'[j], d.token \in Token
          PROVE  items'[d.token] # NoItem /\ items'[d.token].phrase = d.phrase
      <3>1. CASE d \in lists[j]
        <4>1. items[d.token] # NoItem /\ items[d.token].phrase = d.phrase
          BY <1>1, <2>1, <3>1 DEF DictionaryInv, FreshListsHold
        <4> QED
          BY <1>4, <1>5, <2>1, <4>1
      <3>2. CASE d = chosen
        BY <1>5, <3>2
      <3>3. d \in lists[j] \/ d = chosen
        <4> HIDE DEF chosen
        <4> QED
          BY <1>1, <1>2, <2>1 DEF TypeOK
      <3> QED
        BY <3>1, <3>2, <3>3
    <2> QED
      BY <2>1 DEF FreshListsHold
  <1> QED
    BY <1>6, <1>7, <1>8, <1>9 DEF DictionaryInv

(* Training learns of a phrase by the token it has, or misleads.           *)
LEMMA TrainStep ==
    ASSUME DictionaryInv, NEW i \in Instance, NEW w \in lists[i], Train(w)
    PROVE  DictionaryInv'
  <1>1. /\ w.token \in Token
        /\ learned' = learned \cup {w}
        /\ misled' = (misled \/ items[w.token] = NoItem \/ items[w.token].phrase # w.phrase)
        /\ items' = items /\ keyTable' = keyTable /\ phraseTable' = phraseTable
        /\ lists' = lists /\ fresh' = fresh /\ status' = status
    BY DEF Train, tables, guesses
  <1>2. TypeOK
    BY DEF DictionaryInv, Agree
  <1>3. w \in Word
    BY <1>1, <1>2 DEF TypeOK, Shown, Word
  <1>4. misled' \in BOOLEAN
    BY <1>1, <1>2 DEF TypeOK
  <1>5. Agree'
    BY <1>1, <1>2, <1>3, <1>4
    DEF DictionaryInv, Agree, TypeOK, TablesNameItems, ItemsFindable
  <1>6. UserPhrasesOnce' /\ FreshListsHold'
    BY <1>1 DEF DictionaryInv, UserPhrasesOnce, FreshListsHold
  <1>7. LearnedOfItsOwn'
    BY <1>1 DEF DictionaryInv, LearnedOfItsOwn
  <1> QED
    BY <1>5, <1>6, <1>7 DEF DictionaryInv

(* Masking takes the same tokens out of everything that names tokens.      *)
LEMMA MaskOutStep ==
    ASSUME DictionaryInv, NEW T \in SUBSET Token, MaskOut(T)
    PROVE  DictionaryInv'
  <1>1. /\ items' = [t \in Token |-> IF t \in T THEN NoItem ELSE items[t]]
        /\ keyTable' = {e \in keyTable : e[2] \notin T}
        /\ phraseTable' = {e \in phraseTable : e[2] \notin T}
        /\ learned' = {w \in learned : w.token \notin T}
        /\ fresh' = [i \in Instance |-> FALSE]
        /\ lists' = lists /\ misled' = misled /\ status' = status
    BY DEF MaskOut
  <1>2. TypeOK /\ TablesNameItems /\ ItemsFindable
    BY DEF DictionaryInv, Agree
  <1>3. /\ items' \in [Token -> Item \cup {NoItem}]
        /\ \A u \in Token : items'[u] # NoItem => u \notin T /\ items'[u] = items[u]
        /\ \A u \in Token \ T : items'[u] = items[u]
    BY <1>1, <1>2 DEF TypeOK
  <1>4. TypeOK'
    BY <1>1, <1>2, <1>3 DEF TypeOK
  <1>5. TablesNameItems'
    <2>1. ASSUME NEW e \in phraseTable'
          PROVE  items'[e[2]] # NoItem /\ items'[e[2]].phrase = e[1]
      <3>1. e \in phraseTable /\ e[2] \in Token \ T
        BY <1>1, <1>2 DEF TypeOK
      <3> QED
        BY <1>2, <1>3, <3>1 DEF TablesNameItems
    <2>2. ASSUME NEW e \in keyTable'
          PROVE  items'[e[2]] # NoItem /\ e[1] \in items'[e[2]].prons
      <3>1. e \in keyTable /\ e[2] \in Token \ T
        BY <1>1, <1>2 DEF TypeOK
      <3> QED
        BY <1>2, <1>3, <3>1 DEF TablesNameItems
    <2> QED
      BY <2>1, <2>2 DEF TablesNameItems
  <1>6. ItemsFindable'
    <2>1. ASSUME NEW u \in Token, items'[u] # NoItem
          PROVE  /\ <<items'[u].phrase, u>> \in phraseTable'
                 /\ \E k \in items'[u].prons : <<k, u>> \in keyTable'
      <3>1. u \notin T /\ items'[u] = items[u]
        BY <1>3, <2>1
      <3> QED
        BY <1>1, <1>2, <2>1, <3>1 DEF ItemsFindable
    <2> QED
      BY <2>1 DEF ItemsFindable
  <1>7. UserPhrasesOnce'
    BY <1>3 DEF DictionaryInv, UserPhrasesOnce
  <1>8. FreshListsHold'
    BY <1>1 DEF FreshListsHold
  <1>9. LearnedOfItsOwn'
    <2>1. ASSUME ~misled', NEW w \in learned'
          PROVE  items'[w.token] # NoItem /\ items'[w.token].phrase = w.phrase
      <3>1. w \in learned /\ ~misled /\ w.token \in Token \ T
        BY <1>1, <1>2, <2>1 DEF TypeOK, Word
      <3> QED
        BY <1>3, <3>1 DEF DictionaryInv, LearnedOfItsOwn
    <2> QED
      BY <2>1 DEF LearnedOfItsOwn
  <1> QED
    BY <1>4, <1>5, <1>6, <1>7, <1>8, <1>9 DEF DictionaryInv, Agree

(* Removing a candidate is masking its token out: by TablesNameItems, what *)
(* the tables have under the token is what removal takes from them.        *)
LEMMA RemovalMasksOut ==
    ASSUME DictionaryInv, NEW c, RemoveCandidate(c)
    PROVE  c.token \in Token /\ MaskOut({c.token})
  <1> DEFINE t == c.token
  <1>1. /\ Running /\ t \in Token /\ items[t] # NoItem
        /\ items' = [items EXCEPT ![t] = NoItem]
        /\ phraseTable' = phraseTable \ {<<items[t].phrase, t>>}
        /\ keyTable' = keyTable \ (items[t].prons \X {t})
        /\ learned' = {w \in learned : w.token # t}
        /\ fresh' = [i \in Instance |-> FALSE]
        /\ UNCHANGED <<lists, misled, status>>
    BY DEF RemoveCandidate, Removable
  <1>2. /\ items \in [Token -> Item \cup {NoItem}]
        /\ keyTable \subseteq Pinyin \X Token
        /\ phraseTable \subseteq Phrase \X Token
        /\ TablesNameItems
    BY DEF DictionaryInv, Agree, TypeOK
  <1> HIDE DEF t
  <1>3. items' = [u \in Token |-> IF u \in {t} THEN NoItem ELSE items[u]]
    BY <1>1, <1>2
  <1>4. phraseTable' = {e \in phraseTable : e[2] \notin {t}}
    BY <1>1, <1>2 DEF TablesNameItems
  <1>5. keyTable' = {e \in keyTable : e[2] \notin {t}}
    BY <1>1, <1>2 DEF TablesNameItems
  <1>6. learned' = {w \in learned : w.token \notin {t}}
    BY <1>1
  <1>7. MaskOut({t})
    BY <1>1, <1>3, <1>4, <1>5, <1>6 DEF MaskOut
  <1> QED
    BY <1>1, <1>7 DEF t

---------------------------------------------------------------------------

(* The invariants of the dictionary hold through any calls of any          *)
(* instances.                                                              *)
THEOREM DictionaryInvariant == Spec => []DictionaryInv
  <1>1. Init => DictionaryInv
    <2> SUFFICES ASSUME Init PROVE DictionaryInv
      OBVIOUS
    <2>1. TypeOK
      BY DEF Init, TypeOK
    <2> QED
      BY <2>1 DEF Init, DictionaryInv, Agree, TablesNameItems, ItemsFindable,
                  UserPhrasesOnce, FreshListsHold, LearnedOfItsOwn
  <1>2. DictionaryInv /\ [Next]_vars => DictionaryInv'
    <2> SUFFICES ASSUME DictionaryInv, [Next]_vars PROVE DictionaryInv'
      OBVIOUS
    <2> USE DEF DictionaryInv, Agree
    <2>1. CASE \E e \in Imports : ImportPhrase(e[1], e[2], e[3])
      BY <2>1, ImportPhraseStep
    <2>2. CASE \E e \in Imports : ImportPronunciation(e[1], e[2], e[3])
      BY <2>2, ImportPronunciationStep
    <2>3. CASE \E i \in Instance, k \in Pinyin : Guess(i, k)
      BY <2>3, GuessStep
    <2>4. CASE \E i \in Instance : \E c \in lists[i] : ChooseAddon(i, c)
      BY <2>4, ChooseAddonStep
    <2>5. CASE \E i \in Instance : \E w \in lists[i] : Train(w)
      BY <2>5, TrainStep
    <2>6. CASE \E i \in Instance : \E c \in lists[i] : RemoveCandidate(c)
      <3>1. PICK c : RemoveCandidate(c)
        BY <2>6
      <3>2. {c.token} \in SUBSET Token /\ MaskOut({c.token})
        BY <3>1, RemovalMasksOut
      <3> QED
        BY <3>2, MaskOutStep
    <2>7. CASE \E T \in Masks : MaskOut(T)
      BY <2>7, MaskOutStep, UserDictionaryAssumption
    <2>8. CASE \/ \E e \in Imports : ImportAborts(e[1], e[2])
               \/ \E i \in Instance : \E c \in lists[i] : RemoveAborts(c)
      <3>1. UNCHANGED <<tables, learned, guesses, misled>> /\ status' = "failed"
        BY <2>8 DEF ImportAborts, RemoveAborts
      <3> QED
        BY <3>1 DEF tables, guesses, TypeOK, TablesNameItems, ItemsFindable,
                    UserPhrasesOnce, FreshListsHold, LearnedOfItsOwn
    <2>9. CASE \E e \in Remembered : RememberNew(e[1], e[2])
      BY <2>9, RememberNewStep
    <2>10. CASE \E e \in Remembered : RememberKnown(e[1], e[2])
      BY <2>10, RememberKnownStep
    <2>11. CASE UNCHANGED vars
      BY <2>11 DEF vars, tables, guesses, TypeOK, TablesNameItems, ItemsFindable,
                  UserPhrasesOnce, FreshListsHold, LearnedOfItsOwn
    <2> QED
      BY <2>1, <2>2, <2>3, <2>4, <2>5, <2>6, <2>7, <2>8, <2>9,
         <2>10, <2>11 DEF Next
  <1> QED
    BY <1>1, <1>2, PTL DEF Spec

(* The libraries, the tables, the bigram and every list keep their types:  *)
(* no table names a token outside the libraries, no item loses all its     *)
(* pronunciations.                                                         *)
THEOREM TypesHold == Spec => []TypeOK
  <1>1. DictionaryInv => TypeOK
    BY DEF DictionaryInv, Agree
  <1> QED
    BY <1>1, DictionaryInvariant, PTL

(* No entry of the pinyin or the phrase table is left behind by an import, *)
(* a choice, a removal or a mask.                                          *)
THEOREM TablesHold == Spec => []TablesNameItems
  <1>1. DictionaryInv => TablesNameItems
    BY DEF DictionaryInv, Agree
  <1> QED
    BY <1>1, DictionaryInvariant, PTL

(* No item is lost: importing finds it by its phrase, and typing by one of *)
(* its pronunciations.                                                     *)
THEOREM FindableHolds == Spec => []ItemsFindable
  <1>1. DictionaryInv => ItemsFindable
    BY DEF DictionaryInv, Agree
  <1> QED
    BY <1>1, DictionaryInvariant, PTL

(* The user dictionary never has a phrase twice.                           *)
THEOREM OnceHolds == Spec => []UserPhrasesOnce
  <1>1. DictionaryInv => UserPhrasesOnce
    BY DEF DictionaryInv
  <1> QED
    BY <1>1, DictionaryInvariant, PTL

(* The candidates of an instance mean what they did until a removal.       *)
THEOREM FreshHolds == Spec => []FreshListsHold
  <1>1. DictionaryInv => FreshListsHold
    BY DEF DictionaryInv
  <1> QED
    BY <1>1, DictionaryInvariant, PTL

(* A phrase that gets the token of a removed one inherits nothing that was *)
(* learned of that.                                                        *)
THEOREM LearnedHolds == Spec => []LearnedOfItsOwn
  <1>1. DictionaryInv => LearnedOfItsOwn
    BY DEF DictionaryInv
  <1> QED
    BY <1>1, DictionaryInvariant, PTL
=============================================================================
