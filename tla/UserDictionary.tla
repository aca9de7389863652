--------------------------- MODULE UserDictionary ---------------------------
(***************************************************************************)
(* The phrases of the user: how the libraries of a context, its pinyin     *)
(* table, its phrase table and its bigram are kept in step by the calls of *)
(* src/pinyin.cpp that import, remember, take over, remove and mask        *)
(* phrases, and what the instances of the context still hold from before.  *)
(*                                                                         *)
(* A token is a library and a slot in it; the slot of a removed phrase may *)
(* be given to another phrase.  Frequencies are left to PhraseIndex and    *)
(* UserBigram: of the bigram only the tokens it mentions matter here.  The *)
(* pronunciations of an item are a set.                                    *)
(***************************************************************************)
EXTENDS Naturals, FiniteSets, FiniteSetsExt

CONSTANTS
    Instance,       \* the instances of the context
    Phrase,         \* phrase strings
    Pinyin,         \* whole pronunciations of a phrase
    Imports,        \* what may be imported: <<library, phrase, pronunciation>>
    Remembered,     \* a phrase and how the input may pronounce it
    Addon,          \* the items of the addon libraries, by their tokens there
    MaxSlot,        \* slots are 1 .. MaxSlot
    NoItem,         \* a slot without an item
    Masks,          \* the sets of tokens pinyin_mask_out may match
    MaxLearned      \* bounds the tokens mentioned in the bigram

Lib == {"addon", "user"}      \* ADDON_DICTIONARY, USER_DICTIONARY: USER_FILE
Slot == 1 .. MaxSlot
Token == Lib \X Slot
Item == [phrase : Phrase, prons : (SUBSET Pinyin) \ {{}}]
AddonToken == DOMAIN Addon

ASSUME UserDictionaryAssumption ==
    /\ Addon \in [AddonToken -> Item] /\ AddonToken \cap Token = {}
    /\ Imports \subseteq Lib \X Phrase \X Pinyin
    /\ Remembered \subseteq Phrase \X ((SUBSET Pinyin) \ {{}})
    /\ MaxSlot \in Nat /\ MaxLearned \in Nat
    /\ NoItem \notin Item
    /\ Masks \subseteq SUBSET Token

VARIABLES
    items,          \* m_phrase_index: token -> item
    keyTable,       \* the user's part of m_pinyin_table
    phraseTable,    \* the user's part of m_phrase_table
    learned,        \* the tokens m_user_bigram mentions, with the phrase meant
    lists,          \* m_candidates of each instance
    fresh,          \* history: nothing was removed since the instance's guess
    misled,         \* history: a word was trained that its token no longer is
    status          \* "failed" once an assertion failed

tables == <<items, keyTable, phraseTable>>
guesses == <<lists, fresh>>
vars == <<tables, learned, guesses, misled, status>>

(* A candidate: a token, and the phrase shown; what is learned of it.      *)
Shown == [token : Token \cup AddonToken, phrase : Phrase]
Word == [token : Token, phrase : Phrase]

---------------------------------------------------------------------------
(* Mutant of RangeEnd: the last slot in use.                               *)
LastUsed(l) ==
    LET used == {s \in Slot : items[<<l, s>>] # NoItem}
    IN  IF used = {} THEN 1 ELSE Max(used)

(* SubPhraseIndex::get_range: one past the last slot in use.               *)
RangeEnd(l) ==
    LET used == {s \in Slot : items[<<l, s>>] # NoItem}
    IN  IF used = {} THEN 1 ELSE Max(used) + 1

(* Mutant of Same: the first token found, of the lowest library.           *)
FirstSame(l, p) ==
    LET found == {t \in Token : <<p, t>> \in phraseTable}
    IN  {t \in found : t[1] = l /\ \A u \in found : u[1] = "addon" => t[1] = "addon"}

(* The tokens of phrase p in library l, by the phrase table.               *)
Same(l, p) == {t \in Token : t[1] = l /\ <<p, t>> \in phraseTable}

Init ==
    /\ items = [t \in Token |-> NoItem]
    /\ keyTable = {} /\ phraseTable = {}
    /\ learned = {}
    /\ lists = [i \in Instance |-> {}]
    /\ fresh = [i \in Instance |-> TRUE]
    /\ misled = FALSE
    /\ status = "ok"

Running == status = "ok"

(* A new item under token t, and its entries in both tables; those of prons *)
(* in typed get into the pinyin table.                                     *)
Enter(t, p, prons, typed) ==
    /\ items' = [items EXCEPT ![t] = [phrase |-> p, prons |-> prons]]
    /\ keyTable' = keyTable \cup (typed \X {t})
    /\ phraseTable' = phraseTable \cup {<<p, t>>}

(* pinyin_iterator_add_phrase with _add_phrase: a phrase that is new to    *)
(* the library gets the next token ...                                     *)
ImportPhrase(l, p, k) ==
    LET t == <<l, RangeEnd(l)>>
    IN  /\ Running
        /\ Same(l, p) = {}
        /\ t \in Token
        /\ Enter(t, p, {k}, {k})
        /\ UNCHANGED <<learned, guesses, misled, status>>

(* ... and one the library has gets another pronunciation, in its item.    *)
ImportPronunciation(l, p, k) ==
    /\ Running
    /\ \E t \in Token :
          /\ Same(l, p) = {t}
          /\ items[t] # NoItem
          /\ items' = [items EXCEPT ![t].prons = @ \cup {k}]
    /\ UNCHANGED <<keyTable, phraseTable, learned, guesses, misled, status>>

(* pinyin_remember_user_input adds the phrase once for each pronunciation  *)
(* the input has for it (fuzzy keys, other divisions): the first of them   *)
(* enters a phrase the user dictionary does not have, under a new token;   *)
(* the others find it there and get into its item only ...                 *)
RememberNew(p, prons) ==
    LET t == <<"user", RangeEnd("user")>>
    IN  /\ Running
        /\ Same("user", p) = {}
        /\ t \in Token
        /\ \E k \in prons : Enter(t, p, prons, {k})
        /\ UNCHANGED <<learned, guesses, misled, status>>

(* ... as all of them do of a phrase it has.                               *)
RememberKnown(p, prons) ==
    /\ Running
    /\ \E t \in Token :
          /\ Same("user", p) = {t}
          /\ items[t] # NoItem
          /\ items' = [items EXCEPT ![t].prons = @ \cup prons]
    /\ UNCHANGED <<keyTable, phraseTable, learned, guesses, misled, status>>

(* _add_phrase asserts that the library has the phrase once.               *)
ImportAborts(l, p) ==
    /\ Running
    /\ \E t, u \in Same(l, p) : t # u
    /\ status' = "failed"
    /\ UNCHANGED <<tables, learned, guesses, misled>>

(* What an instance finds for the pronunciation k.                         *)
Found(k) == {[token |-> t, phrase |-> items[t].phrase] : t \in {u \in Token : <<k, u>> \in keyTable}}
FoundAddon(k) ==
    {[token |-> a, phrase |-> Addon[a].phrase] : a \in {b \in AddonToken : k \in Addon[b].prons}}

(* pinyin_guess_sentence and pinyin_guess_candidates.  Of the candidates   *)
(* with one phrase the likeliest stays in the list, whichever that is.  (A *)
(* sentence hides those that read like it, too: a call less to make.)      *)
Guess(i, k) ==
    LET all == Found(k) \cup FoundAddon(k)
    IN  /\ Running
        /\ \E list \in SUBSET all :
              /\ \A c \in all : \E d \in list : d.phrase = c.phrase
              /\ \A c, d \in list : c.phrase = d.phrase => c = d
              /\ lists' = [lists EXCEPT ![i] = list]
        /\ fresh' = [fresh EXCEPT ![i] = TRUE]
        /\ UNCHANGED <<tables, learned, misled, status>>

\* A mutant of ChooseAddon: indexed by its phrase only.
ChooseAddonUntyped(i, c) ==
    LET t == <<"addon", RangeEnd("addon")>>
        chosen == [token |-> t, phrase |-> c.phrase]
    IN  /\ Running
        /\ c.token \in AddonToken
        /\ t \in Token
        /\ items' = [items EXCEPT ![t] = [phrase |-> c.phrase, prons |-> Addon[c.token].prons]]
        /\ phraseTable' = phraseTable \cup {<<c.phrase, t>>}
        /\ lists' = [lists EXCEPT ![i] = (@ \ {c}) \cup {chosen}]
        /\ UNCHANGED <<keyTable, learned, fresh, misled, status>>

(* pinyin_choose_candidate of an addon candidate: its item is taken over   *)
(* into the addon dictionary, and the candidate becomes a normal one.      *)
ChooseAddon(i, c) ==
    LET t == <<"addon", RangeEnd("addon")>>
        chosen == [token |-> t, phrase |-> c.phrase]
    IN  /\ Running
        /\ c.token \in AddonToken
        /\ t \in Token
        /\ Enter(t, c.phrase, Addon[c.token].prons, Addon[c.token].prons)
        /\ lists' = [lists EXCEPT ![i] = (@ \ {c}) \cup {chosen}]
        /\ UNCHANGED <<learned, fresh, misled, status>>

(* pinyin_train of a sentence, made of tokens as the list is and as old,   *)
(* with word w in it.                                                      *)
Train(w) ==
    /\ Running
    /\ w.token \in Token
    /\ Cardinality(learned \cup {w}) <= MaxLearned
    /\ learned' = learned \cup {w}
    /\ misled' = (misled \/ items[w.token] = NoItem \/ items[w.token].phrase # w.phrase)
    /\ UNCHANGED <<tables, guesses, status>>

---------------------------------------------------------------------------
(* The assertions of pinyin_remove_user_candidate on token t.              *)
Removable(t) ==
    /\ items[t] # NoItem
    /\ <<items[t].phrase, t>> \in phraseTable
    /\ items[t].prons \X {t} \subseteq keyTable

(* Mutants of RemoveCandidate: the pinyin table or the bigram forgotten.   *)
RemoveButKeys(c) ==
    LET t == c.token IN
    /\ Running
    /\ t \in Token /\ t[1] = "user"
    /\ Removable(t)
    /\ items' = [items EXCEPT ![t] = NoItem]
    /\ phraseTable' = phraseTable \ {<<items[t].phrase, t>>}
    /\ learned' = {w \in learned : w.token # t}
    /\ fresh' = [i \in Instance |-> FALSE]
    /\ UNCHANGED <<keyTable, lists, misled, status>>

RemoveButBigram(c) ==
    LET t == c.token IN
    /\ Running
    /\ t \in Token /\ t[1] = "user"
    /\ Removable(t)
    /\ items' = [items EXCEPT ![t] = NoItem]
    /\ phraseTable' = phraseTable \ {<<items[t].phrase, t>>}
    /\ keyTable' = keyTable \ (items[t].prons \X {t})
    /\ fresh' = [i \in Instance |-> FALSE]
    /\ UNCHANGED <<learned, lists, misled, status>>

(* pinyin_remove_user_candidate                                            *)
RemoveCandidate(c) ==
    LET t == c.token IN
    /\ Running
    /\ t \in Token /\ t[1] = "user"
    /\ Removable(t)
    /\ items' = [items EXCEPT ![t] = NoItem]
    /\ phraseTable' = phraseTable \ {<<items[t].phrase, t>>}
    /\ keyTable' = keyTable \ (items[t].prons \X {t})
    /\ learned' = {w \in learned : w.token # t}
    /\ fresh' = [i \in Instance |-> FALSE]
    /\ UNCHANGED <<lists, misled, status>>

RemoveAborts(c) ==
    /\ Running
    /\ c.token \in Token /\ c.token[1] = "user"
    /\ ~Removable(c.token)
    /\ status' = "failed"
    /\ UNCHANGED <<tables, learned, guesses, misled>>

(* pinyin_mask_out of the tokens T                                         *)
MaskOut(T) ==
    /\ Running
    /\ items' = [t \in Token |-> IF t \in T THEN NoItem ELSE items[t]]
    /\ keyTable' = {e \in keyTable : e[2] \notin T}
    /\ phraseTable' = {e \in phraseTable : e[2] \notin T}
    /\ learned' = {w \in learned : w.token \notin T}
    /\ fresh' = [i \in Instance |-> FALSE]
    /\ UNCHANGED <<lists, misled, status>>

Next ==
    \/ \E e \in Imports : ImportPhrase(e[1], e[2], e[3])
    \/ \E e \in Imports : ImportPronunciation(e[1], e[2], e[3])
    \/ \E e \in Imports : ImportAborts(e[1], e[2])
    \/ \E e \in Remembered : RememberNew(e[1], e[2])
    \/ \E e \in Remembered : RememberKnown(e[1], e[2])
    \/ \E i \in Instance, k \in Pinyin : Guess(i, k)
    \/ \E i \in Instance : \E c \in lists[i] : ChooseAddon(i, c)
    \/ \E i \in Instance : \E w \in lists[i] : Train(w)
    \/ \E i \in Instance : \E c \in lists[i] : RemoveCandidate(c)
    \/ \E i \in Instance : \E c \in lists[i] : RemoveAborts(c)
    \/ \E T \in Masks : MaskOut(T)

Spec == Init /\ [][Next]_vars

---------------------------------------------------------------------------
(* Properties.                                                             *)

TypeOK ==
    /\ items \in [Token -> Item \cup {NoItem}]
    /\ keyTable \subseteq Pinyin \X Token
    /\ phraseTable \subseteq Phrase \X Token
    /\ learned \subseteq Word
    /\ lists \in [Instance -> SUBSET Shown]
    /\ fresh \in [Instance -> BOOLEAN]
    /\ misled \in BOOLEAN
    /\ status \in {"ok", "failed"}

(* No entry of a table is left behind: whatever was imported, taken over,  *)
(* removed or masked, an entry names an item that has the phrase or the    *)
(* pronunciation (looking an entry up never finds an empty slot, nor       *)
(* another phrase that got its slot).                                      *)
TablesNameItems ==
    /\ \A e \in phraseTable : items[e[2]] # NoItem /\ items[e[2]].phrase = e[1]
    /\ \A e \in keyTable : items[e[2]] # NoItem /\ e[1] \in items[e[2]].prons

(* No item is lost: each is in the phrase table, so that importing finds   *)
(* it, and can be typed by one of its pronunciations at least.             *)
ItemsFindable ==
    \A t \in Token : items[t] # NoItem =>
        /\ <<items[t].phrase, t>> \in phraseTable
        /\ \E k \in items[t].prons : <<k, t>> \in keyTable

(* The user dictionary never holds a phrase twice, although each instance  *)
(* imports and removes by what the tables say at the time.                 *)
UserPhrasesOnce ==
    \A t, u \in Token :
        t[1] = "user" /\ u[1] = "user" /\ items[t] # NoItem /\ items[u] # NoItem
        /\ items[t].phrase = items[u].phrase => t = u

(* The candidates of a list stay what was shown until some instance        *)
(* removes a phrase: imports and choices never change what a token means.  *)
FreshListsHold ==
    \A i \in Instance : fresh[i] =>
        \A c \in lists[i] : c.token \in Token =>
            items[c.token] # NoItem /\ items[c.token].phrase = c.phrase

(* What was learned of a phrase is never inherited by another one that     *)
(* gets its token, unless a sentence older than the removal is trained.    *)
LearnedOfItsOwn ==
    ~misled => \A w \in learned :
        items[w.token] # NoItem /\ items[w.token].phrase = w.phrase

(* "assert(ERROR_OK == retval)" (pinyin.cpp): removing a candidate of an   *)
(* up-to-date list trips none of the assertions of the removal.            *)
RemovalIsSafe ==
    \A i \in Instance : fresh[i] =>
        \A c \in lists[i] : c.token \in Token /\ c.token[1] = "user" => Removable(c.token)
=============================================================================
