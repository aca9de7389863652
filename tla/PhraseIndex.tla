---------------------------- MODULE PhraseIndex ----------------------------
(***************************************************************************)
(* The phrase libraries of a context: FacadePhraseIndex and SubPhraseIndex *)
(* of src/storage/phrase_index.{h,cpp} with PhraseIndexLogger, and the     *)
(* calls of src/pinyin.cpp that train, import, remove, mask, save and      *)
(* reload them.                                                            *)
(*                                                                         *)
(* A library maps slots (the low bits of a token) to phrase items.  Of an  *)
(* item two things matter here: its unigram frequency, and its number of   *)
(* pronunciations, which decides its size.  A system library is stored as  *)
(* the shipped file and a log of differences, a user library as a whole.   *)
(* The frequencies are guint32: they wrap at Wrap.                         *)
(***************************************************************************)
EXTENDS Naturals, FiniteSetsExt

CONSTANTS
    SystemLib,      \* SYSTEM_FILE libraries
    UserLib,        \* USER_FILE libraries
    MaxSlot,        \* slots are 1 .. MaxSlot
    MaxPron,        \* pronunciations of an item
    Seeds,          \* the amounts training adds
    Wrap,           \* 2^32 in the code
    NoItem,         \* a slot without an item
    Shipped,        \* the items of the shipped system files
    Masks           \* the masks given to pinyin_mask_out (see MaskOut)

PHRASE_INDEX_LIBRARY_COUNT == 16

(* The indices a library can have: 0 is RESERVED.                          *)
LibIndex == 1 .. PHRASE_INDEX_LIBRARY_COUNT - 1

Lib == SystemLib \cup UserLib
Slot == 1 .. MaxSlot
Key == Lib \X Slot
Item == [prons : 1 .. MaxPron, freq : 0 .. Wrap - 1]
Items == [Key -> Item \cup {NoItem}]

ASSUME PhraseIndexAssumption ==
    /\ SystemLib \cap UserLib = {} /\ Lib \subseteq LibIndex
    /\ MaxSlot \in Nat /\ MaxPron \in Nat \ {0} /\ Wrap \in Nat \ {0}
    /\ Seeds \subseteq 1 .. Wrap - 1
    /\ NoItem \notin Item
    /\ Shipped \in Items
    /\ \A k \in Key : k[1] \in UserLib => Shipped[k] = NoItem
    /\ \A M \in Masks : M.libs \subseteq Lib /\ M.slots \subseteq Slot

VARIABLES
    items,          \* the items of the loaded libraries
    subtotal,       \* m_total_freq of each SubPhraseIndex
    total,          \* m_total_freq of the FacadePhraseIndex
    stored,         \* the user's files: a log or a whole library for each
    modified,       \* context->m_modified
    exact,          \* history: no total has been left behind (see BooksBalance)
    status          \* "failed" once an assertion failed

vars == <<items, subtotal, total, stored, modified, exact, status>>

---------------------------------------------------------------------------
FreqOf(it) == IF it = NoItem THEN 0 ELSE it.freq

(* f[1] + ... + f[n]                                                       *)
SumTo(n, f) ==
    LET sum[i \in 0 .. n] == IF i = 0 THEN 0 ELSE sum[i - 1] + f[i]
    IN  sum[n]

(* The sum of f over the slots of S.                                       *)
SumOver(S, f) == SumTo(MaxSlot, [s \in Slot |-> IF s \in S THEN f[s] ELSE 0])

(* The frequencies of a library.                                           *)
Freqs(its, l) == [s \in Slot |-> FreqOf(its[<<l, s>>])]

(* The sum of the frequencies a library really holds.                      *)
SumFreq(its, l) == SumTo(MaxSlot, Freqs(its, l))

(* add_unigram_frequency lets no total overflow, so none was shipped.      *)
ASSUME ShippedAssumption == \A l \in Lib : SumFreq(Shipped, l) < Wrap

ShippedTotal(l) == SumFreq(Shipped, l) % Wrap

(* SubPhraseIndex::get_range: one past the last slot that holds an item.   *)
RangeEnd(its, l) ==
    LET used == {s \in Slot : its[<<l, s>>] # NoItem}
    IN  IF used = {} THEN 1 ELSE Max(used) + 1

Plus(a, b) == (a + b) % Wrap
Minus(a, b) == (a + Wrap - b) % Wrap

(* What the facade counts: every index is either of a library or NULL.     *)
SumTotals(sub) ==
    SumTo(PHRASE_INDEX_LIBRARY_COUNT - 1,
          [l \in LibIndex |-> IF l \in Lib THEN sub[l] ELSE 0]) % Wrap

---------------------------------------------------------------------------
(* The log of a system library.  One record per slot that differs from the *)
(* shipped file holds the old and the new item (NoItem for an added or a   *)
(* removed one), one header the old and the new total.                     *)

(* Mutant of Diff: looks at the slots of the shipped library only.         *)
DiffOfShipped(its, sub, l) ==
    LET changed == {s \in Slot : s < RangeEnd(Shipped, l) /\ its[<<l, s>>] # Shipped[<<l, s>>]}
    IN  [before |-> ShippedTotal(l), after |-> sub[l],
         records |-> [s \in changed |-> [old |-> Shipped[<<l, s>>], new |-> its[<<l, s>>]]]]

(* SubPhraseIndex::diff                                                    *)
Diff(its, sub, l) ==
    LET changed == {s \in Slot : its[<<l, s>>] # Shipped[<<l, s>>]}
    IN  [before |-> ShippedTotal(l), after |-> sub[l],
         records |-> [s \in changed |-> [old |-> Shipped[<<l, s>>], new |-> its[<<l, s>>]]]]

NoLog == [before |-> 0, after |-> 0, records |-> [s \in {} |-> NoItem]]

IsModify(r) == r.old # NoItem /\ r.new # NoItem

(* A modified item that still fits is overwritten in place; any other      *)
(* record goes through add_phrase_item or remove_phrase_item, which count  *)
(* its frequency in the total again although the header has set it.        *)
InPlace(r) == IsModify(r) /\ r.new.prons <= r.old.prons

(* SubPhraseIndex::merge onto the shipped file, whose items and total the  *)
(* log was made against; an absent log (a new user) has no records.        *)
MergedItem(log, l, s) ==
    IF s \in DOMAIN log.records THEN log.records[s].new ELSE Shipped[<<l, s>>]

(* The total t after the records of slots S were counted in it.            *)
Counted(t, log, S) ==
    LET added == SumOver(S, [s \in S |-> FreqOf(log.records[s].new)]) % Wrap
        removed == SumOver(S, [s \in S |-> FreqOf(log.records[s].old)]) % Wrap
    IN  Minus(Plus(t, added), removed)

CountedTwice(log) == {s \in DOMAIN log.records : ~InPlace(log.records[s])}

MergedTotal(log, l) ==
    IF log = NoLog THEN ShippedTotal(l) ELSE Counted(log.after, log, CountedTwice(log))

MergedExactly(log) == CountedTwice(log) = {}

(* mask_out_phrase_index_logger: the records of masked slots are dropped   *)
(* and the header is computed from the rest.                               *)
Unmasked(log, slots) ==
    LET kept == DOMAIN log.records \ slots
    IN  IF log = NoLog THEN NoLog
        ELSE [before |-> log.before,
              after |-> Counted(log.before, log, kept),
              records |-> [s \in kept |-> log.records[s]]]

(* _mask_out_records hands both chunks of a record to append_record, which *)
(* asserts that the old one of an added item and the new one of a removed  *)
(* item is NULL.                                                           *)
MaskAborts(log, slots) ==
    \E s \in DOMAIN log.records \ slots : ~IsModify(log.records[s])

---------------------------------------------------------------------------
(* What a file restores.                                                   *)
NoLibrary == [total |-> 0, items |-> [s \in Slot |-> NoItem]]

(* Mutant of Library: takes the end of the range for its last slot.        *)
LibraryShort(its, sub, l) ==
    [total |-> sub[l],
     items |-> [s \in Slot |-> IF s + 1 < RangeEnd(its, l) THEN its[<<l, s>>] ELSE NoItem]]

(* FacadePhraseIndex::store                                                *)
Library(its, sub, l) == [total |-> sub[l], items |-> [s \in Slot |-> its[<<l, s>>]]]

Restored(files) ==
    [k \in Key |-> IF k[1] \in SystemLib THEN MergedItem(files[k[1]], k[1], k[2])
                   ELSE files[k[1]].items[k[2]]]

RestoredTotals(files) ==
    [l \in Lib |-> IF l \in SystemLib THEN MergedTotal(files[l], l) ELSE files[l].total]

(* FacadePhraseIndex::compact rebuilds every library item by item; the     *)
(* total of the facade is left as it was.                                  *)
Compacted(its) == [l \in Lib |-> SumFreq(its, l) % Wrap]

---------------------------------------------------------------------------
(* pinyin_init of a new user                                               *)
Init ==
    /\ items = Shipped
    /\ subtotal = Compacted(Shipped)
    /\ total = SumTotals(Compacted(Shipped))
    /\ stored = [l \in Lib |-> IF l \in SystemLib THEN NoLog ELSE NoLibrary]
    /\ modified = FALSE
    /\ exact = TRUE
    /\ status = "ok"

Running == status = "ok"

(* Mutant of AddUnigramFrequency: no protection against overflow.          *)
AddUnigramUnguarded(its, k, d) ==
    /\ total' = Plus(total, d)
    /\ IF its[k] # NoItem
       THEN /\ items' = [its EXCEPT ![k].freq = Plus(@, d)]
            /\ subtotal' = [subtotal EXCEPT ![k[1]] = Plus(@, d)]
            /\ UNCHANGED exact
       ELSE /\ items' = its
            /\ exact' = FALSE
            /\ UNCHANGED subtotal

(* FacadePhraseIndex::add_unigram_frequency on the items its: the facade   *)
(* counts the amount before the library decides whether to take it.        *)
AddUnigramFrequency(its, k, d) ==
    /\ total' = Plus(total, d)
    /\ IF its[k] # NoItem /\ subtotal[k[1]] + d < Wrap
       THEN /\ items' = [its EXCEPT ![k].freq = Plus(@, d)]
            /\ subtotal' = [subtotal EXCEPT ![k[1]] = @ + d]
            /\ UNCHANGED exact
       ELSE /\ items' = its
            /\ exact' = FALSE
            /\ UNCHANGED subtotal

(* pinyin_train.  A sentence or a candidate may be older than a removal,   *)
(* so the token may have no item.                                          *)
Train(k, d) ==
    /\ Running
    /\ AddUnigramFrequency(items, k, d)
    /\ modified' = TRUE
    /\ UNCHANGED <<stored, status>>

(* The calls that learn without marking the context: choosing a longer or  *)
(* a predicted candidate, pinyin_token_add_unigram_frequency.              *)
Choose(k, d) ==
    /\ Running
    /\ AddUnigramFrequency(items, k, d)
    /\ UNCHANGED <<stored, modified, status>>

(* _add_phrase of a phrase the library does not have.                      *)
ImportPhrase(l, d) ==
    LET k == <<l, RangeEnd(items, l)>>
    IN  /\ Running
        /\ k[2] \in Slot
        /\ AddUnigramFrequency([items EXCEPT ![k] = [prons |-> 1, freq |-> 0]], k, d)
        /\ UNCHANGED <<stored, modified, status>>

(* _add_phrase of a phrase the library has, with another pronunciation:    *)
(* removed, extended and added back.                                       *)
ImportPronunciation(k) ==
    /\ Running
    /\ items[k] # NoItem
    /\ items[k].prons < MaxPron
    /\ items' = [items EXCEPT ![k].prons = @ + 1]
    /\ UNCHANGED <<subtotal, total, stored, modified, exact, status>>

(* pinyin_end_add_phrases                                                  *)
EndAddPhrases ==
    /\ Running
    /\ subtotal' = Compacted(items)
    /\ modified' = TRUE
    /\ UNCHANGED <<items, total, stored, exact, status>>

(* remove_phrase_item, as pinyin_remove_user_candidate calls it.           *)
RemovePhrase(k) ==
    /\ Running
    /\ k[1] \in UserLib
    /\ items[k] # NoItem
    /\ items' = [items EXCEPT ![k] = NoItem]
    /\ subtotal' = [subtotal EXCEPT ![k[1]] = Minus(@, items[k].freq)]
    /\ total' = Minus(total, items[k].freq)
    /\ UNCHANGED <<stored, modified, exact, status>>

(* pinyin_save; without changes marked it returns at once.                 *)
Save ==
    /\ Running
    /\ modified
    /\ subtotal' = Compacted(items)
    /\ stored' = [l \in Lib |-> IF l \in SystemLib THEN Diff(items, subtotal', l)
                                ELSE Library(items, subtotal', l)]
    /\ modified' = FALSE
    /\ UNCHANGED <<items, total, exact, status>>

(* pinyin_fini and pinyin_init, or the process dies between two saves.     *)
Reopen ==
    /\ Running
    /\ items' = Restored(stored)
    /\ subtotal' = RestoredTotals(stored)
    /\ total' = SumTotals(subtotal')
    /\ exact' = (exact /\ \A l \in SystemLib : MergedExactly(stored[l]))
    /\ modified' = FALSE
    /\ UNCHANGED <<stored, status>>

(* Mutant of MaskedItem: merges the log of a system library unfiltered.    *)
MaskedItemMerged(M, k) ==
    IF k[1] \in UserLib
    THEN IF k[1] \in M.libs /\ k[2] \in M.slots THEN NoItem ELSE items[k]
    ELSE IF k[1] \in M.libs THEN MergedItem(stored[k[1]], k[1], k[2]) ELSE Shipped[k]

(* pinyin_mask_out.  A system library is loaded again from the shipped     *)
(* file; its log is merged only if the library matches the mask.           *)
MaskedItem(M, k) ==
    LET l == k[1]  s == k[2]
    IN  IF l \in UserLib
        THEN IF l \in M.libs /\ s \in M.slots THEN NoItem ELSE items[k]
        ELSE IF l \in M.libs THEN MergedItem(Unmasked(stored[l], M.slots), l, s)
             ELSE Shipped[k]

MaskedTotal(M, l) ==
    IF l \in UserLib
    THEN IF l \notin M.libs THEN subtotal[l]
         ELSE Minus(subtotal[l], SumOver(M.slots, Freqs(items, l)) % Wrap)
    ELSE IF l \in M.libs THEN MergedTotal(Unmasked(stored[l], M.slots), l)
         ELSE ShippedTotal(l)

MaskOut(M) ==
    /\ Running
    /\ \A l \in SystemLib \cap M.libs : ~MaskAborts(stored[l], M.slots)
    /\ items' = [k \in Key |-> MaskedItem(M, k)]
    /\ subtotal' = Compacted(items')
    /\ total' = Minus(Plus(total, SumTotals([l \in Lib |-> MaskedTotal(M, l)])),
                      SumTotals(subtotal))
    /\ exact' = (exact /\ \A l \in SystemLib \cap M.libs :
                              MergedExactly(Unmasked(stored[l], M.slots)))
    /\ UNCHANGED <<stored, modified, status>>

MaskOutAborts(M) ==
    /\ Running
    /\ \E l \in SystemLib \cap M.libs : MaskAborts(stored[l], M.slots)
    /\ status' = "failed"
    /\ UNCHANGED <<items, subtotal, total, stored, modified, exact>>

Next ==
    \/ \E k \in Key, d \in Seeds : Train(k, d)
    \/ \E k \in Key, d \in Seeds : Choose(k, d)
    \/ \E l \in Lib, d \in Seeds : ImportPhrase(l, d)
    \/ \E k \in Key : ImportPronunciation(k)
    \/ EndAddPhrases
    \/ \E k \in Key : RemovePhrase(k)
    \/ Save
    \/ Reopen
    \/ \E M \in Masks : MaskOut(M)
    \/ \E M \in Masks : MaskOutAborts(M)

Spec == Init /\ [][Next]_vars

---------------------------------------------------------------------------
(* Properties.                                                             *)

(* The frequencies a probability divides by are the sums they stand for:   *)
(* the total of a library is the sum of its items, never wrapped, and the  *)
(* total of the facade the sum of the libraries.  A refused addition and   *)
(* a log that adds or enlarges items are the exceptions (exact).           *)
BooksBalance ==
    exact => /\ \A l \in Lib : subtotal[l] = SumFreq(items, l)
             /\ total = SumTotals(subtotal)

(* Masking forgets: a masked phrase of the user's is gone, a masked phrase *)
(* of the system has what was shipped, whatever memory and files held.     *)
MaskedForgotten ==
    [][\A M \in Masks : MaskOut(M) =>
          \A k \in M.libs \X M.slots : items'[k] = Shipped[k]]_vars

(* The libraries and their logs implement a store that reopens to exactly  *)
(* what was saved: diff and merge are inverse, through any history.        *)
Store == INSTANCE DurableStore WITH
    Key <- Key, Value <- Item \cup {NoItem}, Shipped <- Shipped,
    memory <- items, durable <- Restored(stored)

ImplementsStore == Store!Spec
============================================================================
