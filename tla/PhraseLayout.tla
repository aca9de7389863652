----------------------------- MODULE PhraseLayout -----------------------------
(***************************************************************************)
(* How one phrase library lies in memory and in its file: MemoryChunk      *)
(* (include/memory_chunk.h), PhraseItem and SubPhraseIndex                 *)
(* (storage/phrase_index.{h,cpp}).                                         *)
(*                                                                         *)
(* Memory is a sequence of cells, a cell being whatever the code reads or  *)
(* writes at once: a number, a character or a key.  Offsets count cells    *)
(* from 0.  An item is a header of three cells (phrase length, number of   *)
(* pronunciations, frequency), the characters, and for each pronunciation  *)
(* its keys and its frequency.                                             *)
(***************************************************************************)
EXTENDS Naturals, Sequences, SequencesExt, FiniteSetsExt

CONSTANTS
    MaxToken,       \* tokens are 1 .. MaxToken
    Phrase,         \* sequences of characters, which are cells
    Keys,           \* sequences of keys, which are cells
    Like(_, _),     \* pinyin_compare_with_tones
    Counts,         \* the amounts imported and trained
    Wrap,           \* 2^32 in the code
    MaxProns,       \* bound: pronunciations imported for an item
    MaxContent,     \* bound: cells of content before a library is compacted
    Reserved,       \* the content of a library begins here, 8 in the code
    c_separate,     \* a cell
    ShippedFile,    \* the cells of the shipped file of a system library
    NoItem

Header == 3
Token == 1 .. MaxToken

-----------------------------------------------------------------------------
(* MemoryChunk: the allocated cells, how many of them are content, and     *)
(* whether they may be reallocated, or belong to another chunk or file.    *)

EmptyChunk == [data |-> <<>>, size |-> 0, owned |-> FALSE]

Alias(cells) == [data |-> cells, size |-> Len(cells), owned |-> FALSE]

Content(c) == SubSeq(c.data, 1, c.size)

Zeros(n) == [i \in 1 .. n |-> 0]

\* ensure_has_more_space: what is borrowed is copied first.
EnsureHasMoreSpace(c, extra) ==
    IF extra = 0 THEN c
    ELSE IF ~c.owned
         THEN [data |-> Content(c) \o Zeros(extra), size |-> c.size, owned |-> TRUE]
    ELSE IF extra <= Len(c.data) - c.size THEN c
    ELSE LET newsize == Max({2 * Len(c.data), c.size + extra})
         IN  [c EXCEPT !.data = Content(c) \o Zeros(newsize - c.size)]

EnsureHasSpace(c, size) ==
    IF size <= c.size THEN c ELSE EnsureHasMoreSpace(c, size - c.size)

SetSize(c, size) == [EnsureHasSpace(c, size) EXCEPT !.size = size]

Written(data, offset, cells) ==
    SubSeq(data, 1, offset) \o cells \o SubSeq(data, offset + Len(cells) + 1, Len(data))

SetContent(c, offset, cells) ==
    LET end == offset + Len(cells)
    IN  [EnsureHasSpace(c, end) EXCEPT !.data = Written(@, offset, cells),
                                       !.size = Max({c.size, end})]

Has(c, offset, length) == offset + length <= c.size
Get(c, offset) == c.data[offset + 1]
Cells(c, offset, length) == SubSeq(c.data, offset + 1, offset + length)

-----------------------------------------------------------------------------
(* PhraseItem, over the cells of its chunk. *)

PhraseLength(item) == item[1]
NProns(item) == item[2]

\* Where the i-th pronunciation begins, and its frequency is, i from 0.
PronAt(item, i) == Header + PhraseLength(item) + i * (PhraseLength(item) + 1)
FreqAt(item, i) == PronAt(item, i) + PhraseLength(item)
PronKeys(item, i) == SubSeq(item, PronAt(item, i) + 1, FreqAt(item, i))
PronFreq(item, i) == item[FreqAt(item, i) + 1]

\* The running total of add_pronunciation and increase_pronunciation_possibility.
PronsTotal(item, i) ==
    FoldLeft(LAMBDA sum, j : (sum + PronFreq(item, j - 1)) % Wrap, 0, [j \in 1 .. i + 1 |-> j])

WouldOverflow(item, i, delta) ==
    PronsTotal(item, i) > (PronsTotal(item, i) + delta) % Wrap

Increased(item, i, delta) ==
    [item EXCEPT ![FreqAt(item, i) + 1] = (@ + delta) % Wrap]

\* set_phrase_string on a new item
NewItem(phrase) ==
    Content(SetContent(SetContent(SetSize(EmptyChunk, Header), 0, <<Len(phrase)>>),
                       Header, phrase))

AddPronunciation(item, keys, delta) ==
    LET same == {i \in 0 .. NProns(item) - 1 : PronKeys(item, i) = keys}
    IN  IF same = {}
        THEN [item EXCEPT ![2] = (@ + 1) % 256] \o keys \o <<delta>>
        ELSE IF WouldOverflow(item, Min(same), delta) THEN item
        ELSE Increased(item, Min(same), delta)

\* increase_pronunciation_possibility
IncreasePossibility(item, typed, delta) ==
    LET n == NProns(item)
        step(h, i) == IF ~h.on \/ ~Like(typed, PronKeys(h.item, i - 1)) THEN h
                      ELSE IF WouldOverflow(h.item, i - 1, delta) THEN [h EXCEPT !.on = FALSE]
                      ELSE [h EXCEPT !.item = Increased(@, i - 1, delta)]
    IN  FoldLeft(step, [item |-> item, on |-> TRUE], [i \in 1 .. n |-> i]).item

-----------------------------------------------------------------------------
(* SubPhraseIndex: m_total_freq, m_phrase_index with an offset for each    *)
(* token (0 for none), and m_phrase_content with the items.                *)

EmptySub == [total |-> 0, index |-> EmptyChunk, content |-> EmptyChunk]

HasItem(sub, token) == Has(sub.index, token, 1) /\ Get(sub.index, token) # 0

ItemLength(content, offset) ==
    LET length == Get(content, offset)
    IN  Header + length + Get(content, offset + 1) * (length + 1)

GetItem(sub, token) ==
    LET offset == Get(sub.index, token)
    IN  Cells(sub.content, offset, ItemLength(sub.content, offset))

\* A mutant of AddPhraseItem: the first item lies at the beginning.
AddPhraseItemAtZero(sub, token, item) ==
    LET offset == sub.content.size
    IN  [total   |-> (sub.total + item[3]) % Wrap,
         index   |-> SetContent(sub.index, token, <<offset>>),
         content |-> SetContent(sub.content, offset, item)]

AddPhraseItem(sub, token, item) ==
    LET offset == IF sub.content.size = 0 THEN Reserved ELSE sub.content.size
    IN  [total   |-> (sub.total + item[3]) % Wrap,
         index   |-> SetContent(sub.index, token, <<offset>>),
         content |-> SetContent(sub.content, offset, item)]

RemovePhraseItem(sub, token) ==
    [sub EXCEPT !.total = (@ + Wrap - GetItem(sub, token)[3]) % Wrap,
                !.index = SetContent(@, token, <<0>>)]

\* What a PhraseItem from get_phrase_item writes goes to the library itself.
WriteItem(sub, token, item) ==
    [sub EXCEPT !.content = SetContent(@, Get(sub.index, token), item)]

\* ... whose total must not overflow.
TotalTakes(sub, delta) == sub.total <= (sub.total + delta) % Wrap

AddUnigramFrequency(sub, token, delta) ==
    IF ~TotalTakes(sub, delta) THEN sub
    ELSE [WriteItem(sub, token, [GetItem(sub, token) EXCEPT ![3] = (@ + delta) % Wrap])
             EXCEPT !.total = (@ + delta) % Wrap]

\* get_range: trailing zeros are no tokens.
RangeEnd(sub) ==
    Max({1} \cup {t + 1 : t \in {u \in 1 .. sub.index.size - 1 : Get(sub.index, u) # 0}})

\* The element of a set of one.
The(S) == CHOOSE x \in S : TRUE

Compact(sub) ==
    LET compacted[n \in Nat] ==
            IF n = 0 THEN EmptySub
            ELSE IF ~HasItem(sub, n) THEN compacted[n - 1]
            ELSE The({AddPhraseItem(new, n, GetItem(sub, n)) : new \in {compacted[n - 1]}})
    IN  compacted[RangeEnd(sub) - 1]

\* Where the index begins in a file: after the total, three offsets and "#".
IndexOne == 5

Store(sub) ==
    LET index_two == IndexOne + sub.index.size + 1
        index_three == index_two + sub.content.size + 1
    IN  <<sub.total, IndexOne, index_two, index_three, c_separate>>
        \o Content(sub.index) \o <<c_separate>>
        \o Content(sub.content) \o <<c_separate>>

Load(file) ==
    LET c == Alias(file)
        one == Get(c, 1)  two == Get(c, 2)  three == Get(c, 3)
    IN  [total   |-> Get(c, 0),
         index   |-> Alias(Cells(c, one, two - 1 - one)),
         content |-> Alias(Cells(c, two, three - 1 - two))]

-----------------------------------------------------------------------------
(* The log of a system library: a record per token whose item differs.     *)

Diff(old, sub) ==
    LET range == 1 .. Max({RangeEnd(old), RangeEnd(sub)}) - 1
        item(s, t) == IF HasItem(s, t) THEN GetItem(s, t) ELSE <<>>
        differs == SelectSeq([t \in range |-> t], LAMBDA t : item(old, t) # item(sub, t))
    IN  [total   |-> sub.total,
         records |-> [n \in 1 .. Len(differs) |->
                        [token |-> differs[n], old |-> item(old, differs[n]),
                         new |-> item(sub, differs[n])]]]

MergeRecord(sub, r) ==
    IF r.old = <<>> THEN AddPhraseItem(sub, r.token, r.new)
    ELSE IF r.new = <<>> THEN RemovePhraseItem(sub, r.token)
    ELSE IF Len(r.new) > Len(r.old)
         THEN AddPhraseItem(RemovePhraseItem(sub, r.token), r.token, r.new)
    ELSE WriteItem(sub, r.token, r.new)

\* The header is the first record.
Merge(sub, log) ==
    LET merged[n \in 0 .. Len(log.records)] ==
            IF n = 0 THEN [sub EXCEPT !.total = log.total]
            ELSE The({MergeRecord(new, log.records[n]) : new \in {merged[n - 1]}})
    IN  merged[Len(log.records)]

-----------------------------------------------------------------------------
VARIABLES
    lib,        \* the SubPhraseIndex in memory
    saved,      \* what was saved last: the cells of a file, or a log
    system,     \* a SYSTEM_FILE, saved as a log of differences, or a USER_FILE
    known,      \* history: the items given to the library,
    kept        \*          and what they were when it was saved

layoutVars == <<lib, saved, system, known, kept>>

Items == INSTANCE ItemStore

\* _load_phrase_library
Opened(file_or_log) ==
    IF system THEN Merge(Load(ShippedFile), file_or_log) ELSE Load(file_or_log)

Saved(sub) == IF system THEN Diff(Load(ShippedFile), sub) ELSE Store(sub)

Decoded(cells) == The({
    [phrase |-> SubSeq(item, Header + 1, Header + PhraseLength(item)),
     freq   |-> item[3],
     prons  |-> [n \in 1 .. NProns(item) |->
                   [keys |-> PronKeys(item, n - 1), freq |-> PronFreq(item, n - 1)]]] :
        item \in {cells}})

ItemsOf(sub) ==
    The({[t \in Token |-> IF HasItem(s, t) THEN Decoded(GetItem(s, t)) ELSE NoItem] : s \in {sub}})

Init ==
    /\ system \in BOOLEAN
    /\ lib = IF system THEN Load(ShippedFile) ELSE EmptySub
    /\ saved = Saved(lib)
    /\ known = ItemsOf(lib)
    /\ kept = known

Factored(d) == (Items!unigram_factor * d) % Wrap

\* _add_phrase of a phrase the library does not have
ImportPhrase(phrase, keys, d) ==
    LET token == RangeEnd(lib)
        added == AddPhraseItem(lib, token, AddPronunciation(NewItem(phrase), keys, d))
    IN  /\ token \in Token
        /\ Len(keys) = Len(phrase)
        /\ lib.content.size < MaxContent
        /\ lib' = AddUnigramFrequency(added, token, Factored(d))
        /\ UNCHANGED <<saved, system>>
        /\ Items!AddPhrase(token, phrase, keys, d, TotalTakes(lib, Factored(d)))

\* ... and of one it has: a copy is removed, extended and added.
ImportPronunciation(token, keys, d) ==
    /\ HasItem(lib, token)
    /\ LET item == GetItem(lib, token)
       IN  /\ Len(keys) = PhraseLength(item)
           /\ NProns(item) < MaxProns \/ \E i \in 0 .. NProns(item) - 1 : PronKeys(item, i) = keys
           /\ lib.content.size < MaxContent
           /\ lib' = AddPhraseItem(RemovePhraseItem(lib, token), token,
                                   AddPronunciation(item, keys, d))
    /\ UNCHANGED <<saved, system>>
    /\ Items!AddPronunciation(token, keys, d)

\* train_result3 for one phrase
Train(token, typed, d) ==
    /\ HasItem(lib, token)
    /\ Len(typed) = PhraseLength(GetItem(lib, token))
    /\ lib' = AddUnigramFrequency(
                 WriteItem(lib, token, IncreasePossibility(GetItem(lib, token), typed, d)),
                 token, Factored(d))
    /\ UNCHANGED <<saved, system>>
    /\ Items!Train(token, typed, d, TotalTakes(lib, Factored(d)))

RemovePhrase(token) ==
    /\ HasItem(lib, token)
    /\ lib' = RemovePhraseItem(lib, token)
    /\ UNCHANGED <<saved, system>>
    /\ Items!RemovePhrase(token)

\* pinyin_end_add_phrases
CompactMemory == lib' = Compact(lib) /\ UNCHANGED <<saved, system>> /\ Items!Stay

\* pinyin_save
Save ==
    /\ lib' = Compact(lib)
    /\ saved' = Saved(Compact(lib))
    /\ UNCHANGED system
    /\ Items!Save

Reopen == lib' = Opened(saved) /\ UNCHANGED <<saved, system>> /\ Items!Reopen

Next ==
    \/ \E phrase \in Phrase, keys \in Keys, d \in Counts : ImportPhrase(phrase, keys, d)
    \/ \E token \in Token, keys \in Keys, d \in Counts :
          ImportPronunciation(token, keys, d) \/ Train(token, keys, d)
    \/ \E token \in Token : RemovePhrase(token)
    \/ CompactMemory
    \/ Save
    \/ Reopen

Spec == Init /\ [][Next]_layoutVars

-----------------------------------------------------------------------------
(* Properties. *)

\* However items are moved, extended, overwritten in place and compacted, however
\* memory grows, and whether it is the library's or the file's, a token finds the
\* item it was given, with the pronunciations in order, and reopening finds the
\* items that were saved (phrase_index.cpp, memory_chunk.h).
ItemsKept == known = ItemsOf(lib)
===============================================================================
