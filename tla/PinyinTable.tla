------------------------------ MODULE PinyinTable ------------------------------
(***************************************************************************)
(* The pinyin table: which phrases are pronounced in a way                 *)
(* (ChewingLargeTable2, storage/chewing_large_table2*, pinyin_phrase3.h).  *)
(*                                                                         *)
(* A key is <<initial, final, tone>> in the code's numbers, `final' being  *)
(* m_middle and m_final together; 0 stands for a part that is not given.   *)
(* The table is a database: a function from indices, which are keys        *)
(* without tones, to entries, which are sorted sequences of [keys, token]. *)
(* Each phrase is filed twice, by its initials alone and by its keys.      *)
(***************************************************************************)
EXTENDS Integers, Sequences, SequencesExt, FiniteSetsExt

CONSTANT LibrarySize  \* 2^24: tokens of one phrase library

ASSUME PinyinTableAssumption == LibrarySize \in Nat \ {0}

PinyinKeys == Seq(Nat \X Nat \X Nat) \ {<<>>}

NoTable == [index \in {} |-> <<>>]

-----------------------------------------------------------------------------
(* Comparing keys. *)

\* All initials, then all finals, then all tones: the order of comparison.
Parts(keys) ==
    LET n == Len(keys)
    IN  [i \in 1 .. 3 * n |-> keys[((i - 1) % n) + 1][((i - 1) \div n) + 1]]

\* pinyin_exact_compare2 < 0
ExactLess(a, b) ==
    LET p == Parts(a)
        q == Parts(b)
    IN  \E i \in DOMAIN p : p[i] < q[i] /\ \A j \in 1 .. i - 1 : p[j] = q[j]

\* pinyin_compare_with_tones < 0: a final or a tone that is not given is like any.
LessWithTones(a, b) ==
    LET p == Parts(a)
        q == Parts(b)
        alike(i) == p[i] = q[i] \/ (i > Len(a) /\ 0 \in {p[i], q[i]})
    IN  \E i \in DOMAIN p : /\ p[i] < q[i] /\ ~alike(i)
                            /\ \A j \in 1 .. i - 1 : alike(j)

\* pinyin_compare_with_tones = 0
Matches(a, b) ==
    Len(a) = Len(b) /\ ~LessWithTones(a, b) /\ ~LessWithTones(b, a)

\* contains_incomplete_pinyin
Incomplete(keys) == \E i \in DOMAIN keys : keys[i][2] = 0

\* compute_chewing_index and compute_incomplete_chewing_index
ChewingIndex(keys) == [i \in DOMAIN keys |-> <<keys[i][1], keys[i][2], 0>>]
IncompleteIndex(keys) == [i \in DOMAIN keys |-> <<keys[i][1], 0, 0>>]

SearchIndex(keys) ==
    IF Incomplete(keys) THEN IncompleteIndex(keys) ELSE ChewingIndex(keys)

-----------------------------------------------------------------------------
(* One entry: ChewingTableEntry. *)

\* Where the items begin and end that have exactly these keys.
Lower(entry, keys) ==
    Min({k \in DOMAIN entry : ~ExactLess(entry[k].keys, keys)} \cup {Len(entry) + 1})
Upper(entry, keys) ==
    Min({k \in DOMAIN entry : ExactLess(keys, entry[k].keys)} \cup {Len(entry) + 1})

Same(entry, keys, token) ==
    {k \in Lower(entry, keys) .. Upper(entry, keys) - 1 : entry[k].token = token}

\* Behind the items with these keys and a lesser token.
EntryAdded(entry, keys, token) ==
    LET greater == {k \in Lower(entry, keys) .. Upper(entry, keys) - 1 :
                       entry[k].token > token}
    IN  IF Same(entry, keys, token) # {} THEN entry
        ELSE InsertAt(entry, Min(greater \cup {Upper(entry, keys)}),
                      [keys |-> keys, token |-> token])

EntryRemoved(entry, keys, token) ==
    IF Same(entry, keys, token) = {} THEN entry
    ELSE RemoveAt(entry, Min(Same(entry, keys, token)))

Begins(keys, item) == SubSeq(item.keys, 1, Len(keys))

\* A mutant of SearchRange: the range is that of the keys searched for.
SearchRangeOfKeys(entry, keys) ==
    LET behind == Len(entry) + 1
        first == Min({k \in DOMAIN entry : ~LessWithTones(Begins(keys, entry[k]), keys)}
                     \cup {behind})
        past == {k \in first .. Len(entry) : LessWithTones(keys, Begins(keys, entry[k]))}
    IN  SubSeq(entry, first, Min(past \cup {behind}) - 1)

\* equal_range in search and search_suggestion, for the index.  Comparing with tones
\* does not respect the order of an entry; but an index has no tones, and then no
\* finals either or those of every item.
SearchRange(entry, keys) == SearchRangeOfKeys(entry, SearchIndex(keys))

\* A token more: behind consecutive ones of its library, or a range of its own.
WithToken(ranges, token) ==
    IF /\ ranges # <<>> /\ Last(ranges).end = token
       /\ Last(ranges).begin \div LibrarySize = token \div LibrarySize
    THEN [ranges EXCEPT ![Len(ranges)].end = @ + 1]
    ELSE Append(ranges, [begin |-> token, end |-> token + 1])

\* convert: the ranges of the tokens that match.  Phrases of every library are
\* asked for.
Convert(items, keys) ==
    LET ranges[n \in 0 .. Len(items)] ==
            IF n = 0 THEN <<>>
            ELSE IF ~Matches(keys, items[n].keys) THEN ranges[n - 1]
            ELSE WithToken(ranges[n - 1], items[n].token)
    IN  ranges[Len(items)]

\* convert_suggestion, for the items of a longer entry.
ConvertSuggestion(items, prefix) ==
    {item.token : item \in {i \in Range(items) : Matches(prefix, Begins(prefix, i))}}

-----------------------------------------------------------------------------
(* The table. *)

Has(table, index, keys, token) ==
    index \in DOMAIN table /\ Same(table[index], keys, token) # {}

\* An item put under an index, a new one or not.
Filed(table, index, keys, token) ==
    [i \in DOMAIN table \cup {index} |->
        IF i # index THEN table[i]
        ELSE EntryAdded(IF i \in DOMAIN table THEN table[i] ELSE <<>>, keys, token)]

\* add_index_internal: a new index gets an entry, and so do the shorter ones, until
\* one is found; these stay empty and say that longer phrases continue them.
AddIndexInternal(table, index, keys, token) ==
    LET prefix(len) == SubSeq(index, 1, len)
        missing == {prefix(len) : len \in {l \in 1 .. Len(index) - 1 :
                       \A m \in l .. Len(index) - 1 : prefix(m) \notin DOMAIN table}}
        continued == IF index \in DOMAIN table THEN {} ELSE missing
        filed == Filed(table, index, keys, token)
    IN  [i \in DOMAIN filed \cup continued |-> IF i \in continued THEN <<>> ELSE filed[i]]

RemoveIndexInternal(table, index, keys, token) ==
    IF index \in DOMAIN table
    THEN [table EXCEPT ![index] = EntryRemoved(@, keys, token)] ELSE table

\* A phrase that is filed by its initials is not filed again.
AddIndex(table, keys, token) ==
    IF Has(table, IncompleteIndex(keys), keys, token) THEN table
    ELSE AddIndexInternal(
            AddIndexInternal(table, IncompleteIndex(keys), keys, token),
            ChewingIndex(keys), keys, token)

RemoveIndex(table, keys, token) ==
    IF ~Has(table, IncompleteIndex(keys), keys, token) THEN table
    ELSE RemoveIndexInternal(
            RemoveIndexInternal(table, IncompleteIndex(keys), keys, token),
            ChewingIndex(keys), keys, token)

\* Whether remove_index returns ERROR_OK, as pinyin_remove_user_candidate asserts.
Removed(table, keys, token) ==
    /\ Has(table, IncompleteIndex(keys), keys, token)
    /\ Has(RemoveIndexInternal(table, IncompleteIndex(keys), keys, token),
           ChewingIndex(keys), keys, token)

\* mask_out of an entry; S stands for the tokens that match the mask.
EntryMasked(entry, S) ==
    LET kept[n \in 0 .. Len(entry)] ==
            IF n = 0 THEN <<>>
            ELSE IF entry[n].token \in S THEN kept[n - 1]
            ELSE Append(kept[n - 1], entry[n])
    IN  kept[Len(entry)]

\* mask_out.  The indices stay.
MaskedOut(table, S) == [i \in DOMAIN table |-> EntryMasked(table[i], S)]

\* search: SEARCH_CONTINUED is that the index is there.
Continues(table, keys) == SearchIndex(keys) \in DOMAIN table

SearchTable(table, keys) ==
    IF ~Continues(table, keys) THEN <<>>
    ELSE Convert(SearchRange(table[SearchIndex(keys)], keys), keys)

\* search_suggestion: from the entry of the prefix on, those the index begins.
SearchSuggestion(table, prefix) ==
    LET index == SearchIndex(prefix)
        longer == {i \in DOMAIN table : Len(i) > Len(index) /\ IsPrefix(index, i)}
    IN  IF index \notin DOMAIN table THEN {}
        ELSE UNION {ConvertSuggestion(SearchRange(table[i], prefix), prefix) :
                       i \in longer}

TokensOf(ranges) == UNION {r.begin .. r.end - 1 : r \in Range(ranges)}

-----------------------------------------------------------------------------
(* What a table is, without a database: the pairs of keys and token filed. *)

Pronounced(indexed, keys) == {p[2] : p \in {q \in indexed : Matches(keys, q[1])}}

Begun(indexed, prefix) ==
    {p[2] : p \in {q \in indexed : /\ Len(q[1]) > Len(prefix)
                                   /\ Matches(prefix, SubSeq(q[1], 1, Len(prefix)))}}

\* The phrases that were typed out.
Complete(indexed) == {p \in indexed : ~Incomplete(p[1])}

\* A search finds what is pronounced that way, a suggestion what begins that way,
\* and SEARCH_CONTINUED comes wherever a longer phrase does.  Phrases with keys that
\* were not typed out are found by such keys only.
SearchAgrees(table, indexed, keys) ==
    LET found == TokensOf(SearchTable(table, keys))
        suggested == SearchSuggestion(table, keys)
    IN  /\ Pronounced(Complete(indexed), keys) \subseteq found
        /\ found \subseteq Pronounced(indexed, keys)
        /\ Begun(Complete(indexed), keys) \subseteq suggested
        /\ suggested \subseteq Begun(indexed, keys)
        /\ Begun(Complete(indexed), keys) # {} => Continues(table, keys)

InitialsOnly(keys) == \A i \in DOMAIN keys : keys[i][2] = 0

\* A phrase that is filed can be removed, unless of all its keys only the initials
\* were typed: both its indices are one then.
RemovalAgrees(table, indexed) ==
    \A p \in indexed : Removed(table, p[1], p[2]) <=> ~InitialsOnly(p[1])
==============================================================================
