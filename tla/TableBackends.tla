----------------------------- MODULE TableBackends -----------------------------
(***************************************************************************)
(* The phrase table and the pinyin table of a user over the three          *)
(* databases the library can be built with (storage/*_bdb.cpp,             *)
(* *_kyotodb.cpp, *_tkrzwdb.cpp).                                          *)
(*                                                                         *)
(* A table works on a record in an entry object it keeps: the phrase table *)
(* in one, m_entry, the pinyin table in one for each phrase length,        *)
(* m_entries.  With Berkeley DB the entry refers to the record.  The other *)
(* two copy it, and mask_out visits the records with what the entry held   *)
(* before still in it.                                                     *)
(***************************************************************************)
EXTENDS PinyinTable, PhraseTable

CONSTANTS
    Backend,   \* the databases: among "BerkeleyDB", "KyotoCabinet" and "Tkrzw"
    Given,     \* what a user may import: [phrase, keys, token] records
    Tried      \* bound: the phrases and keys that are searched for

VARIABLES
    backend,
    phrases,   \* [db, held]: the records, and what is in m_entry
    pinyins,   \* [db, held]: the records, and what is in m_entries
    filed,     \* what of Given was imported and not removed or masked
    masked     \* whether mask_out was called

vars == <<backend, phrases, pinyins, filed, masked>>

-----------------------------------------------------------------------------
(* An entry object and a record. *)

\* A mutant of Read, and what set_content does: what is behind the record stays.
Over(record, held) == record \o SubSeq(held, Len(record) + 1, Len(held))

\* set_size and the copy of the record, or set_chunk.
Read(record, held) == record

\* The entry for one record, read and written.
Entry(table, at, slot) == Read(table.db[at], table.held[slot])

Written(table, at, slot, entry) ==
    [db |-> [table.db EXCEPT ![at] = entry], held |-> [table.held EXCEPT ![slot] = entry]]

Holding(table, slot, entry) == [table EXCEPT !.held[slot] = entry]

\* The order in which a tree goes through its records.
Before(a, b) ==
    \/ Len(a) < Len(b) /\ \A i \in DOMAIN a : a[i] = b[i]
    \/ \E i \in DOMAIN a \cap DOMAIN b : a[i] < b[i] /\ \A j \in 1 .. i - 1 : a[j] = b[j]

InOrder(S, Less(_, _)) ==
    [n \in 1 .. Cardinality(S) |->
        CHOOSE x \in S : Cardinality({y \in S : Less(y, x)}) = n - 1]

\* mask_out through a cursor of Berkeley DB: each record by itself.
Swept(table, gone) ==
    [table EXCEPT !.db = [at \in DOMAIN @ |-> SelectSeq(@[at], LAMBDA i : i \notin gone)]]

\* mask_out through a visitor, which goes through the records in an order: each is put
\* into its entry and what the entry then holds is the record.
Visited(table, order, slot, gone) ==
    LET entry(t, at) == Over(t.db[at], t.held[slot[at]])
        visit(t, at) ==
            Written(t, at, slot[at], SelectSeq(entry(t, at), LAMBDA i : i \notin gone))
    IN  FoldLeft(visit, table, order)

-----------------------------------------------------------------------------
(* The phrase table. *)

PhraseFiled(table, phrase, token) ==
    IF phrase \in DOMAIN table.db
    THEN Written(table, phrase, 0, TokenAdded(Entry(table, phrase, 0), token))
    ELSE [table EXCEPT !.db = AddPhrase(@, phrase, token)]

PhraseTaken(table, phrase, token) ==
    IF phrase \notin DOMAIN table.db \/ table.db[phrase] = <<>> THEN table
    ELSE LET entry == Entry(table, phrase, 0)
         IN  IF token \in Range(entry)
             THEN Written(table, phrase, 0, SelectSeq(entry, LAMBDA t : t # token))
             ELSE Holding(table, 0, entry)

PhraseSearched(table, phrase) ==
    IF phrase \notin DOMAIN table.db \/ table.db[phrase] = <<>> THEN table
    ELSE Holding(table, 0, Entry(table, phrase, 0))

\* The entry is emptied after each record.
PhrasesSuggested(table, prefix) ==
    IF prefix \in DOMAIN table.db /\ \E p \in DOMAIN table.db : IsStrictPrefix(prefix, p)
    THEN Holding(table, 0, <<>>) ELSE table

\* The visitor has an entry of its own.
PhrasesMasked(table, S) ==
    IF backend = "BerkeleyDB" THEN Swept(table, S)
    ELSE [table EXCEPT !.db =
             Visited([db |-> @, held |-> [slot \in {0} |-> <<>>]],
                     InOrder(DOMAIN @, Before), [at \in DOMAIN @ |-> 0], S).db]

-----------------------------------------------------------------------------
(* The pinyin table. *)

Items(table, index) == Entry(table, index, Len(index))

PinyinFiledAt(table, index, keys, token) ==
    IF index \in DOMAIN table.db
    THEN Written(table, index, Len(index), EntryAdded(Items(table, index), keys, token))
    ELSE [table EXCEPT !.db = AddIndexInternal(@, index, keys, token)]

PinyinFiled(table, keys, token) ==
    LET index == IncompleteIndex(keys)
        first == PinyinFiledAt(table, index, keys, token)
    IN  IF index \in DOMAIN table.db /\ Same(Items(table, index), keys, token) # {} THEN first
        ELSE PinyinFiledAt(first, ChewingIndex(keys), keys, token)

PinyinTakenAt(table, index, keys, token) ==
    IF index \notin DOMAIN table.db \/ table.db[index] = <<>> THEN table
    ELSE IF Same(Items(table, index), keys, token) = {}
         THEN Holding(table, Len(index), Items(table, index))
    ELSE Written(table, index, Len(index), EntryRemoved(Items(table, index), keys, token))

PinyinTaken(table, keys, token) ==
    LET index == IncompleteIndex(keys)
        first == PinyinTakenAt(table, index, keys, token)
    IN  IF first.db = table.db THEN first
        ELSE PinyinTakenAt(first, ChewingIndex(keys), keys, token)

PinyinSearched(table, keys) ==
    LET index == SearchIndex(keys)
    IN  IF index \notin DOMAIN table.db \/ table.db[index] = <<>> THEN table
        ELSE Holding(table, Len(index), Items(table, index))

PinyinsSuggested(table, prefix) ==
    LET index == SearchIndex(prefix)
        lengths == {Len(i) : i \in {j \in DOMAIN table.db : IsStrictPrefix(index, j)}}
    IN  IF index \notin DOMAIN table.db THEN table
        ELSE [table EXCEPT !.held = [slot \in DOMAIN @ |->
                                        IF slot \in lengths THEN <<>> ELSE @[slot]]]

IndexBefore(a, b) == Before(FlattenSeq(a), FlattenSeq(b))

PinyinsMasked(table, S) ==
    LET items == UNION {Range(table.db[at]) : at \in DOMAIN table.db}
        gone == {item \in items \cup UNION {Range(table.held[n]) : n \in DOMAIN table.held} :
                    item.token \in S}
    IN  IF backend = "BerkeleyDB" THEN Swept(table, gone)
        ELSE Visited(table, InOrder(DOMAIN table.db, IndexBefore),
                     [at \in DOMAIN table.db |-> Len(at)], gone)

-----------------------------------------------------------------------------
(* The calls, of both tables. *)

Init ==
    /\ backend \in Backend
    /\ phrases = [db |-> NoPhrases, held |-> [slot \in {0} |-> <<>>]]
    /\ pinyins = [db |-> NoTable,
                  held |-> [slot \in {Len(entry.keys) : entry \in Given} |-> <<>>]]
    /\ filed = {}
    /\ masked = FALSE

\* A bound: tables are not followed further once a visitor masked them.
Followed == masked => backend = "BerkeleyDB"

AddIndices(entry) ==
    /\ Followed
    /\ phrases' = PhraseFiled(phrases, entry.phrase, entry.token)
    /\ pinyins' = PinyinFiled(pinyins, entry.keys, entry.token)
    /\ filed' = filed \cup {entry}
    /\ UNCHANGED <<backend, masked>>

RemoveIndices(entry) ==
    /\ Followed /\ entry \in filed
    /\ phrases' = PhraseTaken(phrases, entry.phrase, entry.token)
    /\ pinyins' = PinyinTaken(pinyins, entry.keys, entry.token)
    /\ filed' = filed \ {entry}
    /\ UNCHANGED <<backend, masked>>

Search(tried) ==
    /\ Followed
    /\ \/ /\ phrases' = PhraseSearched(phrases, tried.phrase)
          /\ pinyins' = PinyinSearched(pinyins, tried.keys)
       \/ /\ phrases' = PhrasesSuggested(phrases, tried.phrase)
          /\ pinyins' = PinyinsSuggested(pinyins, tried.keys)
    /\ UNCHANGED <<backend, filed, masked>>

\* pinyin_mask_out, of a library
MaskOut(library) ==
    LET S == {entry.token : entry \in {e \in Given : e.token \div LibrarySize = library}}
    IN  /\ Followed
        /\ phrases' = PhrasesMasked(phrases, S)
        /\ pinyins' = PinyinsMasked(pinyins, S)
        /\ filed' = {entry \in filed : entry.token \notin S}
        /\ masked' = TRUE
        /\ UNCHANGED backend

Next ==
    \/ \E entry \in Given : AddIndices(entry) \/ RemoveIndices(entry)
    \/ \E tried \in Tried : Search(tried)
    \/ \E library \in {entry.token \div LibrarySize : entry \in Given} : MaskOut(library)

Spec == Init /\ [][Next]_vars

-----------------------------------------------------------------------------
(* Properties. *)

\* The tables find what was imported and neither removed nor masked.
TablesAgree ==
    LET indexed == {<<entry.keys, entry.token>> : entry \in filed}
    IN  \A tried \in Tried :
          /\ Range(SearchPhrase(phrases.db, tried.phrase).found) =
                {entry.token : entry \in {e \in filed : e.phrase = tried.phrase}}
          /\ SearchAgrees(pinyins.db, indexed, tried.keys)

\* Whatever an entry object was used for before, a record is read, changed and
\* written as with Berkeley DB (chewing_large_table2_kyotodb.cpp,
\* phrase_large_table3_tkrzwdb.cpp), and Berkeley DB masks nothing else.
EntriesReused == Followed => TablesAgree

\* facade_phrase_table3.h:200 "Mask out the matched phrase index.": the others stay as
\* they are, whatever database the library is built with.
OnlyMatchedMasked == TablesAgree
=============================================================================
