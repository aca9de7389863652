------------------------------ MODULE PhraseTable ------------------------------
(***************************************************************************)
(* The phrase table: which tokens a phrase has (PhraseLargeTable3,         *)
(* storage/phrase_large_table3).  It is a database: a function from        *)
(* phrases, which are sequences of characters, to entries, which are       *)
(* sorted sequences of tokens.  An empty entry says that longer phrases    *)
(* continue its own.                                                       *)
(***************************************************************************)
EXTENDS Integers, Sequences, SequencesExt, FiniteSetsExt

NoPhrases == [phrase \in {} |-> <<>>]

\* PhraseTableEntry::add_index
TokenAdded(entry, token) ==
    LET greater == {k \in DOMAIN entry : entry[k] > token}
    IN  IF token \in Range(entry) THEN entry
        ELSE InsertAt(entry, Min(greater \cup {Len(entry) + 1}), token)

\* A mutant of AddPhrase: the shorter phrases get no entry.
AddPhraseOnly(table, phrase, token) ==
    [p \in DOMAIN table \cup {phrase} |->
        IF p # phrase THEN table[p]
        ELSE TokenAdded(IF p \in DOMAIN table THEN table[p] ELSE <<>>, token)]

\* add_index.  With a new phrase come the entries of its beginnings, from the longest
\* on until one is found.
AddPhrase(table, phrase, token) ==
    LET beginning(len) == SubSeq(phrase, 1, len)
        missing == {beginning(len) : len \in {l \in 1 .. Len(phrase) - 1 :
                       \A m \in l .. Len(phrase) - 1 : beginning(m) \notin DOMAIN table}}
    IN  IF phrase \in DOMAIN table THEN [table EXCEPT ![phrase] = TokenAdded(@, token)]
        ELSE [p \in DOMAIN table \cup missing \cup {phrase} |->
                 IF p = phrase THEN <<token>> ELSE IF p \in missing THEN <<>> ELSE table[p]]

\* remove_index.  Beginnings stay.
RemovePhrase(table, phrase, token) ==
    IF phrase \in DOMAIN table
    THEN [table EXCEPT ![phrase] = SelectSeq(@, LAMBDA t : t # token)] ELSE table

\* mask_out; S stands for the tokens that match the mask.
MaskPhrases(table, S) ==
    [phrase \in DOMAIN table |-> SelectSeq(table[phrase], LAMBDA t : t \notin S)]

\* search: SEARCH_CONTINUED is that the phrase has an entry.
SearchPhrase(table, phrase) ==
    IF phrase \in DOMAIN table THEN [found |-> table[phrase], continued |-> TRUE]
    ELSE [found |-> <<>>, continued |-> FALSE]

\* search_suggestion: the phrases behind the entry of the prefix that begin with it.
SuggestPhrases(table, prefix) ==
    IF prefix \notin DOMAIN table THEN {}
    ELSE UNION {Range(table[phrase]) :
                   phrase \in {p \in DOMAIN table : IsStrictPrefix(prefix, p)}}
=============================================================================
