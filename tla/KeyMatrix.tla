------------------------------ MODULE KeyMatrix ------------------------------
(***************************************************************************)
(* The phonetic key matrix of an input session: filled from what a parser  *)
(* made of the typed input, extended by other ways to read it (resplit,    *)
(* divided and fuzzy syllables), searched for phrases by the sentence      *)
(* search and by the candidate list, and walked by the cursor              *)
(* (storage/phonetic_key_matrix.cpp, pinyin.cpp).                          *)
(*                                                                         *)
(* A column holds the keys that begin there, each with the column where it *)
(* ends (m_raw_begin is the column itself).  A zero key stands for "'" and *)
(* for the end.  The phrases a key sequence finds are those of the pinyin  *)
(* tables, the system's and the user's (facade_chewing_table2.h), which    *)
(* changes between inputs.                                                 *)
(***************************************************************************)
EXTENDS PinyinParsers, PinyinTable, FiniteSets

CONSTANTS
    zero_key,
    Spelled,      \* what can be typed: [key, length, distance] records
    Divided,      \* divided_table: key -> [first, length, second]
    Resplit,      \* resplit_table: <<key, key>> -> [first, length, second]
    AmbInitials,  \* pairs of keys that PINYIN_AMB_* makes of each other
    AmbFinals,
    NoSyllable,   \* keys without a table index, which only AmbInitials names
    Spans,        \* <<key, length>>: the columns a key may take, typed or split off
    SystemPhrases, \* <<keys, token>> pairs of the system's pinyin table
    UserPhrases,  \* those a user may import, remember and remove
    Masks,        \* what masks a caller gives: the sets of tokens they match
    Queries,      \* keys to search for
    MAX_PHRASE_LENGTH,
    MaxTyped,     \* bound: columns typed
    MaxTypedThen, \* bound: columns typed once the user's table was written to
    MaxIndices    \* bound: indices the user's table ever had

Options == {"USE_RESPLIT_TABLE", "USE_DIVIDED_TABLE", "PINYIN_AMB_ALL"}

\* What the tables owe to the keys they are used on: a new boundary lies inside
\* the letters that were typed, and no "'" is made of keys.
KeysSplit ==
    /\ \A s \in Spelled : <<s.key, s.length>> \in Spans
    /\ \A span \in Spans : span[2] \in Nat \ {0} /\ span[1] # zero_key
    /\ \A a \in Spans : a[1] \in DOMAIN Divided =>
          LET new == Divided[a[1]]
          IN  /\ new.length \in 1 .. a[2] - 1
              /\ {<<new.first, new.length>>, <<new.second, a[2] - new.length>>} \subseteq Spans
    /\ \A a, b \in Spans : <<a[1], b[1]>> \in DOMAIN Resplit =>
          LET new == Resplit[<<a[1], b[1]>>]
              length == a[2] + b[2]
          IN  /\ new.length \in 1 .. length - 1
              /\ {<<new.first, new.length>>, <<new.second, length - new.length>>} \subseteq Spans
    /\ zero_key \notin DOMAIN Divided
    /\ \A pair \in DOMAIN Resplit : zero_key \notin {pair[1], pair[2]}

ASSUME KeyMatrixAssumption ==
    /\ \A s \in Spelled : /\ s.length \in Nat \ {0} /\ s.distance \in Nat
                          /\ s.key \notin NoSyllable \cup {zero_key}
    /\ KeysSplit
    /\ IsFiniteSet(AmbInitials) /\ IsFiniteSet(AmbFinals)
    /\ \A p \in AmbInitials \cup AmbFinals : zero_key \notin {p[1], p[2]}
    /\ SystemPhrases \cup UserPhrases \subseteq PinyinKeys \X Nat
    /\ Queries \subseteq PinyinKeys
    /\ {MaxTyped, MaxTypedThen, MaxIndices, MAX_PHRASE_LENGTH} \subseteq Nat

\* The keys of the tables, and what phrases there are: a table aborts on a longer one
\* (add_index_internal), and load_text parses without *_INCOMPLETE.
ASSUME PhrasesAssumption ==
    /\ {zero_key} \cup {span[1] : span \in Spans} \cup {p[2] : p \in AmbInitials \cup AmbFinals}
          \subseteq Nat \X Nat \X Nat
    /\ \A p \in SystemPhrases \cup UserPhrases : Len(p[1]) <= MAX_PHRASE_LENGTH
    /\ \A p \in SystemPhrases : ~Incomplete(p[1])

VARIABLES
    input,   \* what is typed
    parse,   \* m_parsed_len and the keys the parser found
    matrix,  \* m_matrix: a function from columns to sequences of items
    offset,  \* the lookup offset the caller moves
    status,  \* "loading", "ok", or "aborted" by an assertion
    system_chewing_table,
    user_chewing_table,
    indexed  \* the pairs the user's table was given and not taken

session == <<input, parse, matrix, offset, status>>
tables == <<system_chewing_table, user_chewing_table, indexed>>
keyMatrixVars == <<session, tables>>

-----------------------------------------------------------------------------
(* The matrix. *)

NoMatrix == [i \in {} |-> <<>>]

size(M) == Cardinality(DOMAIN M)

At(key, end) == [key |-> key, end |-> end]

\* PhoneticTable::append does nothing outside the table.
Appended(M, i, item) ==
    IF i \in DOMAIN M THEN [M EXCEPT ![i] = Append(@, item)] ELSE M

IsZero(M, i) == Len(M[i]) = 1 /\ M[i][1].key = zero_key

\* A mutant of Filled: no zero key stands for a "'".
FilledToKeys(parsed) ==
    [i \in 0 .. parsed.parsed_len |->
        LET begins == {k \in DOMAIN parsed.keys : parsed.keys[k].begin = i}
        IN  IF begins # {} THEN <<At(parsed.keys[Min(begins)].key,
                                     parsed.keys[Min(begins)].end)>>
            ELSE IF i = parsed.parsed_len THEN <<At(zero_key, i + 1)>>
            ELSE <<>>]

\* fill_matrix: the keys, a zero key at the end, and one for each "'" after the
\* first key.
Filled(parsed) ==
    LET inside == UNION {parsed.keys[k].begin .. parsed.keys[k].end - 1 :
                            k \in DOMAIN parsed.keys}
    IN  IF parsed.keys = <<>> THEN NoMatrix
        ELSE [i \in 0 .. parsed.parsed_len |->
                LET begins == {k \in DOMAIN parsed.keys : parsed.keys[k].begin = i}
                IN  IF begins # {} THEN <<At(parsed.keys[Min(begins)].key,
                                             parsed.keys[Min(begins)].end)>>
                    ELSE IF i \in inside \/ i < parsed.keys[1].begin THEN <<>>
                    ELSE <<At(zero_key, i + 1)>>]

\* What is made of two keys: appended after those their columns have.
Split(M, i, new, end) ==
    LET mid == i + new.length
    IN  Appended(Appended(M, i, At(new.first, mid)), mid, At(new.second, end))

\* A key of a column with each key that its end column has by now.
ResplitKey(M, i, x) ==
    LET found == M[x.end]
        done[k \in 0 .. Len(found)] ==
            IF k = 0 THEN M
            ELSE IF <<x.key, found[k].key>> \in DOMAIN Resplit
            THEN Split(done[k - 1], i, Resplit[<<x.key, found[k].key>>], found[k].end)
            ELSE done[k - 1]
    IN  IF x.end \in DOMAIN M THEN done[Len(found)] ELSE M

\* One column of resplit_step.  The keys of the column are those it had at first.
ResplitAt(M, i) ==
    LET done[k \in 0 .. Len(M[i])] ==
            IF k = 0 THEN M ELSE ResplitKey(done[k - 1], i, M[i][k])
    IN  IF i = size(M) - 1 THEN M ELSE done[Len(M[i])]

\* One column of inner_split_step.
InnerSplitAt(M, i) ==
    LET done[k \in 0 .. Len(M[i])] ==
            IF k = 0 THEN M
            ELSE IF M[i][k].key \in DOMAIN Divided
            THEN Split(done[k - 1], i, Divided[M[i][k].key], M[i][k].end)
            ELSE done[k - 1]
    IN  done[Len(M[i])]

\* The keys one ambiguity makes of those of a column.
Others(column, amb) ==
    LET of(x) == {p[2] : p \in {q \in amb : q[1] = x.key}}
        others[k \in 0 .. Len(column)] ==
            IF k = 0 THEN <<>>
            ELSE others[k - 1] \o SetToSeq({At(key, column[k].end) : key \in of(column[k])})
    IN  others[Len(column)]

\* One column of fuzzy_syllable_step: initials, then finals of them all.
FuzzyAt(M, i) ==
    LET syllables == {p \in AmbInitials : p[2] \notin NoSyllable}
        initials == M[i] \o Others(M[i], syllables)
    IN  [M EXCEPT ![i] = initials \o Others(initials, AmbFinals)]

\* The columns one after the other.
Resplitted(M) ==
    LET done[n \in 0 .. size(M)] == IF n = 0 THEN M ELSE ResplitAt(done[n - 1], n - 1)
    IN  done[size(M)]
InnerSplit(M) ==
    LET done[n \in 0 .. size(M)] == IF n = 0 THEN M ELSE InnerSplitAt(done[n - 1], n - 1)
    IN  done[size(M)]
Fuzzy(M) ==
    LET done[n \in 0 .. size(M)] == IF n = 0 THEN M ELSE FuzzyAt(done[n - 1], n - 1)
    IN  done[size(M)]

FuzzyWhen(M, options) == IF "PINYIN_AMB_ALL" \in options THEN Fuzzy(M) ELSE M

-----------------------------------------------------------------------------
(* Searching it. *)

\* search_matrix_recur from every column: the key sequences that lead to `end'.
Paths(M, end) ==
    LET paths[s \in 0 .. size(M)] ==
            IF s > end THEN {}
            ELSE IF s = end THEN {<<>>}
            ELSE IF IsZero(M, s) THEN paths[s + 1]
            ELSE UNION {{<<item.key>> \o path : path \in paths[item.end]} :
                           item \in ToSet(M[s])}
    IN  paths

\* The columns the recursion comes to.
Visited(M, start, end) ==
    LET visited[s \in start .. size(M)] ==
            s = start \/ \E b \in start .. Min({s, end}) - 1 :
                            visited[b] /\ \E item \in ToSet(M[b]) : item.end = s
    IN  {s \in start .. size(M) : visited[s]}

\* assert(size > 0), and assert(1 == size) at a zero key.
RecurAborts(M, start, end) == \E s \in Visited(M, start, end) \cap (0 .. end - 1) :
    \/ M[s] = <<>>
    \/ ~IsZero(M, s) /\ \E item \in ToSet(M[s]) : item.key = zero_key

\* FacadeChewingTable2::search
SearchTables(keys) == TokensOf(SearchTable(system_chewing_table, keys))
                      \cup TokensOf(SearchTable(user_chewing_table, keys))

TablesContinue(keys) == \/ Continues(system_chewing_table, keys)
                        \/ Continues(user_chewing_table, keys)

\* A mutant of Continued: a key that reaches beyond is not counted.
ContinuedByTable(M, start, end) ==
    \E path \in Paths(M, end)[start] : path = <<>> \/ TablesContinue(path)

\* SEARCH_CONTINUED from the phrase table, or because some key reaches beyond.
Continued(M, start, end) ==
    \/ \E path \in Paths(M, end)[start] :
          path = <<>> \/ (Len(path) <= MAX_PHRASE_LENGTH /\ TablesContinue(path))
    \/ \E s \in Visited(M, start, end) : s > end

\* search_matrix
Search(M, start, end) ==
    IF M[start] = <<>> THEN [found |-> {}, continued |-> FALSE]
    ELSE IF M[end] = <<>> THEN [found |-> {}, continued |-> TRUE]
    ELSE [found     |-> UNION {SearchTables(path) :
                                 path \in {p \in Paths(M, end)[start] :
                                              Len(p) \in 1 .. MAX_PHRASE_LENGTH}},
          continued |-> Continued(M, start, end)]

\* The phrases the sentence search meets from a column (get_nbest_match).
Words(M, start) ==
    LET words[end \in start + 1 .. size(M)] ==
            IF end = size(M) THEN {}
            ELSE LET result == Search(M, start, end)
                 IN  {<<end, token>> : token \in result.found}
                     \cup (IF result.continued THEN words[end + 1] ELSE {})
    IN  words[start + 1]

\* The next end the candidate list looks at: behind the zero keys.
SkipZeros(M, end) == Min({e \in end .. size(M) : e = size(M) \/ ~IsZero(M, e - 1)})

\* The phrases of the candidate list from a column (pinyin_guess_candidates).
Offered(M, start) ==
    LET offered[end \in start + 1 .. size(M)] ==
            IF end = size(M) THEN {}
            ELSE LET result == Search(M, start, end)
                 IN  IF result.found = {} THEN offered[end + 1]
                     ELSE {<<end, token>> : token \in result.found}
                          \cup (IF result.continued
                                THEN offered[SkipZeros(M, end + 1)] ELSE {})
    IN  offered[start + 1]

\* zhuyin_guess_candidates_after_cursor, which looks behind zero keys too.
OfferedAfter(M, start) ==
    LET offered[end \in start + 1 .. size(M)] ==
            IF end = size(M) THEN {}
            ELSE LET result == Search(M, start, end)
                 IN  {<<end, token>> : token \in result.found}
                     \cup (IF result.found = {} \/ result.continued
                           THEN offered[end + 1] ELSE {})
    IN  offered[start + 1]

\* zhuyin_guess_candidates_before_cursor looks from every column.
OfferedBefore(M, end) ==
    UNION {{<<start, token>> : token \in Search(M, start, end).found} :
              start \in 0 .. end - 1}

\* search_suggestion_with_matrix, for phrases that are longer than the input.
Suggested(M, prefix_len) ==
    LET last == size(M) - 1
        begun(keys) == SearchSuggestion(system_chewing_table, keys)
                       \cup SearchSuggestion(user_chewing_table, keys)
    IN  IF prefix_len >= MAX_PHRASE_LENGTH \/ M[0] = <<>> THEN {}
        ELSE UNION {begun(path) : path \in
                {p \in Paths(M, last)[0] :
                    Len(p) \in 1 .. Min({MAX_PHRASE_LENGTH, prefix_len * 2})}}

-----------------------------------------------------------------------------
(* The cursor.  Each function returns where it comes to. *)

\* _check_offset, where the offset must not follow a zero key; get_column_size
\* asserts that the column exists.
CheckOffset(M, o) == o > 0 => o - 1 \in DOMAIN M /\ ~IsZero(M, o - 1)

\* _compute_zero_start: back over the zero keys before an offset.
ZeroStart(M, o) ==
    Min({o} \cup {z \in 1 .. o - 1 : \A i \in z .. o - 1 : IsZero(M, i)})

\* A mutant of KeyAtOrBefore.
CursorItself(M, cursor) == cursor

\* The column pinyin_get_pinyin_offset comes to.
KeyAtOrBefore(M, cursor) == Max({0} \cup {i \in 1 .. cursor : M[i] # <<>>})

\* The column of pinyin_get_left_pinyin_offset: the nearest key that ends here.
KeyBefore(M, o) ==
    Max({0} \cup {i \in 1 .. o - 1 : \E item \in ToSet(M[i]) : item.end = o})

\* The column of pinyin_get_right_pinyin_offset: behind the zero keys.
KeyFrom(M, o) ==
    Max({o} \cup {i \in o + 1 .. size(M) - 1 : \A z \in o .. i - 1 : IsZero(M, z)})

\* Whether a character may be pronounced as a key (get_pronunciation_possibility).
Says(character, key) ==
    \E p \in SystemPhrases : p[2] = character /\ Matches(<<key>>, p[1])

NotTyped == -1

\* A mutant of CharacterOffset: the first key that fits a character is the one.
CharacterOffsetOfFirst(M, phrase, o) ==
    LET walk[s \in 0 .. size(M), n \in 0 .. Len(phrase)] ==
            IF s > o THEN n
            ELSE IF IsZero(M, s) THEN walk[s + 1, n]
            ELSE LET said == {k \in DOMAIN M[s] : /\ n < Len(phrase)
                                                 /\ Says(phrase[n + 1], M[s][k].key)}
                 IN  IF said = {} THEN NotTyped
                     ELSE IF M[s][Min(said)].end > o THEN n
                     ELSE walk[M[s][Min(said)].end, n + 1]
    IN  walk[0, 0]

\* pinyin_get_character_offset: how many characters of a phrase are typed before
\* an offset, by the first of the readings that leads there (_get_char_offset_recur).
CharacterOffset(M, phrase, o) ==
    LET walk[s \in 0 .. size(M), n \in 0 .. Len(phrase)] ==
            IF s > o THEN n
            ELSE IF IsZero(M, s) THEN walk[s + 1, n]
            ELSE LET leads(item) == item.end > o \/ walk[item.end, n + 1] # NotTyped
                     said == {k \in DOMAIN M[s] : /\ n < Len(phrase)
                                                 /\ Says(phrase[n + 1], M[s][k].key)
                                                 /\ leads(M[s][k])}
                 IN  IF said = {} THEN NotTyped
                     ELSE IF M[s][Min(said)].end > o THEN n
                     ELSE walk[M[s][Min(said)].end, n + 1]
    IN  walk[0, 0]

-----------------------------------------------------------------------------
(* The calls. *)

NoInput == [len |-> 0, seps |-> {}, spell |-> [span \in {} |-> {}]]

\* One more column typed, with what may now be spelled from earlier columns to
\* the new end: at most one key for each span.
Grown ==
    LET n == input.len
        fits(m) == {s \in Spelled : s.length = n + 1 - m}
        open == {m \in 0 .. n : /\ \A c \in m .. n - 1 : c \notin input.seps
                                /\ fits(m) # {}}
        spelled == {f \in [open -> Spelled \cup {NoInput}] :
                       \A m \in open : f[m] \in fits(m) \cup {NoInput}}
        extended(f) ==
            [span \in DOMAIN input.spell
                      \cup {<<m, n + 1>> : m \in {o \in open : f[o] # NoInput}} |->
                IF span \in DOMAIN input.spell THEN input.spell[span]
                ELSE [key |-> f[span[1]].key, distance |-> f[span[1]].distance]]
    IN  {[input EXCEPT !.len = n + 1, !.spell = extended(f)] : f \in spelled}
        \cup {[input EXCEPT !.len = n + 1, !.seps = @ \cup {n}]}

KeyMatrixInit ==
    /\ input = NoInput
    /\ parse = [parsed_len |-> 0, keys |-> <<>>]
    /\ matrix = NoMatrix
    /\ offset = 0
    /\ status = "loading"
    /\ system_chewing_table = NoTable
    /\ user_chewing_table = NoTable
    /\ indexed = {}

\* One line of load_text, which builds the system's table.
LoadText(keys, token) ==
    /\ status = "loading"
    /\ system_chewing_table' = AddIndex(system_chewing_table, keys, token)
    /\ status' = IF \A p \in SystemPhrases :
                        Has(system_chewing_table', IncompleteIndex(p[1]), p[1], p[2])
                 THEN "ok" ELSE status
    /\ UNCHANGED <<input, parse, matrix, offset, user_chewing_table, indexed>>

\* The calls of FacadeChewingTable2 that imports, removals and masks make, before
\* an input: the matrix does not depend on them.
AddPhrase(keys, token) ==
    /\ status = "ok" /\ input = NoInput
    /\ user_chewing_table' = AddIndex(user_chewing_table, keys, token)
    /\ Cardinality(DOMAIN user_chewing_table') <= MaxIndices
    /\ indexed' = indexed \cup {<<keys, token>>}
    /\ UNCHANGED <<session, system_chewing_table>>

RemovePhrase(keys, token) ==
    /\ status = "ok" /\ input = NoInput
    /\ user_chewing_table' = RemoveIndex(user_chewing_table, keys, token)
    /\ indexed' = indexed \ {<<keys, token>>}
    /\ UNCHANGED <<session, system_chewing_table>>

MaskOut(S) ==
    /\ status = "ok" /\ input = NoInput
    /\ user_chewing_table' = MaskedOut(user_chewing_table, S)
    /\ indexed' = {p \in indexed : p[2] \notin S}
    /\ UNCHANGED <<session, system_chewing_table>>

\* The engine's buffer grows until it is parsed; no parse depends on another.
Type ==
    /\ status = "ok" /\ matrix = NoMatrix /\ parse.parsed_len = 0
    /\ input.len < IF user_chewing_table = NoTable THEN MaxTyped ELSE MaxTypedThen
    /\ input' \in Grown
    /\ UNCHANGED <<parse, matrix, offset, status, tables>>

\* The caller asks for an offset again after each parse.  Parsing again would
\* replace all that is here; a bound has each input parsed once.
Parsed(parsed, M) ==
    /\ status = "ok" /\ matrix = NoMatrix
    /\ parse' = parsed
    /\ matrix' = M
    /\ UNCHANGED <<input, offset, status, tables>>

\* pinyin_parse_more_full_pinyins
ParseMoreFullPinyins(options) ==
    LET parsed == FullParse(input)
        M1 == Filled(parsed)
        M2 == IF "USE_RESPLIT_TABLE" \in options THEN Resplitted(M1) ELSE M1
        M3 == IF "USE_DIVIDED_TABLE" \in options THEN InnerSplit(M2) ELSE M2
    IN  Parsed(parsed, FuzzyWhen(M3, options))

\* pinyin_parse_more_double_pinyins
ParseMoreDoublePinyins(options) ==
    LET parsed == DoubleParse(input) IN Parsed(parsed, FuzzyWhen(Filled(parsed), options))

\* pinyin_parse_more_chewings
ParseMoreChewings(options) ==
    LET parsed == ChewingParse(input) IN Parsed(parsed, FuzzyWhen(Filled(parsed), options))

\* pinyin_reset
Reset ==
    /\ status = "ok"
    /\ input' = NoInput
    /\ parse' = [parsed_len |-> 0, keys |-> <<>>]
    /\ matrix' = NoMatrix /\ offset' = 0
    /\ UNCHANGED <<status, tables>>

MoveTo(o, fits) ==
    /\ status = "ok"
    /\ IF fits THEN offset' = o /\ UNCHANGED status
               ELSE status' = "aborted" /\ UNCHANGED offset
    /\ UNCHANGED <<input, parse, matrix, tables>>

\* pinyin_get_pinyin_offset.  Columns are looked at without asking whether there
\* is a matrix.
GetPinyinOffset(cursor) ==
    LET from == Min({cursor, parse.parsed_len})
        to == ZeroStart(matrix, KeyAtOrBefore(matrix, from))
    IN  IF from = 0 \/ from \in DOMAIN matrix
        THEN MoveTo(to, CheckOffset(matrix, to)) ELSE MoveTo(0, FALSE)

\* pinyin_get_left_pinyin_offset
GetLeftPinyinOffset ==
    LET to == ZeroStart(matrix, KeyBefore(matrix, offset))
    IN  MoveTo(to, CheckOffset(matrix, to))

\* pinyin_get_right_pinyin_offset; it returns FALSE before a column without keys.
GetRightPinyinOffset ==
    IF matrix = NoMatrix THEN MoveTo(0, FALSE)
    ELSE LET from == KeyFrom(matrix, offset)
         IN  /\ matrix[from] # <<>>
             /\ LET to == matrix[from][1].end
                IN  MoveTo(to, CheckOffset(matrix, to))

KeyMatrixNext ==
    \/ \E p \in SystemPhrases : LoadText(p[1], p[2])
    \/ \E p \in UserPhrases : AddPhrase(p[1], p[2]) \/ RemovePhrase(p[1], p[2])
    \/ \E S \in Masks : MaskOut(S)
    \/ Type
    \/ \E options \in SUBSET Options : ParseMoreFullPinyins(options)
    \/ \E options \in SUBSET {"PINYIN_AMB_ALL"} :
          ParseMoreDoublePinyins(options) \/ ParseMoreChewings(options)
    \/ \E cursor \in 0 .. MaxTyped : GetPinyinOffset(cursor)
    \/ GetLeftPinyinOffset \/ GetRightPinyinOffset
    \/ Reset

KeyMatrixSpec == KeyMatrixInit /\ [][KeyMatrixNext]_keyMatrixVars
-----------------------------------------------------------------------------
(* What must hold. *)

\* FullPinyinParser2::parse reads as much of the input as can be read, with the
\* fewest keys and among those the fewest corrections, whatever is spelled where.
ParseIsBest == IsBest(input, FullParse(input))

\* The two assertions of search_matrix_recur never fail: wherever a key ends some
\* key begins, and a zero key is alone in its column, whatever was resplit,
\* divided or added.
SearchNeverAborts ==
    \A start, end \in DOMAIN matrix :
        matrix[start] # <<>> /\ matrix[end] # <<>> => ~RecurAborts(matrix, start, end)

\* Stopping at the first result without SEARCH_CONTINUED loses no phrase: the
\* sentence search and the zhuyin lists meet every phrase the matrix spells from a
\* column or to it; the candidate list offers it as well, and never twice for the sake
\* of the "'"s behind it.  Longer phrases that the whole input begins are suggested.
\* (The matrix changes at offset 0 only.)
NoPhraseMissed == offset = 0 =>
    LET spelled(path) == Pronounced(SystemPhrases \cup Complete(indexed), path)
        same(w, v) == /\ w[2] = v[2] /\ w[1] <= v[1]
                      /\ \A z \in w[1] .. v[1] - 1 : IsZero(matrix, z)
    IN  /\ \A start \in DOMAIN matrix : matrix[start] # <<>> =>
              LET words == Words(matrix, start)
                  offered == Offered(matrix, start)
                  after == OfferedAfter(matrix, start)
              IN  /\ \A end \in DOMAIN matrix : end > start /\ matrix[end] # <<>> =>
                        \A path \in Paths(matrix, end)[start] :
                            \A token \in spelled(path) :
                                /\ <<end, token>> \in words
                                /\ <<end, token>> \in after
                                /\ <<start, token>> \in OfferedBefore(matrix, end)
                                /\ CheckOffset(matrix, start) =>
                                      \E w \in offered : same(w, <<end, token>>)
                  /\ CheckOffset(matrix, start) =>
                        \A w, v \in offered : same(w, v) => w = v
        /\ matrix # NoMatrix /\ matrix[0] # <<>> =>
              LET found == Len(parse.keys)
              IN  \A path \in Paths(matrix, size(matrix) - 1)[0] :
                      Len(path) \in 1 .. 2 * found /\ found < MAX_PHRASE_LENGTH =>
                          Begun(SystemPhrases \cup Complete(indexed), path)
                              \subseteq Suggested(matrix, found)

\* However phrases are imported, removed and masked, the user's pinyin table finds
\* for any keys what they pronounce and what they begin (ChewingLargeTable2::search,
\* search_suggestion), and lets be removed what it was given
\* ("assert(ERROR_OK == retval)" of pinyin_remove_user_candidate).  The tables do not
\* change while there is an input.
TableAgrees == input = NoInput =>
    /\ \A keys \in Queries : SearchAgrees(user_chewing_table, indexed, keys)
    /\ RemovalAgrees(user_chewing_table, indexed)

\* Of a phrase that spells the whole input, in whatever reading, the characters
\* before an offset are counted (pinyin_get_character_offset): some reading of so many
\* of them ends at the offset, or the next key of it reaches beyond.
CharactersCounted == offset = 0 /\ matrix # NoMatrix =>
    LET last == size(matrix) - 1
        characters(path) == {f \in [DOMAIN path -> {p[2] : p \in SystemPhrases}] :
                                \A k \in DOMAIN path : Says(f[k], path[k])}
        reads(phrase, path) == \A k \in DOMAIN path : Says(phrase[k], path[k])
        before(o, phrase, n) ==
            \E end \in 0 .. o : \E path \in Paths(matrix, end)[0] :
                /\ Len(path) = n /\ reads(phrase, path)
                /\ \/ \A z \in end .. o : IsZero(matrix, z)
                   \/ n < Len(phrase) /\ \E item \in ToSet(matrix[end]) :
                         item.end > o /\ Says(phrase[n + 1], item.key)
    IN  \A path \in Paths(matrix, last)[0] : \A phrase \in characters(path) :
            \A o \in DOMAIN matrix : CheckOffset(matrix, o) /\ matrix[o] # <<>> =>
                LET n == CharacterOffset(matrix, phrase, o)
                IN  n # NotTyped /\ before(o, phrase, n)

\* Wherever the cursor calls leave the offset, candidates can be looked up from
\* there: a key begins there, or it is the beginning (pinyin_get_pinyin_offset,
\* pinyin_get_left_pinyin_offset, pinyin_get_right_pinyin_offset).
CursorOnKey ==
    status = "ok" => offset = 0 \/ (matrix[offset] # <<>> /\ CheckOffset(matrix, offset))
=============================================================================
