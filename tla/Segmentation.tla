----------------------------- MODULE Segmentation -----------------------------
(***************************************************************************)
(* Text cut into phrases: by the n-gram lookup of the library, for         *)
(* pinyin_phrase_segment and ngseg (lookup/phrase_lookup.cpp), by spseg's  *)
(* shortest path, and joined again by mergeseq (utils/segment).  The tools *)
(* prepare the text the language model is trained with.                    *)
(*                                                                         *)
(* A text is a sequence of characters.  Scores are logarithms of           *)
(* probabilities, added without rounding.  A line of a segmented file is a *)
(* token and its phrase.                                                   *)
(***************************************************************************)
EXTENDS PhraseTable

CONSTANTS
    SystemPhrases, \* <<phrase, token>> pairs of the system's phrase table
    UserPhrases,   \* those a user may import and remove
    Masks,         \* what masks a caller gives: the sets of tokens they match
    Texts,         \* what is segmented
    Unigram,       \* the scores of the tokens that have a frequency
    Bigram,        \* the scores of the pairs that were learned
    null_token, sentence_start,
    MAX_PHRASE_LENGTH

\* A pair scores its second phrase's unigram and more; a phrase fits the buffers of
\* MAX_PHRASE_LENGTH characters it is read into.
SegmentationAssumption ==
    /\ \A pair \in DOMAIN Bigram : pair[2] \in DOMAIN Unigram => Unigram[pair[2]] <= Bigram[pair]
    /\ \A p \in SystemPhrases \cup UserPhrases : /\ Len(p[1]) \in 1 .. MAX_PHRASE_LENGTH
                                                 /\ p[2] \notin {null_token, sentence_start}

VARIABLES
    user_table, \* m_user_phrase_table
    held,       \* the pairs it was given and not taken
    segmented,  \* the last text, what it was looked up for, and the tokens found
    lines,      \* what mergeseq has still to read of a segmented file
    fed,        \* and what it has read
    queue       \* its m_tokeninfos and m_unichars, and what it has written

vars == <<user_table, held, segmented, lines, fed, queue>>

\* PhraseLargeTable3::load_text
system_table == FoldSet(LAMBDA p, table : AddPhrase(table, p[1], p[2]), NoPhrases, SystemPhrases)

\* FacadePhraseTable3::search.  The tools open the system's table only.
Search(user, phrase) ==
    LET s == SearchPhrase(system_table, phrase)
        u == SearchPhrase(user, phrase)
    IN  [found |-> s.found \o u.found, continued |-> s.continued \/ u.continued]

Between(text, from, to) == SubSeq(text, from + 1, to)

-----------------------------------------------------------------------------
(* PhraseLookup. *)

PrefixValue == [prev |-> null_token, token |-> sentence_start, poss |-> 0, last_step |-> -1]

\* A mutant of SaveNextStep: the first value of a token stays.
SaveFirst(step, value) ==
    IF \E k \in DOMAIN step : step[k].token = value.token THEN step ELSE Append(step, value)

\* save_next_step: of each token the best value.
SaveNextStep(step, value) ==
    LET same == {k \in DOMAIN step : step[k].token = value.token}
    IN  IF same = {} THEN Append(step, value)
        ELSE [k \in DOMAIN step |->
                 IF k \in same /\ step[k].poss < value.poss THEN value ELSE step[k]]

\* The first of the greatest values.
MaxValue(step) ==
    step[Min({k \in DOMAIN step : \A j \in DOMAIN step : step[j].poss <= step[k].poss})]

NextValue(value, start, token, score) ==
    [prev |-> value.token, token |-> token, poss |-> value.poss + score, last_step |-> start]

\* What search_bigram2 and then search_unigram2 save for the tokens of a phrase.
NextValues(step, start, tokens) ==
    LET pairs(value) == SelectSeq(tokens, LAMBDA t : <<value.token, t>> \in DOMAIN Bigram)
        bigrams(value) == [k \in DOMAIN pairs(value) |->
                              NextValue(value, start, pairs(value)[k],
                                        Bigram[<<value.token, pairs(value)[k]>>])]
        frequent == SelectSeq(tokens, LAMBDA t : t \in DOMAIN Unigram)
    IN  IF step = <<>> THEN <<>>
        ELSE FlattenSeq([k \in DOMAIN step |-> bigrams(step[k])])
             \o [k \in DOMAIN frequent |->
                    NextValue(MaxValue(step), start, frequent[k], Unigram[frequent[k]])]

\* get_best_match: m_steps_content after each position.  Longer phrases are searched
\* for as long as the table continues.
Steps(user, text) ==
    LET n == Len(text)
        reached(i) == {m \in i + 1 .. n :
                           \A e \in i + 1 .. m - 1 : Search(user, Between(text, i, e)).continued}
        steps[i \in 0 .. n] ==
            IF i = 0 THEN [m \in 0 .. n |-> IF m = 0 THEN <<PrefixValue>> ELSE <<>>]
            ELSE [m \in 0 .. n |->
                    IF m \notin reached(i - 1) THEN steps[i - 1][m]
                    ELSE FoldLeft(SaveNextStep, steps[i - 1][m],
                                  NextValues(steps[i - 1][i - 1], i - 1,
                                             Search(user, Between(text, i - 1, m)).found))]
    IN  steps[n]

\* final_step: back from the best value of the last position.
BestMatch(user, text) ==
    LET steps == Steps(user, text)
        final == steps[Len(text)]
        value(i, t) == CHOOSE v \in Range(steps[i]) : v.token = t
        back[i \in 0 .. Len(text)] ==
            [t \in {v.token : v \in Range(steps[i])} |->
                LET v == value(i, t)
                IN  IF v.last_step = -1 THEN <<>> ELSE Append(back[v.last_step][v.prev], t)]
    IN  IF final = <<>> THEN <<>> ELSE back[Len(text)][MaxValue(final).token]

-----------------------------------------------------------------------------
(* spseg: the shortest path, of words. *)

\* segment: the steps with the fewest words.  The count of words goes on from each
\* phrase that begins at a position to the next, longer one.
Shortest(text) ==
    LET n == Len(text)
        at(i, k) == Search(NoPhrases, Between(text, i, k))
        taken(i) == {k \in i + 1 .. n : k = i + 1 \/ at(i, k).found # <<>>}
        looked(i) == {k \in taken(i) :
                         \A e \in taken(i) : e < k => at(i, e).continued}
        nword(i, steps, k) == steps[i].nword + Cardinality({e \in looked(i) : e <= k})
        steps[i \in 0 .. n] ==
            IF i = 0 THEN [k \in 0 .. n |-> [nword |-> IF k = 0 THEN 0 ELSE n * n + 1, back |-> 0]]
            ELSE [k \in 0 .. n |->
                    IF k \in looked(i - 1) /\ nword(i - 1, steps[i - 1], k) < steps[i - 1][k].nword
                    THEN [nword |-> nword(i - 1, steps[i - 1], k), back |-> i - 1]
                    ELSE steps[i - 1][k]]
        token(i, k) == IF at(i, k).found = <<>> THEN null_token ELSE Head(at(i, k).found)
        words[k \in 0 .. n] ==
            IF k = 0 THEN <<>>
            ELSE LET i == steps[n][k].back
                 IN  Append(words[i], [token |-> token(i, k), phrase |-> Between(text, i, k)])
    IN  words[n]

-----------------------------------------------------------------------------
(* The files of the tools. *)

NullLine == [token |-> null_token, phrase |-> <<>>]

\* The stretches of a line of text whose characters are phrases, and the others.
Runs(text) ==
    LET known(c) == Search(NoPhrases, <<c>>).found # <<>>
        next(runs, c) ==
            IF runs # <<>> /\ Last(runs).known = known(c)
            THEN [runs EXCEPT ![Len(runs)].text = Append(@, c)]
            ELSE Append(runs, [known |-> known(c), text |-> <<c>>])
    IN  FoldLeft(next, <<>>, text)

\* The phrase of a token of the system's table.
PhraseOf(token) == (CHOOSE p \in SystemPhrases : p[2] = token)[1]

\* deal_with_segmentable and deal_with_unknown.  What ngseg cannot cut it leaves out.
LinesOf(tool, run) ==
    CASE ~run.known -> <<[token |-> null_token, phrase |-> run.text]>>
      [] run.known /\ tool = "spseg" -> Shortest(run.text)
      [] run.known /\ tool = "ngseg" ->
            LET tokens == BestMatch(NoPhrases, run.text)
            IN  [k \in DOMAIN tokens |-> [token |-> tokens[k], phrase |-> PhraseOf(tokens[k])]]

\* main of spseg and ngseg for one line of text, with --generate-extra-enter or not.
FileOf(tool, text, gen_extra_enter) ==
    (IF text = <<>> THEN <<NullLine>>
     ELSE FlattenSeq([k \in DOMAIN Runs(text) |-> LinesOf(tool, Runs(text)[k])])
          \o (IF gen_extra_enter THEN <<NullLine>> ELSE <<>>))
    \o <<NullLine>>

-----------------------------------------------------------------------------
(* mergeseq. *)

NoQueue == [tokeninfos |-> <<>>, unichars |-> <<>>, written |-> <<>>]

\* calculate_sequence_length of the first infos.
LengthOf(infos, k) == FoldLeft(LAMBDA sum, info : sum + info.len, 0, SubSeq(infos, 1, k))

\* merge_sequence: the longest sequence from the first token on that is a phrase.
MergeSequence(q) ==
    LET phrase(k) == SubSeq(q.unichars, 1, LengthOf(q.tokeninfos, k))
        merged == {k \in DOMAIN q.tokeninfos : Search(NoPhrases, phrase(k)).found # <<>>}
        k == Max(merged)
    IN  IF merged = {} THEN q
        ELSE [q EXCEPT !.tokeninfos =
                 <<[token |-> Head(Search(NoPhrases, phrase(k)).found), len |-> Len(phrase(k))]>>
                 \o SubSeq(@, k + 1, Len(@))]

\* pop_first_token
PopFirstToken(q) ==
    LET info == Head(q.tokeninfos)
        rest == Len(q.unichars)
    IN  [tokeninfos |-> Tail(q.tokeninfos),
         unichars |-> SubSeq(q.unichars, info.len + 1, rest),
         written |-> Append(q.written,
                        [token |-> info.token, phrase |-> SubSeq(q.unichars, 1, info.len)])]

\* Merging and popping while the queue is as long as that.
PoppedWhile(q, len) ==
    LET pop(p, info) == IF LengthOf(p.tokeninfos, Len(p.tokeninfos)) >= len
                        THEN PopFirstToken(MergeSequence(p)) ELSE p
    IN  FoldLeft(pop, q, q.tokeninfos)

Fed(q, line) ==
    [q EXCEPT !.tokeninfos = Append(@, [token |-> line.token, len |-> Len(line.phrase)]),
              !.unichars = @ \o line.phrase]

\* A mutant of FeedLine: a token is popped as soon as it comes.
FeedLineAtOnce(q, line) ==
    IF line.token # null_token THEN PoppedWhile(Fed(q, line), 1)
    ELSE [q EXCEPT !.written = Append(@, line)]

\* feed_line
FeedLine(q, line) ==
    IF line.token # null_token THEN PoppedWhile(Fed(q, line), MAX_PHRASE_LENGTH)
    ELSE LET flushed == PoppedWhile(q, 1)
         IN  [flushed EXCEPT !.written = Append(@, line)]

-----------------------------------------------------------------------------
(* The calls. *)

NotSegmented == [by |-> "nobody", text |-> <<>>, words |-> <<>>]

Init ==
    /\ user_table = NoPhrases
    /\ held = {}
    /\ segmented = NotSegmented
    /\ lines = <<>> /\ fed = <<>>
    /\ queue = NoQueue

\* The calls of FacadePhraseTable3 that imports, removals and masks make.
AddIndex(phrase, token) ==
    /\ segmented = NotSegmented
    /\ user_table' = AddPhrase(user_table, phrase, token)
    /\ held' = held \cup {<<phrase, token>>}
    /\ UNCHANGED <<segmented, lines, fed, queue>>

RemoveIndex(phrase, token) ==
    /\ segmented = NotSegmented
    /\ user_table' = RemovePhrase(user_table, phrase, token)
    /\ held' = held \ {<<phrase, token>>}
    /\ UNCHANGED <<segmented, lines, fed, queue>>

MaskOut(S) ==
    /\ segmented = NotSegmented
    /\ user_table' = MaskPhrases(user_table, S)
    /\ held' = {p \in held : p[2] \notin S}
    /\ UNCHANGED <<segmented, lines, fed, queue>>

\* FacadePhraseTable3::search_suggestion, for predictions and before the candidates.
SearchSuggestion(prefix) ==
    /\ segmented = NotSegmented
    /\ segmented' = [by |-> "suggestion", text |-> prefix,
                     words |-> SetToSortSeq(SuggestPhrases(system_table, prefix)
                                            \cup SuggestPhrases(user_table, prefix), <)]
    /\ UNCHANGED <<user_table, held, lines, fed, queue>>

\* pinyin_phrase_segment, zhuyin_phrase_segment
PhraseSegment(text) ==
    /\ segmented = NotSegmented
    /\ segmented' = [by |-> "lookup", text |-> text, words |-> BestMatch(user_table, text)]
    /\ UNCHANGED <<user_table, held, lines, fed, queue>>

\* spseg and ngseg, which have no user's table.  For the end of their file mergeseq
\* reads a null line more.
SegmentFile(tool, text, gen_extra_enter) ==
    /\ segmented = NotSegmented /\ user_table = NoPhrases
    /\ segmented' = [by |-> tool, text |-> text, words |-> <<>>]
    /\ lines' = Append(FileOf(tool, text, gen_extra_enter), NullLine)
    /\ UNCHANGED <<user_table, held, fed, queue>>

\* mergeseq reads a line.
MergeLine ==
    /\ lines # <<>>
    /\ lines' = Tail(lines)
    /\ fed' = Append(fed, Head(lines))
    /\ queue' = FeedLine(queue, Head(lines))
    /\ UNCHANGED <<user_table, held, segmented>>

Next ==
    \/ \E p \in UserPhrases : AddIndex(p[1], p[2]) \/ RemoveIndex(p[1], p[2])
    \/ \E S \in Masks : MaskOut(S)
    \/ \E text \in Texts : PhraseSegment(text)
    \/ \E prefix \in Texts \ {<<>>} : SearchSuggestion(prefix)
    \/ \E text \in Texts : \E gen_extra_enter \in BOOLEAN :
          SegmentFile("spseg", text, gen_extra_enter) \/ SegmentFile("ngseg", text, gen_extra_enter)
    \/ MergeLine

Spec == Init /\ [][Next]_vars

-----------------------------------------------------------------------------
(* What must hold. *)

TokensHeld(pairs, phrase) == {p[2] : p \in {q \in pairs : q[1] = phrase}}

\* Every way to cut a text into phrases of the tables, as tokens.
Segmentations(pairs, text) ==
    LET ways[k \in 0 .. Len(text)] ==
          IF k = 0 THEN {<<>>}
          ELSE UNION {{Append(words, t) : words \in ways[i],
                                          t \in TokensHeld(pairs, Between(text, i, k))} :
                         i \in 0 .. k - 1}
    IN  ways[Len(text)]

\* The score of its words, each after the one before; impossible ones have none.
StepScores(prev, token) ==
    {Bigram[pair] : pair \in {<<prev, token>>} \cap DOMAIN Bigram}
    \cup {Unigram[t] : t \in {token} \cap DOMAIN Unigram}

Possible(words) ==
    \A k \in DOMAIN words : StepScores((<<sentence_start>> \o words)[k], words[k]) # {}

Score(words) ==
    FoldLeft(LAMBDA sum, k : sum + Max(StepScores((<<sentence_start>> \o words)[k], words[k])),
             0, [k \in DOMAIN words |-> k])

\* The phrases behind a prefix, all that are in the tables and no other.
SuggestionsComplete == segmented.by = "suggestion" =>
    Range(segmented.words) =
        {p[2] : p \in {q \in SystemPhrases \cup held : IsStrictPrefix(segmented.text, q[1])}}

\* A text is cut into phrases of the tables with the best score of all ways to cut it,
\* and not at all only if there is no way (PhraseLookup::get_best_match), though
\* unigrams are tried after the best value only.
SegmentationBest == segmented.by = "lookup" =>
    LET all == {words \in Segmentations(SystemPhrases \cup held, segmented.text) : Possible(words)}
    IN  IF all = {} THEN segmented.words = <<>>
        ELSE /\ segmented.words \in all
             /\ \A words \in all : Score(words) <= Score(segmented.words)

\* However phrases were imported, removed and masked before, no search misses one
\* because the table stops before it, and none meets one that is gone.
PhrasesReached == SuggestionsComplete /\ SegmentationBest

\* What mergeseq, which reads line by line and looks ahead MAX_PHRASE_LENGTH
\* characters at most, has written in the end: from the left the longest phrase each
\* time that whole words make up, never over a break, and nothing lost.
MergedLongest == lines = <<>> =>
    LET joined(i, j) == FlattenSeq([k \in 1 .. j - i + 1 |-> fed[i + k - 1].phrase])
        ends(i) == {j \in i .. Len(fed) : /\ \A k \in i .. j : fed[k].token # null_token
                                          /\ TokensHeld(SystemPhrases, joined(i, j)) # {}}
        longest[i \in 1 .. Len(fed) + 1] ==
            IF i > Len(fed) THEN <<>>
            ELSE IF fed[i].token = null_token THEN <<fed[i]>> \o longest[i + 1]
            ELSE LET j == Max(ends(i))
                 IN  <<[token |-> Min(TokensHeld(SystemPhrases, joined(i, j))),
                        phrase |-> joined(i, j)]>> \o longest[j + 1]
    IN  queue = [NoQueue EXCEPT !.written = longest[1]]

\* src/utils/segment/spseg.cpp:48 "graph shortest path sentence segment", :66 "use formula W = number of
\* words": no way to cut a text into phrases and single characters has fewer words.
ShortestPath == segmented.by = "spseg" =>
    \A run \in Range(Runs(segmented.text)) : run.known =>
        \A words \in Segmentations(SystemPhrases, run.text) :
            Len(Shortest(run.text)) <= Len(words)
=============================================================================
