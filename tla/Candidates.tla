------------------------------ MODULE Candidates ------------------------------
(***************************************************************************)
(* The list of candidates an instance offers: pinyin_guess_candidates and  *)
(* pinyin_guess_predicted_candidates of pinyin.cpp, and the lists after    *)
(* and before the cursor of zhuyin.cpp.                                    *)
(*                                                                         *)
(* A problem is what the lookups find: phrases after and before the        *)
(* cursor, each with the frequency its place gives it, the sentences of    *)
(* the search, longer phrases the input begins, and for a prediction the   *)
(* prefixes with their learned pairs and punctuations.  A phrase string    *)
(* may be that of several tokens (of two libraries, or an addon), and of   *)
(* a sentence.                                                             *)
(***************************************************************************)
EXTENDS Integers, Sequences, SequencesExt, FiniteSetsExt

CONSTANTS
    Problems, \* [after, before, sentences, longer, keys, prefixes, prefix_len, suggestions];
              \* keys is how many keys the input has, 0 when there is none
    Options,  \* the sets of sort options in use
    String,   \* the phrase string of a token
    Rest,     \* what is left of it after the prefix
    Length,   \* its characters
    Unigram,  \* the frequency its unigram alone gives
    filter    \* 10: how often a pair must have been counted to be predicted

CandidatesAssumption ==
    /\ \A p \in Problems : /\ IsFiniteSet(p.after) /\ IsFiniteSet(p.before)
                           /\ p.keys \in Nat /\ p.prefix_len \in Nat
    /\ Options \subseteq SUBSET {"WithoutSentence", "WithoutLonger",
                                 "PhraseLength", "PinyinLength", "Frequency"}
    /\ filter \in Nat

VARIABLES
    searched,  \* the problem at hand
    candidates,
    asked      \* the call the list was made by, and its sort options

vars == <<searched, candidates, asked>>

-----------------------------------------------------------------------------
(* Items and their order. *)

\* A phrase the lookup found as a candidate (_append_items, _compute_phrase_length).
Item(found) ==
    [type |-> found.type, string |-> String[found.token], token |-> found.token,
     begin |-> found.begin, end |-> found.end, length |-> Length[found.token],
     freq |-> found.freq, index |-> -1]

\* compare_item_with_sort_option: what the list is sorted by, greatest first.
SortKeys(option, item) ==
    <<IF "PhraseLength" \in option THEN item.length ELSE 0,
      IF "PinyinLength" \in option THEN item.end - item.begin ELSE 0,
      IF "Frequency" \in option THEN item.freq ELSE 0>>

\* The order items were appended in, which the sort keeps for equal ones: as the
\* input is read, the addon phrases of a span last, then by libraries.
Appended(item) == <<-item.end, IF item.type = "Addon" THEN 0 ELSE 1, -item.token>>

Exceeds(a, b) == \E i \in DOMAIN a : /\ a[i] > b[i]
                                     /\ \A j \in 1 .. i - 1 : a[j] = b[j]

Sorted(option, items) ==
    SetToSortSeq(items, LAMBDA a, b :
        Exceeds(SortKeys(option, a) \o Appended(a), SortKeys(option, b) \o Appended(b)))

-----------------------------------------------------------------------------
(* What goes before the sorted items. *)

\* _prepend_longer_candidates: of the phrases that begin with the whole input and
\* are not too long, the most frequent, the first of them when several are.
Longer(p) ==
    LET short == {t \in p.longer : Length[t] <= 2 * p.keys + 1}
        best  == {t \in short : \A u \in short : Unigram[u] <= Unigram[t]}
    IN  IF short = {} THEN <<>>
        ELSE LET t == Min(best)
             IN  <<[type |-> "Longer", string |-> String[t], token |-> t, begin |-> 0,
                    end |-> 0, length |-> 0, freq |-> Unigram[t], index |-> -1]>>

Sentence(p, i) ==
    [type |-> "Sentence", string |-> p.sentences[i], token |-> 0, begin |-> 0, end |-> 0,
     length |-> 0, freq |-> 0, index |-> i - 1]

\* A mutant of Sentences: prepended from the first on.
SentencesBackwards(p, nbest) ==
    LET size == Min({nbest, Len(p.sentences)})
    IN  [i \in 1 .. size |-> Sentence(p, size + 1 - i)]

\* _prepend_sentence_candidates: from the last on, so that the best is in front.
Sentences(p, nbest) == [i \in 1 .. Min({nbest, Len(p.sentences)}) |-> Sentence(p, i)]

\* The punctuations that follow any of the prefixes, each once.
Punctuations(p) ==
    LET all == FoldLeft(LAMBDA acc, prefix : acc \o prefix.puncts, <<>>, p.prefixes)
        new == SelectSeq([i \in DOMAIN all |-> i],
                         LAMBDA i : \A j \in 1 .. i - 1 : all[j] # all[i])
    IN  [k \in DOMAIN new |->
            [type |-> "Punctuation", string |-> all[new[k]], token |-> 0, begin |-> 0,
             end |-> 0, length |-> 0, freq |-> 0, index |-> -1]]

-----------------------------------------------------------------------------
(* _remove_duplicated_items_by_phrase_string. *)

\* A mutant of Kept: sentences are compared by frequency, which they have none of.
KeptByFrequency(saved, item) == IF item.freq > saved.freq THEN item ELSE saved

\* Which of two candidates with one string stays.
Kept(saved, item) ==
    LET first == IF saved.index < item.index THEN saved ELSE item
    IN  CASE saved.type = "Longer" /\ item.type = "Longer" ->
                IF saved.freq < item.freq THEN saved ELSE item
          [] saved.type = "Sentence" /\ item.type = "Sentence" -> first
          [] saved.type = "Sentence" /\ item.type # "Sentence" -> saved
          [] saved.type # "Sentence" /\ item.type = "Sentence" -> item
          [] OTHER -> IF item.freq > saved.freq THEN item ELSE saved

\* The candidates of one string are visited in the order of the list.
WithoutDuplicates(list) ==
    LET same(s)     == SelectSeq(list, LAMBDA item : item.string = s)
        survivor(s) == FoldLeft(Kept, Head(same(s)), Tail(same(s)))
    IN  SelectSeq(list, LAMBDA item : item = survivor(item.string))

-----------------------------------------------------------------------------
(* The calls. *)

Init ==
    /\ searched \in Problems
    /\ candidates = <<>>
    /\ asked = [by |-> "nobody", option |-> {}]

\* Every call frees the list of the last one; those that need an input stop there
\* when the matrix is empty, and sentences of an earlier input are not offered.
Offered(list) == IF searched.keys = 0 THEN <<>> ELSE WithoutDuplicates(list)

\* pinyin_guess_candidates
GuessCandidates(option) ==
    LET sorted    == Sorted(option, {Item(f) : f \in searched.after})
        longer    == IF "WithoutLonger" \in option THEN <<>> ELSE Longer(searched)
        sentences == IF "WithoutSentence" \in option THEN <<>> ELSE Sentences(searched, 3)
    IN  /\ candidates' = Offered(sentences \o longer \o sorted)
        /\ asked' = [by |-> "pinyin", option |-> option]
        /\ UNCHANGED searched

\* The pairs learned for the longest prefix that has any, frequent enough, of two
\* characters or one.  No previous token is set, so the pair adds no frequency.
PredictedBigrams(p) ==
    LET learned == {i \in DOMAIN p.prefixes : p.prefixes[i].pairs # {}}
        pairs   == IF learned = {} THEN {} ELSE p.prefixes[Max(learned)].pairs
        wanted  == {pair \in pairs : pair.count >= filter /\ Length[pair.token] \in 1 .. 2}
    IN  {[type |-> "Bigram", string |-> String[pair.token], token |-> pair.token,
          begin |-> 0, end |-> 0, length |-> Length[pair.token],
          freq |-> Unigram[pair.token], index |-> -1] : pair \in wanted}

\* The phrases that begin with the prefix, without it.
PredictedPrefixes(p) ==
    {[type |-> "Prefix", string |-> Rest[t], token |-> t, begin |-> p.prefix_len, end |-> 0,
      length |-> Length[t] - p.prefix_len, freq |-> Unigram[t], index |-> -1] :
        t \in {u \in p.suggestions : Length[u] <= 2 * p.prefix_len + 1}}

PredictedList(p) ==
    IF p.prefixes = <<>> THEN <<>>
    ELSE WithoutDuplicates(Sorted({"PhraseLength", "Frequency"},
                                  PredictedBigrams(p) \cup PredictedPrefixes(p)))

\* pinyin_guess_predicted_candidates and .._with_punctuations.
GuessPredicted(punctuations) ==
    /\ candidates' = (IF punctuations THEN Punctuations(searched) ELSE <<>>)
                     \o PredictedList(searched)
    /\ asked' = [by |-> "predicted",
                 option |-> {"PhraseLength", "Frequency", "WithoutLonger", "WithoutSentence"}]
    /\ UNCHANGED searched

\* zhuyin_guess_candidates_after_cursor.  There are no addon phrases here, and the
\* search has one sentence.
ByLength == {"PhraseLength", "Frequency"}
OfLibraries(found) == {Item(f) : f \in {g \in found : g.type = "Normal"}}
GuessAfterCursor ==
    /\ candidates' = Offered(Sentences(searched, 1)
                             \o Sorted(ByLength, OfLibraries(searched.after)))
    /\ asked' = [by |-> "after", option |-> ByLength]
    /\ UNCHANGED searched

\* zhuyin_guess_candidates_before_cursor: the longest span first, each sorted.
GuessBeforeCursor ==
    LET items  == OfLibraries(searched.before)
        begins == SetToSortSeq({item.begin : item \in items}, <)
        of(b)  == Sorted(ByLength, {item \in items : item.begin = b})
    IN  /\ candidates' = Offered(Sentences(searched, 1)
                                \o FoldLeft(LAMBDA acc, b : acc \o of(b), <<>>, begins))
        /\ asked' = [by |-> "before", option |-> ByLength]
        /\ UNCHANGED searched

Next ==
    \/ \E option \in Options : GuessCandidates(option)
    \/ \E punctuations \in BOOLEAN : GuessPredicted(punctuations)
    \/ GuessAfterCursor
    \/ GuessBeforeCursor

Spec == Init /\ [][Next]_vars

-----------------------------------------------------------------------------
(* Properties. *)

\* What the lookups found for the call the list is of.
WasFound ==
    CASE asked.by = "pinyin" -> {Item(f) : f \in searched.after}
      [] asked.by = "predicted" /\ searched.prefixes # <<>> ->
            PredictedBigrams(searched) \cup PredictedPrefixes(searched)
      [] asked.by = "after" -> OfLibraries(searched.after)
      [] asked.by = "before" -> OfLibraries(searched.before)
      [] OTHER -> {}

SentencesOf ==
    CASE searched.keys > 0 /\ asked.by = "pinyin" /\ "WithoutSentence" \notin asked.option -> searched.sentences
      [] searched.keys > 0 /\ asked.by \in {"after", "before"} /\ searched.sentences # <<>> ->
            <<searched.sentences[1]>>
      [] OTHER -> <<>>

Of(type) == {i \in DOMAIN candidates : candidates[i].type = type}
Phrases == DOMAIN candidates \ Of("Punctuation")

\* The user finds every phrase the lookups found exactly once, however many
\* libraries, spans and sentences have it: as the first sentence that is this
\* phrase, otherwise with the greatest of its frequencies.
\* (_remove_duplicated_items_by_phrase_string, which marks items while it walks the
\* list in another order, and removes them from it afterwards.)
OfferedOnce ==
    /\ \A i, j \in Phrases : candidates[i].string = candidates[j].string => i = j
    /\ \A i, j \in Of("Punctuation") : candidates[i].string = candidates[j].string => i = j
    /\ \A k \in DOMAIN SentencesOf : \E i \in Of("Sentence") :
          /\ candidates[i].string = SentencesOf[k]
          /\ candidates[i].index < k
    /\ \A item \in WasFound :
          \/ \E k \in DOMAIN SentencesOf : SentencesOf[k] = item.string
          \/ \E i \in DOMAIN candidates \ Of("Sentence") :
                /\ candidates[i].string = item.string
                /\ candidates[i].freq >= item.freq

\* Whatever the removal of duplicates takes out, the list keeps its order: the
\* punctuations, the sentences from the best on, the longer phrase, and the rest by
\* the sort options the caller asked for; before the cursor the longest spans first.
ListOrdered ==
    \A i, j \in DOMAIN candidates : i < j =>
        LET rank(item) == CASE item.type = "Punctuation" -> 0 [] item.type = "Sentence" -> 1
                            [] item.type = "Longer" -> 2 [] OTHER -> 3
            a == candidates[i]
            b == candidates[j]
        IN  /\ rank(a) <= rank(b)
            /\ rank(a) = 1 /\ rank(b) = 1 => a.index < b.index
            /\ rank(a) = 3 /\ asked.by = "before" => a.begin <= b.begin
            /\ rank(a) = 3 /\ (asked.by = "before" => a.begin = b.begin) =>
                  ~Exceeds(SortKeys(asked.option, b), SortKeys(asked.option, a))
=============================================================================
