------------------------------ MODULE UserBigram ------------------------------
(***************************************************************************)
(* The user's pairs of phrases: Bigram and SingleGram (storage/ngram*.cpp),*)
(* the two calls that train them, the masking that forgets them, and the   *)
(* iterator that exports them (pinyin.cpp).                                *)
(*                                                                         *)
(* A gram is what follows one phrase: a total and a list of items sorted   *)
(* by token, as in its memory chunk, so that the insertions, the removals  *)
(* and the merge of two lists are those of the code.  `live' are the       *)
(* tokens the libraries have an item for; `result' is the sentence an      *)
(* instance holds, which may be older than a removal; `iter' is an export  *)
(* another part of the engine is running meanwhile.                        *)
(***************************************************************************)
EXTENDS Naturals, Sequences, SequencesExt, FiniteSetsExt

CONSTANTS
    Tokens,       \* tokens of phrases, numbers above sentence_start
    Removable,    \* those of the user dictionary
    Sentences,    \* what the search may return: sequences of tokens
    Predictions,  \* pairs an engine may choose from the predicted candidates
    Pronunciations, \* [Tokens -> Nat \ {0}]
    SystemGrams,  \* [index -> gram] of the system bigram
    InitialSeed,  \* 23 * 3
    ExpandFactor, \* 2
    CeilingSeed,  \* 23 * 15 * 64
    Masks,        \* what masks a caller gives: the sets of indices they match
    Wrap          \* 2^32

sentence_start == 1
null_token == 0
Threshold == InitialSeed - 1

Indices == Tokens \cup {sentence_start}

ASSUME UserBigramAssumption ==
    /\ Tokens \subseteq Nat \ {null_token, sentence_start}
    /\ Removable \subseteq Tokens
    /\ Sentences \subseteq Seq(Tokens) \ {<<>>}
    /\ Predictions \subseteq Indices \X Tokens
    /\ Pronunciations \in [Tokens -> Nat \ {0}]
    /\ InitialSeed \in Nat \ {0} /\ ExpandFactor \in Nat /\ CeilingSeed \in Nat
    /\ Masks \subseteq SUBSET Indices
    /\ Wrap \in Nat /\ Wrap > InitialSeed

VARIABLES
    grams,     \* the user bigram: a function from some of Indices to grams
    live,      \* tokens the phrase libraries have
    result,    \* the sentence of an instance, <<>> before the first search
    stale,     \* TRUE once a word of result lost its item
    misled,    \* TRUE once a stale sentence was trained
    iter,      \* the export iterator
    exported,  \* the pairs this export handed out
    touched,   \* TRUE once pairs were removed during this export
    status     \* "ok"; "aborted" by an assertion, "crashed" by a bad pointer

vars == <<grams, live, result, stale, misled, iter, exported, touched, status>>
data == <<grams, live, result, stale, misled>>
export == <<iter, exported, touched>>

-----------------------------------------------------------------------------
(* A single gram. *)

Item(token, freq) == [token |-> token, freq |-> freq]

EmptyGram == [total |-> 0, items |-> <<>>]

TokensOf(items) == {items[k].token : k \in DOMAIN items}

\* std_lite::lower_bound: the first item not below the token.
LowerBound(items, token) ==
    Min({k \in DOMAIN items : items[k].token >= token} \cup {Len(items) + 1})

\* A mutant of InsertFreq: behind the last item.
InsertAppended(items, token, freq) == Append(items, Item(token, freq))

\* SingleGram::insert_freq; refused when the token is there.
InsertFreq(items, token, freq) ==
    IF token \in TokensOf(items) THEN items
    ELSE InsertAt(items, LowerBound(items, token), Item(token, freq))

\* SingleGram::get_freq: the search ends at the lower bound.
GetFreq(items, token) ==
    LET k == LowerBound(items, token)
    IN  IF k \in DOMAIN items /\ items[k].token = token THEN items[k].freq ELSE 0

SetFreq(items, token, freq) ==
    LET k == LowerBound(items, token)
    IN  IF k \in DOMAIN items /\ items[k].token = token
        THEN [items EXCEPT ![k].freq = freq % Wrap] ELSE items

SumFreqs(items) ==
    LET sum[k \in 0 .. Len(items)] == IF k = 0 THEN 0 ELSE sum[k - 1] + items[k].freq
    IN  sum[Len(items)]

\* A system bigram is built by insert_freq and the sum of the counts
\* (utils/storage/import_interpolation.cpp).
ASSUME SystemBigramAssumption ==
    /\ SystemGrams \in [Indices -> [total : 0 .. Wrap - 1,
                                    items : Seq([token : Tokens, freq : 0 .. Wrap - 1])]]
    /\ \A i \in Indices :
          LET items == SystemGrams[i].items
          IN  /\ \A j, k \in DOMAIN items : j < k => items[j].token < items[k].token
              /\ SystemGrams[i].total = SumFreqs(items) % Wrap

Follows(i, t, table) == i \in DOMAIN table /\ t \in TokensOf(table[i].items)

\* SingleGram::mask_out, item by item; S stands for the tokens that match the mask.
MaskedGram(gram, S) ==
    LET upto[k \in 0 .. Len(gram.items)] ==
            IF k = 0 THEN [total |-> gram.total, items |-> <<>>]
            ELSE LET item == gram.items[k]
                 IN  IF item.token \in S
                     THEN [upto[k - 1] EXCEPT !.total = (@ + Wrap - item.freq) % Wrap]
                     ELSE [upto[k - 1] EXCEPT !.items = Append(@, item)]
    IN  upto[Len(gram.items)]

\* A mutant of MergeTurn: what both have is not added up.
MergeTurnBothKept(first, second, s) ==
    IF s.i < Len(first) /\ (s.j < Len(second) =>
                               first[s.i + 1].token <= second[s.j + 1].token)
    THEN [s EXCEPT !.i = @ + 1, !.items = Append(@, first[s.i + 1])]
    ELSE IF s.j < Len(second)
         THEN [s EXCEPT !.j = @ + 1, !.items = Append(@, second[s.j + 1])]
         ELSE s

\* One turn of the loops of merge_single_gram: the cursors are behind the first i
\* items of one list and the first j of the other; the smaller token goes first.
MergeTurn(first, second, s) ==
    LET a == first[s.i + 1]
        b == second[s.j + 1]
        ofFirst == s.i < Len(first) /\ (s.j < Len(second) => a.token <= b.token)
        ofSecond == s.j < Len(second) /\ (s.i < Len(first) => b.token <= a.token)
    IN  IF ofFirst /\ ofSecond
        THEN [i |-> s.i + 1, j |-> s.j + 1,
              items |-> Append(s.items, Item(a.token, (a.freq + b.freq) % Wrap))]
        ELSE IF ofFirst THEN [s EXCEPT !.i = @ + 1, !.items = Append(@, a)]
        ELSE IF ofSecond THEN [s EXCEPT !.j = @ + 1, !.items = Append(@, b)]
        ELSE s

\* The items of merge_single_gram.
MergedItems(first, second) ==
    LET merged[k \in 0 .. Len(first) + Len(second)] ==
            IF k = 0 THEN [i |-> 0, j |-> 0, items |-> <<>>]
            ELSE MergeTurn(first, second, merged[k - 1])
    IN  merged[Len(first) + Len(second)].items

-----------------------------------------------------------------------------
(* Bigram: a table of grams. *)

Loaded(index) == IF index \in DOMAIN grams THEN grams[index] ELSE EmptyGram

Stored(table, index, gram) ==
    [i \in DOMAIN table \cup {index} |-> IF i = index THEN gram ELSE table[i]]

\* The gram of a phrase as the search and the candidates see it.
MergedGram(index) ==
    [total |-> (SystemGrams[index].total + Loaded(index).total) % Wrap,
     items |-> MergedItems(SystemGrams[index].items, Loaded(index).items)]

\* Mutants of Masked: phrases are masked as second or as first phrases only.
MaskedAsItems(table, S) ==
    [i \in {j \in DOMAIN table : ~(TokensOf(table[j].items) \subseteq S)} |->
        MaskedGram(table[i], S)]

MaskedAsIndices(table, S) == [i \in DOMAIN table \ S |-> table[i]]

\* Every matching phrase goes, as an index and as an item, and so does a gram
\* that is left without items.
Masked(table, S) ==
    LET emptied == {i \in DOMAIN table : /\ table[i].items # <<>>
                                         /\ TokensOf(table[i].items) \subseteq S}
    IN  [i \in DOMAIN table \ (S \cup emptied) |-> MaskedGram(table[i], S)]

\* SingleGram::get_length asserts that a gram without items has no total.
LengthAborts(gram) == gram.items = <<>> /\ gram.total # 0

MaskAborts(S) == \E i \in DOMAIN grams \ S :
    /\ TokensOf(grams[i].items) \cap S # {}
    /\ LengthAborts(MaskedGram(grams[i], S))

-----------------------------------------------------------------------------
(* Training. *)

\* What train_result3 adds for a pair.
Seed(gram, token) ==
    IF token \notin TokensOf(gram.items) THEN InitialSeed
    ELSE Min({(ExpandFactor * Max({GetFreq(gram.items, token), InitialSeed})) % Wrap,
              CeilingSeed})

\* One word of a sentence in train_result3: nothing is stored when the total
\* would overflow.
PairTrained(table, last, token) ==
    LET gram == IF last \in DOMAIN table THEN table[last] ELSE EmptyGram
        seed == Seed(gram, token)
        items == InsertFreq(gram.items, token, 0)
    IN  IF gram.total + seed >= Wrap THEN table
        ELSE Stored(table, last,
               [total |-> gram.total + seed,
                items |-> SetFreq(items, token, GetFreq(items, token) + seed)])

\* The words of the sentence at the positions the constraints select, in order.
SentenceTrained(table, words, selected) ==
    LET trained[k \in 0 .. Len(words)] ==
            IF k = 0 THEN table
            ELSE IF k \notin selected THEN trained[k - 1]
            ELSE PairTrained(trained[k - 1],
                             IF k = 1 THEN sentence_start ELSE words[k - 1],
                             words[k])
    IN  trained[Len(words)]

\* pinyin_choose_predicted_candidate adds without looking at the total.
PairPredicted(table, last, token) ==
    LET gram == IF last \in DOMAIN table THEN table[last] ELSE EmptyGram
        items == IF token \in TokensOf(gram.items)
                 THEN SetFreq(gram.items, token,
                              GetFreq(gram.items, token) + InitialSeed)
                 ELSE InsertFreq(gram.items, token, InitialSeed)
    IN  Stored(table, last,
               [total |-> (gram.total + InitialSeed) % Wrap, items |-> items])

-----------------------------------------------------------------------------
(* The export iterator. *)

NoIterator == [on |-> FALSE, asked |-> FALSE, more |-> FALSE, items |-> <<>>,
               index |-> null_token, pairs |-> <<>>, second |-> null_token,
               left |-> 0]

Exportable(it) == it.index # null_token /\ it.index # sentence_start

\* The first pair used often enough; the pairs before it are dropped.
Frequent(it) ==
    IF Exportable(it) THEN {k \in DOMAIN it.pairs : it.pairs[k].freq > Threshold}
    ELSE {}

Drained(it) == IF Exportable(it) THEN [it EXCEPT !.pairs = <<>>] ELSE it

\* get_phrase_item fails for a phrase without an item; the pair then has no
\* pronunciation.
PairPronunciations(first, second) ==
    IF {first, second} \subseteq live
    THEN Pronunciations[first] * Pronunciations[second] ELSE 0

Taken(it) ==
    LET k == Min(Frequent(it))
    IN  [it EXCEPT !.pairs = SubSeq(@, k + 1, Len(@)),
                   !.second = it.pairs[k].token,
                   !.left = PairPronunciations(it.index, it.pairs[k].token),
                   !.asked = TRUE, !.more = TRUE]

\* A mutant of Refilled: the index stays in the list.
RefilledKeepingIndex(it) ==
    [it EXCEPT !.index = Head(it.items),
               !.pairs = @ \o Loaded(Head(it.items)).items]

\* The next index: its pairs are appended to what is left.
Refilled(it) ==
    [it EXCEPT !.items = Tail(@),
               !.index = Head(it.items),
               !.pairs = @ \o Loaded(Head(it.items)).items]

\* The iterator as the n-th turn of the loop of has_next finds it.
Turns(it) ==
    LET turn[n \in 0 .. Len(it.items)] ==
            IF n = 0 THEN it ELSE Refilled(Drained(turn[n - 1]))
    IN  turn

\* The turns that find a pair.  The loop ends with the last index, before the
\* turn that would look at its pairs.
Finding(it) ==
    LET turns == Turns(it)
    IN  {n \in 0 .. Max({Len(it.items) - 1, 0}) : Frequent(turns[n]) # {}}

\* pinyin_bigram_iterator_has_next_phrase
Asked(it) ==
    IF it.left > 0 THEN [it EXCEPT !.asked = TRUE, !.more = TRUE]
    ELSE IF Finding(it) # {} THEN Taken(Turns(it)[Min(Finding(it))])
    ELSE LET last == IF it.items = <<>> THEN Drained(it) ELSE Turns(it)[Len(it.items)]
         IN  [last EXCEPT !.asked = TRUE, !.more = FALSE, !.left = 0]

\* The gram of a remembered index may be gone; its pointer is used unchecked.
AskCrashes(it) ==
    /\ it.left = 0
    /\ \E n \in DOMAIN it.items :
          /\ it.items[n] \notin DOMAIN grams
          /\ \A f \in Finding(it) : n <= f

-----------------------------------------------------------------------------
(* The calls. *)

Init ==
    /\ grams = [i \in {} |-> EmptyGram]
    /\ live = Tokens
    /\ result = <<>> /\ stale = FALSE /\ misled = FALSE
    /\ iter = NoIterator /\ exported = {} /\ touched = FALSE
    /\ status = "ok"

Crash(how) ==
    /\ status' = how
    /\ UNCHANGED <<data, export>>

\* pinyin_guess_sentence finds words that have items.
Search ==
    /\ status = "ok"
    /\ \E words \in Sentences : ToSet(words) \subseteq live /\ result' = words
    /\ stale' = FALSE
    /\ UNCHANGED <<grams, live, misled, export, status>>

\* pinyin_train: a forced word and the word after it.
Train ==
    /\ status = "ok" /\ result # <<>>
    /\ \E forced \in SUBSET (DOMAIN result) :
          LET selected == {k \in DOMAIN result : k \in forced \/ k - 1 \in forced}
          IN  grams' = SentenceTrained(grams, result, selected)
    /\ misled' = (misled \/ stale)
    /\ UNCHANGED <<live, result, stale, export, status>>

\* pinyin_choose_predicted_candidate, after the phrase `last'.
ChoosePredicted(last, token) ==
    /\ status = "ok"
    /\ {last, token} \ {sentence_start} \subseteq live
    /\ grams' = PairPredicted(grams, last, token)
    /\ UNCHANGED <<live, result, stale, misled, export, status>>

Forget(S) ==
    /\ status = "ok"
    /\ grams' = Masked(grams, S)
    /\ live' = live \ (S \cap Removable)
    /\ stale' = (stale \/ ToSet(result) \cap S \cap Removable # {})
    /\ touched' = (iter.on /\ (touched \/ grams' # grams \/ live' # live))
    /\ status' = IF MaskAborts(S) THEN "aborted" ELSE "ok"
    /\ UNCHANGED <<result, misled, iter, exported>>

\* pinyin_remove_user_candidate
RemoveCandidate(token) == token \in Removable \cap live /\ Forget({token})

\* pinyin_mask_out
MaskOut(S) == Forget(S)

\* An import gives a free token to a phrase.
ImportPhrase(token) ==
    /\ status = "ok" /\ token \in Removable \ live
    /\ live' = live \cup {token}
    /\ UNCHANGED <<grams, result, stale, misled, export, status>>

\* The hash table hands out its keys in any order.
BeginExport ==
    /\ status = "ok" /\ ~iter.on
    /\ \E order \in SetToSeqs(DOMAIN grams) :
          iter' = [NoIterator EXCEPT !.on = TRUE, !.items = order]
    /\ exported' = {} /\ touched' = FALSE
    /\ UNCHANGED <<data, status>>

HasNext ==
    /\ status = "ok" /\ iter.on
    /\ ~AskCrashes(iter)
    /\ iter' = Asked(iter)
    /\ UNCHANGED <<data, exported, touched, status>>

\* Hands out the pair that was found, and asks for the next.
GetNext ==
    /\ status = "ok" /\ iter.on /\ iter.more /\ iter.left > 0
    /\ ~AskCrashes([iter EXCEPT !.left = @ - 1])
    /\ exported' = exported \cup {<<iter.index, iter.second>>}
    /\ iter' = Asked([iter EXCEPT !.left = @ - 1])
    /\ UNCHANGED <<data, touched, status>>

ExportCrashes ==
    /\ status = "ok" /\ iter.on
    /\ \/ AskCrashes(iter)
       \/ iter.more /\ (iter.left = 0 \/ AskCrashes([iter EXCEPT !.left = @ - 1]))
    /\ Crash("crashed")

\* The caller stops when it is told that there is no more.
EndExport ==
    /\ status = "ok" /\ iter.on /\ iter.asked /\ ~iter.more
    /\ iter' = NoIterator /\ exported' = {} /\ touched' = FALSE
    /\ UNCHANGED <<data, status>>

Next ==
    \/ Search \/ Train
    \/ \E pair \in Predictions : ChoosePredicted(pair[1], pair[2])
    \/ \E token \in Removable : RemoveCandidate(token) \/ ImportPhrase(token)
    \/ \E S \in Masks : MaskOut(S)
    \/ BeginExport \/ HasNext \/ GetNext \/ ExportCrashes \/ EndExport

\* A caller that began an export goes on with it; nothing else must happen.
Exporting == HasNext \/ GetNext \/ ExportCrashes \/ EndExport

Spec == Init /\ [][Next]_vars /\ WF_vars(Exporting)
-----------------------------------------------------------------------------
(* What must hold. *)

\* Through training, choosing and masking, each gram stays sorted without
\* repeats, as lower_bound in insert_freq, get_freq and merge_single_gram needs,
\* and its total stays the sum of its frequencies in 32 bits, from which the
\* probabilities of the search are computed; so the assertion of
\* SingleGram::get_length, that a gram which lost its last item has no total left,
\* never fails, overflowed totals included.
GramsBalance ==
    /\ \A i \in DOMAIN grams :
          LET items == grams[i].items
          IN  /\ \A j, k \in DOMAIN items : j < k => items[j].token < items[k].token
              /\ grams[i].total = SumFreqs(items) % Wrap
              /\ items # <<>>
    /\ status # "aborted"

\* What merge_single_gram makes of a system and a user gram is what both say of
\* each token together, each token once and in order.
MergeAgrees == \A i \in Indices :
    LET merged == MergedGram(i)
        freq(items, t) ==
            IF t \in TokensOf(items)
            THEN items[CHOOSE k \in DOMAIN items : items[k].token = t].freq ELSE 0
    IN  /\ \A j, k \in DOMAIN merged.items :
              j < k => merged.items[j].token < merged.items[k].token
        /\ \A t \in Tokens : freq(merged.items, t) =
              (freq(SystemGrams[i].items, t) + freq(Loaded(i).items, t)) % Wrap
        /\ merged.total = SumFreqs(merged.items) % Wrap

\* Removing a phrase leaves no pair that names it, neither as the first nor as
\* the second phrase, whatever is trained before or later, unless a sentence older
\* than a removal was trained (pinyin_remove_user_candidate, Bigram::mask_out).
PairsNameItems == ~misled => \A i \in DOMAIN grams :
    /\ i \in live \cup {sentence_start}
    /\ TokensOf(grams[i].items) \subseteq live

\* An export ends in a bad pointer only if phrases were removed while it ran, or a
\* sentence older than a removal was trained.
ExportIsSafe == status = "crashed" => touched \/ misled

\* An export its caller goes on with comes to its end, whatever is trained,
\* imported or removed meanwhile (pinyin_bigram_iterator_has_next_phrase).
ExportEnds == iter.on ~> (~iter.on \/ status # "ok")

\* "pre-check the bigram sequence has been used at least twice": an exported pair
\* is at least one the bigram has, as long as nothing was removed.
ExportedAreLearned == ~touched =>
    \A pair \in exported : Follows(pair[1], pair[2], grams)
=============================================================================
