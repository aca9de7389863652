------------------------------- MODULE MCLookups -------------------------------
(* The candidate lists, the segmentation, the training of the model and the      *)
(* databases of the tables in one run: the `task` says which of them a behaviour *)
(* is about, the others stay idle.                                               *)
EXTENDS KMixtureModel, TLC

CONSTANT Tasks  \* those a run is about

-----------------------------------------------------------------------------
(* Corpora. *)

\* Words once and more than once in a document, a break in a sentence, more of a
\* pair than g_maximum_occurs allows at first, and a document without a word.
MCDocument == {<<2, 3>>, <<2, 2, 2>>, <<2, 2, 2, 2>>, <<3, 0, 3>>, <<>>}

MCPrunePoss == <<1, 3>>

Symmetry == Permutations(File)
-----------------------------------------------------------------------------
(* Lists.  Tokens 1 and 2 are one phrase of two libraries, 3 the same as an      *)
(* addon; 5 and 6 begin with the input and the prefix, and are as frequent.      *)

MCString == <<"a", "a", "a", "bc", "ad", "ae", "aefgh">>
MCRest == <<"", "", "", "c", "bc", "e", "efgh">>
MCPhraseLength == <<1, 1, 1, 2, 2, 2, 5>>
MCUnigram == <<1, 2, 2, 1, 1, 1, 3>>

Found(type, token, begin, end, freq) ==
    [type |-> type, token |-> token, begin |-> begin, end |-> end, freq |-> freq]

MCAfter == {Found("Normal", 1, 0, 1, 1), Found("Normal", 2, 0, 1, 2),
            Found("Normal", 2, 0, 2, 3), Found("Addon", 3, 0, 1, 2),
            Found("Normal", 4, 0, 2, 1)}
MCBefore == {Found("Normal", 1, 2, 3, 1), Found("Normal", 2, 1, 3, 2),
             Found("Normal", 4, 1, 3, 1), Found("Normal", 5, 2, 3, 2)}
MCSentences == {<<>>, <<"a">>, <<"bc">>, <<"a", "bc", "a">>, <<"ad", "a">>, <<"ad", "ad">>}
MCPrefixes ==
    {<<>>,
     <<[pairs |-> {[token |-> 1, count |-> 10], [token |-> 4, count |-> 9]}, puncts |-> <<",", ".">>],
       [pairs |-> {}, puncts |-> <<".", "!", ".">>]>>,
     <<[pairs |-> {[token |-> 5, count |-> 30]}, puncts |-> <<>>],
       [pairs |-> {[token |-> 2, count |-> 11], [token |-> 4, count |-> 12]}, puncts |-> <<"!">>]>>}

NoInput == [after |-> {}, before |-> {}, sentences |-> <<"a">>, longer |-> {}, keys |-> 0,
            prefixes |-> <<>>, prefix_len |-> 0, suggestions |-> {}]

ListProblems ==
    {[NoInput EXCEPT !.after = after, !.before = before, !.sentences = sentences,
                     !.longer = longer, !.keys = 1, !.prefix_len = 1] :
        after \in SUBSET MCAfter, before \in {{}, MCBefore, MCBefore \ {Found("Normal", 2, 1, 3, 2)}},
        sentences \in MCSentences, longer \in {{}, {5, 6, 7}, {7}}}
    \cup {NoInput}
    \cup {[NoInput EXCEPT !.sentences = <<>>, !.keys = 1, !.prefixes = prefixes,
                          !.prefix_len = 1, !.suggestions = suggestions] :
            prefixes \in MCPrefixes, suggestions \in SUBSET {4, 5, 6, 7}}

MCOptions ==
    {{"PhraseLength", "PinyinLength", "Frequency"},
     {"WithoutLonger", "PhraseLength", "Frequency"},
     {"WithoutSentence", "PinyinLength"},
     {"Frequency"}}

-----------------------------------------------------------------------------
(* Texts.  x is no character of the table; abc and bcd overlap; ab               *)
(* has two tokens, and another one when the user has it as well.                 *)

MCSystemPhrases ==
    {<<<<"a">>, 1>>, <<<<"b">>, 2>>, <<<<"c">>, 3>>, <<<<"d">>, 4>>, <<<<"a", "b">>, 5>>,
     <<<<"a", "b">>, 6>>, <<<<"a", "b", "c">>, 7>>, <<<<"a", "b", "c", "d">>, 8>>,
     <<<<"b", "c", "d">>, 9>>}
MCUserPhrases ==
    {<<<<"a", "b">>, 21>>, <<<<"d", "a">>, 22>>, <<<<"d", "b", "a">>, 23>>,
     <<<<"c", "a", "b", "d">>, 24>>}
MCMasks == {{21, 22, 23, 24}, {23}}

MCTexts == {<<>>} \cup UNION {[1 .. n -> {"a", "b", "c", "d"}] : n \in 1 .. 3}
           \cup {<<"a", "b", "c", "d">>, <<"c", "a", "b", "d">>, <<"a", "b", "c", "d", "a", "b">>,
                 <<"d", "a", "b", "c", "a", "b", "c">>, <<"a", "b", "x", "c">>,
                 <<"x", "x", "a">>, <<"d", "b", "a", "b", "x">>}

\* The longer the rarer, but 9 is common, and 21 is not in the index any more.
MCTextUnigram == [t \in (1 .. 9) \cup {22, 23, 24} |->
                     CASE t \in 1 .. 4 -> -3 [] t \in {5, 6, 22} -> -5 [] t \in {7, 9} -> -7
                       [] OTHER -> -12]
MCTextBigram == (<<0, 1>> :> -1) @@ (<<1, 2>> :> -1) @@ (<<5, 3>> :> -2) @@ (<<2, 7>> :> -4)
                @@ (<<1, 9>> :> -4) @@ (<<1, 21>> :> -6)

-----------------------------------------------------------------------------
(* Databases.  Two libraries; 12 and 22 are one phrase in both; a phrase that is *)
(* read before a shorter one, and one that begins others.                        *)

MCKey(i) == <<i, i, 1>>

MCGiven ==
    {[phrase |-> <<1>>, keys |-> <<MCKey(1)>>, token |-> 11],
     [phrase |-> <<1, 2>>, keys |-> <<MCKey(1), MCKey(2)>>, token |-> 12],
     [phrase |-> <<1, 2>>, keys |-> <<MCKey(1), MCKey(2)>>, token |-> 22],
     [phrase |-> <<2, 1>>, keys |-> <<MCKey(2), MCKey(1)>>, token |-> 13],
     [phrase |-> <<2>>, keys |-> <<MCKey(2)>>, token |-> 14]}

MCTried == {[phrase |-> entry.phrase, keys |-> entry.keys] : entry \in MCGiven}

-----------------------------------------------------------------------------

VARIABLES task,
          searched, candidates, asked,
          user_table, held, segmented, lines, fed, queue,
          backend, phrases, pinyins, filed, masked

C == INSTANCE Candidates WITH
        Problems <- ListProblems, Options <- MCOptions, String <- MCString, Rest <- MCRest,
        Length <- MCPhraseLength, Unigram <- MCUnigram, filter <- 10

S == INSTANCE Segmentation WITH
        SystemPhrases <- MCSystemPhrases, UserPhrases <- MCUserPhrases, Masks <- MCMasks,
        Texts <- MCTexts, Unigram <- MCTextUnigram, Bigram <- MCTextBigram,
        null_token <- -1, sentence_start <- 0, MAX_PHRASE_LENGTH <- 4

B == INSTANCE TableBackends WITH
        Backend <- {"BerkeleyDB", "KyotoCabinet", "Tkrzw"}, Given <- MCGiven,
        Tried <- MCTried, LibrarySize <- 10

ASSUME /\ C!CandidatesAssumption /\ S!SegmentationAssumption
       /\ Tasks \subseteq {"lists", "texts", "models", "tables"}

list_vars == <<searched, candidates, asked>>
text_vars == <<user_table, held, segmented, lines, fed, queue>>
table_vars == <<backend, phrases, pinyins, filed, masked>>

ListsIdle ==
    searched = NoInput /\ candidates = <<>> /\ asked = [by |-> "nobody", option |-> {}]

LookupsInit ==
    /\ task \in Tasks
    /\ IF task = "lists" THEN C!Init ELSE ListsIdle
    /\ S!Init
    /\ Init
    /\ B!Init /\ (task # "tables" => backend = "BerkeleyDB")

LookupsNext ==
    \/ /\ task = "lists" /\ C!Next
       /\ UNCHANGED <<task, text_vars, vars, table_vars>>
    \/ /\ task = "texts" /\ S!Next
       /\ UNCHANGED <<task, list_vars, vars, table_vars>>
    \/ /\ task = "models" /\ Next
       /\ UNCHANGED <<task, list_vars, text_vars, table_vars>>
    \/ /\ task = "tables" /\ B!Next
       /\ UNCHANGED <<task, list_vars, text_vars, vars>>

LookupsSpec ==
    LookupsInit
    /\ [][LookupsNext]_<<task, list_vars, text_vars, vars, table_vars>>

-----------------------------------------------------------------------------
(* The properties, stated in the modules; those of the models are under their own *)
(* names.                                                                         *)

\* Every phrase that was found is offered once, and the candidates are in the
\* order the caller asked for (pinyin_guess_candidates).
OfferedOnceInOrder == task = "lists" => C!OfferedOnce /\ C!ListOrdered

\* Searches in the phrase tables reach what they hold (PhraseLargeTable3), whichever
\* database holds the records and whatever its entries were used for before.
PhrasesReached == /\ task = "texts" => S!PhrasesReached
                  /\ task = "tables" => B!EntriesReused

\* mergeseq writes the longest phrases (utils/segment/mergeseq.cpp).
MergedLongest == task = "texts" => S!MergedLongest

\* src/utils/segment/spseg.cpp:48 "graph shortest path sentence segment".
ShortestPath == S!ShortestPath

\* src/storage/facade_phrase_table3.h:200 "Mask out the matched phrase index.": with
\* every database of the build.
OnlyMatchedMasked == B!OnlyMatchedMasked
=============================================================================
