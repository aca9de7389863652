------------------------------- MODULE MCInput -------------------------------
(* How an input is read, looked up and made a sentence: the key matrix, the    *)
(* zhuyin keyboards and the beam search.                                       *)
(*                                                                             *)
(* Syllables in the manner of fang, an, fan, gan, xian and xi: "fang" and      *)
(* "an" are resplit to "fan" and "gan", "xian" is divided; "f" is typed for    *)
(* its initial only.  One letter each stands for a syllable half; a span may   *)
(* be spelled in no way, and one of two columns as a corrected key.            *)
EXTENDS KeyMatrix, NBestTrellis

an == <<0, 1, 0>>
an3 == <<0, 1, 3>>
an4 == <<0, 1, 4>>
ang == <<0, 2, 0>>
f == <<1, 0, 0>>
fan == <<1, 1, 0>>
fan1 == <<1, 1, 1>>
fang == <<1, 2, 0>>
fang1 == <<1, 2, 1>>
fang4 == <<1, 2, 4>>
gan == <<3, 1, 0>>
kan == <<4, 1, 0>>
xi == <<2, 3, 0>>
xian == <<2, 4, 0>>
shi == <<5, 3, 0>>

MCzero_key == <<0, 0, 0>>
MCValidZhuyin == {an, fang, gan}
MCNoSyllable == {shi}
MCSpelled == {[key |-> an, length |-> 1, distance |-> 0],
              [key |-> fang, length |-> 2, distance |-> 0],
              [key |-> xian, length |-> 2, distance |-> 1],
              [key |-> gan, length |-> 3, distance |-> 0]}
MCSpans == {<<an, 1>>, <<fang, 2>>, <<fan, 1>>, <<gan, 2>>, <<gan, 3>>, <<xian, 2>>, <<xi, 1>>}
MCDivided == [key \in {xian} |-> [first |-> xi, length |-> 1, second |-> an]]
MCResplit == [pair \in {<<fang, an>>} |->
                 [first |-> fan, length |-> 1, second |-> gan]]
MCAmbInitials == {<<gan, kan>>, <<xi, shi>>}
MCAmbFinals == {<<fan, fang>>, <<fang, fan>>, <<an, ang>>}

MCSystemPhrases == {<<<<an>>, 1>>, <<<<an4>>, 2>>, <<<<fan, gan>>, 3>>,
                    <<<<fang4, an, an>>, 4>>, <<<<xian>>, 5>>, <<<<ang, fang>>, 6>>,
                    <<<<fang>>, 7>>, <<<<fan>>, 7>>, <<<<gan>>, 8>>}
MCUserPhrases == {<<<<fan1>>, 11>>, <<<<fang1, an4>>, 12>>, <<<<fang4, an3>>, 13>>,
                  <<<<fan, an4>>, 12>>, <<<<f, an>>, 14>>, <<<<f>>, 12>>}
MCMasks == {{12}, {11, 12, 13, 14}}
MCQueries == UNION {[1 .. n -> {an, an3, an4, f, fan, fan1, fang, fang1}] : n \in 1 .. 2}
-----------------------------------------------------------------------------
(* The keyboards: rows of the standard, the HSU and the DaChen CP26 layouts    *)
(* (zhuyin_table.h) where a key carries several symbols, or a symbol and a     *)
(* tone, and syllables made of them; HSU's index corrects what its first       *)
(* symbols make of a key.  Symbols go by the names of their sounds.            *)

Row(key, symbol) == <<key, symbol>>
Typing(parts, symbols) == [parts |-> parts, symbols |-> symbols]
Itself(S) == [s \in S |-> s]

Syllables ==
    {<<"s">>, <<"s", "eng">>, <<"b", "i">>, <<"p", "i">>, <<"b", "a">>, <<"zh">>,
     <<"zh", "a">>, <<"zh", "ao">>, <<"zh", "ang">>, <<"zh", "ou">>, <<"ch">>,
     <<"ch", "ou">>, <<"z">>, <<"z", "ao">>, <<"z", "u">>, <<"i">>, <<"a">>,
     <<"i", "a">>, <<"i", "e">>, <<"ou">>, <<"v">>, <<"r">>, <<"er">>, <<"en">>,
     <<"ang">>, <<"eng">>, <<"n", "en">>, <<"l", "eng">>, <<"j", "i">>, <<"j", "i", "a">>}

\* Few syllables are said in the fifth tone, and some not in others.
FifthTone == {<<"zh", "a">>, <<"a">>, <<"i", "a">>, <<"j", "i", "a">>, <<"i", "e">>,
              <<"b", "a">>, <<"z">>}
MCSaid == {[symbols |-> s, tone |-> t] : s \in Syllables, t \in 0 .. 5}
             \ ({[symbols |-> s, tone |-> 5] : s \in Syllables \ FifthTone}
                 \cup {[symbols |-> s, tone |-> 1] : s \in {<<"l", "eng">>, <<"n", "en">>}}
                 \cup {[symbols |-> s, tone |-> 4] : s \in {<<"eng">>, <<"s", "eng">>}})

Standard == [symbols  |-> <<Row("5", "zh"), Row("8", "a"), Row("u", "i")>>,
             initials |-> <<>>, middles |-> <<>>, finals |-> <<>>,
             tones    |-> (" " :> 1) @@ ("4" :> 4),
             index    |-> (<<"a", "i">> :> <<"i", "a">>) @@ Itself(Syllables)]

HSU == [symbols  |-> <<>>,
        initials |-> <<Row("j", "j"), Row("j", "zh"), Row("l", "l"), Row("n", "n"),
                       Row("s", "s")>>,
        middles  |-> <<Row("e", "i")>>,
        finals   |-> <<Row("e", "e"), Row("k", "ang"), Row("l", "eng"), Row("l", "er"),
                       Row("n", "en"), Row("y", "a")>>,
        tones    |-> (" " :> 1) @@ ("j" :> 4) @@ ("s" :> 5),
        index    |-> (<<"j">> :> <<"zh">>) @@ (<<"j", "ang">> :> <<"zh", "ang">>)
                     @@ (<<"j", "a">> :> <<"zh", "a">>) @@ (<<"l">> :> <<"er">>)
                     @@ (<<"n">> :> <<"en">>) @@ Itself(Syllables)]

DaChenCP26 == [symbols  |-> <<>>,
               initials |-> <<Row("b", <<"r">>), Row("n", <<"s">>), Row("q", <<"b">>),
                              Row("q", <<"p">>), Row("t", <<"zh">>), Row("t", <<"ch">>),
                              Row("y", <<"z">>)>>,
               middles  |-> <<Row("j", <<"u">>), Row("m", <<"v">>), Row("m", <<"ou">>),
                              Row("u", <<"i">>), Row("u", <<"a">>), Row("u", <<"i", "a">>)>>,
               finals   |-> <<Row("b", <<"e">>), Row("l", <<"ao">>), Row("l", <<"ang">>),
                              Row("m", <<"ou">>), Row("n", <<"eng">>), Row("u", <<"a">>)>>,
               isfinal  |-> {"ou", "a"},
               tones    |-> (" " :> 1) @@ ("y" :> 5),
               index    |-> Itself(Syllables)]

MCKeyboards == [simple |-> Standard, discrete |-> HSU, dachen_cp26 |-> DaChenCP26,
                direct |-> [tones |-> [n \in 1 .. 5 |-> n], index |-> Itself(Syllables)]]

MCTypings ==
    [simple |->
        {Typing(<<<<"5">>>>, <<"zh">>), Typing(<<<<"5">>, <<"8">>>>, <<"zh", "a">>),
         Typing(<<<<"u">>, <<"8">>>>, <<"i", "a">>), Typing(<<<<"8">>, <<"u">>>>, <<"i", "a">>),
         Typing(<<<<"8">>>>, <<"a">>)},
     discrete |->
        {Typing(<<<<"l">>>>, <<"er">>), Typing(<<<<"l">>, <<"l">>>>, <<"l", "eng">>),
         Typing(<<<<"n">>>>, <<"en">>), Typing(<<<<"n">>, <<"n">>>>, <<"n", "en">>),
         Typing(<<<<"j">>>>, <<"zh">>), Typing(<<<<"j">>, <<"e">>>>, <<"j", "i">>),
         Typing(<<<<"j">>, <<"e">>, <<"y">>>>, <<"j", "i", "a">>), Typing(<<<<"s">>>>, <<"s">>),
         Typing(<<<<"e">>, <<"e">>>>, <<"i", "e">>), Typing(<<<<"k">>>>, <<"ang">>),
         Typing(<<<<"j">>, <<"k">>>>, <<"zh", "ang">>), Typing(<<<<"j">>, <<"y">>>>, <<"zh", "a">>)},
     dachen_cp26 |->
        {Typing(<<<<"n">>>>, <<"s">>), Typing(<<<<"n">>, <<"n">>>>, <<"s", "eng">>),
         Typing(<<<<"q">>, <<"u">>>>, <<"b", "i">>), Typing(<<<<"q", "q">>, <<"u">>>>, <<"p", "i">>),
         Typing(<<<<"q">>, <<"u", "u">>>>, <<"b", "a">>), Typing(<<<<"t">>>>, <<"zh">>),
         Typing(<<<<"t", "t">>>>, <<"ch">>), Typing(<<<<"t">>, <<"l", "l">>>>, <<"zh", "ang">>),
         Typing(<<<<"y">>>>, <<"z">>), Typing(<<<<"y">>, <<"l">>>>, <<"z", "ao">>),
         Typing(<<<<"y">>, <<"j">>>>, <<"z", "u">>), Typing(<<<<"u", "u", "u">>>>, <<"i", "a">>),
         Typing(<<<<"m", "m">>>>, <<"ou">>), Typing(<<<<"t", "t">>, <<"m", "m">>>>, <<"ch", "ou">>),
         Typing(<<<<"u">>, <<"b">>>>, <<"i", "e">>), Typing(<<<<"b">>>>, <<"r">>)}]

-----------------------------------------------------------------------------
(* Sentences of four columns. *)

MCKinds == {[nstore |-> 2, nbest |-> 3], [nstore |-> 1, nbest |-> 1]}

\* After the start of a sentence (1) or the phrase 9 before the
\* input as well.  A sentence takes three of the words 2 .. 8, or two.
MCWords == (<<0, 1>> :> {2, 3}) @@ (<<1, 2>> :> {4, 8}) @@ (<<2, 3>> :> {5})
           @@ (<<0, 2>> :> {6}) @@ (<<1, 3>> :> {7})

MCPairs == {<<9, 3>>, <<2, 4>>, <<3, 4>>, <<4, 5>>, <<6, 5>>}

\* One character to a key, or a phrase that is shorter than its keys: 6.
MCLengths == {[t \in 2 .. 8 |-> IF t \in 6 .. 7 THEN 2 ELSE 1],
              [t \in 2 .. 8 |-> IF t = 7 THEN 2 ELSE 1]}

\* 2 and 3 equal or not, long phrases rare or common, 7 without a frequency.
MCUnigrams == {[t \in 2 .. 8 |-> CASE t = 2 -> first [] t \in 6 .. 7 -> long [] OTHER -> -4] :
                 first \in {-3, -4}, long \in {-4, -8}}
              \cup {[t \in 2 .. 8 \ {7} |-> -4]}

MCBigrams == UNION {[pairs -> {-1, -3}] : pairs \in SUBSET MCPairs}

MCProblems ==
    {[size |-> 4, prefixes |-> prefixes, words |-> MCWords, length |-> length,
      unigram |-> unigram, bigram |-> bigram] :
        prefixes \in {{1}, {1, 9}}, length \in MCLengths,
        unigram \in MCUnigrams, bigram \in MCBigrams}
-----------------------------------------------------------------------------

CONSTANTS Keyboards, Typings, Said,
          Tasks  \* those a run is about

VARIABLES task,  \* which of them a behaviour is about; the others rest
          key_options, scheme, meant, pressed, clear

Boards == INSTANCE ZhuyinKeyboards WITH
              max_chewing_length <- 4, max_chewing_dachen26_length <- 12,
              ValidZhuyin <- Said, MaxSyllables <- 2

boardVars == <<key_options, scheme, meant, pressed, clear>>

NoSearch == /\ problem = [size |-> 0] /\ lookup = [nstore |-> 0] /\ column = -1
            /\ trellis = <<>> /\ cut = FALSE /\ results = <<>>

InputInit ==
    /\ task \in Tasks
    /\ KeyMatrixInit
    /\ Boards!Init
    /\ IF task = "sentences" THEN Init ELSE NoSearch
    /\ task # "keyboards" => scheme = "simple" /\ "FORCE_TONE" \notin key_options

InputNext ==
    \/ task = "matrix" /\ KeyMatrixNext /\ UNCHANGED <<task, vars, boardVars>>
    \/ task = "keyboards" /\ Boards!Next /\ UNCHANGED <<task, vars, keyMatrixVars>>
    \/ task = "sentences" /\ Next /\ UNCHANGED <<task, boardVars, keyMatrixVars>>

InputSpec == InputInit /\ [][InputNext]_<<task, vars, boardVars, keyMatrixVars>>

(* What is typed is read and counted as it was typed: the zhuyin parsers find  *)
(* the syllables pressed on their keyboards, and of a phrase that spells the   *)
(* whole input the characters before an offset are those typed before it.      *)
TypedReadAndCounted ==
    CASE task = "keyboards" -> Boards!TypedIsRead
      [] task = "matrix" -> CharactersCounted
      [] task = "sentences" -> TRUE
=============================================================================
