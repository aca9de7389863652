---------------------------- MODULE PinyinParsers ----------------------------
(***************************************************************************)
(* What the parsers make of typed input: FullPinyinParser2, a dynamic      *)
(* program over all ways to cut the input into syllables, and the forward  *)
(* matches of the double pinyin and zhuyin parsers (storage/*_parser2.cpp).*)
(*                                                                         *)
(* An input is a record: `len' columns, of which those in `seps' hold "'", *)
(* and `spell', which maps each span <<begin, end>> that parse_one_key     *)
(* accepts to its key and its distance (0, or 1 for a corrected spelling). *)
(* The letters themselves do not matter.  No span holds a "'".             *)
(***************************************************************************)
EXTENDS Integers, Sequences, SequencesExt, FiniteSetsExt

CONSTANTS
    max_full_pinyin_length,
    max_double_pinyin_length,
    max_chewing_length,
    ValidZhuyin   \* the keys is_valid_zhuyin accepts

Starts(input, n, max) == {m \in 0 .. n - 1 : /\ <<m, n>> \in DOMAIN input.spell
                                             /\ n - m <= max}

Key(input, begin, end) == [begin |-> begin, end |-> end,
                           key |-> input.spell[<<begin, end>>].key]

-----------------------------------------------------------------------------
(* The dynamic program. *)

NoStep == [num_keys |-> 0, parsed_len |-> 0, distance |-> 0, last_step |-> -1]

BeatsByLength(value, next) ==
    next.last_step = -1 \/ value.parsed_len > next.parsed_len

\* A mutant of Beats: the number of keys does not matter.
BeatsByDistance(value, next) ==
    \/ BeatsByLength(value, next)
    \/ /\ value.parsed_len = next.parsed_len
       /\ value.distance < next.distance

\* When a value replaces the one a column has.
Beats(value, next) ==
    \/ BeatsByLength(value, next)
    \/ /\ value.parsed_len = next.parsed_len
       /\ \/ value.num_keys < next.num_keys
          \/ /\ value.num_keys = next.num_keys
             /\ value.distance < next.distance

\* The step whose value stays: of equal values the first one, which has the longest
\* last key.
BestStep(values) ==
    CHOOSE m \in DOMAIN values : \A o \in DOMAIN values :
        /\ ~Beats(values[o], values[m])
        /\ o < m => Beats(values[m], values[o])

\* m_parse_steps.  Columns no key ends at keep NoStep; what starts there counts
\* from zero, which its parsed_len tells.
ParseSteps(input) ==
    LET step[n \in 0 .. input.len] ==
          LET starts == Starts(input, n, max_full_pinyin_length)
              values == [m \in starts |->
                            [num_keys   |-> step[m].num_keys + 1,
                             parsed_len |-> step[m].parsed_len + n - m,
                             distance   |-> step[m].distance
                                            + input.spell[<<m, n>>].distance,
                             last_step  |-> m]]
          IN  IF n = 0 THEN NoStep
              ELSE IF n - 1 \in input.seps
              THEN [step[n - 1] EXCEPT !.parsed_len = @ + 1, !.last_step = n - 1]
              ELSE IF starts = {} THEN NoStep
              ELSE values[BestStep(values)]
    IN  step

\* final_step: back from the longest match that starts at the beginning.
FullParse(input) ==
    LET step == ParseSteps(input)
        last == Max({n \in 0 .. input.len : step[n].parsed_len = n})
        saved[n \in 0 .. input.len] ==
            IF step[n].last_step = -1 THEN <<>>
            ELSE IF n - 1 \in input.seps THEN saved[n - 1]
            ELSE Append(saved[step[n].last_step], Key(input, step[n].last_step, n))
    IN  [parsed_len |-> last, keys |-> saved[last]]

-----------------------------------------------------------------------------
(* The forward matches: the longest key at each place. *)

\* Characters outside the scheme, "'" among them, end the input.
MaximumLen(input) == Min(input.seps \cup {input.len})

Longest(input, begin, max) ==
    Max({begin} \cup {e \in begin + 1 .. MaximumLen(input) :
                         e - begin <= max /\ <<begin, e>> \in DOMAIN input.spell})

ForwardMatch(input, max, valid) ==
    LET match[begin \in 0 .. input.len] ==
            LET end == Longest(input, begin, max)
            IN  IF end = begin \/ input.spell[<<begin, end>>].key \notin valid
                THEN [parsed_len |-> begin, keys |-> <<>>]
                ELSE [match[end] EXCEPT !.keys = <<Key(input, begin, end)>> \o @]
    IN  match[0]

DoubleParse(input) ==
    ForwardMatch(input, max_double_pinyin_length,
                 {input.spell[span].key : span \in DOMAIN input.spell})

ChewingParse(input) ==
    ForwardMatch(input, max_chewing_length, ValidZhuyin)

-----------------------------------------------------------------------------
(* What a parse is, without a program. *)

\* All ways to cut the first n columns into keys and "'"s.
Cuts(input) ==
    LET cuts[n \in 0 .. input.len] ==
            IF n = 0 THEN {<<>>}
            ELSE IF n - 1 \in input.seps THEN cuts[n - 1]
            ELSE UNION {{Append(cut, Key(input, m, n)) : cut \in cuts[m]} :
                           m \in Starts(input, n, max_full_pinyin_length)}
    IN  cuts

Distance(input, cut) ==
    SumFunction([k \in DOMAIN cut |-> input.spell[<<cut[k].begin, cut[k].end>>].distance])

\* No other way to cut a prefix of the input reads more of it, or the same with
\* fewer keys, or with as many keys and fewer corrections.
IsBest(input, parse) ==
    LET cuts == Cuts(input)
    IN  /\ parse.keys \in cuts[parse.parsed_len]
        /\ \A n \in parse.parsed_len + 1 .. input.len : cuts[n] = {}
        /\ \A cut \in cuts[parse.parsed_len] :
              \/ Len(parse.keys) < Len(cut)
              \/ /\ Len(parse.keys) = Len(cut)
                 /\ Distance(input, parse.keys) <= Distance(input, cut)
=============================================================================
