--------------------------- MODULE ZhuyinKeyboards ---------------------------
(***************************************************************************)
(* How keys pressed on the zhuyin keyboards become syllables: the four     *)
(* parsers of storage/zhuyin_parser2.cpp, each a parse_one_key within the  *)
(* forward match of PinyinParsers, and a user who types syllables one      *)
(* after another, each with its tone.                                      *)
(*                                                                         *)
(* A table of a keyboard is a sequence of rows <<key, symbol>>; tones map  *)
(* keys to tones.  An index (zhuyin_index, hsu_zhuyin_index) maps          *)
(* sequences of symbols to syllables, the corrected spellings among them.  *)
(***************************************************************************)
EXTENDS PinyinParsers

CONSTANTS
    max_chewing_dachen26_length,
    Keyboards,      \* from names of schemes to their tables and index
    Typings,        \* from schemes to the ways to type a syllable
    MaxSyllables    \* bound: syllables typed

VARIABLES
    key_options,    \* of USE_TONE, FORCE_TONE
    scheme,
    meant,      \* the syllables typed, with their tones
    pressed,    \* the keys pressed for them
    clear       \* history: no key was pressed for two things in a row

keyboardVars == <<key_options, scheme, meant, pressed, clear>>

CHEWING_ZERO_TONE == 0
CHEWING_1 == 1

TheKey(syllable, tone) == [symbols |-> syllable, tone |-> tone]

Typed(rows, key) == SelectSeq(rows, LAMBDA row : row[1] = key)

(* What search_chewing_index makes of the symbols: one key, or none.       *)
Looked(kb, symbols, tone) ==
    {TheKey(kb.index[s], tone) : s \in {symbols} \cap DOMAIN kb.index}

Refused(tone) == "FORCE_TONE" \in key_options /\ tone = CHEWING_ZERO_TONE

(* search_chewing_tones of the last key                                    *)
HasTone(kb, str) == "USE_TONE" \in key_options /\ Last(str) \in DOMAIN kb.tones

LastTone(kb, str) == IF HasTone(kb, str) THEN kb.tones[Last(str)] ELSE CHEWING_ZERO_TONE
ButTone(kb, str) == IF HasTone(kb, str) THEN Front(str) ELSE str

-----------------------------------------------------------------------------
(* ZhuyinSimpleParser2: a symbol to a key.                                 *)

SimpleKey(kb, str) ==
    LET rest == ButTone(kb, str)
        tone == LastTone(kb, str)
    IN  IF Refused(tone) /\ "USE_TONE" \in key_options THEN {}
        ELSE IF \E n \in DOMAIN rest : Typed(kb.symbols, rest[n]) = <<>> THEN {}
        ELSE Looked(kb, [n \in DOMAIN rest |-> Typed(kb.symbols, rest[n])[1][2]], tone)

-----------------------------------------------------------------------------
(* ZhuyinDiscreteParser2: an initial, a middle, a final and a tone, the    *)
(* first a key has in each table; which of its others is meant is for the  *)
(* index to correct.                                                       *)

Part(rows, str, n) ==
    IF n > Len(str) THEN <<>>
    ELSE LET typed == Typed(rows, str[n]) IN IF typed = <<>> THEN <<>> ELSE <<typed[1][2]>>

DiscreteKey(kb, str) ==
    LET initial == Part(kb.initials, str, 1)
        middle  == Part(kb.middles, str, 1 + Len(initial))
        final   == Part(kb.finals, str, 1 + Len(initial \o middle))
        symbols == initial \o middle \o final
        rest    == SubSeq(str, 1 + Len(symbols), Len(str))
        toned   == Len(rest) = 1 /\ HasTone(kb, rest)
        tone    == IF toned THEN LastTone(kb, rest) ELSE CHEWING_ZERO_TONE
    IN  IF (rest # <<>> /\ ~toned) \/ Refused(tone) THEN {}
        ELSE Looked(kb, symbols, tone)

-----------------------------------------------------------------------------
(* ZhuyinDaChenCP26Parser2: a key is pressed again for the next of its     *)
(* symbols.                                                                *)

(* count_same_chars                                                        *)
CountSame(str, n) ==
    Cardinality({e \in n .. Len(str) : \A i \in n .. e : str[i] = str[n]})

Choice(choices, count) == choices[((count - 1) % Len(choices)) + 1]

(* What the keys at n make of a table, and where they end.  The choices    *)
(* are sequences of symbols: a middle key may stand for a final too.       *)
Chosen(rows, str, n) ==
    IF n > Len(str) THEN [symbols |-> <<>>, next |-> n]
    ELSE LET choices == Typed(rows, str[n])
         IN  IF choices = <<>> THEN [symbols |-> <<>>, next |-> n]
             ELSE [symbols |-> Choice(choices, CountSame(str, n))[2],
                   next    |-> n + CountSame(str, n)]

DaChenCP26Key(kb, str) ==
    LET rest    == ButTone(kb, str)
        tone    == LastTone(kb, str)
        initial == Chosen(kb.initials, rest, 1)
        middle  == Chosen(kb.middles, rest, initial.next)
        (* "for 'u' and 'm'": no final after a middle that is one.         *)
        final   == IF \E n \in DOMAIN middle.symbols : middle.symbols[n] \in kb.isfinal
                   THEN [symbols |-> <<>>, next |-> middle.next]
                   ELSE Chosen(kb.finals, rest, middle.next)
    IN  IF (Refused(tone) /\ "USE_TONE" \in key_options) \/ final.next # Len(rest) + 1 THEN {}
        ELSE Looked(kb, initial.symbols \o middle.symbols \o final.symbols, tone)

-----------------------------------------------------------------------------
(* ZhuyinDirectParser2 reads the symbols themselves, in words; a word      *)
(* without a tone mark has the first tone.                                 *)

DirectKey(kb, str) ==
    Looked(kb, ButTone(kb, str), IF HasTone(kb, str) THEN LastTone(kb, str) ELSE CHEWING_1)

DirectParse(kb, words) ==
    LET read[n \in 0 .. Len(words)] ==
            IF n = 0 THEN <<>>
            ELSE IF Len(read[n - 1]) < n - 1 THEN read[n - 1]
            ELSE read[n - 1] \o SetToSeq(DirectKey(kb, words[n]))
    IN  read[Len(words)]

-----------------------------------------------------------------------------
(* The forward match of the other three.                                   *)

Keyboard == Keyboards[scheme]

OneKey(str) ==
    CASE scheme = "simple"       -> SimpleKey(Keyboard, str)
      [] scheme = "discrete"     -> DiscreteKey(Keyboard, str)
      [] scheme = "dachen_cp26"  -> DaChenCP26Key(Keyboard, str)

(* A mutant of MaxLength: DaChen CP26 repeats keys, and needs more.        *)
MaxLengthOfOthers == max_chewing_length

MaxLength ==
    IF scheme = "dachen_cp26" THEN max_chewing_dachen26_length ELSE max_chewing_length

InScheme(kb, key) ==
    \/ \E rows \in {kb.symbols, kb.initials, kb.middles, kb.finals} : Typed(rows, key) # <<>>
    \/ "USE_TONE" \in key_options /\ key \in DOMAIN kb.tones

(* What parse_one_key makes of each span.                                  *)
KeyOf(str) ==
    [span \in {s \in (0 .. Len(str)) \X (0 .. Len(str)) : s[2] - s[1] \in 1 .. MaxLength}
        |-> OneKey(SubSeq(str, span[1] + 1, span[2]))]

Accepted(keyof) ==
    [span \in {s \in DOMAIN keyof : keyof[s] # {}} |->
        [key |-> CHOOSE key \in keyof[span] : TRUE, distance |-> 0]]

Read(str) ==
    LET input == [len   |-> Len(str),
                  seps  |-> {n \in 0 .. Len(str) - 1 : ~InScheme(Keyboard, str[n + 1])},
                  spell |-> Accepted(KeyOf(str))]
        parsed == ForwardMatch(input, MaxLength, ValidZhuyin)
    IN  [n \in DOMAIN parsed.keys |-> parsed.keys[n].key]

-----------------------------------------------------------------------------
(* The user types a syllable as a typing says: its parts, each with the    *)
(* keys for it, and what they stand for.  A syllable is said in some tones *)
(* only (ValidZhuyin).                                                     *)

Init ==
    /\ key_options \in {{"USE_TONE"}, {"USE_TONE", "FORCE_TONE"}}
    /\ scheme \in DOMAIN Typings
    /\ meant = <<>> /\ pressed = <<>> /\ clear = TRUE

TypeSyllable(typing, tone_key) ==
    LET keys == FlattenSeq(typing.parts)
        key  == TheKey(typing.symbols, Keyboard.tones[tone_key])
    IN  /\ Len(meant) < MaxSyllables
        /\ key \in ValidZhuyin
        /\ meant' = Append(meant, key)
        /\ pressed' = pressed \o keys \o <<tone_key>>
        /\ clear' = (/\ clear
                     /\ \A n \in 1 .. Len(typing.parts) - 1 :
                           typing.parts[n][1] # typing.parts[n + 1][1]
                     /\ pressed = <<>> \/ ~IsSuffix(<<keys[1], keys[1]>>, pressed))
        /\ UNCHANGED <<key_options, scheme>>

Next == \E typing \in Typings[scheme], tone_key \in DOMAIN Keyboard.tones :
            TypeSyllable(typing, tone_key)

Spec == Init /\ [][Next]_keyboardVars

-----------------------------------------------------------------------------
(* Properties. *)

(* Syllables typed with their tones are read as they were meant, however   *)
(* many symbols lie on a key and though tones lie on keys of symbols: by   *)
(* the simple and the discrete parsers always, by DaChen CP26's where no   *)
(* key was pressed for two things in a row (it takes them for one: its     *)
(* count_same_chars); and a text that spells them is read the same.        *)
TypedIsRead ==
    /\ scheme = "dachen_cp26" => clear
    => /\ Read(pressed) = meant
       /\ DirectParse(Keyboards["direct"],
                      [n \in DOMAIN meant |-> Append(meant[n].symbols, meant[n].tone)]) = meant
==============================================================================
