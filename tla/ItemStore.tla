------------------------------ MODULE ItemStore ------------------------------
(***************************************************************************)
(* What a phrase library promises: an item for each token, with the phrase *)
(* it stands for, its frequency and its pronunciations in the order they   *)
(* were given; learning changes the item it names and no other, and        *)
(* reopening brings back the items that were saved.                        *)
(* Module PhraseLayout, which lays the items out in memory and in files,   *)
(* takes each of these steps with one of its own.                          *)
(***************************************************************************)
EXTENDS Naturals, Sequences, SequencesExt

CONSTANTS
    Wrap,           \* 2^32 in the code
    Like(_, _),     \* whether typed keys may mean the keys of a pronunciation
    NoItem

VARIABLES
    known,          \* the items in memory
    kept            \* the items that were saved last

unigram_factor == 3

(* The frequencies of the first n pronunciations; the guards against       *)
(* overflow look at them only.                                             *)
PronTotal(prons, n) ==
    FoldLeft(LAMBDA sum, p : (sum + p.freq) % Wrap, 0, SubSeq(prons, 1, n))

Overflows(prons, n, d) == PronTotal(prons, n) > (PronTotal(prons, n) + d) % Wrap

Raised(prons, n, d) == [prons EXCEPT ![n].freq = (@ + d) % Wrap]

(* Another count of a pronunciation, or a pronunciation more.              *)
WithPronunciation(prons, keys, d) ==
    LET same == SelectInSeq(prons, LAMBDA p : p.keys = keys)
    IN  IF same = 0 THEN Append(prons, [keys |-> keys, freq |-> d])
        ELSE IF Overflows(prons, same, d) THEN prons
        ELSE Raised(prons, same, d)

(* Every pronunciation that was perhaps typed, up to one that overflows.   *)
Heard(prons, typed, d) ==
    LET heard[n \in 0 .. Len(prons)] ==
            IF n = 0 THEN [prons |-> prons, on |-> TRUE]
            ELSE CHOOSE next \in
                    {IF ~h.on \/ ~Like(typed, h.prons[n].keys) THEN h
                     ELSE IF Overflows(h.prons, n, d) THEN [h EXCEPT !.on = FALSE]
                     ELSE [h EXCEPT !.prons = Raised(@, n, d)] : h \in {heard[n - 1]}} : TRUE
    IN  heard[Len(prons)].prons

Learn(t, item) == known' = [known EXCEPT ![t] = item] /\ UNCHANGED kept

(* counted: whether the total of the library can take the amount.          *)
More(d, counted) == IF counted THEN (unigram_factor * d) % Wrap ELSE 0

AddPhrase(t, phrase, keys, d, counted) ==
    /\ known[t] = NoItem
    /\ Learn(t, [phrase |-> phrase, freq |-> More(d, counted),
                 prons |-> <<[keys |-> keys, freq |-> d]>>])

AddPronunciation(t, keys, d) ==
    /\ known[t] # NoItem
    /\ Learn(t, [known[t] EXCEPT !.prons = WithPronunciation(@, keys, d)])

Train(t, typed, d, counted) ==
    /\ known[t] # NoItem
    /\ Learn(t, [known[t] EXCEPT !.prons = Heard(@, typed, d),
                                 !.freq = (@ + More(d, counted)) % Wrap])

RemovePhrase(t) == known[t] # NoItem /\ Learn(t, NoItem)

Stay == UNCHANGED <<known, kept>>

Save == kept' = known /\ UNCHANGED known

Reopen == known' = kept /\ UNCHANGED kept
==============================================================================
