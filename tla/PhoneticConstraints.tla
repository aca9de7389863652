------------------------ MODULE PhoneticConstraints ------------------------
(***************************************************************************)
(* The forced selections of one input session: ForwardPhoneticConstraints  *)
(* of src/lookup/phonetic_lookup.{h,cpp}, with the calls of                *)
(* src/pinyin.cpp that change it and the n-best sentences that are         *)
(* computed under it.                                                      *)
(*                                                                         *)
(* The array has one entry per column of the parsed input.  A picked       *)
(* phrase over the columns b .. e-1 is kept as one "onestep" entry at b    *)
(* (token, and the column e of the next word) and "nosearch" entries at    *)
(* b+1 .. e-1 that point back to b.  The columns count from 0 as in the    *)
(* code.  Fields an entry does not use are set to NullToken and 0: the     *)
(* code leaves old values there and never reads them.                      *)
(***************************************************************************)
EXTENDS Integers, FiniteSets, Sequences

CONSTANTS
    Token,          \* phrase tokens
    NullToken,      \* null_token
    Input,          \* the parsed inputs a session may hold (see Matrix)
    NBest           \* how many sentences a search keeps

(* A parsed input: the number of columns of the phonetic key matrix (one   *)
(* more than the typed length; 0 when nothing is parsed) and the spans     *)
(* that some phrase pronounces in it.  Whether a phrase's pronunciation    *)
(* possibility over two columns is positive depends on the keys between    *)
(* them; the keys themselves are left out.                                 *)
Span == {s \in [from : Nat, to : Nat, token : Token] : s.from < s.to}

Matrix == {m \in [size : Nat, fits : SUBSET Span] :
              \A s \in m.fits : s.to < m.size}

Empty == [size |-> 0, fits |-> {}]

ASSUME ConstantsAssumption ==
    /\ NullToken \notin Token
    /\ Input \subseteq Matrix
    /\ NBest \in Nat \ {0}

VARIABLES
    matrix,         \* instance->m_matrix
    length,         \* m_constraints->len
    constraints,    \* m_constraints: column -> entry
    results,        \* instance->m_nbest_results: a sequence of sentences
    offered,        \* instance->m_candidates: the spans of the phrases and the
                    \* indices of the sentences in the candidate list
    current,        \* history: the results are those of the present input
    trainable,      \* history: the results the protocol allows to train
    status          \* "failed" once an assertion failed or an array was
                    \* read past its end; the program is gone then

vars == <<matrix, length, constraints, results, offered, current, trainable, status>>

NoConstraint == [type |-> "none", token |-> NullToken, step |-> 0]
OneStep(t, e) == [type |-> "onestep", token |-> t, step |-> e]
NoSearch(b) == [type |-> "nosearch", token |-> NullToken, step |-> b]

Entry == [type : {"none", "onestep", "nosearch"},
          token : Token \cup {NullToken}, step : Nat]

---------------------------------------------------------------------------
(* The array operations.                                                   *)

(* The onestep entry that answers for column i.                            *)
Anchor(c, i) == IF c[i].type = "nosearch" THEN c[i].step ELSE i

(* The columns clear_constraint(i) resets: those of the whole phrase.      *)
Block(c, i) ==
    IF c[i].type = "none" THEN {}
    ELSE {j \in DOMAIN c : Anchor(c, i) <= j /\ j < c[Anchor(c, i)].step}

(* clear_constraint for every column of I: with disjoint phrases the order *)
(* does not matter.                                                        *)
Cleared(c, I) ==
    [j \in DOMAIN c |->
        IF \E i \in I \cap DOMAIN c : j \in Block(c, i) THEN NoConstraint ELSE c[j]]

Covers(s, j) == s.from <= j /\ j < s.to

(* Mutations: what is overwritten is not cleared; every later choice goes. *)
PlacedOver(c, S) ==
    [j \in DOMAIN c |->
        IF \E s \in S : Covers(s, j)
        THEN LET s == CHOOSE s \in S : Covers(s, j)
             IN  IF j = s.from THEN OneStep(s.token, s.to) ELSE NoSearch(s.from)
        ELSE c[j]]

PlacedLast(c, S) ==
    PlacedOver(Cleared(c, {j \in DOMAIN c : \E s \in S : s.from <= j}), S)

(* add_constraint for each of the disjoint spans S: whatever it runs into  *)
(* is cleared first, then the entries are written.                         *)
Placed(c, S) ==
    LET cleared == Cleared(c, {j \in DOMAIN c : \E s \in S : Covers(s, j)})
    IN  [j \in DOMAIN c |->
            IF \E s \in S : Covers(s, j)
            THEN LET s == CHOOSE s \in S : Covers(s, j)
                 IN  IF j = s.from THEN OneStep(s.token, s.to) ELSE NoSearch(s.from)
            ELSE cleared[j]]

(* One add_constraint; it refuses a span that ends past the array.         *)
Added(c, n, s) == IF s.to > n THEN c ELSE Placed(c, {s})

(* The length is synced; what the shrinking cuts off is gone.              *)
Resized(c, oldlength, newlength) ==
    [j \in 0 .. newlength - 1 |-> IF j < oldlength THEN c[j] ELSE NoConstraint]

SpanAt(c, i) == [from |-> i, to |-> c[i].step, token |-> c[i].token]

(* Mutation: only the length is checked.                                   *)
TooLong(c, m) == {i \in DOMAIN c : c[i].type = "onestep" /\ c[i].step >= m.size}

(* A phrase that reaches the last column or past it, or that the input no  *)
(* longer pronounces.                                                      *)
Invalid(c, m) ==
    {i \in DOMAIN c : /\ c[i].type = "onestep"
                      /\ c[i].step >= m.size \/ SpanAt(c, i) \notin m.fits}

(* validate_constraint: sync the length, then drop the invalid phrases.    *)
Validated(c, n, m) ==
    LET resized == Resized(c, n, m.size) IN Cleared(resized, Invalid(resized, m))

---------------------------------------------------------------------------
(* Sentences.  A MatchResult has one element per column: the token of the  *)
(* word that starts there, or null_token.                                  *)

(* The next word after the one at i starts at j, or j is the last column   *)
(* and no word follows.                                                    *)
Follows(r, i, j, n) ==
    /\ i < j
    /\ r[i] # NullToken
    /\ \A h \in i + 1 .. j - 1 : r[h] = NullToken
    /\ j = n - 1 \/ r[j] # NullToken

(* The words of the first n columns of r.                                  *)
Words(r, n) ==
    {[from |-> p[1], to |-> p[2], token |-> r[p[1]]] :
        p \in {q \in (0 .. n - 1) \X (0 .. n - 1) : Follows(r, q[1], q[2], n)}}

Size(r) == Cardinality(DOMAIN r)

(* A sentence has a column of its own for the end of the input.            *)
IsSentence(r) ==
    /\ Size(r) \in Nat \ {0}
    /\ r \in [0 .. Size(r) - 1 -> Token \cup {NullToken}]
    /\ r[Size(r) - 1] = NullToken

(* Mutation: a forced column forces the end of the phrase only.            *)
SteppableByLength(c, s) ==
    /\ c[s.from].type # "nosearch"
    /\ c[s.from].type = "onestep" => s.to = c[s.from].step
    /\ c[s.from].type = "none" =>
          \A j \in DOMAIN c : s.from < j /\ j <= s.to => c[j].type # "nosearch"

(* What the beam search may step over from column s.from: a forced phrase  *)
(* only as forced, else any phrase up to the first nosearch column.        *)
Steppable(c, s) ==
    /\ c[s.from].type # "nosearch"
    /\ c[s.from].type = "onestep" => s.to = c[s.from].step /\ s.token = c[s.from].token
    /\ c[s.from].type = "none" =>
          \A j \in DOMAIN c : s.from < j /\ j <= s.to => c[j].type # "nosearch"

(* Mutation: a step is linked to any later step.                           *)
BrokenChains(steps, n) ==
    {S \in SUBSET steps : \A i \in 0 .. n - 2 :
        \A s, t \in S : Covers(s, i) /\ Covers(t, i) => t = s}

(* The sentences get_nbest_match can return for m under c: chains of       *)
(* pronounceable steps from the first to the last column.  Which of them   *)
(* survive the beam is a matter of probabilities, which are left out.      *)
Chains(steps, n) ==
    {S \in SUBSET steps : \A i \in 0 .. n - 2 :
        \E s \in S : Covers(s, i) /\ \A t \in S : Covers(t, i) => t = s}

(* extract_result                                                          *)
Extracted(S, n) ==
    [i \in 0 .. n - 1 |-> IF \E s \in S : s.from = i
                         THEN (CHOOSE s \in S : s.from = i).token
                         ELSE NullToken]

Sentences(c, m) ==
    {Extracted(S, m.size) : S \in Chains({s \in m.fits : Steppable(c, s)}, m.size)}

(* The words in which another sentence differs from the best one.          *)
Differing(best, other) == {w \in Words(other, Size(other)) : best[w.from] # w.token}

---------------------------------------------------------------------------
(* What the calls may run into.                                            *)

(* diff_result adds one constraint per differing word and asserts that     *)
(* each was taken.                                                         *)
Accepted(n, S) == \A s \in S : s.to <= n

(* The words train_result3 trains: the chosen ones and the word after one. *)
Trained(r, c, n) ==
    {w \in Words(r, n) :
        \/ c[w.from].type = "onestep"
        \/ \E v \in Words(r, n) : v.to = w.from /\ c[v.from].type = "onestep"}

(* train_result3 reads one token per constraint, asserts that a forced     *)
(* word is the token forced, and asserts that the trained words end inside *)
(* the input and in columns that have keys.                                *)
AgreesWithChoices(r, c, n) ==
    /\ Size(r) >= n
    /\ \A i \in DOMAIN c : c[i].type = "onestep" => r[i] \in {NullToken, c[i].token}

MayPass(r, c, n, m) ==
    AgreesWithChoices(r, c, n) /\ \A w \in Trained(r, c, n) : w.to < m.size

(* The keys are left out: the columns of a word the present input does not *)
(* pronounce may have keys or not.                                         *)
SurelyPasses(r, c, n, m) ==
    AgreesWithChoices(r, c, n) /\ Trained(r, c, n) \subseteq m.fits

---------------------------------------------------------------------------
NoCandidates == [spans |-> {}, sentences |-> {}]

(* pinyin_alloc_instance *)
Init ==
    /\ matrix = Empty
    /\ length = 0
    /\ constraints = [i \in 0 .. -1 |-> NoConstraint]
    /\ results = <<>>
    /\ offered = NoCandidates
    /\ current = FALSE
    /\ trainable = {}
    /\ status = "ok"

Running == status = "ok"

Fail ==
    /\ status' = "failed"
    /\ UNCHANGED <<matrix, length, constraints, results, offered, current, trainable>>

(* pinyin_parse_more_full_pinyins, _double_pinyins and _chewings: only the *)
(* matrix is refilled.                                                     *)
ParseMore(m) ==
    /\ Running
    /\ matrix' = m
    /\ current' = FALSE
    /\ trainable' = {}
    /\ UNCHANGED <<length, constraints, results, offered, status>>

(* pinyin_update_constraints *)
UpdateConstraints ==
    /\ length' = matrix.size
    /\ constraints' = Validated(constraints, length, matrix)

(* pinyin_guess_sentence.  With no input the search returns before it      *)
(* drops the old results.                                                  *)
GuessSentence ==
    /\ Running
    /\ UpdateConstraints
    /\ IF matrix.size = 0
       THEN UNCHANGED <<results, current, trainable>>
       ELSE /\ \E n \in 0 .. NBest :
                  results' \in [1 .. n -> Sentences(constraints', matrix)]
            /\ current' = TRUE
            /\ trainable' = DOMAIN results'
    /\ UNCHANGED <<matrix, offered, status>>

(* pinyin_guess_candidates at column offset.                               *)
GuessCandidates(offset) ==
    /\ Running
    /\ offered' = IF matrix.size = 0 THEN NoCandidates
                  ELSE [spans |-> {s \in matrix.fits : s.from = offset},
                        sentences |-> DOMAIN results]
    /\ UNCHANGED <<matrix, length, constraints, results, current, trainable, status>>

(* pinyin_choose_candidate of a phrase: the constraints are brought up to  *)
(* date before and after the phrase is added.  The candidate list may      *)
(* be older than the input.                                                *)
ChooseCandidate(s) ==
    /\ Running
    /\ s \in offered.spans
    /\ LET valid == Validated(constraints, length, matrix)
           added == Added(valid, matrix.size, s)
       IN  constraints' = Validated(added, matrix.size, matrix)
    /\ length' = matrix.size
    /\ trainable' = {}
    /\ UNCHANGED <<matrix, results, offered, current, status>>

(* pinyin_choose_candidate of the k-th sentence.                           *)
ChooseSentence(k) ==
    /\ Running
    /\ k \in offered.sentences
    /\ k \in DOMAIN results
    /\ LET S == Differing(results[1], results[k])
       IN  /\ Accepted(length, S)
           /\ constraints' = Placed(constraints, S)
    /\ trainable' = trainable \cap {k}
    /\ UNCHANGED <<matrix, length, results, offered, current, status>>

(* ... which asserts that the sentence exists and its words are accepted.  *)
ChooseSentenceFails(k) ==
    /\ Running
    /\ k \in offered.sentences
    /\ k \in DOMAIN results =>
          ~Accepted(length, Differing(results[1], results[k]))
    /\ Fail

(* pinyin_clear_constraint *)
ClearConstraint(i) ==
    /\ Running
    /\ constraints' = Cleared(constraints, {i})
    /\ UNCHANGED <<matrix, length, results, offered, current, trainable, status>>

(* pinyin_train of the k-th sentence: what is learned goes to the user's   *)
(* dictionary, nothing of the session changes.                             *)
Train(k) ==
    /\ Running
    /\ k \in DOMAIN results
    /\ MayPass(results[k], constraints, length, matrix)
    /\ UNCHANGED vars

TrainAborts(k) ==
    /\ Running
    /\ k \in DOMAIN results
    /\ ~SurelyPasses(results[k], constraints, length, matrix)
    /\ Fail

(* pinyin_reset *)
Reset ==
    /\ Running
    /\ matrix' = Empty
    /\ length' = 0
    /\ constraints' = [i \in 0 .. -1 |-> NoConstraint]
    /\ results' = <<>>
    /\ offered' = NoCandidates
    /\ current' = FALSE
    /\ trainable' = {}
    /\ UNCHANGED status

Next ==
    \/ \E m \in Input : ParseMore(m)
    \/ GuessSentence
    \/ \E i \in {0} \cup 0 .. matrix.size - 1 : GuessCandidates(i)
    \/ \E s \in offered.spans : ChooseCandidate(s)
    \/ \E k \in 1 .. NBest : ChooseSentence(k)
    \/ \E k \in 1 .. NBest : ChooseSentenceFails(k)
    \/ \E i \in 0 .. length - 1 : ClearConstraint(i)
    \/ \E k \in 1 .. NBest : Train(k)
    \/ \E k \in 1 .. NBest : TrainAborts(k)
    \/ Reset

Spec == Init /\ [][Next]_vars

---------------------------------------------------------------------------
(* Properties.                                                             *)

(* Every variable has its type; the array has exactly one entry per column *)
(* of the length it was last brought to.                                   *)
TypeOK ==
    /\ matrix \in Matrix
    /\ length \in Nat
    /\ constraints \in [0 .. length - 1 -> Entry]
    /\ \E n \in 0 .. NBest : DOMAIN results = 1 .. n
    /\ \A k \in DOMAIN results : IsSentence(results[k])
    /\ offered \in [spans : SUBSET Span, sentences : SUBSET (1 .. NBest)]
    /\ current \in BOOLEAN
    /\ trainable \subseteq 1 .. NBest
    /\ status \in {"ok", "failed"}

(* The shape that clear_constraint asserts and that sentence search relies *)
(* on: a forced phrase lies inside the array and owns every column it      *)
(* spans, and a column closed to search belongs to the phrase it points    *)
(* back to.  Shrinking the array, overlapping choices and choices made     *)
(* from an old candidate list are what could break it.                     *)
OwnsItsColumns(c, n, i) ==
    c[i].type = "onestep" =>
        /\ i < c[i].step /\ c[i].step <= n
        /\ \A j \in DOMAIN c : i < j /\ j < c[i].step => c[j] = NoSearch(i)

PointsBack(c, i) ==
    c[i].type = "nosearch" =>
        /\ c[i].step \in DOMAIN c
        /\ c[i].step < i
        /\ c[c[i].step].type = "onestep"
        /\ i < c[c[i].step].step

WellFormed(c, n) == \A i \in DOMAIN c : OwnsItsColumns(c, n, i) /\ PointsBack(c, i)

Shape == WellFormed(constraints, length)

(* The sentences of an up-to-date session are made of words the input      *)
(* pronounces, end to end, and the array has the length of the input: the  *)
(* calls made since the search have not desynchronised the three.          *)
SentencesPronounced ==
    current => /\ length = matrix.size
               /\ \A k \in DOMAIN results :
                     /\ Size(results[k]) = matrix.size
                     /\ Words(results[k], matrix.size) \subseteq matrix.fits

(* While the sentences shown are those of the present input, every forced  *)
(* phrase is one that input pronounces: choosing, clearing and learning    *)
(* in between never leave a phrase the next search would trip over.        *)
ChoicesPronounced ==
    current => \A i \in DOMAIN constraints :
        constraints[i].type = "onestep" => SpanAt(constraints, i) \in matrix.fits

(* In an up-to-date session no call aborts, whatever was chosen or cleared *)
(* since the search: diff_result accepts every sentence of the list, and   *)
(* training a sentence that agrees with the choices reaches none of        *)
(* train_result3's assertions and never reads past the sentence.           *)
ProtocolNeverAborts ==
    /\ current => \A k \in DOMAIN results :
                     Accepted(length, Differing(results[1], results[k]))
    /\ \A k \in trainable :
          /\ k \in DOMAIN results
          /\ SurelyPasses(results[k], constraints, length, matrix)

(* The array implements the set of picked spans that never overlap: every  *)
(* call keeps each phrase it has no reason to drop.                        *)
Picked == {SpanAt(constraints, i) : i \in {j \in DOMAIN constraints : constraints[j].type = "onestep"}}
Universe == UNION {m.fits : m \in Input}
Columns == UNION {0 .. m.size : m \in Input}
Chosen == INSTANCE ChosenSpans WITH
    Span <- Universe, Column <- Columns, spans <- Picked, valid <- matrix.fits

ImplementsChosenSpans == Chosen!Spec
============================================================================
