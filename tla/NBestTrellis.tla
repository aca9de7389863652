----------------------------- MODULE NBestTrellis -----------------------------
(***************************************************************************)
(* The search for the n best sentences: a Viterbi beam search over the     *)
(* columns of the key matrix (lookup/phonetic_lookup.h, _heap.h).          *)
(*                                                                         *)
(* A problem is what the search meets: the phrases between two columns,    *)
(* which are those the matrix spells and the constraints leave, and the    *)
(* scores of unigrams and bigrams, logarithms of probabilities in units of *)
(* 1/Unit.  Rounding of the sums is left out.  A trellis node holds the    *)
(* nstore values the search keeps for a phrase that ends at a column.      *)
(***************************************************************************)
EXTENDS Integers, Sequences, FiniteSets, SequencesExt, FiniteSetsExt

CONSTANTS
    Lookups,  \* [nstore, nbest] of PhoneticLookup: <2, 3> in pinyin.cpp, <1, 1> in zhuyin.cpp
    Problems, \* [size, prefixes, words, length, unigram, bigram] records
    nbeam,    \* 32
    Unit,
    LONG_SENTENCE_PENALTY

ASSUME NBestTrellisAssumption ==
    /\ \A l \in Lookups : /\ l.nstore \in {1, 2} /\ l.nbest \in 1 .. 3
                          /\ l.nstore = 1 => l.nbest = 1
                          /\ l.nstore <= l.nbest
    /\ nbeam \in Nat \ {0} /\ Unit \in Nat \ {0} /\ LONG_SENTENCE_PENALTY \in Nat
    /\ \A p \in Problems :
          /\ p.size \in Nat \ {0} /\ p.prefixes # {} /\ IsFiniteSet(p.prefixes)
          /\ \A span \in DOMAIN p.words : /\ IsFiniteSet(p.words[span])
                                          /\ \A t \in p.words[span] : p.length[t] \in Nat
          /\ \A t \in DOMAIN p.unigram : p.unigram[t] \in Int
          /\ \A pair \in DOMAIN p.bigram : p.bigram[pair] \in Int

VARIABLES
    problem,
    lookup,
    column,   \* the next column to search from; size once all is done
    trellis,  \* for each column, its nodes: a function from tokens to values
    cut,      \* TRUE once a column had more values than the beam takes
    results   \* the sentences, once they are extracted

last == problem.size - 1

vars == <<problem, lookup, column, trellis, cut, results>>

-----------------------------------------------------------------------------
(* Values and their order. *)

PrefixValue(token) ==
    [prev |-> 0, token |-> token, length |-> 0, poss |-> 0,
     last_step |-> -1, sub_index |-> 0]

\* trellis_value_less_than.  With nstore > 1 a longer sentence may win, but the
\* last disjunct still makes it less: then each of two values is less.
Less(nstore, a, b) ==
    \/ /\ nstore > 1
       /\ \/ /\ a.length + 1 = b.length
             /\ a.poss + LONG_SENTENCE_PENALTY < b.poss
          \/ /\ a.length = b.length + 1
             /\ a.poss < b.poss + LONG_SENTENCE_PENALTY
    \/ a.length = b.length /\ a.poss < b.poss
    \/ a.length > b.length

\* A mutant of EvalItem: the last value always stays.
KeepsLast(nstore, node, item) ==
    IF Len(node) < nstore THEN <<item>> \o node ELSE <<item>> \o Front(node)

\* trellis_node::eval_item.  The heap functions of the C++ library put the
\* greatest value in front, so with two values it is that one the new value is
\* compared with and takes the place of.
EvalItem(nstore, node, item) ==
    LET pushed(kept) == IF Less(nstore, kept, item) THEN <<item, kept>> ELSE <<kept, item>>
    IN  CASE node = <<>> -> <<item>>
          [] node # <<>> /\ nstore = 1 -> IF Less(1, node[1], item) THEN <<item>> ELSE node
          [] Len(node) = 1 /\ nstore = 2 -> pushed(node[1])
          [] Len(node) = 2 -> IF Less(2, node[1], item) THEN pushed(node[2]) ELSE node

\* trellis_value_compare; the difference is cut to an integer.
Compare(a, b) ==
    LET difference == a.poss - b.poss
    IN  IF difference >= 0 THEN -(difference \div Unit) ELSE (-difference) \div Unit

\* g_ptr_array_sort, a merge sort: of at most three values the last two are
\* merged first.
Sorted(tails) ==
    LET place(a, run) == Min({k \in DOMAIN run : Compare(a, run[k]) <= 0}
                             \cup {Len(run) + 1})
        merged[n \in 0 .. Len(tails)] ==
            IF n = 0 THEN <<>>
            ELSE LET a == tails[Len(tails) + 1 - n]
                 IN  InsertAt(merged[n - 1], place(a, merged[n - 1]), a)
    IN  merged[Len(tails)]

-----------------------------------------------------------------------------
(* The trellis. *)

\* A mutant of Candidates: the numbers are not renewed for a node's second value.
NumberedFirst(nodes) ==
    UNION {{[value |-> nodes[t][k], index |-> 1] : k \in DOMAIN nodes[t]} : t \in DOMAIN nodes}

\* get_candidates: the values of a column, numbered within their nodes.
Candidates(nodes) ==
    UNION {{[value |-> nodes[t][k], index |-> k] : k \in DOMAIN nodes[t]} :
              t \in DOMAIN nodes}

\* What get_top_results may take of them: up to num, each time a greatest one of the
\* heap.  Two values that are each less than the other leave the heap functions
\* without an order, and any order is possible.
TopResults(nstore, nodes, num) ==
    LET found == Candidates(nodes)
        less(a, b) == Less(nstore, a.value, b.value)
        ordered == \A a, b \in found : ~(less(a, b) /\ less(b, a))
    IN  {top \in Injection(1 .. Min({num, Cardinality(found)}), found) :
            ordered => \A k \in DOMAIN top :
                          \A b \in found \ {top[j] : j \in 1 .. k - 1} : ~less(top[k], b)}

WordsBetween(start, end) ==
    UNION {problem.words[span] : span \in {<<start, end>>} \cap DOMAIN problem.words}

\* unigram_gen_next_step and bigram_gen_next_step
NextStep(start, from, token, score) ==
    [prev |-> from.value.token, token |-> token,
     length |-> from.value.length + problem.length[token],
     poss |-> from.value.poss + score,
     last_step |-> start, sub_index |-> from.index]

\* search_bigram2 for one phrase: its node is given a value for each top result that
\* has a bigram with it.
AfterBigrams(node, start, top, token) ==
    LET pair(k) == <<top[k].value.token, token>>
        kept[k \in 0 .. Len(top)] ==
            IF k = 0 THEN node
            ELSE IF pair(k) \notin DOMAIN problem.bigram THEN kept[k - 1]
            ELSE EvalItem(lookup.nstore, kept[k - 1],
                          NextStep(start, top[k], token, problem.bigram[pair(k)]))
    IN  kept[Len(top)]

\* search_unigram2 for one phrase: after the best of the top results only.
AfterUnigram(node, start, top, token) ==
    IF token \notin DOMAIN problem.unigram THEN node
    ELSE EvalItem(lookup.nstore, node, NextStep(start, top[1], token, problem.unigram[token]))

\* insert_candidate for all of them.
Saved(nodes, start, end, top) ==
    LET words == WordsBetween(start, end)
        old(t) == IF t \in DOMAIN nodes THEN nodes[t] ELSE <<>>
        new(t) == IF t \notin words THEN old(t)
                  ELSE AfterUnigram(AfterBigrams(old(t), start, top, t), start, top, t)
    IN  [t \in {u \in DOMAIN nodes \cup words : new(u) # <<>>} |-> new(t)]

\* extract_result: back along the steps and the numbers within the nodes, at most a
\* step for each column.
Extracted(tail) ==
    LET back[k \in 0 .. last] ==
            IF k = 0 THEN [at |-> tail, words |-> <<>>]
            ELSE LET at == back[k - 1].at
                 IN  IF at.last_step = -1 THEN back[k - 1]
                     ELSE [at |-> trellis[at.last_step][at.prev][at.sub_index],
                           words |-> <<[start |-> at.last_step, token |-> at.token]>>
                                         \o back[k - 1].words]
    IN  back[last].words

-----------------------------------------------------------------------------
(* The search. *)

\* fill_prefixes
Init ==
    /\ problem \in Problems
    /\ lookup \in Lookups
    /\ column = 0
    /\ trellis = [i \in 0 .. problem.size - 1 |->
                     [t \in IF i = 0 THEN problem.prefixes ELSE {} |-> <<PrefixValue(t)>>]]
    /\ cut = FALSE
    /\ results = <<>>

\* One column of get_nbest_match.
SearchColumn ==
    /\ column < last
    /\ column' = column + 1
    /\ IF DOMAIN trellis[column] = {} THEN UNCHANGED <<trellis, cut>>
       ELSE /\ \E top \in TopResults(lookup.nstore, trellis[column], nbeam) :
                  trellis' = [i \in DOMAIN trellis |->
                                 IF i > column THEN Saved(trellis[i], column, i, top)
                                 ELSE trellis[i]]
            /\ cut' = (cut \/ Cardinality(Candidates(trellis[column])) > nbeam)
    /\ UNCHANGED <<problem, lookup, results>>

\* get_tails and the results it ends with.
ExtractResults ==
    /\ column = last
    /\ column' = problem.size
    /\ \E top \in TopResults(lookup.nstore, trellis[last], lookup.nbest) :
          LET tails == Sorted([k \in DOMAIN top |-> top[k].value])
          IN  results' = [k \in DOMAIN tails |->
                             [words |-> Extracted(tails[k]), tail |-> tails[k]]]
    /\ UNCHANGED <<problem, lookup, trellis, cut>>

Next == SearchColumn \/ ExtractResults

Spec == Init /\ [][Next]_vars
-----------------------------------------------------------------------------
(* What a sentence is, without a search: a chain of phrases and its score. *)

StepScores(prev, token) ==
    {problem.bigram[pair] : pair \in {<<prev, token>>} \cap DOMAIN problem.bigram}
    \cup {problem.unigram[t] : t \in {token} \cap DOMAIN problem.unigram}

\* The chain with one phrase more, for each score the step may have.
Longer(chain, end, token) ==
    {[words |-> Append(chain.words, [start |-> chain.end, token |-> token]),
      end |-> end, token |-> token,
      length |-> chain.length + problem.length[token],
      poss |-> chain.poss + score] : score \in StepScores(chain.token, token)}

\* All chains from the beginning to each column.
Chains ==
    LET upto[end \in 0 .. last] ==
          IF end = 0
          THEN {[words |-> <<>>, end |-> 0, token |-> t, length |-> 0, poss |-> 0] :
                  t \in problem.prefixes}
          ELSE LET before == upto[end - 1]
               IN  before \cup UNION {UNION {Longer(chain, end, t) :
                                               t \in WordsBetween(chain.end, end)} :
                                         chain \in before}
    IN  [end \in 0 .. last |-> {chain \in upto[last] : chain.end = end}]

Better(a, b) == a.length < b.length \/ (a.length = b.length /\ a.poss > b.poss)

OneLength(chains) == \A a, b \in chains : a.length = b.length

-----------------------------------------------------------------------------
(* What must hold. *)

\* A sentence that is extracted is a chain of phrases of the matrix, and the
\* length and the score it was ranked with are its own: the step back finds by
\* (column, token, number) the value the next one was computed from, whatever was
\* evaluated in between (extract_result, get_candidate).
ResultsAreChains ==
    \A k \in DOMAIN results : \E chain \in Chains[last] :
        /\ chain.words = results[k].words
        /\ chain.token = results[k].tail.token
        /\ chain.length = results[k].tail.length
        /\ chain.poss = results[k].tail.poss

\* The first sentence is the best one there is: with one value to a node the one
\* of the fewest characters and then of the greatest score, though unigrams are
\* tried after the best value only; with two values at least when all sentences
\* have as many characters.  (Not when the beam has cut values off.)
BestSentence ==
    /\ column = problem.size /\ ~cut /\ Chains[last] # {}
    /\ lookup.nstore = 1 \/ \A i \in 0 .. last : OneLength(Chains[i])
    => /\ results # <<>>
       /\ \A chain \in Chains[last] : ~Better(chain, results[1].tail)

\* What the two searches evaluate for a phrase.
Evaluated(start, top, token) ==
    LET pair(k) == <<top[k].value.token, token>>
    IN  {NextStep(start, top[k], token, problem.bigram[pair(k)]) :
           k \in {k1 \in DOMAIN top : pair(k1) \in DOMAIN problem.bigram}}
        \cup {NextStep(start, top[1], token, problem.unigram[t]) :
                t \in {token} \cap DOMAIN problem.unigram}

\* phonetic_lookup_heap.h:35 "invariant: min heap", :70 "find minium item": a full
\* node gives up its least value for a better one, so no value that was evaluated
\* for it and is not kept is better than a kept one.
NodesKeepBest ==
    \A i \in 1 .. Min({column, last}) : \A t \in DOMAIN trellis[i] :
        LET starts == {start \in 0 .. i - 1 :
                          DOMAIN trellis[start] # {} /\ t \in WordsBetween(start, i)}
            evaluated == UNION {UNION {Evaluated(start, top, t) :
                                         top \in TopResults(lookup.nstore, trellis[start], nbeam)} :
                                  start \in starts}
            kept == Range(trellis[i][t])
        IN  ~cut /\ OneLength(evaluated) =>
                \A value \in evaluated \ kept : \A other \in kept : ~Better(value, other)
=============================================================================
