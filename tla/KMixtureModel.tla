---------------------------- MODULE KMixtureModel ----------------------------
(***************************************************************************)
(* The training of the language model: the K mixture model of a corpus and *)
(* the tools that generate, merge, prune, validate, export, import and     *)
(* convert it (utils/training), up to the libraries and the bigram that    *)
(* are built from it (utils/storage/import_interpolation.cpp).             *)
(*                                                                         *)
(* A file holds one model: a magic header, and for each first word a gram  *)
(* with a header of its own and an item for each second word.  A document  *)
(* is the sequence of its tokens; null_token stands where the segmentation *)
(* found no phrase.  The text of an exported model is the set of its lines.*)
(***************************************************************************)
EXTENDS Integers, Sequences, FiniteSets, Functions, FiniteSetsExt

CONSTANTS
    File,
    Document,          \* the sequences of tokens that are trained
    null_token, sentence_start,
    g_train_pi_gram,   \* FALSE with --skip-pi-gram-training
    g_maximum_occurs,  \* 20
    g_maximum_increase_rates,  \* 3.0
    g_prune_k,         \* -k
    g_prune_poss,      \* --CDF, as <<numerator, denominator>>
    MaxCount,          \* 2^32 - 1
    MaxDocuments       \* bound: the documents a file is trained with, by itself or merged

Token == (UNION {Range(document) : document \in Document}) \ {null_token}

ASSUME KMixtureModelAssumption ==
    /\ Document \subseteq Seq(Nat)
    /\ null_token = 0 /\ sentence_start = 1 /\ sentence_start \notin Token
    /\ g_train_pi_gram \in BOOLEAN
    /\ g_maximum_occurs \in Nat /\ g_maximum_increase_rates \in Nat
    /\ g_prune_k \in Nat \ {0}
    /\ g_prune_poss \in Nat \X (Nat \ {0})
    /\ MaxCount \in Nat /\ MaxDocuments \in Nat

VARIABLES
    models,   \* what each file holds
    refused,  \* the files a tool reported an overflow for; they are not used again
    corpus,   \* how often each document was trained into a file, or Unknown
    text      \* the last exported text and the corpus of its file

vars == <<models, refused, corpus, text>>

\* The last header of a file that no document was trained into.
NoHeader == [m_WC |-> -1, m_N |-> -1, m_total_freq |-> -1]

EmptyModel == [header |-> NoHeader, grams |-> <<>>]
EmptyGram == [m_WC |-> 0, m_freq |-> 0, items |-> <<>>]
NoItem == [m_WC |-> 0, m_N_n_0 |-> 0, m_n_1 |-> 0, m_Mr |-> 0]

\* No longer a function of the documents: pruned, or a pair was left out.
Unknown == [known |-> FALSE, documents |-> [document \in Document |-> 0]]

NoDocuments == [Unknown EXCEPT !.known = TRUE]

WithOneMore(known, document) == [known EXCEPT !.documents[document] = @ + 1]

WithThose(known, others) ==
    [known EXCEPT !.documents = [d \in Document |-> @[d] + others.documents[d]]]

Get(f, x, default) == IF x \in DOMAIN f THEN f[x] ELSE default
-----------------------------------------------------------------------------
(* gen_k_mixture_model *)

\* read_document: the word before each, the pairs and the words.
LastToken(document, i) ==
    IF i = 1 \/ document[i - 1] = null_token THEN sentence_start ELSE document[i - 1]

Words(document) == {i \in DOMAIN document : document[i] # null_token}

Pairs(document) ==
    {i \in Words(document) : g_train_pi_gram \/ LastToken(document, i) # sentence_start}

PairCount(document, token1, token2) ==
    Cardinality({i \in Pairs(document) :
                    LastToken(document, i) = token1 /\ document[i] = token2})

SecondWords(document, token1) ==
    {document[i] : i \in {j \in Pairs(document) : LastToken(document, j) = token1}}

FirstWords(document) == {LastToken(document, i) : i \in Pairs(document)}

WordCount(document, token) == Cardinality({i \in Words(document) : document[i] = token})

\* train_word_pair: more in one document than the documents before allow for.
Exceeds(gram, token2, count) ==
    count > Max({g_maximum_occurs,
                 Get(gram.items, token2, NoItem).m_Mr * g_maximum_increase_rates})

\* A mutant: every document with the pair counts for n_1.
CountedOnce(item, count) ==
    [m_WC |-> item.m_WC + count, m_N_n_0 |-> item.m_N_n_0 + 1,
     m_n_1 |-> item.m_n_1 + count, m_Mr |-> Max({item.m_Mr, count})]

Counted(item, count) ==
    [m_WC |-> item.m_WC + count,
     m_N_n_0 |-> item.m_N_n_0 + 1,
     m_n_1 |-> item.m_n_1 + (IF count = 1 THEN 1 ELSE 0),
     m_Mr |-> Max({item.m_Mr, count})]

\* The second words of a gram that are trained.
Kept(gram, document, token1) ==
    {t \in SecondWords(document, token1) : ~Exceeds(gram, t, PairCount(document, token1, t))}

Delta(gram, document, token1) ==
    SumFunction([t \in Kept(gram, document, token1) |-> PairCount(document, token1, t)])

\* train_single_gram
TrainedGram(gram, document, token1) ==
    LET kept == Kept(gram, document, token1)
    IN  [gram EXCEPT !.m_WC = @ + Delta(gram, document, token1),
                     !.items = [t \in DOMAIN @ \cup kept |->
                                   IF t \notin kept THEN @[t]
                                   ELSE Counted(Get(@, t, NoItem),
                                                PairCount(document, token1, t))]]

\* A mutant: what is left out of the pairs still counts as a word.
RemainingAll(grams, document, token) == WordCount(document, token)

\* hash_of_unigram once all pairs are trained.
Remaining(grams, document, token) ==
    WordCount(document, token)
      - SumFunction([t1 \in {t \in FirstWords(document) :
                                /\ token \in SecondWords(document, t)
                                /\ token \notin Kept(Get(grams, t, EmptyGram), document, t)} |->
                        PairCount(document, t1, token)])

\* The grams after train_second_word and post_processing_unigram.
TrainedGrams(grams, document) ==
    LET gram(t) == Get(grams, t, EmptyGram)
        trained == {t \in FirstWords(document) : Delta(gram(t), document, t) # 0}
        words == {t \in {document[i] : i \in Words(document)} : Remaining(grams, document, t) # 0}
    IN  [t \in DOMAIN grams \cup trained \cup words |->
            [(IF t \in trained THEN TrainedGram(gram(t), document, t) ELSE gram(t))
                EXCEPT !.m_freq = @ + (IF t \in words THEN Remaining(grams, document, t) ELSE 0)]]

\* Whether a pair of the document is left out.
LeavesOut(grams, document) ==
    \E t \in FirstWords(document) :
        Kept(Get(grams, t, EmptyGram), document, t) # SecondWords(document, t)

\* The word counts the headers of the first words add: each only if the total
\* does not overflow.
Accepted(m_WC, deltas) ==
    LET fits(S) == m_WC + SumFunctionOnSet(deltas, S) <= MaxCount
    IN  {S \in SUBSET DOMAIN deltas :
            fits(S) /\ \A t \in DOMAIN deltas \ S : ~fits(S \cup {t})}

Old(header) == IF header = NoHeader THEN [m_WC |-> 0, m_N |-> 0, m_total_freq |-> 0] ELSE header

\* main for one document.  A first document without a pair leaves no magic header,
\* and the tool stops at its assertion with nothing stored.
Train(file, document) ==
    LET grams == models[file].grams
        old == Old(models[file].header)
        deltas == [t \in FirstWords(document) |->
                      Delta(Get(grams, t, EmptyGram), document, t)]
        pairs == {t \in DOMAIN deltas : deltas[t] # 0}
        words == SumFunction([t \in {document[i] : i \in Words(document)} |->
                                 Remaining(grams, document, t)])
        overflows == old.m_total_freq + words > MaxCount
    IN  /\ file \notin refused
        /\ old.m_N < MaxDocuments
        /\ models[file].header # NoHeader \/ pairs # {}
        /\ \E accepted \in Accepted(old.m_WC, deltas) :
              /\ models' = [models EXCEPT ![file] =
                    [header |-> [m_WC |-> old.m_WC + SumFunctionOnSet(deltas, accepted),
                                 m_N |-> old.m_N + 1,
                                 m_total_freq |-> old.m_total_freq
                                                     + (IF overflows THEN 0 ELSE words)],
                     grams |-> TrainedGrams(grams, document)]]
              /\ refused' = IF accepted # DOMAIN deltas \/ overflows
                            THEN refused \cup {file} ELSE refused
        /\ corpus' = [corpus EXCEPT ![file] =
                        IF @.known /\ ~LeavesOut(grams, document) THEN WithOneMore(@, document)
                        ELSE Unknown]
        /\ UNCHANGED text
-----------------------------------------------------------------------------
(* merge_k_mixture_model *)

\* A mutant: the maxima add up like the counts.
AddedMaxima(first, second) ==
    [f \in {"m_WC", "m_N_n_0", "m_n_1", "m_Mr"} |-> first[f] + second[f]]

\* merge_two_phrase_array, for an item of both.
Added(first, second) ==
    [m_WC |-> first.m_WC + second.m_WC,
     m_N_n_0 |-> first.m_N_n_0 + second.m_N_n_0,
     m_n_1 |-> first.m_n_1 + second.m_n_1,
     m_Mr |-> Max({first.m_Mr, second.m_Mr})]

MergedGram(first, second) ==
    [m_WC |-> first.m_WC + second.m_WC,
     m_freq |-> first.m_freq + second.m_freq,
     items |-> [t \in DOMAIN first.items \cup DOMAIN second.items |->
                   Added(Get(first.items, t, NoItem), Get(second.items, t, NoItem))]]

\* merge_array_items and then merge_magic_header, which may refuse when the
\* grams are merged already.  A new file without a header stops at an assertion.
Merge(target, new_one) ==
    LET old == Old(models[target].header)
        new == models[new_one].header
        overflows == \/ old.m_WC + new.m_WC > MaxCount
                     \/ old.m_total_freq + new.m_total_freq > MaxCount
        merged == [t \in DOMAIN models[target].grams \cup DOMAIN models[new_one].grams |->
                      MergedGram(Get(models[target].grams, t, EmptyGram),
                                 Get(models[new_one].grams, t, EmptyGram))]
    IN  /\ target # new_one /\ target \notin refused /\ new_one \notin refused
        /\ new # NoHeader
        /\ old.m_N + new.m_N <= MaxDocuments
        /\ models' = [models EXCEPT ![target] =
              [header |-> IF overflows THEN models[target].header
                          ELSE [m_WC |-> old.m_WC + new.m_WC,
                                m_N |-> old.m_N + new.m_N,
                                m_total_freq |-> old.m_total_freq + new.m_total_freq],
               grams |-> merged]]
        /\ refused' = IF overflows THEN refused \cup {target} ELSE refused
        /\ corpus' = [corpus EXCEPT ![target] =
                        IF @.known /\ corpus[new_one].known THEN WithThose(@, corpus[new_one])
                        ELSE Unknown]
        /\ UNCHANGED text
-----------------------------------------------------------------------------
(* prune_k_mixture_model *)

Power(base, n) ==
    LET power[k \in 0 .. n] == IF k = 0 THEN 1 ELSE base * power[k - 1]
    IN  power[n]

\* compute_Pr_G_3_with_count as <<numerator, denominator>>: the share of documents
\* with the pair k times.  Several: the documents with it more than once.
OnePoss(N, item, k) ==
    LET several == item.m_N_n_0 - item.m_n_1
        further == item.m_WC - item.m_N_n_0
    IN  CASE k = 0 -> <<N - item.m_N_n_0, N>>
          [] k = 1 -> <<item.m_n_1, N>>
          [] k > 1 /\ item.m_WC = item.m_n_1 /\ several = 0 -> <<0, 1>>
          [] OTHER -> <<several * several * Power(further - several, k - 2),
                        N * Power(further, k - 1)>>

Sum(a, b) == <<a[1] * b[2] + b[1] * a[2], a[2] * b[2]>>

RemainedPoss(N, item) ==
    LET taken[k \in 0 .. g_prune_k] ==
            IF k = 0 THEN <<0, 1>> ELSE Sum(taken[k - 1], OnePoss(N, item, k - 1))
    IN  <<taken[g_prune_k][2] - taken[g_prune_k][1], taken[g_prune_k][2]>>

IsPoss(p) == p[2] > 0 /\ 0 <= p[1] /\ p[1] <= p[2]

\* What the tool stops for otherwise.
PossRight(N, item) ==
    /\ \A k \in 0 .. g_prune_k - 1 : IsPoss(OnePoss(N, item, k))
    /\ IsPoss(RemainedPoss(N, item))

RemovedWords(N, gram) ==
    {t \in DOMAIN gram.items :
        LET remained == RemainedPoss(N, gram.items[t])
        IN  remained[1] * g_prune_poss[2] < g_prune_poss[1] * remained[2]}

RemovedCount(gram, removed) == SumFunction([t \in removed |-> gram.items[t].m_WC])

\* A gram after its own items are removed and those with it as second word.
PrunedGram(grams, removed, t) ==
    [m_WC |-> grams[t].m_WC - RemovedCount(grams[t], removed[t]),
     m_freq |-> grams[t].m_freq
                  - SumFunction([t1 \in {t2 \in DOMAIN grams : t \in removed[t2]} |->
                                    grams[t1].items[t].m_WC]),
     items |-> Restrict(grams[t].items, DOMAIN grams[t].items \ removed[t])]

Prune(file) ==
    LET header == models[file].header
        grams == models[file].grams
        removed == [t \in DOMAIN grams |-> RemovedWords(header.m_N, grams[t])]
        count == SumFunction([t \in DOMAIN grams |-> RemovedCount(grams[t], removed[t])])
        pruned == [t \in DOMAIN grams |-> PrunedGram(grams, removed, t)]
    IN  /\ file \notin refused /\ header # NoHeader
        /\ \A t \in DOMAIN grams : /\ \A u \in DOMAIN grams[t].items :
                                         PossRight(header.m_N, grams[t].items[u])
                                   /\ removed[t] \subseteq DOMAIN grams
        /\ models' = [models EXCEPT ![file] =
              [header |-> [header EXCEPT !.m_WC = @ - count, !.m_total_freq = @ - count],
               grams |-> Restrict(pruned, {t \in DOMAIN pruned :
                                              pruned[t].m_WC # 0 \/ pruned[t].m_freq # 0})]]
        /\ corpus' = [corpus EXCEPT ![file] = Unknown]
        /\ UNCHANGED <<refused, text>>
-----------------------------------------------------------------------------
(* export_k_mixture_model, import_k_mixture_model and
   k_mixture_model_to_interpolation *)

Exported(model) ==
    [data |-> model.header,
     unigrams |-> {[token |-> t, count |-> model.grams[t].m_WC, freq |-> model.grams[t].m_freq] :
                      t \in DOMAIN model.grams},
     bigrams |-> UNION {{[token1 |-> t, token2 |-> u, item |-> model.grams[t].items[u]] :
                            u \in DOMAIN model.grams[t].items} : t \in DOMAIN model.grams}]

\* parse_headline, parse_unigram and parse_bigram into a new file.
Imported(lines) ==
    LET pairs(t) == {line \in lines.bigrams : line.token1 = t}
        items(t) == [u \in {line.token2 : line \in pairs(t)} |->
                        (CHOOSE line \in pairs(t) : line.token2 = u).item]
        unigram(t) == {line \in lines.unigrams : line.token = t}
    IN  [header |-> lines.data,
         grams |-> [t \in {line.token : line \in lines.unigrams} |->
                       [m_WC |-> (CHOOSE line \in unigram(t) : TRUE).count,
                        m_freq |-> (CHOOSE line \in unigram(t) : TRUE).freq,
                        items |-> items(t)]]]

\* A mutant: words without a count of their own are ignored as well.
InterpolationCounted(lines) ==
    [unigrams |-> {[token |-> line.token, count |-> line.freq] :
                      line \in {l \in lines.unigrams : l.freq # 0 /\ l.count # 0}},
     bigrams |-> {[token1 |-> line.token1, token2 |-> line.token2, count |-> line.item.m_WC] :
                     line \in lines.bigrams}]

\* The start of a sentence has no unigram, and zero frequencies are ignored.
Interpolation(lines) ==
    [unigrams |-> {[token |-> line.token, count |-> line.freq] :
                      line \in {l \in lines.unigrams : l.token # sentence_start /\ l.freq # 0}},
     bigrams |-> {[token1 |-> line.token1, token2 |-> line.token2, count |-> line.item.m_WC] :
                     line \in lines.bigrams}]

\* import_interpolation: the frequencies added to the libraries and the single grams
\* stored in the bigram, which start empty.
Loaded(lines) ==
    LET counts(t) == {line \in lines.bigrams : line.token1 = t}
        items(t) == [u \in {line.token2 : line \in counts(t)} |->
                        (CHOOSE line \in counts(t) : line.token2 = u).count]
    IN  [unigram |-> [t \in {line.token : line \in lines.unigrams} |->
                         SumFunction([line \in {l \in lines.unigrams : l.token = t} |->
                                         line.count])],
         bigram |-> [t \in {line.token1 : line \in lines.bigrams} |->
                        [total_freq |-> SumFunction([line \in counts(t) |-> line.count]),
                         items |-> items(t)]]]

Export(file) ==
    /\ file \notin refused /\ models[file].header # NoHeader
    /\ text' = [lines |-> Exported(models[file]), corpus |-> corpus[file]]
    /\ UNCHANGED <<models, refused, corpus>>

Import(file) ==
    /\ models[file] = EmptyModel /\ text.lines.data # NoHeader
    /\ models' = [models EXCEPT ![file] = Imported(text.lines)]
    /\ corpus' = [corpus EXCEPT ![file] = text.corpus]
    /\ UNCHANGED <<refused, text>>
-----------------------------------------------------------------------------
(* validate_k_mixture_model *)

\* The sum of a count over the items of a gram, or over the grams of a model.
ItemCount(gram) == SumFunction([t \in DOMAIN gram.items |-> gram.items[t].m_WC])
WordCounts(model) == SumFunction([t \in DOMAIN model.grams |-> model.grams[t].m_WC])
Freqs(model) == SumFunction([t \in DOMAIN model.grams |-> model.grams[t].m_freq])

\* validate_unigram and validate_bigram.
Validates(model) ==
    /\ model.header # NoHeader
    /\ model.header.m_WC # 0 /\ model.header.m_total_freq # 0
    /\ model.header.m_WC = model.header.m_total_freq
    /\ WordCounts(model) = model.header.m_WC
    /\ Freqs(model) = model.header.m_total_freq
    /\ \A t \in DOMAIN model.grams :
          /\ model.grams[t].m_WC = 0 => model.grams[t].items = <<>> /\ model.grams[t].m_freq # 0
          /\ ItemCount(model.grams[t]) = model.grams[t].m_WC
-----------------------------------------------------------------------------
Init ==
    /\ models = [file \in File |-> EmptyModel]
    /\ refused = {}
    /\ corpus = [file \in File |-> NoDocuments]
    /\ text = [lines |-> Exported(EmptyModel), corpus |-> NoDocuments]

Next ==
    \/ \E file \in File : \E document \in Document : Train(file, document)
    \/ \E target, new_one \in File : Merge(target, new_one)
    \/ \E file \in File : Prune(file) \/ Export(file) \/ Import(file)

Spec == Init /\ [][Next]_vars
-----------------------------------------------------------------------------
\* The files no tool reported an overflow for.
Good == {file \in File \ refused : models[file].header # NoHeader}

\* Every word of a pair is counted once as a word, whatever was trained, merged
\* and pruned in between: pruning takes as many from the unigram of each second
\* word as from the pairs, and never more than it has.
WordsOfPairs(model) ==
    \A token \in DOMAIN model.grams :
        model.grams[token].m_freq =
            SumFunction([t \in {t1 \in DOMAIN model.grams : token \in DOMAIN model.grams[t1].items}
                           |-> model.grams[t].items[token].m_WC])

\* What the tools generate, merge, prune and import passes validate_k_mixture_model,
\* until everything is pruned.  (--skip-pi-gram-training counts words it trains no
\* pair of: its models do not pass.)
ModelsValidate ==
    g_train_pi_gram =>
        \A file \in Good :
            /\ IF models[file].header.m_WC = 0 THEN models[file].grams = <<>>
               ELSE Validates(models[file])
            /\ WordsOfPairs(models[file])

\* The documents that were trained, and the sum of a count over them.
Used(documents) == {d \in Document : documents[d] # 0}

Total(documents, count) ==
    SumFunctionOnSet([d \in Document |-> documents[d] * count[d]], Used(documents))

ItemOf(documents, t, u) ==
    LET times == [d \in Document |-> PairCount(d, t, u)]
    IN  [m_WC |-> Total(documents, times),
         m_N_n_0 |-> Total(documents, [d \in Document |-> IF times[d] > 0 THEN 1 ELSE 0]),
         m_n_1 |-> Total(documents, [d \in Document |-> IF times[d] = 1 THEN 1 ELSE 0]),
         m_Mr |-> Max({times[d] : d \in Used(documents)})]

PairsFrom(document, t) == {i \in Pairs(document) : LastToken(document, i) = t}

GramOf(documents, t) ==
    [m_WC |-> Total(documents, [d \in Document |-> Cardinality(PairsFrom(d, t))]),
     m_freq |-> Total(documents, [d \in Document |-> WordCount(d, t)]),
     items |-> [u \in UNION {SecondWords(d, t) : d \in Used(documents)} |->
                   ItemOf(documents, t, u)]]

TokensOf(document) == FirstWords(document) \cup {document[i] : i \in Words(document)}

\* The model of a corpus: of the counts of each pair in each document
\* (k_mixture_model.h:28).
Model(documents) ==
    [header |-> [m_WC |-> Total(documents, [d \in Document |-> Cardinality(Pairs(d))]),
                 m_N |-> Total(documents, [d \in Document |-> 1]),
                 m_total_freq |-> Total(documents, [d \in Document |-> Cardinality(Words(d))])],
     grams |-> [t \in UNION {TokensOf(d) : d \in Used(documents)} |-> GramOf(documents, t)]]

\* A model is a function of the documents it was trained with, in whatever order
\* and wherever they were merged, exported and imported.
ModelOfCorpus ==
    \A file \in Good : corpus[file].known => models[file] = Model(corpus[file].documents)

\* What an item counts is possible: no more documents than there are, each of those
\* with the pair more than once adding two or more to the word count.
ItemPossible(N, item) ==
    /\ item.m_N_n_0 <= N /\ item.m_n_1 <= item.m_N_n_0
    /\ item.m_WC >= item.m_n_1 + 2 * (item.m_N_n_0 - item.m_n_1)
    /\ item.m_WC >= item.m_Mr

ItemsPossible ==
    \A file \in Good : \A t \in DOMAIN models[file].grams :
        \A u \in DOMAIN models[file].grams[t].items :
            ItemPossible(models[file].header.m_N, models[file].grams[t].items[u])

\* So every probability that prune_k_mixture_model computes is one, and it never
\* stops half-way, with grams pruned and the magic header as it was ("some wrong
\* possibility is encountered"), nor at a second word without a header.
PruneNeverStops ==
    \A file \in Good : \A t \in DOMAIN models[file].grams :
        /\ \A u \in DOMAIN models[file].grams[t].items :
               PossRight(models[file].header.m_N, models[file].grams[t].items[u])
        /\ DOMAIN models[file].grams[t].items \subseteq DOMAIN models[file].grams

\* What is built from the interpolation model of a validated text has its counts: the
\* frequencies of a single gram add up to its total and to the word count of its first
\* word, the unigrams to the total frequency, and no pair is more frequent than its
\* second word.
InterpolationBalances ==
    LET lines == text.lines
        loaded == Loaded(Interpolation(lines))
    IN  lines.data # NoHeader /\ g_train_pi_gram =>
          /\ DOMAIN loaded.bigram =
                {line.token : line \in {l \in lines.unigrams : l.count # 0}}
          /\ \A line \in lines.unigrams :
                line.count # 0 =>
                    /\ loaded.bigram[line.token].total_freq = line.count
                    /\ line.count = SumFunction(loaded.bigram[line.token].items)
          /\ lines.data.m_total_freq = SumFunction(loaded.unigram)
          /\ \A t \in DOMAIN loaded.bigram : \A u \in DOMAIN loaded.bigram[t].items :
                /\ u \in DOMAIN loaded.unigram
                /\ loaded.bigram[t].items[u] <= loaded.unigram[u]
=============================================================================
