# A TLA+ verification of libpinyin

libpinyin turns what a user types (pinyin or zhuyin syllables) into Chinese
sentences. It is a C++ library without threads of its own: an input-method engine
calls it, one call at a time, and every call runs to its end. What makes it hard is
therefore not parallelism but *history*. A call works on state that earlier calls
left behind for another input, on files that an earlier process wrote, on counters
kept twice, on lists another instance has outdated since; a long sequence of legal
calls, or a process that dies between two file operations, reaches states that no
unit test visits.

Paths are relative to `src/src/`, unless they begin with `utils/` (`src/utils/`).

## 1. Inventory

### Objects and how they interact

* A **context** (`pinyin_context_t` in `pinyin.cpp`, `zhuyin_context_t` in
  `zhuyin.cpp`) owns the dictionaries: the phrase libraries (`FacadePhraseIndex`), the
  pinyin and phrase tables, the system and user bigrams, the addon libraries, the
  parsers, the search, the version information of the user's directory
  (`UserTableInfo`) and a flag `m_modified`. It is opened by `pinyin_init`, written by
  `pinyin_save` and closed by `pinyin_fini`.
* An **instance** (`pinyin_instance_t`) is one input being typed: the matrix of
  phonetic keys, the forced selections, the n-best sentences and the list of
  candidates. It reads and trains the dictionaries of its context directly; all
  instances of a context share them. There are no callbacks or messages.
* The **engine** (the caller) owns the order of the calls. A candidate or a sentence it
  hands back may have been made for an earlier input.
* The **tools** in `utils/` prepare the language model: they segment text, train and
  merge models and write interpolation text. They meet in files only.

### Components

| Component | Source | State | Operations | What makes it correct |
|---|---|---|---|---|
| Forced selections | `lookup/phonetic_lookup.{h,cpp}`, `pinyin.cpp`, `zhuyin.cpp` | one entry per input column: none, a phrase, or "inside a phrase" | add, clear, validate, diff against another sentence | every phrase owns exactly its columns; a new choice drops exactly what it overlaps; what the input no longer pronounces goes; no assertion fails in a session that keeps to the protocol |
| N-best search | `lookup/phonetic_lookup*.h` | trellis of the best partial sentences per column | search, choose the tails, extract | sentences are chains of phrases with the scores they were ranked by; the first is the best |
| Key matrix | `storage/phonetic_key_matrix.*`, `pinyin.cpp` | columns of keys and where each ends; the cursor | fill, resplit, divide, fuzz, search, move the cursor | every key ends where one begins; no phrase is missed; the cursor stays on keys |
| Parsers | `storage/pinyin_parser2.*`, `zhuyin_parser2.*` | none between calls | parse | the best cut of the input; what was typed is what is read |
| Pinyin and phrase tables | `storage/chewing_large_table2*`, `phrase_large_table3*`, `facade_*` | sorted entries per index | add, remove, mask, search, suggest | a search finds what the table was given and nothing else |
| Candidates | `pinyin.cpp`, `zhuyin.cpp` | the list of an instance | guess, predict, sort, choose | every phrase found is offered once, in the order asked for |
| Phrase libraries | `storage/phrase_index.{h,cpp}`, `phrase_index_logger.h`, `include/memory_chunk.h` | items in memory with frequencies, a total per library and one for all | train, add, remove, mask, compact, diff, merge, load, store | totals are sums; a token finds its item; what was saved is what is loaded; masking forgets the masked |
| User files | `pinyin.cpp`, `zhuyin.cpp`, `storage/table_info.cpp`, `include/memory_chunk.h` | data files, `.tmp` files, `user.conf` with the version and the open counter | open and check, clean, write, rename, mark, close | a crash never cuts a file or loses a finished save; files of another version are not used |
| User dictionary | `pinyin.cpp` | phrases in the libraries and in two tables, learned pairs, lists of instances | import, remember, export, remove, mask, take over addon phrases | libraries, tables and bigram name the same phrases |
| Bigram store | `storage/ngram*`, `pinyin.cpp` | pairs of phrases with counts | train, merge, mask, export | grams stay sorted with true totals; nothing of a removed phrase remains; the export ends |
| Phrase segmentation | `lookup/phrase_lookup.*`, `utils/segment/` | none between calls (mergeseq: a queue) | segment, write, merge | the likeliest cut; the longest phrases |
| Training tools | `utils/training/`, `utils/storage/` | model files | generate, merge, prune, validate, export, import | models validate and are those of their corpus |
| Zhuyin context | `zhuyin.cpp` | as the pinyin context | as the pinyin context | the same |
| Superseded lookup and tables, other tools | `lookup/pinyin_lookup2.*`, `storage/*_table.cpp` of earlier formats, `utils/` | | | outside the running library |

### Hard behaviours

`PROJECT.json` lists each hazard at its line. In groups:

* *Stale state.* The forced selections, the sentences and the candidates all survive
  `pinyin_parse_more_*`, which refills the matrix only. A list survives what another
  instance removes. The export iterator of the bigram keeps a key it will go on from
  while everything around it is trained, masked and removed.
* *Legal sequences of calls.* Choices overlap in every way; the code clears column by
  column, and asserts that the array is never inconsistent. Imports, removals and masks
  alternate, while a library's log of differences is built against the shipped file each
  time. A table entry that says "longer phrases continue here" must outlive removals.
* *Orders that are not orders.* The comparison of keys with tones lets a missing part
  equal any; the beam search compares sentences of different lengths by two rules.
* *Numbers.* The totals are 32 bits wide and kept at two levels; each pronunciation
  counter has its own overflow guard.
* *Crashes and failing writes.* A save is several writes, several renames and a rewrite of
  `user.conf` in place; an opening rewrites `user.conf` and then removes files.

## 2. Modules

```
ChosenSpans  <--refines-- PhoneticConstraints <-- ZhuyinSession \
                                   ^-- ConstraintLoops ---------- MCPhoneticConstraints
                                                 ^-- PhoneticConstraints_proofs
DurableStore <--refines-- PhraseIndex  <-----------\
                               ^-- PhraseIndex_proofs > MCPhraseIndex
ItemStore    <--beside--- PhraseLayout <-----------/
                          UserFiles                  <-- MCUserFiles
                               ^-- UserFiles_proofs
                          UserDictionary             <-- MCUserDictionary
                               ^-- UserDictionary_proofs
                          UserBigram                 <-- MCUserBigram
                               ^-- UserBigram_proofs
PinyinParsers, PinyinTable <-- KeyMatrix  <----------\
PinyinParsers <-- ZhuyinKeyboards  <------------------ MCInput
                          NBestTrellis  <------------/
                               ^-- Input_proofs
PinyinTable, PhraseTable <-- TableBackends           <-- MCLookups
Candidates, PhraseTable <-- Segmentation  <--------------/
                          KMixtureModel  <---------------/
                               ^-- KMixtureModel_proofs
NumberLemmas <-- the proof modules that do induction or count
```

Where an MC module composes components that share no state (MCLookups, MCPhraseIndex,
MCInput), a variable `task` says which of them a behaviour is about; the others rest.

### PhoneticConstraints and ZhuyinSession: one input session

The state is that of an instance: `matrix`, `constraints` with their `length`, `results`
(the n-best sentences), `offered` (the candidate list). The actions are the calls of
`pinyin.h`: `ParseMore`, `GuessSentence`, `GuessCandidates`, `ChooseCandidate`,
`ChooseSentence`, `ClearConstraint`, `Train`, `Reset`. An action contains all that its call
does: `ChooseCandidate` validates, adds and validates again, as
`pinyin_choose_candidate` does. `ZhuyinSession` is the session of `zhuyin.cpp` over the same
operators: one sentence, candidates after or before the cursor, a choice that begins
where the candidate begins, its own order of validating and adding. The run explores
both.

A *matrix* is its size and the set of spans some phrase pronounces in it; the keys are
abstracted to that. A search returns any list of at most `NBest` sentences made of steps
the search may take (`Steppable`, `Chains`); the probabilities that select among them are
left out, so what holds here holds for every language model. Assertions of the code are
the actions `ChooseSentenceFails`, `TrainAborts` and `ZhuyinTrainAborts`, which end the
program (`status`). Training after edits reads keys that are abstracted away; where the
outcome depends on them both the training and the abort are possible.

Two history variables say which calls the protocol supports: `current` (the results belong
to the present input) and `trainable` (the results that a caller may train). They guard no
action: sessions out of step are explored too, and the array must keep its shape in them.

`Placed`, `Cleared` and `Validated` say in one step what the code's loops do column by
column; `ConstraintLoops` has the loops and checks that they agree on every array a
session reaches, on phrases and inputs of other sessions too. `ChosenSpans` is the promise
to the caller: a set of spans that never overlap, of which a pick replaces exactly the
overlapped ones.

### PhraseIndex: the phrase libraries and their logs

`items` (what memory holds per token), `subtotal` (per library), `total` (of all), `stored`
(files: a log of differences for a system library, the library itself for a user one),
`modified`. Frequencies wrap at `Wrap`, which stands for 2^32. The actions: `Train`,
`Choose`, `ImportPhrase`, `ImportPronunciation`, `EndAddPhrases`, `RemovePhrase`, `Save`,
`Reopen`, `MaskOut`, `MaskOutAborts`. `Diff` builds the log as `SubPhraseIndex::diff` does,
`MergedItem` and `MergedTotal` play it back, the total including the double counting of
records that add or enlarge an item. The history variable `exact` is FALSE once an
addition was refused or such a log was merged: then the totals are known to drift until
the next compact, and `BooksBalance` does not claim otherwise. `DurableStore` is the
promise: a value per key in memory and on disk; reopening brings back exactly what was
saved.

### PhraseLayout and ItemStore: where an item lies

One library as memory chunks of cells: the index of offsets and the content with its items,
read and written by offset as `phrase_index.cpp` does. Adding reuses or appends, a
pronunciation is inserted in place, removing clears an offset, `Compact` copies what is
left, `Save` and `Reopen` go through the file format with its separators and a shipped file.
`ItemStore` is an abstract store of items that takes the same calls in lock-step
(`known`, `kept`); `ItemsKept` says that memory, read through the offsets, is that store.

### UserFiles: the directory, crashes and the open counter

The files are written to `.tmp`, renamed, and `user.conf` is rewritten in place. Each file
operation is a step (`BeginWrite`, `EndWrite`, `Rename`, `Clean`, `BeginMark`, ...), so `Crash`
may come between any two. A write may fail (`EndWrite(FALSE)`). What learning adds to a file is
its generation. The zhuyin context's steps (`ZhuyinOpen`, `ZhuyinEndWrite`, `ZhuyinRename`,
`ZhuyinClose`) differ in what they check and when they mark; a behaviour is of one library.
A crash keeps what was handed to the operating system: a power failure that loses
completed writes is not modelled, since the code calls no fsync and promises nothing
there; nor is a failing write of `user.conf` itself. Removing `.tmp` files before writing is
folded into opening them. The `.tmp` names are used by one context at a time.

### UserDictionary: the phrases of the user and who still refers to them

A token is a library and a slot; the slot of a removed phrase is given out again
(`RangeEnd` is `SubPhraseIndex::get_range`). `items` are the phrase items, `keyTable` and
`phraseTable` the user's parts of the two tables, as relations, `learned` the tokens the user
bigram mentions, together with the phrase that was meant, `lists` the candidates of each
instance. The actions are the calls that change these together: `ImportPhrase` and
`ImportPronunciation` (`pinyin_iterator_add_phrase`), `RememberNew` and `RememberKnown`
(`pinyin_remember_user_input`, which files every way the input can be read),
`ChooseAddon`, `Train`, `RemoveCandidate`, `MaskOut`, and `Guess`, which makes a list.
`ImportAborts` and `RemoveAborts` are the assertions. An instance holds its list however the
others change the dictionary; the history variable `fresh` says that nothing was
removed since the list was made, and `misled` that a word was trained whose token had
lost its phrase. They guard no action. Which of the candidates with one phrase stays in
a list is left open, since the code decides by frequencies.

### UserBigram: the pairs and their export

A gram is a total and a sorted list of items, so that `InsertFreq`, `SetFreq`, `MaskedGram` (item
by item) and the merge of a system and a user gram (`MergeTurn`, one turn of its loops) are the
code's. `Train` follows
`pinyin_train` (the seed by the learned count, its overflow guards), `ChoosePredicted`
`pinyin_choose_predicted_candidate`, `Forget` is the masking by which a removal forgets,
`MaskOut` that of `pinyin_mask_out`. The export is a client of its own: `BeginExport`, `HasNext`, `GetNext`,
`EndExport` interleave with everything else, and read a phrase that is gone as
`ExportCrashes`. `touched` and `misled` are history: something was removed during the
export, or a sentence was trained that held a removed phrase.

### PinyinParsers, PinyinTable, KeyMatrix and ZhuyinKeyboards: from keys to phrases

`PinyinParsers` has the dynamic program of `FullPinyinParser2` as a recursive function and
the forward matches; what a span of letters spells is data. `KeyMatrix` fills the matrix from
a parse, resplits, divides and fuzzes it as the code does, column by column, searches it
(for sentences `Words`, the candidate list `Offered`, zhuyin's two lists, longer
suggestions) with the code's early stops, moves the cursor, and counts the characters
before an offset. What it searches are two pinyin tables of `PinyinTable`: a database from
indices to sorted entries, each phrase filed by its keys and by its initials, with the
code's comparison in which a missing final or tone is like any. The system's table is
built at the start, the user's changes between inputs.

`ZhuyinKeyboards` has `parse_one_key` of the simple, discrete, DaChen CP26 and direct zhuyin
parsers within the same forward match: tables of rows from keys to symbols, tones on keys of
symbols, indices with corrected spellings, keys pressed again for their next symbol. A
person types syllables one after another, each with a tone it is said in.

### NBestTrellis, Candidates, PhraseTable, Segmentation: what a user is shown

`NBestTrellis` is the beam search: nodes that keep `nstore` values, the heap order, the choice
of the tails, the extraction. `Candidates` composes, sorts and deduplicates the lists of
`pinyin_guess_candidates`, of the two prediction calls and of zhuyin's two calls.
`PhraseTable` is the phrase table as a database, `Segmentation` searches it together with the
system's for `PhraseLookup` (n-grams), for `spseg` (shortest path), writes the files of the
tools and merges them as `mergeseq` does, a line at a time through its queue.

### TableBackends: the tables over three databases

The library is built with one of three databases. Their calls are the same but for one thing:
with Kyoto Cabinet and Tkrzw a record is copied into an entry object the calls of a table
share (`held`), with Berkeley DB the entry refers to the record. `PhraseFiled`, `PinyinTakenAt` and
so on are the calls of the two tables of a user over `db` and `held`; `PhrasesMasked` and
`PinyinsMasked` mask record by record, through a cursor (`Swept`) or through a visitor (`Visited`).
`filed` is history: what the tables were given and not asked to forget.

### KMixtureModel: training the language model

A file holds a model: a header, and per first word a header and items. `Train` is
`gen_k_mixture_model` on a document (counts, documents, maxima, the rule that leaves
exploding pairs out), `Merge`, `Prune`, `Export`, `Import` and `Interpolation` are the other
tools; `Validates` is what `validate_k_mixture_model` accepts and `Loaded` what
`import_interpolation` makes of the text: frequencies of the libraries and grams of the bigram.
The history keeps which documents a file stands for.

## 3. Runs

| Run | Config | Bounds | Result |
|---|---|---|---|
| constraints | `MCPhoneticConstraints.cfg` | inputs of up to three typed columns, four phrases, two sentences; both libraries' sessions | 155 033 states, all hold |
| libraries | `MCPhraseIndex.cfg` | a system and a user library of two tokens, two pronunciations, totals modulo 4; a library of nine cells and two tokens, counters modulo 8 | 543 237 states, all hold |
| user_files | `MCUserFiles.cfg` | three files, limit 2, two versions, two rounds of learning, both libraries | 1 911 846 states, all hold |
| user_dictionary | `MCUserDictionary.cfg` | two instances, two phrases, two pronunciations, one addon phrase, two slots in each library, two words learned (`MaxLearned`) | 459 919 states, all hold |
| user_bigram | `MCUserBigram.cfg` | two phrases, two sentences, one prediction, totals modulo 3 | 78 680 states, all hold |
| key_matrix | `MCInput.cfg` | four columns (`MaxTyped`), two once the user's table was used (`MaxTypedThen`), six indices (`MaxIndices`), eight syllables; two syllables on three keyboards; sentences of four columns, seven words, one or two values to a node, a beam of four (`nbeam`) | 177 679 states, all hold |
| lookups | `MCLookups.cfg` | lists of seven tokens, texts of three characters and some longer; two model files, five documents, three trained (`MaxDocuments`), counts up to 9 (`MaxCount`); five phrases of two libraries in the tables | 80 059 states, all hold |
| removal_aborts | `MCRemoval.cfg` | as user_dictionary | violated |
| export_learned | `MCExportLearned.cfg` | as user_bigram | violated |
| min_heap | `MCMinHeap.cfg` | as key_matrix | violated |
| shortest_path | `MCShortestPath.cfg` | as lookups | violated |
| mask_others | `MCMaskOthers.cfg` | as lookups | violated |

What the passing runs show:

* *constraints.* `Shape`: each forced phrase owns exactly its columns, each closed column
  points back to its phrase. `ChoicesPronounced`, `SentencesPronounced`: while the sentences
  belong to the present input, they and the choices consist of words the input pronounces.
  `ProtocolNeverAborts`: choosing a sentence and training never fail an assertion while
  the caller keeps to the protocol. `LoopsAgree`: the loops compute what the one-step
  operators say. `ImplementsChosenSpans`: the refinement.
* *libraries.* `BooksBalance`: totals are the sums they stand for. `MaskedForgotten`: masking
  leaves nothing learned of a masked phrase. `ImplementsStore`: the refinement.
  `ItemsKept`: however items moved, grew or were dropped, a token finds its item, before and
  after a save.
* *user_files.* `FilesWhole`: a data file is never cut unless one of its own writes failed.
  `SavedSurvives`: what a finished save held is never replaced by something older.
  `LibrariesFirst`: a library is never older than the tables and bigrams that name its
  phrases. `CleanedForAReason`: the files are found not conforming exactly when `user.conf` is
  not whole, the version changed, or more than the limit of sessions crashed.
* *user_dictionary.* `TablesNameItems`: no entry of a table outlives its item or comes to name
  another. `ItemsFindable`: each item is found by its phrase and by one pronunciation at least.
  `UserPhrasesOnce`: no phrase is twice in the user dictionary. `FreshListsHold`: imports and
  choices of any instance leave the meaning of the others' candidates alone.
  `LearnedOfItsOwn`: a phrase that gets the token of a removed one inherits nothing that was
  learned of it.
* *user_bigram.* `GramsBalance`: grams stay sorted, none is empty, totals are sums, and masking
  trips no assertion. `MergeAgrees`: a merged gram has the sum of both for each word.
  `PairsNameItems`: pairs name phrases that exist. `ExportIsSafe`: an export reads a missing
  phrase only if phrases were removed while it ran, or words trained after their removal.
  `ExportEnds` (liveness): an export ends, though pairs are added and removed beside it.
* *key_matrix.* `ParseIsBest`: the parser reads as much as can be read, with the fewest keys and the
  fewest corrections among those. `TypedReadAndCounted`: what is typed on a zhuyin keyboard is read
  as it was meant (`TypedIsRead`), and no typed character before an offset is miscounted, whichever
  reading a phrase follows (`CharactersCounted`). `SearchNeverAborts`: the two assertions of
  `search_matrix_recur` hold. `NoPhraseMissed`: no early stop of a search loses a phrase.
  `TableAgrees`: the table finds what it was given and lets it be removed. `CursorOnKey`: every
  cursor call comes to a column that can be looked up from. `ResultsAreChains`, `BestSentence`:
  results are chains of phrases with their own scores, and the first is the best wherever the beam
  cut nothing and nodes keep one value or all candidates have one length (else the comparison is no
  order).
* *lookups.* `OfferedOnceInOrder`: each phrase found is
  in the list once, and the list is in the order asked for. `PhrasesReached`: suggestions and
  segmentations over the user's phrase table reach all it holds and score best; with each
  database the tables find what they were given, whatever their entries were used for before
  (with Berkeley DB after masking as well).
  `MergedLongest`: `mergeseq` joins a file into the longest phrases, whatever is left in the queue
  at its end.
  `ModelsValidate`: the validating tool accepts every model. `ModelOfCorpus`: a model is
  that of the documents it was made from, in any order of training and merging, where no
  pair was left out. `ItemsPossible`, `PruneNeverStops`: the probabilities the pruning computes
  stay probabilities, so its assertions hold. `InterpolationBalances`: the counts that are loaded of
  the interpolation text add up.

Why the bounds are enough. Three typed columns hold two adjacent or overlapping phrases, one
inside another and one that spans all, in both orders; two inputs of equal length with
different words exercise validation. Two tokens per library are the least with one
shipped and one added, one masked and one not; modulo 4 lets totals overflow at the second
training. Three files make a first, an inner and a last one; with limit 2 the counter passes
below, at and above its limit. Two slots are the least in which a slot is reused beside a
phrase that stays, or a phrase is held twice; a phrase with two pronunciations, one in both
libraries and one only the user has, meet every branch of `_add_phrase`. The instances are
symmetric. In the matrix one letter stands for half a syllable, so that four columns hold a
resplit pair with another key on either side, and each input is parsed once; the user's table
is filled before the first input. Texts of up to three characters over four letters meet every
pair of overlapping phrases; the longer ones were chosen for phrases of
`MAX_PHRASE_LENGTH` and for what lies in `mergeseq`'s queue when a file ends. Five phrases of one
and two characters have a phrase that begins others, one read before a shorter one, and one in
both libraries. A run about several components is no larger than the sum of them: `Tasks` names
those a run explores, and the violated runs take one. Nine cells hold two
items of which one grows. Two syllables are the least in which a tone key of one is next to
an initial of the other.

`CHECK_DEADLOCK FALSE` is given where the program may stop: a failed assertion, a bound
reached, the end of a parse or a file. `UserFiles` is checked for deadlock.

Fairness is stated once, in `UserBigram`: `WF_vars(Exporting)` says that a caller that began
an export goes on asking and taking, as the loop of every caller of
`pinyin_begin_get_bigram_phrases` does. Nothing else in the library runs by itself: all other
steps are calls the engine may or may not make, and each call terminates by the form of its
loops.

### What the violated runs say

1. `RemovalIsSafe`: a pronunciation added to a phrase that exists is put into its item
   (`pinyin.cpp:578`), never into the pinyin table; removing the phrase then trips the
   assertion that each of its pronunciations was there (`pinyin.cpp:3757`).
2. `ExportedAreLearned`: the export loads the pairs of the sentence start, skips them without
   removing them, and hands them out as pairs of the next phrase (`pinyin.cpp:889`).
3. `NodesKeepBest`: the heap of a full trellis node has its greatest value in front where the
   comments say the least (`lookup/phonetic_lookup_heap.h:70`): the best value is replaced by a
   better one, a value between is refused, the worst stays.
4. `ShortestPath`: `spseg` counts a word for every phrase that begins where the chosen one does
   (`utils/segment/spseg.cpp:121`): `abcd` is cut into `a` and `bcd`.

5. `OnlyMatchedMasked`: with Kyoto Cabinet and Tkrzw, masking puts each record into an entry that
   never gets shorter (`set_content`, `chewing_large_table2_kyotodb.cpp:471`,
   `phrase_large_table3_tkrzwdb.cpp:289`; the other two files have the same lines) and stores all the
   entry then holds. The empty record of a beginning takes over the tokens of the record before
   it: after masking a library that has nothing in the tables, the character 2 is found to be the
   phrase 1.

### Other differences, read off the code

The models do in these places what the code does; no run states what should happen
instead.

* A forced phrase of one column has no "nosearch" column, so the search steps over it
  (`lookup/phonetic_lookup.h:798`).
* `pinyin_mask_out` reloads each system library as shipped, and `merge_with_mask` returns early
  when the library does not match (`storage/phrase_index.cpp:311`): masking one library forgets
  what the others learned. Copying an added or removed record trips an assertion (`:850`).
* Not every call that learns sets `m_modified` (`pinyin.cpp:1136`); a crash between marking
  `user.conf` and removing old files lets the next start load them (`:187`); a failed write is
  renamed into place and `pinyin_save` returns TRUE (`:971`); the zhuyin context leaves
  `user.conf` as it is after an upgrade until the first save.
* An addon candidate is taken over without looking whether the addon dictionary has its phrase.
  Of longer candidates with one phrase the less frequent stays (`pinyin.cpp:2092`).
* `_check_offset` (`pinyin.cpp:2163`) asserts, rather than refuses, an offset behind a zero key, and
  looks at a column without asking whether there is a matrix.
* The export means to hand out pairs used "at least twice", but one use already counts 69, above
  its threshold of 68 (`pinyin.cpp:790`); it leaves its loop before the last phrase's pairs.
* `pinyin_remember_user_input` files incomplete keys too (its check is under `#if 0`,
  `pinyin.cpp:3625`): a phrase of initials only cannot be removed without an assertion, and a
  mixed one is found only when typed incompletely.
* A key that is twice in a column is counted twice by the possibility of a pronunciation. The
  overflow guard of `increase_pronunciation_possibility` looks at the pronunciations up to the
  one it is at (`storage/phrase_index.cpp:88`, `:133`).
* `ZhuyinSimpleParser2::set_scheme` lacks a `return` after `ZHUYIN_STANDARD_DVORAK` and falls into
  `abort()`. On DaChen CP26's keyboard a key pressed for two things in a row is taken for one:
  ㄙㄥ cannot be typed, and a fifth tone before ㄗ is read into it (`TypedIsRead` asks for inputs
  without this). `in_chewing_scheme` offers ㄧㄚ for `i`, `parse_one_key` gives it to `u`.
* `reduce_tokens` of `ngseg` asserts at most four tokens of a phrase; `mergeseq` gives a phrase with
  several tokens its first.

## 4. Proofs

Each proof module extends its component's module; the theorems hold for all values of the
constants that satisfy the component's named assumption.

* `PhoneticConstraints_proofs` assumes `ConstantsAssumption` (null_token is no phrase, inputs are
  well formed, at least one sentence is kept). `SessionInvariant` proves `TypeOK`, `Shape`,
  `SentencesPronounced` and `ChoicesPronounced` together: adding a phrase keeps the shape only if
  the array has the shape and the type already, and the words in which a chosen sentence
  differs from the best fit the array and are pronounced only because the sentences are. The
  lemmas say what `Cleared`, `Placed` and `Resized` preserve. `ShapeHolds`, `TypesHold`,
  `PronouncedHolds` and `SentencesHold` follow.
  `NeverAborts` needs one fact more, `Agreement`: what may be trained is a result of the present
  input that has each forced phrase, or ends no word where one begins. Choosing the k-th
  sentence destroys this for the others, which is why only it stays trainable.
  `ChosenSpansImplemented` is the refinement of `ChosenSpans`: `Picked` of the array starts empty,
  and each call is a pick, a validation or a stutter (`PickedNext`); `FromInputs` bounds the spans
  by those of the inputs, as the abstract specification does.
  `LoopsAlwaysAgree` proves the loops of `ConstraintLoops` equal to the operators on arrays of
  any length, by induction over the columns: after each column the loop has cleared exactly
  what `Cleared` says up to there.
  The module's last part proves the same invariants for the calls of the zhuyin library, from the
  same lemmas (`ZhuyinInvariant` and a theorem per property).
* `PhraseIndex_proofs` assumes `PhraseIndexAssumption`. `LogRestores` is the heart: merging the log
  built by `Diff` into the shipped library gives back every item. With `ItemsInvariant`
  (memory and files hold well-formed items) each action maps to a step of `DurableStore`, which
  is `StoreImplemented`; `MaskingForgets` is the action property.
  `BooksAlwaysBalance` assumes `ShippedAssumption` too: no shipped total overflows, which
  `add_unigram_frequency` refuses to let happen when the files are built. Its invariant, `BooksInv`,
  says of a state with `exact`: each library's total is the sum of its items and fits its width,
  of memory and of what the files restore; a log starts from the shipped items and total; and a
  system library has only grown since it was shipped. Without the last, masking half of a log
  could restore more than the whole log does, and overflow. The lemmas about sums say that
  two pairs of terms that agree slot by slot have sums that agree (`SumsAgree`); from this follow
  a single change (`SumOfChanged`), masking a user library and replaying a filtered log. That the
  totals wrap after each addition and not at the end is `CountedIs`.
* `UserFiles_proofs` assumes `UserFilesAssumption`: some files, each once; and that the marks for a
  missing and a cut file are neither data nor a `user.conf` (without this a file could be taken
  for its own absence). Each property has its invariant. `WritesInv` (for `FilesAreWhole`): of the
  files before the present one each has its contents in `.tmp`, later in place, unless its write
  failed, in the order of either library. `SavedInv` (for `SavesSurvive`): a context holds at least what
  the last finished save held, and while files are cleaned no save counts. `OrderInv` (for
  `LibrariesComeFirst`): cleaning goes in the order of the files too, and memory is as ordered as the
  disk it was read from and not older. `ConfInv` (for `Reasons`): the version in `user.conf` is the one of
  the data that wrote it, and its counter is the number of crashes, one more while a context
  is open. Nothing is assumed of how many files there are or how high the limit is.
* `UserDictionary_proofs` assumes `UserDictionaryAssumption`. `DictionaryInvariant` proves all
  invariants of the run together, with the types. That the slot `RangeEnd` names is free
  (`NewToken`) needs that a bounded set of numbers has a greatest member, which `LeastNatural` and
  `MaxOfBounded` derive from the library's theorem on well-founded relations; with
  `TablesNameItems` nothing that still counts can name that slot. `RemovalMasksOut` shows that
  removing a candidate is masking its token out, so that one lemma serves both.
* `UserBigram_proofs` assumes `UserBigramAssumption`, and for the merge `SystemBigramAssumption`: the
  shipped grams are sorted and have their sums as totals, as `import_interpolation.cpp` builds
  them. It proves all four invariants of the run.
  `GramsAlwaysBalance`: `TypeOK` says that every gram is sorted, not empty and balanced; that
  each operator keeps this rests on what it does to the sum of the frequencies
  (`SumOfInserted`, `SumOfChanged`, `MaskedIs`) and on arithmetic modulo the width, since the total is
  updated, and may overflow, apart from the items. `PairsAlwaysNameItems`: `NamesInv` adds that the
  sentence of an instance names phrases that exist until one of them goes.
  `ExportAlwaysSafe`: `ExportInv` says that the indices the iterator remembers are in the bigram
  while nothing was removed, and that what it read is of phrases that exist, so that a
  pair it found always has a pronunciation left to hand out; `TurnsAre` carries this through
  the loop of `has_next`, however long. `MergesAlwaysAgree`: `Merging` is the invariant of the
  merge's loop: what is behind the two cursors is merged and below all that is before them.
* `KMixtureModel_proofs` assumes `KMixtureModelAssumption` and proves every property of its
  component, from four invariants. Each speaks of the text too, since a file is imported from it.
  `IInv` (for `ItemsAlwaysPossible`): no item counts more documents than its header. A
  document counts its pairs at least once, and a header counts each document its items do.
  `Balanced` (for `ModelsAlwaysValidate`): a header has the sums of its words, a word the sum of
  its pairs and as frequency the sum of the pairs it is second in, no word counts
  nothing, and the text is an export of such a model. The sums of the second words go down a
  column of the table whose rows are the first ones, so training, merging and pruning are
  changes of a finite table (`Times`), and each is a fact about sums over it: that what
  pruning takes from the rows is what it takes from the columns is the exchange of two sums.
  `PruningNeverStops` needs both: with s documents that have a pair more than once, f further
  counts and g = f - s, the shares the pruning takes away leave s g^(k-2) / (N f^(k-2)) of
  the documents after k of them, which follows from one k to the next as f = g + s, and lies between 0
  and 1 as s <= f. `WordsFollow` (for `InterpolationAlwaysBalances`): the second word of a pair is
  no sentence start, the one word the interpolation leaves out.
  `CorporaKnown` (for `ModelsAreOfTheirCorpora`): a file whose corpus is known has, pair by pair
  and word by word, the counts of all documents of that corpus. A document more adds its
  counts to each total (`TotalWithOneMore`), other documents theirs (`TotalsOfBoth`), and the
  rule against exploding pairs left none out; `ModelIs` shows that this and `Balanced` leave one
  model only.
* `Input_proofs` assumes `NBestTrellisAssumption`: a node keeps one value or two, one to three
  sentences are asked for (one of one value), a column has finitely many words, scores are
  integers. Beam, matrix and language model are arbitrary.
  `TrellisInv` says of each value in the trellis that it was computed from the one it names, by column,
  word and number, in a column the search is through with, and has the length and the score of some chain
  of words; with this, walking back from a tail gives a chain (`ExtractedIs`, for
  `SentencesAlwaysChains`). The numbers stay true because columns up to the present one
  never change again, though nodes behind it are evaluated over and over. For
  `FirstAlwaysBest` it adds that no value of a node is better than its first, and that each chain to a
  column that was searched has been tried with each word from there, and met by a node whose first
  is no worse (`Covered`). Monotonicity enters here: `LongerIsNoBetter`
  shows that a better beginning stays better with the same word after it, and that the unigram, tried
  after the best value only, loses nothing. `EvalItemKeepsBest`, `TopIs` and `SortedIs` say what the heap and
  the sort keep: the best value survives in each, although the heap of two is turned round.

  Its second half is about the key matrix and assumes `KeyMatrixAssumption`, of which one part is a
  claim about the generated tables: the tables that divide and resplit keys put the new
  boundary inside the letters typed and make no "'" of keys (`KeysSplit`). `Spans` names the columns a
  key may take, so that nothing is assumed of keys a fuzzy pair made, which no table splits again.
  `KeysInv` says that what is typed is spelled by such keys and that the matrix, whatever the
  parser found and the options added, leads from key to key: the end of each key is a later
  column that has one, over no "'", and a "'" is alone in its column and followed by one with
  items. `FullParseIs` and `ForwardMatchIs` show that both parsers return keys that follow one
  another (for the dynamic program: each best step names one that does), `FilledIs` that
  the matrix filled from them leads so, with a "'" wherever no key covers a column behind the first.
  The loops that resplit, divide and fuzz then only have to keep it, one `SplitIs` or
  `FuzzyAtIs` at a time: a split key's halves meet in the new column, and what a fuzzy pair makes
  ends where the key did (`MatrixGrows`). `SearchSafe` follows since a column the recursion comes
  to is where a key ends, and `CursorAlwaysOnKey` since a cursor call walks to a key, back over
  "'"s, or to the end of a key; behind a "'" the assertion of `_check_offset` stops it.

  `ParseAlwaysBest` is about the dynamic program alone, and needs of the state only that the input
  is one. Both it and the set of all cuts are recursions over columns, so it goes by column: a
  step reaches its column from the beginning exactly if some cut ends there, its value is
  no worse than any of these, and that of the keys walked back from it (`BestAt`). A key more
  adds the same to all cuts that end where it begins (`CutAppended`), so the best of
  those stays the best of them (`ValueFrom`), and the step that stays is not beaten by the best from
  another start (`BestAtKey`). A column no cut reaches has a value too, of what starts further on,
  which is why a longer `parsed_len` is preferred first.

  Its last part is about the pinyin table and assumes no more of keys than that they are sequences of
  numbers. `UserTableInv` says of any table reached that it holds exactly the pairs it was
  given, each under its two indices (`FilesOf`); that each entry is sorted by its keys and has no item
  twice; and that with an index all shorter ones that begin it are there (`TableHolds`). The order
  of an entry is a total one (`OrderTotal`, `OrderTransitive`), so searching by halves with it finds an
  item where it is (`SameIs`), and inserting, removing and masking keep it. The order searches use is
  none, since a missing final is like any; but `RangeIsAll` shows that no search by halves with
  it leaves anything out: all items under an index are like the index. `FiledUnder` shows that a
  phrase that was typed out is under the index of all keys it matches, `TableFinds` and `TableRemoves`
  then give `TableAlwaysAgrees`.
* `NumberLemmas` makes this possible. The library's induction theorems take an operator as a parameter,
  which the provers at hand cannot instantiate; with a *set* in its place (`InductionUpTo`,
  `InductionOverSet`, `InductionByMeasure`) and *functions* for the steps (`RecursionUpTo`) induction
  over an interval or a finite set becomes a fact to cite. `RecursionByMeasure` does the same for a
  recursion that calls any values of a lesser measure, as the parsers and the searches do.
  So the loops of the models are recursive functions over an interval, and the sums running
  sums. Its other parts are the arithmetic of counters that wrap, and sums over finite sets as
  `SumFunction` has them: one term more, two ranges, changed terms, terms renamed, sums exchanged.

Model-checked only:

* `ItemsKept` (`PhraseLayout`), about cells of memory: it needs an invariant on where each offset
  points while an insertion shifts the cells behind it.
* Of `KeyMatrix`, what is found along its paths. `NoPhraseMissed` and the `CharactersCounted` of
  `TypedReadAndCounted` compare searches that recur over the columns of a matrix with what they
  should find; `NoPhraseMissed` needs of the system's table what `TableHolds` says of the user's, which
  is true once `load_text` has read all of it.
* `OfferedOnceInOrder`, `PhrasesReached` and `MergedLongest` (`Candidates`, `Segmentation`, `TableBackends`),
  which each ask of one long pure function what it returns; there is no state between its steps that
  an invariant could be about.
* `TypedIsRead` (`ZhuyinKeyboards`), the other part of it, which asks which rows the tables of the keyboards have.
* `ExportEnds`, since liveness and ENABLED are out of the provers' reach, and the five violated runs.

## 5. Not modelled

* `storage/zhuyin_table.h` and `storage/pinyin_parser_table.h`, a third of the source's lines, are
  generated tables: data to the modules above, of which `MCInput` has a few rows. So are the
  option bits of the parsers and the fuzzy and incomplete spellings in these tables.
* The databases themselves, opening and copying them, and the bigram and punctuation tables over
  Kyoto Cabinet and Tkrzw, which repeat those over Berkeley DB call by call. File formats other than the libraries', memory mapping, text parsing,
  Unicode and the conversion of keys to strings do no more than their libraries.
* Probabilities as floating-point numbers: scores are exact sums of integers (`NBestTrellis`,
  `Segmentation`), pruning uses fractions (`KMixtureModel`), and
  `compute_pronunciation_possibility` is left out, with `PhraseItem::get_pronunciation_possibility`
  standing for "may be pronounced so".
* Loading and unloading an optional library while the program runs (`pinyin.cpp:446-505`):
  `PhraseIndex` has a fixed set of libraries, loaded at `Reopen`.
* The iterator that exports single phrases (`pinyin.cpp:661-774`): it changes nothing. It asserts that
  its next token is still valid, so a removal between two of its calls ends the program, as in
  the export of pairs.
* A second context on one directory: nothing locks it and nothing documents it.
* The superseded lookup (`lookup/pinyin_lookup2.*`), tables of older formats and the other tools of
  `utils/`, which read files and write one table or one number, once.
* The rest of `zhuyin.cpp` repeats `pinyin.cpp` over the same modules (importing, masking, the cursor).

## 6. The plan from here

Proofs: `OfferedOnceInOrder` for the operators that compose a list; `TypedIsRead`, from what
each kind of keyboard makes of one syllable.

Models: libraries loaded and unloaded while the program runs; the zhuyin calls that import and
mask, as `ZhuyinSession` does for the session; `parse_one_key` of the pinyin parsers over rows of
their tables, as `ZhuyinKeyboards` does for zhuyin's.
