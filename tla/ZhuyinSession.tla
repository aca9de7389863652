--------------------------- MODULE ZhuyinSession ---------------------------
(***************************************************************************)
(* An input session of the zhuyin library: the calls of src/zhuyin.cpp     *)
(* over the same forced selections, with one sentence instead of NBest and *)
(* a list of candidates that may end at the cursor instead of beginning    *)
(* there.                                                                  *)
(***************************************************************************)
EXTENDS PhoneticConstraints

\* zhuyin_alloc_instance
ZhuyinInit == Init

\* zhuyin_parse_more_full_pinyins, zhuyin_parse_more_chewings
ZhuyinParseMore(m) == ParseMore(m)

\* zhuyin_guess_sentence, with a prefix or without.
ZhuyinGuessSentence == GuessSentence /\ DOMAIN results' \subseteq {1}

Offer(spans) ==
    /\ Running
    /\ offered' = IF matrix.size = 0 THEN NoCandidates
                  ELSE [spans |-> spans, sentences |-> DOMAIN results]
    /\ UNCHANGED <<matrix, length, constraints, results, current, trainable, status>>

\* zhuyin_guess_candidates_after_cursor
GuessAfterCursor(offset) == Offer({s \in matrix.fits : s.from = offset})

\* zhuyin_guess_candidates_before_cursor
GuessBeforeCursor(offset) == Offer({s \in matrix.fits : s.to = offset})

\* zhuyin_choose_candidate of a phrase; whether it is after or before the cursor
\* decides where the cursor goes only.
ZhuyinChooseCandidate(s) == ChooseCandidate(s)

\* ... of the sentence: nothing is forced, and the result need not be there any more.
ChooseBestMatch ==
    /\ Running
    /\ 1 \in offered.sentences
    /\ UNCHANGED vars

\* zhuyin_clear_constraint
ZhuyinClearConstraint(i) == ClearConstraint(i)

\* zhuyin_train trains the one sentence.
ZhuyinTrain == Train(1)
ZhuyinTrainAborts == TrainAborts(1)

\* zhuyin_reset
ZhuyinReset == Reset

ZhuyinNext ==
    \/ \E m \in Input : ZhuyinParseMore(m)
    \/ ZhuyinGuessSentence
    \/ \E i \in {0} \cup 0 .. matrix.size - 1 : GuessAfterCursor(i) \/ GuessBeforeCursor(i)
    \/ \E s \in offered.spans : ZhuyinChooseCandidate(s)
    \/ ChooseBestMatch
    \/ \E i \in 0 .. length - 1 : ZhuyinClearConstraint(i)
    \/ ZhuyinTrain
    \/ ZhuyinTrainAborts
    \/ ZhuyinReset

ZhuyinSpec == ZhuyinInit /\ [][ZhuyinNext]_vars
============================================================================
