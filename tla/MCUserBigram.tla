---------------------------- MODULE MCUserBigram ----------------------------
(* One phrase of the system and one of the user, and two-word sentences. *)
EXTENDS UserBigram

MCTokens == {2, 3}
MCRemovable == {3}
MCSentences == {<<3, 2>>, <<2>>}
MCPredictions == {<<2, 2>>}
MCPronunciations == [t \in MCTokens |-> IF t = 3 THEN 2 ELSE 1]
MCSystemGrams ==
    [i \in {1, 2, 3} |->
        CASE i = 1 -> [total |-> 2, items |-> <<Item(2, 1), Item(3, 1)>>]
          [] i = 2 -> [total |-> 2, items |-> <<Item(3, 2)>>]
          [] OTHER -> [total |-> 0, items |-> <<>>]]
\* The user dictionary, everything, and a library no phrase here is of.
MCMasks == {{3}, {1, 2, 3}, {}}
=============================================================================
