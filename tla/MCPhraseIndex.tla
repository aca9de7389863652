--------------------------- MODULE MCPhraseIndex ---------------------------
(***************************************************************************)
(* One system library, 1, and one user library, 7, of two slots.  The      *)
(* shipped library has a phrase in slot 1, so that a second one can be     *)
(* added to it; a library's total overflows at its second training.        *)
(***************************************************************************)
EXTENDS PhraseIndex, Sequences

MCShipped == [k \in Key |->
                 IF k = <<1, 1>> THEN [prons |-> 1, freq |-> 1] ELSE NoItem]

(* Everything, all of the user's library, and one slot of every library    *)
(* (which leaves the other slot's record in the log).                      *)
MCMasks == {[libs |-> Lib, slots |-> Slot],
            [libs |-> UserLib, slots |-> Slot],
            [libs |-> Lib, slots |-> {1}],
            [libs |-> Lib, slots |-> {2} \cap Slot]}

-----------------------------------------------------------------------------
(* How the items of one library lie in memory and in its file is checked   *)
(* beside: a run has one of the two tasks.                                 *)

LayoutPhrases == {<<11>>, <<11, 12>>}

(* 20 is a key with an initial only, 21 and 22 are complete.               *)
LayoutKeys == {<<20>>, <<21>>, <<21, 22>>}

LayoutLike(typed, keys) ==
    /\ Len(typed) = Len(keys)
    /\ \A n \in DOMAIN keys : 20 \in {typed[n], keys[n]} \/ typed[n] = keys[n]

VARIABLES task, lib, saved, system, known, kept

File == <<2, 5, 8, 17, 99, 0, 2, 99, 0, 0, 1, 1, 2, 11, 21, 2, 99>>

Layout == INSTANCE PhraseLayout WITH
    MaxToken <- 2, Phrase <- LayoutPhrases, Keys <- LayoutKeys, Like <- LayoutLike,
    Counts <- {2}, Wrap <- 8, MaxProns <- 2, MaxContent <- 9, Reserved <- 2,
    c_separate <- 99, ShippedFile <- File

layoutVars == <<lib, saved, system, known, kept>>

LayoutIdle == UNCHANGED layoutVars

MCInit ==
    /\ Init
    /\ \/ /\ task = "books"
          /\ lib = 0 /\ saved = 0 /\ system = FALSE /\ known = 0 /\ kept = 0
       \/ task = "layout" /\ Layout!Init

MCNext ==
    /\ UNCHANGED task
    /\ \/ task = "books" /\ Next /\ LayoutIdle
       \/ task = "layout" /\ Layout!Next /\ UNCHANGED vars

MCSpec == MCInit /\ [][MCNext]_<<vars, task, layoutVars>>

(* PhraseLayout!ItemsKept.                                                 *)
ItemsKept == task = "layout" => Layout!ItemsKept
============================================================================
