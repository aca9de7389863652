---------------------------- MODULE MCUserFiles ----------------------------
(***************************************************************************)
(* Three files, of which the first is a phrase library; one upgrade; the   *)
(* files are cleaned after the third crash.                               *)
(***************************************************************************)
EXTENDS UserFiles

MCFiles == <<"library", "table", "bigram">>
============================================================================
