----------------------- MODULE MCPhoneticConstraints -----------------------
(***************************************************************************)
(* A small instance: inputs of up to three typed columns whose one-column  *)
(* and longer phrases overlap in every way, one input that shares spans    *)
(* with another but pronounces others, and homophones in the first column. *)
(***************************************************************************)
EXTENDS ConstraintLoops, ZhuyinSession

CONSTANTS t, u, v, w

S(from, to, token) == [from |-> from, to |-> to, token |-> token]

MCToken == {t, u, v, w}

(* One typed column.                                                       *)
Short == [size |-> 2, fits |-> {S(0, 1, t), S(0, 1, u)}]

(* Three columns; v over the first two, w over the last two.               *)
Long == [size |-> 4,
         fits |-> {S(0, 1, t), S(0, 1, u), S(0, 2, v), S(1, 2, t), S(1, 3, w), S(2, 3, u)}]

(* Three columns with other keys; one phrase spans them all.               *)
Other == [size |-> 4,
          fits |-> {S(0, 1, t), S(1, 2, u), S(2, 3, u), S(0, 3, w)}]

MCInput == {Empty, Short, Long, Other}

(* The session is one of either library.                                   *)
VARIABLE library

MCInit == library \in {"pinyin", "zhuyin"} /\ Init
MCNext ==
    /\ \/ library = "pinyin" /\ Next
       \/ library = "zhuyin" /\ ZhuyinNext
    /\ UNCHANGED library
MCSpec == MCInit /\ [][MCNext]_<<vars, library>>
============================================================================
