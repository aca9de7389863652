---------------------------- MODULE DurableStore ----------------------------
(***************************************************************************)
(* What learning promises to the user: a value per key, held in memory and *)
(* on disk.  Learning changes one value in memory; saving makes the disk   *)
(* hold what memory holds; reopening brings back what was saved, neither   *)
(* more nor less; forgetting returns the masked keys to the value shipped  *)
(* with the program (no value for a phrase of the user's).                 *)
(*                                                                         *)
(* The phrase libraries keep the system part as shipped and store only a   *)
(* log of differences; module PhraseIndex implements this specification.   *)
(***************************************************************************)
CONSTANTS
    Key,
    Value,
    Shipped         \* the value of each key in the shipped files

VARIABLES
    memory,
    durable

vars == <<memory, durable>>

Init == memory = Shipped /\ durable = Shipped

Learn(k) ==
    /\ \E v \in Value : memory' = [memory EXCEPT ![k] = v]
    /\ UNCHANGED durable

Save == durable' = memory /\ UNCHANGED memory

Reopen == memory' = durable /\ UNCHANGED durable

(* A key that is not masked may fall back to its saved or shipped value.   *)
Forget(K) ==
    /\ \A k \in Key : memory'[k] \in
           IF k \in K THEN {Shipped[k]} ELSE {memory[k], durable[k], Shipped[k]}
    /\ DOMAIN memory' = Key
    /\ UNCHANGED durable

Next ==
    \/ \E k \in Key : Learn(k)
    \/ Save
    \/ Reopen
    \/ \E K \in SUBSET Key : Forget(K)

Spec == Init /\ [][Next]_vars
=============================================================================
