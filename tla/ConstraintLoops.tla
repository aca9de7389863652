-------------------------- MODULE ConstraintLoops --------------------------
(***************************************************************************)
(* The array operations of ForwardPhoneticConstraints as the code runs     *)
(* them, one column after the other on the array as the previous columns   *)
(* left it.  PhoneticConstraints states what each leaves behind in one     *)
(* step; the two agree on every array a session reaches.                   *)
(***************************************************************************)
EXTENDS PhoneticConstraints

ClearAt(c, n, index) ==
    IF index >= n \/ c[index].type = "none" THEN c
    ELSE LET start == IF c[index].type = "nosearch" THEN c[index].step ELSE index
         IN  [j \in DOMAIN c |->
                 IF start <= j /\ j < c[start].step THEN NoConstraint ELSE c[j]]

(* A mutant of AddAt: only the first column is cleared.                    *)
AddAfterOneClear(c, n, s) ==
    IF s.to > n THEN c
    ELSE LET cleared == ClearAt(c, n, s.from)
         IN  [j \in DOMAIN c |->
                 IF j = s.from THEN OneStep(s.token, s.to)
                 ELSE IF s.from < j /\ j < s.to THEN NoSearch(s.from) ELSE cleared[j]]

AddAt(c, n, s) ==
    LET cleared[k \in s.from .. s.to] ==
            IF k = s.from THEN c ELSE ClearAt(cleared[k - 1], n, k - 1)
    IN  IF s.to > n THEN c
        ELSE [j \in DOMAIN c |->
                 IF j = s.from THEN OneStep(s.token, s.to)
                 ELSE IF s.from < j /\ j < s.to THEN NoSearch(s.from)
                 ELSE cleared[s.to][j]]

(* Column i of the loop of validate_constraint.                            *)
ValidateAt(c, m, i) ==
    IF /\ c[i].type = "onestep"
       /\ c[i].step >= m.size \/ SpanAt(c, i) \notin m.fits
    THEN ClearAt(c, m.size, i)
    ELSE c

ValidateAll(c, n, m) ==
    LET upto[k \in 0 .. m.size] ==
            IF k = 0 THEN Resized(c, n, m.size) ELSE ValidateAt(upto[k - 1], m, k - 1)
    IN  upto[m.size]

(* On every array a session reaches, a stale one too, the loops leave what *)
(* was meant: clear_constraint drops the one phrase that owns the column,  *)
(* add_constraint exactly the phrases the new one overlaps, and of         *)
(* validate_constraint, against any input, a phrase dropped at one column  *)
(* never hides or revives one at a later column.                           *)
LoopsAgree ==
    /\ \A i \in 0 .. length : ClearAt(constraints, length, i) = Cleared(constraints, {i})
    /\ \A s \in Universe : AddAt(constraints, length, s) = Added(constraints, length, s)
    /\ \A m \in Input : ValidateAll(constraints, length, m) = Validated(constraints, length, m)
============================================================================
