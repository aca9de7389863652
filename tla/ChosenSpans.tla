---------------------------- MODULE ChosenSpans ----------------------------
(***************************************************************************)
(* What the forced selections of an input promise to the caller: the       *)
(* phrases picked so far are a set of spans of the input that never        *)
(* overlap.  A pick replaces exactly the spans it overlaps and leaves the  *)
(* others; a span that the input no longer pronounces is dropped the next  *)
(* time the selections are brought up to date; clearing a column drops the *)
(* one span that covers it; nothing alters a span in place.                *)
(*                                                                         *)
(* ForwardPhoneticConstraints keeps the same information in an array with  *)
(* one entry per input column; module PhoneticConstraints implements this  *)
(* specification.                                                          *)
(***************************************************************************)
EXTENDS Naturals

CONSTANTS
    Span,           \* all the spans: records with fields from, to, token
    Column          \* all the columns of an input

VARIABLES
    spans,          \* the picked spans
    valid           \* the spans the present input pronounces

vars == <<spans, valid>>

Overlap(r, s) == r.from < s.to /\ s.from < r.to

Disjoint(S) == \A r, s \in S : r # s => ~Overlap(r, s)

ClearOf(S, r) == \A s \in S : ~Overlap(r, s)

Init == spans = {} /\ valid \in SUBSET Span

(* New input: nothing is dropped until the next update.                    *)
Edit == valid' \in SUBSET Span /\ UNCHANGED spans

(* Sentence search drops what the input no longer pronounces.              *)
Update == spans' = spans \cap valid /\ UNCHANGED valid

(* One span is picked: what is stale goes, what it overlaps goes, and it   *)
(* stays only if the input pronounces it.                                  *)
Pick(s) ==
    /\ spans' = ({r \in spans : ClearOf({s}, r)} \cup {s}) \cap valid
    /\ UNCHANGED valid

(* Several disjoint spans are picked at once (the words in which another   *)
(* sentence differs from the best one).                                    *)
PickAll(S) ==
    /\ Disjoint(S)
    /\ spans' = {r \in spans : ClearOf(S, r)} \cup S
    /\ UNCHANGED valid

ClearColumn(i) ==
    /\ spans' = {r \in spans : ~(r.from <= i /\ i < r.to)}
    /\ UNCHANGED valid

Reset == spans' = {} /\ valid' \in SUBSET Span

Next ==
    \/ Edit
    \/ Update
    \/ \E s \in Span : Pick(s)
    \/ \E S \in SUBSET (spans' \cap Span) : PickAll(S)
    \/ \E i \in Column : ClearColumn(i)
    \/ Reset

Spec == Init /\ [][Next]_vars

(* No column of the input is claimed by two picked phrases.                *)
NeverOverlap == Disjoint(spans)
============================================================================
