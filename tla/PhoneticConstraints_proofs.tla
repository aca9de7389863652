--------------------- MODULE PhoneticConstraints_proofs ---------------------
(***************************************************************************)
(* Proofs about the forced selections, for every set of tokens and inputs: *)
(* the array operations keep the shape of the array, hence every reachable *)
(* array has it, in the sessions of the pinyin library and, at the end, in *)
(* those of the zhuyin library.                                            *)
(***************************************************************************)
EXTENDS ConstraintLoops, ZhuyinSession, FiniteSetTheorems, NumberLemmas, TLAPS

(* An array with one entry per column 0 .. n-1.                            *)
Arrays(n) == [0 .. n - 1 -> Entry]

(* The columns of a phrase answer to the same onestep entry: clearing from *)
(* any of them clears all of them.                                         *)
LEMMA BlockIsOnePhrase ==
    ASSUME NEW n \in Nat, NEW top \in Nat, NEW c \in Arrays(n),
           WellFormed(c, top),
           NEW i \in DOMAIN c, NEW j \in Block(c, i)
    PROVE  /\ j \in DOMAIN c
           /\ Anchor(c, i) \in DOMAIN c
           /\ c[Anchor(c, i)].type = "onestep"
           /\ Anchor(c, j) = Anchor(c, i)
           /\ c[j].type # "none"
<1> DEFINE b == Anchor(c, i)
<1>1. DOMAIN c = 0 .. n - 1 /\ c[i] \in Entry
  BY DEF Arrays
<1>2. c[i].type \in {"onestep", "nosearch"}
  BY <1>1 DEF Block, Entry
<1>3. b \in DOMAIN c /\ c[b].type = "onestep"
  BY <1>1, <1>2 DEF Anchor, WellFormed, PointsBack
<1>4. j \in DOMAIN c /\ b <= j /\ j < c[b].step
  BY <1>2 DEF Block
<1>5. CASE j = b
  BY <1>3, <1>4, <1>5 DEF Anchor
<1>6. CASE j # b
  <2>1. c[j] = NoSearch(b)
    BY <1>1, <1>3, <1>4, <1>6 DEF WellFormed, OwnsItsColumns
  <2> QED
    BY <2>1, <1>3, <1>4 DEF Anchor, NoSearch
<1> QED
  BY <1>5, <1>6

(* Clearing any columns leaves a well-formed array.                        *)
LEMMA ClearedIsWellFormed ==
    ASSUME NEW n \in Nat, NEW top \in Nat, NEW c \in Arrays(n),
           WellFormed(c, top), NEW I
    PROVE  Cleared(c, I) \in Arrays(n) /\ WellFormed(Cleared(c, I), top)
<1> DEFINE d == Cleared(c, I)
           Hit(j) == \E k \in I \cap DOMAIN c : j \in Block(c, k)
<1>1. DOMAIN c = 0 .. n - 1 /\ DOMAIN d = 0 .. n - 1
  BY DEF Arrays, Cleared
<1>2. \A j \in DOMAIN c : d[j] = IF Hit(j) THEN NoConstraint ELSE c[j]
  BY DEF Cleared
<1>3. NoConstraint \in Entry
  BY DEF NoConstraint, Entry
<1>4. d \in Arrays(n)
  BY <1>1, <1>3 DEF Arrays, Cleared
<1>5. ASSUME NEW i \in DOMAIN c, NEW j \in DOMAIN c,
             Anchor(c, i) \in DOMAIN c,
             c[i].type # "none", c[j].type # "none", Anchor(c, i) = Anchor(c, j), Hit(j),
             Anchor(c, i) <= i, i < c[Anchor(c, i)].step
      PROVE  Hit(i)
  <2>1. PICK k \in I \cap DOMAIN c : j \in Block(c, k)
    BY <1>5
  <2>2. Anchor(c, k) = Anchor(c, i) /\ c[k].type # "none"
    BY <2>1, <1>5, BlockIsOnePhrase DEF Block
  <2>3. i \in Block(c, k)
    BY <2>2, <1>5 DEF Block
  <2> QED
    BY <2>1, <2>3
<1>6. ASSUME NEW i \in DOMAIN c, d[i].type = "onestep"
      PROVE  OwnsItsColumns(d, top, i)
  <2>1. ~Hit(i) /\ d[i] = c[i] /\ c[i].type = "onestep"
    BY <1>2, <1>6 DEF NoConstraint
  <2>2. /\ i < c[i].step /\ c[i].step <= top
        /\ \A j \in DOMAIN c : i < j /\ j < c[i].step => c[j] = NoSearch(i)
    BY <2>1 DEF WellFormed, OwnsItsColumns
  <2>3. ASSUME NEW j \in DOMAIN c, i < j, j < c[i].step
        PROVE  d[j] = NoSearch(i)
    <3>1. c[j] = NoSearch(i)
      BY <2>2, <2>3
    <3>2. Anchor(c, j) = i /\ Anchor(c, i) = i /\ c[j].type # "none" /\ i <= i
      BY <3>1, <2>1, <1>1 DEF Anchor, NoSearch
    <3>3. ~Hit(j)
      BY <3>2, <2>1, <2>2, <1>5
    <3> QED
      BY <3>1, <3>3, <1>2
  <2> QED
    BY <2>1, <2>2, <2>3, <1>1 DEF OwnsItsColumns
<1>7. ASSUME NEW i \in DOMAIN c, d[i].type = "nosearch"
      PROVE  PointsBack(d, i)
  <2>1. ~Hit(i) /\ d[i] = c[i] /\ c[i].type = "nosearch"
    BY <1>2, <1>7 DEF NoConstraint
  <2> DEFINE b == c[i].step
  <2>2. b \in DOMAIN c /\ b < i /\ c[b].type = "onestep" /\ i < c[b].step
    BY <2>1 DEF WellFormed, PointsBack
  <2>3. Anchor(c, i) = b /\ Anchor(c, b) = b /\ c[b].type # "none" /\ b <= i
    BY <2>1, <2>2, <1>1 DEF Anchor
  <2>4. ~Hit(b)
    BY <2>1, <2>2, <2>3, <1>5
  <2>5. d[b] = c[b]
    BY <2>2, <2>4, <1>2
  <2> QED
    BY <2>1, <2>2, <2>5, <1>1 DEF PointsBack
<1> QED
  BY <1>1, <1>4, <1>6, <1>7 DEF WellFormed, OwnsItsColumns, PointsBack

(* A cleared column is free.                                               *)
LEMMA ClearedIsFree ==
    ASSUME NEW n \in Nat, NEW top \in Nat, NEW c \in Arrays(n),
           WellFormed(c, top), NEW I, NEW j \in I \cap DOMAIN c
    PROVE  Cleared(c, I)[j].type = "none"
<1>1. DOMAIN c = 0 .. n - 1 /\ c[j] \in Entry
  BY DEF Arrays
<1>2. CASE c[j].type = "none"
  BY <1>2 DEF Cleared, NoConstraint
<1>3. CASE c[j].type # "none"
  <2>1. j \in Block(c, j)
    BY <1>1, <1>3 DEF Block, Anchor, Entry, WellFormed, OwnsItsColumns, PointsBack
  <2> QED
    BY <2>1 DEF Cleared, NoConstraint
<1> QED
  BY <1>2, <1>3

(* Spans that fit in n columns and do not share one.                       *)
Fitting(S, n) ==
    /\ S \subseteq Span
    /\ \A s \in S : s.from < s.to /\ s.to <= n
    /\ \A r, s \in S : r = s \/ r.to <= s.from \/ s.to <= r.from

(* Writing disjoint phrases over whatever was there leaves a well-formed   *)
(* array.                                                                  *)
LEMMA PlacedIsWellFormed ==
    ASSUME NEW n \in Nat, NEW c \in Arrays(n), WellFormed(c, n),
           NEW S, Fitting(S, n)
    PROVE  Placed(c, S) \in Arrays(n) /\ WellFormed(Placed(c, S), n)
<1> DEFINE I == {j \in DOMAIN c : \E s \in S : Covers(s, j)}
           e == Cleared(c, I)
           d == Placed(c, S)
           Covered(j) == \E s \in S : Covers(s, j)
<1>1. DOMAIN c = 0 .. n - 1 /\ DOMAIN d = 0 .. n - 1
  BY DEF Arrays, Placed
<1>2. e \in Arrays(n) /\ WellFormed(e, n) /\ DOMAIN e = 0 .. n - 1
  <2>1. e \in Arrays(n) /\ WellFormed(e, n)
    BY ClearedIsWellFormed
  <2> QED
    BY <2>1 DEF Arrays
<1>3. \A j \in 0 .. n - 1 : Covered(j) => e[j].type = "none"
  BY <1>1, ClearedIsFree
<1>4. \A j \in 0 .. n - 1 : ~Covered(j) => d[j] = e[j]
  BY <1>1 DEF Placed
<1>5. ASSUME NEW s \in S, NEW j \in 0 .. n - 1, Covers(s, j)
      PROVE  d[j] = IF j = s.from THEN OneStep(s.token, s.to) ELSE NoSearch(s.from)
  <2>1. \A r \in S : Covers(r, j) => r = s
    BY <1>5 DEF Fitting, Covers, Span
  <2>2. (CHOOSE r \in S : Covers(r, j)) = s
    BY <2>1, <1>5
  <2> QED
    BY <2>2, <1>1, <1>5 DEF Placed
<1>6. d \in Arrays(n)
  <2> SUFFICES ASSUME NEW j \in 0 .. n - 1
               PROVE  d[j] \in Entry
    BY <1>1 DEF Arrays, Placed
  <2>1. CASE Covered(j)
    <3>1. PICK s \in S : Covers(s, j)
      BY <2>1
    <3>2. s.from \in Nat /\ s.to \in Nat /\ s.token \in Token
      BY DEF Fitting, Span
    <3>3. OneStep(s.token, s.to) \in Entry /\ NoSearch(s.from) \in Entry
      BY <3>2 DEF OneStep, NoSearch, Entry
    <3> QED
      BY <3>1, <3>3, <1>5
  <2>2. CASE ~Covered(j)
    BY <2>2, <1>2, <1>4 DEF Arrays
  <2> QED
    BY <2>1, <2>2
<1>7. ASSUME NEW i \in 0 .. n - 1, Covered(i)
      PROVE  OwnsItsColumns(d, n, i) /\ PointsBack(d, i)
  <2>1. PICK s \in S : Covers(s, i)
    BY <1>7
  <2>2. /\ s.from \in Nat /\ s.to \in Nat /\ s.from < s.to /\ s.to <= n
        /\ s.from <= i /\ i < s.to
    BY <2>1 DEF Fitting, Span, Covers
  <2>3. \A j \in 0 .. n - 1 : s.from <= j /\ j < s.to => Covers(s, j)
    BY DEF Covers
  <2>4. CASE i = s.from
    BY <1>1, <1>5, <2>1, <2>2, <2>3, <2>4
    DEF OwnsItsColumns, PointsBack, OneStep, NoSearch
  <2>5. CASE i # s.from
    <3>1. d[i] = NoSearch(s.from)
      BY <1>5, <2>1, <2>5
    <3>2. d[s.from] = OneStep(s.token, s.to)
      BY <1>5, <2>2, <2>3
    <3> QED
      BY <1>1, <2>2, <3>1, <3>2 DEF OwnsItsColumns, PointsBack, OneStep, NoSearch
  <2> QED
    BY <2>4, <2>5
<1>8. ASSUME NEW i \in 0 .. n - 1, ~Covered(i)
      PROVE  OwnsItsColumns(d, n, i) /\ PointsBack(d, i)
  <2>1. d[i] = e[i] /\ OwnsItsColumns(e, n, i) /\ PointsBack(e, i)
    BY <1>2, <1>4, <1>8 DEF WellFormed
  <2>2. OwnsItsColumns(d, n, i)
    <3> SUFFICES ASSUME d[i].type = "onestep",
                        NEW j \in 0 .. n - 1, i < j, j < d[i].step
                 PROVE  d[j] = NoSearch(i)
      BY <1>1, <2>1 DEF OwnsItsColumns
    <3>1. e[j] = NoSearch(i)
      BY <1>2, <2>1 DEF OwnsItsColumns
    <3>2. ~Covered(j)
      BY <1>3, <3>1 DEF NoSearch
    <3> QED
      BY <1>4, <3>1, <3>2
  <2>3. PointsBack(d, i)
    <3> SUFFICES ASSUME d[i].type = "nosearch"
                 PROVE  PointsBack(d, i)
      BY DEF PointsBack
    <3>1. e[i].step \in 0 .. n - 1 /\ e[e[i].step].type = "onestep"
      BY <1>2, <2>1 DEF PointsBack
    <3>2. ~Covered(e[i].step)
      BY <1>3, <3>1
    <3>3. d[e[i].step] = e[e[i].step]
      BY <1>4, <3>1, <3>2
    <3> QED
      BY <1>1, <1>2, <2>1, <3>3 DEF PointsBack
  <2> QED
    BY <2>2, <2>3
<1> QED
  BY <1>1, <1>6, <1>7, <1>8 DEF WellFormed

(* A column of a placed phrase holds an entry of that phrase.              *)
LEMMA PlacedOnce ==
    ASSUME NEW n \in Nat, NEW c \in Arrays(n), NEW S, Fitting(S, n),
           NEW j \in 0 .. n - 1, NEW s \in S, Covers(s, j)
    PROVE  /\ Placed(c, S)[j] =
                 IF j = s.from THEN OneStep(s.token, s.to) ELSE NoSearch(s.from)
           /\ Placed(c, S)[j].type = "onestep" => SpanAt(Placed(c, S), j) = s
<1>1. \A r \in S : Covers(r, j) => r = s
  BY DEF Fitting, Covers, Span
<1>2. (CHOOSE r \in S : Covers(r, j)) = s
  BY <1>1
<1>3. Placed(c, S)[j] = IF j = s.from THEN OneStep(s.token, s.to) ELSE NoSearch(s.from)
  BY <1>2 DEF Placed, Arrays
<1>4. s = [from |-> s.from, to |-> s.to, token |-> s.token]
  BY DEF Fitting, Span
<1> QED
  BY <1>3, <1>4 DEF OneStep, NoSearch, SpanAt

(* A phrase that no placed one overlaps keeps its entries.                 *)
LEMMA PlacedKeeps ==
    ASSUME NEW n \in Nat, NEW c \in Arrays(n), NEW S,
           NEW j \in 0 .. n - 1, ~\E s \in S : Covers(s, j),
           Placed(c, S)[j].type = "onestep"
    PROVE  Placed(c, S)[j] = c[j]
BY DEF Placed, Cleared, NoConstraint, Arrays

(* Cutting or extending the array keeps what it does not cut off.          *)
LEMMA ResizedIsWellFormed ==
    ASSUME NEW n \in Nat, NEW c \in Arrays(n), WellFormed(c, n), NEW size \in Nat
    PROVE  /\ Resized(c, n, size) \in Arrays(size)
           /\ \A i \in 0 .. size - 1 :
                 Resized(c, n, size)[i] = IF i < n THEN c[i] ELSE NoConstraint
           /\ WellFormed(Resized(c, n, size), n)
<1> DEFINE r == Resized(c, n, size)
<1>1. DOMAIN c = 0 .. n - 1 /\ DOMAIN r = 0 .. size - 1
  BY DEF Arrays, Resized
<1>2. NoConstraint \in Entry
  BY DEF NoConstraint, Entry
<1>3. r \in Arrays(size)
  BY <1>1, <1>2 DEF Arrays, Resized
<1>4. \A i \in DOMAIN r : r[i] = IF i < n THEN c[i] ELSE NoConstraint
  BY DEF Resized
<1>5. WellFormed(r, n)
  <2> SUFFICES ASSUME NEW i \in DOMAIN r
               PROVE  OwnsItsColumns(r, n, i) /\ PointsBack(r, i)
    BY DEF WellFormed
  <2>1. CASE i < n
    <3>1. i \in DOMAIN c /\ r[i] = c[i] /\ c[i] \in Entry
      BY <1>1, <1>4, <2>1 DEF Arrays
    <3>2. OwnsItsColumns(c, n, i) /\ PointsBack(c, i)
      BY <3>1 DEF WellFormed
    <3>3. OwnsItsColumns(r, n, i)
      BY <1>1, <1>4, <3>1, <3>2 DEF OwnsItsColumns, Entry
    <3>4. PointsBack(r, i)
      BY <1>1, <1>4, <3>1, <3>2 DEF PointsBack
    <3> QED
      BY <3>3, <3>4
  <2>2. CASE ~(i < n)
    BY <1>4, <2>2 DEF NoConstraint, OwnsItsColumns, PointsBack
  <2> QED
    BY <2>1, <2>2
<1> QED
  BY <1>1, <1>3, <1>4, <1>5

(* Bringing the array up to date with an input: it is cut or extended to   *)
(* the size of the input, no forced phrase ends past it, and each is one   *)
(* the input pronounces.                                                   *)
LEMMA ValidatedIsWellFormed ==
    ASSUME NEW n \in Nat, NEW c \in Arrays(n), WellFormed(c, n), NEW m \in Matrix
    PROVE  /\ Validated(c, n, m) \in Arrays(m.size)
           /\ WellFormed(Validated(c, n, m), m.size)
           /\ \A i \in DOMAIN Validated(c, n, m) :
                 Validated(c, n, m)[i].type = "onestep" =>
                     SpanAt(Validated(c, n, m), i) \in m.fits
<1> DEFINE r == Resized(c, n, m.size)
           I == Invalid(r, m)
           d == Cleared(r, I)
<1>1. m.size \in Nat /\ DOMAIN c = 0 .. n - 1 /\ DOMAIN r = 0 .. m.size - 1
  BY DEF Matrix, Arrays, Resized
<1>5. r \in Arrays(m.size) /\ WellFormed(r, n)
  BY <1>1, ResizedIsWellFormed
<1>6. d = Validated(c, n, m) /\ d \in Arrays(m.size) /\ WellFormed(d, n)
  BY <1>1, <1>5, ClearedIsWellFormed DEF Validated
<1>7. ASSUME NEW i \in DOMAIN d, d[i].type = "onestep"
      PROVE  d[i].step < m.size /\ SpanAt(d, i) \in m.fits
  <2>1. i \in DOMAIN r /\ i \notin I
    <3>1. i \in DOMAIN r
      BY DEF Cleared
    <3> QED
      BY <3>1, <1>1, <1>5, <1>7, ClearedIsFree
  <2>2. d[i] = r[i]
    BY <2>1, <1>7 DEF Cleared, NoConstraint
  <2>3. r[i].step \in Nat
    BY <1>1, <1>5, <2>1 DEF Arrays, Entry
  <2>4. ~(r[i].step >= m.size) /\ SpanAt(r, i) \in m.fits
    BY <1>7, <2>1, <2>2 DEF Invalid
  <2> QED
    BY <1>1, <2>2, <2>3, <2>4 DEF SpanAt
<1>8. WellFormed(d, m.size)
  BY <1>1, <1>6, <1>7 DEF WellFormed, OwnsItsColumns, Arrays, Entry
<1> QED
  BY <1>6, <1>7, <1>8

---------------------------------------------------------------------------
(* The words of a sentence never overlap, so those in which it differs     *)
(* from the best one can be forced together.                               *)
LEMMA WordsAreDisjoint ==
    ASSUME NEW r, IsSentence(r)
    PROVE  /\ Words(r, Size(r)) \subseteq Span
           /\ \A w \in Words(r, Size(r)) : w.from < w.to
           /\ \A v, w \in Words(r, Size(r)) : v = w \/ v.to <= w.from \/ w.to <= v.from
<1> DEFINE n == Size(r)
<1>0. n \in Nat
  BY DEF IsSentence
<1>1. \A w \in Words(r, n) :
        /\ w = [from |-> w.from, to |-> w.to, token |-> r[w.from]]
        /\ w.from \in 0 .. n - 1 /\ w.to \in 0 .. n - 1
        /\ Follows(r, w.from, w.to, n)
  BY DEF Words
<1>2. \A w \in Words(r, n) : w \in Span /\ w.from < w.to
  <2> SUFFICES ASSUME NEW w \in Words(r, n)
               PROVE  w \in Span /\ w.from < w.to
    OBVIOUS
  <2>1. r[w.from] \in Token
    BY <1>1 DEF IsSentence, Follows
  <2> QED
    BY <1>1, <2>1 DEF Span, Follows
<1>3. ASSUME NEW v \in Words(r, n), NEW w \in Words(r, n), v.from < w.from
      PROVE  v.to <= w.from
  BY <1>0, <1>1, <1>3 DEF Follows
<1>4. ASSUME NEW v \in Words(r, n), NEW w \in Words(r, n), v.from = w.from
      PROVE  v = w
  <2>1. v.to = w.to
    BY <1>0, <1>1, <1>4 DEF Follows, IsSentence
  <2> QED
    BY <1>1, <1>4, <2>1
<1> QED
  BY <1>1, <1>2, <1>3, <1>4

\* The words in which a sentence differs from the best one fit the array that accepts
\* them: they are disjoint, being words of one sentence.
LEMMA DifferingFits ==
    ASSUME NEW best, NEW r, IsSentence(r),
           NEW n \in Nat, Accepted(n, Differing(best, r))
    PROVE  Fitting(Differing(best, r), n)
BY WordsAreDisjoint DEF Fitting, Differing, Accepted

(* A chain of steps, written down as a sentence, has exactly its steps as  *)
(* words.                                                                  *)
LEMMA ExtractedIsSentence ==
    ASSUME NEW m \in Matrix, m.size # 0,
           NEW steps \in SUBSET m.fits, NEW S \in Chains(steps, m.size)
    PROVE  /\ IsSentence(Extracted(S, m.size))
           /\ Size(Extracted(S, m.size)) = m.size
           /\ Words(Extracted(S, m.size), m.size) \subseteq m.fits
<1> DEFINE n == m.size
           r == Extracted(S, n)
<1>1. n \in Nat /\ n > 0 /\ DOMAIN r = 0 .. n - 1
  BY DEF Matrix, Extracted
<1>2. \A s \in S : /\ s \in m.fits /\ s \in Span
                   /\ s.from \in Nat /\ s.to \in Nat /\ s.from < s.to /\ s.to < n
                   /\ s.token \in Token
  BY DEF Chains, Matrix, Span
<1>3. ASSUME NEW i \in 0 .. n - 2
      PROVE  \E s \in S : Covers(s, i) /\ \A t \in S : Covers(t, i) => t = s
  BY <1>3 DEF Chains
<1>4. ASSUME NEW s \in S
      PROVE  s.from \in 0 .. n - 2 /\ Covers(s, s.from)
  BY <1>1, <1>2 DEF Covers
<1>5. ASSUME NEW s \in S, NEW t \in S, s.from = t.from
      PROVE  s = t
  BY <1>3, <1>4, <1>5
<1>6. \A s \in S : r[s.from] = s.token
  BY <1>1, <1>4, <1>5 DEF Extracted
<1>7. \A i \in 0 .. n - 1 : (\A s \in S : s.from # i) => r[i] = NullToken
  BY DEF Extracted
<1>8. r[n - 1] = NullToken
  BY <1>1, <1>4, <1>7
<1>9. IsSentence(r) /\ Size(r) = n
  <2>1. Cardinality(0 .. n - 1) = n
    BY <1>1, FS_Interval
  <2>2. \A i \in 0 .. n - 1 : r[i] \in Token \cup {NullToken}
    BY <1>2, <1>6, <1>7
  <2>3. r \in [0 .. n - 1 -> Token \cup {NullToken}]
    BY <1>1, <2>2 DEF Extracted
  <2> QED
    BY <1>1, <1>8, <2>1, <2>3 DEF IsSentence, Size
<1>10. ASSUME NEW w \in Words(r, n)
       PROVE  w \in m.fits
  <2>1. /\ w = [from |-> w.from, to |-> w.to, token |-> r[w.from]]
        /\ w.from \in 0 .. n - 1 /\ w.to \in 0 .. n - 1
        /\ Follows(r, w.from, w.to, n)
    BY DEF Words
  <2>2. PICK s \in S : s.from = w.from
    BY <1>7, <2>1 DEF Follows
  <2>3. ~(w.to < s.to)
    <3> SUFFICES ASSUME w.to < s.to PROVE FALSE
      OBVIOUS
    <3>1. r[w.to] # NullToken /\ w.from < w.to
      BY <1>1, <1>2, <2>1 DEF Follows
    <3>2. PICK t \in S : t.from = w.to
      BY <1>7, <2>1, <3>1
    <3>3. Covers(s, t.from) /\ Covers(t, t.from) /\ t.from \in 0 .. n - 2
      BY <1>2, <1>4, <2>2, <3>1, <3>2 DEF Covers
    <3>4. s = t
      BY <1>3, <3>3
    <3> QED
      BY <1>1, <2>1, <2>2, <3>1, <3>2, <3>4
  <2>4. ~(s.to < w.to)
    <3> SUFFICES ASSUME s.to < w.to PROVE FALSE
      OBVIOUS
    <3>1. s.to \in 0 .. n - 2 /\ s.to - 1 \in 0 .. n - 2
      BY <1>1, <1>2, <2>1
    <3>2. r[s.to] = NullToken
      BY <1>2, <2>1, <2>2 DEF Follows
    <3>3. PICK t \in S : Covers(t, s.to)
      BY <1>3, <3>1
    <3>4. t.from # s.to
      <4>1. \A q \in S : q.token # NullToken
        BY <1>2, ConstantsAssumption
      <4> QED
        BY <1>6, <3>2, <4>1
    <3>5. Covers(t, s.to - 1) /\ Covers(s, s.to - 1)
      BY <1>2, <3>3, <3>4 DEF Covers
    <3>6. s = t
      BY <1>3, <3>1, <3>5
    <3> QED
      BY <1>2, <3>3, <3>6 DEF Covers
  <2>5. w = s
    <3>1. s = [from |-> s.from, to |-> s.to, token |-> s.token]
      BY <1>2 DEF Span
    <3>2. s.to = w.to
      BY <1>2, <2>1, <2>3, <2>4
    <3> QED
      BY <1>6, <2>1, <2>2, <3>1, <3>2
  <2> QED
    BY <1>2, <2>5
<1> QED
  BY <1>9, <1>10

---------------------------------------------------------------------------
(* The invariant of a session: types, the shape of the array, and what is  *)
(* known while the sentences are those of the present input.               *)
SessionInv ==
    /\ TypeOK
    /\ Shape
    /\ SentencesPronounced
    /\ ChoicesPronounced

\* An instance that was just allocated satisfies the invariant.
LEMMA SessionInit == Init => SessionInv
<1> SUFFICES ASSUME Init PROVE SessionInv
  OBVIOUS
<1>1. matrix \in Matrix /\ length \in Nat
  BY DEF Init, Empty, Matrix
<1>2. constraints \in [0 .. length - 1 -> Entry] /\ DOMAIN constraints = {}
  BY DEF Init
<1>3. DOMAIN results = {} /\ 0 \in 0 .. NBest
  BY ConstantsAssumption DEF Init
<1>4. offered \in [spans : SUBSET Span, sentences : SUBSET (1 .. NBest)]
  BY DEF Init, NoCandidates
<1>5. \E n \in 0 .. NBest : DOMAIN results = 1 .. n
  BY <1>3
<1>6. TypeOK
  BY <1>1, <1>2, <1>3, <1>4, <1>5 DEF Init, TypeOK
<1> QED
  BY <1>2, <1>6 DEF Init, SessionInv, Shape, WellFormed, SentencesPronounced, ChoicesPronounced

(* What the sentence search leaves behind.                                 *)
LEMMA SearchResults ==
    ASSUME NEW m \in Matrix, m.size # 0, NEW c, NEW r \in Sentences(c, m)
    PROVE  IsSentence(r) /\ Size(r) = m.size /\ Words(r, m.size) \subseteq m.fits
<1>1. PICK S \in Chains({s \in m.fits : Steppable(c, s)}, m.size) : r = Extracted(S, m.size)
  BY DEF Sentences
<1>2. {s \in m.fits : Steppable(c, s)} \in SUBSET m.fits
  OBVIOUS
<1> QED
  BY <1>1, <1>2, ExtractedIsSentence

\* Every call of a session keeps the invariant.
LEMMA SessionNext == SessionInv /\ [Next]_vars => SessionInv'
<1> SUFFICES ASSUME SessionInv, [Next]_vars PROVE SessionInv'
  OBVIOUS
<1> USE DEF SessionInv
<1>1. constraints \in Arrays(length) /\ WellFormed(constraints, length)
      /\ DOMAIN constraints = 0 .. length - 1
  BY DEF TypeOK, Shape, Arrays
<1>2. length \in Nat /\ matrix \in Matrix /\ matrix.size \in Nat
  BY DEF TypeOK, Matrix
<1>3. ASSUME NEW m \in Input, ParseMore(m) PROVE SessionInv'
  <2>1. m \in Matrix
    BY ConstantsAssumption
  <2> QED
    BY <1>3, <2>1 DEF ParseMore, TypeOK, Shape, SentencesPronounced, ChoicesPronounced
<1>4. CASE GuessSentence
  <2>1. /\ constraints' \in Arrays(length') /\ WellFormed(constraints', length')
        /\ \A i \in DOMAIN constraints' : constraints'[i].type = "onestep" =>
              SpanAt(constraints', i) \in matrix.fits
        /\ length' = matrix.size /\ matrix' = matrix
    BY <1>1, <1>2, <1>4, ValidatedIsWellFormed DEF GuessSentence, UpdateConstraints
  <2>2. CASE matrix.size = 0
    BY <1>2, <1>4, <2>1, <2>2
    DEF GuessSentence, TypeOK, Shape, Arrays, SentencesPronounced, ChoicesPronounced
  <2>3. CASE matrix.size # 0
    <3>1. PICK n \in 0 .. NBest : results' \in [1 .. n -> Sentences(constraints', matrix)]
      BY <1>4, <2>3 DEF GuessSentence
    <3>2. \A k \in DOMAIN results' : /\ IsSentence(results'[k])
                                      /\ Size(results'[k]) = matrix.size
                                      /\ Words(results'[k], matrix.size) \subseteq matrix.fits
      BY <1>2, <2>3, <3>1, SearchResults
    <3>3. trainable' = DOMAIN results' /\ DOMAIN results' = 1 .. n /\ 1 .. n \subseteq 1 .. NBest
      BY <1>4, <2>3, <3>1, ConstantsAssumption DEF GuessSentence
    <3>4. TypeOK'
      BY <1>2, <1>4, <2>1, <2>3, <3>2, <3>3 DEF GuessSentence, TypeOK, Arrays
    <3> QED
      BY <2>1, <3>2, <3>4 DEF Shape, SentencesPronounced, ChoicesPronounced
  <2> QED
    BY <2>2, <2>3
<1>5. ASSUME NEW i \in {0} \cup 0 .. matrix.size - 1, GuessCandidates(i) PROVE SessionInv'
  <2>1. \E n \in 0 .. NBest : DOMAIN results = 1 .. n
    BY DEF TypeOK
  <2>2. DOMAIN results \subseteq 1 .. NBest
    BY <2>1, ConstantsAssumption
  <2>3. {s \in matrix.fits : s.from = i} \subseteq Span
    BY <1>2 DEF Matrix
  <2>4. offered' \in [spans : SUBSET Span, sentences : SUBSET (1 .. NBest)]
    BY <1>5, <2>2, <2>3 DEF GuessCandidates, NoCandidates
  <2> QED
    BY <1>5, <2>4 DEF GuessCandidates, TypeOK, Shape, SentencesPronounced, ChoicesPronounced
<1>6. ASSUME NEW s \in offered.spans, ChooseCandidate(s) PROVE SessionInv'
  <2> DEFINE valid == Validated(constraints, length, matrix)
             added == Added(valid, matrix.size, s)
  <2>1. valid \in Arrays(matrix.size) /\ WellFormed(valid, matrix.size)
    BY <1>1, <1>2, ValidatedIsWellFormed
  <2>2. s \in Span /\ s.from < s.to
    BY <1>6 DEF TypeOK, Span
  <2>3. added \in Arrays(matrix.size) /\ WellFormed(added, matrix.size)
    <3>1. CASE s.to > matrix.size
      BY <2>1, <3>1 DEF Added
    <3>2. CASE ~(s.to > matrix.size)
      <4>1. Fitting({s}, matrix.size)
        BY <1>2, <2>2, <3>2 DEF Fitting, Span
      <4> QED
        BY <1>2, <2>1, <3>2, <4>1, PlacedIsWellFormed DEF Added
    <3> QED
      BY <3>1, <3>2
  <2>4. /\ constraints' \in Arrays(matrix.size) /\ WellFormed(constraints', matrix.size)
        /\ \A i \in DOMAIN constraints' : constraints'[i].type = "onestep" =>
              SpanAt(constraints', i) \in matrix.fits
    BY <1>2, <1>6, <2>3, ValidatedIsWellFormed DEF ChooseCandidate
  <2> QED
    BY <1>2, <1>6, <2>4
    DEF ChooseCandidate, TypeOK, Arrays, Shape, SentencesPronounced, ChoicesPronounced
<1>7. ASSUME NEW k \in 1 .. NBest, ChooseSentence(k) PROVE SessionInv'
  <2> DEFINE S == Differing(results[1], results[k])
             n == Size(results[k])
  <2>1. IsSentence(results[k]) /\ Accepted(length, S) /\ constraints' = Placed(constraints, S)
    BY <1>7 DEF ChooseSentence, TypeOK
  <2>2. Fitting(S, length)
    BY <1>2, <2>1, DifferingFits
  <2>3. constraints' \in Arrays(length) /\ WellFormed(constraints', length)
    BY <1>1, <1>2, <2>1, <2>2, PlacedIsWellFormed
  <2>4. TypeOK' /\ Shape' /\ SentencesPronounced'
    BY <1>7, <2>3 DEF ChooseSentence, TypeOK, Arrays, Shape, SentencesPronounced
  <2>5. ASSUME current, NEW i \in DOMAIN constraints', constraints'[i].type = "onestep"
        PROVE  SpanAt(constraints', i) \in matrix.fits
    <3>1. S \subseteq matrix.fits
      BY <1>7, <2>5 DEF ChooseSentence, SentencesPronounced, Differing
    <3>2. i \in 0 .. length - 1
      BY <2>3, <2>5 DEF Arrays
    <3>3. CASE \E s \in S : Covers(s, i)
      BY <1>1, <1>2, <2>1, <2>2, <2>5, <3>1, <3>2, <3>3, PlacedOnce
    <3>4. CASE ~\E s \in S : Covers(s, i)
      <4>1. constraints'[i] = constraints[i]
        BY <1>1, <1>2, <2>1, <2>5, <3>2, <3>4, PlacedKeeps
      <4> QED
        BY <1>1, <2>5, <3>2, <4>1 DEF ChoicesPronounced, SpanAt
    <3> QED
      BY <3>3, <3>4
  <2>6. ChoicesPronounced'
    BY <1>7, <2>5 DEF ChooseSentence, ChoicesPronounced
  <2> QED
    BY <2>4, <2>6
<1>8. ASSUME NEW k \in 1 .. NBest, ChooseSentenceFails(k) PROVE SessionInv'
  BY <1>8 DEF ChooseSentenceFails, Fail, TypeOK, Shape, SentencesPronounced, ChoicesPronounced
<1>9. ASSUME NEW i \in 0 .. length - 1, ClearConstraint(i) PROVE SessionInv'
  <2>1. constraints' \in Arrays(length) /\ WellFormed(constraints', length)
    BY <1>1, <1>2, <1>9, ClearedIsWellFormed DEF ClearConstraint
  <2>2. \A j \in DOMAIN constraints' : constraints'[j].type = "onestep" =>
            j \in DOMAIN constraints /\ constraints'[j] = constraints[j]
    BY <1>9 DEF ClearConstraint, Cleared, NoConstraint
  <2> QED
    BY <1>9, <2>1, <2>2
    DEF ClearConstraint, TypeOK, Arrays, Shape, SentencesPronounced, ChoicesPronounced, SpanAt
<1>10. ASSUME NEW k \in 1 .. NBest, Train(k) PROVE SessionInv'
  BY <1>10 DEF Train, vars, TypeOK, Shape, SentencesPronounced, ChoicesPronounced
<1>11. ASSUME NEW k \in 1 .. NBest, TrainAborts(k) PROVE SessionInv'
  BY <1>11 DEF TrainAborts, Fail, TypeOK, Shape, SentencesPronounced, ChoicesPronounced
<1>12. CASE Reset
  <2>1. Empty \in Matrix /\ 0 \in 0 .. NBest /\ 0 \in Nat
    BY ConstantsAssumption DEF Empty, Matrix
  <2>2. NoCandidates \in [spans : SUBSET Span, sentences : SUBSET (1 .. NBest)]
    BY DEF NoCandidates
  <2>3. DOMAIN results' = 1 .. 0 /\ DOMAIN constraints' = {}
    BY <1>12 DEF Reset
  <2>4. constraints' \in [0 .. length' - 1 -> Entry]
    BY <1>12, <2>3 DEF Reset
  <2>5. matrix' \in Matrix /\ length' \in Nat /\ offered' = NoCandidates
    BY <1>12, <2>1 DEF Reset
  <2>6. \E n \in 0 .. NBest : DOMAIN results' = 1 .. n
    BY <2>1, <2>3
  <2>7. \A k \in DOMAIN results' : IsSentence(results'[k])
    BY <2>3
  <2>8. TypeOK'
    BY <1>12, <2>2, <2>4, <2>5, <2>6, <2>7 DEF Reset, TypeOK
  <2> QED
    BY <1>12, <2>3, <2>8
    DEF Reset, Shape, WellFormed, SentencesPronounced, ChoicesPronounced
<1>13. CASE UNCHANGED vars
  BY <1>13 DEF vars, TypeOK, Shape, SentencesPronounced, ChoicesPronounced
<1> QED
  BY <1>3, <1>4, <1>5, <1>6, <1>7, <1>8, <1>9, <1>10, <1>11, <1>12, <1>13 DEF Next

(* Every reachable state of a session satisfies the invariant, for every   *)
(* set of tokens and inputs and every number of sentences kept.            *)
THEOREM SessionInvariant == Spec => []SessionInv
<1> QED
  BY SessionInit, SessionNext, PTL DEF Spec

(* clear_constraint never meets a column that points to anything but a     *)
(* onestep entry, and no phrase reaches past the array.                    *)
THEOREM ShapeHolds == Spec => []Shape
<1>1. SessionInv => Shape
  BY DEF SessionInv
<1> QED
  BY <1>1, SessionInvariant, PTL

\* In every session the array has one entry per column it was last brought to, and the
\* results are sentences.
THEOREM TypesHold == Spec => []TypeOK
<1>1. SessionInv => TypeOK
  BY DEF SessionInv
<1> QED
  BY <1>1, SessionInvariant, PTL

(* In an up-to-date session the sentences are made of words the input      *)
(* pronounces, end to end, and the array has the input's length.           *)
THEOREM SentencesHold == Spec => []SentencesPronounced
<1>1. SessionInv => SentencesPronounced
  BY DEF SessionInv
<1> QED
  BY <1>1, SessionInvariant, PTL

(* In an up-to-date session the forced phrases are pronounced by the input *)
(* too, whatever was chosen, cleared or learned since the search.          *)
THEOREM PronouncedHolds == Spec => []ChoicesPronounced
<1>1. SessionInv => ChoicesPronounced
  BY DEF SessionInv
<1> QED
  BY <1>1, SessionInvariant, PTL

---------------------------------------------------------------------------
(* Nothing aborts in an up-to-date session.  What may be trained is there, *)
(* and has in every forced column the forced word, or none: the search     *)
(* steps over a forced column only as forced, and choosing another         *)
(* sentence forces that sentence's own words and lets train only it.       *)
Agreement ==
    /\ trainable # {} => current
    /\ \A k \in trainable :
          /\ k \in DOMAIN results
          /\ \A i \in DOMAIN constraints :
                constraints[i].type = "onestep" =>
                    results[k][i] \in {NullToken, constraints[i].token}

(* A sentence found under forced phrases has them or ends no word there.   *)
LEMMA SentenceAgrees ==
    ASSUME NEW m, NEW c, NEW r \in Sentences(c, m),
           NEW i \in 0 .. m.size - 1, c[i].type = "onestep"
    PROVE  r[i] \in {NullToken, c[i].token}
<1>1. PICK S \in Chains({s \in m.fits : Steppable(c, s)}, m.size) : r = Extracted(S, m.size)
  BY DEF Sentences
<1>2. CASE \E s \in S : s.from = i
  <2> DEFINE s == CHOOSE s \in S : s.from = i
  <2>1. s \in S /\ s.from = i
    BY <1>2
  <2>2. Steppable(c, s)
    BY <2>1 DEF Chains
  <2>3. r[i] = s.token
    BY <1>1, <1>2 DEF Extracted
  <2> QED
    BY <2>1, <2>2, <2>3 DEF Steppable
<1>3. CASE ~\E s \in S : s.from = i
  BY <1>1, <1>3 DEF Extracted
<1> QED
  BY <1>2, <1>3

(* Phrases that are kept or dropped whole leave the agreement as it was.   *)
LEMMA AgreementKept ==
    ASSUME Agreement, UNCHANGED <<results, current>>, trainable' \subseteq trainable,
           \A j \in DOMAIN constraints' : constraints'[j].type = "onestep" =>
               j \in DOMAIN constraints /\ constraints'[j] = constraints[j]
    PROVE  Agreement'
BY DEF Agreement

\* Every call keeps what it promises of the sentences that may be trained.
LEMMA AgreementNext == SessionInv /\ Agreement /\ [Next]_vars => Agreement'
<1> SUFFICES ASSUME SessionInv, Agreement, [Next]_vars PROVE Agreement'
  OBVIOUS
<1>1. ASSUME trainable' = {} PROVE Agreement'
  BY <1>1 DEF Agreement
<1>2. ASSUME UNCHANGED <<constraints, results, current, trainable>> PROVE Agreement'
  BY <1>2 DEF Agreement
<1>3. CASE GuessSentence
  <2>1. CASE matrix.size = 0
    <3>1. ASSUME current, NEW k \in DOMAIN results PROVE FALSE
      <4>1. Size(results[k]) = 0
        BY <2>1, <3>1 DEF SessionInv, SentencesPronounced
      <4>2. IsSentence(results[k])
        BY DEF SessionInv, TypeOK
      <4> QED
        BY <4>1, <4>2 DEF IsSentence
    <3>2. trainable = {}
      BY <3>1 DEF Agreement
    <3> QED
      BY <1>1, <1>3, <2>1, <3>2 DEF GuessSentence
  <2>2. CASE matrix.size # 0
    <3>1. PICK n \in 0 .. NBest : results' \in [1 .. n -> Sentences(constraints', matrix)]
      BY <1>3, <2>2 DEF GuessSentence
    <3>2. current' /\ trainable' = DOMAIN results'
      BY <1>3, <2>2 DEF GuessSentence
    <3>3. DOMAIN constraints' = 0 .. matrix.size - 1
      BY <1>3 DEF GuessSentence, UpdateConstraints, Validated, Cleared, Resized
    <3> QED
      BY <3>1, <3>2, <3>3, SentenceAgrees DEF Agreement
  <2> QED
    BY <2>1, <2>2
<1>4. ASSUME NEW k \in 1 .. NBest, ChooseSentence(k) PROVE Agreement'
  <2> DEFINE r == results[k]
             S == Differing(results[1], r)
  <2>1. /\ constraints \in Arrays(length) /\ length \in Nat /\ WellFormed(constraints, length)
        /\ DOMAIN constraints = 0 .. length - 1
    BY DEF SessionInv, TypeOK, Shape, Arrays
  <2>2. IsSentence(r) /\ Accepted(length, S) /\ constraints' = Placed(constraints, S)
    BY <1>4 DEF ChooseSentence, SessionInv, TypeOK
  <2>3. Fitting(S, length)
    BY <2>1, <2>2, DifferingFits
  <2>4. trainable' \subseteq {k} /\ trainable' \subseteq trainable
        /\ UNCHANGED <<results, current>> /\ DOMAIN constraints' = 0 .. length - 1
    BY <1>4, <2>1, <2>2 DEF ChooseSentence, Placed
  <2>5. ASSUME k \in trainable, NEW i \in 0 .. length - 1, constraints'[i].type = "onestep"
        PROVE  r[i] \in {NullToken, constraints'[i].token}
    <3>1. CASE \E s \in S : Covers(s, i)
      <4>1. PICK s \in S : Covers(s, i)
        BY <3>1
      <4>2. constraints'[i] = OneStep(s.token, s.to) /\ i = s.from
        <5>1. constraints'[i] = IF i = s.from THEN OneStep(s.token, s.to) ELSE NoSearch(s.from)
          BY <2>1, <2>2, <2>3, <4>1, PlacedOnce
        <5> QED
          BY <2>5, <5>1 DEF NoSearch
      <4>3. s.token = r[s.from]
        BY DEF Differing, Words
      <4> QED
        BY <4>2, <4>3 DEF OneStep
    <3>2. CASE ~\E s \in S : Covers(s, i)
      <4>1. constraints'[i] = constraints[i]
        BY <2>1, <2>2, <2>5, <3>2, PlacedKeeps
      <4> QED
        BY <2>1, <2>5, <4>1 DEF Agreement
    <3> QED
      BY <3>1, <3>2
  <2> QED
    BY <2>4, <2>5 DEF Agreement
<1>5. ASSUME NEW i \in 0 .. length - 1, ClearConstraint(i) PROVE Agreement'
  BY <1>5, AgreementKept DEF ClearConstraint, Cleared, NoConstraint
<1>6. CASE UNCHANGED vars
  BY <1>2, <1>6 DEF vars
<1> QED
  BY <1>1, <1>2, <1>3, <1>4, <1>5, <1>6
     DEF Next, ParseMore, GuessCandidates, ChooseCandidate, ChooseSentenceFails, Fail, Train,
         TrainAborts, vars, Reset

\* No sentence may be trained at first.
LEMMA AgreementInit == Init => Agreement
BY DEF Init, Agreement

\* With it, the assertions of choosing a sentence and of training find what they ask for.
LEMMA AgreementSuffices == SessionInv /\ Agreement => ProtocolNeverAborts
<1> SUFFICES ASSUME SessionInv, Agreement PROVE ProtocolNeverAborts
  OBVIOUS
<1>1. length \in Nat /\ matrix.size \in Nat /\ DOMAIN constraints = 0 .. length - 1
  BY DEF SessionInv, TypeOK, Matrix
<1>2. ASSUME current, NEW k \in DOMAIN results
      PROVE  /\ length = matrix.size /\ Size(results[k]) = length
             /\ Words(results[k], length) \subseteq matrix.fits
  BY <1>2 DEF SessionInv, SentencesPronounced
<1>3. \A s \in matrix.fits : s.to <= matrix.size
  BY DEF SessionInv, TypeOK, Matrix, Span
<1>4. ASSUME current, NEW k \in DOMAIN results
      PROVE  Accepted(length, Differing(results[1], results[k]))
  BY <1>2, <1>3, <1>4 DEF Accepted, Differing
<1>5. ASSUME NEW k \in trainable
      PROVE  k \in DOMAIN results /\ SurelyPasses(results[k], constraints, length, matrix)
  <2>1. current /\ k \in DOMAIN results
    BY DEF Agreement
  <2>2. AgreesWithChoices(results[k], constraints, length)
    BY <1>1, <1>2, <2>1 DEF Agreement, AgreesWithChoices
  <2>3. Trained(results[k], constraints, length) \subseteq matrix.fits
    BY <1>2, <2>1 DEF Trained
  <2> QED
    BY <2>1, <2>2, <2>3 DEF SurelyPasses
<1> QED
  BY <1>4, <1>5 DEF ProtocolNeverAborts

(* No call an up-to-date session allows can abort: whatever was chosen or  *)
(* cleared since the search, diff_result's assertion accepts every listed  *)
(* sentence, and pinyin_train reaches none of train_result3's assertions   *)
(* and never reads past the sentence it trains.                            *)
THEOREM NeverAborts == Spec => []ProtocolNeverAborts
<1> QED
  BY AgreementInit, AgreementNext, AgreementSuffices, SessionInvariant, PTL DEF Spec

---------------------------------------------------------------------------
(* The array implements the set of picked spans.  First what each array    *)
(* operation does to that set.                                             *)
PickedOf(c) == {SpanAt(c, i) : i \in {j \in DOMAIN c : c[j].type = "onestep"}}

(* Clearing columns drops exactly the phrases that cover one of them.      *)
LEMMA ClearedPicks ==
    ASSUME NEW n \in Nat, NEW top \in Nat, NEW c \in Arrays(n), WellFormed(c, top), NEW I
    PROVE  PickedOf(Cleared(c, I)) =
               {r \in PickedOf(c) : ~\E i \in I \cap DOMAIN c : Covers(r, i)}
<1> DEFINE d == Cleared(c, I)
           Hit(j) == \E k \in I \cap DOMAIN c : j \in Block(c, k)
           Covered(r) == \E i \in I \cap DOMAIN c : Covers(r, i)
<1>1. DOMAIN c = 0 .. n - 1 /\ DOMAIN d = DOMAIN c
  BY DEF Arrays, Cleared
<1>2. \A j \in DOMAIN c : d[j] = IF Hit(j) THEN NoConstraint ELSE c[j]
  BY DEF Cleared
<1>3. ASSUME NEW j \in DOMAIN c, c[j].type = "onestep", Hit(j)
      PROVE  Covered(SpanAt(c, j))
  <2>1. PICK k \in I \cap DOMAIN c : j \in Block(c, k)
    BY <1>3
  <2>2. Anchor(c, k) = j /\ c[k].type # "none"
    BY <1>3, <2>1, BlockIsOnePhrase DEF Anchor, Block
  <2>3. c[k].type \in {"onestep", "nosearch"}
    BY <1>1, <2>2 DEF Arrays, Entry
  <2>4. j <= k /\ k < c[j].step
    BY <1>1, <1>3, <2>2, <2>3 DEF Anchor, WellFormed, OwnsItsColumns, PointsBack
  <2> QED
    BY <2>1, <2>4 DEF Covers, SpanAt
<1>4. ASSUME NEW j \in DOMAIN c, c[j].type = "onestep", Covered(SpanAt(c, j))
      PROVE  Hit(j)
  <2>1. PICK i \in I \cap DOMAIN c : j <= i /\ i < c[j].step
    BY <1>4 DEF Covers, SpanAt
  <2>2. i = j \/ c[i] = NoSearch(j)
    BY <1>1, <1>4, <2>1 DEF WellFormed, OwnsItsColumns
  <2>3. Anchor(c, i) = j /\ c[i].type # "none"
    BY <1>4, <2>2 DEF Anchor, NoSearch
  <2>4. j <= j /\ j < c[j].step
    BY <1>1, <1>4 DEF WellFormed, OwnsItsColumns
  <2> QED
    BY <2>1, <2>3, <2>4 DEF Block
<1>5. \A j \in DOMAIN c : d[j].type = "onestep" <=>
          c[j].type = "onestep" /\ ~Covered(SpanAt(c, j))
  BY <1>2, <1>3, <1>4 DEF NoConstraint
<1>6. \A j \in DOMAIN c : d[j].type = "onestep" => SpanAt(d, j) = SpanAt(c, j)
  BY <1>2 DEF NoConstraint, SpanAt
<1> QED
  BY <1>1, <1>5, <1>6 DEF PickedOf

(* The phrases of an array are spans of its columns.                       *)
LEMMA PickedAreSpans ==
    ASSUME NEW n \in Nat, NEW top \in Nat, NEW c \in Arrays(n), WellFormed(c, top)
    PROVE  \A r \in PickedOf(c) : /\ r.from \in 0 .. n - 1 /\ r.to \in Nat
                                  /\ r.from < r.to /\ r.to <= top
<1> SUFFICES ASSUME NEW i \in DOMAIN c, c[i].type = "onestep"
             PROVE  i \in 0 .. n - 1 /\ c[i].step \in Nat /\ i < c[i].step /\ c[i].step <= top
  BY DEF PickedOf, SpanAt
<1> QED
  BY DEF Arrays, Entry, WellFormed, OwnsItsColumns

(* Placing phrases drops exactly those they overlap, and adds them.        *)
LEMMA PlacedPicks ==
    ASSUME NEW n \in Nat, NEW c \in Arrays(n), WellFormed(c, n), NEW S, Fitting(S, n)
    PROVE  PickedOf(Placed(c, S)) = {r \in PickedOf(c) : Chosen!ClearOf(S, r)} \cup S
<1> DEFINE I == {j \in DOMAIN c : \E s \in S : Covers(s, j)}
           e == Cleared(c, I)
           d == Placed(c, S)
           Covered(j) == \E s \in S : Covers(s, j)
<1>1. DOMAIN c = 0 .. n - 1 /\ DOMAIN d = 0 .. n - 1 /\ DOMAIN e = 0 .. n - 1
  BY DEF Arrays, Placed, Cleared
<1>2. \A j \in 0 .. n - 1 : Covered(j) => e[j].type = "none"
  BY <1>1, ClearedIsFree
<1>3. \A j \in 0 .. n - 1 : ~Covered(j) => d[j] = e[j]
  BY <1>1 DEF Placed
<1>4. \A s \in S : s.from \in 0 .. n - 1 /\ s.to \in Nat /\ s.from < s.to /\ s.to <= n
  BY DEF Fitting, Span
<1>5. ASSUME NEW r \in PickedOf(c)
      PROVE  (\E i \in I \cap DOMAIN c : Covers(r, i)) <=> ~Chosen!ClearOf(S, r)
  <2>1. r.from \in 0 .. n - 1 /\ r.to \in Nat /\ r.from < r.to /\ r.to <= n
    BY PickedAreSpans
  <2>2. ASSUME NEW i \in I, Covers(r, i) PROVE ~Chosen!ClearOf(S, r)
    <3>1. PICK s \in S : Covers(s, i)
      OBVIOUS
    <3>2. r.from < s.to /\ s.from < r.to
      BY <1>1, <1>4, <2>1, <2>2, <3>1 DEF Covers
    <3> QED
      BY <3>2 DEF Chosen!ClearOf, Chosen!Overlap
  <2>3. ASSUME ~Chosen!ClearOf(S, r) PROVE \E i \in I \cap DOMAIN c : Covers(r, i)
    <3>1. PICK s \in S : r.from < s.to /\ s.from < r.to
      BY <2>3 DEF Chosen!ClearOf, Chosen!Overlap
    <3>2. \E i \in 0 .. n - 1 : Covers(r, i) /\ Covers(s, i)
      <4>1. CASE r.from <= s.from
        BY <1>4, <2>1, <3>1, <4>1 DEF Covers
      <4>2. CASE s.from <= r.from
        BY <1>4, <2>1, <3>1, <4>2 DEF Covers
      <4> QED
        BY <1>4, <2>1, <4>1, <4>2
    <3> QED
      BY <1>1, <3>2
  <2> QED
    BY <2>2, <2>3
<1>6. PickedOf(e) = {r \in PickedOf(c) : Chosen!ClearOf(S, r)}
  <2>1. PickedOf(e) = {r \in PickedOf(c) : ~\E i \in I \cap DOMAIN c : Covers(r, i)}
    BY ClearedPicks
  <2> QED
    BY <1>5, <2>1
<1>7. PickedOf(d) \subseteq PickedOf(e) \cup S
  <2> SUFFICES ASSUME NEW j \in 0 .. n - 1, d[j].type = "onestep"
               PROVE  SpanAt(d, j) \in PickedOf(e) \cup S
    BY <1>1 DEF PickedOf
  <2>1. CASE Covered(j)
    BY <2>1, PlacedOnce
  <2>2. CASE ~Covered(j)
    BY <1>1, <1>3, <2>2 DEF PickedOf, SpanAt
  <2> QED
    BY <2>1, <2>2
<1>8. PickedOf(e) \subseteq PickedOf(d)
  <2> SUFFICES ASSUME NEW j \in 0 .. n - 1, e[j].type = "onestep"
               PROVE  SpanAt(e, j) \in PickedOf(d)
    BY <1>1 DEF PickedOf
  <2>1. d[j] = e[j]
    BY <1>2, <1>3
  <2> QED
    BY <1>1, <2>1 DEF PickedOf, SpanAt
<1>9. S \subseteq PickedOf(d)
  <2> SUFFICES ASSUME NEW s \in S PROVE s \in PickedOf(d)
    OBVIOUS
  <2>1. s.from \in 0 .. n - 1 /\ Covers(s, s.from)
    BY <1>4 DEF Covers
  <2>2. d[s.from] = OneStep(s.token, s.to)
    BY <2>1, PlacedOnce
  <2>3. d[s.from].type = "onestep" /\ SpanAt(d, s.from) = s
    BY <2>1, <2>2, PlacedOnce DEF OneStep
  <2> QED
    BY <1>1, <2>1, <2>3 DEF PickedOf
<1> QED
  BY <1>6, <1>7, <1>8, <1>9

(* Bringing the array up to date drops exactly the phrases the input does  *)
(* not pronounce.                                                          *)
LEMMA ValidatedPicks ==
    ASSUME NEW n \in Nat, NEW c \in Arrays(n), WellFormed(c, n), NEW m \in Matrix
    PROVE  PickedOf(Validated(c, n, m)) = PickedOf(c) \cap m.fits
<1> DEFINE r == Resized(c, n, m.size)
           I == Invalid(r, m)
<1>1. m.size \in Nat /\ DOMAIN c = 0 .. n - 1 /\ DOMAIN r = 0 .. m.size - 1
  BY DEF Matrix, Arrays, Resized
<1>2. /\ r \in Arrays(m.size) /\ WellFormed(r, n)
      /\ \A i \in 0 .. m.size - 1 : r[i] = IF i < n THEN c[i] ELSE NoConstraint
  BY <1>1, ResizedIsWellFormed
<1>3. \A s \in m.fits : s.to < m.size
  BY DEF Matrix
<1>4. PickedOf(Cleared(r, I)) = {p \in PickedOf(r) : ~\E i \in I \cap DOMAIN r : Covers(p, i)}
  <2>1. m.size \in Nat /\ r \in Arrays(m.size) /\ WellFormed(r, n)
    BY <1>1, <1>2
  <2> HIDE DEF r, I
  <2> QED
    BY <2>1, ClearedPicks
<1>5. ASSUME NEW j \in DOMAIN r, r[j].type = "onestep"
      PROVE  (\E i \in I \cap DOMAIN r : Covers(SpanAt(r, j), i)) <=> SpanAt(r, j) \notin m.fits
  <2>1. /\ j < r[j].step /\ r[j].step \in Nat
        /\ \A i \in DOMAIN r : j < i /\ i < r[j].step => r[i] = NoSearch(j)
    <3>1. r[j] \in Entry /\ OwnsItsColumns(r, n, j)
      BY <1>1, <1>2, <1>5 DEF Arrays, WellFormed
    <3> HIDE DEF r
    <3> QED
      BY <1>1, <1>5, <3>1 DEF Entry, OwnsItsColumns
  <2>2. \A i \in I \cap DOMAIN r : Covers(SpanAt(r, j), i) => i = j
    BY <1>1, <2>1 DEF Covers, SpanAt, Invalid, NoSearch
  <2>3. Covers(SpanAt(r, j), j)
    BY <1>1, <2>1 DEF Covers, SpanAt
  <2>4. j \in I <=> SpanAt(r, j) \notin m.fits
    BY <1>1, <1>3, <1>5, <2>1 DEF Invalid, SpanAt
  <2> QED
    BY <2>2, <2>3, <2>4
<1>6. PickedOf(Cleared(r, I)) = PickedOf(r) \cap m.fits
  BY <1>4, <1>5 DEF PickedOf
<1>7. PickedOf(r) \subseteq PickedOf(c)
  <2> SUFFICES ASSUME NEW j \in DOMAIN r, r[j].type = "onestep"
               PROVE  SpanAt(r, j) \in PickedOf(c)
    BY DEF PickedOf
  <2>1. j \in DOMAIN c /\ r[j] = c[j]
    BY <1>1, <1>2 DEF NoConstraint
  <2> QED
    BY <2>1 DEF PickedOf, SpanAt
<1>8. PickedOf(c) \cap m.fits \subseteq PickedOf(r)
  <2> SUFFICES ASSUME NEW j \in DOMAIN c, c[j].type = "onestep", SpanAt(c, j) \in m.fits
               PROVE  SpanAt(c, j) \in PickedOf(r)
    BY DEF PickedOf
  <2>1. j < c[j].step /\ c[j].step < m.size /\ c[j].step \in Nat
    BY <1>1, <1>3 DEF WellFormed, OwnsItsColumns, SpanAt, Arrays, Entry
  <2>2. j \in DOMAIN r /\ r[j] = c[j]
    BY <1>1, <1>2, <2>1
  <2> QED
    BY <2>2 DEF PickedOf, SpanAt
<1> QED
  BY <1>6, <1>7, <1>8 DEF Validated

(* Whatever a session holds comes from the inputs it may be given, however *)
(* old the results and the candidate list are.                             *)
FromInputs ==
    /\ matrix.fits \subseteq Universe
    /\ matrix.size # 0 => \E m \in Input : m.size = matrix.size
    /\ length # 0 => \E m \in Input : m.size = length
    /\ offered.spans \subseteq Universe
    /\ \A k \in DOMAIN results : Words(results[k], Size(results[k])) \subseteq Universe

\* Nothing is offered or found at first.
LEMMA FromInputsInit == Init => FromInputs
BY DEF Init, FromInputs, Empty, NoCandidates

\* Every call keeps spans, candidates and words among those of the inputs.
LEMMA FromInputsNext == SessionInv /\ FromInputs /\ [Next]_vars => FromInputs'
<1> SUFFICES ASSUME SessionInv, FromInputs, [Next]_vars PROVE FromInputs'
  OBVIOUS
<1> USE DEF FromInputs
<1>1. ASSUME NEW m \in Input, ParseMore(m) PROVE FromInputs'
  BY <1>1 DEF ParseMore, Universe
<1>2. CASE GuessSentence
  <2>1. UNCHANGED <<matrix, offered>> /\ length' = matrix.size
    BY <1>2 DEF GuessSentence, UpdateConstraints
  <2>2. CASE matrix.size = 0
    BY <1>2, <2>1, <2>2 DEF GuessSentence
  <2>3. CASE matrix.size # 0
    <3>1. PICK n \in 0 .. NBest : results' \in [1 .. n -> Sentences(constraints', matrix)]
      BY <1>2, <2>3 DEF GuessSentence
    <3>2. matrix \in Matrix
      BY DEF SessionInv, TypeOK
    <3>3. \A k \in DOMAIN results' : /\ Size(results'[k]) = matrix.size
                                      /\ Words(results'[k], matrix.size) \subseteq matrix.fits
      BY <2>3, <3>1, <3>2, SearchResults
    <3> QED
      BY <2>1, <3>3
  <2> QED
    BY <2>2, <2>3
<1>3. ASSUME NEW i \in {0} \cup 0 .. matrix.size - 1, GuessCandidates(i) PROVE FromInputs'
  BY <1>3 DEF GuessCandidates, NoCandidates
<1>4. ASSUME NEW s \in offered.spans, ChooseCandidate(s) PROVE FromInputs'
  BY <1>4 DEF ChooseCandidate
<1>5. ASSUME NEW k \in 1 .. NBest,
             ChooseSentence(k) \/ ChooseSentenceFails(k) \/ Train(k) \/ TrainAborts(k)
      PROVE  FromInputs'
  BY <1>5 DEF ChooseSentence, ChooseSentenceFails, Fail, Train, TrainAborts, vars
<1>6. ASSUME NEW i \in 0 .. length - 1, ClearConstraint(i) PROVE FromInputs'
  BY <1>6 DEF ClearConstraint
<1>7. CASE Reset
  BY <1>7 DEF Reset, Empty, NoCandidates
<1>8. CASE UNCHANGED vars
  BY <1>8 DEF vars
<1> QED
  BY <1>1, <1>2, <1>3, <1>4, <1>5, <1>6, <1>7, <1>8 DEF Next

\* Nothing is picked at first.
LEMMA PickedInit == Init => Chosen!Init
<1> SUFFICES ASSUME Init PROVE Chosen!Init
  OBVIOUS
<1>1. Picked = {}
  BY DEF Init, Picked
<1>2. matrix.fits = {}
  BY DEF Init, Empty
<1> QED
  BY <1>1, <1>2 DEF Chosen!Init

(* Every call is a step of the abstract specification or leaves the picked *)
(* spans and the input alone.                                              *)
LEMMA PickedNext ==
    ASSUME SessionInv, FromInputs, FromInputs', [Next]_vars
    PROVE  [Chosen!Next]_(Chosen!vars)
<1>1. /\ constraints \in Arrays(length) /\ length \in Nat /\ WellFormed(constraints, length)
      /\ DOMAIN constraints = 0 .. length - 1
      /\ matrix \in Matrix /\ matrix.size \in Nat
  BY DEF SessionInv, TypeOK, Shape, Arrays, Matrix
<1>2. Picked = PickedOf(constraints) /\ Picked' = PickedOf(constraints')
  BY DEF Picked, PickedOf
<1>3. ASSUME UNCHANGED <<constraints, matrix>> PROVE UNCHANGED Chosen!vars
  BY <1>2, <1>3 DEF Chosen!vars
<1>4. ASSUME NEW m \in Input, ParseMore(m) PROVE Chosen!Next
  <2>1. Picked' = Picked /\ (matrix.fits)' \in SUBSET Universe
    BY <1>2, <1>4 DEF ParseMore, FromInputs
  <2> QED
    BY <2>1 DEF Chosen!Next, Chosen!Edit
<1>5. CASE GuessSentence
  <2>1. Picked' = Picked \cap matrix.fits /\ matrix' = matrix
    BY <1>1, <1>2, <1>5, ValidatedPicks DEF GuessSentence, UpdateConstraints
  <2> QED
    BY <2>1 DEF Chosen!Next, Chosen!Update
<1>6. ASSUME NEW s \in offered.spans, ChooseCandidate(s) PROVE Chosen!Next
  <2> DEFINE valid == Validated(constraints, length, matrix)
             added == Added(valid, matrix.size, s)
  <2>1. valid \in Arrays(matrix.size) /\ WellFormed(valid, matrix.size)
        /\ PickedOf(valid) = Picked \cap matrix.fits
    BY <1>1, <1>2, ValidatedIsWellFormed, ValidatedPicks
  <2>2. s \in Span /\ s.from < s.to /\ s \in Universe
    BY <1>6 DEF SessionInv, TypeOK, Span, FromInputs
  <2>3. matrix' = matrix /\ Picked' = PickedOf(Validated(added, matrix.size, matrix))
    BY <1>2, <1>6 DEF ChooseCandidate
  <2>4. CASE s.to > matrix.size
    <3>1. Picked' = Picked \cap matrix.fits
      BY <1>1, <2>1, <2>3, <2>4, ValidatedPicks DEF Added
    <3> QED
      BY <2>3, <3>1 DEF Chosen!Next, Chosen!Update
  <2>5. CASE ~(s.to > matrix.size)
    <3>1. Fitting({s}, matrix.size)
      BY <1>1, <2>2, <2>5 DEF Fitting, Span
    <3>2. added \in Arrays(matrix.size) /\ WellFormed(added, matrix.size)
      BY <1>1, <2>1, <2>5, <3>1, PlacedIsWellFormed DEF Added
    <3>3. PickedOf(added) = {r \in PickedOf(valid) : Chosen!ClearOf({s}, r)} \cup {s}
      BY <1>1, <2>1, <2>5, <3>1, PlacedPicks DEF Added
    <3>4. Picked' = PickedOf(added) \cap matrix.fits
      BY <1>1, <2>3, <3>2, ValidatedPicks
    <3>5. Picked' = ({r \in Picked : Chosen!ClearOf({s}, r)} \cup {s}) \cap matrix.fits
      BY <2>1, <3>3, <3>4
    <3>6. Chosen!Pick(s)
      BY <2>3, <3>5 DEF Chosen!Pick
    <3> QED
      BY <2>2, <3>6 DEF Chosen!Next
  <2> QED
    BY <2>4, <2>5
<1>7. ASSUME NEW k \in 1 .. NBest, ChooseSentence(k) PROVE Chosen!Next
  <2> DEFINE S == Differing(results[1], results[k])
  <2>1. IsSentence(results[k]) /\ Accepted(length, S) /\ constraints' = Placed(constraints, S)
        /\ matrix' = matrix /\ k \in DOMAIN results
    BY <1>7 DEF ChooseSentence, SessionInv, TypeOK
  <2>2. Fitting(S, length)
    BY <1>1, <2>1, DifferingFits
  <2>3. Picked' = {r \in Picked : Chosen!ClearOf(S, r)} \cup S
    BY <1>1, <1>2, <2>1, <2>2, PlacedPicks
  <2>4. S \subseteq Universe
    BY <2>1 DEF Differing, FromInputs
  <2>5. Chosen!Disjoint(S)
    BY <2>2 DEF Fitting, Span, Chosen!Disjoint, Chosen!Overlap
  <2>6. Chosen!PickAll(S)
    BY <2>1, <2>3, <2>5 DEF Chosen!PickAll
  <2>7. S \in SUBSET (Picked' \cap Universe)
    BY <2>3, <2>4
  <2> QED
    BY <2>6, <2>7 DEF Chosen!Next
<1>8. ASSUME NEW i \in 0 .. length - 1, ClearConstraint(i) PROVE Chosen!Next
  <2>1. constraints' = Cleared(constraints, {i}) /\ matrix' = matrix
    BY <1>8 DEF ClearConstraint
  <2>2. Picked' = {r \in Picked : ~\E j \in {i} \cap DOMAIN constraints : Covers(r, j)}
    BY <1>1, <1>2, <2>1, ClearedPicks
  <2>3. Picked' = {r \in Picked : ~(r.from <= i /\ i < r.to)}
    BY <1>1, <2>2 DEF Covers
  <2>4. i \in Columns
    <3>1. PICK m \in Input : m.size = length
      BY <1>1 DEF FromInputs
    <3> QED
      BY <1>1, <3>1 DEF Columns
  <2>5. Chosen!ClearColumn(i)
    BY <2>1, <2>3 DEF Chosen!ClearColumn
  <2> QED
    BY <2>4, <2>5 DEF Chosen!Next
<1>9. CASE Reset
  <2>1. Picked' = {} /\ (matrix.fits)' \in SUBSET Universe
    BY <1>2, <1>9 DEF Reset, PickedOf, FromInputs
  <2> QED
    BY <2>1 DEF Chosen!Next, Chosen!Reset
<1> QED
  BY <1>3, <1>4, <1>5, <1>6, <1>7, <1>8, <1>9
     DEF Next, GuessCandidates, ChooseSentenceFails, Fail, Train, TrainAborts, vars

(* The array of forced selections implements a set of spans that never     *)
(* overlap: a pick replaces exactly what it overlaps, an update drops      *)
(* exactly what the input no longer pronounces, and clearing a column      *)
(* drops exactly the phrase over it.                                       *)
THEOREM ChosenSpansImplemented == Spec => ImplementsChosenSpans
<1>1. SessionInv /\ FromInputs /\ FromInputs' /\ [Next]_vars => [Chosen!Next]_(Chosen!vars)
  BY PickedNext
<1> QED
  BY <1>1, PickedInit, FromInputsInit, FromInputsNext, SessionInvariant, PTL
     DEF Spec, ImplementsChosenSpans, Chosen!Spec

---------------------------------------------------------------------------
(* The loops of the code do to every array what is said of it here in one  *)
(* step, however many columns they visit.                                  *)

(* One clear_constraint.                                                   *)
LEMMA ClearAtAgrees ==
    ASSUME NEW n \in Nat, NEW c \in Arrays(n), NEW i \in Nat
    PROVE  ClearAt(c, n, i) = Cleared(c, {i})
<1>1. DOMAIN c = 0 .. n - 1 /\ c = [j \in DOMAIN c |-> c[j]]
  BY DEF Arrays
<1>2. CASE i >= n
  <2>1. \A j \in DOMAIN c : ~\E k \in {i} \cap DOMAIN c : j \in Block(c, k)
    BY <1>1, <1>2
  <2> QED
    BY <1>1, <1>2, <2>1 DEF ClearAt, Cleared
<1>3. CASE i < n
  <2>1. {i} \cap DOMAIN c = {i}
    BY <1>1, <1>3
  <2>2. Cleared(c, {i}) = [j \in DOMAIN c |-> IF j \in Block(c, i) THEN NoConstraint ELSE c[j]]
    BY <2>1 DEF Cleared
  <2>3. CASE c[i].type = "none"
    BY <1>1, <2>2, <2>3 DEF ClearAt, Block
  <2>4. CASE c[i].type # "none"
    BY <1>1, <1>3, <2>2, <2>4 DEF ClearAt, Block, Anchor
  <2> QED
    BY <2>3, <2>4
<1> QED
  BY <1>2, <1>3

(* Clearing columns one after the other clears them together: an earlier   *)
(* one takes the whole phrase with it or leaves it whole.                  *)
LEMMA ClearedTwice ==
    ASSUME NEW n \in Nat, NEW top \in Nat, NEW c \in Arrays(n), WellFormed(c, top),
           NEW I, NEW i
    PROVE  Cleared(Cleared(c, I), {i}) = Cleared(c, I \cup {i})
<1> DEFINE d == Cleared(c, I)
           Hit(j) == \E k \in I \cap DOMAIN c : j \in Block(c, k)
<1>1. DOMAIN c = 0 .. n - 1 /\ DOMAIN d = DOMAIN c
  BY DEF Arrays, Cleared
<1>2. \A j \in DOMAIN c : d[j] = IF Hit(j) THEN NoConstraint ELSE c[j]
  BY DEF Cleared
<1>3. CASE i \notin DOMAIN c
  BY <1>1, <1>2, <1>3 DEF Cleared
<1>4. CASE i \in DOMAIN c
  <2>1. ASSUME NEW j \in DOMAIN c, ~Hit(j)
        PROVE  j \in Block(d, i) <=> j \in Block(c, i)
    <3>1. CASE Hit(i)
      <4>1. Block(d, i) = {}
        BY <1>2, <1>4, <3>1 DEF Block, NoConstraint
      <4>2. ASSUME j \in Block(c, i) PROVE FALSE
        <5>1. PICK k \in I \cap DOMAIN c : i \in Block(c, k)
          BY <3>1
        <5>2. Anchor(c, k) = Anchor(c, i) /\ c[k].type # "none"
          BY <5>1, BlockIsOnePhrase DEF Block
        <5>3. j \in Block(c, k)
          BY <4>2, <5>2 DEF Block
        <5> QED
          BY <2>1, <5>1, <5>3
      <4> QED
        BY <4>1, <4>2
    <3>2. CASE ~Hit(i)
      <4>1. d[i] = c[i] /\ Anchor(d, i) = Anchor(c, i)
        BY <1>2, <1>4, <3>2 DEF Anchor
      <4>2. CASE c[i].type = "none"
        BY <4>1, <4>2 DEF Block
      <4>3. CASE c[i].type # "none"
        <5>1. i \in Block(c, i)
          BY <1>1, <1>4, <4>3 DEF Block, Anchor, Arrays, Entry, WellFormed, OwnsItsColumns, PointsBack
        <5>2. Anchor(c, i) \in DOMAIN c /\ c[Anchor(c, i)].type = "onestep"
          BY <1>4, <5>1, BlockIsOnePhrase
        <5>3. ~Hit(Anchor(c, i))
          <6>1. ASSUME NEW k \in I \cap DOMAIN c, Anchor(c, i) \in Block(c, k) PROVE FALSE
            <7>1. Anchor(c, Anchor(c, i)) = Anchor(c, i)
              BY <5>2 DEF Anchor
            <7>2. Anchor(c, k) = Anchor(c, i) /\ c[k].type # "none"
              BY <6>1, <7>1, BlockIsOnePhrase DEF Block
            <7>3. i \in Block(c, k)
              BY <5>1, <7>2 DEF Block
            <7> QED
              BY <3>2, <7>3
          <6> QED
            BY <6>1
        <5>4. d[Anchor(c, i)] = c[Anchor(c, i)]
          BY <1>2, <5>2, <5>3
        <5> QED
          BY <1>1, <4>1, <5>4 DEF Block
      <4> QED
        BY <4>2, <4>3
    <3> QED
      BY <3>1, <3>2
  <2>2. Cleared(d, {i}) = [j \in DOMAIN c |-> IF j \in Block(d, i) THEN NoConstraint ELSE d[j]]
    <3>1. {i} \cap DOMAIN d = {i}
      BY <1>1, <1>4
    <3> QED
      BY <1>1, <3>1 DEF Cleared
  <2>3. Cleared(c, I \cup {i}) =
            [j \in DOMAIN c |-> IF Hit(j) \/ j \in Block(c, i) THEN NoConstraint ELSE c[j]]
    BY <1>4 DEF Cleared
  <2> QED
    BY <1>2, <2>1, <2>2, <2>3
<1> QED
  BY <1>3, <1>4

\* Clearing no column changes nothing.
LEMMA ClearedNone ==
    ASSUME NEW n \in Nat, NEW c \in Arrays(n) PROVE Cleared(c, {}) = c
BY DEF Cleared, Arrays

(* The loop of add_constraint.                                             *)
LEMMA AddAtAgrees ==
    ASSUME NEW n \in Nat, NEW c \in Arrays(n), WellFormed(c, n), NEW s \in Span
    PROVE  AddAt(c, n, s) = Added(c, n, s)
<1> DEFINE lo == s.from
           hi == s.to
           cleared[k \in lo .. hi] ==
               IF k = lo THEN c ELSE ClearAt(cleared[k - 1], n, k - 1)
           direct == [k \in lo .. hi |-> Cleared(c, lo .. k - 1)]
<1>1. lo \in Nat /\ hi \in Nat /\ lo < hi
  BY DEF Span
<1>2. AddAt(c, n, s) =
        IF hi > n THEN c
        ELSE [j \in DOMAIN c |->
                 IF j = lo THEN OneStep(s.token, s.to)
                 ELSE IF lo < j /\ j < hi THEN NoSearch(lo)
                 ELSE cleared[hi][j]]
  BY DEF AddAt
<1> HIDE DEF lo, hi, cleared
<1>3. direct[lo] = c
  <2>1. lo .. lo - 1 = {}
    BY <1>1
  <2> QED
    BY <1>1, <2>1, ClearedNone
<1>4. ASSUME NEW k \in lo + 1 .. hi
      PROVE  direct[k] = ClearAt(direct[k - 1], n, k - 1)
  <2>1. (lo .. k - 2) \cup {k - 1} = lo .. k - 1 /\ k - 1 \in Nat /\ k - 1 \in lo .. hi
        /\ k \in lo .. hi /\ (k - 1) - 1 = k - 2
    BY <1>1
  <2>2. direct[k - 1] = Cleared(c, lo .. k - 2) /\ direct[k] = Cleared(c, lo .. k - 1)
    BY <2>1
  <2>3. Cleared(c, lo .. k - 2) \in Arrays(n)
    BY ClearedIsWellFormed
  <2>4. ClearAt(direct[k - 1], n, k - 1) = Cleared(Cleared(c, lo .. k - 2), {k - 1})
    BY <2>1, <2>2, <2>3, ClearAtAgrees
  <2>5. Cleared(Cleared(c, lo .. k - 2), {k - 1}) = Cleared(c, (lo .. k - 2) \cup {k - 1})
    <3>1. \A I, i : Cleared(Cleared(c, I), {i}) = Cleared(c, I \cup {i})
      BY ClearedTwice
    <3> HIDE DEF direct
    <3> QED
      BY <3>1
  <2> QED
    BY <2>1, <2>2, <2>4, <2>5
<1>5. direct = [k \in lo .. hi |-> IF k = lo THEN c ELSE ClearAt(direct[k - 1], n, k - 1)]
  <2>1. \A k \in lo .. hi :
            direct[k] = IF k = lo THEN c ELSE ClearAt(direct[k - 1], n, k - 1)
    <3>1. ASSUME NEW k \in lo .. hi, k # lo PROVE k \in lo + 1 .. hi
      BY <1>1, <3>1
    <3> HIDE DEF direct
    <3> QED
      BY <1>3, <1>4, <3>1
  <2>2. direct = [k \in lo .. hi |-> direct[k]]
    OBVIOUS
  <2> HIDE DEF direct
  <2> QED
    BY <2>1, <2>2
<1>6. cleared = [k \in lo .. hi |-> IF k = lo THEN c ELSE ClearAt(cleared[k - 1], n, k - 1)]
  <2>1. \E f : f = [k \in lo .. hi |-> IF k = lo THEN c ELSE ClearAt(f[k - 1], n, k - 1)]
    BY <1>5
  <2> QED
    BY <2>1 DEF cleared
<1> HIDE DEF direct
<1>7. ASSUME NEW i \in 0 .. hi - lo PROVE cleared[lo + i] = direct[lo + i]
  <2> DEFINE T == {x \in 0 .. hi - lo : cleared[lo + x] = direct[lo + x]}
  <2>1. 0 \in T
    BY <1>1, <1>3, <1>6
  <2>2. ASSUME NEW x \in 1 .. hi - lo, x - 1 \in T PROVE x \in T
    <3>1. lo + x \in lo + 1 .. hi /\ (lo + x) - 1 = lo + (x - 1) /\ lo + x # lo /\ lo + x \in lo .. hi
      BY <1>1
    <3>2. cleared[lo + x] = ClearAt(cleared[(lo + x) - 1], n, (lo + x) - 1)
      BY <1>6, <3>1
    <3>3. direct[lo + x] = ClearAt(direct[(lo + x) - 1], n, (lo + x) - 1)
      BY <1>4, <3>1
    <3> QED
      BY <2>2, <3>1, <3>2, <3>3
  <2>3. 0 .. hi - lo \subseteq T
    <3> HIDE DEF T
    <3> QED
      BY <1>1, <2>1, <2>2, InductionUpTo
  <2> QED
    BY <2>3
<1>8. cleared[hi] = Cleared(c, lo .. hi - 1)
  <2>1. hi - lo \in 0 .. hi - lo /\ lo + (hi - lo) = hi /\ hi \in lo .. hi
    BY <1>1
  <2> QED
    BY <1>7, <2>1 DEF direct
<1>9. CASE hi > n
  BY <1>2, <1>9 DEF Added, hi
<1>10. CASE ~(hi > n)
  <2>1. {j \in DOMAIN c : \E r \in {s} : Covers(r, j)} = lo .. hi - 1
    BY <1>1, <1>10 DEF Covers, Arrays, lo, hi
  <2>2. \A j \in DOMAIN c : (\E r \in {s} : Covers(r, j)) <=> lo <= j /\ j < hi
    BY DEF Covers, lo, hi
  <2>3. ASSUME NEW j \in DOMAIN c, lo <= j, j < hi
        PROVE  (CHOOSE r \in {s} : Covers(r, j)) = s
    BY <2>3 DEF Covers, lo, hi
  <2>4. Placed(c, {s}) =
          [j \in DOMAIN c |->
              IF lo <= j /\ j < hi
              THEN IF j = lo THEN OneStep(s.token, s.to) ELSE NoSearch(lo)
              ELSE Cleared(c, lo .. hi - 1)[j]]
    BY <2>1, <2>2, <2>3 DEF Placed, lo
  <2>5. \A j \in DOMAIN c : j \in Int
    BY DEF Arrays
  <2> QED
    BY <1>1, <1>2, <1>8, <1>10, <2>4, <2>5 DEF Added, hi
<1> QED
  BY <1>9, <1>10
(* One column of validate_constraint, after the earlier ones: a phrase     *)
(* dropped before never took this column's phrase with it.                 *)
LEMMA ValidateAtAgrees ==
    ASSUME NEW m \in Matrix, NEW top \in Nat, NEW r \in Arrays(m.size),
           WellFormed(r, top), NEW k \in 0 .. m.size - 1
    PROVE  ValidateAt(Cleared(r, {i \in Invalid(r, m) : i < k}), m, k)
             = Cleared(r, {i \in Invalid(r, m) : i < k + 1})
<1> DEFINE before == {i \in Invalid(r, m) : i < k}
           d == Cleared(r, before)
<1>1. m.size \in Nat /\ DOMAIN r = 0 .. m.size - 1 /\ k \in DOMAIN r /\ k \in Nat
      /\ \A i \in DOMAIN r : i \in Int
  BY DEF Matrix, Arrays
<1>2. \A i \in Invalid(r, m) : i \in DOMAIN r /\ r[i].type = "onestep"
  BY DEF Invalid
<1>3. d \in Arrays(m.size)
  BY <1>1, ClearedIsWellFormed
<1>4. d[k] = IF \E i \in before \cap DOMAIN r : k \in Block(r, i) THEN NoConstraint ELSE r[k]
  BY <1>1 DEF Cleared
<1>5. CASE r[k].type = "onestep"
  <2>1. ASSUME NEW i \in before \cap DOMAIN r, k \in Block(r, i) PROVE FALSE
    <3>1. Anchor(r, k) = Anchor(r, i)
      BY <1>1, <2>1, BlockIsOnePhrase
    <3>2. Anchor(r, k) = k /\ Anchor(r, i) = i
      BY <1>2, <1>5 DEF Anchor
    <3>3. i = k /\ i < k
      BY <3>1, <3>2
    <3> QED
      BY <1>1, <3>3
  <2>2. d[k] = r[k]
    BY <1>4, <2>1
  <2>3. CASE k \in Invalid(r, m)
    <3>1. ValidateAt(d, m, k) = ClearAt(d, m.size, k)
      BY <2>2, <2>3 DEF ValidateAt, Invalid, SpanAt
    <3>2. ClearAt(d, m.size, k) = Cleared(d, {k})
      BY <1>1, <1>3, ClearAtAgrees
    <3>3. \A I, i : Cleared(Cleared(r, I), {i}) = Cleared(r, I \cup {i})
      BY <1>1, ClearedTwice
    <3>4. {i \in Invalid(r, m) : i < k + 1} = before \cup {k}
      BY <1>1, <1>2, <2>3
    <3>5. Cleared(d, {k}) = Cleared(r, before \cup {k})
      BY <3>3
    <3>6. ValidateAt(d, m, k) = Cleared(r, before \cup {k})
      <4> HIDE DEF d
      <4> QED
        BY <3>1, <3>2, <3>5
    <3> QED
      BY <3>4, <3>6, Zenon
  <2>4. CASE k \notin Invalid(r, m)
    <3>1. ValidateAt(d, m, k) = d
      BY <1>1, <1>5, <2>2, <2>4 DEF ValidateAt, Invalid, SpanAt
    <3>2. {i \in Invalid(r, m) : i < k + 1} = before
      BY <1>1, <1>2, <2>4
    <3> QED
      BY <3>1, <3>2
  <2> QED
    BY <2>3, <2>4
<1>6. CASE r[k].type # "onestep"
  <2>1. d[k].type # "onestep"
    BY <1>4, <1>6 DEF NoConstraint
  <2>2. ValidateAt(d, m, k) = d
    BY <2>1 DEF ValidateAt
  <2>3. {i \in Invalid(r, m) : i < k + 1} = before
    BY <1>1, <1>2, <1>6
  <2> QED
    BY <2>2, <2>3
<1> QED
  BY <1>5, <1>6

(* The loop of validate_constraint, on an array of any other length.       *)
LEMMA ValidateAllAgrees ==
    ASSUME NEW n \in Nat, NEW c \in Arrays(n), WellFormed(c, n), NEW m \in Matrix
    PROVE  ValidateAll(c, n, m) = Validated(c, n, m)
<1> DEFINE r == Resized(c, n, m.size)
           upto[k \in 0 .. m.size] ==
               IF k = 0 THEN Resized(c, n, m.size) ELSE ValidateAt(upto[k - 1], m, k - 1)
           direct == [k \in 0 .. m.size |-> Cleared(r, {i \in Invalid(r, m) : i < k})]
<1>1. m.size \in Nat
  BY DEF Matrix
<1>2. r \in Arrays(m.size) /\ WellFormed(r, n)
  BY <1>1, ResizedIsWellFormed
<1>3. ValidateAll(c, n, m) = upto[m.size]
  BY DEF ValidateAll
<1> HIDE DEF upto
<1>4. \A i \in Invalid(r, m) : i \in 0 .. m.size - 1
  BY <1>2 DEF Invalid, Arrays
<1> HIDE DEF r
<1>5. direct[0] = r
  <2>1. {i \in Invalid(r, m) : i < 0} = {}
    BY <1>1, <1>4
  <2> QED
    BY <1>1, <1>2, <2>1, ClearedNone
<1>6. ASSUME NEW k \in 1 .. m.size PROVE direct[k] = ValidateAt(direct[k - 1], m, k - 1)
  <2>1. k - 1 \in 0 .. m.size - 1 /\ k \in 0 .. m.size /\ k - 1 \in 0 .. m.size
        /\ (k - 1) + 1 = k
    BY <1>1
  <2>2. ValidateAt(Cleared(r, {i \in Invalid(r, m) : i < k - 1}), m, k - 1)
          = Cleared(r, {i \in Invalid(r, m) : i < (k - 1) + 1})
    BY <1>2, <2>1, ValidateAtAgrees
  <2> QED
    BY <2>1, <2>2
<1>7. direct = [k \in 0 .. m.size |->
                   IF k = 0 THEN r ELSE ValidateAt(direct[k - 1], m, k - 1)]
  <2>1. \A k \in 0 .. m.size :
            direct[k] = IF k = 0 THEN r ELSE ValidateAt(direct[k - 1], m, k - 1)
    <3>1. ASSUME NEW k \in 0 .. m.size, k # 0 PROVE k \in 1 .. m.size
      BY <1>1, <3>1
    <3> HIDE DEF direct
    <3> QED
      BY <1>5, <1>6, <3>1
  <2>2. direct = [k \in 0 .. m.size |-> direct[k]]
    OBVIOUS
  <2> HIDE DEF direct
  <2> QED
    BY <2>1, <2>2
<1>8. upto = [k \in 0 .. m.size |-> IF k = 0 THEN r ELSE ValidateAt(upto[k - 1], m, k - 1)]
  <2>1. \E f : f = [k \in 0 .. m.size |->
                       IF k = 0 THEN r ELSE ValidateAt(f[k - 1], m, k - 1)]
    BY <1>7
  <2> QED
    BY <2>1 DEF upto, r
<1> HIDE DEF direct
<1>9. \A k \in 0 .. m.size : upto[k] = direct[k]
  <2> DEFINE T == {k \in 0 .. m.size : upto[k] = direct[k]}
  <2>1. 0 \in T
    BY <1>1, <1>5, <1>8
  <2>2. ASSUME NEW k \in 1 .. m.size, k - 1 \in T PROVE k \in T
    <3>1. k \in 0 .. m.size /\ k # 0
      BY <1>1
    <3>2. upto[k] = ValidateAt(upto[k - 1], m, k - 1)
      BY <1>8, <3>1
    <3> QED
      BY <1>6, <2>2, <3>1, <3>2
  <2>3. 0 .. m.size \subseteq T
    <3> HIDE DEF T
    <3> QED
      BY <1>1, <2>1, <2>2, InductionUpTo
  <2> QED
    BY <2>3
<1>10. direct[m.size] = Cleared(r, Invalid(r, m))
  <2>1. {i \in Invalid(r, m) : i < m.size} = Invalid(r, m)
    BY <1>1, <1>4
  <2> QED
    BY <1>1, <2>1 DEF direct
<1> QED
  BY <1>1, <1>3, <1>9, <1>10 DEF Validated, r

(* On every array a session reaches the loops of the code leave what one   *)
(* step of the specification says.                                         *)
LEMMA LoopsInSession == SessionInv => LoopsAgree
<1> SUFFICES ASSUME SessionInv PROVE LoopsAgree
  OBVIOUS
<1>1. length \in Nat /\ constraints \in Arrays(length) /\ WellFormed(constraints, length)
  BY DEF SessionInv, TypeOK, Shape, Arrays
<1>2. Universe \subseteq Span
  BY ConstantsAssumption DEF Universe, Matrix
<1>3. ASSUME NEW i \in 0 .. length
      PROVE  ClearAt(constraints, length, i) = Cleared(constraints, {i})
  BY <1>1, ClearAtAgrees
<1>4. ASSUME NEW s \in Universe
      PROVE  AddAt(constraints, length, s) = Added(constraints, length, s)
  BY <1>1, <1>2, AddAtAgrees
<1>5. ASSUME NEW m \in Input
      PROVE  ValidateAll(constraints, length, m) = Validated(constraints, length, m)
  BY <1>1, ConstantsAssumption, ValidateAllAgrees
<1> QED
  BY <1>3, <1>4, <1>5 DEF LoopsAgree

(* clear_constraint, add_constraint and validate_constraint, run column by *)
(* column, agree with their one-step forms throughout a session: a column  *)
(* cleared early never hides or revives a phrase at a later one.           *)
THEOREM LoopsAlwaysAgree == Spec => []LoopsAgree
<1> QED
  BY LoopsInSession, SessionInvariant, PTL

-----------------------------------------------------------------------------
(* Sessions of the zhuyin library: every call but the list before the      *)
(* cursor is a call of the pinyin library or leaves the session as it is.  *)

(* Showing any phrases the input pronounces keeps the invariant.           *)
LEMMA OfferKeeps ==
    ASSUME SessionInv, NEW spans, spans \subseteq matrix.fits, Offer(spans)
    PROVE  SessionInv'
<1> USE DEF SessionInv
<1>1. DOMAIN results \subseteq 1 .. NBest
  <2>1. \E n \in 0 .. NBest : DOMAIN results = 1 .. n
    BY DEF TypeOK
  <2> QED
    BY <2>1, ConstantsAssumption
<1>2. spans \subseteq Span
  BY DEF TypeOK, Matrix
<1>3. offered' \in [spans : SUBSET Span, sentences : SUBSET (1 .. NBest)]
  BY <1>1, <1>2 DEF Offer, NoCandidates
<1> QED
  BY <1>3 DEF Offer, TypeOK, Shape, SentencesPronounced, ChoicesPronounced

(* Every call is one of the pinyin library's, shows phrases, or changes    *)
(* nothing.                                                                *)
LEMMA ZhuyinCalls ==
    ASSUME [ZhuyinNext]_vars
    PROVE  \/ [Next]_vars
           \/ \E spans : spans \subseteq matrix.fits /\ Offer(spans)
<1>1. 1 \in 1 .. NBest
  BY ConstantsAssumption
<1>2. CASE UNCHANGED vars \/ ChooseBestMatch
  BY <1>2 DEF ChooseBestMatch
<1>3. ASSUME NEW m \in Input, ZhuyinParseMore(m) PROVE Next
  BY <1>3 DEF ZhuyinParseMore, Next
<1>4. CASE ZhuyinGuessSentence
  BY <1>4 DEF ZhuyinGuessSentence, Next
<1>5. ASSUME NEW i \in {0} \cup 0 .. matrix.size - 1,
             GuessAfterCursor(i) \/ GuessBeforeCursor(i)
      PROVE  \E spans : spans \subseteq matrix.fits /\ Offer(spans)
  <2>1. {s \in matrix.fits : s.from = i} \subseteq matrix.fits
        /\ {s \in matrix.fits : s.to = i} \subseteq matrix.fits
    OBVIOUS
  <2> QED
    BY <1>5, <2>1 DEF GuessAfterCursor, GuessBeforeCursor
<1>6. ASSUME NEW s \in offered.spans, ZhuyinChooseCandidate(s) PROVE Next
  BY <1>6 DEF ZhuyinChooseCandidate, Next
<1>7. ASSUME NEW i \in 0 .. length - 1, ZhuyinClearConstraint(i) PROVE Next
  BY <1>7 DEF ZhuyinClearConstraint, Next
<1>8. CASE ZhuyinTrain \/ ZhuyinTrainAborts
  BY <1>1, <1>8 DEF ZhuyinTrain, ZhuyinTrainAborts, Next
<1>9. CASE ZhuyinReset
  BY <1>9 DEF ZhuyinReset, Next
<1> QED
  BY <1>2, <1>3, <1>4, <1>5, <1>6, <1>7, <1>8, <1>9 DEF ZhuyinNext

(* Every reachable state of a zhuyin session satisfies the invariant of    *)
(* pinyin sessions.                                                        *)
THEOREM ZhuyinInvariant == ZhuyinSpec => []SessionInv
<1>1. ZhuyinInit => SessionInv
  BY SessionInit DEF ZhuyinInit
<1>2. SessionInv /\ [ZhuyinNext]_vars => SessionInv'
  BY ZhuyinCalls, OfferKeeps, SessionNext
<1> QED
  BY <1>1, <1>2, PTL DEF ZhuyinSpec

(* In a zhuyin session too every forced phrase owns exactly the columns it *)
(* spans, whichever side of the cursor it was chosen from.                 *)
THEOREM ZhuyinShapeHolds == ZhuyinSpec => []Shape
<1>1. SessionInv => Shape
  BY DEF SessionInv
<1> QED
  BY <1>1, ZhuyinInvariant, PTL

(* ... and while the sentence is that of the present input, it and the     *)
(* forced phrases are pronounced by it.                                    *)
THEOREM ZhuyinPronouncedHolds ==
    ZhuyinSpec => [](SentencesPronounced /\ ChoicesPronounced)
<1>1. SessionInv => SentencesPronounced /\ ChoicesPronounced
  BY DEF SessionInv
<1> QED
  BY <1>1, ZhuyinInvariant, PTL

(* ... and no call an up-to-date zhuyin session allows can abort.          *)
THEOREM ZhuyinNeverAborts == ZhuyinSpec => []ProtocolNeverAborts
<1>1. ZhuyinInit => Agreement
  BY AgreementInit DEF ZhuyinInit
<1>2. SessionInv /\ Agreement /\ [ZhuyinNext]_vars => Agreement'
  <2> SUFFICES ASSUME SessionInv, Agreement, [ZhuyinNext]_vars PROVE Agreement'
    OBVIOUS
  <2>1. ASSUME NEW spans, Offer(spans) PROVE Agreement'
    BY <2>1 DEF Offer, Agreement
  <2> QED
    BY <2>1, ZhuyinCalls, AgreementNext
<1> QED
  BY <1>1, <1>2, AgreementSuffices, ZhuyinInvariant, PTL DEF ZhuyinSpec

(* The forced phrases of a zhuyin session implement a set of spans that    *)
(* never overlap too.                                                      *)
THEOREM ZhuyinChosenSpansImplemented == ZhuyinSpec => ImplementsChosenSpans
<1>1. SessionInv /\ FromInputs /\ [ZhuyinNext]_vars => FromInputs'
  <2> SUFFICES ASSUME SessionInv, FromInputs, [ZhuyinNext]_vars PROVE FromInputs'
    OBVIOUS
  <2>1. ASSUME NEW spans, spans \subseteq matrix.fits, Offer(spans) PROVE FromInputs'
    BY <2>1 DEF Offer, NoCandidates, FromInputs
  <2> QED
    BY <2>1, ZhuyinCalls, FromInputsNext
<1>2. SessionInv /\ FromInputs /\ FromInputs' /\ [ZhuyinNext]_vars
        => [Chosen!Next]_(Chosen!vars)
  <2> SUFFICES ASSUME SessionInv, FromInputs, FromInputs', [ZhuyinNext]_vars
               PROVE  [Chosen!Next]_(Chosen!vars)
    OBVIOUS
  <2>1. ASSUME NEW spans, Offer(spans) PROVE UNCHANGED Chosen!vars
    BY <2>1 DEF Offer, Chosen!vars, Picked
  <2> QED
    BY <2>1, ZhuyinCalls, PickedNext
<1> QED
  BY <1>1, <1>2, PickedInit, FromInputsInit, ZhuyinInvariant, PTL
     DEF ZhuyinSpec, ZhuyinInit, ImplementsChosenSpans, Chosen!Spec

(* The loops of the code do in every state of a zhuyin session what the    *)
(* operators say in one step.                                              *)
THEOREM ZhuyinLoopsAgree == ZhuyinSpec => []LoopsAgree
<1> QED
  BY LoopsInSession, ZhuyinInvariant, PTL
=============================================================================
