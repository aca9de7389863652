--------------------------- MODULE UserFiles_proofs ---------------------------
(***************************************************************************)
(* Proofs about the files of a user: for any number of files, any limit of *)
(* the open counter, and however often the process dies.                   *)
(*                                                                         *)
(* The invariant has four parts on top of the types.  WritesInv says how   *)
(* far the loops over the files have come; SavedInv and OrderInv relate    *)
(* what a context holds to the files it read; ConfInv relates user.conf    *)
(* and the open counter to what happened.                                  *)
(***************************************************************************)
EXTENDS UserFiles, TLAPS

Index == 1 .. Len(Files)

\* Where the context holds what it loaded.
InMemory == {"open", "writing", "filling", "renaming", "marking", "marked", "closing"}

\* The types; a loop over the files begins with the first one, and user.conf is
\* counted by the pinyin library only.
TypeOK ==
    /\ library \in {"pinyin", "zhuyin"} /\ installed \in Version
    /\ conf \in Conf \cup {Missing, Cut}
    /\ disk \in [File -> Data \cup {Missing, Cut}]
    /\ tmp \in [File -> Data \cup {Missing, Cut}]
    /\ pc \in {"closed", "opening", "renewing", "cleaning", "loading"} \cup InMemory
    /\ step \in Index
    /\ pc \notin {"cleaning", "writing", "filling", "renaming"} => step = 1
    /\ pc \in {"opening", "renewing", "closing"} => library = "pinyin"
    /\ memory \in [File -> Data \cup {Missing}]
    /\ pc \in InMemory => memory \in [File -> Data]
    /\ counter \in 0 .. Limit + 1 /\ modified \in BOOLEAN
    /\ crashes \in 0 .. Limit + 1 /\ upgraded \in BOOLEAN
    /\ saved \in [File -> Data \cup {Missing}]
    /\ failed \in SUBSET File /\ interrupted \in BOOLEAN

\* The .tmp file holds all the context has to write; the file itself does.
Ready(i) == tmp[Files[i]] = memory[Files[i]] \/ Files[i] \in failed
Done(i) == disk[Files[i]] = memory[Files[i]] \/ Files[i] \in failed

\* How far _write_files and _rename_files have come.
WritesInv ==
    /\ FilesWhole
    /\ library = "pinyin" /\ pc \in {"writing", "filling"} => \A i \in 1 .. step - 1 : Ready(i)
    /\ library = "pinyin" /\ pc = "renaming" => /\ \A i \in step .. Len(Files) : Ready(i)
                                                /\ \A i \in 1 .. step - 1 : Done(i)
    /\ library = "zhuyin" /\ pc = "renaming" => Ready(step)
    /\ library = "zhuyin" /\ pc \in {"writing", "filling", "renaming"} =>
           \A i \in 1 .. step - 1 : Done(i)
    /\ pc \in {"marking", "marked"} => \A i \in Index : Done(i)

\* A context holds what the last finished save held, or something newer.
SavedInv ==
    /\ SavedSurvives
    /\ pc = "cleaning" => saved = Empty
    /\ pc \in InMemory =>
           \A f \in File \ failed : saved[f] # Missing => memory[f].gen >= saved[f].gen

\* Cleaning goes in the order of the files too; a context keeps the order it found,
\* and holds nothing older than the file.
OrderInv ==
    /\ LibrariesFirst
    /\ pc = "cleaning" => \A i \in 1 .. step - 1 : disk[Files[i]] = Missing
    /\ pc \in InMemory /\ failed = {} /\ ~interrupted =>
           /\ \A i, j \in Index : i < j => memory[Files[i]].gen >= memory[Files[j]].gen
           /\ \A i \in Index : memory[Files[i]].gen >= Loaded(disk[Files[i]]).gen

Whole == conf \notin {Missing, Cut}

\* user.conf carries the version of the data that wrote it, and for pinyin the open
\* counter: one more than the crashes while a context is open, the crashes when none is.
ConfInv ==
    /\ Whole => conf.version <= installed /\ (conf.version = installed <=> ~upgraded)
    /\ library = "zhuyin" => counter = 0 /\ (Whole => conf.counter = 0)
    /\ library = "pinyin" =>
           /\ pc = "closed" /\ Whole => conf.counter = crashes
           /\ pc \notin {"closed", "opening", "renewing"} => ~upgraded
           /\ pc \notin {"closed", "renewing", "closing"} => counter = crashes + 1
           /\ pc = "renewing" => counter = 1 \/ counter = crashes + 1
           /\ pc = "closing" => counter = crashes
           /\ pc # "closed" /\ Whole => conf.counter = counter
           /\ pc \in {"opening", "renewing", "marked", "closing"} => ~Whole

-----------------------------------------------------------------------------
(* Files and their places in the loops. *)

\* Every file has its place, and no two places have one file.
LEMMA FilePlaces ==
    /\ Len(Files) \in Nat \ {0} /\ 1 \in Index
    /\ \A i \in Index : Files[i] \in File
    /\ \A f \in File : \E i \in Index : Files[i] = f
    /\ \A i, j \in Index : Files[i] = Files[j] => i = j
BY UserFilesAssumption DEF File, Index, Range

\* What is assumed of the other constants.
LEMMA Bounds ==
    /\ Limit \in Nat /\ MaxVersion \in Nat \ {0} /\ MaxGen \in Nat
    /\ Missing \notin Data \cup Conf /\ Cut \notin Data \cup Conf /\ Missing # Cut
BY UserFilesAssumption

\* No file at all is a state of the directory.
LEMMA EmptyFiles ==
    Empty \in [File -> Data \cup {Missing, Cut}] /\ Empty \in [File -> Data \cup {Missing}]
BY DEF Empty

\* A new directory has the type.
LEMMA TypesInit == Init => TypeOK
<1> SUFFICES ASSUME Init PROVE TypeOK
  OBVIOUS
<1> USE DEF Init
<1>1. library \in {"pinyin", "zhuyin"} /\ installed \in Version /\ 1 \in Index
  BY Bounds, FilePlaces DEF Version
<1>2. counter \in 0 .. Limit + 1 /\ crashes \in 0 .. Limit + 1
  BY Bounds
<1>4. pc \in {"closed", "opening", "renewing", "cleaning", "loading"} \cup InMemory
      /\ pc \notin InMemory /\ modified \in BOOLEAN /\ upgraded \in BOOLEAN
      /\ interrupted \in BOOLEAN
  BY DEF InMemory
<1> QED
  BY <1>1, <1>2, <1>4, EmptyFiles DEF TypeOK

\* What a file is taken for that is loaded.
LEMMA LoadedData == TypeOK => \A d \in Data \cup {Missing, Cut} : Loaded(d) \in Data
BY Bounds DEF TypeOK, Loaded, Data

\* What mark_version writes.
LEMMA WrittenTyped == TypeOK => WrittenConf \in Conf
BY DEF TypeOK, WrittenConf, Conf

\* One more generation of everything.
LEMMA LearnedTyped ==
    ASSUME NEW d \in Data, d.gen < MaxGen
    PROVE  [d EXCEPT !.gen = @ + 1] \in Data
BY Bounds DEF Data

\* What the context learned is data again.
LEMMA LearnedFiles ==
    ASSUME memory \in [File -> Data], Learn
    PROVE  memory' \in [File -> Data]
<1>1. ASSUME NEW f \in File PROVE [memory[f] EXCEPT !.gen = @ + 1] \in Data
  BY LearnedTyped DEF Learn
<1> QED
  BY <1>1 DEF Learn

\* A context that is gone, by a return or by a crash, leaves nothing behind.
LEMMA ClosedTyped ==
    ASSUME Closed
    PROVE  /\ step' \in Index /\ step' = 1 /\ counter' \in 0 .. Limit + 1
           /\ modified' \in BOOLEAN /\ memory' \in [File -> Data \cup {Missing}]
           /\ pc' \in {"closed", "opening", "renewing", "cleaning", "loading"} \cup InMemory
           /\ pc' \notin InMemory \cup {"opening", "renewing"}
<1>1. step' \in Index /\ step' = 1 /\ modified' \in BOOLEAN
      /\ memory' \in [File -> Data \cup {Missing}]
  BY EmptyFiles, FilePlaces DEF Closed
<1>2. counter' \in 0 .. Limit + 1
  BY Bounds DEF Closed
<1>3. pc' \in {"closed", "opening", "renewing", "cleaning", "loading"} \cup InMemory
      /\ pc' \notin InMemory \cup {"opening", "renewing"}
  BY DEF Closed, InMemory
<1> QED
  BY <1>1, <1>2, <1>3

\* Every file operation, crash and upgrade keeps the type.
LEMMA TypesStep == TypeOK /\ [Next]_vars => TypeOK'
<1> SUFFICES ASSUME TypeOK, [Next]_vars PROVE TypeOK'
  OBVIOUS
<1> USE FilePlaces, Bounds DEF TypeOK, InMemory, Index, system, files, context, history
<1>1. CASE Open
  BY <1>1 DEF Open, LoadedCounter, OpenCounter, Conf
<1>2. CASE OpenDone
  <2>1. conf' \in Conf /\ saved' \in [File -> Data \cup {Missing}] /\ crashes' \in 0 .. Limit + 1
    BY <1>2, EmptyFiles, WrittenTyped DEF OpenDone
  <2> QED
    BY <1>2, <2>1 DEF OpenDone
<1>3. CASE Clean
  BY <1>3 DEF Clean, Again
<1>4. CASE Load
  BY <1>4, LoadedData DEF Load
<1>5. CASE Learn
  <2>1. memory' \in [File -> Data] /\ memory' \in [File -> Data \cup {Missing}]
    BY <1>5, LearnedFiles DEF Learn
  <2> QED
    BY <1>5, <2>1 DEF Learn
<1>6. CASE Save \/ BeginWrite \/ BeginMark
  BY <1>6 DEF Save, BeginWrite, BeginMark
<1>7. ASSUME NEW ok \in BOOLEAN, EndWrite(ok) \/ ZhuyinEndWrite(ok) PROVE TypeOK'
  BY <1>7 DEF EndWrite, ZhuyinEndWrite, Written, Again
<1>8. ASSUME NEW f \in File, RenameFile(f)
      PROVE  /\ disk' \in [File -> Data \cup {Missing, Cut}]
             /\ tmp' \in [File -> Data \cup {Missing, Cut}]
  BY <1>8 DEF RenameFile
<1>9. CASE Rename
  BY <1>8, <1>9 DEF Rename, RenameFile, Again
<1>10. CASE ZhuyinRename
  BY <1>8, <1>10 DEF ZhuyinRename, RenameFile, Again
<1>11. CASE SaveReturns
  BY <1>11, WrittenTyped DEF SaveReturns
<1>12. CASE Close
  BY <1>12 DEF Close, OpenCounter
<1>13. CASE CloseReturns \/ ZhuyinClose \/ Crash
  <2>1. Closed
    BY <1>13 DEF CloseReturns, ZhuyinClose, Crash
  <2>2. crashes' \in 0 .. Limit + 1 /\ interrupted' \in BOOLEAN
    <3>1. crashes' = crashes \/ (crashes <= Limit /\ crashes' = crashes + 1)
      BY <1>13 DEF CloseReturns, ZhuyinClose, Crash
    <3>2. interrupted' \in BOOLEAN
      BY <1>13 DEF CloseReturns, ZhuyinClose, Crash
    <3> QED
      BY <3>1, <3>2
  <2>3. conf' \in Conf \cup {Missing, Cut}
    BY <1>13, WrittenTyped DEF CloseReturns, ZhuyinClose, Crash
  <2>4. UNCHANGED <<library, installed, disk, tmp, upgraded, saved, failed>>
    BY <1>13 DEF CloseReturns, ZhuyinClose, Crash
  <2> HIDE DEF TypeOK, InMemory, Index
  <2>5. step' \in Index /\ step' = 1 /\ counter' \in 0 .. Limit + 1
        /\ modified' \in BOOLEAN /\ memory' \in [File -> Data \cup {Missing}]
        /\ pc' \in {"closed", "opening", "renewing", "cleaning", "loading"} \cup InMemory
        /\ pc' \notin InMemory \cup {"opening", "renewing"}
    BY <2>1, ClosedTyped
  <2>6. "closing" \in InMemory
    BY DEF InMemory
  <2> QED
    BY <2>2, <2>3, <2>4, <2>5, <2>6 DEF TypeOK
<1>15. CASE ZhuyinOpen
  BY <1>15, EmptyFiles DEF ZhuyinOpen
<1>16. CASE Upgrade
  BY <1>16 DEF Upgrade, Version, Conf
<1>17. CASE UNCHANGED vars
  BY <1>17 DEF vars
<1> QED
  BY <1>1, <1>2, <1>3, <1>4, <1>5, <1>6, <1>7, <1>9, <1>10, <1>11, <1>12, <1>13,
     <1>15, <1>16, <1>17 DEF Next

\* Every variable keeps its type.
THEOREM Typed == Spec => []TypeOK
<1> QED
  BY TypesInit, TypesStep, PTL DEF Spec

-----------------------------------------------------------------------------
(* user.conf and the open counter. *)

\* What a step leaves as user.conf when it only passes by.
LEMMA ConfKept ==
    ASSUME TypeOK, ConfInv, UNCHANGED <<system, conf, counter, crashes, upgraded>>,
           pc \notin {"closed", "opening", "renewing", "marked", "closing"},
           pc' \notin {"closed", "opening", "renewing", "marked", "closing"}
    PROVE  ConfInv'
BY DEF ConfInv, Whole, system

\* A file just written tells the version and the counter it was written with.
LEMMA ConfWritten ==
    ASSUME TypeOK, conf' = WrittenConf, UNCHANGED system
    PROVE  Whole' /\ conf'.version = installed' /\ conf'.counter = counter
BY Bounds, WrittenTyped DEF Whole, WrittenConf, system, Conf, TypeOK

\* Every step keeps what user.conf says of the directory.
LEMMA ConfStep == TypeOK /\ ConfInv /\ [Next]_vars => ConfInv'
<1> SUFFICES ASSUME TypeOK, ConfInv, [Next]_vars PROVE ConfInv'
  OBVIOUS
<1> USE Bounds DEF system, files, context, history
<1>1. CASE Open
  BY <1>1 DEF Open, IsConform, LoadedCounter, OpenCounter, ConfInv, Whole, TypeOK, Conf
<1>2. CASE OpenDone
  <2>1. Whole' /\ conf'.version = installed' /\ conf'.counter = counter
    BY <1>2, ConfWritten DEF OpenDone
  <2>2. library = "pinyin" /\ counter' = crashes' + 1 /\ counter' = counter
    BY <1>2 DEF OpenDone, ConfInv, TypeOK
  <2> QED
    BY <1>2, <2>1, <2>2 DEF OpenDone, ConfInv, TypeOK, Version
<1>3. CASE Clean
  BY <1>3, ConfKept DEF Clean, Again
<1>4. CASE Load \/ Learn \/ Save \/ BeginWrite
  BY <1>4, ConfKept DEF Load, Learn, Save, BeginWrite
<1>5. ASSUME NEW ok \in BOOLEAN, EndWrite(ok) \/ ZhuyinEndWrite(ok) PROVE ConfInv'
  BY <1>5, ConfKept DEF EndWrite, ZhuyinEndWrite, Written, Again
<1>6. CASE Rename \/ ZhuyinRename
  BY <1>6, ConfKept DEF Rename, ZhuyinRename, RenameFile, Again
<1>7. CASE BeginMark
  BY <1>7 DEF BeginMark, ConfInv, Whole
<1>8. CASE SaveReturns
  <2>1. Whole' /\ conf'.version = installed' /\ conf'.counter = counter
    BY <1>8, ConfWritten DEF SaveReturns
  <2> QED
    BY <1>8, <2>1 DEF SaveReturns, ConfInv, TypeOK, Version
<1>9. CASE Close
  BY <1>9 DEF Close, OpenCounter, ConfInv, Whole, TypeOK
<1>10. CASE CloseReturns
  <2>1. Whole' /\ conf'.version = installed' /\ conf'.counter = counter
    BY <1>10, ConfWritten DEF CloseReturns
  <2> QED
    BY <1>10, <2>1 DEF CloseReturns, Closed, ConfInv, TypeOK, Version
<1>11. CASE ZhuyinOpen
  BY <1>11 DEF ZhuyinOpen, ConfInv, Whole
<1>12. CASE ZhuyinClose
  BY <1>12 DEF ZhuyinClose, Closed, ConfInv, Whole
<1>13. CASE Crash
  BY <1>13 DEF Crash, Closed, ConfInv, Whole, TypeOK, Conf
<1>14. CASE Upgrade
  BY <1>14 DEF Upgrade, ConfInv, Whole, TypeOK, Conf, Version
<1>15. CASE UNCHANGED vars
  BY <1>15 DEF vars, ConfInv, Whole
<1> QED
  BY <1>1, <1>2, <1>3, <1>4, <1>5, <1>6, <1>7, <1>8, <1>9, <1>10, <1>11, <1>12, <1>13,
     <1>14, <1>15 DEF Next

\* When a context opens, what check_format finds is what happened.
LEMMA OpenedForAReason ==
    ASSUME TypeOK, ConfInv, [Next]_vars, pc = "closed", pc' # "closed"
    PROVE  pc' \in {"opening", "loading"} <=>
               /\ conf \notin {Missing, Cut}
               /\ ~upgraded
               /\ library = "pinyin" => crashes <= Limit
<1>1. Open \/ ZhuyinOpen
  BY DEF Next, vars, context, OpenDone, Clean, Load, Learn, Save, BeginWrite, EndWrite,
         ZhuyinEndWrite, Written, Rename, ZhuyinRename, BeginMark, SaveReturns, Close,
         CloseReturns, ZhuyinClose, Crash, Upgrade
<1>2. pc' \in {"opening", "loading"} <=> IsConform
  BY <1>1 DEF Open, ZhuyinOpen
<1>3. CASE Open
  BY <1>2, <1>3 DEF Open, IsConform, ConfInv, Whole
<1>4. CASE ZhuyinOpen
  BY <1>2, <1>4, Bounds DEF ZhuyinOpen, IsConform, ConfInv, Whole
<1> QED
  BY <1>1, <1>3, <1>4

\* The files of a user are found not conforming exactly when there is no whole
\* user.conf, the version changed, or more than Limit sessions of pinyin crashed:
\* check_format, pinyin_fini and the crashes between them count right.
THEOREM Reasons == Spec => CleanedForAReason
<1>1. Init => ConfInv
  BY DEF Init, ConfInv, Whole
<1>2. TypeOK /\ ConfInv /\ [Next]_vars =>
        [pc = "closed" /\ pc' # "closed" =>
          (pc' \in {"opening", "loading"} <=>
                 /\ conf \notin {Missing, Cut}
                 /\ ~upgraded
                 /\ library = "pinyin" => crashes <= Limit)]_vars
  BY OpenedForAReason
<1> QED
  BY <1>1, <1>2, ConfStep, Typed, PTL DEF Spec, CleanedForAReason
-----------------------------------------------------------------------------
(* The loops over the files. *)

\* Renaming one file: it is what the context holds, and no other file is touched.
LEMMA Renamed ==
    ASSUME TypeOK, WritesInv, Rename \/ ZhuyinRename
    PROVE  /\ Files[step] \notin failed => disk'[Files[step]] = memory[Files[step]]
           /\ \A i \in Index \ {step} : /\ disk'[Files[i]] = disk[Files[i]]
                                        /\ tmp'[Files[i]] = tmp[Files[i]]
           /\ \A i \in 1 .. step - 1 : Done(i)
<1> USE FilePlaces DEF TypeOK, Index
<1>1. RenameFile(Files[step])
  BY DEF Rename, ZhuyinRename
<1>2. Ready(step) /\ \A i \in 1 .. step - 1 : Done(i)
  BY DEF WritesInv, Rename, ZhuyinRename
<1>3. disk'[Files[step]] = tmp[Files[step]]
  BY <1>1 DEF RenameFile
<1>4. ASSUME NEW i \in Index \ {step}
      PROVE  disk'[Files[i]] = disk[Files[i]] /\ tmp'[Files[i]] = tmp[Files[i]]
  BY <1>1 DEF RenameFile
<1> QED
  BY <1>2, <1>3, <1>4 DEF Ready

\* Writing one file: it is ready or its write failed, and no other is touched.
LEMMA FileWritten ==
    ASSUME TypeOK, NEW ok \in BOOLEAN, Written(ok)
    PROVE  /\ tmp'[Files[step]] = memory[Files[step]] \/ Files[step] \in failed'
           /\ \A i \in Index \ {step} : tmp'[Files[i]] = tmp[Files[i]]
           /\ failed \subseteq failed' /\ UNCHANGED <<library, disk, memory>>
<1> USE FilePlaces DEF TypeOK, Index, Written, system
<1>1. tmp'[Files[step]] = memory[Files[step]] \/ Files[step] \in failed'
  OBVIOUS
<1>2. \A i \in Index \ {step} : tmp'[Files[i]] = tmp[Files[i]]
  OBVIOUS
<1> QED
  BY <1>1, <1>2 DEF Ready

\* A file in its place is cut short by a failed write only.
LEMMA WholeStep == TypeOK /\ WritesInv /\ [Next]_vars => FilesWhole'
<1> SUFFICES ASSUME TypeOK, WritesInv, [Next]_vars PROVE FilesWhole'
  OBVIOUS
<1> USE DEF FilesWhole
<1>1. FilesWhole /\ disk \in [File -> Data \cup {Missing, Cut}]
  BY DEF WritesInv, TypeOK
<1>2. CASE Clean
  BY <1>1, <1>2, Bounds DEF Clean, history
<1>3. CASE Rename \/ ZhuyinRename
  <2>1. ASSUME NEW i \in Index, disk'[Files[i]] = Cut PROVE Files[i] \in failed
    <3>1. CASE i = step
      <4>1. memory[Files[step]] \in Data
        BY <1>3, FilePlaces DEF TypeOK, Rename, ZhuyinRename, InMemory
      <4> QED
        BY <1>3, <2>1, <3>1, <4>1, Renamed, Bounds
    <3>2. CASE i # step
      BY <1>1, <1>3, <2>1, <3>2, Renamed, FilePlaces
    <3> QED
      BY <3>1, <3>2
  <2>2. failed' = failed
    BY <1>3 DEF Rename, ZhuyinRename, RenameFile, history
  <2> QED
    BY <2>1, <2>2, FilePlaces
<1>4. CASE UNCHANGED disk /\ failed \subseteq failed'
  BY <1>1, <1>4
<1> QED
  BY <1>2, <1>3, <1>4
     DEF Next, vars, files, history, Open, OpenDone, Load, Learn, Save, BeginWrite, EndWrite,
         ZhuyinEndWrite, Written, BeginMark, SaveReturns, Close, CloseReturns, ZhuyinOpen,
         ZhuyinClose, Crash, Upgrade

\* What is ready, and what is done, stays so while its file is left alone.
LEMMA ReadyKept ==
    ASSUME NEW i \in Index, Ready(i), tmp'[Files[i]] = tmp[Files[i]],
           UNCHANGED memory, failed \subseteq failed'
    PROVE  tmp'[Files[i]] = memory'[Files[i]] \/ Files[i] \in failed'
BY DEF Ready

\* A file that is done stays done while it is left alone.
LEMMA DoneKept ==
    ASSUME NEW i \in Index, Done(i), disk'[Files[i]] = disk[Files[i]],
           UNCHANGED memory, failed \subseteq failed'
    PROVE  disk'[Files[i]] = memory'[Files[i]] \/ Files[i] \in failed'
BY DEF Done

\* Every step keeps the files before the present one done, and those written ready.
LEMMA WritesStep == TypeOK /\ WritesInv /\ [Next]_vars => WritesInv'
<1> SUFFICES ASSUME TypeOK, WritesInv, [Next]_vars PROVE WritesInv'
  OBVIOUS
<1> USE FilePlaces
<1>w. FilesWhole' /\ step \in Nat /\ step \in Index /\ Len(Files) \in Nat
  BY WholeStep DEF TypeOK, Index
<1>1. ASSUME pc' \notin {"writing", "filling", "renaming", "marking", "marked"}
      PROVE  WritesInv'
  BY <1>1, <1>w DEF WritesInv
<1>2. CASE Save
  <2>1. step' = 1 /\ pc' = "writing"
    BY <1>2 DEF Save, TypeOK
  <2> QED
    BY <1>w, <2>1 DEF WritesInv
<1>3. CASE BeginWrite
  <2>1. ASSUME NEW i \in 1 .. step - 1
        PROVE  tmp'[Files[i]] = tmp[Files[i]] /\ i \in Index
    BY <1>3, <1>w DEF BeginWrite, TypeOK, Index
  <2> QED
    BY <1>3, <1>w, <2>1 DEF BeginWrite, WritesInv, Ready, Done, system, history
<1>4. ASSUME NEW ok \in BOOLEAN, EndWrite(ok) PROVE WritesInv'
  <2>1. \A i \in 1 .. step : tmp'[Files[i]] = memory'[Files[i]] \/ Files[i] \in failed'
    <3>1. ASSUME NEW i \in 1 .. step - 1
          PROVE  tmp'[Files[i]] = memory'[Files[i]] \/ Files[i] \in failed'
      <4>1. i \in Index \ {step} /\ Ready(i)
        BY <1>4, <1>w DEF EndWrite, Written, WritesInv, Index
      <4> QED
        BY <1>4, <4>1, FileWritten, ReadyKept DEF EndWrite
    <3> QED
      BY <1>4, <1>w, <3>1, FileWritten DEF EndWrite
  <2>2. CASE step < Len(Files)
    BY <1>4, <1>w, <2>1, <2>2 DEF EndWrite, Written, Again, WritesInv, Ready, system
  <2>3. CASE ~(step < Len(Files))
    BY <1>4, <1>w, <2>1, <2>3 DEF EndWrite, Written, Again, WritesInv, Ready, Index, system
  <2> QED
    BY <2>2, <2>3
<1>5. ASSUME NEW ok \in BOOLEAN, ZhuyinEndWrite(ok) PROVE WritesInv'
  <2>1. UNCHANGED <<step, disk, memory, library>> /\ failed \subseteq failed' /\ pc' = "renaming"
    BY <1>5, FileWritten DEF ZhuyinEndWrite
  <2>2. Ready(step)'
    BY <1>5, <2>1, FileWritten DEF ZhuyinEndWrite, Ready
  <2>3. \A i \in 1 .. step - 1 : Done(i)'
    BY <1>5, <2>1 DEF ZhuyinEndWrite, Written, WritesInv, Done
  <2> QED
    BY <1>5, <1>w, <2>1, <2>2, <2>3 DEF ZhuyinEndWrite, WritesInv
<1>6. ASSUME Rename \/ ZhuyinRename
      PROVE  \A i \in 1 .. step : Done(i)'
  <2>1. UNCHANGED <<memory, failed>>
    BY <1>6 DEF Rename, ZhuyinRename, RenameFile, history
  <2>2. ASSUME NEW i \in 1 .. step - 1 PROVE Done(i)'
    <3>1. i \in Index \ {step}
      BY <1>w DEF Index
    <3> QED
      BY <1>6, <2>1, <3>1, Renamed DEF Done
  <2> QED
    BY <1>6, <1>w, <2>1, <2>2, Renamed DEF Done
<1>7. CASE Rename
  <2>1. \A i \in step + 1 .. Len(Files) : Ready(i)'
    <3>1. ASSUME NEW i \in step + 1 .. Len(Files) PROVE i \in Index \ {step} /\ Ready(i)
      BY <1>7, <1>w DEF Rename, WritesInv, Index
    <3> QED
      BY <1>7, <3>1, Renamed DEF Rename, RenameFile, history, Ready
  <2>2. CASE step < Len(Files)
    BY <1>6, <1>7, <1>w, <2>1, <2>2 DEF Rename, RenameFile, Again, WritesInv, system
  <2>3. CASE ~(step < Len(Files))
    <3>1. step = Len(Files) /\ pc' = "marking"
      BY <1>7, <1>w, <2>3 DEF Rename, Again, Index
    <3> QED
      BY <1>6, <1>7, <1>w, <3>1 DEF WritesInv, Index
  <2> QED
    BY <2>2, <2>3
<1>8. CASE ZhuyinRename
  <2>1. CASE step < Len(Files)
    BY <1>6, <1>8, <1>w, <2>1 DEF ZhuyinRename, RenameFile, Again, WritesInv, system
  <2>2. CASE ~(step < Len(Files))
    <3>1. step = Len(Files) /\ pc' = "marking"
      BY <1>8, <1>w, <2>2 DEF ZhuyinRename, Again, Index
    <3> QED
      BY <1>6, <1>8, <1>w, <3>1 DEF WritesInv, Index
  <2> QED
    BY <2>1, <2>2
<1>9. CASE BeginMark
  BY <1>9, <1>w DEF BeginMark, WritesInv, Done, history
<1>10. CASE UNCHANGED vars
  BY <1>10, <1>w DEF vars, files, context, history, system, WritesInv, Ready, Done
<1> QED
  BY <1>1, <1>2, <1>3, <1>4, <1>5, <1>7, <1>8, <1>9, <1>10
     DEF Next, Open, OpenDone, Clean, Again, Load, Learn, SaveReturns, Close, CloseReturns,
         ZhuyinOpen, ZhuyinClose, Closed, Crash, Upgrade, context

\* No step forgets where it is in the loops, or leaves a file cut short.
THEOREM FilesAreWhole == Spec => []FilesWhole
<1>1. Init => WritesInv
  BY Bounds DEF Init, WritesInv, FilesWhole, Empty
<1>2. WritesInv => FilesWhole
  BY DEF WritesInv
<1> QED
  BY <1>1, <1>2, WritesStep, Typed, PTL DEF Spec

-----------------------------------------------------------------------------
(* What was saved. *)

\* A step that leaves the files, or changes what the context holds for the newer.
LEMMA SavedKept ==
    ASSUME TypeOK, SavedInv, UNCHANGED <<disk, saved>>, failed \subseteq failed',
           pc' # "cleaning",
           pc' \in InMemory => UNCHANGED memory /\ pc \in InMemory
    PROVE  SavedInv'
BY DEF SavedInv, SavedSurvives

\* Every step keeps what a finished save held.
LEMMA SavedStep == TypeOK /\ WritesInv /\ SavedInv /\ [Next]_vars => SavedInv'
<1> SUFFICES ASSUME TypeOK, WritesInv, SavedInv, [Next]_vars PROVE SavedInv'
  OBVIOUS
<1> USE DEF files, context, history, system
<1>1. CASE Open \/ Save \/ BeginWrite \/ BeginMark \/ Close
  BY <1>1, SavedKept DEF Open, Save, BeginWrite, BeginMark, Close, InMemory
<1>2. CASE CloseReturns \/ ZhuyinClose \/ Crash \/ Upgrade
  BY <1>2, SavedKept DEF CloseReturns, ZhuyinClose, Crash, Upgrade, Closed, InMemory
<1>3. ASSUME NEW ok \in BOOLEAN, EndWrite(ok) \/ ZhuyinEndWrite(ok) PROVE SavedInv'
  BY <1>3, SavedKept DEF EndWrite, ZhuyinEndWrite, Written, Again, InMemory
<1>4. CASE OpenDone \/ ZhuyinOpen
  <2>1. CASE pc' = "cleaning"
    <3>1. saved' = Empty /\ pc' \notin InMemory
      BY <1>4, <2>1 DEF OpenDone, ZhuyinOpen, InMemory
    <3> QED
      BY <3>1 DEF SavedInv, SavedSurvives, Empty
  <2>2. CASE pc' # "cleaning"
    BY <1>4, <2>2, SavedKept DEF OpenDone, ZhuyinOpen, InMemory
  <2> QED
    BY <2>1, <2>2
<1>5. CASE Clean
  BY <1>5 DEF Clean, Again, SavedInv, SavedSurvives, Empty, InMemory
<1>6. CASE Load
  <2>1. \A f \in File \ failed : saved[f] # Missing => disk[f] \in Data /\ disk[f].gen >= saved[f].gen
    BY DEF SavedInv, SavedSurvives
  <2>2. \A f \in File \ failed : saved[f] # Missing => memory'[f].gen >= saved[f].gen
    BY <1>6, <2>1 DEF Load, Loaded
  <2> QED
    BY <1>6, <2>1, <2>2 DEF Load, SavedInv, SavedSurvives
<1>7. CASE Learn
  <2>1. ASSUME NEW f \in File \ failed, saved[f] # Missing PROVE memory'[f].gen >= saved[f].gen
    <3>1. memory[f] \in Data /\ saved[f] \in Data /\ memory[f].gen >= saved[f].gen
      BY <1>7, <2>1 DEF Learn, TypeOK, SavedInv, InMemory
    <3>2. memory'[f].gen = memory[f].gen + 1
      BY <1>7, <3>1 DEF Learn, Data
    <3> QED
      BY <3>1, <3>2, Bounds DEF Data
  <2> QED
    BY <1>7, <2>1 DEF Learn, SavedInv, SavedSurvives
<1>8. CASE Rename \/ ZhuyinRename
  <2>1. UNCHANGED <<memory, failed, saved>> /\ pc' \in InMemory /\ pc \in InMemory
    BY <1>8 DEF Rename, ZhuyinRename, RenameFile, Again, InMemory
  <2>2. ASSUME NEW i \in Index, Files[i] \notin failed, saved[Files[i]] # Missing
        PROVE  disk'[Files[i]] \in Data /\ disk'[Files[i]].gen >= saved[Files[i]].gen
    <3>1. CASE i = step
      BY <1>8, <2>1, <2>2, <3>1, Renamed, FilePlaces DEF SavedInv, TypeOK
    <3>2. CASE i # step
      BY <1>8, <2>2, <3>2, Renamed, FilePlaces DEF SavedInv, SavedSurvives
    <3> QED
      BY <3>1, <3>2
  <2>3. pc' # "cleaning"
    BY <1>8 DEF Rename, ZhuyinRename, Again
  <2> QED
    BY <2>1, <2>2, <2>3, FilePlaces DEF SavedInv, SavedSurvives
<1>9. CASE SaveReturns
  <2>1. UNCHANGED <<disk, memory, failed>> /\ saved' = memory /\ pc' = "open"
    BY <1>9 DEF SaveReturns
  <2>2. ASSUME NEW f \in File \ failed
        PROVE  disk[f] = memory[f] /\ memory[f] \in Data
    BY <1>9, FilePlaces DEF SaveReturns, WritesInv, Done, TypeOK, InMemory
  <2>3. \A d \in Data : d.gen >= d.gen
    BY Bounds DEF Data
  <2> QED
    BY <2>1, <2>2, <2>3 DEF SavedInv, SavedSurvives
<1>10. CASE UNCHANGED vars
  BY <1>10 DEF vars, SavedInv, SavedSurvives
<1> QED
  BY <1>1, <1>2, <1>3, <1>4, <1>5, <1>6, <1>7, <1>8, <1>9, <1>10 DEF Next

\* What a finished save held stays on disk through every later crash, save and
\* reopening, until the files are found not conforming: a save writes every file and
\* renames every file, and a context holds what it read.
THEOREM SavesSurvive == Spec => []SavedSurvives
<1>1. Init => WritesInv /\ SavedInv
  BY Bounds DEF Init, WritesInv, FilesWhole, SavedInv, SavedSurvives, Empty, InMemory
<1>2. SavedInv => SavedSurvives
  BY DEF SavedInv
<1> QED
  BY <1>1, <1>2, SavedStep, WritesStep, Typed, PTL DEF Spec

-----------------------------------------------------------------------------
(* Which file may be newer. *)

\* The generation of a file does not depend on what is installed.
LEMMA GenKept ==
    ASSUME UNCHANGED disk
    PROVE  \A f \in File : Loaded(disk[f])'.gen = Loaded(disk[f]).gen
BY DEF Loaded

\* The generations are numbers.
LEMMA GenOfFile == TypeOK => \A f \in File : Loaded(disk[f]).gen \in Nat
<1> SUFFICES ASSUME TypeOK, NEW f \in File PROVE Loaded(disk[f]).gen \in Nat
  OBVIOUS
<1>1. Loaded(disk[f]) \in Data
  BY LoadedData DEF TypeOK
<1> QED
  BY <1>1, Bounds DEF Data

\* What memory holds of a file has a generation.
LEMMA GenInMemory == TypeOK /\ pc \in InMemory => \A f \in File : memory[f].gen \in Nat
BY Bounds DEF TypeOK, Data

\* Files that are left alone keep their order.
LEMMA LibrariesKept ==
    ASSUME OrderInv, UNCHANGED disk, failed \subseteq failed', pc # "cleaning",
           interrupted => interrupted'
    PROVE  LibrariesFirst'
<1>1. \A f \in File : Loaded(disk[f])'.gen = Loaded(disk[f]).gen
  BY GenKept
<1> QED
  BY <1>1, FilePlaces DEF OrderInv, LibrariesFirst, Index

\* A step that leaves the files and what the context holds.
LEMMA OrderKept ==
    ASSUME TypeOK, OrderInv, UNCHANGED <<disk, memory>>, failed \subseteq failed',
           interrupted' = interrupted,
           pc # "cleaning", pc' # "cleaning", pc' \in InMemory => pc \in InMemory
    PROVE  OrderInv'
<1>1. \A f \in File : Loaded(disk[f])'.gen = Loaded(disk[f]).gen
  BY GenKept
<1>2. LibrariesFirst'
  BY LibrariesKept
<1> QED
  BY <1>1, <1>2, FilePlaces DEF OrderInv

\* Every step keeps the libraries at least as new as what refers to them.
LEMMA OrderStep == TypeOK /\ WritesInv /\ OrderInv /\ [Next]_vars => OrderInv'
<1> SUFFICES ASSUME TypeOK, WritesInv, OrderInv, [Next]_vars PROVE OrderInv'
  OBVIOUS
<1> USE DEF files, context, history, system
<1>1. CASE Open \/ Save \/ BeginWrite \/ BeginMark \/ SaveReturns \/ Close
  BY <1>1, OrderKept DEF Open, Save, BeginWrite, BeginMark, SaveReturns, Close, InMemory
<1>2. ASSUME NEW ok \in BOOLEAN, EndWrite(ok) \/ ZhuyinEndWrite(ok) PROVE OrderInv'
  BY <1>2, OrderKept DEF EndWrite, ZhuyinEndWrite, Written, Again, InMemory
<1>3. CASE CloseReturns \/ ZhuyinClose \/ Crash \/ Upgrade
  <2>1. pc' \notin InMemory \cup {"cleaning"} /\ UNCHANGED <<disk, failed>>
        /\ interrupted' = (interrupted \/ pc = "cleaning")
    BY <1>3 DEF CloseReturns, ZhuyinClose, Crash, Upgrade, Closed, InMemory, TypeOK
  <2>2. CASE pc = "cleaning"
    BY <2>1, <2>2 DEF OrderInv, LibrariesFirst
  <2>3. CASE pc # "cleaning"
    <3>1. LibrariesFirst'
      BY <2>1, <2>3, LibrariesKept
    <3> QED
      BY <2>1, <3>1 DEF OrderInv
  <2> QED
    BY <2>2, <2>3
<1>4. CASE OpenDone \/ ZhuyinOpen
  <2>1. pc' \notin InMemory /\ pc # "cleaning" /\ UNCHANGED <<disk, step, failed, interrupted>>
        /\ step = 1
    BY <1>4 DEF OpenDone, ZhuyinOpen, InMemory, TypeOK
  <2>2. LibrariesFirst'
    BY <2>1, LibrariesKept
  <2> QED
    BY <2>1, <2>2 DEF OrderInv
<1>5. CASE Clean
  <2>1. \A i \in 1 .. step : disk'[Files[i]] = Missing
    BY <1>5, FilePlaces DEF Clean, OrderInv, TypeOK, Index
  <2>2. CASE step < Len(Files)
    <3>1. pc' = "cleaning" /\ step' = step + 1
      BY <1>5, <2>2 DEF Clean, Again
    <3> QED
      BY <2>1, <3>1, FilePlaces DEF OrderInv, LibrariesFirst, TypeOK, Index, InMemory
  <2>3. CASE ~(step < Len(Files))
    <3>1. pc' = "loading" /\ step = Len(Files)
      BY <1>5, <2>3, FilePlaces DEF Clean, Again, TypeOK, Index
    <3>2. \A i \in Index : disk'[Files[i]] \notin Data
      BY <2>1, <3>1, Bounds DEF Index
    <3>3. \A i \in Index : Loaded(disk[Files[i]])'.gen = 0
      BY <3>2 DEF Loaded
    <3> QED
      BY <3>1, <3>3 DEF OrderInv, LibrariesFirst, Index, InMemory
  <2> QED
    BY <2>2, <2>3
<1>6. CASE Load
  <2>1. \A i \in Index : memory'[Files[i]] = Loaded(disk[Files[i]])
    BY <1>6, FilePlaces DEF Load
  <2>2. UNCHANGED <<installed, disk, failed, interrupted>> /\ pc' = "open" /\ pc = "loading"
    BY <1>6 DEF Load
  <2>3. failed = {} /\ ~interrupted =>
            \A i, j \in Index : i < j => Loaded(disk[Files[i]]).gen >= Loaded(disk[Files[j]]).gen
    BY <2>2 DEF OrderInv, LibrariesFirst, Index
  <2>4. \A i \in Index : /\ Loaded(disk[Files[i]])'.gen = Loaded(disk[Files[i]]).gen
                        /\ Loaded(disk[Files[i]]).gen \in Nat
    BY <2>2, GenKept, GenOfFile, FilePlaces
  <2>5. LibrariesFirst'
    BY <2>2, LibrariesKept
  <2> QED
    BY <2>1, <2>2, <2>3, <2>4, <2>5 DEF OrderInv
<1>7. CASE Learn
  <2>1. UNCHANGED <<disk, failed, interrupted, pc>> /\ pc = "open" /\ pc \in InMemory
    BY <1>7 DEF Learn, InMemory
  <2>2. \A f \in File : memory'[f].gen = memory[f].gen + 1
    BY <1>7, <2>1 DEF Learn, Data, TypeOK
  <2>3. \A i \in Index : /\ memory'[Files[i]].gen = memory[Files[i]].gen + 1
                        /\ memory[Files[i]].gen \in Nat
                        /\ Loaded(disk[Files[i]])'.gen = Loaded(disk[Files[i]]).gen
                        /\ Loaded(disk[Files[i]]).gen \in Nat
    BY <2>1, <2>2, GenKept, GenOfFile, GenInMemory, FilePlaces
  <2>4. LibrariesFirst'
    BY <2>1, LibrariesKept
  <2> QED
    BY <2>1, <2>3, <2>4 DEF OrderInv
<1>8. CASE Rename \/ ZhuyinRename
  <2>1. UNCHANGED <<memory, failed, interrupted, installed>> /\ pc' \in InMemory
        /\ pc \in InMemory /\ pc # "cleaning" /\ pc' # "cleaning"
    BY <1>8 DEF Rename, ZhuyinRename, RenameFile, Again, InMemory
  <2> SUFFICES ASSUME failed = {}, ~interrupted
               PROVE  /\ \A i, j \in Index : i < j =>
                            Loaded(disk[Files[i]])'.gen >= Loaded(disk[Files[j]])'.gen
                      /\ \A i \in Index : memory[Files[i]].gen >= Loaded(disk[Files[i]])'.gen
    BY <2>1 DEF OrderInv, LibrariesFirst, Index
  <2> DEFINE mem(i) == memory[Files[i]].gen
             old(i) == Loaded(disk[Files[i]]).gen
             new(i) == Loaded(disk[Files[i]])'.gen
  <2>2. \A i \in Index : mem(i) \in Nat /\ old(i) \in Nat
    BY <2>1, GenInMemory, GenOfFile, FilePlaces
  <2>3. \A i \in Index : mem(i) >= old(i)
    BY <2>1 DEF OrderInv
  <2>4. \A i, j \in Index : i < j => mem(i) >= mem(j) /\ old(i) >= old(j)
    BY <2>1 DEF OrderInv, LibrariesFirst, Index
  <2>5. ASSUME NEW i \in 1 .. step PROVE i \in Index /\ new(i) = mem(i)
    <3>1. i \in Index /\ step \in Index
      BY FilePlaces DEF TypeOK, Index
    <3>2. disk'[Files[i]] = memory[Files[i]]
      BY <1>8, <3>1, Renamed DEF Done, Index
    <3>3. memory[Files[i]] \in Data
      BY <2>1, <3>1, FilePlaces DEF TypeOK
    <3> QED
      BY <3>1, <3>2, <3>3 DEF Loaded
  <2>6. ASSUME NEW i \in Index, i > step PROVE new(i) = old(i)
    <3>1. disk'[Files[i]] = disk[Files[i]]
      BY <1>8, <2>6, Renamed DEF TypeOK, Index
    <3> QED
      BY <3>1, <2>1 DEF Loaded
  <2>7. step \in Index /\ Len(Files) \in Nat
    BY FilePlaces DEF TypeOK
  <2> HIDE DEF mem, old, new
  <2>8. \A i \in Index : new(i) \in Nat /\ mem(i) >= new(i)
    BY <2>2, <2>3, <2>5, <2>6, <2>7 DEF Index
  <2>9. \A i, j \in Index : i < j => new(i) >= new(j)
    BY <2>2, <2>3, <2>4, <2>5, <2>6, <2>7 DEF Index
  <2> QED
    BY <2>8, <2>9 DEF mem, new
<1>9. CASE UNCHANGED vars
  <2>1. \A f \in File : Loaded(disk[f])'.gen = Loaded(disk[f]).gen
    BY <1>9, GenKept DEF vars
  <2>2. UNCHANGED <<pc, step, disk, memory, failed, interrupted>>
    BY <1>9 DEF vars
  <2>3. LibrariesFirst'
    BY <2>1, <2>2, FilePlaces DEF OrderInv, LibrariesFirst, Index
  <2>4. \A i \in Index : Loaded(disk[Files[i]])'.gen = Loaded(disk[Files[i]]).gen
    BY <2>1, FilePlaces
  <2>5. pc' \in InMemory /\ failed' = {} /\ ~interrupted' =>
            \A i \in Index : memory[Files[i]]'.gen >= Loaded(disk[Files[i]])'.gen
    BY <2>2, <2>4 DEF OrderInv
  <2> QED
    BY <2>2, <2>3, <2>5 DEF OrderInv
<1> QED
  BY <1>1, <1>2, <1>3, <1>4, <1>5, <1>6, <1>7, <1>8, <1>9 DEF Next

\* A crash between two renames leaves a library newer than the tables that name its
\* phrases, never older: files are renamed in the order of Files, and all that a context
\* holds was read from files in that order.
THEOREM LibrariesComeFirst == Spec => []LibrariesFirst
<1>1. Init => WritesInv /\ OrderInv
  <2>1. Init => WritesInv
    BY Bounds DEF Init, WritesInv, FilesWhole, Empty
  <2>2. Init => \A i \in Index : Loaded(disk[Files[i]]).gen = 0
    BY FilePlaces, Bounds DEF Init, Empty, Loaded
  <2>3. Init => OrderInv
    BY <2>2 DEF Init, OrderInv, LibrariesFirst, Index, InMemory
  <2> QED
    BY <2>1, <2>3
<1>2. OrderInv => LibrariesFirst
  BY DEF OrderInv
<1> QED
  BY <1>1, <1>2, OrderStep, WritesStep, Typed, PTL DEF Spec
=============================================================================
