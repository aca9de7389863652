----------------------------- MODULE UserFiles -----------------------------
(***************************************************************************)
(* The files of a user's directory through the life of a context:          *)
(* pinyin_init with check_format, pinyin_save with _write_files and        *)
(* _rename_files, pinyin_fini, their zhuyin counterparts, and a process    *)
(* that may die between any two of their steps (src/pinyin.cpp,            *)
(* src/zhuyin.cpp, src/storage/table_info.cpp).                            *)
(*                                                                         *)
(* A data file (a phrase library, the pinyin table, the phrase table, the  *)
(* bigram) is written next to its place and renamed; user.conf, with the   *)
(* version of the data and the open counter, is written in its place.      *)
(* What learning adds to a file is its generation.  A write of a data file *)
(* may fail and leave the file cut short, which loading notices (checksum, *)
(* database format) and takes for a missing file.                          *)
(***************************************************************************)
EXTENDS Naturals, Sequences, Functions

CONSTANTS
    Files,          \* the data files in the order they are written
    Limit,          \* OPEN_COUNTER_LIMIT
    MaxVersion,     \* the system files are upgraded up to this version
    MaxGen,         \* bounds the learning
    Missing, Cut    \* no file, a file cut short

File == Range(Files)
Version == 1 .. MaxVersion
Data == [version : Version, gen : 0 .. MaxGen]
Conf == [version : Version, counter : 0 .. Limit + 1]

ASSUME UserFilesAssumption ==
    /\ Files \in Seq(File) /\ Len(Files) > 0
    /\ \A i, j \in 1 .. Len(Files) : Files[i] = Files[j] => i = j
    /\ Limit \in Nat /\ MaxVersion \in Nat \ {0} /\ MaxGen \in Nat
    /\ Missing \notin Data \cup Conf /\ Cut \notin Data \cup Conf /\ Missing # Cut

VARIABLES
    library,        \* "pinyin" or "zhuyin": which library the program uses
    installed,      \* the version of the system files
    conf,           \* user.conf, Missing or Cut
    disk,           \* the data files
    tmp,            \* their .tmp files
    pc,             \* where the context is
    step,           \* the index of the next file in a loop
    memory,         \* what the context holds for each file
    counter,        \* m_open_counter of the context's table info
    modified,       \* context->m_modified
    crashes,        \* history: crashes the counter should know of, up to Limit + 1
    upgraded,       \* history: an upgrade since user.conf was written
    saved,          \* history: what the last finished save held
    failed,         \* history: files of which a write failed
    interrupted     \* history: a removal of the files was cut off

files == <<conf, disk, tmp>>
context == <<pc, step, memory, counter, modified>>
history == <<crashes, upgraded, saved, failed, interrupted>>
system == <<library, installed>>
vars == <<system, files, context, history>>

---------------------------------------------------------------------------
(* UserTableInfo::is_conform, on what UserTableInfo::load made of the file *)
IsConform ==
    /\ conf \notin {Missing, Cut}
    /\ conf.version = installed
    /\ conf.counter <= Limit

(* UserTableInfo::get_open_counter *)
OpenCounter(n) == IF n > Limit THEN 0 ELSE n
LoadedCounter == IF conf \in {Missing, Cut} THEN 0 ELSE OpenCounter(conf.counter)

Empty == [f \in File |-> Missing]

(* A file that is missing or cut counts as one without data.               *)
Loaded(d) == IF d \in Data THEN d ELSE [version |-> installed, gen |-> 0]

(* The loops over the files: again for the next one, or on to what follows.*)
Again(same, after) ==
    IF step < Len(Files) THEN step' = step + 1 /\ pc' = same
    ELSE step' = 1 /\ pc' = after

---------------------------------------------------------------------------
Init ==
    /\ library \in {"pinyin", "zhuyin"}
    /\ installed = 1
    /\ conf = Missing
    /\ disk = Empty /\ tmp = Empty
    /\ pc = "closed" /\ step = 1
    /\ memory = Empty
    /\ counter = 0 /\ modified = FALSE
    /\ crashes = 0 /\ upgraded = FALSE
    /\ saved = Empty /\ failed = {} /\ interrupted = FALSE

---------------------------------------------------------------------------
(* pinyin_init.  check_format reads user.conf and opens it for writing,    *)
(* which empties it.                                                       *)
Open ==
    /\ library = "pinyin" /\ pc = "closed"
    /\ pc' = IF IsConform THEN "opening" ELSE "renewing"
    /\ counter' = LoadedCounter + 1
    /\ conf' = Cut
    /\ UNCHANGED <<system, disk, tmp, step, memory, modified, history>>

WrittenConf == [version |-> installed, counter |-> counter]

(* user.conf is written, conforming now; only then are the files of        *)
(* another version removed.  A counter that starts anew forgets the        *)
(* crashes.                                                                *)
OpenDone ==
    /\ pc \in {"opening", "renewing"}
    /\ conf' = WrittenConf /\ upgraded' = FALSE
    /\ pc' = IF pc = "opening" THEN "loading" ELSE "cleaning"
    /\ saved' = IF pc = "opening" THEN saved ELSE Empty
    /\ crashes' = IF pc = "renewing" /\ counter = 1 THEN 0 ELSE crashes
    /\ UNCHANGED <<system, disk, tmp, step, memory, counter, modified, failed, interrupted>>

(* zhuyin_init.  Its check_format only reads user.conf, and counts nothing. *)
ZhuyinOpen ==
    /\ library = "zhuyin" /\ pc = "closed"
    /\ pc' = IF IsConform THEN "loading" ELSE "cleaning"
    /\ saved' = IF IsConform THEN saved ELSE Empty
    /\ UNCHANGED <<system, files, step, memory, counter, modified,
                   crashes, upgraded, failed, interrupted>>

(* _clean_user_files and the three unlinks after it, file by file          *)
Clean ==
    /\ pc = "cleaning"
    /\ disk' = [disk EXCEPT ![Files[step]] = Missing]
    /\ Again("cleaning", "loading")
    /\ interrupted' = (interrupted /\ pc' = "cleaning")
    /\ UNCHANGED <<system, conf, tmp, memory, counter, modified,
                   crashes, upgraded, saved, failed>>

(* The rest of pinyin_init loads the data files.                           *)
Load ==
    /\ pc = "loading"
    /\ pc' = "open"
    /\ memory' = [f \in File |-> Loaded(disk[f])]
    /\ modified' = FALSE
    /\ UNCHANGED <<system, files, step, counter, history>>

(* Whatever changes the context's data: every file has something new.      *)
Learn ==
    /\ pc = "open"
    /\ \A f \in File : memory[f].gen < MaxGen
    /\ memory' = [f \in File |-> [memory[f] EXCEPT !.gen = @ + 1]]
    /\ modified' = TRUE
    /\ UNCHANGED <<system, files, pc, step, counter, history>>

---------------------------------------------------------------------------
(* pinyin_save, on a modified context                                      *)
Save ==
    /\ pc = "open" /\ modified
    /\ pc' = "writing"
    /\ UNCHANGED <<system, files, step, memory, counter, modified, history>>

(* Mutant of BeginWrite: the file itself is opened.                        *)
BeginWriteInPlace ==
    /\ pc = "writing"
    /\ disk' = [disk EXCEPT ![Files[step]] = Cut]
    /\ pc' = "filling"
    /\ UNCHANGED <<system, conf, tmp, step, memory, counter, modified, history>>

(* _write_files: opening a .tmp file empties it ...                        *)
BeginWrite ==
    /\ pc = "writing"
    /\ tmp' = [tmp EXCEPT ![Files[step]] = Cut]
    /\ pc' = "filling"
    /\ UNCHANGED <<system, conf, disk, step, memory, counter, modified, history>>

(* ... and the writes fill it, or fail, which nothing looks at.            *)
Written(ok) ==
    LET f == Files[step] IN
    /\ pc = "filling"
    /\ tmp' = [tmp EXCEPT ![f] = IF ok THEN memory[f] ELSE Cut]
    /\ failed' = IF ok THEN failed ELSE failed \cup {f}
    /\ UNCHANGED <<system, conf, disk, memory, counter, modified,
                   crashes, upgraded, saved, interrupted>>

EndWrite(ok) ==
    /\ library = "pinyin"
    /\ Written(ok)
    /\ Again("writing", "renaming")

(* zhuyin_save renames each file as soon as it is written.                 *)
ZhuyinEndWrite(ok) ==
    /\ library = "zhuyin"
    /\ Written(ok)
    /\ pc' = "renaming" /\ UNCHANGED step

RenameFile(f) ==
    /\ disk' = [disk EXCEPT ![f] = tmp[f]]
    /\ tmp' = [tmp EXCEPT ![f] = Missing]
    /\ UNCHANGED <<system, conf, memory, counter, modified, history>>

(* Mutants of Rename: the last file is left out; the order is reversed.    *)
RenameShort ==
    /\ library = "pinyin" /\ pc = "renaming"
    /\ RenameFile(Files[step])
    /\ IF step + 1 < Len(Files) THEN step' = step + 1 /\ UNCHANGED pc
       ELSE step' = 1 /\ pc' = "marking"

RenameBackwards ==
    /\ library = "pinyin" /\ pc = "renaming"
    /\ RenameFile(Files[Len(Files) + 1 - step])
    /\ Again("renaming", "marking")

(* _rename_files, file by file                                             *)
Rename ==
    /\ library = "pinyin" /\ pc = "renaming"
    /\ RenameFile(Files[step])
    /\ Again("renaming", "marking")

ZhuyinRename ==
    /\ library = "zhuyin" /\ pc = "renaming"
    /\ RenameFile(Files[step])
    /\ Again("writing", "marking")

(* mark_version, called by pinyin_save and by pinyin_fini, empties the     *)
(* file and writes it; zhuyin_save calls its own, with a counter of 0.     *)
BeginMark ==
    /\ pc = "marking"
    /\ conf' = Cut /\ pc' = "marked"
    /\ UNCHANGED <<system, disk, tmp, step, memory, counter, modified, history>>

(* pinyin_save or zhuyin_save returns TRUE.                                               *)
SaveReturns ==
    /\ pc = "marked"
    /\ conf' = WrittenConf
    /\ pc' = "open" /\ modified' = FALSE
    /\ saved' = memory /\ upgraded' = FALSE
    /\ UNCHANGED <<system, disk, tmp, step, memory, counter,
                   crashes, failed, interrupted>>

(* Mutant of Close: the open counter is not decreased.                     *)
CloseUncounted ==
    /\ library = "pinyin" /\ pc = "open"
    /\ crashes' = IF crashes >= Limit THEN 0 ELSE crashes
    /\ conf' = Cut /\ pc' = "closing"
    /\ UNCHANGED <<system, disk, tmp, step, memory, counter, modified,
                   upgraded, saved, failed, interrupted>>

(* pinyin_fini: one open less, and none when the limit was passed.         *)
Close ==
    LET opens == OpenCounter(counter) IN
    /\ library = "pinyin" /\ pc = "open"
    /\ counter' = IF opens > 1 THEN opens - 1 ELSE 0
    /\ crashes' = IF crashes >= Limit THEN 0 ELSE crashes
    /\ conf' = Cut /\ pc' = "closing"
    /\ UNCHANGED <<system, disk, tmp, step, memory, modified,
                   upgraded, saved, failed, interrupted>>

Closed == pc' = "closed" /\ step' = 1 /\ memory' = Empty /\ counter' = 0 /\ modified' = FALSE

CloseReturns ==
    /\ pc = "closing"
    /\ conf' = WrittenConf
    /\ Closed
    /\ UNCHANGED <<system, disk, tmp, history>>

(* zhuyin_fini saves nothing.                                              *)
ZhuyinClose ==
    /\ library = "zhuyin" /\ pc = "open"
    /\ Closed
    /\ UNCHANGED <<system, files, history>>

(* The process dies.                                                       *)
Crash ==
    /\ pc # "closed"
    /\ Closed
    /\ crashes' = IF crashes > Limit THEN crashes ELSE crashes + 1
    /\ interrupted' = (interrupted \/ pc = "cleaning")
    /\ UNCHANGED <<system, files, upgraded, saved, failed>>

(* The system files are replaced while no context is open.                 *)
Upgrade ==
    /\ pc = "closed" /\ installed < MaxVersion
    /\ installed' = installed + 1
    /\ upgraded' = TRUE
    /\ UNCHANGED <<library, files, context, crashes, saved, failed, interrupted>>

Next ==
    \/ Open \/ OpenDone \/ Clean \/ Load
    \/ Learn
    \/ Save \/ BeginWrite \/ (\E ok \in BOOLEAN : EndWrite(ok)) \/ Rename
    \/ BeginMark \/ SaveReturns
    \/ Close \/ CloseReturns
    \/ ZhuyinOpen \/ (\E ok \in BOOLEAN : ZhuyinEndWrite(ok)) \/ ZhuyinRename
    \/ ZhuyinClose
    \/ Crash \/ Upgrade

Spec == Init /\ [][Next]_vars

---------------------------------------------------------------------------
(* Properties.                                                             *)

(* Wherever the process dies, a data file in its place is never cut short  *)
(* unless one of its own writes failed: .tmp files and renames.            *)
FilesWhole == \A f \in File : disk[f] = Cut => f \in failed

(* What a finished save held stays on disk through every later crash, save *)
(* and reopening, until an opening finds the files not conforming; a later *)
(* save that is cut off may leave something newer, never something older.  *)
SavedSurvives ==
    \A f \in File \ failed :
        saved[f] # Missing => disk[f] \in Data /\ disk[f].gen >= saved[f].gen

(* The files are renamed in the order they are written: a crash between    *)
(* two renames may leave a phrase library newer than the tables and the    *)
(* bigram that name its phrases, never older.                              *)
LibrariesFirst ==
    failed = {} /\ ~interrupted /\ pc # "cleaning" =>
        \A i, j \in 1 .. Len(Files) :
            i < j => Loaded(disk[Files[i]]).gen >= Loaded(disk[Files[j]]).gen

(* The open counter counts the crashes: the user's files are found not     *)
(* conforming exactly when there is no whole user.conf, the version of the *)
(* data changed since it was written, or more than Limit sessions of the   *)
(* pinyin library crashed.                                                 *)
CleanedForAReason ==
    [][pc = "closed" /\ pc' # "closed" =>
          (pc' \in {"opening", "loading"} <=>
                 /\ conf \notin {Missing, Cut}
                 /\ ~upgraded
                 /\ library = "pinyin" => crashes <= Limit)]_vars
=============================================================================
