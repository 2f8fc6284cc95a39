------------------------------ MODULE FileTable ------------------------------
(***************************************************************************)
(* internal/table/file.go: a table read from a file that others edit, and  *)
(* the goroutine that reads it again.  The file's lines are a version      *)
(* number; a reader that overlaps a writer gets lines of no version.       *)
(***************************************************************************)
EXTENDS Naturals

CONSTANT
    MaxWrites    \* bound on changes to the file

VARIABLES
    file,      \* the file: there, its inode, version, whole or being written,
               \*   modification time and whether that is recent
    table,     \* m: the version served, whole or not
    stamp,     \* mStamp, 0 before the first reload
    reloader,  \* the goroutine: where it is, info.ModTime, what it read
    writes     \* changes made to the file

tableVars == <<file, table, stamp, reloader, writes>>

Empty == [ver |-> 0, whole |-> TRUE]
Idle == [at |-> "select", info |-> 0, part |-> Empty, ino |-> 0]
Content == [ver |-> file.ver, whole |-> file.whole]

(* Before NewFile; the file may be there, and someone may be writing it. *)
TableInit ==
    /\ file \in {[there |-> t, ino |-> 1, ver |-> 1, whole |-> w, mtime |-> 1, fresh |-> TRUE] : t, w \in BOOLEAN}
    /\ file.there \/ file.whole
    /\ table = Empty
    /\ stamp = 0
    /\ reloader = [Idle EXCEPT !.at = "none"]
    /\ writes = 0

(* Init's read: torn lines fail or are taken, a missing file is ignored. *)
ReadAtInit ==
    /\ table' = IF file.there THEN Content ELSE Empty
    /\ reloader' = Idle
    /\ UNCHANGED <<file, stamp, writes>>

------------------------------------------------------------------------------
(* reloader and reload *)

Go(at) == reloader' = [reloader EXCEPT !.at = at]

Tick ==
    /\ reloader.at = "select"
    /\ Go("stat")
    /\ UNCHANGED <<file, table, stamp, writes>>

(* <-f.forceReload, with the goroutine that runs the hook. *)
TakeReload ==
    /\ reloader.at = "select"
    /\ Go("stat")
    /\ UNCHANGED <<file, table, stamp, writes>>

Unneeded == file.mtime < stamp \/ file.fresh

StatKeeps ==
    /\ reloader.at = "stat"
    /\ IF ~file.there \/ Unneeded THEN Go("select")
       ELSE reloader' = [reloader EXCEPT !.at = "open", !.info = file.mtime]
    /\ UNCHANGED <<file, table, stamp, writes>>
Stat ==
    /\ reloader.at = "stat"
    /\ \/ /\ ~file.there
          /\ table' = Empty
          /\ Go("select")
       \/ /\ file.there
          /\ IF Unneeded THEN Go("select")
             ELSE reloader' = [reloader EXCEPT !.at = "open", !.info = file.mtime]
          /\ UNCHANGED table
    /\ UNCHANGED <<file, stamp, writes>>

(* Stat fails with something else than "not found": the nil info is used,   *)
(* the goroutine panics, and recovers to its end.                           *)
StatFails ==
    /\ reloader.at = "stat"
    /\ Go("dead")
    /\ UNCHANGED <<file, table, stamp, writes>>

Open ==
    /\ reloader.at = "open"
    /\ IF file.there
       THEN reloader' = [reloader EXCEPT !.at = "read", !.part = Content, !.ino = file.ino]
       ELSE Go("select")
    /\ UNCHANGED <<file, table, stamp, writes>>

(* The rest of the lines: those of the same version, unless somebody wrote  *)
(* to the file that is open.  Lines of no version may be refused.           *)
ReadRest ==
    /\ reloader.at = "read"
    /\ LET same == file.ino # reloader.ino \/ Content = reloader.part
           got == [reloader.part EXCEPT !.whole = @ /\ same]
       IN  \/ reloader' = [reloader EXCEPT !.at = "stat2", !.part = got]
           \/ ~got.whole /\ Go("select")
    /\ UNCHANGED <<file, table, stamp, writes>>

StatOnce ==
    /\ reloader.at = "stat2"
    /\ table' = reloader.part /\ stamp' = reloader.info
    /\ Go("select")
    /\ UNCHANGED <<file, writes>>
StatAgain ==
    /\ reloader.at = "stat2"
    /\ IF file.there /\ file.mtime = reloader.info
       THEN table' = reloader.part /\ stamp' = reloader.info
       ELSE UNCHANGED <<table, stamp>>
    /\ Go("select")
    /\ UNCHANGED <<file, writes>>

(* The two halves of the handshake of Close. *)
StopAtOnce ==
    /\ reloader.at = "select"
    /\ Go("ended")
    /\ UNCHANGED <<file, table, stamp, writes>>
TakeStop ==
    /\ reloader.at = "select"
    /\ Go("stopping")
    /\ UNCHANGED <<file, table, stamp, writes>>
AckStop ==
    /\ reloader.at = "stopping"
    /\ Go("ended")
    /\ UNCHANGED <<file, table, stamp, writes>>

ReloadStep == Stat \/ Open \/ ReadRest \/ StatAgain

------------------------------------------------------------------------------
(* The people who edit the file *)

Alive == reloader.at \notin {"none", "dead", "ended"}
Change(f) ==
    /\ Alive
    /\ writes < MaxWrites
    /\ writes' = writes + 1
    /\ file' = f
    /\ UNCHANGED <<table, stamp, reloader>>

Touched == [file EXCEPT !.there = TRUE, !.mtime = 2 * writes + 3, !.fresh = TRUE]
BeginWrite == file.there /\ file.whole /\ Change([Touched EXCEPT !.ver = writes + 2, !.whole = FALSE])
Replace == Change([Touched EXCEPT !.ino = @ + 1, !.ver = writes + 2, !.whole = TRUE])
RemoveFile == file.there /\ file.whole /\ Change([file EXCEPT !.there = FALSE])
(* The new file has an older modification time. *)
Restore == Change([Touched EXCEPT !.ino = @ + 1, !.ver = writes + 2, !.whole = TRUE, !.mtime = 0, !.fresh = FALSE])

(* The writer gets done before the file stops being recent. *)
EndWrite ==
    /\ Alive
    /\ ~file.whole
    /\ file' = [file EXCEPT !.whole = TRUE, !.mtime = @ + 1, !.fresh = TRUE]
    /\ UNCHANGED <<table, stamp, reloader, writes>>

(* Half a reload interval without a change. *)
Settle ==
    /\ Alive
    /\ file.there /\ file.whole /\ file.fresh
    /\ file' = [file EXCEPT !.fresh = FALSE]
    /\ UNCHANGED <<table, stamp, reloader, writes>>

Edit == BeginWrite \/ Replace \/ RemoveFile \/ EndWrite

------------------------------------------------------------------------------
(* What reload has put into the table is one version of the file, never the *)
(* lines of a file caught half written: the second Stat and the age of the  *)
(* file keep them out (file.go:150 and 173).                                *)
TableWhole == stamp > 0 => table.whole

(* The table of a file that is no longer edited. *)
Served == table = IF file.there THEN Content ELSE Empty
==============================================================================
