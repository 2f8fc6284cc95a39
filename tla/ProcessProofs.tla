---------------------------- MODULE ProcessProofs ----------------------------
(***************************************************************************)
(* Proofs about the server process, for any parser, configurations, module *)
(* types, addresses and signals: the table served is one version of its    *)
(* file, and modules that do not use each other in a circle are closed     *)
(* after their users.                                                      *)
(***************************************************************************)
EXTENDS Process, SequenceTheorems, WellFoundedInduction, TLAPS

(* Values the provers are to take as sequences and frames. *)
IsSeq(s) == s \in Seq({s[i] : i \in DOMAIN s})
IsFrame(f) ==
    f = [obj |-> f.obj, sort |-> f.sort, kids |-> f.kids, at |-> f.at,
         vals |-> f.vals, unknown |-> f.unknown, piped |-> f.piped]

(* A sequence is a function on an interval. *)
LEMMA SeqFacts ==
  ASSUME NEW s, IsSeq(s)
  PROVE  /\ Len(s) \in Nat /\ DOMAIN s = 1 .. Len(s)
         /\ s # <<>> => Len(s) >= 1
         /\ s = <<>> => Len(s) = 0
<1>1. PICK S : s \in Seq(S)
  BY DEF IsSeq
<1> QED  BY <1>1

LEMMA SeqIs ==
  ASSUME NEW S, NEW s \in Seq(S)
  PROVE  IsSeq(s)
<1>1. DOMAIN s = 1 .. Len(s) /\ Len(s) \in Nat
  OBVIOUS
<1>2. s \in [1 .. Len(s) -> {s[i] : i \in DOMAIN s}]
  BY <1>1
<1> QED  BY <1>1, <1>2 DEF IsSeq

Pushed(s, e, t) ==
    /\ IsSeq(t) /\ Len(t) = Len(s) + 1
    /\ \A i \in 1 .. Len(s) : t[i] = s[i]
    /\ t[Len(s) + 1] = e
LEMMA SeqPush ==
  ASSUME NEW s, IsSeq(s), NEW e, NEW t, t = Append(s, e)
  PROVE  Pushed(s, e, t)
<1>1. PICK S : s \in Seq(S)
  BY DEF IsSeq
<1>2. PICK R : R = S \cup {e}
  OBVIOUS
<1>3. s \in Seq(R) /\ e \in R
  BY <1>1, <1>2
<1>4. t \in Seq(R)
  BY <1>3
<1>5. IsSeq(t)
  BY <1>4, SeqIs
<1> QED  BY <1>3, <1>4, <1>5 DEF Pushed

LEMMA SeqPop ==
  ASSUME NEW s, IsSeq(s), s # <<>>, NEW t, t = SubSeq(s, 1, Len(s) - 1)
  PROVE  /\ IsSeq(t) /\ Len(t) = Len(s) - 1 /\ DOMAIN t = 1 .. Len(s) - 1
         /\ \A i \in 1 .. Len(s) - 1 : t[i] = s[i]
<1>1. PICK S : s \in Seq(S)
  BY DEF IsSeq
<1>2. Len(s) \in Nat /\ Len(s) >= 1
  BY SeqFacts
<1>3. PICK n : n = Len(s) - 1
  OBVIOUS
<1>6. n \in Int /\ 1 \in Int /\ \A i \in 1 .. n : s[i] \in S
  BY <1>1, <1>2, <1>3
<1>7. /\ SubSeq(s, 1, n) \in Seq(S) /\ Len(SubSeq(s, 1, n)) = (IF 1 <= n THEN n - 1 + 1 ELSE 0)
      /\ \A i \in 1 .. n - 1 + 1 : SubSeq(s, 1, n)[i] = s[1 + i - 1]
  BY <1>6, SubSeqProperties
<1>8. t = SubSeq(s, 1, n)
  BY <1>3
<1>9. t \in Seq(S) /\ Len(t) = n
  BY <1>2, <1>3, <1>7, <1>8
<1>10. ASSUME NEW i \in 1 .. n PROVE t[i] = s[i]
  <2>1. i \in 1 .. n - 1 + 1 /\ 1 + i - 1 = i
    BY <1>2, <1>3
  <2> QED  BY <1>7, <1>8, <2>1
<1>4. t \in Seq(S) /\ Len(t) = Len(s) - 1 /\ \A i \in 1 .. Len(s) - 1 : t[i] = s[i]
  BY <1>3, <1>9, <1>10
<1>5. IsSeq(t)
  BY <1>4, SeqIs
<1> QED  BY <1>2, <1>4, <1>5

------------------------------------------------------------------------------
(* The file table.  Until the server runs, and in a tool, the file is       *)
(* recent, so the reloader leaves it alone; afterwards no module reads it   *)
(* at its Init any more.                                                    *)

StartPcs == {"read", "register", "start", "init"}
RunPcs == {"running", "reloading", "stopping", "closing", "waiting", "exited"}

PhaseOK ==
    /\ pc \in {"start", "running", "reloading"} => mode = "run"
    /\ pc = "tool" => mode # "run"
    /\ pc \in StartPcs \cup RunPcs \cup {"tool", "failed"}

FileType == [there : BOOLEAN, ino : Nat, ver : Nat, whole : BOOLEAN, mtime : Nat, fresh : BOOLEAN]
PartType == [ver : Nat, whole : BOOLEAN]
Places == {"none", "select", "stat", "open", "read", "stat2", "stopping", "ended"}
ReloaderType == [at : Places, info : Nat, part : PartType, ino : Nat]
TableTypes ==
    /\ file \in FileType
    /\ table \in PartType
    /\ stamp \in Nat
    /\ reloader \in ReloaderType
    /\ writes \in Nat

(* The clock of the model: a change gets a new modification time, and a     *)
(* file is recent while it is written.                                      *)
FileOK ==
    /\ ~file.whole => file.fresh
    /\ 1 <= file.mtime /\ file.mtime <= 2 * writes + 2
    /\ ~file.whole => file.mtime <= 2 * writes + 1

(* If the file has still the time the reloader saw, it is the one it saw,   *)
(* and what was read of it are lines of one version.                        *)
Reading == {"open", "read", "stat2"}
ReaderOK ==
    reloader.at \in Reading =>
        /\ reloader.info <= file.mtime
        /\ reloader.info = file.mtime =>
              /\ file.whole
              /\ reloader.at \in {"read", "stat2"} => reloader.part.whole
              /\ reloader.at = "read" => reloader.part = Content

Starting == mode # "run" \/ pc \in StartPcs
QuietTable ==
    Starting =>
        /\ file.fresh
        /\ stamp = 0
        /\ reloader.at \notin Reading

TableInv == TableTypes /\ FileOK /\ ReaderOK /\ TableWhole
TableRunInv == PhaseOK /\ TableInv /\ QuietTable

(* A step of the goroutine that only changes its place. *)
LEMMA PlaceStep ==
  ASSUME TableTypes, NEW at \in Places, Go(at)
  PROVE  /\ reloader'.at = at /\ reloader'.info = reloader.info
         /\ reloader'.part = reloader.part
         /\ reloader' \in ReloaderType
<1>1. reloader' = [reloader EXCEPT !.at = at]
  BY DEF Go
<1> QED  BY <1>1 DEF TableTypes, ReloaderType

(* The reloader outside a reload, and before it. *)
LEMMA PlaceKeeps ==
  ASSUME TableInv, NEW at \in Places, at \notin Reading, Go(at),
         UNCHANGED <<file, table, stamp, writes>>
  PROVE  TableInv' /\ reloader'.at \notin Reading
<1>1. reloader'.at = at /\ reloader' \in ReloaderType
  BY PlaceStep DEF TableInv
<1>2. TableTypes' /\ FileOK' /\ TableWhole'
  BY <1>1 DEF TableInv, TableTypes, FileOK, TableWhole
<1>3. ReaderOK'
  BY <1>1 DEF ReaderOK
<1> QED  BY <1>1, <1>2, <1>3 DEF TableInv

(* The first Stat: a file that is old enough is whole. *)
LEMMA StatKeeps1 ==
  ASSUME TableInv, Stat
  PROVE  TableInv' /\ (file.fresh => reloader'.at \notin Reading)
<1> USE DEF Stat
<1>1. file' = file /\ stamp' = stamp /\ writes' = writes
  OBVIOUS
<1>2. CASE Go("select")
  <2>1. reloader'.at = "select" /\ reloader' \in ReloaderType
    BY <1>2, PlaceStep DEF TableInv, Places
  <2>2. table' = Empty \/ table' = table
    OBVIOUS
  <2>3. Empty \in PartType /\ Empty.whole
    BY DEF Empty, PartType
  <2>4. TableTypes' /\ FileOK' /\ TableWhole'
    BY <1>1, <2>1, <2>2, <2>3 DEF TableInv, TableTypes, FileOK, TableWhole
  <2>5. ReaderOK' /\ reloader'.at \notin Reading
    BY <2>1 DEF ReaderOK, Reading
  <2> QED  BY <2>4, <2>5 DEF TableInv
<1>3. CASE ~Go("select")
  <2>1. ~Unneeded /\ table' = table
    BY <1>3
  <2>2. reloader' = [reloader EXCEPT !.at = "open", !.info = file.mtime]
    BY <1>3
  <2>3. /\ reloader'.at = "open" /\ reloader'.info = file.mtime
        /\ reloader' \in ReloaderType
    BY <2>2 DEF TableInv, TableTypes, FileType, ReloaderType, Places
  <2>4. ~file.fresh /\ file.whole
    BY <2>1 DEF Unneeded, TableInv, FileOK
  <2>5. TableTypes' /\ FileOK' /\ TableWhole'
    BY <1>1, <2>1, <2>3 DEF TableInv, TableTypes, FileOK, TableWhole
  <2>6. ReaderOK'
    BY <1>1, <2>3, <2>4 DEF ReaderOK, TableInv, TableTypes, FileType
  <2> QED  BY <2>4, <2>5, <2>6 DEF TableInv
<1> QED  BY <1>2, <1>3

(* Opening and reading: as long as the time is the one of the first Stat,   *)
(* the lines are those of one version.                                      *)
LEMMA OpenKeeps == TableInv /\ Open => TableInv'
<1> SUFFICES ASSUME TableInv, Open PROVE TableInv'
  OBVIOUS
<1>1. UNCHANGED <<file, table, stamp, writes>> /\ reloader.at = "open"
  BY DEF Open
<1>2. CASE ~file.there
  BY <1>1, <1>2, PlaceKeeps DEF Open, Reading, Places
<1>3. CASE file.there
  <2>1. reloader' = [reloader EXCEPT !.at = "read", !.part = Content, !.ino = file.ino]
    BY <1>3 DEF Open
  <2>2. Content \in PartType /\ Content.whole = file.whole
    BY DEF Content, PartType, TableInv, TableTypes, FileType
  <2>3. /\ reloader'.at = "read" /\ reloader'.info = reloader.info /\ reloader'.part = Content
        /\ reloader' \in ReloaderType
    BY <2>1, <2>2 DEF TableInv, TableTypes, FileType, ReloaderType, Places
  <2>4. TableTypes' /\ FileOK' /\ TableWhole' /\ Content' = Content
    BY <1>1, <2>3 DEF TableInv, TableTypes, FileOK, TableWhole, Content
  <2>5. ReaderOK'
    BY <1>1, <2>2, <2>3, <2>4 DEF ReaderOK, TableInv, Reading
  <2> QED  BY <2>4, <2>5 DEF TableInv
<1> QED  BY <1>2, <1>3

LEMMA ReadKeeps == TableInv /\ ReadRest => TableInv'
<1> SUFFICES ASSUME TableInv, ReadRest PROVE TableInv'
  OBVIOUS
<1>1. UNCHANGED <<file, table, stamp, writes>> /\ reloader.at = "read"
  BY DEF ReadRest
<1> DEFINE same == file.ino # reloader.ino \/ Content = reloader.part
<1> DEFINE got == [reloader.part EXCEPT !.whole = @ /\ same]
<1>2. CASE Go("select")
  BY <1>1, <1>2, PlaceKeeps DEF Reading, Places
<1>3. CASE reloader' = [reloader EXCEPT !.at = "stat2", !.part = got]
  <2>1. got \in PartType /\ got.whole = (reloader.part.whole /\ same)
    BY DEF TableInv, TableTypes, PartType, ReloaderType
  <2> HIDE DEF got
  <2>2. /\ reloader'.at = "stat2" /\ reloader'.info = reloader.info /\ reloader'.part = got
        /\ reloader' \in ReloaderType
    BY <1>3, <2>1 DEF TableInv, TableTypes, ReloaderType, Places
  <2>3. TableTypes' /\ FileOK' /\ TableWhole'
    BY <1>1, <2>2 DEF TableInv, TableTypes, FileOK, TableWhole
  <2>4. ReaderOK'
    BY <1>1, <2>1, <2>2 DEF ReaderOK, TableInv, Reading
  <2> QED  BY <2>3, <2>4 DEF TableInv
<1> QED  BY <1>2, <1>3 DEF ReadRest

(* The second Stat. *)
LEMMA StatAgainKeeps == TableInv /\ StatAgain => TableInv' /\ reloader'.at \notin Reading
<1> SUFFICES ASSUME TableInv, StatAgain PROVE TableInv' /\ reloader'.at \notin Reading
  OBVIOUS
<1>1. file' = file /\ writes' = writes /\ reloader.at = "stat2" /\ Go("select")
  BY DEF StatAgain
<1>2. /\ reloader'.at = "select"
      /\ reloader' \in ReloaderType
  BY <1>1, PlaceStep DEF TableInv, Places
<1>3. ReaderOK' /\ reloader'.at \notin Reading
  BY <1>2 DEF ReaderOK, Reading
<1>4. CASE file.mtime = reloader.info /\ table' = reloader.part /\ stamp' = reloader.info
  <2>1. reloader.part.whole
    BY <1>1, <1>4 DEF TableInv, ReaderOK, Reading
  <2>2. TableTypes' /\ FileOK' /\ TableWhole'
    BY <1>1, <1>2, <1>4, <2>1 DEF TableInv, TableTypes, FileOK, TableWhole, ReloaderType
  <2> QED  BY <1>3, <2>2 DEF TableInv
<1>5. CASE UNCHANGED <<table, stamp>>
  <2>1. TableTypes' /\ FileOK' /\ TableWhole'
    BY <1>1, <1>2, <1>5 DEF TableInv, TableTypes, FileOK, TableWhole
  <2> QED  BY <1>3, <2>1 DEF TableInv
<1> QED  BY <1>4, <1>5 DEF StatAgain

(* A change to the file: it gets a later time, so what the reloader read of *)
(* the old one is not used.                                                 *)
LEMMA TouchKeeps ==
  ASSUME TableInv, NEW f \in FileType, Change(f), f.mtime = 2 * writes + 3, f.fresh
  PROVE  TableInv'
<1>1. file' = f /\ writes' = writes + 1 /\ UNCHANGED <<table, stamp, reloader>>
  BY DEF Change
<1>2. TableTypes' /\ FileOK' /\ TableWhole'
  BY <1>1 DEF TableInv, TableTypes, FileOK, TableWhole, FileType
<1>3. ReaderOK'
  <2>1. reloader.info \in Nat /\ file.mtime \in Nat /\ file'.mtime = 2 * writes + 3
    BY <1>1 DEF TableInv, TableTypes, ReloaderType, FileType
  <2>2. file.mtime < file'.mtime
    BY <2>1 DEF TableInv, TableTypes, FileOK
  <2>3. reloader.at \in Reading => reloader.info <= file.mtime
    BY DEF TableInv, ReaderOK
  <2>6. file'.mtime \in Nat
    BY <2>1 DEF TableInv, TableTypes
  <2>4. ASSUME reloader.info <= file.mtime PROVE reloader.info <= file'.mtime /\ reloader.info # file'.mtime
    BY <2>1, <2>2, <2>4, <2>6
  <2>5. reloader.at \in Reading => reloader.info <= file'.mtime /\ reloader.info # file'.mtime
    BY <2>3, <2>4
  <2> QED  BY <1>1, <2>5 DEF ReaderOK
<1> QED  BY <1>2, <1>3 DEF TableInv

(* One field of the file changed. *)
LEMMA FileFlag ==
  ASSUME NEW f \in FileType, NEW g, NEW b \in BOOLEAN,
         g = [f EXCEPT !.there = b] \/ g = [f EXCEPT !.whole = b] \/ g = [f EXCEPT !.fresh = b]
  PROVE  g \in FileType /\ g.mtime = f.mtime
<1>1. CASE g = [f EXCEPT !.there = b]  BY <1>1 DEF FileType
<1>2. CASE g = [f EXCEPT !.whole = b]  BY <1>2 DEF FileType
<1>3. CASE g = [f EXCEPT !.fresh = b]  BY <1>3 DEF FileType
<1> QED  BY <1>1, <1>2, <1>3

LEMMA EditKeeps == TableInv /\ (Edit \/ Settle) => TableInv'
<1> SUFFICES ASSUME TableInv, Edit \/ Settle PROVE TableInv'
  OBVIOUS
<1>1. file \in FileType /\ writes \in Nat
  BY DEF TableInv, TableTypes
<1>2. Touched \in FileType /\ Touched.mtime = 2 * writes + 3 /\ Touched.fresh
  <2>1. PICK t : t = TRUE
    OBVIOUS
  <2>2. PICK m : m = 2 * writes + 3
    OBVIOUS
  <2>3. t \in BOOLEAN /\ m \in Nat
    BY <1>1, <2>1, <2>2
  <2>4. PICK f1 : f1 = [file EXCEPT !.there = t]
    OBVIOUS
  <2>5. PICK f2 : f2 = [f1 EXCEPT !.mtime = m]
    OBVIOUS
  <2>6. PICK f3 : f3 = [f2 EXCEPT !.fresh = t]
    OBVIOUS
  <2>7. f1 \in FileType
    BY <1>1, <2>3, <2>4, FileFlag
  <2>8. f2 \in FileType /\ f2.mtime = m
    BY <2>3, <2>5, <2>7 DEF FileType
  <2>9. f3 \in FileType /\ f3.mtime = m
    BY <2>3, <2>6, <2>8, FileFlag
  <2>11. f3.fresh = t
    BY <2>6, <2>8 DEF FileType
  <2>10. Touched = f3
    BY <2>1, <2>2, <2>4, <2>5, <2>6 DEF Touched
  <2> QED  BY <2>1, <2>2, <2>9, <2>10, <2>11
<1>3. CASE BeginWrite
  <2>1. PICK g : g = [Touched EXCEPT !.ver = writes + 2]
    OBVIOUS
  <2>2. PICK b : b = FALSE
    OBVIOUS
  <2>3. PICK f : f = [g EXCEPT !.whole = b]
    OBVIOUS
  <2>4. Change(f)
    BY <1>3, <2>1, <2>2, <2>3 DEF BeginWrite
  <2>5. g \in FileType /\ g.fresh /\ g.mtime = 2 * writes + 3
    BY <1>1, <1>2, <2>1 DEF FileType
  <2>6. b \in BOOLEAN
    BY <2>2
  <2>7. f \in FileType /\ f.mtime = 2 * writes + 3 /\ f.fresh
    BY <2>3, <2>5, <2>6 DEF FileType
  <2> QED  BY <2>4, <2>7, TouchKeeps
<1>4. CASE Replace
  <2>1. PICK h : h = [Touched EXCEPT !.ino = @ + 1]
    OBVIOUS
  <2>2. PICK g : g = [h EXCEPT !.ver = writes + 2]
    OBVIOUS
  <2>3. PICK b : b = TRUE
    OBVIOUS
  <2>4. PICK f : f = [g EXCEPT !.whole = b]
    OBVIOUS
  <2>5. Change(f)
    BY <1>4, <2>1, <2>2, <2>3, <2>4 DEF Replace
  <2>6. h \in FileType /\ h.fresh /\ h.mtime = 2 * writes + 3
    BY <1>1, <1>2, <2>1 DEF FileType
  <2>7. g \in FileType /\ g.fresh /\ g.mtime = 2 * writes + 3
    BY <1>1, <2>2, <2>6 DEF FileType
  <2>8. b \in BOOLEAN
    BY <2>3
  <2>9. f \in FileType /\ f.mtime = 2 * writes + 3 /\ f.fresh
    BY <2>4, <2>7, <2>8 DEF FileType
  <2> QED  BY <2>5, <2>9, TouchKeeps
<1>5. CASE RemoveFile
  <2>1. /\ file.whole /\ file' = [file EXCEPT !.there = FALSE] /\ writes' = writes + 1
        /\ UNCHANGED <<table, stamp, reloader>>
    BY <1>5 DEF RemoveFile, Change
  <2>2. /\ file' \in FileType /\ file'.whole = file.whole /\ file'.mtime = file.mtime
        /\ file'.ver = file.ver /\ file'.mtime \in Nat
    BY <1>1, <2>1 DEF FileType
  <2>3. TableTypes' /\ FileOK' /\ TableWhole'
    BY <1>1, <2>1, <2>2 DEF TableInv, TableTypes, FileOK, TableWhole
  <2>4. ReaderOK'
    BY <2>1, <2>2 DEF TableInv, ReaderOK, Content
  <2> QED  BY <2>3, <2>4 DEF TableInv
<1>6. CASE EndWrite
  <2>1. /\ ~file.whole /\ file' = [file EXCEPT !.whole = TRUE, !.mtime = @ + 1, !.fresh = TRUE]
        /\ UNCHANGED <<table, stamp, reloader, writes>>
    BY <1>6 DEF EndWrite
  <2>5. PICK b : b = TRUE
    OBVIOUS
  <2>6. PICK g : g = [file EXCEPT !.whole = b]
    OBVIOUS
  <2>7. PICK h : h = [g EXCEPT !.mtime = @ + 1]
    OBVIOUS
  <2>8. file' = [h EXCEPT !.fresh = b]
    BY <2>1, <2>5, <2>6, <2>7
  <2>9. b \in BOOLEAN
    BY <2>5
  <2>10. g \in FileType /\ g.whole = b /\ g.mtime = file.mtime /\ file.mtime \in Nat
    BY <1>1, <2>6, <2>9 DEF FileType
  <2>11. h \in FileType /\ h.whole = b /\ h.mtime = file.mtime + 1
    BY <2>7, <2>10 DEF FileType
  <2>12. file' \in FileType /\ file'.whole = b /\ file'.mtime = file.mtime + 1
    BY <2>8, <2>9, <2>11 DEF FileType
  <2>2. file' \in FileType /\ file'.whole /\ file'.mtime = file.mtime + 1 /\ file.mtime \in Nat
    BY <2>5, <2>10, <2>12
  <2>3. TableTypes' /\ FileOK' /\ TableWhole'
    BY <1>1, <2>1, <2>2 DEF TableInv, TableTypes, FileOK, TableWhole
  <2>4. ReaderOK'
    BY <2>1, <2>2 DEF TableInv, TableTypes, ReloaderType, ReaderOK
  <2> QED  BY <2>3, <2>4 DEF TableInv
<1>7. CASE Settle
  <2>1. /\ file.whole /\ file' = [file EXCEPT !.fresh = FALSE]
        /\ UNCHANGED <<table, stamp, reloader, writes>>
    BY <1>7 DEF Settle
  <2>2. /\ file' \in FileType /\ file'.whole = file.whole /\ file'.mtime = file.mtime
        /\ file'.ver = file.ver
    BY <1>1, <2>1 DEF FileType
  <2>3. TableTypes' /\ FileOK' /\ TableWhole'
    BY <1>1, <2>1, <2>2 DEF TableInv, TableTypes, FileOK, TableWhole
  <2>4. ReaderOK'
    BY <2>1, <2>2 DEF TableInv, ReaderOK, Content
  <2> QED  BY <2>3, <2>4 DEF TableInv
<1> QED  BY <1>3, <1>4, <1>5, <1>6, <1>7 DEF Edit

(* What Init reads may be torn; nothing was reloaded before. *)
LEMMA InitReadKeeps ==
  ASSUME TableInv, stamp = 0, ReadAtInit
  PROVE  TableInv' /\ reloader'.at \notin Reading /\ stamp' = 0 /\ file' = file
<1>1. Content \in PartType /\ Empty \in PartType /\ Idle \in ReloaderType /\ Idle.at = "select"
  BY DEF Content, Empty, Idle, PartType, TableInv, TableTypes, FileType, ReloaderType, Places
<1>2. table' \in PartType /\ reloader' = Idle /\ UNCHANGED <<file, stamp, writes>>
  BY <1>1 DEF ReadAtInit
<1>3. TableTypes' /\ FileOK' /\ TableWhole'
  BY <1>1, <1>2 DEF TableInv, TableTypes, FileOK, TableWhole
<1>4. ReaderOK' /\ reloader'.at \notin Reading
  BY <1>1, <1>2 DEF ReaderOK, Reading
<1> QED  BY <1>2, <1>3, <1>4 DEF TableInv

(* A step of the start leaves the table alone, but for Init's read. *)
LEMMA StartEffects ==
  ASSUME PhaseOK, StartStep
  PROVE  /\ mode' = mode /\ pc \in StartPcs /\ PhaseOK'
         /\ UNCHANGED tableVars \/ ReadAtInit
<1> USE DEF PhaseOK, StartPcs, RunPcs, Fail, startVars
<1>1. CASE ReadConfig          BY <1>1 DEF ReadConfig
<1>2. CASE RegisterModule      BY <1>2 DEF RegisterModule
<1>3. CASE Registered          BY <1>3 DEF Registered, tableVars
<1>4. CASE NextEndpoint        BY <1>4 DEF NextEndpoint
<1>5. CASE TakeUnknown         BY <1>5 DEF TakeUnknown, Taking
<1>6. CASE TakeValue           BY <1>6 DEF TakeValue, Taking
<1>7. CASE TakeTLS             BY <1>7 DEF TakeTLS, Taking
<1>8. CASE TakeReference       BY <1>8 DEF TakeReference, Taking
<1>9. CASE TakeInline          BY <1>9 DEF TakeInline, Taking
<1>10. CASE EndTLS             BY <1>10 DEF EndTLS, AtEnd, tableVars
<1>11. CASE EndMissing         BY <1>11 DEF EndMissing, AtEnd
<1>12. CASE EndGlobals         BY <1>12 DEF EndGlobals, AtEnd, tableVars
<1>13. CASE EndPipeline        BY <1>13 DEF EndPipeline, AtEnd
<1>14. CASE EndPipelineModules BY <1>14 DEF EndPipelineModules, AtEnd, tableVars
<1>15. CASE EndInit            BY <1>15 DEF EndInit, AtEnd
<1> QED
  BY <1>1, <1>2, <1>3, <1>4, <1>5, <1>6, <1>7, <1>8, <1>9, <1>10, <1>11, <1>12, <1>13, <1>14, <1>15
  DEF StartStep

(* The other steps do not go back to the start of a server, and the ones    *)
(* that touch the table are those of its reloader and of the editors.       *)
LEMMA RunEffects ==
  ASSUME PhaseOK, Next, ~StartStep
  PROVE  /\ mode' = mode /\ PhaseOK' /\ (Starting' => Starting)
         /\ \/ UNCHANGED tableVars
            \/ TakeReload \/ TakeStop \/ AckStop \/ Tick \/ ReloadStep
            \/ (Edit \/ Settle) /\ ~Starting'
<1> USE DEF PhaseOK, StartPcs, RunPcs, Starting, configVars, startVars, runVars
<1>1. CASE MainSignal   BY <1>1 DEF MainSignal, tableVars
<1>2. CASE MainReload   BY <1>2 DEF MainReload, RunReload, tableVars
<1>3. CASE CloseNext    BY <1>3 DEF CloseNext, tableVars
<1>4. CASE CloseEnds    BY <1>4 DEF CloseEnds, tableVars
<1>5. CASE Stopped      BY <1>5 DEF Stopped, tableVars
<1>6. CASE ToolEnds     BY <1>6 DEF ToolEnds, tableVars
<1>7. CASE SecondStarts BY <1>7 DEF SecondStarts, tableVars
<1>8. CASE SecondSignal BY <1>8 DEF SecondSignal, tableVars
<1>9. CASE SecondReload BY <1>9 DEF SecondReload, RunReload, tableVars
<1>10. CASE LoadCerts   BY <1>10 DEF LoadCerts, tableVars
<1>11. CASE TableStep   BY <1>11 DEF TableStep, Others
<1>12. CASE Editing     BY <1>12 DEF Editing, Others
<1>13. CASE \E s \in {"TERM", "USR1", "USR2"} : Signal(s)
  BY <1>13 DEF Signal, tableVars
<1>14. CASE \E l \in serving : ServeReturns(l)
  BY <1>14 DEF ServeReturns, tableVars
<1> QED
  BY <1>1, <1>2, <1>3, <1>4, <1>5, <1>6, <1>7, <1>8, <1>9, <1>10, <1>11, <1>12, <1>13, <1>14
  DEF Next, MainStep, SecondStep

LEMMA TableRunStep == TableRunInv /\ [Next]_vars => TableRunInv'
<1> SUFFICES ASSUME TableRunInv, [Next]_vars PROVE TableRunInv'
  OBVIOUS
<1>1. PhaseOK /\ TableInv /\ QuietTable
  BY DEF TableRunInv
<1>2. ASSUME UNCHANGED tableVars PROVE TableInv'
  BY <1>1, <1>2 DEF TableInv, TableTypes, FileOK, ReaderOK, TableWhole, Content, tableVars
<1>3. CASE UNCHANGED vars
  <2>1. UNCHANGED tableVars /\ pc' = pc /\ mode' = mode
    BY <1>3 DEF vars, startVars, tableVars
  <2> QED  BY <1>1, <1>2, <2>1 DEF TableRunInv, PhaseOK, QuietTable, Starting, tableVars
<1>4. CASE StartStep
  <2>1. Starting /\ PhaseOK'
    BY <1>1, <1>4, StartEffects DEF Starting
  <2>2. stamp = 0 /\ file.fresh /\ reloader.at \notin Reading
    BY <1>1, <2>1 DEF QuietTable
  <2>3. CASE UNCHANGED tableVars
    BY <1>2, <2>1, <2>2, <2>3 DEF TableRunInv, QuietTable, tableVars
  <2>4. CASE ReadAtInit
    BY <1>1, <2>1, <2>2, <2>4, InitReadKeeps DEF TableRunInv, QuietTable
  <2> QED  BY <1>1, <1>4, <2>3, <2>4, StartEffects
<1>5. CASE Next /\ ~StartStep
  <2>1. PhaseOK' /\ (Starting' => Starting)
    BY <1>1, <1>5, RunEffects
  <2>2. CASE UNCHANGED tableVars
    BY <1>1, <1>2, <2>1, <2>2 DEF TableRunInv, QuietTable, tableVars
  <2>3. CASE TakeReload \/ TakeStop \/ AckStop \/ Tick
    <3>1. PICK at \in {"stat", "stopping", "ended"} : Go(at) /\ UNCHANGED <<file, table, stamp, writes>>
      BY <2>3 DEF TakeReload, TakeStop, AckStop, Tick
    <3>2. at \in Places /\ at \notin Reading
      BY DEF Places, Reading
    <3>3. TableInv' /\ reloader'.at \notin Reading
      BY <1>1, <3>1, <3>2, PlaceKeeps
    <3> QED  BY <1>1, <2>1, <3>1, <3>3 DEF TableRunInv, QuietTable
  <2>4. CASE Stat
    <3>1. TableInv' /\ (file.fresh => reloader'.at \notin Reading) /\ file' = file /\ stamp' = stamp
      BY <1>1, <2>4, StatKeeps1 DEF Stat
    <3> QED  BY <1>1, <2>1, <3>1 DEF TableRunInv, QuietTable
  <2>5. CASE Open \/ ReadRest \/ StatAgain
    <3>1. reloader.at \in Reading
      BY <2>5 DEF Open, ReadRest, StatAgain, Reading
    <3>2. ~Starting'
      BY <1>1, <2>1, <3>1 DEF QuietTable
    <3> QED  BY <1>1, <2>1, <2>5, <3>2, OpenKeeps, ReadKeeps, StatAgainKeeps DEF TableRunInv, QuietTable
  <2>6. CASE (Edit \/ Settle) /\ ~Starting'
    BY <1>1, <2>1, <2>6, EditKeeps DEF TableRunInv, QuietTable
  <2> QED  BY <1>1, <1>5, <2>2, <2>3, <2>4, <2>5, <2>6, RunEffects DEF ReloadStep
<1> QED  BY <1>3, <1>4, <1>5

LEMMA TableRunInit == Init => TableRunInv
<1> SUFFICES ASSUME Init PROVE TableRunInv
  OBVIOUS
<1>1. pc = "read" /\ TableInit
  BY DEF Init
<1>2. PICK t \in BOOLEAN, w \in BOOLEAN : \E y : y = TRUE /\
        file = [there |-> t, ino |-> 1, ver |-> 1, whole |-> w, mtime |-> 1, fresh |-> y]
  BY <1>1 DEF TableInit
<1>3. file \in FileType /\ file.mtime = 1 /\ file.fresh
  BY <1>2 DEF FileType
<1>4. table \in PartType /\ Idle \in ReloaderType
  BY <1>1 DEF TableInit, Empty, Idle, PartType, ReloaderType, Places
<1>5. reloader \in ReloaderType /\ reloader.at = "none"
  BY <1>1, <1>4 DEF TableInit, ReloaderType, Places
<1>6. TableTypes /\ FileOK /\ TableWhole
  BY <1>1, <1>3, <1>4, <1>5 DEF TableInit, TableTypes, FileOK, TableWhole
<1>7. ReaderOK /\ reloader.at \notin Reading /\ PhaseOK
  BY <1>1, <1>5 DEF ReaderOK, Reading, PhaseOK, StartPcs
<1> QED  BY <1>1, <1>3, <1>6, <1>7 DEF TableRunInv, TableInv, QuietTable, TableInit

(* The inductive invariant of the file table inside the process. *)
THEOREM TableInvariant == Spec => []TableRunInv
  BY TableRunInit, TableRunStep, PTL DEF Spec

(* Whatever is reloaded is one version of the file, however writers,        *)
(* replacements and reloads interleave, and no reload happens before the    *)
(* last read at an Init, which takes what it finds (file.go:81, 139-182).   *)
THEOREM ProcessTableWhole == Spec => []TableWhole
<1>1. TableRunInv => TableWhole
  BY DEF TableRunInv, TableInv
<1> QED  BY TableInvariant, <1>1, PTL

------------------------------------------------------------------------------
(* Who uses whom *)

Finished == DOMAIN values
Depth == Len(stack)
Objs == 1 .. Len(insts)
OnStack(o) == \E i \in 1 .. Depth : stack[i].sort = "block" /\ stack[i].obj = o

(* Users, as a function of the uses and of the objects. *)
Reach(us, objs, d) ==
    {u \in objs : \A S \in SUBSET objs :
        ({e[1] : e \in {x \in us : x[2] \in S \cup {d}}} \ {Globals}) \subseteq S => u \in S}
Edges(us, objs) == us \subseteq (objs \cup {Globals}) \X objs
NoCircle(us, objs) == \A d \in objs : d \notin Reach(us, objs, d)
AcyclicUses == \A d \in DOMAIN insts : d \notin Users(d)

FramesOK == IsSeq(stack) /\ \A i \in 1 .. Depth : IsFrame(stack[i])
StartTypes ==
    /\ IsSeq(insts)
    /\ \A o \in Objs : insts[o].type \in DOMAIN Types
    /\ \A n \in DOMAIN names : names[n] \in Objs
    /\ Edges(uses, Objs)
    /\ Finished \subseteq Objs
    /\ FramesOK
    /\ \A i \in 1 .. Depth : stack[i].obj \in Objs \cup {Globals}

(* A name is the name of one object, an object with a name is a block that  *)
(* is no endpoint, and nobody has begun its Init unless it is marked.       *)
NamesOK ==
    /\ \A m, n \in DOMAIN names : names[m] = names[n] => m = n
    /\ \A n \in DOMAIN names : ~Types[insts[names[n]].type].endpoint
    /\ \A n \in DOMAIN names : names[n] \in Finished \/ OnStack(names[n]) => n \in initialized
    /\ \A n \in initialized : n \in DOMAIN names /\ (names[n] \in Finished \/ OnStack(names[n]))
    /\ pc = "read" \/ (Depth > 0 /\ stack[1].obj = Globals) => DOMAIN names = {}
    /\ pc = "register" => initialized = {}

(* The Init calls in progress: none of them has returned, each is there     *)
(* once, and each was begun by the one below it: f by the frame of g.       *)
Calls(us, objs, f, g, sort) ==
    /\ sort = "block" => f # g /\ g # Globals
    /\ f \in {Globals, g} \/ f \in Reach(us, objs, g)
    /\ g = Globals => f = Globals
StackOK ==
    /\ pc = "init" <=> Depth > 0
    /\ Depth > 0 => stack[1].sort = "block"
    /\ \A i \in 1 .. Depth : stack[i].obj \notin Finished /\ OnStack(stack[i].obj)
    /\ \A i, j \in 1 .. Depth : i < j => Calls(uses, Objs, stack[i].obj, stack[j].obj, stack[j].sort)

(* Both ends of a use are done or in progress, and whoever is done uses     *)
(* only what is done.                                                       *)
DoneUsesDone == \A e \in uses : e[1] \in Finished => e[2] \in Finished
UsesOK ==
    /\ \A e \in uses : e[2] \in Finished \/ OnStack(e[2])
    /\ \A e \in uses : e[1] = Globals \/ e[1] \in Finished \/ OnStack(e[1])
    /\ NoCircle(uses, Objs) => DoneUsesDone

(* Whoever is done and can be closed has one hook, after those of all it uses. *)
Hooks == hooks.shutdown
Closers == {o \in Finished : Types[insts[o].type].closer}
HooksOK ==
    /\ IsSeq(Hooks)
    /\ {Hooks[i] : i \in 1 .. Len(Hooks)} = Closers
    /\ \A i, j \in 1 .. Len(Hooks) : Hooks[i] = Hooks[j] => i = j
    /\ NoCircle(uses, Objs) => \A i, j \in 1 .. Len(Hooks) : i < j => Hooks[i] \notin Reach(uses, Objs, Hooks[j])

(* The hooks that have run are the last ones. *)
Stopping == {"stopping", "closing", "waiting"}
HooksLeft(k) ==
    /\ closed = {Hooks[i] : i \in k + 1 .. Len(Hooks)}
    /\ pc \in Stopping => left.main = SubSeq(Hooks, 1, k)
ClosingOK ==
    /\ left = [main |-> left.main, second |-> left.second]
    /\ \E k \in 0 .. Len(Hooks) : HooksLeft(k)
    /\ pc \notin Stopping \cup {"exited"} => closed = {} /\ second = "none"
    /\ pc = "closing" => Own(NextHook("main")) = "file"
    /\ pc \in {"closing", "waiting"} => left.main # <<>>
    /\ \A l \in serving : l[1] \in Finished /\ Own(l[1]) = "listen" /\ l[1] \notin closed

StartInv == StartTypes /\ NamesOK /\ StackOK /\ UsesOK /\ HooksOK
ServerInv ==
    mode = "run" => IF pc = "failed" THEN closed = {} ELSE StartInv /\ ClosingOK

------------------------------------------------------------------------------
(* Facts about Users *)

LEMMA UsersReach == ASSUME NEW d PROVE Users(d) = Reach(uses, DOMAIN insts, d)
  BY DEF Users, UsersOf, Reach

LEMMA UsersReachNext == ASSUME NEW d PROVE Users(d)' = Reach(uses', DOMAIN insts', d)
  BY DEF Users, UsersOf, Reach

LEMMA ReachLeast ==
  ASSUME NEW us, NEW objs, NEW d, NEW S \in SUBSET objs,
         \A e \in us : e[1] # Globals /\ e[2] \in S \cup {d} => e[1] \in S
  PROVE  Reach(us, objs, d) \subseteq S
<1>1. ({e[1] : e \in {x \in us : x[2] \in S \cup {d}}} \ {Globals}) \subseteq S
  OBVIOUS
<1> QED  BY <1>1 DEF Reach

LEMMA ReachStep ==
  ASSUME NEW us, NEW objs, Edges(us, objs), NEW d, NEW e \in us,
         e[1] # Globals, e[2] \in Reach(us, objs, d) \cup {d}
  PROVE  e[1] \in Reach(us, objs, d)
<1>1. e[1] \in objs
  BY DEF Edges
<1>2. ASSUME NEW S \in SUBSET objs, ({f[1] : f \in {x \in us : x[2] \in S \cup {d}}} \ {Globals}) \subseteq S
      PROVE  e[1] \in S
  <2>1. e[2] \in S \cup {d}
    BY <1>2 DEF Reach
  <2> QED  BY <1>2, <2>1
<1> QED  BY <1>1, <1>2 DEF Reach

LEMMA ReachObjects ==
  ASSUME NEW us, NEW objs, NEW d
  PROVE  Reach(us, objs, d) \subseteq objs
  BY DEF Reach

LEMMA ReachTrans ==
  ASSUME NEW us, NEW objs, Edges(us, objs), NEW d, NEW c \in Reach(us, objs, d)
  PROVE  Reach(us, objs, c) \subseteq Reach(us, objs, d)
<1>1. PICK S : S = Reach(us, objs, d)
  OBVIOUS
<1>2. S \in SUBSET objs
  BY <1>1, ReachObjects
<1>3. \A e \in us : e[1] # Globals /\ e[2] \in S \cup {c} => e[1] \in S
  BY <1>1, ReachStep
<1> QED  BY <1>1, <1>2, <1>3, ReachLeast

(* More uses, more users. *)
LEMMA ReachGrows ==
  ASSUME NEW us, NEW objs, NEW us2, NEW objs2, Edges(us, objs), us \subseteq us2, objs \subseteq objs2,
         Edges(us2, objs2), NEW d
  PROVE  Reach(us, objs, d) \subseteq Reach(us2, objs2, d)
<1>1. PICK S : S = Reach(us2, objs2, d) \cap objs
  OBVIOUS
<1>2. ASSUME NEW e \in us, e[1] # Globals, e[2] \in S \cup {d} PROVE e[1] \in S
  <2>1. e \in us2 /\ e[2] \in Reach(us2, objs2, d) \cup {d}
    BY <1>1, <1>2
  <2>2. e[1] \in Reach(us2, objs2, d)
    BY <1>2, <2>1, ReachStep
  <2>3. e[1] \in objs
    BY <1>2 DEF Edges
  <2> QED  BY <1>1, <2>2, <2>3
<1>3. Reach(us, objs, d) \subseteq S
  BY <1>1, <1>2, ReachLeast
<1> QED  BY <1>1, <1>3

(* A new use by an object that is not done yet: of those that are done, and *)
(* use only what is done, none becomes a user.                              *)
LEMMA ReachOfDone ==
  ASSUME NEW us, NEW objs, NEW us2, NEW objs2, Edges(us, objs), Edges(us2, objs2), objs \subseteq objs2,
         NEW done, \A e \in us : e[1] \in done => e[2] \in done,
         \A e \in us2 : e \in us \/ e[1] \notin done, NEW d
  PROVE  \A u \in done : u \in Reach(us2, objs2, d) => u \in Reach(us, objs, d)
<1>1. PICK S : S = Reach(us, objs, d) \cup (objs2 \ done)
  OBVIOUS
<1>2. S \in SUBSET objs2
  BY <1>1, ReachObjects
<1>3. ASSUME NEW e \in us2, e[1] # Globals, e[2] \in S \cup {d} PROVE e[1] \in S
  <2>1. e[1] \in objs2
    BY <1>3 DEF Edges
  <2>2. CASE e[1] \notin done
    BY <1>1, <2>1, <2>2
  <2>3. CASE e[1] \in done
    <3>1. e \in us /\ e[2] \in done
      BY <2>3
    <3>2. e[2] \in Reach(us, objs, d) \cup {d}
      BY <1>1, <1>3, <3>1
    <3>3. e[1] \in Reach(us, objs, d)
      BY <1>3, <3>1, <3>2, ReachStep
    <3> QED  BY <1>1, <3>3
  <2> QED  BY <2>2, <2>3
<1>4. Reach(us2, objs2, d) \subseteq S
  BY <1>2, <1>3, ReachLeast
<1> QED  BY <1>1, <1>4

(* Who is done uses nothing that is not. *)
LEMMA ReachOfUndone ==
  ASSUME NEW us, NEW objs, Edges(us, objs), NEW done,
         \A e \in us : e[1] \in done => e[2] \in done, NEW d, d \notin done
  PROVE  \A u \in done : u \notin Reach(us, objs, d)
<1>1. PICK S : S = objs \ done
  OBVIOUS
<1>2. S \in SUBSET objs
  BY <1>1
<1>3. ASSUME NEW e \in us, e[1] # Globals, e[2] \in S \cup {d} PROVE e[1] \in S
  BY <1>1, <1>3 DEF Edges
<1>4. Reach(us, objs, d) \subseteq S
  BY <1>2, <1>3, ReachLeast
<1> QED  BY <1>1, <1>4
------------------------------------------------------------------------------
(* What a step does to the stack *)

SameTo(n) == \A i \in 1 .. n : stack'[i].obj = stack[i].obj /\ stack'[i].sort = stack[i].sort
TurnStack == FramesOK' /\ Depth' = Depth /\ SameTo(Depth)
PushStack(o, sort) ==
    FramesOK' /\ Depth' = Depth + 1 /\ SameTo(Depth) /\ stack'[Depth + 1].obj = o /\ stack'[Depth + 1].sort = sort
PopStack == FramesOK' /\ Depth' = Depth - 1 /\ SameTo(Depth - 1)

LEMMA NewFrameIs ==
  ASSUME NEW o, NEW s, NEW k, NEW f, f = NewFrame(o, s, k)
  PROVE  IsFrame(f) /\ f.obj = o /\ f.sort = s
  BY DEF NewFrame, IsFrame

LEMMA FrameDone ==
  ASSUME NEW f, IsFrame(f), NEW n, NEW v, NEW g, g = Done(f, n, v)
  PROVE  IsFrame(g) /\ g.obj = f.obj /\ g.sort = f.sort
<1>1. PICK o, s, k, a, w, u, p : f = [obj |-> o, sort |-> s, kids |-> k, at |-> a, vals |-> w, unknown |-> u, piped |-> p]
  BY DEF IsFrame
<1>2. PICK x, y : x = f.at + 1 /\ y = Assign(f.vals, n, v)
  OBVIOUS
<1>3. g = [f EXCEPT !.at = x, !.vals = y]
  BY <1>2 DEF Done
<1>4. g = [obj |-> o, sort |-> s, kids |-> k, at |-> x, vals |-> y, unknown |-> u, piped |-> p]
  BY <1>1, <1>3
<1> QED  BY <1>1, <1>4 DEF IsFrame

Aside(f, x, y) == [f EXCEPT !.at = x, !.unknown = y]
LEMMA FrameUnknown ==
  ASSUME NEW f, IsFrame(f), NEW x, NEW y, NEW g, g = Aside(f, x, y)
  PROVE  IsFrame(g) /\ g.obj = f.obj /\ g.sort = f.sort
<1>1. PICK o, s, k, a, w, u, p : f = [obj |-> o, sort |-> s, kids |-> k, at |-> a, vals |-> w, unknown |-> u, piped |-> p]
  BY DEF IsFrame
<1>2. g = [obj |-> o, sort |-> s, kids |-> k, at |-> x, vals |-> w, unknown |-> y, piped |-> p]
  BY <1>1 DEF Aside
<1> QED  BY <1>1, <1>2 DEF IsFrame

LEMMA FramePiped ==
  ASSUME NEW f, IsFrame(f), NEW g, g = [f EXCEPT !.piped = TRUE]
  PROVE  IsFrame(g) /\ g.obj = f.obj /\ g.sort = f.sort
<1>1. PICK o, s, k, a, w, u, p : f = [obj |-> o, sort |-> s, kids |-> k, at |-> a, vals |-> w, unknown |-> u, piped |-> p]
  BY DEF IsFrame
<1>2. PICK b : b = TRUE
  OBVIOUS
<1>3. g = [f EXCEPT !.piped = b]
  BY <1>2
<1>4. g = [obj |-> o, sort |-> s, kids |-> k, at |-> a, vals |-> w, unknown |-> u, piped |-> b]
  BY <1>1, <1>3
<1> QED  BY <1>1, <1>4 DEF IsFrame

LEMMA StackBelow ==
  ASSUME FramesOK, Depth > 0, NEW b, b = Below
  PROVE  /\ IsSeq(b) /\ Len(b) = Depth - 1 /\ Depth \in Nat
         /\ \A i \in 1 .. Depth - 1 : b[i] = stack[i]
         /\ IsFrame(Top)
<1>1. Depth \in Nat
  BY SeqFacts DEF FramesOK, Depth
<1>2. stack # <<>>
  BY <1>1, SeqFacts DEF FramesOK, Depth
<1>3. b = SubSeq(stack, 1, Len(stack) - 1)
  BY DEF Below
<1>4. IsSeq(b) /\ Len(b) = Depth - 1 /\ \A i \in 1 .. Depth - 1 : b[i] = stack[i]
  BY <1>2, <1>3, SeqPop DEF FramesOK, Depth
<1>5. IsFrame(Top)
  BY <1>1 DEF FramesOK, Top, Depth
<1> QED  BY <1>1, <1>4, <1>5

LEMMA StackTurns ==
  ASSUME FramesOK, Depth > 0, NEW g, IsFrame(g), g.obj = Top.obj, g.sort = Top.sort,
         stack' = Append(Below, g)
  PROVE  TurnStack
<1>1. PICK b : b = Below
  OBVIOUS
<1>2. /\ IsSeq(b) /\ Len(b) = Depth - 1 /\ Depth \in Nat
      /\ \A i \in 1 .. Depth - 1 : b[i] = stack[i]
  BY <1>1, StackBelow
<1>0. PICK t : t = stack'
  OBVIOUS
<1>7. t = Append(b, g)
  BY <1>0, <1>1
<1>8. Pushed(b, g, t)
  BY <1>2, <1>7, SeqPush
<1>3. /\ IsSeq(stack') /\ Len(stack') = Len(b) + 1
      /\ \A i \in 1 .. Len(b) : stack'[i] = b[i]
      /\ stack'[Len(b) + 1] = g
  BY <1>0, <1>8 DEF Pushed
<1>4. Len(b) + 1 = Depth /\ Depth' = Depth
  BY <1>2, <1>3 DEF Depth
<1>5. ASSUME NEW i \in 1 .. Depth
      PROVE  IsFrame(stack'[i]) /\ stack'[i].obj = stack[i].obj /\ stack'[i].sort = stack[i].sort
  <2>1. CASE i = Depth
    BY <1>3, <1>4, <2>1 DEF Top, Depth
  <2>2. CASE i # Depth
    <3>1. i \in 1 .. Len(b) /\ i \in 1 .. Depth - 1
      BY <1>2, <2>2
    <3>2. stack'[i] = stack[i]
      BY <1>2, <1>3, <3>1
    <3> QED  BY <3>2 DEF FramesOK
  <2> QED  BY <2>1, <2>2
<1>6. FramesOK'
  BY <1>3, <1>4, <1>5 DEF FramesOK, IsFrame
<1> QED  BY <1>4, <1>5, <1>6 DEF TurnStack, SameTo

LEMMA StackPushes ==
  ASSUME FramesOK, Depth > 0, NEW g, IsFrame(g), g.obj = Top.obj, g.sort = Top.sort,
         NEW h, IsFrame(h), stack' = Append(Append(Below, g), h)
  PROVE  PushStack(h.obj, h.sort)
<1>1. PICK b, c : b = Below /\ c = Append(b, g)
  OBVIOUS
<1>2. /\ IsSeq(b) /\ Len(b) = Depth - 1 /\ Depth \in Nat
      /\ \A i \in 1 .. Depth - 1 : b[i] = stack[i]
  BY <1>1, StackBelow
<1>13. Pushed(b, g, c)
  BY <1>1, <1>2, SeqPush
<1>3. /\ IsSeq(c) /\ Len(c) = Len(b) + 1
      /\ \A i \in 1 .. Len(b) : c[i] = b[i]
      /\ c[Len(b) + 1] = g
  BY <1>13 DEF Pushed
<1>4. Len(b) + 1 = Depth /\ Len(c) = Depth
  BY <1>2, <1>3
<1>10. PICK t : t = stack'
  OBVIOUS
<1>11. t = Append(c, h)
  BY <1>1, <1>10
<1>12. Pushed(c, h, t)
  BY <1>3, <1>11, SeqPush
<1>5. /\ IsSeq(stack') /\ Len(stack') = Len(c) + 1
      /\ \A i \in 1 .. Len(c) : stack'[i] = c[i]
      /\ stack'[Len(c) + 1] = h
  BY <1>10, <1>12 DEF Pushed
<1>6. ASSUME NEW i \in 1 .. Depth
      PROVE  IsFrame(stack'[i]) /\ stack'[i].obj = stack[i].obj /\ stack'[i].sort = stack[i].sort
  <2>0. stack'[i] = c[i]
    BY <1>4, <1>5
  <2>1. CASE i = Depth
    BY <1>3, <1>4, <2>0, <2>1 DEF Top, Depth
  <2>2. CASE i # Depth
    <3>1. i \in 1 .. Len(b) /\ i \in 1 .. Depth - 1
      BY <1>2, <2>2
    <3>2. stack'[i] = stack[i]
      BY <1>2, <1>3, <2>0, <3>1
    <3> QED  BY <3>2 DEF FramesOK
  <2> QED  BY <2>1, <2>2
<1>7. Depth' = Depth + 1 /\ stack'[Depth + 1] = h
  BY <1>4, <1>5 DEF Depth
<1>8. \A i \in 1 .. Depth + 1 : i \in 1 .. Depth \/ i = Depth + 1
  BY <1>2
<1>9. FramesOK'
  BY <1>5, <1>6, <1>7, <1>8 DEF FramesOK, IsFrame
<1> QED  BY <1>6, <1>7, <1>9 DEF PushStack, SameTo

LEMMA StackPops ==
  ASSUME FramesOK, Depth > 0, stack' = Below
  PROVE  PopStack
<1>1. PICK b : b = Below
  OBVIOUS
<1>2. /\ IsSeq(b) /\ Len(b) = Depth - 1 /\ Depth \in Nat
      /\ \A i \in 1 .. Depth - 1 : b[i] = stack[i]
  BY <1>1, StackBelow
<1>3. IsSeq(stack') /\ Depth' = Depth - 1 /\ \A i \in 1 .. Depth - 1 : stack'[i] = stack[i]
  BY <1>1, <1>2 DEF Depth
<1>4. \A i \in 1 .. Depth - 1 : i \in 1 .. Depth
  BY <1>2
<1>5. FramesOK'
  BY <1>3, <1>4 DEF FramesOK, IsFrame
<1> QED  BY <1>3, <1>5 DEF PopStack, SameTo

(* A stack of one frame. *)
LEMMA StackBegins ==
  ASSUME NEW f, IsFrame(f), stack' = <<f>>
  PROVE  FramesOK' /\ Depth' = 1 /\ stack'[1] = f
<1>1. PICK S : S = {f}
  OBVIOUS
<1>2. stack' \in Seq(S) /\ Len(stack') = 1 /\ stack'[1] = f
  BY <1>1
<1>3. IsSeq(stack')
  BY <1>2, SeqIs
<1>4. \A i \in 1 .. 1 : i = 1
  OBVIOUS
<1> QED  BY <1>2, <1>3, <1>4 DEF FramesOK, Depth, IsFrame

------------------------------------------------------------------------------
(* Frames that call each other *)

LEMMA CallsGrow ==
  ASSUME NEW us, NEW objs, NEW us2, NEW objs2, Edges(us, objs), us \subseteq us2, objs \subseteq objs2,
         Edges(us2, objs2), NEW f, NEW g, NEW s, Calls(us, objs, f, g, s)
  PROVE  Calls(us2, objs2, f, g, s)
<1>1. Reach(us, objs, g) \subseteq Reach(us2, objs2, g)
  BY ReachGrows
<1> QED  BY <1>1 DEF Calls

(* A frame for a part of the same block. *)
LEMMA CallsInner ==
  ASSUME NEW us, NEW objs, NEW f, NEW g, NEW s, s # "block"
  PROVE  /\ Calls(us, objs, g, g, s)
         /\ \A r : Calls(us, objs, f, g, r) => Calls(us, objs, f, g, s)
  BY DEF Calls

(* The frame of an object that g, the one on top, has begun to use. *)
LEMMA CallsUse ==
  ASSUME NEW us, NEW objs, Edges(us, objs), NEW g, NEW b, <<g, b>> \in us, b # Globals
  PROVE  /\ g # b => Calls(us, objs, g, b, "block")
         /\ \A f, s : f # b /\ Calls(us, objs, f, g, s) => Calls(us, objs, f, b, "block")
<1>1. PICK e : e = <<g, b>>
  OBVIOUS
<1>2. g # Globals => g \in Reach(us, objs, b)
  BY <1>1, ReachStep
<1>3. g # Globals => Reach(us, objs, g) \subseteq Reach(us, objs, b)
  BY <1>2, ReachTrans
<1> QED  BY <1>2, <1>3 DEF Calls

LEMMA CircleGrows ==
  ASSUME NEW us, NEW objs, NEW us2, NEW objs2, Edges(us, objs), us \subseteq us2, objs \subseteq objs2,
         Edges(us2, objs2), NoCircle(us2, objs2)
  PROVE  NoCircle(us, objs)
<1> SUFFICES ASSUME NEW d \in objs PROVE d \notin Reach(us, objs, d)
  BY DEF NoCircle
<1>1. Reach(us, objs, d) \subseteq Reach(us2, objs2, d)
  BY ReachGrows
<1> QED  BY <1>1 DEF NoCircle

------------------------------------------------------------------------------
(* Steps of the start of a server, by what they do to the Init calls in     *)
(* progress *)

LEMMA DepthNat ==
  ASSUME FramesOK
  PROVE  /\ Depth \in Nat /\ (stack # <<>> => Depth > 0)
         /\ \A i \in 1 .. Depth - 1 : i \in 1 .. Depth
         /\ Depth > 0 => Depth \in 1 .. Depth /\ 1 \in 1 .. Depth
         /\ \A i \in 1 .. Depth : i < Depth => i \in 1 .. Depth - 1
         /\ Depth + 1 \in 1 .. Depth + 1 /\ \A i \in 1 .. Depth + 1 : i \in 1 .. Depth \/ i = Depth + 1
<1>1. Depth \in Nat /\ (stack # <<>> => Depth >= 1)
  BY SeqFacts DEF FramesOK, Depth
<1> QED  BY <1>1

(* A directive taken, or a part of the block begun or ended. *)
InnerStep ==
    /\ pc = "init" /\ pc' = "init"
    /\ UNCHANGED <<insts, names, initialized, values, uses, hooks>>
    /\ \/ TurnStack
       \/ \E s : s # "block" /\ PushStack(Top.obj, s)
       \/ PopStack /\ Top.sort # "block"

LEMMA InnerStack ==
  ASSUME StartTypes, StackOK, InnerStep
  PROVE  /\ FramesOK' /\ Depth > 0 /\ Depth' > 0 /\ Depth' \in Nat
         /\ stack'[1].obj = stack[1].obj /\ stack'[1].sort = "block"
         /\ \A o : OnStack(o)' <=> OnStack(o)
         /\ \A i \in 1 .. Depth' : \E j \in 1 .. Depth : stack'[i].obj = stack[j].obj
         /\ \A i, j \in 1 .. Depth' : i < j => Calls(uses, Objs, stack'[i].obj, stack'[j].obj, stack'[j].sort)
<1>1. FramesOK /\ Depth > 0 /\ stack[1].sort = "block"
  BY DEF StartTypes, StackOK, InnerStep
<1>2. Depth \in Nat /\ Depth \in 1 .. Depth /\ 1 \in 1 .. Depth
  BY <1>1, DepthNat
<1>3. CASE TurnStack
  <2>1. FramesOK' /\ Depth' = Depth /\ SameTo(Depth)
    BY <1>3 DEF TurnStack
  <2>2. \A o : OnStack(o)' <=> OnStack(o)
    BY <2>1 DEF OnStack, SameTo
  <2> QED  BY <1>1, <1>2, <2>1, <2>2 DEF SameTo, StackOK
<1>4. ASSUME NEW s, s # "block", PushStack(Top.obj, s)
      PROVE  /\ FramesOK' /\ Depth > 0 /\ Depth' > 0 /\ Depth' \in Nat
             /\ stack'[1].obj = stack[1].obj /\ stack'[1].sort = "block"
             /\ \A o : OnStack(o)' <=> OnStack(o)
             /\ \A i \in 1 .. Depth' : \E j \in 1 .. Depth : stack'[i].obj = stack[j].obj
             /\ \A i, j \in 1 .. Depth' : i < j => Calls(uses, Objs, stack'[i].obj, stack'[j].obj, stack'[j].sort)
  <2>1. FramesOK' /\ Depth' = Depth + 1 /\ SameTo(Depth) /\ stack'[Depth + 1].obj = stack[Depth].obj /\ stack'[Depth + 1].sort = s
    BY <1>4 DEF PushStack, Top, Depth
  <2>2. \A i \in 1 .. Depth + 1 : i \in 1 .. Depth \/ i = Depth + 1
    BY <1>1, DepthNat
  <2>6. \A i \in 1 .. Depth : i \in 1 .. Depth + 1
    BY <1>2
  <2>3. \A o : OnStack(o)' <=> OnStack(o)
    BY <1>4, <2>1, <2>2, <2>6 DEF OnStack, SameTo
  <2>4. \A i \in 1 .. Depth' : \E j \in 1 .. Depth : stack'[i].obj = stack[j].obj
    BY <1>2, <2>1, <2>2 DEF SameTo
  <2>5. ASSUME NEW i \in 1 .. Depth', NEW j \in 1 .. Depth', i < j
        PROVE  Calls(uses, Objs, stack'[i].obj, stack'[j].obj, stack'[j].sort)
    <3>0. i \in 1 .. Depth /\ (j \in 1 .. Depth \/ j = Depth + 1) /\ stack'[i].obj = stack[i].obj
      BY <1>2, <2>1, <2>5 DEF SameTo
    <3>1. CASE j \in 1 .. Depth
      BY <2>1, <2>5, <3>0, <3>1 DEF SameTo, StackOK
    <3>2. CASE j = Depth + 1 /\ i = Depth
      BY <1>4, <2>1, <3>0, <3>2, CallsInner
    <3>3. CASE j = Depth + 1 /\ i # Depth
      <4>1. i < Depth
        BY <1>2, <3>0, <3>3
      <4>2. Calls(uses, Objs, stack[i].obj, stack[Depth].obj, stack[Depth].sort)
        BY <1>2, <3>0, <4>1 DEF StackOK
      <4>3. Calls(uses, Objs, stack[i].obj, stack[Depth].obj, s)
        BY <1>4, <4>2, CallsInner
      <4> QED  BY <2>1, <3>0, <3>3, <4>3
    <3> QED  BY <3>0, <3>1, <3>2, <3>3
  <2> QED  BY <1>1, <1>2, <2>1, <2>3, <2>4, <2>5 DEF SameTo
<1>5. CASE PopStack /\ Top.sort # "block"
  <2>1. FramesOK' /\ Depth' = Depth - 1 /\ SameTo(Depth - 1) /\ stack[Depth].sort # "block"
    BY <1>5 DEF PopStack, Top, Depth
  <2>2. Depth > 1 /\ 1 \in 1 .. Depth - 1
    BY <1>1, <1>2, <2>1
  <2>3. \A i \in 1 .. Depth : i \in 1 .. Depth - 1 \/ i = Depth
    BY <1>2
  <2>4. \A i \in 1 .. Depth - 1 : i \in 1 .. Depth
    BY <1>2
  <2>5. \A o : OnStack(o)' <=> OnStack(o)
    BY <2>1, <2>3, <2>4 DEF OnStack, SameTo
  <2>6. \A i \in 1 .. Depth' : \E j \in 1 .. Depth : stack'[i].obj = stack[j].obj
    BY <2>1, <2>4 DEF SameTo
  <2>7. \A i, j \in 1 .. Depth' : i < j => Calls(uses, Objs, stack'[i].obj, stack'[j].obj, stack'[j].sort)
    BY <2>1, <2>4 DEF SameTo, StackOK
  <2> QED  BY <1>1, <1>2, <2>1, <2>2, <2>5, <2>6, <2>7 DEF SameTo
<1> QED  BY <1>3, <1>4, <1>5 DEF InnerStep

LEMMA InnerKeeps == StartInv /\ InnerStep => StartInv'
<1> SUFFICES ASSUME StartInv, InnerStep PROVE StartInv'
  OBVIOUS
<1> USE DEF StartInv
<1>1. /\ FramesOK' /\ Depth > 0 /\ Depth' > 0 /\ Depth' \in Nat
      /\ stack'[1].obj = stack[1].obj /\ stack'[1].sort = "block"
      /\ \A o : OnStack(o)' <=> OnStack(o)
      /\ \A i \in 1 .. Depth' : \E j \in 1 .. Depth : stack'[i].obj = stack[j].obj
      /\ \A i, j \in 1 .. Depth' : i < j => Calls(uses, Objs, stack'[i].obj, stack'[j].obj, stack'[j].sort)
  BY InnerStack
<1>2. /\ insts' = insts /\ names' = names /\ initialized' = initialized /\ uses' = uses /\ pc = "init" /\ pc' = "init"
      /\ hooks' = hooks /\ values' = values /\ Finished' = Finished /\ Objs' = Objs /\ Hooks' = Hooks
  BY DEF InnerStep, Finished, Objs, Hooks
<1>3. StartTypes'
  BY <1>1, <1>2 DEF StartTypes
<1>4. NamesOK'
  <2>1. \A n \in DOMAIN names : OnStack(names[n])' <=> OnStack(names[n])
    BY <1>1, <1>2 DEF OnStack
  <2> QED  BY <1>1, <1>2, <2>1 DEF NamesOK
<1>5. StackOK'
  BY <1>1, <1>2 DEF StackOK
<1>6. UsesOK'
  BY <1>1, <1>2 DEF UsesOK, DoneUsesDone
<1>7. HooksOK'
  BY <1>2 DEF HooksOK, Closers
<1> QED  BY <1>3, <1>4, <1>5, <1>6, <1>7

(* Objects are only added. *)
Grows ==
    /\ IsSeq(insts') /\ Len(insts') \in Nat /\ Len(insts') >= Len(insts)
    /\ \A o \in Objs : insts'[o] = insts[o]
    /\ \A o \in Objs : insts'[o].type = insts[o].type
    /\ \A o \in Objs' : insts'[o].type \in DOMAIN Types

(* The object on top of the stack uses b, whose Init is begun if nobody has *)
(* done so before.                                                          *)
UseStep(b) ==
    /\ pc = "init" /\ pc' = "init" /\ Grows /\ b \in Objs'
    /\ UNCHANGED <<names, values, hooks>>
    /\ uses' = uses \cup {<<Top.obj, b>>}
    /\ initialized \subseteq initialized'
    /\ \A n \in initialized' : n \in initialized \/ (n \in DOMAIN names /\ names[n] = b)
    /\ \A n \in DOMAIN names : names[n] = b => n \in initialized'
    /\ \/ TurnStack /\ (b \in Finished \/ OnStack(b))
       \/ PushStack(b, "block") /\ b \notin Finished /\ ~OnStack(b)

LEMMA UseEdges ==
  ASSUME StartTypes, StackOK, Grows, NEW b \in Objs',
         pc = "init", uses' = uses \cup {<<Top.obj, b>>}
  PROVE  /\ Objs \subseteq Objs' /\ Edges(uses', Objs') /\ Edges(uses, Objs) /\ uses \subseteq uses'
         /\ <<Top.obj, b>> \in uses' /\ b # Globals
         /\ Top.obj \notin Finished /\ OnStack(Top.obj) /\ Top.obj \in Objs \cup {Globals}
         /\ Depth > 0 /\ Top = stack[Depth]
<1>1. Depth > 0 /\ Top = stack[Depth]
  BY DEF StackOK, Top, Depth
<1>2. Depth \in 1 .. Depth
  BY <1>1, DepthNat DEF StartTypes
<1>3. Top.obj \notin Finished /\ OnStack(Top.obj) /\ Top.obj \in Objs \cup {Globals}
  BY <1>1, <1>2 DEF StackOK, StartTypes
<1>4. Len(insts) \in Nat
  BY SeqFacts DEF StartTypes
<1>5. Objs \subseteq Objs' /\ b # Globals
  BY <1>4 DEF Objs, Grows, Globals
<1>6. Edges(uses, Objs)
  BY DEF StartTypes
<1>7. <<Top.obj, b>> \in (Objs' \cup {Globals}) \X Objs'
  BY <1>3, <1>5
<1>8. Edges(uses', Objs')
  BY <1>5, <1>6, <1>7 DEF Edges
<1> QED  BY <1>1, <1>3, <1>5, <1>6, <1>8

LEMMA UseStack ==
  ASSUME StartTypes, StackOK, NEW b, UseStep(b)
  PROVE  /\ FramesOK' /\ Depth' > 0
         /\ stack'[1].obj = stack[1].obj /\ stack'[1].sort = "block"
         /\ \A o : OnStack(o) => OnStack(o)'
         /\ \A o : OnStack(o)' => OnStack(o) \/ (o = b /\ b \notin Finished)
         /\ b \in Finished \/ OnStack(b)'
         /\ \A i \in 1 .. Depth' : (\E j \in 1 .. Depth : stack'[i].obj = stack[j].obj) \/ (stack'[i].obj = b /\ b \notin Finished)
         /\ \A i, j \in 1 .. Depth' : i < j => Calls(uses', Objs', stack'[i].obj, stack'[j].obj, stack'[j].sort)
<1>0. /\ Objs \subseteq Objs' /\ Edges(uses', Objs') /\ Edges(uses, Objs) /\ uses \subseteq uses'
      /\ <<Top.obj, b>> \in uses' /\ b # Globals /\ Depth > 0 /\ Top = stack[Depth]
  BY UseEdges DEF UseStep
<1>1. FramesOK /\ stack[1].sort = "block"
  BY <1>0 DEF StartTypes, StackOK
<1>2. Depth \in Nat /\ Depth \in 1 .. Depth /\ 1 \in 1 .. Depth
  BY <1>0, <1>1, DepthNat
<1>3. \A i, j \in 1 .. Depth : i < j => Calls(uses', Objs', stack[i].obj, stack[j].obj, stack[j].sort)
  BY <1>0, CallsGrow DEF StackOK
<1>4. CASE TurnStack /\ (b \in Finished \/ OnStack(b))
  <2>1. FramesOK' /\ Depth' = Depth /\ SameTo(Depth)
    BY <1>4 DEF TurnStack
  <2>2. \A o : OnStack(o)' <=> OnStack(o)
    BY <2>1 DEF OnStack, SameTo
  <2>3. b \in Finished \/ OnStack(b)'
    BY <1>4, <2>2
  <2> QED  BY <1>0, <1>1, <1>2, <1>3, <2>1, <2>2, <2>3 DEF SameTo
<1>5. CASE PushStack(b, "block") /\ b \notin Finished /\ ~OnStack(b)
  <2>1. FramesOK' /\ Depth' = Depth + 1 /\ SameTo(Depth) /\ stack'[Depth + 1].obj = b /\ stack'[Depth + 1].sort = "block"
    BY <1>5 DEF PushStack
  <2>2. Depth + 1 \in 1 .. Depth + 1 /\ \A i \in 1 .. Depth + 1 : i \in 1 .. Depth \/ i = Depth + 1
    BY <1>1, DepthNat
  <2>3. \A i \in 1 .. Depth : i \in 1 .. Depth + 1
    BY <1>2
  <2>4. \A o : OnStack(o) => OnStack(o)'
    BY <2>1, <2>3 DEF OnStack, SameTo
  <2>5. \A o : OnStack(o)' => OnStack(o) \/ o = b
    BY <2>1, <2>2 DEF OnStack, SameTo
  <2>6. OnStack(b)'
    BY <2>1, <2>2 DEF OnStack
  <2>7. \A i \in 1 .. Depth' : (\E j \in 1 .. Depth : stack'[i].obj = stack[j].obj) \/ stack'[i].obj = b
    BY <2>1, <2>2 DEF SameTo
  <2>8. ASSUME NEW i \in 1 .. Depth', NEW j \in 1 .. Depth', i < j
        PROVE  Calls(uses', Objs', stack'[i].obj, stack'[j].obj, stack'[j].sort)
    <3>0. i \in 1 .. Depth /\ (j \in 1 .. Depth \/ j = Depth + 1) /\ stack'[i].obj = stack[i].obj
      BY <1>2, <2>1, <2>8 DEF SameTo
    <3>1. CASE j \in 1 .. Depth
      BY <1>3, <2>1, <2>8, <3>0, <3>1 DEF SameTo
    <3>2. CASE j = Depth + 1
      <4>1. stack[i].obj # b
        BY <1>5, <3>0 DEF StackOK
      <4>2. CASE i = Depth
        BY <1>0, <2>1, <3>0, <3>2, <4>1, <4>2, CallsUse
      <4>3. CASE i # Depth
        <5>1. i < Depth
          BY <1>2, <3>0, <4>3
        <5>2. Calls(uses', Objs', stack[i].obj, Top.obj, stack[Depth].sort)
          BY <1>0, <1>2, <1>3, <3>0, <5>1
        <5>3. Calls(uses', Objs', stack[i].obj, b, "block")
          BY <1>0, <4>1, <5>2, CallsUse
        <5> QED  BY <2>1, <3>0, <3>2, <5>3
      <4> QED  BY <4>2, <4>3
    <3> QED  BY <3>0, <3>1, <3>2
  <2> QED  BY <1>1, <1>2, <1>5, <2>1, <2>4, <2>5, <2>6, <2>7, <2>8 DEF SameTo
<1> QED  BY <1>4, <1>5 DEF UseStep

(* Hooks stay in order while somebody who is not done begins to use another. *)
LEMMA HooksKeep ==
  ASSUME StartInv, Grows, values' = values, hooks' = hooks, uses \subseteq uses', Edges(uses', Objs'),
         \A e \in uses' : e \in uses \/ e[1] \notin Finished
  PROVE  HooksOK' /\ (NoCircle(uses', Objs') => DoneUsesDone')
<1>1. Finished' = Finished /\ Hooks' = Hooks /\ Finished \subseteq Objs /\ Edges(uses, Objs) /\ Len(insts) \in Nat
  BY SeqFacts DEF Finished, Hooks, StartInv, StartTypes
<1>2. Objs \subseteq Objs'
  BY <1>1 DEF Objs, Grows
<1>3. Closers' = Closers
  <2>1. \A o \in Finished : insts'[o].type = insts[o].type
    BY <1>1 DEF Grows
  <2> QED  BY <1>1, <2>1 DEF Closers
<1>4. ASSUME NoCircle(uses', Objs')
      PROVE  /\ DoneUsesDone'
             /\ \A i, j \in 1 .. Len(Hooks) : i < j => Hooks[i] \notin Reach(uses', Objs', Hooks[j])
  <2>1. NoCircle(uses, Objs)
    BY <1>1, <1>2, <1>4, CircleGrows
  <2>2. \A e \in uses : e[1] \in Finished => e[2] \in Finished
    BY <2>1 DEF StartInv, UsesOK, DoneUsesDone
  <2>3. DoneUsesDone'
    BY <1>1, <2>2 DEF DoneUsesDone
  <2>4. ASSUME NEW d PROVE \A u \in Finished : u \in Reach(uses', Objs', d) => u \in Reach(uses, Objs, d)
    <3>1. PICK us, us2, objs, objs2, done : us = uses /\ us2 = uses' /\ objs = Objs /\ objs2 = Objs' /\ done = Finished
      OBVIOUS
    <3>2. \A u \in done : u \in Reach(us2, objs2, d) => u \in Reach(us, objs, d)
      BY <1>1, <1>2, <2>2, <3>1, ReachOfDone
    <3> QED  BY <3>1, <3>2
  <2>5. ASSUME NEW i \in 1 .. Len(Hooks), NEW j \in 1 .. Len(Hooks), i < j
        PROVE  Hooks[i] \notin Reach(uses', Objs', Hooks[j])
    <3>1. Hooks[i] \in Finished
      BY DEF StartInv, HooksOK, Closers
    <3>2. Hooks[i] \notin Reach(uses, Objs, Hooks[j])
      BY <2>1, <2>5 DEF StartInv, HooksOK
    <3> QED  BY <2>4, <3>1, <3>2
  <2> QED  BY <2>3, <2>5
<1>5. HooksOK'
  BY <1>1, <1>3, <1>4 DEF HooksOK, StartInv
<1> QED  BY <1>4, <1>5

LEMMA UseKeeps ==
  ASSUME StartInv, NEW b, UseStep(b)
  PROVE  StartInv'
<1> USE DEF StartInv
<1>1. /\ Objs \subseteq Objs' /\ Edges(uses', Objs') /\ Edges(uses, Objs) /\ uses \subseteq uses'
      /\ <<Top.obj, b>> \in uses' /\ b # Globals
      /\ Top.obj \notin Finished /\ OnStack(Top.obj) /\ Top.obj \in Objs \cup {Globals} /\ Depth > 0
  BY UseEdges DEF UseStep
<1>2. /\ FramesOK' /\ Depth' > 0
      /\ stack'[1].obj = stack[1].obj /\ stack'[1].sort = "block"
      /\ \A o : OnStack(o) => OnStack(o)'
      /\ \A o : OnStack(o)' => OnStack(o) \/ (o = b /\ b \notin Finished)
      /\ b \in Finished \/ OnStack(b)'
      /\ \A i \in 1 .. Depth' : (\E j \in 1 .. Depth : stack'[i].obj = stack[j].obj) \/ (stack'[i].obj = b /\ b \notin Finished)
      /\ \A i, j \in 1 .. Depth' : i < j => Calls(uses', Objs', stack'[i].obj, stack'[j].obj, stack'[j].sort)
  BY UseStack
<1>3. /\ names' = names /\ values' = values /\ hooks' = hooks /\ Finished' = Finished /\ pc' = "init" /\ b \in Objs'
      /\ uses' = uses \cup {<<Top.obj, b>>} /\ Grows
  BY DEF UseStep, Finished
<1>4. \A i \in 1 .. Depth' : stack'[i].obj \in Objs' \cup {Globals}
  BY <1>1, <1>2, <1>3 DEF StartTypes
<1>5. StartTypes'
  BY <1>1, <1>2, <1>3, <1>4 DEF StartTypes, Grows
<1>6. NamesOK'
  <2>1. \A n \in DOMAIN names : insts'[names[n]].type = insts[names[n]].type
    BY <1>3 DEF StartTypes, Grows
  <2>2. \A n \in DOMAIN names : OnStack(names[n])' => OnStack(names[n]) \/ names[n] = b
    BY <1>2, <1>3 DEF OnStack
  <2>3. \A n \in DOMAIN names : OnStack(names[n]) => OnStack(names[n])'
    BY <1>2, <1>3 DEF OnStack
  <2>4. \A n \in DOMAIN names : names[n] \in Finished \/ OnStack(names[n])' => n \in initialized'
    BY <2>2 DEF NamesOK, UseStep
  <2>5. \A n \in DOMAIN names : names[n] = b => b \in Finished \/ OnStack(names[n])'
    BY <1>2, <1>3 DEF OnStack
  <2>6. \A n \in initialized' : n \in DOMAIN names /\ (names[n] \in Finished \/ OnStack(names[n])')
    BY <2>3, <2>5 DEF NamesOK, UseStep
  <2>7. Depth' > 0 /\ stack'[1].obj = Globals => DOMAIN names = {}
    BY <1>1, <1>2 DEF NamesOK
  <2> QED  BY <1>3, <2>1, <2>4, <2>6, <2>7 DEF NamesOK
<1>7. StackOK'
  <2>1. ASSUME NEW i \in 1 .. Depth' PROVE stack'[i].obj \notin Finished /\ OnStack(stack[i].obj)'
    <3>1. CASE \E j \in 1 .. Depth : stack'[i].obj = stack[j].obj
      <4>1. PICK o : o = stack'[i].obj
        OBVIOUS
      <4>2. o \notin Finished /\ OnStack(o)
        BY <3>1, <4>1 DEF StackOK
      <4>3. OnStack(o)'
        BY <1>2, <4>2
      <4> QED  BY <4>1, <4>2, <4>3 DEF OnStack
    <3>2. CASE stack'[i].obj = b /\ b \notin Finished
      BY <1>2, <3>2 DEF OnStack
    <3> QED  BY <1>2, <3>1, <3>2
  <2> QED  BY <1>2, <1>3, <2>1 DEF StackOK
<1>8. HooksOK' /\ (NoCircle(uses', Objs') => DoneUsesDone')
  BY <1>1, <1>3, HooksKeep
<1>9. UsesOK'
  <2>1. ASSUME NEW e \in uses'
        PROVE  /\ e[2] \in Finished \/ OnStack(e[2])'
               /\ e[1] = Globals \/ e[1] \in Finished \/ OnStack(e[1])'
    <3>1. CASE e \in uses
      BY <1>2, <3>1 DEF UsesOK
    <3>2. CASE e = <<Top.obj, b>>
      <4>1. PICK o : o = Top.obj
        OBVIOUS
      <4>2. e[1] = o /\ e[2] = b
        BY <3>2, <4>1
      <4>3. OnStack(o)'
        BY <1>1, <1>2, <4>1
      <4> QED  BY <1>2, <4>2, <4>3
    <3> QED  BY <1>3, <3>1, <3>2
  <2> QED  BY <1>3, <1>8, <2>1 DEF UsesOK
<1> QED  BY <1>5, <1>6, <1>7, <1>8, <1>9

(* The Init on top returns. *)
EndStep(o) ==
    /\ pc = "init" /\ o = Top.obj /\ Top.sort = "block" /\ o # Globals
    /\ PopStack /\ pc' = IF Depth > 1 THEN "init" ELSE "start"
    /\ UNCHANGED <<insts, names, initialized, uses>>
    /\ Finished' = Finished \cup {o}
    /\ IF Types[insts[o].type].closer THEN Pushed(Hooks, o, Hooks') ELSE Hooks' = Hooks

LEMMA EndStack ==
  ASSUME StartTypes, StackOK, NEW o, EndStep(o)
  PROVE  /\ Depth \in Nat /\ Depth > 0 /\ Depth' = Depth - 1 /\ FramesOK'
         /\ \A i \in 1 .. Depth' : i \in 1 .. Depth /\ stack'[i].obj = stack[i].obj /\ stack'[i].sort = stack[i].sort
                                   /\ stack[i].obj # o /\ Calls(uses, Objs, stack[i].obj, o, "block")
         /\ \A x : OnStack(x) => x = o \/ OnStack(x)'
         /\ \A x : OnStack(x)' => x # o /\ OnStack(x)
         /\ o \in Objs /\ o \notin Finished /\ OnStack(o)
<1>1. FramesOK /\ Depth > 0 /\ stack[Depth].obj = o /\ stack[Depth].sort = "block"
  BY DEF StartTypes, StackOK, EndStep, Top, Depth
<1>2. Depth \in Nat /\ Depth \in 1 .. Depth
  BY <1>1, DepthNat
<1>3. FramesOK' /\ Depth' = Depth - 1 /\ SameTo(Depth - 1)
  BY DEF EndStep, PopStack
<1>4. o \in Objs /\ o \notin Finished /\ OnStack(o)
  BY <1>1, <1>2 DEF StartTypes, StackOK, EndStep
<1>5. ASSUME NEW i \in 1 .. Depth'
      PROVE  i \in 1 .. Depth /\ stack'[i].obj = stack[i].obj /\ stack'[i].sort = stack[i].sort
             /\ stack[i].obj # o /\ Calls(uses, Objs, stack[i].obj, o, "block")
  <2>1. i \in 1 .. Depth - 1 /\ i \in 1 .. Depth /\ i < Depth
    BY <1>2, <1>3
  <2>2. Calls(uses, Objs, stack[i].obj, o, "block")
    BY <1>1, <1>2, <2>1 DEF StackOK
  <2>3. stack[i].obj # o
    BY <2>2 DEF Calls
  <2> QED  BY <1>3, <2>1, <2>2, <2>3 DEF SameTo
<1>6. \A i \in 1 .. Depth : i \in 1 .. Depth' \/ i = Depth
  BY <1>2, <1>3
<1>7. \A x : OnStack(x) => x = o \/ OnStack(x)'
  BY <1>1, <1>5, <1>6 DEF OnStack
<1>8. \A x : OnStack(x)' => x # o /\ OnStack(x)
  BY <1>5 DEF OnStack
<1> QED  BY <1>1, <1>2, <1>3, <1>4, <1>5, <1>7, <1>8

(* Unless they use each other in a circle, whatever the object has used has *)
(* been initialised by now.                                                 *)
LEMMA EndDone ==
  ASSUME StartTypes, StackOK, UsesOK, NEW o, EndStep(o), NoCircle(uses, Objs)
  PROVE  DoneUsesDone'
<1>1. /\ \A i \in 1 .. Depth' : stack[i].obj # o /\ Calls(uses, Objs, stack[i].obj, o, "block")
      /\ \A i \in 1 .. Depth' : stack'[i].obj = stack[i].obj
      /\ \A x : OnStack(x) => x = o \/ OnStack(x)'
      /\ o \in Objs
  BY EndStack
<1>2. uses' = uses /\ Finished' = Finished \cup {o} /\ Edges(uses, Objs) /\ o # Globals
  BY DEF EndStep, StartTypes
<1>3. ASSUME NEW e \in uses, e[1] = o, e[2] \notin Finished \cup {o} PROVE FALSE
  <2>1. PICK x : x = e[2]
    OBVIOUS
  <2>2. x \in Objs /\ x # Globals /\ OnStack(x)'
    BY <1>1, <1>2, <1>3, <2>1 DEF UsesOK, Edges, Objs, Globals
  <2>3. PICK i \in 1 .. Depth' : stack'[i].obj = x
    BY <2>2 DEF OnStack
  <2>4. x \in Reach(uses, Objs, o)
    BY <1>1, <1>3, <2>1, <2>2, <2>3 DEF Calls
  <2>5. o \in Reach(uses, Objs, x)
    BY <1>2, <1>3, <2>1, ReachStep
  <2>6. o \in Reach(uses, Objs, o)
    BY <1>2, <2>4, <2>5, ReachTrans
  <2> QED  BY <1>1, <2>6 DEF NoCircle
<1> QED  BY <1>2, <1>3 DEF DoneUsesDone, UsesOK

LEMMA EndHooks ==
  ASSUME StartInv, NEW o, EndStep(o)
  PROVE  HooksOK'
<1> USE DEF StartInv
<1>1. o \in Objs /\ o \notin Finished
  BY EndStack
<1>2. uses' = uses /\ insts' = insts /\ Objs' = Objs /\ Finished' = Finished \cup {o} /\ Edges(uses, Objs)
  BY DEF EndStep, StartTypes, Objs
<1>3. CASE ~Types[insts[o].type].closer
  <2>1. Hooks' = Hooks
    BY <1>3 DEF EndStep
  <2>2. Closers' = Closers
    BY <1>2, <1>3 DEF Closers
  <2> QED  BY <1>2, <2>1, <2>2 DEF HooksOK
<1>4. CASE Types[insts[o].type].closer
  <2>1. Pushed(Hooks, o, Hooks')
    BY <1>4 DEF EndStep
  <2>2. PICK h, g, n : h = Hooks /\ g = Hooks' /\ n = Len(h)
    OBVIOUS
  <2>3. /\ IsSeq(g) /\ Len(g) = n + 1 /\ n \in Nat
        /\ \A i \in 1 .. n : g[i] = h[i]
        /\ g[n + 1] = o
    BY <2>1, <2>2, SeqFacts DEF Pushed, HooksOK
  <2>4. n + 1 \in 1 .. n + 1 /\ \A i \in 1 .. n + 1 : i \in 1 .. n \/ i = n + 1
    BY <2>3
  <2>5. \A i \in 1 .. n : i \in 1 .. n + 1
    BY <2>3
  <2>6. {h[i] : i \in 1 .. n} = Closers
    BY <2>2 DEF HooksOK
  <2>7. Closers' = Closers \cup {o}
    BY <1>2, <1>4 DEF Closers
  <2>8. {g[i] : i \in 1 .. n + 1} = Closers \cup {o}
    <3>1. \A i \in 1 .. n + 1 : g[i] \in Closers \cup {o}
      BY <2>3, <2>4, <2>6
    <3>2. \A c \in Closers \cup {o} : \E i \in 1 .. n + 1 : c = g[i]
      BY <2>3, <2>4, <2>5, <2>6
    <3> QED  BY <3>1, <3>2
  <2>9. \A i \in 1 .. n : h[i] \in Finished
    BY <2>6 DEF Closers
  <2>10. \A i, j \in 1 .. n : h[i] = h[j] => i = j
    BY <2>2 DEF HooksOK
  <2>11. \A i, j \in 1 .. n + 1 : g[i] = g[j] => i = j
    BY <1>1, <2>3, <2>4, <2>9, <2>10
  <2>12. ASSUME NoCircle(uses, Objs), NEW i \in 1 .. n + 1, NEW j \in 1 .. n + 1, i < j
         PROVE  g[i] \notin Reach(uses, Objs, g[j])
    <3>1. i \in 1 .. n /\ g[i] = h[i] /\ h[i] \in Finished
      BY <2>3, <2>9, <2>12
    <3>2. CASE j = n + 1
      <4>1. PICK us, objs, done : us = uses /\ objs = Objs /\ done = Finished
        OBVIOUS
      <4>2. \A e \in us : e[1] \in done => e[2] \in done
        BY <2>12, <4>1 DEF UsesOK, DoneUsesDone
      <4>3. \A u \in done : u \notin Reach(us, objs, o)
        BY <1>1, <1>2, <4>1, <4>2, ReachOfUndone
      <4> QED  BY <2>3, <3>1, <3>2, <4>1, <4>3
    <3>3. CASE j # n + 1
      <4>1. j \in 1 .. n /\ g[j] = h[j]
        BY <2>3, <3>3
      <4> QED  BY <2>2, <2>12, <3>1, <4>1 DEF HooksOK
    <3> QED  BY <3>2, <3>3
  <2> QED  BY <1>2, <2>2, <2>3, <2>7, <2>8, <2>11, <2>12 DEF HooksOK
<1> QED  BY <1>3, <1>4

LEMMA EndKeeps ==
  ASSUME StartInv, NEW o, EndStep(o)
  PROVE  StartInv'
<1> USE DEF StartInv
<1>1. /\ Depth \in Nat /\ Depth > 0 /\ Depth' = Depth - 1 /\ FramesOK'
      /\ \A i \in 1 .. Depth' : i \in 1 .. Depth /\ stack'[i].obj = stack[i].obj /\ stack'[i].sort = stack[i].sort
                                /\ stack[i].obj # o
      /\ \A x : OnStack(x) => x = o \/ OnStack(x)'
      /\ \A x : OnStack(x)' => x # o /\ OnStack(x)
      /\ o \in Objs /\ o \notin Finished /\ OnStack(o)
  BY EndStack
<1>2. /\ uses' = uses /\ insts' = insts /\ Objs' = Objs /\ Finished' = Finished \cup {o} /\ names' = names
      /\ initialized' = initialized /\ pc = "init" /\ pc' = IF Depth > 1 THEN "init" ELSE "start"
  BY DEF EndStep, Objs
<1>3. Depth' > 0 <=> Depth > 1
  BY <1>1
<1>4. Depth' > 0 => 1 \in 1 .. Depth'
  BY <1>1
<1>5. StartTypes'
  BY <1>1, <1>2 DEF StartTypes
<1>6. NamesOK'
  <2>1. \A n \in DOMAIN names : OnStack(names[n])' => OnStack(names[n])
    BY <1>1, <1>2 DEF OnStack
  <2>2. \A n \in DOMAIN names : OnStack(names[n]) => names[n] = o \/ OnStack(names[n])'
    BY <1>1, <1>2 DEF OnStack
  <2>3. \A n \in DOMAIN names : names[n] \in Finished \cup {o} \/ OnStack(names[n])' => n \in initialized
    BY <1>1, <2>1 DEF NamesOK
  <2>4. \A n \in initialized : n \in DOMAIN names /\ (names[n] \in Finished \cup {o} \/ OnStack(names[n])')
    BY <2>2 DEF NamesOK
  <2>5. Depth' > 0 /\ stack'[1].obj = Globals => DOMAIN names = {}
    BY <1>1, <1>4 DEF NamesOK
  <2> QED  BY <1>2, <2>3, <2>4, <2>5 DEF NamesOK
<1>7. StackOK'
  <2>1. ASSUME NEW i \in 1 .. Depth' PROVE stack'[i].obj \notin Finished \cup {o} /\ OnStack(stack[i].obj)'
    <3>1. PICK x : x = stack'[i].obj
      OBVIOUS
    <3>2. x # o /\ x \notin Finished /\ OnStack(x)
      BY <1>1, <3>1 DEF StackOK
    <3>3. OnStack(x)'
      BY <1>1, <3>2
    <3> QED  BY <3>1, <3>2, <3>3
  <2>2. \A i, j \in 1 .. Depth' : i < j => Calls(uses, Objs, stack'[i].obj, stack'[j].obj, stack'[j].sort)
    BY <1>1 DEF StackOK
  <2>3. Depth' > 0 => stack'[1].sort = "block"
    BY <1>1, <1>4 DEF StackOK
  <2>4. pc' = "init" <=> Depth' > 0
    BY <1>2, <1>3
  <2> QED  BY <1>2, <2>1, <2>2, <2>3, <2>4 DEF StackOK
<1>8. UsesOK'
  <2>1. NoCircle(uses, Objs) => DoneUsesDone'
    BY EndDone
  <2> QED  BY <1>1, <1>2, <2>1 DEF UsesOK
<1>9. HooksOK'
  BY EndHooks
<1> QED  BY <1>5, <1>6, <1>7, <1>8, <1>9

(* The Init of the global directives, and of an endpoint, begins. *)
BeginStep(o) ==
    /\ pc \in {"read", "start"} /\ pc' = "init"
    /\ UNCHANGED <<insts, names, initialized, values, uses, hooks>>
    /\ FramesOK' /\ Depth' = 1 /\ stack'[1].sort = "block" /\ stack'[1].obj = o
    /\ o \in (Objs \cup {Globals}) \ Finished
    /\ \A n \in DOMAIN names : names[n] # o
    /\ o = Globals => DOMAIN names = {}

LEMMA BeginKeeps ==
  ASSUME StartInv, NEW o, BeginStep(o)
  PROVE  StartInv'
<1> USE DEF StartInv
<1>1. /\ uses' = uses /\ insts' = insts /\ Objs' = Objs /\ values' = values /\ Finished' = Finished /\ names' = names
      /\ initialized' = initialized /\ hooks' = hooks /\ Hooks' = Hooks /\ pc \in {"read", "start"} /\ pc' = "init"
      /\ FramesOK' /\ Depth' = 1 /\ stack'[1].sort = "block" /\ stack'[1].obj = o
      /\ o \in (Objs \cup {Globals}) \ Finished
  BY DEF BeginStep, Objs, Finished, Hooks
<1>2. Depth \in Nat /\ ~(Depth > 0)
  BY <1>1, DepthNat DEF StackOK, StartTypes
<1>3. \A i \in 1 .. Depth' : i = 1
  BY <1>1
<1>4. 1 \in 1 .. Depth'
  BY <1>1
<1>5. \A x : ~OnStack(x)
  BY <1>2 DEF OnStack
<1>6. \A x : OnStack(x)' <=> x = o
  BY <1>1, <1>3, <1>4 DEF OnStack
<1>7. StartTypes'
  BY <1>1, <1>3 DEF StartTypes
<1>8. NamesOK'
  <2>1. \A n \in DOMAIN names : ~OnStack(names[n])'
    BY <1>1, <1>6 DEF BeginStep, OnStack
  <2>2. \A n \in DOMAIN names : ~OnStack(names[n])
    BY <1>5
  <2> QED  BY <1>1, <2>1, <2>2 DEF NamesOK, BeginStep
<1>9. StackOK'
  <2>1. \A i \in 1 .. Depth' : stack'[i].obj \notin Finished /\ OnStack(stack[i].obj)'
    BY <1>1, <1>3, <1>4 DEF OnStack
  <2>2. \A i, j \in 1 .. Depth' : ~(i < j)
    BY <1>3
  <2> QED  BY <1>1, <2>1, <2>2 DEF StackOK
<1>10. UsesOK'
  BY <1>1, <1>5 DEF UsesOK, DoneUsesDone
<1>11. HooksOK'
  BY <1>1 DEF HooksOK, Closers
<1> QED  BY <1>7, <1>8, <1>9, <1>10, <1>11

(* The global directives have been read. *)
GlobalsStep ==
    /\ pc = "init" /\ pc' = "register" /\ stack' = <<>>
    /\ Top.obj = Globals /\ Top.sort = "block"
    /\ UNCHANGED <<insts, names, initialized, values, uses, hooks>>

LEMMA EmptyStack == ASSUME stack' = <<>> PROVE FramesOK' /\ Depth' = 0
<1>1. PICK s : s = stack'
  OBVIOUS
<1>2. s \in Seq({}) /\ Len(s) = 0
  BY <1>1
<1>3. IsSeq(s)
  BY <1>2, SeqIs
<1>4. IsSeq(stack') /\ Depth' = 0
  BY <1>1, <1>2, <1>3 DEF Depth
<1>5. \A i \in 1 .. 0 : FALSE
  OBVIOUS
<1> QED  BY <1>4, <1>5 DEF FramesOK

LEMMA GlobalsKeeps == StartInv /\ GlobalsStep => StartInv'
<1> SUFFICES ASSUME StartInv, GlobalsStep PROVE StartInv'
  OBVIOUS
<1> USE DEF StartInv
<1>1. /\ uses' = uses /\ insts' = insts /\ Objs' = Objs /\ values' = values /\ Finished' = Finished /\ names' = names
      /\ initialized' = initialized /\ hooks' = hooks /\ Hooks' = Hooks /\ pc = "init" /\ pc' = "register"
      /\ FramesOK' /\ Depth' = 0
  BY EmptyStack DEF GlobalsStep, Objs, Finished, Hooks
<1>2. /\ Depth \in Nat /\ Depth > 0 /\ Depth \in 1 .. Depth /\ 1 \in 1 .. Depth
      /\ stack[Depth].obj = Globals /\ stack[Depth].sort = "block"
  BY <1>1, DepthNat DEF StackOK, StartTypes, GlobalsStep, Top, Depth
<1>3. Depth = 1
  <2>1. CASE 1 < Depth
    <3>1. Calls(uses, Objs, stack[1].obj, stack[Depth].obj, stack[Depth].sort)
      BY <1>2, <2>1 DEF StackOK
    <3> QED  BY <1>2, <3>1 DEF Calls
  <2> QED  BY <1>2, <2>1
<1>4. \A i \in 1 .. Depth : i = 1
  BY <1>3
<1>5. \A x : OnStack(x) => x = Globals
  BY <1>2, <1>3, <1>4 DEF OnStack
<1>6. DOMAIN names = {} /\ initialized = {}
  BY <1>2, <1>3 DEF NamesOK
<1>7. \A i \in 1 .. Depth' : FALSE
  BY <1>1
<1>8. StartTypes'
  BY <1>1, <1>7 DEF StartTypes
<1>9. NamesOK'
  BY <1>1, <1>6 DEF NamesOK
<1>10. StackOK'
  BY <1>1, <1>7 DEF StackOK
<1>11. UsesOK'
  <2>1. \A e \in uses : e[2] # Globals
    BY DEF StartTypes, Edges, Objs, Globals
  <2> QED  BY <1>1, <1>5, <2>1 DEF UsesOK, DoneUsesDone
<1>12. HooksOK'
  BY <1>1 DEF HooksOK, Closers
<1> QED  BY <1>8, <1>9, <1>10, <1>11, <1>12

(* A block is registered, with a name unless it is an endpoint. *)
RegisterStep ==
    /\ pc = "register" /\ pc' = "register" /\ Grows
    /\ UNCHANGED <<initialized, stack, values, uses, hooks>>
    /\ \/ names' = names
       \/ \E n, o : /\ o \in Objs' \ Objs /\ ~Types[insts'[o].type].endpoint
                    /\ DOMAIN names' = DOMAIN names \cup {n} /\ names'[n] = o
                    /\ \A m \in DOMAIN names : m # n => names'[m] = names[m]

LEMMA RegisterKeeps == StartInv /\ RegisterStep => StartInv'
<1> SUFFICES ASSUME StartInv, RegisterStep PROVE StartInv'
  OBVIOUS
<1> USE DEF StartInv
<1>1. /\ uses' = uses /\ values' = values /\ Finished' = Finished /\ stack' = stack /\ Depth' = Depth
      /\ initialized' = initialized /\ hooks' = hooks /\ pc = "register" /\ pc' = "register" /\ Grows
  BY DEF RegisterStep, Finished, Depth
<1>2. Len(insts) \in Nat /\ Edges(uses, Objs) /\ Finished \subseteq Objs
  BY SeqFacts DEF StartTypes
<1>3. Objs \subseteq Objs'
  BY <1>1, <1>2 DEF Objs, Grows
<1>4. Edges(uses', Objs')
  BY <1>1, <1>2, <1>3 DEF Edges
<1>5. Depth \in Nat /\ Depth = 0
  BY <1>1, DepthNat DEF StartTypes, StackOK
<1>6. \A i \in 1 .. Depth : FALSE
  BY <1>5
<1>7. \A x : ~OnStack(x) /\ ~OnStack(x)'
  BY <1>1, <1>6 DEF OnStack
<1>8. \A m \in DOMAIN names : names[m] \in Objs /\ names[m] \notin Finished
  BY <1>1 DEF StartTypes, NamesOK
<1>9. /\ \A m \in DOMAIN names' : names'[m] \in Objs' /\ names'[m] \notin Finished
      /\ \A l, m \in DOMAIN names' : names'[m] = names'[l] => m = l
      /\ \A m \in DOMAIN names' : ~Types[insts'[names'[m]].type].endpoint
  <2>1. \A m \in DOMAIN names : ~Types[insts'[names[m]].type].endpoint
    BY <1>1, <1>8 DEF NamesOK, Grows
  <2>2. CASE names' = names
    BY <1>3, <1>8, <2>1, <2>2 DEF NamesOK
  <2>3. CASE names' # names
    <3>1. PICK n, o : /\ o \in Objs' \ Objs /\ ~Types[insts'[o].type].endpoint
                      /\ DOMAIN names' = DOMAIN names \cup {n} /\ names'[n] = o
                      /\ \A m \in DOMAIN names : m # n => names'[m] = names[m]
      BY <2>3 DEF RegisterStep
    <3>2. \A m \in DOMAIN names' : m = n \/ (m \in DOMAIN names /\ names'[m] = names[m])
      BY <3>1
    <3>3. \A m \in DOMAIN names' : names'[m] \in Objs' /\ names'[m] \notin Finished
      BY <1>2, <1>3, <1>8, <3>1, <3>2
    <3>4. \A l, m \in DOMAIN names' : names'[m] = names'[l] => m = l
      BY <1>8, <3>1, <3>2 DEF NamesOK
    <3>5. \A m \in DOMAIN names' : ~Types[insts'[names'[m]].type].endpoint
      BY <2>1, <3>1, <3>2
    <3> QED  BY <3>3, <3>4, <3>5
  <2> QED  BY <2>2, <2>3
<1>10. StartTypes'
  <2>1. \A m \in DOMAIN names' : names'[m] \in Objs'
    BY <1>9
  <2>2. FramesOK' /\ \A i \in 1 .. Depth' : stack'[i].obj \in Objs' \cup {Globals}
    BY <1>1, <1>6 DEF StartTypes, FramesOK, IsFrame
  <2> QED  BY <1>1, <1>2, <1>3, <1>4, <2>1, <2>2 DEF StartTypes, Grows
<1>11. NamesOK'
  <2>1. initialized = {}
    BY <1>1 DEF NamesOK
  <2>2. \A n \in DOMAIN names' : ~OnStack(names[n])'
    BY <1>1, <1>6 DEF OnStack
  <2> QED  BY <1>1, <1>5, <1>9, <2>1, <2>2 DEF NamesOK
<1>12. StackOK'
  BY <1>1, <1>5, <1>6 DEF StackOK
<1>13. HooksOK' /\ (NoCircle(uses', Objs') => DoneUsesDone')
  BY <1>1, <1>4, HooksKeep
<1>14. UsesOK'
  BY <1>1, <1>7, <1>13 DEF UsesOK
<1> QED  BY <1>10, <1>11, <1>12, <1>13, <1>14

(* Nothing is created or initialised. *)
SameStep ==
    /\ UNCHANGED <<insts, names, initialized, stack, values, uses, hooks>>
    /\ \/ pc' = pc
       \/ pc # "init" /\ pc' \notin {"init", "read", "register"}

LEMMA SameKeeps == StartInv /\ SameStep => StartInv'
<1> SUFFICES ASSUME StartInv, SameStep PROVE StartInv'
  OBVIOUS
<1> USE DEF StartInv
<1>1. /\ uses' = uses /\ insts' = insts /\ Objs' = Objs /\ values' = values /\ Finished' = Finished /\ names' = names
      /\ initialized' = initialized /\ hooks' = hooks /\ Hooks' = Hooks /\ stack' = stack /\ Depth' = Depth
      /\ (pc' = pc \/ (pc # "init" /\ pc' \notin {"init", "read", "register"}))
  BY DEF SameStep, Objs, Finished, Hooks, Depth
<1>2. \A x : OnStack(x)' <=> OnStack(x)
  BY <1>1 DEF OnStack
<1>3. StartTypes'
  BY <1>1 DEF StartTypes, FramesOK, IsFrame
<1>4. NamesOK'
  <2>1. \A n \in DOMAIN names : OnStack(names[n])' <=> OnStack(names[n])
    BY <1>1 DEF OnStack
  <2> QED  BY <1>1, <2>1 DEF NamesOK
<1>5. StackOK'
  <2>1. \A i \in 1 .. Depth : OnStack(stack[i].obj)' <=> OnStack(stack[i].obj)
    BY <1>1 DEF OnStack
  <2> QED  BY <1>1, <2>1 DEF StackOK
<1>6. UsesOK'
  BY <1>1, <1>2 DEF UsesOK, DoneUsesDone
<1>7. HooksOK'
  BY <1>1 DEF HooksOK, Closers
<1> QED  BY <1>3, <1>4, <1>5, <1>6, <1>7

------------------------------------------------------------------------------
(* Every step of the start is one of these, or it fails *)

Failing == pc' = "failed" /\ closed' = closed

LEMMA OnTop ==
  ASSUME StartInv, pc = "init"
  PROVE  FramesOK /\ Depth > 0 /\ IsFrame(Top)
<1>1. FramesOK /\ Depth > 0
  BY DEF StartInv, StartTypes, StackOK
<1>2. PICK b : b = Below
  OBVIOUS
<1> QED  BY <1>1, <1>2, StackBelow

LEMMA TakeUnknownInner ==
  ASSUME StartInv, TakeUnknown
  PROVE  Failing \/ InnerStep
<1>1. pc = "init" /\ closed' = closed
  BY DEF TakeUnknown, Taking, runVars
<1>2. CASE Fail
  BY <1>1, <1>2 DEF Fail, Failing
<1>3. CASE ~Fail
  <2>1. PICK f, x, y, g : f = Top /\ x = Top.at + 1 /\ y = Append(Top.unknown, Node1) /\ g = Aside(f, x, y)
    OBVIOUS
  <2>2. /\ stack' = Append(Below, g)
        /\ UNCHANGED <<pc, insts, names, initialized, values, uses, hooks>>
    BY <1>3, <2>1 DEF TakeUnknown, SetTop, Aside
  <2>3. IsFrame(g) /\ g.obj = Top.obj /\ g.sort = Top.sort
    BY <1>1, <2>1, OnTop, FrameUnknown
  <2>4. TurnStack
    BY <1>1, <2>2, <2>3, OnTop, StackTurns
  <2> QED  BY <1>1, <2>2, <2>4 DEF InnerStep
<1> QED  BY <1>2, <1>3

LEMMA TakeValueInner ==
  ASSUME StartInv, TakeValue
  PROVE  Failing \/ InnerStep
<1>1. pc = "init" /\ closed' = closed
  BY DEF TakeValue, Taking, runVars
<1>2. CASE Fail
  BY <1>1, <1>2 DEF Fail, Failing
<1>3. CASE ~Fail
  <2>1. PICK f, n, v, g : /\ f = Top /\ n = Node1.name
                          /\ v = (CHOOSE x \in Mapped(Matchers[Node1.name], Node1) : TRUE)
                          /\ g = Done(f, n, v)
    OBVIOUS
  <2>2. /\ stack' = Append(Below, g)
        /\ UNCHANGED <<pc, insts, names, initialized, values, uses, hooks>>
    BY <1>3, <2>1 DEF TakeValue, SetTop
  <2>3. IsFrame(g) /\ g.obj = Top.obj /\ g.sort = Top.sort
    BY <1>1, <2>1, OnTop, FrameDone
  <2>4. TurnStack
    BY <1>1, <2>2, <2>3, OnTop, StackTurns
  <2> QED  BY <1>1, <2>2, <2>4 DEF InnerStep
<1> QED  BY <1>2, <1>3

LEMMA TakeTLSInner ==
  ASSUME StartInv, TakeTLS
  PROVE  Failing \/ InnerStep
<1>1. pc = "init" /\ closed' = closed
  BY DEF TakeTLS, Taking, runVars
<1>2. CASE Fail
  BY <1>1, <1>2 DEF Fail, Failing
<1>3. CASE ~Fail
  <2>1. PICK f, n, w, x, g, i, kids :
          /\ f = Top /\ n = Node1.name /\ w = <<"off">> /\ x = <<"on">> /\ g = Done(f, n, w) /\ i = Done(f, n, x)
          /\ kids = (IF Node1.args = <<>> THEN <<>> ELSE <<Dir("loader_arg", Node1.args)>>) \o Node1.kids
    OBVIOUS
  <2>2. /\ UNCHANGED <<pc, insts, names, initialized, values, uses, hooks>>
        /\ \/ stack' = Append(Below, g)
           \/ stack' = Append(Append(Below, i), NewFrame(Top.obj, "tls", kids))
    BY <1>3, <2>1 DEF TakeTLS, SetTop
  <2>3. /\ IsFrame(g) /\ g.obj = Top.obj /\ g.sort = Top.sort
        /\ IsFrame(i) /\ i.obj = Top.obj /\ i.sort = Top.sort
    BY <1>1, <2>1, OnTop, FrameDone
  <2>4. CASE stack' = Append(Below, g)
    <3>1. TurnStack
      BY <1>1, <2>3, <2>4, OnTop, StackTurns
    <3> QED  BY <1>1, <2>2, <3>1 DEF InnerStep
  <2>5. CASE stack' = Append(Append(Below, i), NewFrame(Top.obj, "tls", kids))
    <3>1. PICK o, s, h : o = Top.obj /\ s = "tls" /\ h = NewFrame(o, s, kids)
      OBVIOUS
    <3>2. IsFrame(h) /\ h.obj = o /\ h.sort = s
      BY <3>1, NewFrameIs
    <3>3. PushStack(h.obj, h.sort)
      BY <1>1, <2>3, <2>5, <3>1, <3>2, OnTop, StackPushes
    <3>4. PushStack(Top.obj, s) /\ s # "block"
      BY <3>1, <3>2, <3>3 DEF PushStack
    <3> QED  BY <1>1, <2>2, <3>4 DEF InnerStep
  <2> QED  BY <2>2, <2>4, <2>5
<1> QED  BY <1>2, <1>3

LEMMA EndPipelineInner ==
  ASSUME StartInv, EndPipeline
  PROVE  Failing \/ InnerStep
<1>1. pc = "init" /\ closed' = closed
  BY DEF EndPipeline, AtEnd, runVars
<1>2. CASE Fail
  BY <1>1, <1>2 DEF Fail, Failing
<1>3. CASE ~Fail
  <2>1. PICK f, g, kids : f = Top /\ g = [f EXCEPT !.piped = TRUE] /\ kids = ParsePipeline(Top.unknown).refs
    OBVIOUS
  <2>2. /\ UNCHANGED <<pc, insts, names, initialized, values, uses, hooks>>
        /\ stack' = Append(Append(Below, g), NewFrame(Top.obj, "pipeline", kids))
    BY <1>3, <2>1 DEF EndPipeline
  <2>3. IsFrame(g) /\ g.obj = Top.obj /\ g.sort = Top.sort
    BY <1>1, <2>1, OnTop, FramePiped
  <2>4. PICK o, s, h : o = Top.obj /\ s = "pipeline" /\ h = NewFrame(o, s, kids)
    OBVIOUS
  <2>5. IsFrame(h) /\ h.obj = o /\ h.sort = s
    BY <2>4, NewFrameIs
  <2>6. PushStack(h.obj, h.sort)
    BY <1>1, <2>2, <2>3, <2>4, <2>5, OnTop, StackPushes
  <2>7. PushStack(Top.obj, s) /\ s # "block"
    BY <2>4, <2>5, <2>6 DEF PushStack
  <2> QED  BY <1>1, <2>2, <2>7 DEF InnerStep
<1> QED  BY <1>2, <1>3

LEMMA EndPartInner ==
  ASSUME StartInv, EndTLS \/ EndPipelineModules
  PROVE  InnerStep
<1>1. /\ pc = "init" /\ stack' = Below /\ Top.sort # "block"
      /\ UNCHANGED <<pc, insts, names, initialized, values, uses, hooks>>
  BY DEF EndTLS, EndPipelineModules, AtEnd
<1>2. PopStack
  BY <1>1, OnTop, StackPops
<1> QED  BY <1>1, <1>2 DEF InnerStep

LEMMA SameGrows ==
  ASSUME StartInv, insts' = insts
  PROVE  Grows /\ Objs' = Objs
<1>1. Len(insts) \in Nat /\ IsSeq(insts) /\ \A o \in Objs : insts[o].type \in DOMAIN Types
  BY SeqFacts DEF StartInv, StartTypes
<1>2. IsSeq(insts')
  BY <1>1 DEF IsSeq
<1> QED  BY <1>1, <1>2 DEF Grows, Objs

LEMMA NewGrows ==
  ASSUME StartInv, NEW n, NEW type \in DOMAIN Types, NEW k, insts' = Append(insts, NewObject(n, type, k))
  PROVE  /\ Grows /\ Len(insts) + 1 \in Objs' \ Objs /\ insts'[Len(insts) + 1].type = type
         /\ Len(insts) + 1 \notin Finished /\ ~OnStack(Len(insts) + 1)
<1>1. PICK s, e, r, len : s = insts /\ e = NewObject(n, type, k) /\ r = insts' /\ len = Len(insts)
  OBVIOUS
<1>2. IsSeq(s) /\ len \in Nat /\ len = Len(s)
  BY <1>1, SeqFacts DEF StartInv, StartTypes
<1>3. Pushed(s, e, r)
  <2>1. r = Append(s, e)
    BY <1>1
  <2> QED  BY <1>2, <2>1, SeqPush
<1>4. IsSeq(insts') /\ Len(insts') = len + 1 /\ insts'[len + 1] = e /\ \A o \in 1 .. len : insts'[o] = insts[o]
  BY <1>1, <1>2, <1>3 DEF Pushed
<1>5. e.type = type
  BY <1>1 DEF NewObject
<1>6. Objs = 1 .. len /\ Objs' = 1 .. len + 1
  BY <1>1, <1>4 DEF Objs
<1>7. \A o \in 1 .. len + 1 : o \in 1 .. len \/ o = len + 1
  BY <1>2
<1>8. \A o \in 1 .. len : insts[o].type \in DOMAIN Types
  BY <1>6 DEF StartInv, StartTypes
<1>9. Grows
  <2>1. Len(insts') \in Nat /\ Len(insts') >= Len(insts)
    BY <1>1, <1>2, <1>4
  <2>2. \A o \in Objs : insts'[o] = insts[o] /\ insts'[o].type = insts[o].type
    BY <1>4, <1>6
  <2>3. \A o \in Objs' : insts'[o].type \in DOMAIN Types
    BY <1>4, <1>5, <1>6, <1>7, <1>8
  <2> QED  BY <1>4, <2>1, <2>2, <2>3 DEF Grows
<1>10. len + 1 \in 1 .. len + 1 /\ len + 1 \notin 1 .. len /\ len + 1 # Globals
  BY <1>2 DEF Globals
<1>11. len + 1 \notin Finished
  BY <1>6, <1>10 DEF StartInv, StartTypes
<1>12. ~OnStack(len + 1)
  BY <1>6, <1>10 DEF StartInv, StartTypes, OnStack
<1> QED  BY <1>1, <1>4, <1>5, <1>6, <1>9, <1>10, <1>11, <1>12

LEMMA TakeReferenceUse ==
  ASSUME StartInv, TakeReference
  PROVE  Failing \/ \E b : UseStep(b) /\ \E n \in DOMAIN names : names[n] = b
<1>1. pc = "init" /\ closed' = closed
  BY DEF TakeReference, Taking, runVars
<1>2. CASE Fail
  BY <1>1, <1>2 DEF Fail, Failing
<1>3. CASE ~Fail
  <2>1. PICK name, b, f, n, x, g, kids :
          /\ name = IF Node1.args[1].v \in DOMAIN aliases THEN aliases[Node1.args[1].v] ELSE Node1.args[1].v
          /\ b = names[name] /\ f = Top /\ n = Node1.name /\ x = <<"module">> /\ g = Done(f, n, x)
          /\ kids = insts[b].node.kids
    OBVIOUS
  <2>2. /\ name \in DOMAIN names
        /\ uses' = uses \cup {<<Top.obj, b>>}
        /\ initialized' = initialized \cup {name}
        /\ stack' = IF name \in initialized THEN Append(Below, g) ELSE Append(Append(Below, g), NewFrame(b, "block", kids))
        /\ UNCHANGED <<pc, insts, names, values, hooks>>
    BY <1>3, <2>1 DEF TakeReference, Uses, Marked
  <2>3. IsFrame(g) /\ g.obj = Top.obj /\ g.sort = Top.sort
    BY <1>1, <2>1, OnTop, FrameDone
  <2>4. Grows /\ Objs' = Objs
    BY <2>2, SameGrows
  <2>5. b \in Objs'
    BY <2>1, <2>2, <2>4 DEF StartInv, StartTypes
  <2>6. \A m \in DOMAIN names : names[m] = b => m = name
    BY <2>1, <2>2 DEF StartInv, NamesOK
  <2>7. \/ TurnStack /\ (b \in Finished \/ OnStack(b))
        \/ PushStack(b, "block") /\ b \notin Finished /\ ~OnStack(b)
    <3>1. CASE name \in initialized
      <4>1. TurnStack
        BY <1>1, <2>2, <2>3, <3>1, OnTop, StackTurns
      <4>2. b \in Finished \/ OnStack(b)
        BY <2>1, <3>1 DEF StartInv, NamesOK
      <4> QED  BY <4>1, <4>2
    <3>2. CASE name \notin initialized
      <4>1. PICK s, h : s = "block" /\ h = NewFrame(b, s, kids)
        OBVIOUS
      <4>2. IsFrame(h) /\ h.obj = b /\ h.sort = s
        BY <4>1, NewFrameIs
      <4>3. PushStack(h.obj, h.sort)
        BY <1>1, <2>2, <2>3, <3>2, <4>1, <4>2, OnTop, StackPushes
      <4>4. PushStack(b, "block")
        BY <4>1, <4>2, <4>3
      <4>5. b \notin Finished /\ ~OnStack(b)
        BY <2>1, <2>2, <3>2 DEF StartInv, NamesOK
      <4> QED  BY <4>4, <4>5
    <3> QED  BY <3>1, <3>2
  <2>8. UseStep(b)
    BY <1>1, <2>1, <2>2, <2>4, <2>5, <2>6, <2>7 DEF UseStep
  <2> QED  BY <2>1, <2>2, <2>8
<1> QED  BY <1>2, <1>3

LEMMA TakeInlineUse ==
  ASSUME StartInv, TakeInline
  PROVE  Failing \/ \E b : UseStep(b) /\ b = Len(insts) + 1
<1>1. pc = "init" /\ closed' = closed
  BY DEF TakeInline, Taking, runVars
<1>2. CASE Fail
  BY <1>1, <1>2 DEF Fail, Failing
<1>3. CASE ~Fail
  <2>1. PICK type, b, f, n, x, g, kids, em, nd :
          /\ type = TypeOf(Matchers[Node1.name], Node1) /\ em = "" /\ nd = Node1
          /\ b = Len(insts) + 1 /\ f = Top /\ n = Node1.name /\ x = <<"module">> /\ g = Done(f, n, x)
          /\ kids = Node1.kids
    OBVIOUS
  <2>2. /\ type \in DOMAIN Types
        /\ insts' = Append(insts, NewObject(em, type, nd))
        /\ uses' = uses \cup {<<Top.obj, b>>}
        /\ stack' = Append(Append(Below, g), NewFrame(b, "block", kids))
        /\ UNCHANGED <<pc, names, initialized, values, hooks>>
    BY <1>3, <2>1 DEF TakeInline, Uses, Marked
  <2>11. f = Top /\ g = Done(f, n, x)
    BY <2>1
  <2>3. IsFrame(g) /\ g.obj = Top.obj /\ g.sort = Top.sort
    BY <1>1, <2>11, OnTop, FrameDone
  <2>4. Grows /\ b \in Objs' \ Objs /\ b \notin Finished /\ ~OnStack(b)
    BY <2>1, <2>2, NewGrows
  <2>5. PICK s, h : s = "block" /\ h = NewFrame(b, s, kids)
    OBVIOUS
  <2>6. IsFrame(h) /\ h.obj = b /\ h.sort = s
    BY <2>5, NewFrameIs
  <2>7. PushStack(h.obj, h.sort)
    BY <1>1, <2>2, <2>3, <2>5, <2>6, OnTop, StackPushes
  <2>8. PushStack(b, "block")
    BY <2>5, <2>6, <2>7
  <2>9. \A m \in DOMAIN names : names[m] # b
    BY <2>4 DEF StartInv, StartTypes
  <2>10. UseStep(b)
    BY <1>1, <2>2, <2>4, <2>8, <2>9 DEF UseStep
  <2> QED  BY <2>1, <2>10
<1> QED  BY <1>2, <1>3

LEMMA EndInitEnd ==
  ASSUME StartInv, mode = "run", EndInit
  PROVE  Failing \/ EndStep(Top.obj)
<1>1. pc = "init"
  BY DEF EndInit, AtEnd
<1>2. CASE Fail
  BY <1>2 DEF Fail, Failing, EndInit, runVars
<1>3. CASE ~Fail
  <2>1. PICK o, b, v : o = Top.obj /\ b = Below /\ v = Over(Top.vals, FilledIn)
    OBVIOUS
  <2>2. /\ Top.sort = "block" /\ o # Globals
        /\ values' = Assign(values, o, v)
        /\ hooks' = [shutdown |-> IF Types[insts[o].type].closer THEN Append(hooks.shutdown, o) ELSE hooks.shutdown,
                     reload |-> IF OwnType.own \in {"file", "certs"} THEN AddHook(hooks.reload, o) ELSE hooks.reload]
        /\ stack' = Below
        /\ pc' = IF b # <<>> THEN pc ELSE "start"
        /\ UNCHANGED <<insts, names, initialized, uses>>
    BY <1>3, <2>1 DEF EndInit, OwnType, AddHook
  <2>3. FramesOK /\ Depth > 0
    BY <1>1, OnTop
  <2>4. IsSeq(b) /\ Len(b) = Depth - 1 /\ Depth \in Nat
    BY <2>1, <2>3, StackBelow
  <2>5. b # <<>> <=> Depth > 1
    BY <2>3, <2>4, SeqFacts
  <2>6. PopStack
    BY <2>2, <2>3, StackPops
  <2>7. Finished' = Finished \cup {o}
    BY <2>2 DEF Finished, Assign
  <2>8. IF Types[insts[o].type].closer THEN Pushed(Hooks, o, Hooks') ELSE Hooks' = Hooks
    <3>1. Hooks' = IF Types[insts[o].type].closer THEN Append(Hooks, o) ELSE Hooks
      BY <2>2 DEF Hooks
    <3>2. PICK h, k : h = Hooks /\ k = Hooks'
      OBVIOUS
    <3>3. IsSeq(h)
      BY <3>2 DEF StartInv, HooksOK
    <3>4. k = Append(h, o) => Pushed(h, o, k)
      BY <3>3, SeqPush
    <3> QED  BY <3>1, <3>2, <3>4
  <2>9. EndStep(o)
    BY <1>1, <2>1, <2>2, <2>5, <2>6, <2>7, <2>8 DEF EndStep
  <2> QED  BY <2>1, <2>9
<1> QED  BY <1>2, <1>3

(* The other steps of the start. *)
LEMMA GlobalsEnd ==
  ASSUME EndGlobals
  PROVE  GlobalsStep
  BY DEF EndGlobals, GlobalsStep, AtEnd

LEMMA ReadConfigBegins ==
  ASSUME StartInv, ReadConfig
  PROVE  Failing \/ BeginStep(Globals)
<1>1. pc = "read" /\ closed' = closed
  BY DEF ReadConfig, runVars
<1>2. CASE Fail
  BY <1>1, <1>2 DEF Fail, Failing
<1>3. CASE ~Fail
  <2>1. PICK o, s, kids, f : o = Globals /\ s = "block" /\ kids = ReadFiles(files).nodes /\ f = NewFrame(o, s, kids)
    OBVIOUS
  <2>2. /\ pc' = "init" /\ stack' = <<f>>
        /\ UNCHANGED <<insts, names, initialized, values, uses, hooks>>
    BY <1>3, <2>1 DEF ReadConfig
  <2>3. IsFrame(f) /\ f.obj = o /\ f.sort = s
    BY <2>1, NewFrameIs
  <2>4. FramesOK' /\ Depth' = 1 /\ stack'[1] = f
    BY <2>2, <2>3, StackBegins
  <2>5. DOMAIN names = {}
    BY <1>1 DEF StartInv, NamesOK
  <2>6. Globals \notin Finished
    BY DEF StartInv, StartTypes, Objs, Globals
  <2> QED  BY <1>1, <2>1, <2>2, <2>3, <2>4, <2>5, <2>6 DEF BeginStep
<1> QED  BY <1>2, <1>3

LEMMA RegisterModuleKind ==
  ASSUME StartInv, RegisterModule
  PROVE  Failing \/ RegisterStep
<1>1. pc = "register" /\ closed' = closed
  BY DEF RegisterModule, runVars
<1>2. CASE Fail
  BY <1>1, <1>2 DEF Fail, Failing
<1>3. CASE ~Fail
  <2>1. PICK n, name, type, o : /\ n = Head(todo) /\ name = IF Args(n) = <<>> THEN n.name ELSE Args(n)[1]
                                /\ type = n.name /\ o = Len(insts) + 1
    OBVIOUS
  <2>2. /\ type \in DOMAIN Types
        /\ insts' = Append(insts, NewObject(name, type, n))
        /\ IF Types[type].endpoint THEN names' = names ELSE names' = Assign(names, name, o)
        /\ UNCHANGED <<pc, initialized, stack, values, uses, hooks>>
    BY <1>3, <2>1 DEF RegisterModule
  <2>3. Grows /\ o \in Objs' \ Objs /\ insts'[o].type = type
    BY <2>1, <2>2, NewGrows
  <2>4. CASE names' = names
    BY <1>1, <2>2, <2>3, <2>4 DEF RegisterStep
  <2>5. CASE names' = Assign(names, name, o) /\ ~Types[type].endpoint
    <3>1. /\ DOMAIN names' = DOMAIN names \cup {name} /\ names'[name] = o
          /\ \A m \in DOMAIN names : m # name => names'[m] = names[m]
      BY <2>5 DEF Assign
    <3>2. ~Types[insts'[o].type].endpoint
      BY <2>3, <2>5
    <3> QED  BY <1>1, <2>2, <2>3, <3>1, <3>2 DEF RegisterStep
  <2> QED  BY <2>2, <2>4, <2>5
<1> QED  BY <1>2, <1>3

LEMMA RegisteredSame ==
  ASSUME mode = "run", Registered
  PROVE  Failing \/ SameStep
<1>1. CASE Fail
  BY <1>1 DEF Fail, Failing, Registered
<1>2. CASE ~Fail
  BY <1>2 DEF Registered, SameStep, startVars
<1> QED  BY <1>1, <1>2

LEMMA LeastNat ==
  ASSUME NEW B, B \subseteq Nat, B # {}
  PROVE  \E n \in B : \A m \in B : n <= m
<1>1. PICK n \in B : \A m \in B : <<m, n>> \notin OpToRel(<, Nat)
  BY NatLessThanWellFounded, WFMin
<1>2. OpToRel(<, Nat) = {ss \in Nat \X Nat : ss[1] < ss[2]}
  BY DEF OpToRel
<1>3. \A m \in B : <<m, n>> \notin {ss \in Nat \X Nat : ss[1] < ss[2]}
  BY <1>1, <1>2, Zenon
<1>4. \A m \in B : ~(m < n)
  BY <1>3
<1> QED  BY <1>4

LEMMA NextEndpointBegins ==
  ASSUME StartInv, NextEndpoint
  PROVE  Failing \/ SameStep \/ \E o : BeginStep(o)
<1>1. pc = "start" /\ closed' = closed
  BY DEF NextEndpoint, runVars
<1>2. PICK rest : rest = {i \in Endpoints : i \notin DOMAIN values}
  OBVIOUS
<1>3. CASE Fail
  BY <1>1, <1>3 DEF Fail, Failing
<1>4. CASE ~Fail /\ rest = {}
  BY <1>1, <1>2, <1>4 DEF NextEndpoint, SameStep, startVars
<1>5. CASE ~Fail /\ rest # {}
  <2>1. PICK o, s, kids, f : /\ o = (CHOOSE i \in rest : \A j \in rest : i <= j) /\ s = "block"
                             /\ kids = insts[o].node.kids /\ f = NewFrame(o, s, kids)
    OBVIOUS
  <2>2. /\ pc' = "init" /\ stack' = <<f>>
        /\ UNCHANGED <<insts, names, initialized, values, uses, hooks>>
    BY <1>2, <1>5, <2>1 DEF NextEndpoint
  <2>3. Objs \subseteq Nat /\ DOMAIN insts = Objs
    BY SeqFacts DEF StartInv, StartTypes, Objs
  <2>4. rest \subseteq Objs
    BY <1>2, <2>3 DEF Endpoints
  <2>5. o \in rest
    BY <1>5, <2>1, <2>3, <2>4, LeastNat
  <2>6. o \in Objs /\ o \notin Finished /\ Types[insts[o].type].endpoint
    BY <1>2, <2>4, <2>5 DEF Finished, Endpoints
  <2>7. IsFrame(f) /\ f.obj = o /\ f.sort = s
    BY <2>1, NewFrameIs
  <2>8. FramesOK' /\ Depth' = 1 /\ stack'[1] = f
    BY <2>2, <2>7, StackBegins
  <2>9. \A n \in DOMAIN names : names[n] # o
    BY <2>6 DEF StartInv, NamesOK
  <2>10. o # Globals
    BY <2>6 DEF Objs, Globals
  <2>11. BeginStep(o)
    BY <1>1, <2>1, <2>2, <2>6, <2>7, <2>8, <2>9, <2>10 DEF BeginStep
  <2> QED  BY <2>11
<1> QED  BY <1>3, <1>4, <1>5

(* What a step of the start does to what has been created and initialised. *)
LEMMA StartKeeps ==
  ASSUME StartInv, mode = "run", StartStep
  PROVE  Failing \/ StartInv'
<1>1. CASE ReadConfig          BY <1>1, ReadConfigBegins, BeginKeeps
<1>2. CASE RegisterModule      BY <1>2, RegisterModuleKind, RegisterKeeps
<1>3. CASE Registered          BY <1>3, RegisteredSame, SameKeeps
<1>4. CASE NextEndpoint        BY <1>4, NextEndpointBegins, BeginKeeps, SameKeeps
<1>5. CASE TakeUnknown         BY <1>5, TakeUnknownInner, InnerKeeps
<1>6. CASE TakeValue           BY <1>6, TakeValueInner, InnerKeeps
<1>7. CASE TakeTLS             BY <1>7, TakeTLSInner, InnerKeeps
<1>8. CASE TakeReference       BY <1>8, TakeReferenceUse, UseKeeps
<1>9. CASE TakeInline          BY <1>9, TakeInlineUse, UseKeeps
<1>10. CASE EndTLS             BY <1>10, EndPartInner, InnerKeeps
<1>11. CASE EndMissing         BY <1>11 DEF EndMissing, Fail, Failing, runVars
<1>12. CASE EndGlobals         BY <1>12, GlobalsEnd, GlobalsKeeps
<1>13. CASE EndPipeline        BY <1>13, EndPipelineInner, InnerKeeps
<1>14. CASE EndPipelineModules BY <1>14, EndPartInner, InnerKeeps
<1>15. CASE EndInit
  <2>1. PICK o : o = Top.obj
    OBVIOUS
  <2>2. Failing \/ EndStep(o)
    BY <1>15, <2>1, EndInitEnd
  <2> QED  BY <2>2, EndKeeps
<1> QED
  BY <1>1, <1>2, <1>3, <1>4, <1>5, <1>6, <1>7, <1>8, <1>9, <1>10, <1>11, <1>12, <1>13, <1>14, <1>15
  DEF StartStep

------------------------------------------------------------------------------
(* The shutdown.  Until it begins nothing is closed *)

LEMMA StartCreates ==
  ASSUME StartInv, mode = "run", StartStep
  PROVE  /\ closed' = closed /\ second' = second /\ pc' \notin Stopping \cup {"exited"}
         /\ left' = left \/ left' = [left EXCEPT !.main = <<>>]
         /\ insts' = insts \/ \E n, k : \E type \in DOMAIN Types : insts' = Append(insts, NewObject(n, type, k))
         /\ (values' = values /\ serving' = serving) \/ (EndInit /\ insts' = insts)
<1> USE DEF Fail, startVars, runVars, Stopping
<1>1. CASE ReadConfig          BY <1>1 DEF ReadConfig
<1>2. CASE RegisterModule
  <2>1. CASE Fail
    BY <1>2, <2>1 DEF RegisterModule
  <2>2. CASE ~Fail
    <3> HIDE DEF Fail, startVars, runVars, Stopping
    <3>1. PICK n, name, type, o : /\ n = Head(todo) /\ name = IF Args(n) = <<>> THEN n.name ELSE Args(n)[1]
                                  /\ type = n.name /\ o = Len(insts) + 1
      OBVIOUS
    <3>2. /\ type \in DOMAIN Types
          /\ insts' = Append(insts, NewObject(name, type, n))
          /\ IF Types[type].endpoint THEN names' = names ELSE names' = Assign(names, name, o)
          /\ UNCHANGED <<pc, initialized, stack, values, uses, hooks>>
      BY <1>2, <2>2, <3>1 DEF RegisterModule
    <3>3. closed' = closed /\ second' = second /\ left' = left /\ serving' = serving /\ pc = "register"
      BY <1>2 DEF RegisterModule, runVars
    <3> QED  BY <3>2, <3>3 DEF Stopping
  <2> QED  BY <2>1, <2>2
<1>3. CASE Registered          BY <1>3 DEF Registered
<1>4. CASE NextEndpoint        BY <1>4 DEF NextEndpoint
<1>5. CASE TakeUnknown         BY <1>5 DEF TakeUnknown, Taking
<1>6. CASE TakeValue           BY <1>6 DEF TakeValue, Taking
<1>7. CASE TakeTLS             BY <1>7 DEF TakeTLS, Taking
<1>8. CASE TakeReference       BY <1>8 DEF TakeReference, Taking
<1>9. CASE TakeInline
  <2>1. CASE Fail
    BY <1>9, <2>1 DEF TakeInline
  <2>2. CASE ~Fail
    <3>1. PICK type, em, nd : type = TypeOf(Matchers[Node1.name], Node1) /\ em = "" /\ nd = Node1
      OBVIOUS
    <3>2. type \in DOMAIN Types /\ insts' = Append(insts, NewObject(em, type, nd))
      BY <1>9, <2>2, <3>1 DEF TakeInline
    <3> QED  BY <1>9, <2>2, <3>2 DEF TakeInline, Taking
  <2> QED  BY <2>1, <2>2
<1>10. CASE EndTLS             BY <1>10 DEF EndTLS, AtEnd
<1>11. CASE EndMissing         BY <1>11 DEF EndMissing, AtEnd
<1>12. CASE EndGlobals         BY <1>12 DEF EndGlobals, AtEnd
<1>13. CASE EndPipeline        BY <1>13 DEF EndPipeline, AtEnd
<1>14. CASE EndPipelineModules BY <1>14 DEF EndPipelineModules, AtEnd
<1>15. CASE EndInit            BY <1>15 DEF EndInit, AtEnd
<1> QED
  BY <1>1, <1>2, <1>3, <1>4, <1>5, <1>6, <1>7, <1>8, <1>9, <1>10, <1>11, <1>12, <1>13, <1>14, <1>15
  DEF StartStep

LEMMA StartServes ==
  ASSUME StartInv, mode = "run", EndInit, insts' = insts
  PROVE  /\ Finished \subseteq Finished'
         /\ \A l \in serving' : l \in serving \/ (l[1] \in Finished' /\ Own(l[1])' = "listen" /\ l[1] \notin Finished)
<1>1. CASE Fail
  BY <1>1 DEF EndInit, Fail, Finished, runVars
<1>2. CASE ~Fail
  <2>1. PICK o, v : o = Top.obj /\ v = Over(Top.vals, FilledIn)
    OBVIOUS
  <2>2. /\ values' = Assign(values, o, v)
        /\ serving' = serving \cup IF Own(o) = "listen" THEN {<<o, i>> : i \in DOMAIN insts[o].node.args} ELSE {}
    BY <1>2, <2>1 DEF EndInit, OwnType, Own
  <2>3. Finished' = Finished \cup {o}
    BY <2>2 DEF Finished, Assign
  <2>4. Depth \in 1 .. Depth /\ Top = stack[Depth]
    BY DepthNat DEF EndInit, AtEnd, StartInv, StartTypes, StackOK, Top, Depth
  <2>5. o \notin Finished
    BY <2>1, <2>4 DEF StartInv, StackOK
  <2>6. \A l \in serving' : l \in serving \/ (l[1] = o /\ Own(o) = "listen")
    BY <2>2
  <2> QED  BY <2>3, <2>5, <2>6 DEF Own
<1> QED  BY <1>1, <1>2

LEMMA LeftForm ==
  ASSUME NEW l, l = [main |-> l.main, second |-> l.second], NEW v
  PROVE  /\ [l EXCEPT !.main = v] = [main |-> v, second |-> l.second]
         /\ [l EXCEPT !.second = v] = [main |-> l.main, second |-> v]
<1>1. PICK a, b : l = [main |-> a, second |-> b]
  OBVIOUS
<1>2. l.main = a /\ l.second = b
  BY <1>1
<1> QED  BY <1>1, <1>2

LEMMA StartClosing ==
  ASSUME PhaseOK, StartInv, StartInv', ClosingOK, mode = "run", StartStep
  PROVE  ClosingOK'
<1>1. pc \in StartPcs
  BY StartEffects
<1>2. closed = {} /\ second = "none" /\ left = [main |-> left.main, second |-> left.second]
  BY <1>1 DEF ClosingOK, StartPcs, Stopping
<1>3. /\ closed' = {} /\ second' = "none" /\ pc' \notin Stopping \cup {"exited"}
      /\ left' = left \/ left' = [left EXCEPT !.main = <<>>]
      /\ insts' = insts \/ \E n, k : \E type \in DOMAIN Types : insts' = Append(insts, NewObject(n, type, k))
      /\ (values' = values /\ serving' = serving) \/ (EndInit /\ insts' = insts)
  BY <1>2, StartCreates
<1>4. left' = [main |-> left'.main, second |-> left'.second]
  <2>1. PICK l, e : l = left /\ e = <<>>
    OBVIOUS
  <2>2. l = [main |-> l.main, second |-> l.second]
    BY <1>2, <2>1
  <2>3. [l EXCEPT !.main = e] = [main |-> e, second |-> l.second]
    BY <2>2, LeftForm
  <2>4. left' = l \/ left' = [l EXCEPT !.main = e]
    BY <1>3, <2>1
  <2> QED  BY <2>2, <2>3, <2>4
<1>5. \E k \in 0 .. Len(Hooks') : HooksLeft(k)'
  <2>1. PICK n : n = Len(Hooks')
    OBVIOUS
  <2>2. n \in Nat
    BY <2>1, SeqFacts DEF StartInv, HooksOK
  <2>3. n + 1 .. n = {} /\ n \in 0 .. n
    BY <2>2
  <2>4. HooksLeft(n)'
    BY <1>3, <2>1, <2>3 DEF HooksLeft
  <2> QED  BY <2>1, <2>3, <2>4
<1>6. \A o \in Objs : insts'[o].type = insts[o].type
  <2>1. CASE insts' = insts
    BY <2>1
  <2>2. CASE \E n, k : \E type \in DOMAIN Types : insts' = Append(insts, NewObject(n, type, k))
    BY <2>2, NewGrows DEF Grows
  <2> QED  BY <1>3, <2>1, <2>2
<1>7. Finished \subseteq Objs
  BY DEF StartInv, StartTypes
<1>8. \A l \in serving' : l[1] \in Finished' /\ Own(l[1])' = "listen" /\ l[1] \notin closed'
  <2>1. \A l \in serving : l[1] \in Finished /\ Own(l[1])' = "listen"
    BY <1>6, <1>7 DEF ClosingOK, Own
  <2>2. CASE values' = values /\ serving' = serving
    BY <1>3, <2>1, <2>2 DEF Finished
  <2>3. CASE EndInit /\ insts' = insts
    BY <1>3, <2>1, <2>3, StartServes
  <2> QED  BY <1>3, <2>2, <2>3
<1> QED  BY <1>3, <1>4, <1>5, <1>8 DEF ClosingOK, Stopping

LEMMA HooksTail ==
  ASSUME NEW h, IsSeq(h), NEW k \in 0 .. Len(h), NEW m, m = SubSeq(h, 1, k), m # <<>>
  PROVE  k \in 1 .. Len(h) /\ Last(m) = h[k] /\ Front(m) = SubSeq(h, 1, k - 1)
<1>1. PICK S : h \in Seq(S)
  BY DEF IsSeq
<1>2. Len(h) \in Nat /\ k \in Nat /\ \A i \in 1 .. Len(h) : h[i] \in S
  BY <1>1
<1>3. \A i \in 1 .. k : h[i] \in S
  BY <1>2
<1>4. /\ m \in Seq(S) /\ Len(m) = k
      /\ \A i \in 1 .. k : m[i] = h[i]
  <2>1. /\ SubSeq(h, 1, k) \in Seq(S) /\ Len(SubSeq(h, 1, k)) = (IF 1 <= k THEN k - 1 + 1 ELSE 0)
        /\ \A i \in 1 .. k - 1 + 1 : SubSeq(h, 1, k)[i] = h[1 + i - 1]
    BY <1>2, <1>3, SubSeqProperties
  <2>2. \A i \in 1 .. k : i \in 1 .. k - 1 + 1 /\ 1 + i - 1 = i
    BY <1>2
  <2> QED  BY <1>2, <2>1, <2>2
<1>5. k # 0
  BY <1>4
<1>6. k \in 1 .. Len(h) /\ k \in 1 .. k
  BY <1>2, <1>5
<1>7. Last(m) = h[k]
  BY <1>4, <1>6 DEF Last
<1>8. PICK n : n = k - 1
  OBVIOUS
<1>9. n \in Nat /\ \A i \in 1 .. n : i \in 1 .. k /\ i \in 1 .. n - 1 + 1 /\ 1 + i - 1 = i
  BY <1>2, <1>5, <1>8
<1>10. \A i \in 1 .. n : m[i] \in S /\ h[i] \in S
  BY <1>3, <1>4, <1>9
<1>11. PICK f, g : f = SubSeq(m, 1, n) /\ g = SubSeq(h, 1, n)
  OBVIOUS
<1>12. /\ f \in Seq(S) /\ Len(f) = (IF 1 <= n THEN n - 1 + 1 ELSE 0)
       /\ \A i \in 1 .. n - 1 + 1 : f[i] = m[1 + i - 1]
  BY <1>9, <1>10, <1>11, SubSeqProperties
<1>13. /\ g \in Seq(S) /\ Len(g) = (IF 1 <= n THEN n - 1 + 1 ELSE 0)
       /\ \A i \in 1 .. n - 1 + 1 : g[i] = h[1 + i - 1]
  BY <1>9, <1>10, <1>11, SubSeqProperties
<1>14. Len(f) = n /\ Len(g) = n /\ \A i \in 1 .. n : f[i] = g[i]
  BY <1>4, <1>9, <1>12, <1>13
<1>15. f = g
  BY <1>12, <1>13, <1>14, SeqEqual
<1>16. Front(m) = f
  BY <1>4, <1>8, <1>11 DEF Front
<1> QED  BY <1>6, <1>7, <1>8, <1>11, <1>15, <1>16

LEMMA HooksAll == ASSUME NEW h, IsSeq(h) PROVE SubSeq(h, 1, Len(h)) = h
<1>1. PICK S : h \in Seq(S)
  BY DEF IsSeq
<1> QED  BY <1>1

(* Steps of a server that has started, by what they do to the hooks left to *)
(* main *)
Quiet ==
    /\ pc' = pc /\ closed' = closed /\ serving' \subseteq serving
    /\ second' = second \/ second # "none"
    /\ left' = [main |-> left.main, second |-> left'.second]
Serves ==
    /\ pc \in {"running", "reloading"} /\ pc' \in {"running", "reloading"}
    /\ closed' = closed /\ serving' = serving /\ second' = second
    /\ left' = [main |-> left'.main, second |-> left.second]
Begins ==
    /\ pc = "running" /\ pc' = "stopping" /\ closed' = closed /\ serving' = serving
    /\ left' = [main |-> hooks.shutdown, second |-> left.second]
Leaves ==
    /\ pc' = "exited" /\ closed' = closed /\ serving' = serving
    /\ left' = [main |-> left'.main, second |-> left'.second]
Waits ==
    /\ pc = "stopping" /\ pc' \in {"closing", "waiting"} /\ closed' = closed /\ serving' = serving /\ left' = left
    /\ left.main # <<>>
    /\ pc' = "closing" => Own(NextHook("main")) = "file"
Closes(o) ==
    /\ pc \in Stopping /\ pc' = "stopping" /\ left.main # <<>> /\ o = Last(left.main)
    /\ closed' = closed \cup {o} /\ serving' = serving
    /\ left' = [main |-> Front(left.main), second |-> left.second]
    /\ \A l \in serving : l[1] # o

LEMMA RunKinds ==
  ASSUME PhaseOK, StartInv, ClosingOK, mode = "run", pc # "failed", [Next]_vars, ~StartStep
  PROVE  /\ SameStep /\ pc' # "failed"
         /\ Quiet \/ Serves \/ Begins \/ Leaves \/ Waits \/ \E o : Closes(o)
<1>1. left = [main |-> left.main, second |-> left.second]
  BY DEF ClosingOK
<1>2. PICK l : l = left
  OBVIOUS
<1>3. l = [main |-> l.main, second |-> l.second]
  BY <1>1, <1>2
<1>4. /\ \A v : [l EXCEPT !.main = v] = [main |-> v, second |-> l.second]
      /\ \A v : [l EXCEPT !.second = v] = [main |-> l.main, second |-> v]
  BY <1>3, LeftForm
<1>5. second # "none" => pc \in Stopping \cup {"exited"}
  BY DEF ClosingOK
<1> USE DEF configVars, startVars, SameStep
<1>6. CASE UNCHANGED vars
  BY <1>1, <1>6 DEF vars, runVars, Quiet
<1>7. CASE MainSignal
  <2>1. PICK v : left' = [l EXCEPT !.main = v] /\ (pc' = "stopping" => v = hooks.shutdown \/ pc # "running")
    BY <1>2, <1>7 DEF MainSignal
  <2>2. left' = [main |-> v, second |-> l.second]
    BY <1>4, <2>1
  <2>3. pc = "running" /\ closed' = closed /\ serving' = serving /\ pc' \in {"running", "reloading", "stopping"}
    BY <1>7 DEF MainSignal
  <2>4. CASE pc' = "stopping"
    BY <1>2, <1>7, <2>1, <2>2, <2>3, <2>4 DEF MainSignal, Begins
  <2>5. CASE pc' # "stopping"
    <3>1. second' = second
      BY <1>7, <2>5 DEF MainSignal
    <3> QED  BY <1>2, <1>7, <2>2, <2>3, <2>5, <3>1 DEF MainSignal, Serves
  <2> QED  BY <2>4, <2>5
<1>8. CASE MainReload
  <2>1. \/ left' = left
        \/ \E v : left' = [l EXCEPT !.main = v]
    BY <1>2, <1>8 DEF MainReload, RunReload, HookDone
  <2>2. left' = [main |-> left'.main, second |-> left.second]
    BY <1>1, <1>2, <1>4, <2>1
  <2> QED  BY <1>8, <2>2 DEF MainReload, RunReload, Serves
<1>9. CASE CloseNext
  <2>1. pc = "stopping" /\ left.main # <<>> /\ serving' = serving
    BY <1>9 DEF CloseNext
  <2>2. CASE pc' # "stopping"
    BY <1>9, <2>1, <2>2 DEF CloseNext, Waits
  <2>3. CASE pc' = "stopping"
    <3>1. PICK o : o = NextHook("main")
      OBVIOUS
    <3>2. /\ pc' = "stopping" /\ closed' = closed \cup {o} /\ Own(o) \in {"certs", "nothing"}
          /\ left' = [l EXCEPT !.main = Front(l.main)]
      BY <1>2, <1>9, <2>3, <3>1 DEF CloseNext, HookDone
    <3>3. left' = [main |-> Front(left.main), second |-> left.second]
      BY <1>2, <1>4, <3>2
    <3>4. \A x \in serving : x[1] # o
      BY <3>2 DEF ClosingOK
    <3>5. Closes(o)
      BY <2>1, <3>1, <3>2, <3>3, <3>4 DEF Closes, NextHook, Stopping
    <3> QED  BY <1>9, <3>2, <3>5 DEF CloseNext
  <2> QED  BY <2>2, <2>3
<1>10. CASE CloseEnds
  <2>1. PICK o : o = NextHook("main")
    OBVIOUS
  <2>2. /\ pc \in {"closing", "waiting"} /\ pc' = "stopping" /\ closed' = closed \cup {o} /\ serving' = serving
        /\ left' = [l EXCEPT !.main = Front(l.main)]
    BY <1>2, <1>10, <2>1 DEF CloseEnds, HookDone
  <2>3. left' = [main |-> Front(left.main), second |-> left.second]
    BY <1>2, <1>4, <2>2
  <2>4. \A x \in serving : x[1] # o
    <3>1. CASE pc = "closing"
      BY <2>1, <3>1 DEF ClosingOK
    <3>2. CASE pc = "waiting"
      BY <1>10, <2>1, <3>2 DEF CloseEnds
    <3> QED  BY <2>2, <3>1, <3>2
  <2>5. left.main # <<>>
    BY <2>2 DEF ClosingOK
  <2>6. Closes(o)
    BY <2>1, <2>2, <2>3, <2>4, <2>5 DEF Closes, NextHook, Stopping
  <2> QED  BY <1>10, <2>2, <2>6 DEF CloseEnds
<1>11. CASE Stopped
  BY <1>1, <1>11 DEF Stopped, Leaves, runVars
<1>12. CASE ToolEnds
  BY <1>12 DEF ToolEnds, PhaseOK
<1>13. CASE SecondStarts
  BY <1>1, <1>13 DEF SecondStarts, Quiet
<1>14. CASE SecondSignal
  <2>1. PICK v : left' = [l EXCEPT !.second = v]
    BY <1>2, <1>14 DEF SecondSignal
  <2>2. left' = [main |-> left.main, second |-> left'.second]
    BY <1>2, <1>4, <2>1
  <2>3. CASE pc' = pc
    BY <1>14, <2>2, <2>3 DEF SecondSignal, Quiet
  <2>4. CASE pc' # pc
    <3>1. pc' = "exited" /\ second # "none"
      BY <1>14, <2>4 DEF SecondSignal
    <3>2. pc # "init"
      BY <1>5, <3>1 DEF Stopping
    <3> QED  BY <1>14, <2>2, <3>1, <3>2 DEF SecondSignal, Leaves
  <2> QED  BY <2>3, <2>4
<1>15. CASE SecondReload
  <2>1. \/ left' = left
        \/ \E v : left' = [l EXCEPT !.second = v]
    BY <1>2, <1>15 DEF SecondReload, RunReload, HookDone
  <2>2. left' = [main |-> left.main, second |-> left'.second]
    BY <1>1, <1>2, <1>4, <2>1
  <2> QED  BY <1>15, <2>2 DEF SecondReload, RunReload, Quiet
<1>16. CASE LoadCerts
  BY <1>1, <1>16 DEF LoadCerts, Quiet
<1>17. CASE TableStep \/ Editing
  BY <1>1, <1>17 DEF TableStep, Editing, Others, runVars, Quiet
<1>18. CASE \E s \in {"TERM", "USR1", "USR2"} : Signal(s)
  BY <1>1, <1>18 DEF Signal, Quiet
<1>19. CASE \E x \in serving : ServeReturns(x)
  BY <1>1, <1>19 DEF ServeReturns, Quiet
<1> QED
  BY <1>6, <1>7, <1>8, <1>9, <1>10, <1>11, <1>12, <1>13, <1>14, <1>15, <1>16, <1>17, <1>18, <1>19
  DEF Next, MainStep, SecondStep

LEMMA QuietKeeps ==
  ASSUME ClosingOK, SameStep, Quiet \/ Serves \/ Begins \/ Leaves \/ Waits, IsSeq(Hooks)
  PROVE  ClosingOK'
<1>1. insts' = insts /\ Hooks' = Hooks /\ Finished' = Finished /\ closed' = closed /\ serving' \subseteq serving
  BY DEF SameStep, Hooks, Finished, Quiet, Serves, Begins, Leaves, Waits
<1>2. left' = [main |-> left'.main, second |-> left'.second]
  BY DEF Quiet, Serves, Begins, Leaves, Waits, ClosingOK
<1>3. \A l \in serving' : l[1] \in Finished' /\ Own(l[1])' = "listen" /\ l[1] \notin closed'
  BY <1>1 DEF ClosingOK, Own
<1>4. PICK k \in 0 .. Len(Hooks) : HooksLeft(k)
  BY DEF ClosingOK
<1>5. CASE Quiet
  <2>1. left'.main = left.main /\ pc' = pc
    BY <1>5 DEF Quiet
  <2>2. HooksLeft(k)'
    BY <1>1, <1>4, <2>1 DEF HooksLeft
  <2>3. pc' = "closing" => Own(NextHook("main"))' = "file"
    BY <1>1, <2>1 DEF ClosingOK, Own, NextHook
  <2> QED  BY <1>1, <1>2, <1>3, <1>5, <2>1, <2>2, <2>3 DEF ClosingOK, Quiet
<1>6. CASE Serves
  <2>1. HooksLeft(k)'
    BY <1>1, <1>4, <1>6 DEF HooksLeft, Serves, Stopping
  <2> QED  BY <1>1, <1>2, <1>3, <1>6, <2>1 DEF ClosingOK, Serves, Stopping
<1>7. CASE Begins
  <2>1. PICK n : n = Len(Hooks)
    OBVIOUS
  <2>2. n \in Nat /\ SubSeq(Hooks, 1, n) = Hooks
    BY <2>1, SeqFacts, HooksAll
  <2>3. n + 1 .. n = {} /\ n \in 0 .. n
    BY <2>2
  <2>4. closed = {}
    BY <1>7 DEF ClosingOK, Begins, Stopping
  <2>5. HooksLeft(n)'
    BY <1>1, <1>7, <2>1, <2>2, <2>3, <2>4 DEF HooksLeft, Begins, Hooks
  <2> QED  BY <1>1, <1>2, <1>3, <1>7, <2>1, <2>3, <2>5 DEF ClosingOK, Begins, Stopping
<1>8. CASE Leaves
  <2>1. HooksLeft(k)'
    BY <1>1, <1>4, <1>8 DEF HooksLeft, Leaves, Stopping
  <2> QED  BY <1>1, <1>2, <1>3, <1>8, <2>1 DEF ClosingOK, Leaves, Stopping
<1>9. CASE Waits
  <2>1. HooksLeft(k)'
    BY <1>1, <1>4, <1>9 DEF HooksLeft, Waits, Stopping
  <2>2. pc' = "closing" => Own(NextHook("main"))' = "file"
    BY <1>1, <1>9 DEF Waits, Own, NextHook
  <2> QED  BY <1>1, <1>2, <1>3, <1>9, <2>1, <2>2 DEF ClosingOK, Waits, Stopping
<1> QED  BY <1>5, <1>6, <1>7, <1>8, <1>9

LEMMA ClosesKeeps ==
  ASSUME ClosingOK, SameStep, NEW o, Closes(o), IsSeq(Hooks)
  PROVE  ClosingOK'
<1>1. insts' = insts /\ Hooks' = Hooks /\ Finished' = Finished /\ closed' = closed \cup {o} /\ serving' = serving
  BY DEF SameStep, Hooks, Finished, Closes
<1>2. left' = [main |-> left'.main, second |-> left'.second] /\ left'.main = Front(left.main)
  BY DEF Closes
<1>3. \A l \in serving' : l[1] \in Finished' /\ Own(l[1])' = "listen" /\ l[1] \notin closed'
  BY <1>1 DEF ClosingOK, Own, Closes
<1>4. PICK k \in 0 .. Len(Hooks) : HooksLeft(k)
  BY DEF ClosingOK
<1>5. PICK h, m : h = Hooks /\ m = left.main
  OBVIOUS
<1>6. m = SubSeq(h, 1, k) /\ m # <<>> /\ o = Last(m) /\ IsSeq(h) /\ k \in 0 .. Len(h)
  BY <1>4, <1>5 DEF HooksLeft, Closes
<1>7. k \in 1 .. Len(h) /\ Last(m) = h[k] /\ Front(m) = SubSeq(h, 1, k - 1)
  BY <1>6, HooksTail
<1>8. Len(h) \in Nat
  BY <1>6, SeqFacts
<1>9. k - 1 \in 0 .. Len(h) /\ (k - 1) + 1 = k
  BY <1>7, <1>8
<1>10. {h[i] : i \in k + 1 .. Len(h)} \cup {h[k]} = {h[i] : i \in k .. Len(h)}
  <2>1. \A i \in k .. Len(h) : i = k \/ i \in k + 1 .. Len(h)
    BY <1>7, <1>8
  <2>2. k \in k .. Len(h) /\ \A i \in k + 1 .. Len(h) : i \in k .. Len(h)
    BY <1>7, <1>8
  <2> QED  BY <2>1, <2>2
<1>11. closed' = {h[i] : i \in (k - 1) + 1 .. Len(h)}
  BY <1>1, <1>4, <1>5, <1>6, <1>7, <1>9, <1>10 DEF HooksLeft
<1>12. HooksLeft(k - 1)'
  BY <1>1, <1>2, <1>5, <1>7, <1>11 DEF HooksLeft
<1>13. \E j \in 0 .. Len(Hooks') : HooksLeft(j)'
  BY <1>1, <1>5, <1>9, <1>12
<1> QED  BY <1>2, <1>3, <1>13 DEF ClosingOK, Closes, Stopping

------------------------------------------------------------------------------
(* The server *)

LEMMA ServerInit == Init => ServerInv
<1> SUFFICES ASSUME Init PROVE StartInv /\ ClosingOK
  BY DEF ServerInv, Init
<1>1. PICK e : e = <<>>
  OBVIOUS
<1>2. e \in Seq({}) /\ Len(e) = 0 /\ DOMAIN e = {}
  BY <1>1
<1>3. IsSeq(e)
  BY <1>2, SeqIs
<1>4. /\ pc = "read" /\ insts = e /\ names = e /\ initialized = {} /\ stack = e /\ values = e /\ uses = {}
      /\ Hooks = e /\ closed = {} /\ serving = {} /\ second = "none" /\ left = [main |-> e, second |-> e]
  BY <1>1 DEF Init, NoHooks, Hooks
<1>5. IsSeq(insts) /\ IsSeq(stack) /\ IsSeq(Hooks)
  BY <1>3, <1>4
<1>6. Depth = 0 /\ Objs = {} /\ Finished = {} /\ DOMAIN names = {} /\ Len(Hooks) = 0
  BY <1>2, <1>4 DEF Depth, Objs, Finished
<1>7. \A i \in 1 .. Depth : FALSE
  BY <1>6
<1>8. \A i \in 1 .. Len(Hooks) : FALSE
  BY <1>6
<1>9. StartTypes
  BY <1>4, <1>5, <1>6, <1>7 DEF StartTypes, FramesOK, Edges
<1>10. NamesOK
  BY <1>4, <1>6 DEF NamesOK
<1>11. StackOK
  BY <1>4, <1>6, <1>7 DEF StackOK
<1>12. UsesOK
  BY <1>4 DEF UsesOK, DoneUsesDone
<1>13. HooksOK
  BY <1>5, <1>6, <1>8 DEF HooksOK, Closers
<1>14. ClosingOK
  <2>1. 0 \in 0 .. Len(Hooks) /\ 0 + 1 .. Len(Hooks) = {}
    BY <1>6
  <2>2. HooksLeft(0)
    BY <1>4, <2>1 DEF HooksLeft, Stopping
  <2> QED  BY <1>4, <2>1, <2>2 DEF ClosingOK, Stopping
<1> QED  BY <1>9, <1>10, <1>11, <1>12, <1>13, <1>14 DEF StartInv

LEMMA FailedStays ==
  ASSUME pc = "failed", [Next]_vars
  PROVE  pc' = "failed" /\ closed' = closed
<1>1. CASE UNCHANGED vars
  BY <1>1 DEF vars, runVars
<1>2. CASE StartStep
  BY <1>2 DEF StartStep, ReadConfig, RegisterModule, Registered, NextEndpoint, TakeUnknown, TakeValue, TakeTLS,
              TakeReference, TakeInline, EndTLS, EndMissing, EndGlobals, EndPipeline, EndPipelineModules, EndInit,
              Taking, AtEnd
<1>3. CASE Next /\ ~StartStep
  BY <1>3 DEF Next, MainStep, SecondStep, MainSignal, MainReload, CloseNext, CloseEnds, Stopped, ToolEnds, SecondStarts,
              SecondSignal, SecondReload, LoadCerts, TableStep, Editing, Signal, ServeReturns, Up, Running
<1> QED  BY <1>1, <1>2, <1>3

LEMMA ModeKept ==
  ASSUME PhaseOK, [Next]_vars
  PROVE  mode' = mode
<1>1. CASE UNCHANGED vars
  BY <1>1 DEF vars, startVars
<1> QED  BY <1>1, StartEffects, RunEffects

LEMMA ServerStep == PhaseOK /\ ServerInv /\ [Next]_vars => ServerInv'
<1> SUFFICES ASSUME PhaseOK, ServerInv, [Next]_vars, mode = "run"
             PROVE  IF pc' = "failed" THEN closed' = {} ELSE StartInv' /\ ClosingOK'
  BY ModeKept DEF ServerInv
<1>1. CASE pc = "failed"
  BY <1>1, FailedStays DEF ServerInv
<1>2. CASE pc # "failed" /\ StartStep
  <2>1. StartInv /\ ClosingOK
    BY <1>2 DEF ServerInv
  <2>2. closed = {}
    BY <1>2, <2>1, StartEffects DEF ClosingOK, StartPcs, Stopping
  <2>3. CASE pc' = "failed"
    BY <1>2, <2>1, <2>2, <2>3, StartCreates
  <2>4. CASE pc' # "failed"
    <3>1. StartInv'
      BY <1>2, <2>1, <2>4, StartKeeps DEF Failing
    <3> QED  BY <1>2, <2>1, <2>4, <3>1, StartClosing
  <2> QED  BY <2>3, <2>4
<1>3. CASE pc # "failed" /\ ~StartStep
  <2>1. StartInv /\ ClosingOK /\ IsSeq(Hooks)
    BY <1>3 DEF ServerInv, StartInv, HooksOK
  <2>2. /\ SameStep /\ pc' # "failed"
        /\ Quiet \/ Serves \/ Begins \/ Leaves \/ Waits \/ \E o : Closes(o)
    BY <1>3, <2>1, RunKinds
  <2> QED  BY <2>1, <2>2, SameKeeps, QuietKeeps, ClosesKeeps
<1> QED  BY <1>1, <1>2, <1>3

(* What a server has created, initialised and closed at any time: the       *)
(* inductive invariant behind the order of its shutdown.                    *)
THEOREM ServerInvariant == Spec => []ServerInv
<1>1. TableRunInv => PhaseOK
  BY DEF TableRunInv
<1> QED  BY ServerInit, ServerStep, TableInvariant, <1>1, PTL DEF Spec

LEMMA ServerCloses == ServerInv /\ AcyclicUses => UsersClosedFirst
<1> SUFFICES ASSUME ServerInv, AcyclicUses, mode = "run", NEW d \in closed, NEW u \in Users(d)
             PROVE  /\ Types[insts[u].type].closer => u \in closed
                    /\ \A l \in serving : l[1] # u
  BY DEF UsersClosedFirst
<1>1. StartInv /\ ClosingOK
  BY DEF ServerInv
<1>2. DOMAIN insts = Objs
  BY <1>1, SeqFacts DEF StartInv, StartTypes, Objs
<1>3. u \in Reach(uses, Objs, d) /\ NoCircle(uses, Objs)
  BY <1>2, UsersReach DEF AcyclicUses, NoCircle
<1>4. ~(Depth > 0) /\ Depth \in Nat
  <2>1. pc \in Stopping \cup {"exited"}
    BY <1>1 DEF ClosingOK
  <2> QED  BY <1>1, <2>1, DepthNat DEF StartInv, StartTypes, StackOK, Stopping
<1>5. \A x : ~OnStack(x)
  BY <1>4 DEF OnStack
<1>6. u \in Finished
  <2>1. PICK us, objs, done : us = uses /\ objs = Objs /\ done = Finished
    OBVIOUS
  <2>2. done \in SUBSET objs /\ \A e \in us : e[1] # Globals /\ e[2] \in done \cup {d} => e[1] \in done
    BY <1>1, <1>5, <2>1 DEF StartInv, StartTypes, UsesOK
  <2>3. Reach(us, objs, d) \subseteq done
    BY <2>2, ReachLeast
  <2> QED  BY <1>3, <2>1, <2>3
<1>7. PICK k \in 0 .. Len(Hooks) : closed = {Hooks[i] : i \in k + 1 .. Len(Hooks)}
  BY <1>1 DEF ClosingOK, HooksLeft
<1>8. PICK i \in k + 1 .. Len(Hooks) : d = Hooks[i]
  BY <1>7
<1>9. Len(Hooks) \in Nat /\ i \in 1 .. Len(Hooks)
  BY <1>1, <1>7, <1>8, SeqFacts DEF StartInv, HooksOK
<1>10. ASSUME Types[insts[u].type].closer PROVE u \in closed
  <2>1. PICK j \in 1 .. Len(Hooks) : u = Hooks[j]
    BY <1>1, <1>6, <1>10 DEF StartInv, HooksOK, Closers
  <2>2. ~(j < i)
    BY <1>1, <1>3, <1>8, <1>9, <2>1 DEF StartInv, HooksOK
  <2>3. j # i
    <3>1. d \in Objs
      BY <1>1, <1>8, <1>9 DEF StartInv, StartTypes, HooksOK, Closers
    <3> QED  BY <1>3, <1>8, <2>1, <3>1 DEF NoCircle
  <2>4. j \in k + 1 .. Len(Hooks)
    BY <1>7, <1>8, <1>9, <2>1, <2>2, <2>3
  <2> QED  BY <1>7, <2>1, <2>4
<1>11. ASSUME NEW l \in serving, l[1] = u PROVE FALSE
  <2>1. Own(u) = "listen" /\ u \notin closed
    BY <1>1, <1>11 DEF ClosingOK
  <2>2. insts[u].type \in DOMAIN Types
    BY <1>1, <1>6 DEF StartInv, StartTypes
  <2>3. Types[insts[u].type].closer
    BY <2>1, <2>2, TypesAssumption DEF Own
  <2> QED  BY <1>10, <2>1, <2>3
<1> QED  BY <1>10, <1>11

(* Unless modules use each other in a circle, a server closes none before   *)
(* all of those that use it, directly or not, have been closed and serve no *)
(* more, whatever configuration it was started with, however far it got and *)
(* whatever signals it receives (hooks.go:67, instances.go:95).             *)
THEOREM ProcessUsersClosedFirst == Spec => [](AcyclicUses => UsersClosedFirst)
  BY ServerInvariant, ServerCloses, PTL

------------------------------------------------------------------------------
(* The values of directives: what a block has given so far. *)

ReadSoFar(M, kids, at, vals) ==
    /\ DOMAIN vals \subseteq DOMAIN M
    /\ \A d \in DOMAIN M : M[d].kind \notin ModuleKinds =>
          /\ d \in DOMAIN vals => \E j \in 1 .. at - 1 :
                /\ kids[j].name = d /\ vals[d] \in Mapped(M[d], kids[j])
                /\ \A i \in 1 .. at - 1 : kids[i].name = d => i = j
          /\ d \notin DOMAIN vals => \A i \in 1 .. at - 1 : kids[i].name # d

LEMMA ReadBegins ==
  ASSUME NEW M, NEW kids, NEW e, e = <<>>
  PROVE  ReadSoFar(M, kids, 1, e)
<1>1. DOMAIN e = {} /\ \A i \in 1 .. 1 - 1 : FALSE
  OBVIOUS
<1> QED  BY <1>1 DEF ReadSoFar

(* A directive that is unknown, or names a module. *)
LEMMA ReadPasses ==
  ASSUME NEW M, NEW kids, NEW at \in Nat, at >= 1, NEW vals, ReadSoFar(M, kids, at, vals), NEW name, kids[at].name = name,
         name \in DOMAIN M => M[name].kind \in ModuleKinds,
         NEW x, NEW w, w = vals \/ (name \in DOMAIN M /\ w = Assign(vals, name, x))
  PROVE  ReadSoFar(M, kids, at + 1, w)
<1>1. DOMAIN w \subseteq DOMAIN M /\ \A d \in DOMAIN M : M[d].kind \notin ModuleKinds =>
         (d \in DOMAIN w <=> d \in DOMAIN vals) /\ (d \in DOMAIN vals => w[d] = vals[d]) /\ d # name
  BY DEF ReadSoFar, Assign
<1>2. \A i \in 1 .. (at + 1) - 1 : i \in 1 .. at - 1 \/ i = at
  OBVIOUS
<1>3. \A i \in 1 .. at - 1 : i \in 1 .. (at + 1) - 1
  OBVIOUS
<1> SUFFICES ASSUME NEW d \in DOMAIN M, M[d].kind \notin ModuleKinds
             PROVE  /\ d \in DOMAIN w => \E j \in 1 .. (at + 1) - 1 :
                          /\ kids[j].name = d /\ w[d] \in Mapped(M[d], kids[j])
                          /\ \A i \in 1 .. (at + 1) - 1 : kids[i].name = d => i = j
                    /\ d \notin DOMAIN w => \A i \in 1 .. (at + 1) - 1 : kids[i].name # d
  BY <1>1 DEF ReadSoFar
<1>4. CASE d \in DOMAIN w
  <2>1. PICK j \in 1 .. at - 1 : /\ kids[j].name = d /\ vals[d] \in Mapped(M[d], kids[j])
                                 /\ \A i \in 1 .. at - 1 : kids[i].name = d => i = j
    BY <1>1, <1>4 DEF ReadSoFar
  <2>2. j \in 1 .. (at + 1) - 1 /\ w[d] \in Mapped(M[d], kids[j])
    BY <1>1, <1>3, <1>4, <2>1
  <2>3. \A i \in 1 .. (at + 1) - 1 : kids[i].name = d => i = j
    BY <1>1, <1>2, <2>1
  <2> QED  BY <1>4, <2>1, <2>2, <2>3
<1>5. CASE d \notin DOMAIN w
  BY <1>1, <1>2, <1>5 DEF ReadSoFar
<1> QED  BY <1>4, <1>5

(* A directive with a value, not given before. *)
LEMMA ReadTakes ==
  ASSUME NEW M, NEW kids, NEW at \in Nat, at >= 1, NEW vals, ReadSoFar(M, kids, at, vals), NEW name \in DOMAIN M, kids[at].name = name,
         name \notin DOMAIN vals, NEW x \in Mapped(M[name], kids[at]), NEW w, w = Assign(vals, name, x)
  PROVE  ReadSoFar(M, kids, at + 1, w)
<1>1. /\ DOMAIN w = DOMAIN vals \cup {name} /\ w[name] = x
      /\ \A d \in DOMAIN vals : w[d] = vals[d]
  BY DEF Assign
<1>2. \A i \in 1 .. (at + 1) - 1 : i \in 1 .. at - 1 \/ i = at
  OBVIOUS
<1>3. at \in 1 .. (at + 1) - 1 /\ \A i \in 1 .. at - 1 : i \in 1 .. (at + 1) - 1
  OBVIOUS
<1>6. DOMAIN w \subseteq DOMAIN M
  BY <1>1 DEF ReadSoFar
<1> SUFFICES ASSUME NEW d \in DOMAIN M, M[d].kind \notin ModuleKinds
             PROVE  /\ d \in DOMAIN w => \E j \in 1 .. (at + 1) - 1 :
                          /\ kids[j].name = d /\ w[d] \in Mapped(M[d], kids[j])
                          /\ \A i \in 1 .. (at + 1) - 1 : kids[i].name = d => i = j
                    /\ d \notin DOMAIN w => \A i \in 1 .. (at + 1) - 1 : kids[i].name # d
  BY <1>6 DEF ReadSoFar
<1>4. CASE d = name
  <2>1. \A i \in 1 .. at - 1 : kids[i].name # d
    BY <1>4 DEF ReadSoFar
  <2>2. \A i \in 1 .. (at + 1) - 1 : kids[i].name = d => i = at
    BY <1>2, <2>1
  <2> QED  BY <1>1, <1>3, <1>4, <2>2
<1>5. CASE d # name
  <2>1. CASE d \in DOMAIN w
    <3>1. PICK j \in 1 .. at - 1 : /\ kids[j].name = d /\ vals[d] \in Mapped(M[d], kids[j])
                                   /\ \A i \in 1 .. at - 1 : kids[i].name = d => i = j
      BY <1>1, <1>5, <2>1 DEF ReadSoFar
    <3>2. j \in 1 .. (at + 1) - 1 /\ w[d] \in Mapped(M[d], kids[j])
      BY <1>1, <1>3, <1>5, <2>1, <3>1
    <3>3. \A i \in 1 .. (at + 1) - 1 : kids[i].name = d => i = j
      BY <1>2, <1>5, <3>1
    <3> QED  BY <2>1, <3>1, <3>2, <3>3
  <2>2. CASE d \notin DOMAIN w
    BY <1>1, <1>2, <1>5, <2>2 DEF ReadSoFar
  <2> QED  BY <2>1, <2>2
<1> QED  BY <1>4, <1>5

(* The end of the block. *)
LEMMA ReadEnds ==
  ASSUME NEW M, NEW kids, IsSeq(kids), NEW at, at = Len(kids) + 1, NEW vals, ReadSoFar(M, kids, at, vals),
         NEW d \in DOMAIN M, M[d].kind \notin ModuleKinds
  PROVE  /\ d \in DOMAIN vals => \E n : GivenIn(kids, d) = {n} /\ vals[d] \in Mapped(M[d], n)
         /\ d \notin DOMAIN vals => GivenIn(kids, d) = {}
<1>1. Len(kids) \in Nat /\ DOMAIN kids = 1 .. Len(kids)
  BY SeqFacts
<1>2. Range(kids) = {kids[i] : i \in 1 .. Len(kids)}
  BY <1>1 DEF Range
<1>3. 1 .. Len(kids) = 1 .. at - 1
  BY <1>1
<1>4. CASE d \in DOMAIN vals
  <2>1. PICK j \in 1 .. at - 1 : /\ kids[j].name = d /\ vals[d] \in Mapped(M[d], kids[j])
                                 /\ \A i \in 1 .. at - 1 : kids[i].name = d => i = j
    BY <1>4 DEF ReadSoFar
  <2>2. GivenIn(kids, d) = {kids[j]}
    BY <1>2, <1>3, <2>1 DEF GivenIn
  <2> QED  BY <1>4, <2>1, <2>2
<1>5. CASE d \notin DOMAIN vals
  BY <1>2, <1>3, <1>5 DEF GivenIn, ReadSoFar
<1> QED  BY <1>4, <1>5

(* A mapper has one answer at most. *)
LEMMA MappedOnce ==
  ASSUME NEW m, NEW n, m.kind \in ValueKinds, NEW x \in Mapped(m, n), NEW y \in Mapped(m, n)
  PROVE  x = y
<1> USE DEF Mapped, ValueKinds
<1>1. CASE m.kind \in {"enum_list", "enum", "string_list", "string", "int", "float"}
  BY <1>1 DEF EnumListOf, EnumOf, StringListOf, StringOf, IntOf, FloatOf
<1>2. CASE m.kind = "bool"
  BY <1>2 DEF BoolOf
<1>3. CASE m.kind = "duration"
  BY <1>3 DEF DurationOf, StringListOf
<1>4. CASE m.kind = "size"
  BY <1>4 DEF DataSizeOf, StringListOf
<1> QED  BY <1>1, <1>2, <1>3, <1>4

LEMMA MappedSame ==
  ASSUME NEW m, NEW k, NEW n, m.kind \in ValueKinds, m.kind = k.kind, m.allowed = k.allowed
  PROVE  Mapped(m, n) = Mapped(k, n)
  BY DEF Mapped, ValueKinds

------------------------------------------------------------------------------
(* The configuration of a server *)

(* The parsers make lists of nodes, out of a set that has with a node those *)
(* of its block.                                                            *)
Trees(T) ==
    /\ \A i \in DOMAIN Inputs : ~ReadFiles(Inputs[i]).err => ReadFiles(Inputs[i]).nodes \in Seq(T)
    /\ \A n \in T : n.kids \in Seq(T) /\ Dir("loader_arg", n.args) \in T
    /\ \A s \in Seq(T) : ~ParsePipeline(s).err => ParsePipeline(s).refs \in Seq(T)

FrameTrees(T, f) ==
    /\ f.kids \in Seq(T) /\ f.unknown \in Seq(T)
    /\ f.at \in Nat /\ 1 <= f.at /\ f.at <= Len(f.kids) + 1
TreesKept(T) ==
    /\ \A o \in Objs : insts[o].node \in T
    /\ input \in DOMAIN Inputs /\ todo \in Seq(T)
    /\ pc # "read" => ReadFiles(files).nodes \in Seq(T)

(* A block's frame has taken its directives up to f.at. *)
MatchersIn(is, o) == IF o = Globals THEN GlobalDirectives ELSE Types[is[o].type].matchers
KidsIn(is, fs, o) == IF o = Globals THEN ReadFiles(fs).nodes ELSE is[o].node.kids
NamesOf(nodes) == {nodes[i].name : i \in DOMAIN nodes}
SetAside(f) == \A j \in 1 .. f.at - 1 : f.kids[j].name \in DOMAIN GlobalDirectives \cup NamesOf(f.unknown)
FrameReads(f, M, kids) ==
    f.sort = "block" =>
        /\ f.kids = kids
        /\ ReadSoFar(M, kids, f.at, f.vals)
        /\ f.obj = Globals => SetAside(f)
FrameOK(T, is, fs, f) == FrameTrees(T, f) /\ FrameReads(f, MatchersIn(is, f.obj), KidsIn(is, fs, f.obj))
FramesRead(T) == \A i \in 1 .. Depth : FrameOK(T, insts, files, stack[i])

(* The global values, once the global directives have been read. *)
GlobalRead(d, given) ==
    IF given # {} THEN d \in DOMAIN globals /\ \E n \in given : given = {n} /\ globals[d] \in Mapped(GlobalDirectives[d], n)
    ELSE /\ d \in DOMAIN globals <=> GlobalDirectives[d].dflt # Zero(GlobalDirectives[d].kind)
         /\ d \in DOMAIN globals => globals[d] = GlobalDirectives[d].dflt
GlobalsRead ==
    /\ DOMAIN globals \subseteq DOMAIN GlobalDirectives
    /\ \A d \in DOMAIN GlobalDirectives : GlobalDirectives[d].kind \notin ModuleKinds =>
          GlobalRead(d, GivenIn(ReadFiles(files).nodes, d))
BlocksKnown ==
    NamesOf(ReadFiles(files).nodes)
        \subseteq DOMAIN GlobalDirectives \cup DOMAIN Types \cup IF pc = "register" THEN NamesOf(todo) ELSE {}
AtGlobals == pc = "read" \/ (Depth > 0 /\ stack[1].obj = Globals)
GlobalsOK == IF AtGlobals THEN DOMAIN globals = {} /\ Endpoints = {} ELSE GlobalsRead /\ BlocksKnown

(* An object whose Init goes on is younger than a block, but for those of   *)
(* the global directives.                                                   *)
LateOK == Depth > 0 /\ stack[1].obj # Globals => \A i \in 1 .. Depth : ~OfGlobals(stack[i].obj)

Honoured(o) ==
    \A d \in DOMAIN Types[insts[o].type].matchers :
        Types[insts[o].type].matchers[d].kind \notin ModuleKinds => {values[o][d]} = Expected(o, d)
ValuesOK == \A o \in Finished : Honoured(o)

(* Every object will have its Init: it is an endpoint, has a name, or its   *)
(* Init has been called; names are not lost.                                *)
PlacedOK == \A o \in Objs : \/ o \in Finished \/ OnStack(o) \/ Types[insts[o].type].endpoint
                            \/ \E n \in DOMAIN names : names[n] = o
AliasesOK == \A a \in DOMAIN aliases : aliases[a] \in DOMAIN names
RunningOK == pc \in {"running", "reloading"} => Objs \subseteq Finished

ConfigRun(T) == TreesKept(T) /\ FramesRead(T) /\ GlobalsOK /\ LateOK /\ ValuesOK /\ PlacedOK /\ AliasesOK /\ RunningOK

(* Frames and their parts *)

LEMMA NewFrameParts ==
  ASSUME NEW o, NEW s, NEW k, NEW f, f = NewFrame(o, s, k)
  PROVE  f.obj = o /\ f.sort = s /\ f.kids = k /\ f.at = 1 /\ f.vals = <<>> /\ f.unknown = <<>>
  BY DEF NewFrame

LEMMA DoneParts ==
  ASSUME NEW f, IsFrame(f), NEW n, NEW v, NEW g, g = Done(f, n, v)
  PROVE  g.obj = f.obj /\ g.sort = f.sort /\ g.kids = f.kids /\ g.at = f.at + 1 /\ g.vals = Assign(f.vals, n, v) /\ g.unknown = f.unknown
<1>1. PICK o, s, k, a, w, u, p : f = [obj |-> o, sort |-> s, kids |-> k, at |-> a, vals |-> w, unknown |-> u, piped |-> p]
  BY DEF IsFrame
<1>2. PICK x, y : x = f.at + 1 /\ y = Assign(f.vals, n, v)
  OBVIOUS
<1>3. g = [f EXCEPT !.at = x, !.vals = y]
  BY <1>2 DEF Done
<1>4. g = [obj |-> o, sort |-> s, kids |-> k, at |-> x, vals |-> y, unknown |-> u, piped |-> p]
  BY <1>1, <1>3
<1> QED  BY <1>1, <1>2, <1>4

LEMMA AsideParts ==
  ASSUME NEW f, IsFrame(f), NEW x, NEW y, NEW g, g = Aside(f, x, y)
  PROVE  g.obj = f.obj /\ g.sort = f.sort /\ g.kids = f.kids /\ g.at = x /\ g.vals = f.vals /\ g.unknown = y
<1>1. PICK o, s, k, a, w, u, p : f = [obj |-> o, sort |-> s, kids |-> k, at |-> a, vals |-> w, unknown |-> u, piped |-> p]
  BY DEF IsFrame
<1>2. g = [obj |-> o, sort |-> s, kids |-> k, at |-> x, vals |-> w, unknown |-> y, piped |-> p]
  BY <1>1 DEF Aside
<1> QED  BY <1>1, <1>2

LEMMA PipedParts ==
  ASSUME NEW f, IsFrame(f), NEW g, g = [f EXCEPT !.piped = TRUE]
  PROVE  g.obj = f.obj /\ g.sort = f.sort /\ g.kids = f.kids /\ g.at = f.at /\ g.vals = f.vals /\ g.unknown = f.unknown
<1>1. PICK o, s, k, a, w, u, p : f = [obj |-> o, sort |-> s, kids |-> k, at |-> a, vals |-> w, unknown |-> u, piped |-> p]
  BY DEF IsFrame
<1>2. PICK b : b = TRUE
  OBVIOUS
<1>3. g = [f EXCEPT !.piped = b]
  BY <1>2
<1>4. g = [obj |-> o, sort |-> s, kids |-> k, at |-> a, vals |-> w, unknown |-> u, piped |-> b]
  BY <1>1, <1>3
<1> QED  BY <1>1, <1>4

(* The frames below the top are left alone. *)
LEMMA TopTurned ==
  ASSUME FramesOK, Depth > 0, NEW g, stack' = Append(Below, g)
  PROVE  Depth' = Depth /\ Depth \in Nat /\ stack'[Depth] = g /\ \A i \in 1 .. Depth - 1 : stack'[i] = stack[i]
<1>1. PICK b, s : b = Below /\ s = stack'
  OBVIOUS
<1>2. /\ IsSeq(b) /\ Len(b) = Depth - 1 /\ Depth \in Nat
      /\ \A i \in 1 .. Depth - 1 : b[i] = stack[i]
  BY <1>1, StackBelow
<1>3. Pushed(b, g, s)
  BY <1>1, <1>2, SeqPush
<1>4. Len(b) + 1 = Depth
  BY <1>2
<1> QED  BY <1>1, <1>2, <1>3, <1>4 DEF Pushed, Depth

LEMMA TopPushed ==
  ASSUME FramesOK, Depth > 0, NEW g, NEW h, stack' = Append(Append(Below, g), h)
  PROVE  /\ Depth' = Depth + 1 /\ Depth \in Nat /\ stack'[Depth] = g /\ stack'[Depth + 1] = h
         /\ \A i \in 1 .. Depth - 1 : stack'[i] = stack[i]
<1>1. PICK b, c, s : b = Below /\ c = Append(b, g) /\ s = stack'
  OBVIOUS
<1>2. /\ IsSeq(b) /\ Len(b) = Depth - 1 /\ Depth \in Nat
      /\ \A i \in 1 .. Depth - 1 : b[i] = stack[i]
  BY <1>1, StackBelow
<1>3. Pushed(b, g, c)
  BY <1>1, <1>2, SeqPush
<1>4. Len(b) + 1 = Depth /\ Len(c) = Depth /\ IsSeq(c)
  BY <1>2, <1>3 DEF Pushed
<1>5. Pushed(c, h, s)
  <2>1. s = Append(c, h)
    BY <1>1
  <2> QED  BY <1>4, <2>1, SeqPush
<1>6. \A i \in 1 .. Depth - 1 : i \in 1 .. Len(c) /\ i \in 1 .. Len(b)
  BY <1>2, <1>4
<1>7. Depth \in 1 .. Len(c)
  BY <1>2, <1>4
<1> QED  BY <1>1, <1>2, <1>3, <1>4, <1>5, <1>6, <1>7 DEF Pushed, Depth

LEMMA TopPopped ==
  ASSUME FramesOK, Depth > 0, stack' = Below
  PROVE  Depth' = Depth - 1 /\ Depth \in Nat /\ \A i \in 1 .. Depth - 1 : stack'[i] = stack[i]
<1>1. PICK b : b = Below
  OBVIOUS
<1> QED  BY <1>1, StackBelow DEF Depth

(* A frame does not notice new objects. *)
LEMMA FrameStays ==
  ASSUME StartInv, Grows, NEW T, NEW f, FrameOK(T, insts, files, f), f.obj \in Objs \cup {Globals}, files' = files
  PROVE  FrameOK(T, insts', files', f)
<1>1. MatchersIn(insts', f.obj) = MatchersIn(insts, f.obj) /\ KidsIn(insts', files', f.obj) = KidsIn(insts, files, f.obj)
  BY DEF MatchersIn, KidsIn, Grows
<1> QED  BY <1>1 DEF FrameOK

LEMMA FramesTurn ==
  ASSUME StartInv, pc = "init", Grows, files' = files, NEW T, FramesRead(T), NEW g, FrameOK(T, insts', files', g),
         stack' = Append(Below, g)
  PROVE  FramesRead(T)'
<1>1. Depth' = Depth /\ Depth \in Nat /\ stack'[Depth] = g /\ \A i \in 1 .. Depth - 1 : stack'[i] = stack[i]
  BY OnTop, TopTurned
<1> SUFFICES ASSUME NEW i \in 1 .. Depth PROVE FrameOK(T, insts', files', stack'[i])
  BY <1>1 DEF FramesRead
<1>2. CASE i = Depth
  BY <1>1, <1>2
<1>3. CASE i # Depth
  <2>1. PICK f : f = stack[i]
    OBVIOUS
  <2>4. i \in 1 .. Depth - 1
    BY <1>1, <1>3
  <2>2. stack'[i] = f
    BY <1>1, <2>1, <2>4
  <2>3. f.obj \in Objs \cup {Globals} /\ FrameOK(T, insts, files, f)
    BY <2>1 DEF StartInv, StartTypes, FramesRead
  <2> QED  BY <2>2, <2>3, FrameStays
<1> QED  BY <1>2, <1>3

LEMMA FramesPush ==
  ASSUME StartInv, pc = "init", Grows, files' = files, NEW T, FramesRead(T), NEW g, FrameOK(T, insts', files', g),
         NEW h, FrameOK(T, insts', files', h), stack' = Append(Append(Below, g), h)
  PROVE  FramesRead(T)'
<1>1. /\ Depth' = Depth + 1 /\ Depth \in Nat /\ stack'[Depth] = g /\ stack'[Depth + 1] = h
      /\ \A i \in 1 .. Depth - 1 : stack'[i] = stack[i]
  BY OnTop, TopPushed
<1> SUFFICES ASSUME NEW i \in 1 .. Depth + 1 PROVE FrameOK(T, insts', files', stack'[i])
  BY <1>1 DEF FramesRead
<1>2. CASE i = Depth \/ i = Depth + 1
  BY <1>1, <1>2
<1>3. CASE i # Depth /\ i # Depth + 1
  <2>1. PICK f : f = stack[i]
    OBVIOUS
  <2>4. i \in 1 .. Depth - 1 /\ i \in 1 .. Depth
    BY <1>1, <1>3
  <2>2. stack'[i] = f
    BY <1>1, <2>1, <2>4
  <2>3. f.obj \in Objs \cup {Globals} /\ FrameOK(T, insts, files, f)
    BY <2>1, <2>4 DEF StartInv, StartTypes, FramesRead
  <2> QED  BY <2>2, <2>3, FrameStays
<1> QED  BY <1>2, <1>3

LEMMA FramesPop ==
  ASSUME StartInv, pc = "init", insts' = insts, files' = files, NEW T, FramesRead(T), stack' = Below
  PROVE  FramesRead(T)'
<1>1. Depth' = Depth - 1 /\ Depth \in Nat /\ \A i \in 1 .. Depth - 1 : stack'[i] = stack[i]
  BY OnTop, TopPopped
<1>2. \A i \in 1 .. Depth - 1 : i \in 1 .. Depth
  BY <1>1
<1> QED  BY <1>1, <1>2 DEF FramesRead

(* What becomes of the top frame. *)
LEMMA FrameBegins ==
  ASSUME NEW T, NEW is, NEW fs, NEW o, NEW s, NEW k \in Seq(T), NEW f, f = NewFrame(o, s, k),
         s = "block" => k = KidsIn(is, fs, o)
  PROVE  FrameOK(T, is, fs, f)
<1>1. PICK e : e = <<>>
  OBVIOUS
<1>2. f.obj = o /\ f.sort = s /\ f.kids = k /\ f.at = 1 /\ f.vals = e /\ f.unknown = e
  BY <1>1, NewFrameParts
<1>3. e \in Seq(T) /\ Len(k) \in Nat
  BY <1>1
<1>4. FrameTrees(T, f)
  BY <1>2, <1>3 DEF FrameTrees
<1>5. \A M : ReadSoFar(M, k, 1, e)
  BY <1>1, ReadBegins
<1>6. SetAside(f)
  <2>1. \A j \in 1 .. f.at - 1 : FALSE
    BY <1>2
  <2> QED  BY <2>1 DEF SetAside
<1> QED  BY <1>2, <1>4, <1>5, <1>6 DEF FrameOK, FrameReads

LEMMA FrameTakes ==
  ASSUME NEW T, NEW is, NEW fs, NEW f, IsFrame(f), FrameOK(T, is, fs, f), f.at <= Len(f.kids),
         NEW n, n = f.kids[f.at].name, NEW v, NEW g, g = Done(f, n, v), NEW M,
         f.sort = "block" => /\ M = MatchersIn(is, f.obj) /\ n \in DOMAIN M
                             /\ M[n].kind \in ModuleKinds \/ (n \notin DOMAIN f.vals /\ v \in Mapped(M[n], f.kids[f.at]))
  PROVE  FrameOK(T, is, fs, g)
<1>1. PICK k, at, vals, w : k = f.kids /\ at = f.at /\ vals = f.vals /\ w = Assign(vals, n, v)
  OBVIOUS
<1>2. g.obj = f.obj /\ g.sort = f.sort /\ g.kids = k /\ g.at = at + 1 /\ g.vals = w /\ g.unknown = f.unknown
  BY <1>1, DoneParts
<1>3. k \in Seq(T) /\ Len(k) \in Nat /\ at \in Nat /\ at >= 1 /\ at <= Len(k) /\ f.unknown \in Seq(T) /\ k[at].name = n
  BY <1>1 DEF FrameOK, FrameTrees
<1>4. FrameTrees(T, g)
  BY <1>2, <1>3 DEF FrameTrees
<1>5. CASE f.sort # "block"
  BY <1>2, <1>4, <1>5 DEF FrameOK, FrameReads
<1>6. CASE f.sort = "block"
  <2>1. k = KidsIn(is, fs, f.obj) /\ M = MatchersIn(is, f.obj) /\ ReadSoFar(M, k, at, vals)
        /\ (f.obj = Globals => SetAside(f))
    BY <1>1, <1>6 DEF FrameOK, FrameReads
  <2>2. ReadSoFar(M, k, at + 1, w)
    <3>1. CASE M[n].kind \in ModuleKinds
      BY <1>1, <1>3, <1>6, <2>1, <3>1, ReadPasses
    <3>2. CASE n \notin DOMAIN vals /\ v \in Mapped(M[n], k[at])
      BY <1>1, <1>3, <1>6, <2>1, <3>2, ReadTakes
    <3> QED  BY <1>1, <1>6, <3>1, <3>2
  <2>3. ASSUME f.obj = Globals PROVE SetAside(g)
    <3>1. n \in DOMAIN GlobalDirectives
      BY <1>6, <2>3 DEF MatchersIn
    <3>2. \A j \in 1 .. (at + 1) - 1 : j \in 1 .. at - 1 \/ j = at
      BY <1>3
    <3> QED  BY <1>1, <1>2, <1>3, <2>1, <2>3, <3>1, <3>2 DEF SetAside
  <2> QED  BY <1>2, <1>4, <2>1, <2>2, <2>3 DEF FrameOK, FrameReads
<1> QED  BY <1>5, <1>6

LEMMA FrameSetsAside ==
  ASSUME NEW T, NEW is, NEW fs, NEW f, FrameOK(T, is, fs, f), f.at <= Len(f.kids), f.sort = "block",
         NEW n, n = f.kids[f.at].name, NEW M, M = MatchersIn(is, f.obj), n \notin DOMAIN M,
         NEW y, y = Append(f.unknown, f.kids[f.at]),
         NEW g, g.obj = f.obj, g.sort = f.sort, g.kids = f.kids, g.at = f.at + 1, g.vals = f.vals, g.unknown = y
  PROVE  FrameOK(T, is, fs, g)
<1>1. PICK k, at, vals, u : k = f.kids /\ at = f.at /\ vals = f.vals /\ u = f.unknown
  OBVIOUS
<1>2. g.obj = f.obj /\ g.sort = f.sort /\ g.kids = k /\ g.at = at + 1 /\ g.vals = vals /\ g.unknown = y
  BY <1>1
<1>3. k \in Seq(T) /\ Len(k) \in Nat /\ at \in Nat /\ at >= 1 /\ at <= Len(k) /\ u \in Seq(T) /\ k[at].name = n
  BY <1>1 DEF FrameOK, FrameTrees
<1>4. k[at] \in T
  BY <1>3
<1>5. y \in Seq(T)
  BY <1>1, <1>3, <1>4
<1>12. at + 1 \in Nat /\ 1 <= at + 1 /\ at + 1 <= Len(k) + 1
  BY <1>3
<1>6. FrameTrees(T, g)
  BY <1>2, <1>3, <1>5, <1>12 DEF FrameTrees
<1>7. k = KidsIn(is, fs, f.obj) /\ ReadSoFar(M, k, at, vals) /\ (f.obj = Globals => SetAside(f))
  BY <1>1 DEF FrameOK, FrameReads
<1>8. ReadSoFar(M, k, at + 1, vals)
  BY <1>3, <1>7, ReadPasses
<1>9. Pushed(u, k[at], y)
  <2>1. IsSeq(u) /\ y = Append(u, k[at])
    BY <1>1, <1>3, SeqIs
  <2> QED  BY <2>1, SeqPush
<1>10. NamesOf(u) \cup {n} \subseteq NamesOf(y)
  <2>1. DOMAIN u = 1 .. Len(u) /\ Len(u) \in Nat /\ DOMAIN y = 1 .. Len(u) + 1
    BY <1>3, <1>5, <1>9 DEF Pushed
  <2>2. Len(u) + 1 \in DOMAIN y /\ \A i \in DOMAIN u : i \in DOMAIN y /\ y[i] = u[i]
    BY <1>9, <2>1 DEF Pushed
  <2> QED  BY <1>3, <1>9, <2>2 DEF NamesOf, Pushed
<1>11. ASSUME f.obj = Globals PROVE SetAside(g)
  <2>1. \A j \in 1 .. (at + 1) - 1 : j \in 1 .. at - 1 \/ j = at
    BY <1>3
  <2>2. \A j \in 1 .. at - 1 : k[j].name \in DOMAIN GlobalDirectives \cup NamesOf(u)
    BY <1>1, <1>7, <1>11 DEF SetAside
  <2> QED  BY <1>2, <1>3, <1>10, <2>1, <2>2 DEF SetAside
<1> QED  BY <1>2, <1>6, <1>7, <1>8, <1>11 DEF FrameOK, FrameReads

LEMMA FrameGoesOn ==
  ASSUME NEW T, NEW is, NEW fs, NEW f, FrameOK(T, is, fs, f), NEW g,
         g.obj = f.obj, g.sort = f.sort, g.kids = f.kids, g.at = f.at, g.vals = f.vals, g.unknown = f.unknown
  PROVE  FrameOK(T, is, fs, g)
  BY DEF FrameOK, FrameTrees, FrameReads, SetAside

------------------------------------------------------------------------------
(* What is expected of an object does not change with the blocks and        *)
(* objects that come after it *)

Blocks == Endpoints \cup Range(names)
NewBlocks == Blocks \subseteq Blocks' /\ Blocks' \subseteq Blocks \cup (Objs' \ Objs)

LEMMA BlocksAre ==
  ASSUME StartInv
  PROVE  Blocks \subseteq Objs /\ DOMAIN insts = Objs /\ Endpoints = {o \in Objs : Types[insts[o].type].endpoint}
<1>1. DOMAIN insts = Objs
  BY SeqFacts DEF StartInv, StartTypes, Objs
<1> QED  BY <1>1 DEF Blocks, Endpoints, Range, StartInv, StartTypes

LEMMA NewAreLast ==
  ASSUME StartInv, Grows, NEW n \in Objs' \ Objs, NEW o \in Objs \cup {Globals}
  PROVE  o < n /\ ~(n < o) /\ n \in Nat /\ o \in Nat
<1>1. Len(insts) \in Nat /\ Len(insts') \in Nat
  BY SeqFacts DEF StartInv, StartTypes, Grows
<1> QED  BY <1>1 DEF Objs, Globals

LEMMA OfGlobalsKept ==
  ASSUME StartInv, Grows, NewBlocks, NEW o \in Objs \cup {Globals}
  PROVE  OfGlobals(o)' <=> OfGlobals(o)
<1>1. \A b \in Blocks' : b \in Blocks \/ o < b
  BY NewAreLast DEF NewBlocks
<1>2. OfGlobals(o) <=> \A b \in Blocks : o < b
  BY DEF OfGlobals, Blocks
<1>3. OfGlobals(o)' <=> \A b \in Blocks' : o < b
  BY DEF OfGlobals, Blocks
<1> QED  BY <1>1, <1>2, <1>3 DEF NewBlocks

LEMMA HonouredKept ==
  ASSUME StartInv, Grows, NewBlocks, files' = files, NEW o \in Objs, values'[o] = values[o], Honoured(o)
  PROVE  Honoured(o)'
<1>1. OfGlobals(o)' <=> OfGlobals(o)
  BY OfGlobalsKept
<1>2. insts'[o] = insts[o]
  BY DEF Grows
<1>3. \A d : Expected(o, d)' = Expected(o, d)
  BY <1>1, <1>2 DEF Expected
<1> QED  BY <1>2, <1>3 DEF Honoured

(* A step within the Init calls in progress. *)
Steady(T) ==
    /\ pc = "init" /\ pc' = "init" /\ Grows /\ Depth > 0 /\ Depth' > 0
    /\ UNCHANGED <<input, todo, globals, names, aliases, values>>
    /\ stack'[1].obj = stack[1].obj
    /\ \A o : OnStack(o) => OnStack(o)'
    /\ \A o \in Objs' \ Objs : OnStack(o)' /\ ~Types[insts'[o].type].endpoint /\ insts'[o].node \in T
    /\ \A i \in 1 .. Depth' : \/ \E j \in 1 .. Depth : stack'[i].obj = stack[j].obj
                              \/ stack'[i].obj \in Objs' \ Objs
                              \/ \E n \in DOMAIN names : names[n] = stack'[i].obj

LEMMA SteadyKeeps ==
  ASSUME StartInv, StartInv', NEW T, ConfigRun(T), Steady(T), FramesRead(T)'
  PROVE  ConfigRun(T)'
<1>1. /\ pc = "init" /\ pc' = "init" /\ Grows /\ Depth > 0 /\ Depth' > 0
      /\ input' = input /\ todo' = todo /\ globals' = globals /\ names' = names /\ aliases' = aliases /\ values' = values
      /\ stack'[1].obj = stack[1].obj /\ files' = files
  BY DEF Steady, files
<1>2. \A o \in Objs' : o \in Objs \/ o \in Objs' \ Objs
  OBVIOUS
<1>3. Objs \subseteq Objs'
  BY <1>1, SeqFacts DEF Grows, Objs, StartInv, StartTypes
<1>4. Endpoints' = Endpoints /\ NewBlocks
  <2>1. Endpoints' = {o \in Objs' : Types[insts'[o].type].endpoint}
    <3>1. DOMAIN insts' = Objs'
      BY SeqFacts DEF StartInv, StartTypes, Objs
    <3> QED  BY <3>1 DEF Endpoints, StartInv, StartTypes
  <2>2. Endpoints' = Endpoints
    BY <1>1, <1>3, <2>1, BlocksAre DEF Steady, Grows
  <2> QED  BY <1>1, <2>2 DEF NewBlocks, Blocks
<1>5. TreesKept(T)'
  <2>1. \A o \in Objs' : insts'[o].node \in T
    BY <1>1 DEF Steady, Grows, ConfigRun, TreesKept
  <2> QED  BY <1>1, <2>1 DEF ConfigRun, TreesKept
<1>6. GlobalsOK'
  <2>1. AtGlobals' <=> AtGlobals
    BY <1>1 DEF AtGlobals
  <2>2. GlobalsRead' <=> GlobalsRead
    BY <1>1 DEF GlobalsRead, GlobalRead
  <2>3. BlocksKnown' <=> BlocksKnown
    BY <1>1 DEF BlocksKnown
  <2> QED  BY <1>1, <1>4, <2>1, <2>2, <2>3 DEF ConfigRun, GlobalsOK
<1>7. LateOK'
  <2> SUFFICES ASSUME stack'[1].obj # Globals, NEW i \in 1 .. Depth' PROVE ~OfGlobals(stack[i].obj)'
    BY DEF LateOK
  <2>1. \A j \in 1 .. Depth : ~OfGlobals(stack[j].obj) /\ stack[j].obj \in Objs \cup {Globals}
    BY <1>1 DEF ConfigRun, LateOK, StartInv, StartTypes
  <2>2. PICK o : o = stack'[i].obj
    OBVIOUS
  <2>3. ASSUME NEW j \in 1 .. Depth, o = stack[j].obj PROVE ~OfGlobals(o)'
    BY <1>1, <1>4, <2>1, <2>3, OfGlobalsKept
  <2>4. ASSUME o \in Objs' \ Objs PROVE ~OfGlobals(o)'
    <3>1. PICK q : q = stack[1].obj
      OBVIOUS
    <3>2. ~OfGlobals(q)
      BY <1>1, <2>1, <3>1, DepthNat DEF StartInv, StartTypes
    <3>3. PICK b \in Blocks : TRUE
      BY <3>2 DEF OfGlobals, Blocks
    <3>4. b \in Objs
      BY <3>3, BlocksAre
    <3>5. ~(o < b) /\ b \in Blocks'
      BY <1>1, <1>4, <2>4, <3>4, NewAreLast DEF NewBlocks
    <3> QED  BY <3>5 DEF OfGlobals, Blocks
  <2>5. ASSUME NEW n \in DOMAIN names, names[n] = o PROVE ~OfGlobals(o)'
    <3>1. o \in Range(names) /\ o \in Objs
      BY <2>5 DEF Range, StartInv, StartTypes
    <3>2. ~(o < o) /\ o \in Blocks'
      BY <1>1, <3>1, SeqFacts DEF Blocks, Objs, StartInv, StartTypes
    <3> QED  BY <3>2 DEF OfGlobals, Blocks
  <2>6. ~OfGlobals(o)'
    BY <2>2, <2>3, <2>4, <2>5 DEF Steady
  <2> QED  BY <2>2, <2>6 DEF OfGlobals
<1>8. ValuesOK'
  <2>1. \A o \in Finished : o \in Objs /\ Honoured(o)
    BY DEF ConfigRun, ValuesOK, StartInv, StartTypes
  <2>2. Finished' = Finished
    BY <1>1 DEF Finished
  <2> QED  BY <1>1, <1>4, <2>1, <2>2, HonouredKept DEF ValuesOK
<1>9. PlacedOK'
  <2>1. \A o \in Objs : o \in Finished \/ OnStack(o)' \/ Types[insts'[o].type].endpoint \/ \E n \in DOMAIN names' : names'[n] = o
    BY <1>1 DEF ConfigRun, PlacedOK, Steady, Grows
  <2>2. \A o \in Objs' \ Objs : OnStack(o)'
    BY DEF Steady
  <2>3. Finished' = Finished
    BY <1>1 DEF Finished
  <2> QED  BY <2>1, <2>2, <2>3 DEF PlacedOK
<1>10. AliasesOK' /\ RunningOK'
  BY <1>1 DEF ConfigRun, AliasesOK, RunningOK
<1> QED  BY <1>5, <1>6, <1>7, <1>8, <1>9, <1>10 DEF ConfigRun

LEMMA InnerSteady ==
  ASSUME StartInv, InnerStep, UNCHANGED <<input, todo, globals, aliases>>, NEW T
  PROVE  Steady(T)
<1>1. /\ Depth > 0 /\ Depth' > 0 /\ stack'[1].obj = stack[1].obj
      /\ \A o : OnStack(o)' <=> OnStack(o)
      /\ \A i \in 1 .. Depth' : \E j \in 1 .. Depth : stack'[i].obj = stack[j].obj
  BY InnerStack DEF StartInv
<1>2. pc = "init" /\ pc' = "init" /\ insts' = insts /\ names' = names /\ values' = values
  BY DEF InnerStep
<1>3. Grows /\ Objs' = Objs
  BY <1>2, SameGrows
<1> QED  BY <1>1, <1>2, <1>3 DEF Steady

LEMMA UseSteady ==
  ASSUME StartInv, NEW b, UseStep(b), UNCHANGED <<input, todo, globals, aliases>>, NEW T,
         \A o \in Objs' \ Objs : o = b /\ ~Types[insts'[o].type].endpoint /\ insts'[o].node \in T,
         b \in Objs => \E n \in DOMAIN names : names[n] = b
  PROVE  Steady(T)
<1>1. /\ Depth' > 0 /\ stack'[1].obj = stack[1].obj
      /\ \A o : OnStack(o) => OnStack(o)'
      /\ b \in Finished \/ OnStack(b)'
      /\ \A i \in 1 .. Depth' : (\E j \in 1 .. Depth : stack'[i].obj = stack[j].obj) \/ stack'[i].obj = b
  BY UseStack DEF StartInv
<1>2. pc = "init" /\ pc' = "init" /\ Grows /\ b \in Objs' /\ names' = names /\ values' = values
  BY DEF UseStep
<1>3. Depth > 0 /\ Finished \subseteq Objs
  BY <1>2 DEF StartInv, StackOK, StartTypes
<1>4. \A o \in Objs' \ Objs : OnStack(o)'
  BY <1>1, <1>3
<1>5. \A i \in 1 .. Depth' : \/ \E j \in 1 .. Depth : stack'[i].obj = stack[j].obj
                             \/ stack'[i].obj \in Objs' \ Objs
                             \/ \E n \in DOMAIN names : names[n] = stack'[i].obj
  BY <1>1, <1>2
<1> QED  BY <1>1, <1>2, <1>3, <1>4, <1>5 DEF Steady

LEMMA TopReads ==
  ASSUME StartInv, pc = "init", NEW T, FramesRead(T)
  PROVE  /\ FrameOK(T, insts, files, Top) /\ IsFrame(Top) /\ Top.obj \in Objs \cup {Globals}
         /\ Top.kids \in Seq(T) /\ Top.unknown \in Seq(T)
         /\ Top.sort = "block" => Matchers = MatchersIn(insts, Top.obj)
         /\ Top.at <= Len(Top.kids) => Node1 \in T /\ Node1 = Top.kids[Top.at]
<1>1. FramesOK /\ Depth > 0 /\ IsFrame(Top)
  BY OnTop
<1>2. Depth \in 1 .. Depth /\ Top = stack[Depth]
  BY <1>1, DepthNat DEF Top, Depth
<1>3. FrameOK(T, insts, files, Top) /\ Top.obj \in Objs \cup {Globals}
  BY <1>2 DEF FramesRead, StartInv, StartTypes
<1>4. Top.kids \in Seq(T) /\ Top.unknown \in Seq(T) /\ Top.at \in Nat /\ 1 <= Top.at
  BY <1>3 DEF FrameOK, FrameTrees
<1>5. Top.at <= Len(Top.kids) => Node1 \in T /\ Node1 = Top.kids[Top.at]
  BY <1>4 DEF Node1
<1>6. Top.sort = "block" => Matchers = MatchersIn(insts, Top.obj)
  BY DEF Matchers, MatchersIn
<1> QED  BY <1>1, <1>3, <1>4, <1>5, <1>6

LEMMA TakeUnknownReads ==
  ASSUME StartInv, NEW T, ConfigRun(T), TakeUnknown
  PROVE  Failing \/ (Steady(T) /\ FramesRead(T)')
<1>1. pc = "init" /\ Top.at <= Len(Top.kids) /\ Node1.name \notin DOMAIN Matchers
  BY DEF TakeUnknown, Taking, Known
<1>2. CASE Fail
  BY <1>2 DEF TakeUnknown, Fail, Failing, runVars
<1>3. CASE ~Fail
  <2>1. PICK f, x, y, g : f = Top /\ x = Top.at + 1 /\ y = Append(Top.unknown, Node1) /\ g = Aside(f, x, y)
    OBVIOUS
  <2>2. /\ stack' = Append(Below, g) /\ AllowUnknown /\ pc' = pc
        /\ UNCHANGED <<input, insts, todo, globals, aliases>>
    BY <1>3, <2>1 DEF TakeUnknown, SetTop, Aside
  <2>3. FramesRead(T)
    BY DEF ConfigRun
  <2>4. /\ FrameOK(T, insts, files, f) /\ IsFrame(f) /\ f.sort = "block"
        /\ Matchers = MatchersIn(insts, f.obj) /\ Node1 = f.kids[f.at]
    BY <1>1, <2>1, <2>2, <2>3, TopReads DEF AllowUnknown
  <2>5. g.obj = f.obj /\ g.sort = f.sort /\ g.kids = f.kids /\ g.at = x /\ g.vals = f.vals /\ g.unknown = y
    <3>1. IsFrame(f) /\ g = Aside(f, x, y)
      BY <2>1, <2>4
    <3> QED  BY <3>1, AsideParts
  <2>6. PICK M, n : M = MatchersIn(insts, f.obj) /\ n = f.kids[f.at].name
    OBVIOUS
  <2>7. n \notin DOMAIN M /\ y = Append(f.unknown, f.kids[f.at]) /\ g.at = f.at + 1 /\ f.at <= Len(f.kids)
    BY <1>1, <2>1, <2>4, <2>5, <2>6
  <2>8. FrameOK(T, insts, files, g)
    BY <2>4, <2>5, <2>6, <2>7, FrameSetsAside
  <2>9. Grows /\ files' = files /\ FrameOK(T, insts', files', g)
    BY <2>2, <2>8, SameGrows DEF files
  <2>10. FramesRead(T)'
    BY <1>1, <2>2, <2>3, <2>9, FramesTurn
  <2>11. Failing \/ InnerStep
    BY TakeUnknownInner
  <2> QED  BY <2>2, <2>10, <2>11, InnerSteady
<1> QED  BY <1>2, <1>3

LEMMA TakeValueReads ==
  ASSUME StartInv, NEW T, ConfigRun(T), TakeValue
  PROVE  Failing \/ (Steady(T) /\ FramesRead(T)')
<1>1. pc = "init" /\ Top.at <= Len(Top.kids) /\ Node1.name \in DOMAIN Matchers /\ Matchers[Node1.name].kind \notin ModuleKinds
  BY DEF TakeValue, Taking, Known
<1>2. CASE Fail
  BY <1>2 DEF TakeValue, Fail, Failing, runVars
<1>3. CASE ~Fail
  <2>1. PICK f, n, v, g : /\ f = Top /\ n = Node1.name
                          /\ v = (CHOOSE x \in Mapped(Matchers[Node1.name], Node1) : TRUE)
                          /\ g = Done(f, n, v)
    OBVIOUS
  <2>2. /\ stack' = Append(Below, g) /\ ~Duplicate /\ Mapped(Matchers[Node1.name], Node1) # {} /\ pc' = pc
        /\ UNCHANGED <<input, insts, todo, globals, aliases>>
    BY <1>3, <2>1 DEF TakeValue, SetTop
  <2>3. FramesRead(T)
    BY DEF ConfigRun
  <2>4. /\ FrameOK(T, insts, files, f) /\ IsFrame(f)
        /\ f.sort = "block" => Matchers = MatchersIn(insts, f.obj)
        /\ Node1 = f.kids[f.at]
    BY <1>1, <2>1, <2>3, TopReads
  <2>5. v \in Mapped(Matchers[Node1.name], Node1) /\ n \notin DOMAIN f.vals
    BY <1>1, <2>1, <2>2 DEF Duplicate, ModuleKinds
  <2>6. PICK M : M = Matchers
    OBVIOUS
  <2>7. /\ n = f.kids[f.at].name /\ f.at <= Len(f.kids) /\ g = Done(f, n, v)
        /\ f.sort = "block" => /\ M = MatchersIn(insts, f.obj) /\ n \in DOMAIN M
                               /\ M[n].kind \in ModuleKinds \/ (n \notin DOMAIN f.vals /\ v \in Mapped(M[n], f.kids[f.at]))
    BY <1>1, <2>1, <2>4, <2>5, <2>6
  <2>8. FrameOK(T, insts, files, g)
    BY <2>4, <2>7, FrameTakes
  <2>9. Grows /\ files' = files /\ FrameOK(T, insts', files', g)
    BY <2>2, <2>8, SameGrows DEF files
  <2>10. FramesRead(T)'
    BY <1>1, <2>2, <2>3, <2>9, FramesTurn
  <2>11. Failing \/ InnerStep
    BY TakeValueInner
  <2> QED  BY <2>2, <2>10, <2>11, InnerSteady
<1> QED  BY <1>2, <1>3

LEMMA ListOfTwo ==
  ASSUME NEW T, NEW d \in T, NEW s \in Seq(T)
  PROVE  <<d>> \o s \in Seq(T) /\ <<>> \o s \in Seq(T)
  OBVIOUS

LEMMA TakeTLSReads ==
  ASSUME StartInv, NEW T, Trees(T), ConfigRun(T), TakeTLS
  PROVE  Failing \/ (Steady(T) /\ FramesRead(T)')
<1>1. pc = "init" /\ Top.at <= Len(Top.kids) /\ Node1.name \in DOMAIN Matchers /\ Matchers[Node1.name].kind = "tls"
  BY DEF TakeTLS, Taking, Known
<1>2. CASE Fail
  BY <1>2 DEF TakeTLS, Fail, Failing, runVars
<1>3. CASE ~Fail
  <2>1. PICK f, n, w, x, g, i, kids :
          /\ f = Top /\ n = Node1.name /\ w = <<"off">> /\ x = <<"on">> /\ g = Done(f, n, w) /\ i = Done(f, n, x)
          /\ kids = (IF Node1.args = <<>> THEN <<>> ELSE <<Dir("loader_arg", Node1.args)>>) \o Node1.kids
    OBVIOUS
  <2>2. /\ UNCHANGED <<input, insts, todo, globals, aliases>> /\ pc' = pc
        /\ \/ stack' = Append(Below, g)
           \/ stack' = Append(Append(Below, i), NewFrame(Top.obj, "tls", kids))
    BY <1>3, <2>1 DEF TakeTLS, SetTop
  <2>3. FramesRead(T)
    BY DEF ConfigRun
  <2>4. /\ FrameOK(T, insts, files, f) /\ IsFrame(f)
        /\ f.sort = "block" => Matchers = MatchersIn(insts, f.obj)
        /\ Node1 = f.kids[f.at] /\ Node1 \in T
    BY <1>1, <2>1, <2>3, TopReads
  <2>5. PICK M : M = Matchers
    OBVIOUS
  <2>6. /\ n = f.kids[f.at].name /\ f.at <= Len(f.kids) /\ g = Done(f, n, w) /\ i = Done(f, n, x)
        /\ f.sort = "block" => M = MatchersIn(insts, f.obj) /\ n \in DOMAIN M /\ M[n].kind \in ModuleKinds
    BY <1>1, <2>1, <2>4, <2>5 DEF ModuleKinds
  <2>7. FrameOK(T, insts, files, g) /\ FrameOK(T, insts, files, i)
    BY <2>4, <2>6, FrameTakes
  <2>8. Grows /\ files' = files /\ FrameOK(T, insts', files', g) /\ FrameOK(T, insts', files', i)
    BY <2>2, <2>7, SameGrows DEF files
  <2>9. kids \in Seq(T)
    <3>1. PICK d, s : d = Dir("loader_arg", Node1.args) /\ s = Node1.kids
      OBVIOUS
    <3>2. d \in T /\ s \in Seq(T)
      BY <2>4, <3>1 DEF Trees
    <3>3. kids = <<d>> \o s \/ kids = <<>> \o s
      BY <2>1, <3>1
    <3> QED  BY <3>2, <3>3, ListOfTwo
  <2>10. FramesRead(T)'
    <3>1. CASE stack' = Append(Below, g)
      BY <1>1, <2>3, <2>8, <3>1, FramesTurn
    <3>2. CASE stack' = Append(Append(Below, i), NewFrame(Top.obj, "tls", kids))
      <4>1. PICK o, s, h : o = Top.obj /\ s = "tls" /\ h = NewFrame(o, s, kids)
        OBVIOUS
      <4>2. FrameOK(T, insts', files', h)
        BY <2>9, <4>1, FrameBegins
      <4>3. stack' = Append(Append(Below, i), h)
        BY <3>2, <4>1
      <4> QED  BY <1>1, <2>3, <2>8, <4>2, <4>3, FramesPush
    <3> QED  BY <2>2, <3>1, <3>2
  <2>11. Failing \/ InnerStep
    BY TakeTLSInner
  <2> QED  BY <2>2, <2>10, <2>11, InnerSteady
<1> QED  BY <1>2, <1>3

LEMMA TakeReferenceReads ==
  ASSUME StartInv, NEW T, Trees(T), ConfigRun(T), TakeReference
  PROVE  Failing \/ (Steady(T) /\ FramesRead(T)')
<1>1. /\ pc = "init" /\ Top.at <= Len(Top.kids) /\ Node1.name \in DOMAIN Matchers
      /\ Matchers[Node1.name].kind \in {"module", "callback"}
  BY DEF TakeReference, Taking, Known
<1>2. CASE Fail
  BY <1>2 DEF TakeReference, Fail, Failing, runVars
<1>3. CASE ~Fail
  <2>1. PICK name, b, f, n, x, g, kids :
          /\ name = IF Node1.args[1].v \in DOMAIN aliases THEN aliases[Node1.args[1].v] ELSE Node1.args[1].v
          /\ b = names[name] /\ f = Top /\ n = Node1.name /\ x = <<"module">> /\ g = Done(f, n, x)
          /\ kids = insts[b].node.kids
    OBVIOUS
  <2>2. /\ name \in DOMAIN names
        /\ stack' = Append(Below, g) \/ stack' = Append(Append(Below, g), NewFrame(b, "block", kids))
        /\ uses' = uses \cup {<<Top.obj, b>>}
        /\ UNCHANGED <<input, insts, todo, globals, aliases>> /\ pc' = pc
    BY <1>3, <2>1 DEF TakeReference, Uses, Marked
  <2>3. FramesRead(T)
    BY DEF ConfigRun
  <2>4. /\ FrameOK(T, insts, files, f) /\ IsFrame(f)
        /\ f.sort = "block" => Matchers = MatchersIn(insts, f.obj)
        /\ Node1 = f.kids[f.at]
    BY <1>1, <2>1, <2>3, TopReads
  <2>5. PICK M : M = Matchers
    OBVIOUS
  <2>6. /\ n = f.kids[f.at].name /\ f.at <= Len(f.kids) /\ g = Done(f, n, x)
        /\ f.sort = "block" => M = MatchersIn(insts, f.obj) /\ n \in DOMAIN M /\ M[n].kind \in ModuleKinds
    BY <1>1, <2>1, <2>4, <2>5 DEF ModuleKinds
  <2>7. FrameOK(T, insts, files, g)
    BY <2>4, <2>6, FrameTakes
  <2>8. Grows /\ Objs' = Objs /\ files' = files /\ FrameOK(T, insts', files', g)
    BY <2>2, <2>7, SameGrows DEF files
  <2>9. b \in Objs /\ b # Globals /\ kids \in Seq(T)
    <3>1. b \in Objs
      BY <2>1, <2>2 DEF StartInv, StartTypes
    <3>2. insts[b].node \in T
      BY <3>1 DEF ConfigRun, TreesKept
    <3> QED  BY <2>1, <3>1, <3>2 DEF Trees, Objs, Globals
  <2>10. FramesRead(T)'
    <3>1. CASE stack' = Append(Below, g)
      BY <1>1, <2>3, <2>8, <3>1, FramesTurn
    <3>2. CASE stack' = Append(Append(Below, g), NewFrame(b, "block", kids))
      <4>1. PICK s, h : s = "block" /\ h = NewFrame(b, s, kids)
        OBVIOUS
      <4>2. kids = KidsIn(insts', files', b)
        BY <2>1, <2>2, <2>9 DEF KidsIn
      <4>3. FrameOK(T, insts', files', h)
        BY <2>9, <4>1, <4>2, FrameBegins
      <4>4. stack' = Append(Append(Below, g), h)
        BY <3>2, <4>1
      <4> QED  BY <1>1, <2>3, <2>8, <4>3, <4>4, FramesPush
    <3> QED  BY <2>2, <3>1, <3>2
  <2>11. Failing \/ \E c : UseStep(c) /\ \E m \in DOMAIN names : names[m] = c
    BY TakeReferenceUse
  <2> QED  BY <2>2, <2>8, <2>10, <2>11, UseSteady
<1> QED  BY <1>2, <1>3

LEMMA NewObjectLast ==
  ASSUME StartInv, NEW n, NEW type, NEW k, insts' = Append(insts, NewObject(n, type, k))
  PROVE  /\ insts'[Len(insts) + 1] = NewObject(n, type, k) /\ insts'[Len(insts) + 1].node = k
         /\ \A o \in Objs' \ Objs : o = Len(insts) + 1
<1>1. PICK s, e, r, len : s = insts /\ e = NewObject(n, type, k) /\ r = insts' /\ len = Len(insts)
  OBVIOUS
<1>2. IsSeq(s) /\ len \in Nat /\ len = Len(s)
  BY <1>1, SeqFacts DEF StartInv, StartTypes
<1>3. Pushed(s, e, r)
  <2>1. r = Append(s, e)
    BY <1>1
  <2> QED  BY <1>2, <2>1, SeqPush
<1>4. Len(insts') = len + 1 /\ insts'[len + 1] = e
  BY <1>1, <1>2, <1>3 DEF Pushed
<1>5. e.node = k
  BY <1>1 DEF NewObject
<1>6. \A o \in (1 .. len + 1) \ (1 .. len) : o = len + 1
  BY <1>2
<1> QED  BY <1>1, <1>4, <1>5, <1>6 DEF Objs

LEMMA TakeInlineReads ==
  ASSUME StartInv, NEW T, Trees(T), ConfigRun(T), TakeInline
  PROVE  Failing \/ (Steady(T) /\ FramesRead(T)')
<1>1. /\ pc = "init" /\ Top.at <= Len(Top.kids) /\ Node1.name \in DOMAIN Matchers
      /\ Matchers[Node1.name].kind \in {"module", "callback"}
  BY DEF TakeInline, Taking, Known
<1>2. CASE Fail
  BY <1>2 DEF TakeInline, Fail, Failing, runVars
<1>3. CASE ~Fail
  <2>1. PICK type, b, f, n, x, g, kids, em, nd :
          /\ type = TypeOf(Matchers[Node1.name], Node1) /\ em = "" /\ nd = Node1
          /\ b = Len(insts) + 1 /\ f = Top /\ n = Node1.name /\ x = <<"module">> /\ g = Done(f, n, x)
          /\ kids = Node1.kids
    OBVIOUS
  <2>2. /\ type \in DOMAIN Types /\ ~Types[type].endpoint
        /\ insts' = Append(insts, NewObject(em, type, nd))
        /\ stack' = Append(Append(Below, g), NewFrame(b, "block", kids))
        /\ UNCHANGED <<input, todo, globals, aliases>> /\ pc' = pc
    BY <1>3, <2>1 DEF TakeInline, Uses, Marked
  <2>3. FramesRead(T)
    BY DEF ConfigRun
  <2>4. /\ FrameOK(T, insts, files, f) /\ IsFrame(f) /\ f.obj \in Objs \cup {Globals}
        /\ f.sort = "block" => Matchers = MatchersIn(insts, f.obj)
        /\ Node1 = f.kids[f.at] /\ Node1 \in T
    BY <1>1, <2>1, <2>3, TopReads
  <2>5. PICK M : M = Matchers
    OBVIOUS
  <2>6. /\ n = f.kids[f.at].name /\ f.at <= Len(f.kids) /\ g = Done(f, n, x)
        /\ f.sort = "block" => M = MatchersIn(insts, f.obj) /\ n \in DOMAIN M /\ M[n].kind \in ModuleKinds
    BY <1>1, <2>1, <2>4, <2>5 DEF ModuleKinds
  <2>7. FrameOK(T, insts, files, g)
    BY <2>4, <2>6, FrameTakes
  <2>8. Grows /\ files' = files /\ insts'[b].type = type /\ b \in Objs' \ Objs
    BY <2>1, <2>2, NewGrows DEF files
  <2>9. g.obj \in Objs \cup {Globals}
    BY <2>4, <2>6, DoneParts
  <2>10. FrameOK(T, insts', files', g)
    BY <2>7, <2>8, <2>9, FrameStays
  <2>11. insts'[b].node = nd /\ \A o \in Objs' \ Objs : o = b
    BY <2>1, <2>2, NewObjectLast
  <2>12. b # Globals
    BY <2>8 DEF Objs, Globals
  <2>13. kids \in Seq(T) /\ kids = KidsIn(insts', files', b)
    BY <2>1, <2>4, <2>11, <2>12 DEF Trees, KidsIn
  <2>14. FramesRead(T)'
    <3>1. PICK s, h : s = "block" /\ h = NewFrame(b, s, kids)
      OBVIOUS
    <3>2. FrameOK(T, insts', files', h)
      BY <2>13, <3>1, FrameBegins
    <3>3. stack' = Append(Append(Below, g), h)
      BY <2>2, <3>1
    <3> QED  BY <1>1, <2>3, <2>8, <2>10, <3>2, <3>3, FramesPush
  <2>15. Failing \/ UseStep(b)
    BY <2>1, TakeInlineUse
  <2>16. \A o \in Objs' \ Objs : o = b /\ ~Types[insts'[o].type].endpoint /\ insts'[o].node \in T
    BY <2>1, <2>2, <2>4, <2>8, <2>11
  <2>17. b \in Objs => \E m \in DOMAIN names : names[m] = b
    BY <2>8
  <2>18. UNCHANGED <<input, todo, globals, aliases>>
    BY <2>2
  <2>19. UseStep(b) => Steady(T)
    BY <2>16, <2>17, <2>18, UseSteady
  <2> QED  BY <2>14, <2>15, <2>19
<1> QED  BY <1>2, <1>3

LEMMA EndPipelineReads ==
  ASSUME StartInv, NEW T, Trees(T), ConfigRun(T), EndPipeline
  PROVE  Failing \/ (Steady(T) /\ FramesRead(T)')
<1>1. pc = "init"
  BY DEF EndPipeline, AtEnd
<1>2. CASE Fail
  BY <1>2 DEF EndPipeline, Fail, Failing, runVars
<1>3. CASE ~Fail
  <2>1. PICK f, g, kids : f = Top /\ g = [f EXCEPT !.piped = TRUE] /\ kids = ParsePipeline(Top.unknown).refs
    OBVIOUS
  <2>2. /\ UNCHANGED <<input, insts, todo, globals, aliases>> /\ pc' = pc
        /\ ~ParsePipeline(Top.unknown).err
        /\ stack' = Append(Append(Below, g), NewFrame(Top.obj, "pipeline", kids))
    BY <1>3, <2>1 DEF EndPipeline
  <2>3. FramesRead(T)
    BY DEF ConfigRun
  <2>4. FrameOK(T, insts, files, f) /\ IsFrame(f) /\ f.unknown \in Seq(T)
    BY <1>1, <2>1, <2>3, TopReads
  <2>5. kids \in Seq(T)
    BY <2>1, <2>2, <2>4 DEF Trees
  <2>6. g.obj = f.obj /\ g.sort = f.sort /\ g.kids = f.kids /\ g.at = f.at /\ g.vals = f.vals /\ g.unknown = f.unknown
    BY <2>1, <2>4, PipedParts
  <2>7. FrameOK(T, insts, files, g)
    BY <2>4, <2>6, FrameGoesOn
  <2>8. Grows /\ files' = files /\ FrameOK(T, insts', files', g)
    BY <2>2, <2>7, SameGrows DEF files
  <2>9. PICK o, s, h : o = Top.obj /\ s = "pipeline" /\ h = NewFrame(o, s, kids)
    OBVIOUS
  <2>10. FrameOK(T, insts', files', h)
    BY <2>5, <2>9, FrameBegins
  <2>11. stack' = Append(Append(Below, g), h)
    BY <2>2, <2>9
  <2>12. FramesRead(T)'
    BY <1>1, <2>3, <2>8, <2>10, <2>11, FramesPush
  <2>13. Failing \/ InnerStep
    BY EndPipelineInner
  <2> QED  BY <2>2, <2>12, <2>13, InnerSteady
<1> QED  BY <1>2, <1>3

LEMMA EndPartReads ==
  ASSUME StartInv, NEW T, ConfigRun(T), EndTLS \/ EndPipelineModules
  PROVE  Steady(T) /\ FramesRead(T)'
<1>1. pc = "init" /\ stack' = Below /\ UNCHANGED <<input, insts, todo, globals, aliases>>
  BY DEF EndTLS, EndPipelineModules, AtEnd
<1>2. FramesRead(T) /\ files' = files
  BY <1>1 DEF ConfigRun, files
<1> QED  BY <1>1, <1>2, FramesPop, EndPartInner, InnerSteady

------------------------------------------------------------------------------
(* The end of an Init: the values are the expected ones *)

MapAll(m, nodes) == UNION {Mapped(m, n) : n \in nodes}

LEMMA MappedAll ==
  ASSUME NEW m, m.kind \in ValueKinds, NEW n, NEW v \in Mapped(m, n), NEW S, S = {n}
  PROVE  S # {} /\ MapAll(m, S) = {v}
<1>1. \A x \in Mapped(m, n) : x = v
  BY MappedOnce
<1> QED  BY <1>1 DEF MapAll

LEMMA EndValues ==
  ASSUME StartInv, NEW T, ConfigRun(T), AtEnd, Top.sort = "block", NEW M, M = Matchers, NEW vals, vals = Top.vals,
         NEW kids, kids = KidsIn(insts, files, Top.obj)
  PROVE  /\ M = MatchersIn(insts, Top.obj)
         /\ DOMAIN vals \subseteq DOMAIN M
         /\ \A d \in DOMAIN M : M[d].kind \notin ModuleKinds =>
              /\ d \in DOMAIN vals => \E n : GivenIn(kids, d) = {n} /\ vals[d] \in Mapped(M[d], n)
              /\ d \notin DOMAIN vals => GivenIn(kids, d) = {}
<1>1. pc = "init" /\ Top.at > Len(Top.kids) /\ FramesRead(T)
  BY DEF AtEnd, ConfigRun
<1>2. PICK f, at : f = Top /\ at = Top.at
  OBVIOUS
<1>3. FrameOK(T, insts, files, f) /\ M = MatchersIn(insts, Top.obj)
  BY <1>1, <1>2, TopReads
<1>4. /\ f.kids = kids /\ ReadSoFar(M, kids, at, vals)
      /\ kids \in Seq(T) /\ at \in Nat /\ at <= Len(kids) + 1 /\ at > Len(kids)
  BY <1>1, <1>2, <1>3 DEF FrameOK, FrameTrees, FrameReads
<1>5. IsSeq(kids) /\ at = Len(kids) + 1
  BY <1>4, SeqIs
<1>6. DOMAIN vals \subseteq DOMAIN M
  BY <1>4 DEF ReadSoFar
<1> QED  BY <1>3, <1>4, <1>5, <1>6, ReadEnds

LEMMA EndHonours ==
  ASSUME StartInv, NEW T, ConfigRun(T), AtEnd, Top.sort = "block", NEW o, o = Top.obj, o # Globals, Lacking = {},
         NEW d \in DOMAIN Types[insts[o].type].matchers, NEW m, m = Types[insts[o].type].matchers[d],
         m.kind \notin ModuleKinds, NEW w, w = Over(Top.vals, FilledIn)
  PROVE  {w[d]} = Expected(o, d)
<1>1. PICK M, kids, vals, own, given :
        /\ M = Matchers /\ kids = KidsIn(insts, files, Top.obj) /\ vals = Top.vals
        /\ own = GivenIn(insts[o].node.kids, d) /\ given = GivenIn(ReadFiles(files).nodes, d)
  OBVIOUS
<1>2. /\ M = MatchersIn(insts, o) /\ DOMAIN vals \subseteq DOMAIN M
      /\ \A c \in DOMAIN M : M[c].kind \notin ModuleKinds =>
           /\ c \in DOMAIN vals => \E n : GivenIn(kids, c) = {n} /\ vals[c] \in Mapped(M[c], n)
           /\ c \notin DOMAIN vals => GivenIn(kids, c) = {}
  BY <1>1, EndValues
<1>3. d \in DOMAIN M /\ M[d] = m /\ own = GivenIn(kids, d)
  BY <1>1, <1>2 DEF MatchersIn, KidsIn
<1>4. /\ d \in DOMAIN vals => \E n : own = {n} /\ vals[d] \in Mapped(m, n)
      /\ d \notin DOMAIN vals => own = {}
  BY <1>2, <1>3
<1>5. pc = "init" /\ Depth > 0 /\ Depth \in 1 .. Depth /\ 1 \in 1 .. Depth /\ Top = stack[Depth] /\ o \in Objs
  <2>1. pc = "init" /\ FramesOK /\ Depth > 0
    BY OnTop DEF AtEnd
  <2>2. Depth \in 1 .. Depth /\ 1 \in 1 .. Depth /\ Top = stack[Depth]
    BY <2>1, DepthNat DEF Top, Depth
  <2> QED  BY <2>1, <2>2 DEF StartInv, StartTypes
<1>6. /\ m.kind \in ValueKinds /\ m.kind # "callback"
      /\ m.inherit => IF d \in DOMAIN GlobalDirectives
                      THEN GlobalDirectives[d].kind = m.kind /\ GlobalDirectives[d].allowed = m.allowed
                      ELSE d \notin DOMAIN Types
  <2>1. insts[o].type \in DOMAIN Types
    BY <1>5 DEF StartInv, StartTypes
  <2> QED  BY <2>1, DirectivesAssumption DEF ModuleKinds
<1>9. /\ own # {} => Expected(o, d) = MapAll(m, own)
      /\ own = {} /\ ~(m.inherit /\ ~OfGlobals(o)) => Expected(o, d) = IF m.required THEN {} ELSE {m.dflt}
  <2>1. own = GivenIn(insts[o].node.kids, d)
    BY <1>1
  <2> QED  BY <2>1 DEF Expected, MapAll
<1>7. CASE d \in DOMAIN vals
  <2>1. PICK n : own = {n} /\ vals[d] \in Mapped(m, n)
    BY <1>4, <1>7
  <2>2. own # {} /\ MapAll(m, own) = {vals[d]}
    BY <1>6, <2>1, MappedAll
  <2>3. w[d] = vals[d]
    BY <1>1, <1>7 DEF Over
  <2> QED  BY <1>9, <2>2, <2>3
<1>8. CASE d \notin DOMAIN vals
  <2>1. own = {}
    BY <1>4, <1>8
  <2>2. d \in Unmatched(M, DOMAIN vals)
    BY <1>3, <1>6, <1>8 DEF Unmatched
  <2>3. FilledIn = [c \in Unmatched(M, DOMAIN vals) |-> IF Inherited(M[c], c, globals) THEN globals[c] ELSE M[c].dflt]
    BY <1>1 DEF FilledIn, Filled
  <2>4. w[d] = IF Inherited(m, d, globals) THEN globals[d] ELSE m.dflt
    <3>1. d \in DOMAIN FilledIn /\ FilledIn[d] = IF Inherited(m, d, globals) THEN globals[d] ELSE m.dflt
      BY <1>3, <2>2, <2>3
    <3> QED  BY <1>1, <1>8, <3>1 DEF Over
  <2>5. m.required => Inherited(m, d, globals)
    BY <1>1, <1>3, <2>2 DEF Lacking, Missing
  <2>6. ~Inherited(m, d, globals) => {w[d]} = IF m.required THEN {} ELSE {m.dflt}
    BY <2>4, <2>5
  <2>7. CASE AtGlobals
    <3>1. DOMAIN globals = {} /\ Endpoints = {} /\ DOMAIN names = {}
      BY <1>5, <2>7 DEF ConfigRun, GlobalsOK, StartInv, NamesOK, AtGlobals
    <3>2. OfGlobals(o) /\ ~Inherited(m, d, globals)
      BY <3>1 DEF OfGlobals, Range, Inherited
    <3> QED  BY <1>9, <2>1, <2>6, <3>2
  <2>8. CASE ~AtGlobals
    <3>1. GlobalsRead /\ BlocksKnown
      BY <2>8 DEF ConfigRun, GlobalsOK
    <3>2. ~OfGlobals(o)
      BY <1>5, <2>8 DEF ConfigRun, LateOK, AtGlobals
    <3>6. m.inherit =>
            /\ given # {} => Expected(o, d) = MapAll(m, given)
            /\ given = {} /\ d \notin DOMAIN GlobalDirectives => Expected(o, d) = IF m.required THEN {} ELSE {m.dflt}
            /\ given = {} /\ d \in DOMAIN GlobalDirectives /\ GlobalDirectives[d].dflt # Zero(m.kind)
                 => Expected(o, d) = {GlobalDirectives[d].dflt}
            /\ given = {} /\ d \in DOMAIN GlobalDirectives /\ GlobalDirectives[d].dflt = Zero(m.kind)
                 => Expected(o, d) = IF m.required THEN {} ELSE {m.dflt}
      <4>1. given = GivenIn(ReadFiles(files).nodes, d) /\ GivenIn(insts[o].node.kids, d) = {}
        BY <1>1, <2>1
      <4>2. PICK z : z = Zero(m.kind)
        OBVIOUS
      <4> QED  BY <3>2, <4>1, <4>2 DEF Expected, MapAll
    <3>3. CASE ~m.inherit
      <4>1. ~Inherited(m, d, globals)
        BY <3>3 DEF Inherited
      <4> QED  BY <1>9, <2>1, <2>6, <3>3, <4>1
    <3>4. CASE m.inherit /\ d \notin DOMAIN GlobalDirectives
      <4>1. ~Inherited(m, d, globals)
        BY <3>1, <3>4 DEF Inherited, GlobalsRead
      <4>2. d \notin NamesOf(ReadFiles(files).nodes)
        BY <1>5, <1>6, <3>1, <3>4 DEF BlocksKnown
      <4>3. given = {}
        BY <1>1, <4>2 DEF GivenIn, NamesOf, Range
      <4> QED  BY <2>6, <3>4, <3>6, <4>1, <4>3
    <3>5. CASE m.inherit /\ d \in DOMAIN GlobalDirectives
      <4>1. PICK G : G = GlobalDirectives[d]
        OBVIOUS
      <4>2. G.kind = m.kind /\ G.allowed = m.allowed /\ GlobalRead(d, given)
        BY <1>1, <1>6, <3>1, <3>5, <4>1 DEF GlobalsRead
      <4>3. CASE given # {}
        <5>1. PICK n : d \in DOMAIN globals /\ given = {n} /\ globals[d] \in Mapped(G, n)
          BY <4>1, <4>2, <4>3 DEF GlobalRead
        <5>2. globals[d] \in Mapped(m, n)
          BY <1>6, <4>2, <5>1, MappedSame
        <5>3. MapAll(m, given) = {globals[d]}
          BY <1>6, <5>1, <5>2, MappedAll
        <5>4. w[d] = globals[d]
          BY <2>4, <3>5, <5>1 DEF Inherited
        <5> QED  BY <3>5, <3>6, <4>3, <5>3, <5>4
      <4>4. CASE given = {} /\ G.dflt # Zero(m.kind)
        <5>1. d \in DOMAIN globals /\ globals[d] = G.dflt
          BY <4>1, <4>2, <4>4 DEF GlobalRead
        <5>2. w[d] = G.dflt
          BY <2>4, <3>5, <5>1 DEF Inherited
        <5> QED  BY <3>5, <3>6, <4>1, <4>4, <5>2
      <4>5. CASE given = {} /\ G.dflt = Zero(m.kind)
        <5>1. d \notin DOMAIN globals
          BY <4>1, <4>2, <4>5 DEF GlobalRead
        <5>2. ~Inherited(m, d, globals)
          BY <5>1 DEF Inherited
        <5> QED  BY <2>6, <3>5, <3>6, <4>1, <4>5, <5>2
      <4> QED  BY <4>3, <4>4, <4>5
    <3> QED  BY <3>3, <3>4, <3>5
  <2> QED  BY <2>7, <2>8
<1> QED  BY <1>7, <1>8

LEMMA SameBlocks ==
  ASSUME StartInv, insts' = insts, names' = names
  PROVE  Grows /\ Objs' = Objs /\ Endpoints' = Endpoints /\ NewBlocks
<1>1. Endpoints' = Endpoints
  BY DEF Endpoints
<1> QED  BY <1>1, SameGrows DEF NewBlocks, Blocks

LEMMA EndInitReads ==
  ASSUME StartInv, mode = "run", NEW T, ConfigRun(T), EndInit
  PROVE  Failing \/ ConfigRun(T)'
<1>1. PICK o, w : o = Top.obj /\ w = Over(Top.vals, FilledIn)
  OBVIOUS
<1>2. AtEnd /\ Top.sort = "block" /\ o # Globals /\ Lacking = {} /\ pc = "init"
  BY <1>1 DEF EndInit, AtEnd
<1>3. CASE Fail
  BY <1>3 DEF EndInit, Fail, Failing, runVars
<1>4. CASE ~Fail
  <2>1. values' = Assign(values, o, w) /\ stack' = Below /\ UNCHANGED <<input, todo, globals, aliases, insts, names>>
    BY <1>1, <1>4 DEF EndInit
  <2>2. files' = files /\ Grows /\ Objs' = Objs /\ Endpoints' = Endpoints /\ NewBlocks
    BY <2>1, SameBlocks DEF files
  <2>3. Failing \/ EndStep(o)
    BY <1>1, EndInitEnd
  <2> SUFFICES ASSUME EndStep(o) PROVE ConfigRun(T)'
    BY <2>3
  <2>4. /\ Depth \in Nat /\ Depth > 0 /\ Depth' = Depth - 1
        /\ \A i \in 1 .. Depth' : i \in 1 .. Depth /\ stack'[i].obj = stack[i].obj
        /\ \A x : OnStack(x) => x = o \/ OnStack(x)'
        /\ o \in Objs /\ o \notin Finished
    BY EndStack DEF StartInv
  <2>5. pc' \in {"init", "start"} /\ Finished' = Finished \cup {o} /\ stack[Depth].obj = o
    BY <1>1 DEF EndStep, Top, Depth
  <2>6. TreesKept(T)' /\ AliasesOK' /\ RunningOK'
    BY <1>2, <2>1, <2>2, <2>5 DEF ConfigRun, TreesKept, AliasesOK, RunningOK
  <2>7. FramesRead(T)'
    BY <1>2, <2>1, <2>2, FramesPop DEF ConfigRun
  <2>8. GlobalsOK'
    <3>1. Depth' > 0 => stack'[1].obj = stack[1].obj
      BY <2>4
    <3>2. stack[1].obj = Globals => Depth' > 0
      BY <1>2, <2>4, <2>5
    <3>3. AtGlobals' <=> AtGlobals
      BY <1>2, <2>4, <2>5, <3>1, <3>2 DEF AtGlobals
    <3>4. GlobalsRead' <=> GlobalsRead
      BY <2>1, <2>2 DEF GlobalsRead, GlobalRead
    <3>5. BlocksKnown' <=> BlocksKnown
      BY <1>2, <2>1, <2>2, <2>5 DEF BlocksKnown
    <3> QED  BY <2>1, <2>2, <3>3, <3>4, <3>5 DEF ConfigRun, GlobalsOK
  <2>9. LateOK'
    <3> SUFFICES ASSUME Depth' > 0, stack'[1].obj # Globals, NEW i \in 1 .. Depth' PROVE ~OfGlobals(stack[i].obj)'
      BY DEF LateOK
    <3>1. PICK x : x = stack[i].obj
      OBVIOUS
    <3>2. i \in 1 .. Depth /\ stack'[i].obj = x /\ stack[1].obj # Globals
      BY <2>4, <3>1
    <3>3. ~OfGlobals(x) /\ x \in Objs \cup {Globals}
      BY <2>4, <3>1, <3>2 DEF ConfigRun, LateOK, StartInv, StartTypes
    <3>4. ~OfGlobals(x)'
      BY <2>2, <3>3, OfGlobalsKept
    <3> QED  BY <3>2, <3>4 DEF OfGlobals
  <2>10. ValuesOK'
    <3>1. Honoured(o)'
      <4>1. values'[o] = w /\ insts'[o] = insts[o]
        BY <2>1 DEF Assign
      <4>2. OfGlobals(o)' <=> OfGlobals(o)
        BY <2>2, <2>4, OfGlobalsKept
      <4>3. \A d : Expected(o, d)' = Expected(o, d)
        BY <2>2, <4>1, <4>2 DEF Expected
      <4>4. ASSUME NEW d \in DOMAIN Types[insts[o].type].matchers, Types[insts[o].type].matchers[d].kind \notin ModuleKinds
            PROVE  {w[d]} = Expected(o, d)
        <5>1. PICK m : m = Types[insts[o].type].matchers[d]
          OBVIOUS
        <5>2. m.kind \notin ModuleKinds
          BY <4>4, <5>1
        <5> QED  BY <1>1, <1>2, <5>1, <5>2, EndHonours
      <4> QED  BY <4>1, <4>3, <4>4 DEF Honoured
    <3>2. \A x \in Finished : x \in Objs /\ Honoured(x) /\ values'[x] = values[x]
      BY <2>1, <2>4 DEF ConfigRun, ValuesOK, StartInv, StartTypes, Assign, Finished
    <3>3. \A x \in Finished : Honoured(x)'
      BY <2>2, <3>2, HonouredKept
    <3> QED  BY <2>5, <3>1, <3>3 DEF ValuesOK
  <2>11. PlacedOK'
    BY <2>1, <2>2, <2>4, <2>5 DEF ConfigRun, PlacedOK
  <2> QED  BY <2>6, <2>7, <2>8, <2>9, <2>10, <2>11 DEF ConfigRun
<1> QED  BY <1>3, <1>4

------------------------------------------------------------------------------
(* The global directives, the blocks and the endpoints *)

(* What the global block keeps for others. *)
LEMMA KeptIs ==
  ASSUME NEW M, NEW vals, NEW gs, DOMAIN gs = {}, NEW fill, fill = Filled(M, DOMAIN vals, gs), DOMAIN vals \subseteq DOMAIN M,
         NEW kept, kept = Kept(M, vals, fill)
  PROVE  /\ DOMAIN kept \subseteq DOMAIN M
         /\ \A d \in DOMAIN vals : d \in DOMAIN kept /\ kept[d] = vals[d]
         /\ \A d \in DOMAIN M \ DOMAIN vals : M[d].kind # "callback" =>
              /\ d \in DOMAIN kept <=> M[d].dflt # Zero(M[d].kind)
              /\ d \in DOMAIN kept => kept[d] = M[d].dflt
<1>1. PICK U : U = Unmatched(M, DOMAIN vals)
  OBVIOUS
<1>2. DOMAIN fill = U /\ \A d \in U : fill[d] = M[d].dflt
  BY <1>1 DEF Filled, Inherited
<1>3. PICK big : big = {x \in U : M[x].dflt # Zero(M[x].kind)}
  OBVIOUS
<1>4. \A x \in U : (x \in big <=> M[x].dflt # Zero(M[x].kind))
  BY <1>3
<1>5. big \subseteq U /\ big = {x \in DOMAIN fill : fill[x] # Zero(M[x].kind)}
  BY <1>2, <1>3
<1>6. PICK some : some = [d \in big |-> fill[d]]
  OBVIOUS
<1>7. kept = Over(vals, some)
  BY <1>5, <1>6 DEF Kept
<1>8. DOMAIN kept = DOMAIN vals \cup big
  BY <1>6, <1>7 DEF Over
<1>9. \A d \in DOMAIN vals : kept[d] = vals[d]
  BY <1>7 DEF Over
<1>10. \A d \in big : d \notin DOMAIN vals => kept[d] = fill[d]
  BY <1>6, <1>7 DEF Over
<1>11. U \subseteq DOMAIN M /\ \A d \in DOMAIN M \ DOMAIN vals : M[d].kind # "callback" => d \in U
  BY <1>1 DEF Unmatched
<1>12. DOMAIN kept \subseteq DOMAIN M
  BY <1>5, <1>8, <1>11
<1> QED  BY <1>2, <1>4, <1>5, <1>8, <1>9, <1>10, <1>11, <1>12

LEMMA OnlyGlobals ==
  ASSUME StartInv, pc = "init", Top.obj = Globals
  PROVE  AtGlobals /\ \A o \in Objs : ~OnStack(o)
<1>1. FramesOK /\ Depth > 0
  BY OnTop
<1>2. Depth \in Nat /\ Depth \in 1 .. Depth /\ 1 \in 1 .. Depth /\ stack[Depth].obj = Globals
  BY <1>1, DepthNat DEF Top, Depth
<1>3. ASSUME NEW i \in 1 .. Depth PROVE stack[i].obj = Globals
  <2>1. i < Depth \/ i = Depth
    BY <1>2
  <2>2. i < Depth => Calls(uses, Objs, stack[i].obj, stack[Depth].obj, stack[Depth].sort)
    BY <1>2 DEF StartInv, StackOK
  <2> QED  BY <1>2, <2>1, <2>2 DEF Calls
<1>4. Globals \notin Objs
  BY DEF Globals, Objs
<1> QED  BY <1>1, <1>2, <1>3, <1>4 DEF AtGlobals, OnStack

LEMMA EndGlobalsReads ==
  ASSUME StartInv, NEW T, ConfigRun(T), EndGlobals
  PROVE  ConfigRun(T)'
<1>1. /\ AtEnd /\ pc = "init" /\ Top.obj = Globals /\ Top.sort = "block"
      /\ globals' = Kept(Matchers, Top.vals, FilledIn) /\ todo' = Top.unknown /\ stack' = <<>> /\ pc' = "register"
      /\ UNCHANGED <<input, insts, names, aliases, values>>
  BY DEF EndGlobals, AtEnd
<1>2. files' = files /\ Grows /\ Objs' = Objs /\ Endpoints' = Endpoints /\ NewBlocks /\ Finished' = Finished
  BY <1>1, SameBlocks DEF files, Finished
<1>3. AtGlobals /\ \A o \in Objs : ~OnStack(o)
  BY <1>1, OnlyGlobals
<1>4. DOMAIN globals = {}
  BY <1>3 DEF ConfigRun, GlobalsOK
<1>5. Depth' = 0 /\ \A i \in 1 .. Depth' : FALSE
  BY <1>1, EmptyStack
<1>6. PICK M, vals, kids, fill, f :
        M = Matchers /\ vals = Top.vals /\ kids = KidsIn(insts, files, Top.obj) /\ fill = FilledIn /\ f = Top
  OBVIOUS
<1>7. /\ M = GlobalDirectives /\ kids = ReadFiles(files).nodes /\ DOMAIN vals \subseteq DOMAIN M
      /\ \A d \in DOMAIN M : M[d].kind \notin ModuleKinds =>
           /\ d \in DOMAIN vals => \E n : GivenIn(kids, d) = {n} /\ vals[d] \in Mapped(M[d], n)
           /\ d \notin DOMAIN vals => GivenIn(kids, d) = {}
  <2>1. /\ M = MatchersIn(insts, Top.obj) /\ DOMAIN vals \subseteq DOMAIN M
        /\ \A d \in DOMAIN M : M[d].kind \notin ModuleKinds =>
             /\ d \in DOMAIN vals => \E n : GivenIn(kids, d) = {n} /\ vals[d] \in Mapped(M[d], n)
             /\ d \notin DOMAIN vals => GivenIn(kids, d) = {}
    BY <1>1, <1>6, EndValues
  <2> QED  BY <1>1, <1>6, <2>1 DEF MatchersIn, KidsIn
<1>8. fill = Filled(M, DOMAIN vals, globals) /\ globals' = Kept(M, vals, fill)
  BY <1>1, <1>6 DEF FilledIn
<1>9. /\ DOMAIN globals' \subseteq DOMAIN M
      /\ \A d \in DOMAIN vals : d \in DOMAIN globals' /\ globals'[d] = vals[d]
      /\ \A d \in DOMAIN M \ DOMAIN vals : M[d].kind # "callback" =>
           /\ d \in DOMAIN globals' <=> M[d].dflt # Zero(M[d].kind)
           /\ d \in DOMAIN globals' => globals'[d] = M[d].dflt
  <2>1. PICK kept, gs : kept = globals' /\ gs = globals
    OBVIOUS
  <2>2. DOMAIN gs = {} /\ fill = Filled(M, DOMAIN vals, gs) /\ kept = Kept(M, vals, fill)
    BY <1>4, <1>8, <2>1
  <2>3. /\ DOMAIN kept \subseteq DOMAIN M
        /\ \A d \in DOMAIN vals : d \in DOMAIN kept /\ kept[d] = vals[d]
        /\ \A d \in DOMAIN M \ DOMAIN vals : M[d].kind # "callback" =>
             /\ d \in DOMAIN kept <=> M[d].dflt # Zero(M[d].kind)
             /\ d \in DOMAIN kept => kept[d] = M[d].dflt
    BY <1>7, <2>2, KeptIs
  <2> QED  BY <2>1, <2>3
<1>10. GlobalsRead'
  <2>1. ASSUME NEW d \in DOMAIN M, M[d].kind \notin ModuleKinds
        PROVE  GlobalRead(d, GivenIn(kids, d))'
    <3>1. M[d].kind # "callback"
      BY <2>1 DEF ModuleKinds
    <3>2. CASE d \in DOMAIN vals
      <4>1. PICK n : GivenIn(kids, d) = {n} /\ vals[d] \in Mapped(M[d], n)
        BY <1>7, <2>1, <3>2
      <4> QED  BY <1>7, <1>9, <3>2, <4>1 DEF GlobalRead
    <3>3. CASE d \notin DOMAIN vals
      <4>1. GivenIn(kids, d) = {}
        BY <1>7, <2>1, <3>3
      <4> QED  BY <1>7, <1>9, <3>1, <3>3, <4>1 DEF GlobalRead
    <3> QED  BY <3>2, <3>3
  <2> QED  BY <1>2, <1>7, <1>9, <2>1 DEF GlobalsRead, GlobalRead
<1>11. FrameOK(T, insts, files, f) /\ f.unknown \in Seq(T) /\ f.kids \in Seq(T)
  BY <1>1, <1>6, TopReads DEF ConfigRun
<1>12. BlocksKnown'
  <2>1. f.kids = kids /\ SetAside(f) /\ f.at > Len(f.kids) /\ f.at \in Nat /\ Len(kids) \in Nat /\ DOMAIN kids = 1 .. Len(kids)
    BY <1>1, <1>6, <1>11 DEF FrameOK, FrameReads, FrameTrees, AtEnd
  <2>2. \A j \in DOMAIN kids : j \in 1 .. f.at - 1
    BY <2>1
  <2>3. NamesOf(kids) \subseteq DOMAIN GlobalDirectives \cup NamesOf(f.unknown)
    BY <2>1, <2>2 DEF SetAside, NamesOf
  <2> QED  BY <1>1, <1>2, <1>6, <1>7, <2>3 DEF BlocksKnown
<1>13. GlobalsOK'
  BY <1>1, <1>5, <1>10, <1>12 DEF GlobalsOK, AtGlobals
<1>14. TreesKept(T)' /\ AliasesOK' /\ RunningOK' /\ LateOK' /\ FramesRead(T)'
  BY <1>1, <1>2, <1>5, <1>6, <1>11 DEF ConfigRun, TreesKept, AliasesOK, RunningOK, LateOK, FramesRead
<1>15. ValuesOK'
  <2>1. \A x \in Finished : x \in Objs /\ Honoured(x) /\ values'[x] = values[x]
    BY <1>1 DEF ConfigRun, ValuesOK, StartInv, StartTypes
  <2> QED  BY <1>2, <2>1, HonouredKept DEF ValuesOK
<1>16. PlacedOK'
  BY <1>1, <1>2, <1>3 DEF ConfigRun, PlacedOK
<1> QED  BY <1>13, <1>14, <1>15, <1>16 DEF ConfigRun

LEMMA NoFrames ==
  ASSUME StartInv, pc # "init"
  PROVE  Depth = 0 /\ (\A i \in 1 .. Depth : FALSE) /\ \A x : ~OnStack(x)
<1>1. Depth \in Nat /\ ~(Depth > 0)
  BY DepthNat DEF StartInv, StartTypes, StackOK
<1>2. \A i \in 1 .. Depth : FALSE
  BY <1>1
<1> QED  BY <1>1, <1>2 DEF OnStack

LEMMA ReadConfigReads ==
  ASSUME StartInv, NEW T, Trees(T), ConfigRun(T), ReadConfig
  PROVE  Failing \/ ConfigRun(T)'
<1>1. pc = "read"
  BY DEF ReadConfig
<1>2. CASE Fail
  BY <1>2 DEF ReadConfig, Fail, Failing, runVars
<1>3. CASE ~Fail
  <2>1. PICK o, s, kids, f : o = Globals /\ s = "block" /\ kids = ReadFiles(files).nodes /\ f = NewFrame(o, s, kids)
    OBVIOUS
  <2>2. /\ ~ReadFiles(files).err /\ pc' = "init" /\ stack' = <<f>>
        /\ UNCHANGED <<input, todo, globals, insts, names, aliases, values>>
    BY <1>3, <2>1 DEF ReadConfig
  <2>3. files' = files /\ Grows /\ Objs' = Objs /\ Endpoints' = Endpoints /\ NewBlocks /\ Finished' = Finished
    BY <2>2, SameBlocks DEF files, Finished
  <2>4. kids \in Seq(T)
    BY <2>1, <2>2 DEF ConfigRun, TreesKept, Trees, files
  <2>5. FrameOK(T, insts', files', f)
    <3>1. kids = KidsIn(insts', files', o)
      BY <2>1, <2>3 DEF KidsIn
    <3> QED  BY <2>1, <2>4, <3>1, FrameBegins
  <2>6. IsFrame(f) /\ f.obj = o
    BY <2>1, NewFrameIs
  <2>7. FramesOK' /\ Depth' = 1 /\ stack'[1] = f
    BY <2>2, <2>6, StackBegins
  <2>8. \A i \in 1 .. Depth' : i = 1
    BY <2>7
  <2>9. FramesRead(T)'
    BY <2>5, <2>7, <2>8 DEF FramesRead
  <2>10. TreesKept(T)' /\ AliasesOK' /\ RunningOK'
    BY <2>1, <2>2, <2>3, <2>4 DEF ConfigRun, TreesKept, AliasesOK, RunningOK
  <2>11. GlobalsOK' /\ LateOK'
    <3>1. AtGlobals /\ AtGlobals' /\ stack'[1].obj = Globals
      BY <1>1, <2>1, <2>6, <2>7 DEF AtGlobals
    <3>2. LateOK'
      BY <3>1 DEF LateOK
    <3> QED  BY <2>2, <2>3, <3>1, <3>2 DEF ConfigRun, GlobalsOK
  <2>12. ValuesOK'
    <3>1. \A x \in Finished : x \in Objs /\ Honoured(x) /\ values'[x] = values[x]
      BY <2>2 DEF ConfigRun, ValuesOK, StartInv, StartTypes
    <3> QED  BY <2>3, <3>1, HonouredKept DEF ValuesOK
  <2>13. PlacedOK'
    <3>1. \A x : ~OnStack(x)
      BY <1>1, NoFrames
    <3> QED  BY <2>2, <2>3, <3>1 DEF ConfigRun, PlacedOK
  <2> QED  BY <2>9, <2>10, <2>11, <2>12, <2>13 DEF ConfigRun
<1> QED  BY <1>2, <1>3

LEMMA RegisterNames ==
  ASSUME AliasesOK, NEW name, ~HasInstance(name)
  PROVE  name \notin DOMAIN names
  BY DEF HasInstance, AliasesOK

LEMMA RegisterReads ==
  ASSUME StartInv, NEW T, ConfigRun(T), RegisterModule
  PROVE  Failing \/ ConfigRun(T)'
<1>1. pc = "register" /\ todo # <<>>
  BY DEF RegisterModule
<1>2. CASE Fail
  BY <1>2 DEF RegisterModule, Fail, Failing, runVars
<1>3. CASE ~Fail
  <2>1. PICK n, name, type, o, al, new :
          /\ n = Head(todo) /\ name = (IF Args(n) = <<>> THEN n.name ELSE Args(n)[1])
          /\ type = n.name /\ o = Len(insts) + 1
          /\ al = (IF Args(n) = <<>> THEN {} ELSE Range(Tail(Args(n)))) /\ new = [x \in al |-> name]
    OBVIOUS
  <2>2. /\ type \in DOMAIN Types
        /\ insts' = Append(insts, NewObject(name, type, n))
        /\ IF Types[type].endpoint THEN UNCHANGED <<names, aliases>>
           ELSE names' = Assign(names, name, o) /\ aliases' = Over(new, aliases) /\ ~HasInstance(name)
        /\ todo' = Tail(todo)
        /\ UNCHANGED <<pc, input, globals, stack, values>>
    BY <1>3, <2>1 DEF RegisterModule
  <2>3. Grows /\ o \in Objs' \ Objs /\ insts'[o].type = type /\ insts'[o].node = n /\ \A x \in Objs' \ Objs : x = o
    BY <2>1, <2>2, NewGrows, NewObjectLast
  <2>4. Objs \subseteq Objs' /\ files' = files /\ Finished' = Finished /\ Depth' = Depth
    BY <2>2, <2>3, SeqFacts DEF Grows, Objs, StartInv, StartTypes, files, Finished, Depth
  <2>5. Depth = 0 /\ (\A i \in 1 .. Depth : FALSE) /\ \A x : ~OnStack(x)
    BY <1>1, NoFrames
  <2>6. n \in T /\ Tail(todo) \in Seq(T) /\ NamesOf(todo) \subseteq {type} \cup NamesOf(Tail(todo))
    <3>1. todo \in Seq(T) /\ Len(todo) \in Nat /\ Len(todo) >= 1
      BY <1>1 DEF ConfigRun, TreesKept
    <3>2. n = todo[1] /\ DOMAIN todo = 1 .. Len(todo) /\ DOMAIN Tail(todo) = 1 .. Len(todo) - 1
      BY <2>1, <3>1
    <3>3. \A i \in DOMAIN todo : i = 1 \/ (i - 1 \in DOMAIN Tail(todo) /\ Tail(todo)[i - 1] = todo[i])
      BY <3>1, <3>2
    <3>4. 1 \in DOMAIN todo /\ Tail(todo) \in Seq(T)
      BY <1>1, <3>1, <3>2
    <3>5. n \in T
      BY <3>1, <3>2, <3>4
    <3>6. PICK s, r : s = todo /\ r = Tail(todo)
      OBVIOUS
    <3>7. n = s[1] /\ \A i \in DOMAIN s : i = 1 \/ (i - 1 \in DOMAIN r /\ r[i - 1] = s[i])
      BY <3>2, <3>3, <3>6
    <3>8. \A i \in DOMAIN s : s[i].name = type \/ s[i].name \in NamesOf(r)
      BY <2>1, <3>7 DEF NamesOf
    <3>9. NamesOf(s) \subseteq {type} \cup NamesOf(r)
      BY <3>8 DEF NamesOf
    <3> QED  BY <3>4, <3>5, <3>6, <3>9
  <2>7. /\ DOMAIN names \subseteq DOMAIN names' /\ \A m \in DOMAIN names : names'[m] = names[m]
        /\ \A m \in DOMAIN names' : m \in DOMAIN names \/ names'[m] = o
        /\ ~Types[type].endpoint => name \in DOMAIN names' /\ names'[name] = o
    <3>1. CASE Types[type].endpoint
      BY <2>2, <3>1
    <3>2. CASE ~Types[type].endpoint
      <4>1. name \notin DOMAIN names
        BY <2>2, <3>2, RegisterNames DEF ConfigRun
      <4> QED  BY <2>2, <3>2, <4>1 DEF Assign
    <3> QED  BY <3>1, <3>2
  <2>8. AliasesOK'
    <3>1. CASE Types[type].endpoint
      BY <2>2, <3>1 DEF ConfigRun, AliasesOK
    <3>2. CASE ~Types[type].endpoint
      <4>1. aliases' = Over(new, aliases) /\ DOMAIN new = al /\ \A x \in al : new[x] = name
        BY <2>1, <2>2, <3>2
      <4>2. \A x \in DOMAIN aliases' : aliases'[x] = name \/ (x \in DOMAIN aliases /\ aliases'[x] = aliases[x])
        BY <4>1 DEF Over
      <4> QED  BY <2>7, <3>2, <4>2 DEF ConfigRun, AliasesOK
    <3> QED  BY <3>1, <3>2
  <2>9. NewBlocks
    <3>1. DOMAIN insts' = Objs' /\ \A x \in Objs' : insts'[x].type \in DOMAIN Types
      BY <2>3, SeqFacts DEF Grows, Objs
    <3>2. Endpoints' = {x \in Objs' : Types[insts'[x].type].endpoint}
      BY <3>1 DEF Endpoints
    <3>3. Endpoints \subseteq Endpoints' /\ Endpoints' \subseteq Endpoints \cup (Objs' \ Objs)
      BY <2>3, <2>4, <3>2, BlocksAre DEF Grows
    <3>4. Range(names) \subseteq Range(names') /\ Range(names') \subseteq Range(names) \cup (Objs' \ Objs)
      BY <2>3, <2>7 DEF Range
    <3> QED  BY <3>3, <3>4 DEF NewBlocks, Blocks
  <2>10. TreesKept(T)'
    <3>1. \A x \in Objs' : insts'[x].node \in T
      BY <2>3, <2>6 DEF ConfigRun, TreesKept, Grows
    <3> QED  BY <1>1, <2>2, <2>4, <2>6, <3>1 DEF ConfigRun, TreesKept
  <2>11. GlobalsOK'
    <3>1. ~AtGlobals /\ ~AtGlobals'
      BY <1>1, <2>2, <2>4, <2>5 DEF AtGlobals
    <3>2. GlobalsRead' <=> GlobalsRead
      BY <2>2, <2>4 DEF GlobalsRead, GlobalRead
    <3>3. BlocksKnown => BlocksKnown'
      BY <1>1, <2>2, <2>4, <2>6 DEF BlocksKnown
    <3> QED  BY <3>1, <3>2, <3>3 DEF ConfigRun, GlobalsOK
  <2>12. FramesRead(T)' /\ LateOK' /\ RunningOK'
    BY <1>1, <2>2, <2>4, <2>5 DEF FramesRead, LateOK, RunningOK
  <2>13. ValuesOK'
    <3>1. \A x \in Finished : x \in Objs /\ Honoured(x) /\ values'[x] = values[x]
      BY <2>2 DEF ConfigRun, ValuesOK, StartInv, StartTypes
    <3> QED  BY <2>3, <2>4, <2>9, <3>1, HonouredKept DEF ValuesOK
  <2>14. PlacedOK'
    <3>1. \A x \in Objs : x \in Finished \/ Types[insts'[x].type].endpoint \/ \E m \in DOMAIN names' : names'[m] = x
      BY <2>3, <2>5, <2>7 DEF ConfigRun, PlacedOK, Grows
    <3>2. Types[insts'[o].type].endpoint \/ \E m \in DOMAIN names' : names'[m] = o
      BY <2>3, <2>7
    <3> QED  BY <2>3, <2>4, <3>1, <3>2 DEF PlacedOK
  <2> QED  BY <2>8, <2>10, <2>11, <2>12, <2>13, <2>14 DEF ConfigRun
<1> QED  BY <1>2, <1>3

LEMMA RegisteredReads ==
  ASSUME StartInv, mode = "run", NEW T, ConfigRun(T), Registered
  PROVE  Failing \/ ConfigRun(T)'
<1>1. pc = "register" /\ todo = <<>>
  BY DEF Registered
<1>2. CASE Fail
  BY <1>2 DEF Registered, Fail, Failing
<1>3. CASE ~Fail
  <2>1. pc' = "start" /\ UNCHANGED startVars
    BY <1>3 DEF Registered
  <2>2. UNCHANGED <<input, todo, globals, insts, names, aliases, stack, values>>
    BY <2>1 DEF startVars
  <2>3. /\ files' = files /\ Grows /\ Objs' = Objs /\ Endpoints' = Endpoints /\ NewBlocks /\ Finished' = Finished
        /\ Depth' = Depth
    BY <2>2, SameBlocks DEF files, Finished, Depth
  <2>4. Depth = 0 /\ (\A i \in 1 .. Depth : FALSE) /\ \A x : ~OnStack(x)
    BY <1>1, NoFrames
  <2>5. TreesKept(T)' /\ AliasesOK' /\ RunningOK' /\ LateOK' /\ FramesRead(T)'
    BY <1>1, <2>1, <2>2, <2>3, <2>4 DEF ConfigRun, TreesKept, AliasesOK, RunningOK, LateOK, FramesRead
  <2>6. GlobalsOK'
    <3>1. ~AtGlobals /\ ~AtGlobals'
      BY <1>1, <2>1, <2>3, <2>4 DEF AtGlobals
    <3>2. GlobalsRead' <=> GlobalsRead
      BY <2>2, <2>3 DEF GlobalsRead, GlobalRead
    <3>3. NamesOf(todo) = {}
      BY <1>1 DEF NamesOf
    <3>4. BlocksKnown => BlocksKnown'
      BY <1>1, <2>1, <2>3, <3>3 DEF BlocksKnown
    <3> QED  BY <3>1, <3>2, <3>4 DEF ConfigRun, GlobalsOK
  <2>7. ValuesOK'
    <3>1. \A x \in Finished : x \in Objs /\ Honoured(x) /\ values'[x] = values[x]
      BY <2>2 DEF ConfigRun, ValuesOK, StartInv, StartTypes
    <3> QED  BY <2>3, <3>1, HonouredKept DEF ValuesOK
  <2>8. PlacedOK'
    BY <2>2, <2>3, <2>4 DEF ConfigRun, PlacedOK
  <2> QED  BY <2>5, <2>6, <2>7, <2>8 DEF ConfigRun
<1> QED  BY <1>2, <1>3

(* Nothing is read or created: the server goes on. *)
LEMMA SameReads ==
  ASSUME StartInv, NEW T, ConfigRun(T), UNCHANGED <<input, todo, globals, insts, names, aliases, stack, values>>,
         pc' = pc \/ (pc \notin {"read", "register", "init"} /\ pc' \notin {"read", "register", "init"}),
         RunningOK'
  PROVE  ConfigRun(T)'
<1>1. /\ files' = files /\ Grows /\ Objs' = Objs /\ Endpoints' = Endpoints /\ NewBlocks /\ Finished' = Finished
      /\ Depth' = Depth
  BY SameBlocks DEF files, Finished, Depth
<1>2. TreesKept(T)' /\ AliasesOK' /\ FramesRead(T)'
  BY <1>1 DEF ConfigRun, TreesKept, AliasesOK, FramesRead
<1>3. GlobalsOK'
  <2>1. AtGlobals' <=> AtGlobals
    BY <1>1 DEF AtGlobals
  <2>2. GlobalsRead' <=> GlobalsRead
    BY <1>1 DEF GlobalsRead, GlobalRead
  <2>3. BlocksKnown' <=> BlocksKnown
    BY <1>1 DEF BlocksKnown
  <2> QED  BY <1>1, <2>1, <2>2, <2>3 DEF ConfigRun, GlobalsOK
<1>4. LateOK'
  <2>1. \A i \in 1 .. Depth : OfGlobals(stack[i].obj)' <=> OfGlobals(stack[i].obj)
    BY <1>1 DEF OfGlobals
  <2> QED  BY <1>1, <2>1 DEF ConfigRun, LateOK
<1>5. ValuesOK'
  <2>1. \A x \in Finished : x \in Objs /\ Honoured(x) /\ values'[x] = values[x]
    BY DEF ConfigRun, ValuesOK, StartInv, StartTypes
  <2> QED  BY <1>1, <2>1, HonouredKept DEF ValuesOK
<1>6. PlacedOK'
  <2>1. \A x : OnStack(x)' <=> OnStack(x)
    BY <1>1 DEF OnStack
  <2> QED  BY <1>1, <2>1 DEF ConfigRun, PlacedOK
<1> QED  BY <1>2, <1>3, <1>4, <1>5, <1>6 DEF ConfigRun

LEMMA NextEndpointReads ==
  ASSUME StartInv, NEW T, Trees(T), ConfigRun(T), NextEndpoint
  PROVE  Failing \/ ConfigRun(T)'
<1>1. pc = "start"
  BY DEF NextEndpoint
<1>2. PICK rest : rest = {i \in Endpoints : i \notin DOMAIN values}
  OBVIOUS
<1>3. CASE Fail
  BY <1>3 DEF NextEndpoint, Fail, Failing, runVars
<1>10. Depth = 0 /\ (\A i \in 1 .. Depth : FALSE) /\ \A x : ~OnStack(x)
  BY <1>1, NoFrames
<1>4. CASE ~Fail /\ rest = {}
  <2>1. pc' = "running" /\ UNCHANGED startVars /\ \A n \in DOMAIN names : n \in initialized
    BY <1>2, <1>4 DEF NextEndpoint
  <2>2. UNCHANGED <<input, todo, globals, insts, names, aliases, stack, values>>
    BY <2>1 DEF startVars
  <2>3. Objs \subseteq Finished
    <3> SUFFICES ASSUME NEW o \in Objs PROVE o \in Finished
      OBVIOUS
    <3>1. CASE Types[insts[o].type].endpoint
      BY <1>2, <1>4, <3>1, BlocksAre DEF Finished
    <3>2. ASSUME NEW n \in DOMAIN names, names[n] = o PROVE o \in Finished
      BY <1>10, <2>1, <3>2 DEF StartInv, NamesOK
    <3> QED  BY <1>10, <3>1, <3>2 DEF ConfigRun, PlacedOK
  <2>4. RunningOK'
    BY <2>2, <2>3 DEF RunningOK, Objs, Finished
  <2> QED  BY <1>1, <2>1, <2>2, <2>4, SameReads
<1>5. CASE ~Fail /\ rest # {}
  <2>1. PICK o, s, kids, f : /\ o = (CHOOSE i \in rest : \A j \in rest : i <= j) /\ s = "block"
                             /\ kids = insts[o].node.kids /\ f = NewFrame(o, s, kids)
    OBVIOUS
  <2>2. /\ pc' = "init" /\ stack' = <<f>>
        /\ UNCHANGED <<input, todo, globals, insts, names, aliases, values>>
    BY <1>2, <1>5, <2>1 DEF NextEndpoint
  <2>3. /\ files' = files /\ Grows /\ Objs' = Objs /\ Endpoints' = Endpoints /\ NewBlocks /\ Finished' = Finished
    BY <2>2, SameBlocks DEF files, Finished
  <2>4. Objs \subseteq Nat /\ rest \subseteq Objs
    <3>1. Objs \subseteq Nat
      BY SeqFacts DEF StartInv, StartTypes, Objs
    <3> QED  BY <1>2, <3>1, BlocksAre
  <2>5. o \in rest
    BY <1>5, <2>1, <2>4, LeastNat
  <2>6. o \in Objs /\ o \in Endpoints /\ o # Globals /\ o \in Nat
    BY <1>2, <2>4, <2>5 DEF Objs, Globals
  <2>7. kids \in Seq(T)
    BY <2>1, <2>6 DEF ConfigRun, TreesKept, Trees
  <2>8. FrameOK(T, insts', files', f)
    <3>1. kids = KidsIn(insts', files', o)
      BY <2>1, <2>2, <2>6 DEF KidsIn
    <3>2. f = NewFrame(o, s, kids)
      BY <2>1
    <3> QED  BY <2>7, <3>1, <3>2, FrameBegins
  <2>9. IsFrame(f) /\ f.obj = o
    <3>1. f = NewFrame(o, s, kids)
      BY <2>1
    <3> QED  BY <3>1, NewFrameIs
  <2>10. FramesOK' /\ Depth' = 1 /\ stack'[1] = f
    BY <2>2, <2>9, StackBegins
  <2>11. \A i \in 1 .. Depth' : i = 1
    BY <2>10
  <2>12. FramesRead(T)'
    BY <2>8, <2>10, <2>11 DEF FramesRead
  <2>13. TreesKept(T)' /\ AliasesOK' /\ RunningOK'
    BY <1>1, <2>2, <2>3 DEF ConfigRun, TreesKept, AliasesOK, RunningOK
  <2>14. GlobalsOK'
    <3>1. ~AtGlobals /\ ~AtGlobals'
      BY <1>1, <1>10, <2>2, <2>6, <2>9, <2>10 DEF AtGlobals
    <3>2. GlobalsRead' <=> GlobalsRead
      BY <2>2, <2>3 DEF GlobalsRead, GlobalRead
    <3>3. BlocksKnown' <=> BlocksKnown
      BY <1>1, <2>2, <2>3 DEF BlocksKnown
    <3> QED  BY <3>1, <3>2, <3>3 DEF ConfigRun, GlobalsOK
  <2>15. LateOK'
    <3>1. ~OfGlobals(o)'
      <4>1. ~(o < o) /\ o \in Endpoints'
        BY <2>3, <2>6
      <4> QED  BY <4>1 DEF OfGlobals
    <3>2. \A i \in 1 .. Depth' : stack'[i].obj = o
      BY <2>9, <2>10, <2>11
    <3>3. \A i \in 1 .. Depth' : ~OfGlobals(stack[i].obj)'
      BY <3>1, <3>2 DEF OfGlobals
    <3> QED  BY <3>3 DEF LateOK
  <2>16. ValuesOK'
    <3>1. \A x \in Finished : x \in Objs /\ Honoured(x) /\ values'[x] = values[x]
      BY <2>2 DEF ConfigRun, ValuesOK, StartInv, StartTypes
    <3> QED  BY <2>3, <3>1, HonouredKept DEF ValuesOK
  <2>17. PlacedOK'
    BY <1>10, <2>2, <2>3 DEF ConfigRun, PlacedOK
  <2> QED  BY <2>12, <2>13, <2>14, <2>15, <2>16, <2>17 DEF ConfigRun
<1> QED  BY <1>3, <1>4, <1>5

LEMMA StartReads ==
  ASSUME StartInv, mode = "run", NEW T, Trees(T), ConfigRun(T), StartStep
  PROVE  Failing \/ ConfigRun(T)'
<1>0. Failing \/ StartInv'
  BY StartKeeps
<1>1. CASE ReadConfig          BY <1>1, ReadConfigReads
<1>2. CASE RegisterModule      BY <1>2, RegisterReads
<1>3. CASE Registered          BY <1>3, RegisteredReads
<1>4. CASE NextEndpoint        BY <1>4, NextEndpointReads
<1>5. CASE TakeUnknown         BY <1>0, <1>5, TakeUnknownReads, SteadyKeeps
<1>6. CASE TakeValue           BY <1>0, <1>6, TakeValueReads, SteadyKeeps
<1>7. CASE TakeTLS             BY <1>0, <1>7, TakeTLSReads, SteadyKeeps
<1>8. CASE TakeReference       BY <1>0, <1>8, TakeReferenceReads, SteadyKeeps
<1>9. CASE TakeInline          BY <1>0, <1>9, TakeInlineReads, SteadyKeeps
<1>10. CASE EndTLS             BY <1>0, <1>10, EndPartReads, SteadyKeeps
<1>11. CASE EndMissing         BY <1>11 DEF EndMissing, Fail, Failing, runVars
<1>12. CASE EndGlobals         BY <1>12, EndGlobalsReads
<1>13. CASE EndPipeline        BY <1>0, <1>13, EndPipelineReads, SteadyKeeps
<1>14. CASE EndPipelineModules BY <1>0, <1>14, EndPartReads, SteadyKeeps
<1>15. CASE EndInit            BY <1>15, EndInitReads
<1> QED
  BY <1>1, <1>2, <1>3, <1>4, <1>5, <1>6, <1>7, <1>8, <1>9, <1>10, <1>11, <1>12, <1>13, <1>14, <1>15
  DEF StartStep

(* The configuration of a server that has started is not touched again. *)
LEMMA RunReads ==
  ASSUME PhaseOK, ClosingOK, mode = "run", [Next]_vars, ~StartStep
  PROVE  /\ UNCHANGED startVars
         /\ pc' = pc \/ (pc \notin StartPcs /\ pc' \notin StartPcs)
         /\ pc' \in {"running", "reloading"} => pc \in {"running", "reloading"}
<1>1. second # "none" => pc \in Stopping \cup {"exited"}
  BY DEF ClosingOK
<1> USE DEF configVars, StartPcs
<1>2. CASE UNCHANGED vars     BY <1>2 DEF vars
<1>3. CASE MainSignal         BY <1>3 DEF MainSignal
<1>4. CASE MainReload         BY <1>4 DEF MainReload
<1>5. CASE CloseNext          BY <1>5 DEF CloseNext
<1>6. CASE CloseEnds          BY <1>6 DEF CloseEnds
<1>7. CASE Stopped            BY <1>7 DEF Stopped, startVars
<1>8. CASE ToolEnds           BY <1>8 DEF ToolEnds, PhaseOK
<1>9. CASE SecondStarts       BY <1>9 DEF SecondStarts
<1>10. CASE SecondSignal      BY <1>1, <1>10 DEF SecondSignal, Stopping
<1>11. CASE SecondReload      BY <1>11 DEF SecondReload
<1>12. CASE LoadCerts         BY <1>12 DEF LoadCerts
<1>13. CASE TableStep \/ Editing
  BY <1>13 DEF TableStep, Editing, Others
<1>14. CASE \E s \in {"TERM", "USR1", "USR2"} : Signal(s)
  BY <1>14 DEF Signal
<1>15. CASE \E l \in serving : ServeReturns(l)
  BY <1>15 DEF ServeReturns
<1> QED
  BY <1>2, <1>3, <1>4, <1>5, <1>6, <1>7, <1>8, <1>9, <1>10, <1>11, <1>12, <1>13, <1>14, <1>15
  DEF Next, MainStep, SecondStep

(* What a server has read, at any time. *)
ConfigInv(T) == mode = "run" /\ pc # "failed" => ConfigRun(T)

LEMMA ConfigInit ==
  ASSUME NEW T, Init
  PROVE  ConfigInv(T)
<1>1. PICK e : e = <<>>
  OBVIOUS
<1>2. e \in Seq(T) /\ DOMAIN e = {} /\ Len(e) = 0
  BY <1>1
<1>3. /\ pc = "read" /\ input \in DOMAIN Inputs
      /\ todo = e /\ globals = e /\ insts = e /\ names = e /\ aliases = e /\ stack = e /\ values = e
  BY <1>1 DEF Init
<1>4. Depth = 0 /\ Objs = {} /\ Finished = {} /\ Endpoints = {} /\ DOMAIN globals = {} /\ DOMAIN aliases = {}
  BY <1>2, <1>3 DEF Depth, Objs, Finished, Endpoints
<1>5. \A i \in 1 .. Depth : FALSE
  BY <1>4
<1>6. TreesKept(T) /\ FramesRead(T) /\ LateOK
  BY <1>2, <1>3, <1>4, <1>5 DEF TreesKept, FramesRead, LateOK
<1>7. GlobalsOK /\ ValuesOK /\ PlacedOK /\ AliasesOK /\ RunningOK
  BY <1>3, <1>4 DEF GlobalsOK, AtGlobals, ValuesOK, PlacedOK, AliasesOK, RunningOK
<1> QED  BY <1>6, <1>7 DEF ConfigInv, ConfigRun

LEMMA ConfigStep ==
  ASSUME NEW T, Trees(T), PhaseOK, ServerInv, ConfigInv(T), [Next]_vars
  PROVE  ConfigInv(T)'
<1> SUFFICES ASSUME mode = "run", pc' # "failed" PROVE ConfigRun(T)'
  BY ModeKept DEF ConfigInv
<1>1. pc # "failed"
  BY FailedStays
<1>2. StartInv /\ ClosingOK /\ ConfigRun(T)
  BY <1>1 DEF ServerInv, ConfigInv
<1>3. CASE StartStep
  BY <1>2, <1>3, StartReads DEF Failing
<1>4. CASE ~StartStep
  <2>1. /\ UNCHANGED startVars
        /\ pc' = pc \/ (pc \notin StartPcs /\ pc' \notin StartPcs)
        /\ pc' \in {"running", "reloading"} => pc \in {"running", "reloading"}
    BY <1>2, <1>4, RunReads
  <2>2. UNCHANGED <<input, todo, globals, insts, names, aliases, stack, values>>
    BY <2>1 DEF startVars
  <2>3. RunningOK'
    BY <1>2, <2>1, <2>2 DEF ConfigRun, RunningOK, Objs, Finished
  <2> QED  BY <1>2, <2>1, <2>2, <2>3, SameReads DEF StartPcs
<1> QED  BY <1>3, <1>4

LEMMA ConfigShows ==
  ASSUME NEW T, PhaseOK, ServerInv, ConfigInv(T)
  PROVE  ConfigHonoured
<1> SUFFICES ASSUME pc = "running", NEW o \in DOMAIN insts PROVE o \in Finished /\ Honoured(o)
  BY DEF ConfigHonoured, Honoured, Finished
<1>1. StartInv /\ ConfigRun(T)
  BY DEF ServerInv, ConfigInv, PhaseOK
<1>2. o \in Finished
  BY <1>1, BlocksAre DEF ConfigRun, RunningOK
<1> QED  BY <1>1, <1>2 DEF ConfigRun, ValuesOK

(* A server runs with what its files say, whatever they say: every block is *)
(* in use, and every directive of every module has the value that the block *)
(* or else the global directives give it, or its default; none that is      *)
(* required was left out (map.go:653, mail.go:456).                         *)
THEOREM ProcessConfigHonoured ==
  ASSUME NEW T, Trees(T)
  PROVE  Spec => []ConfigHonoured
<1>1. TableRunInv => PhaseOK
  BY DEF TableRunInv
<1>2. Init => ConfigInv(T)
  BY ConfigInit
<1>3. PhaseOK /\ ServerInv /\ ConfigInv(T) /\ [Next]_vars => ConfigInv(T)'
  BY ConfigStep
<1>4. PhaseOK /\ ServerInv /\ ConfigInv(T) => ConfigHonoured
  BY ConfigShows
<1> QED  BY <1>1, <1>2, <1>3, <1>4, TableInvariant, ServerInvariant, PTL DEF Spec
==============================================================================
