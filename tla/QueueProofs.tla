----------------------------- MODULE QueueProofs -----------------------------
(***************************************************************************)
(* Type correctness of Queue and the proof that no accepted recipient is   *)
(* forgotten, for any set of messages, recipients and goroutines, any      *)
(* limits and any number of faults and restarts.                           *)
(*                                                                         *)
(* RcptAccounted is not inductive: a goroutine may be about to rewrite or  *)
(* remove the files.  The invariant says of every recipient the queue owes *)
(* an outcome to that the files name it, that every slot and goroutine of  *)
(* its message that carries metadata carries it too, and that no goroutine *)
(* removes the files.                                                      *)
(***************************************************************************)
EXTENDS Queue, TimeWheel, TLAPS

(* The source's delivery before storeNewMessage has written everything,     *)
(* between that and the end of Commit, and when no step is left to do.      *)
Storing == {"new", "rcpt", "header", "create", "copied", "meta"}
Pending == {"stored", "push", "notify"}
Quiet   == {"new", "ok", "failed", "aborted", "panicked", "gone"}

(* Goroutines whose metadata is the one of this attempt. *)
InHand   == {"deliver", "data", "commit", "settle", "update"}
Removing == {"rmheader", "rmbody", "rmmeta"}

(* Recipients that were, or are about to be, accepted and for which nothing *)
(* has happened yet.                                                        *)
Owed(m) ==
    {r \in Rcpts : /\ r \in accepted[m] \/ (sess[m] \in Pending /\ r \in qdTo[m])
                   /\ ~Disposed(m, r)}

(* The files name a recipient that is owed an outcome and hold the message. *)
DiskOK(m) ==
    \A r \in Owed(m) :
        /\ disk[m].meta = NoMeta => r \in disk[m].broken.to
        /\ disk[m].meta # NoMeta => r \in disk[m].meta.to
        /\ disk[m].header
        /\ disk[m].body # "none"

(* Metadata on the wheel names them too. *)
SlotOK(s) ==
    /\ sess[s.msg] \notin Storing
    /\ s.meta # NoMeta => Owed(s.msg) \subseteq s.meta.to

(* A goroutine has them in its metadata, does not remove the files, and has *)
(* an error for each that it is not delivering to.                          *)
WorkOK(w) ==
    wpc[w] # "idle" =>
        /\ sess[wmsg[w]] \notin Storing
        /\ \A r \in Owed(wmsg[w]) :
              /\ wpc[w] \notin Removing
              /\ wpc[w] \in InHand => r \in wmeta[w].to
              /\ wpc[w] = "wait" /\ wmeta[w] # NoMeta => r \in wmeta[w].to
              /\ wpc[w] \in {"data", "commit"} => r \in wacc[w] \/ werr[w][r] # "none"
              /\ wpc[w] = "settle" => werr[w][r] # "none"

(* What storeNewMessage has written so far. *)
SessOK(m) ==
    /\ sess[m] # "ok" => accepted[m] = {}
    /\ sess[m] \in Storing \ {"meta"} => disk[m].meta = NoMeta
    /\ sess[m] \in {"header", "create", "copied", "meta"} => disk[m].header
    /\ sess[m] \in {"create", "copied", "meta"} => disk[m].body # "none"
    /\ sess[m] = "meta" => disk[m].meta = NewMeta(qdTo[m])

BootOK ==
    /\ proc # "up" => \A m \in Msgs : sess[m] \in Quiet
    /\ \A m \in toLoad : proc = "load" /\ sess[m] # "new"

IInv ==
    /\ TypeOK
    /\ \A m \in Msgs : DiskOK(m) /\ SessOK(m)
    /\ \A s \in slots : SlotOK(s)
    /\ \A w \in Workers : WorkOK(w)
    /\ BootOK

------------------------------------------------------------------------------
(* Type correctness *)

(* Metadata built from a set of recipients is metadata; NoMeta names nobody. *)
LEMMA MetaTypes ==
    /\ NoMeta \in Meta /\ NoMeta.to = {}
    /\ \A to \in SUBSET Rcpts : NewMeta(to) \in Meta /\ NewMeta(to).to = to
    /\ NoFiles \in Files /\ NoFiles.meta = NoMeta
    /\ NoErrs \in Errs /\ AnyMsg \in Msgs
<1>1. 0 \in 0 .. MaxTries
  BY QueueAssumption
<1>2. AnyMsg \in Msgs
  BY QueueAssumption DEF AnyMsg
<1> QED
  BY <1>1, <1>2 DEF Meta, NoMeta, NewMeta, NoFiles, Files, NoErrs, Errs

(* What each operation on the files changes and what it leaves alone. *)
LEMMA FileOps ==
  ASSUME NEW f \in Files
  PROVE  /\ f.meta \in Meta /\ f.broken \in Meta
         /\ WithHeader(f) \in Files /\ WithHeader(f).header
            /\ WithHeader(f).body = f.body /\ WithHeader(f).meta = f.meta
            /\ WithHeader(f).broken = f.broken
         /\ WithoutHeader(f) \in Files /\ WithoutHeader(f).meta = f.meta
            /\ WithoutHeader(f).body = f.body /\ WithoutHeader(f).broken = f.broken
         /\ WithoutBody(f) \in Files /\ WithoutBody(f).meta = f.meta
            /\ WithoutBody(f).header = f.header /\ WithoutBody(f).broken = f.broken
         /\ WithoutMeta(f) \in Files /\ WithoutMeta(f).meta = NoMeta
            /\ WithoutMeta(f).header = f.header /\ WithoutMeta(f).body = f.body
            /\ WithoutMeta(f).broken = f.broken
         /\ Quarantined(f) \in Files /\ Quarantined(f).meta = NoMeta
            /\ Quarantined(f).header = f.header /\ Quarantined(f).body = f.body
            /\ Quarantined(f).broken = f.meta
         /\ \A b \in {"none", "partial", "full"} :
               /\ WithBody(f, b) \in Files /\ WithBody(f, b).body = b
               /\ WithBody(f, b).header = f.header /\ WithBody(f, b).meta = f.meta
               /\ WithBody(f, b).broken = f.broken
         /\ \A meta \in Meta :
               /\ WithMeta(f, meta) \in Files /\ WithMeta(f, meta).meta = meta
               /\ WithMeta(f, meta).header = f.header /\ WithMeta(f, meta).body = f.body
               /\ WithMeta(f, meta).broken = f.broken
BY MetaTypes
       DEF Files, WithHeader, WithBody, WithMeta, WithoutHeader, WithoutBody, WithoutMeta, Quarantined

(* The steps of a message source keep the types. *)
LEMMA TypeSess ==
  ASSUME TypeOK, NEW m \in Msgs, SessNext(m)
  PROVE  TypeOK'
<1>1. CASE Start(m)
  <2>1. sess' \in [Msgs -> SessPc]
    BY <1>1 DEF TypeOK, Start, SessStep, SessPc
  <2> QED
    BY <1>1, <2>1, MetaTypes DEF TypeOK, Start, workVars, sessVars, wheelVars, procVars, histVars
<1>2. CASE \E r \in Rcpts : AddRcpt(m, r)
  BY <1>2, MetaTypes, QueueAssumption
       DEF TypeOK, AddRcpt, workVars, sessVars, wheelVars, procVars, histVars
<1>3. CASE StoreHeader(m)
  <2>1. sess' \in [Msgs -> SessPc]
    BY <1>3 DEF TypeOK, StoreHeader, SessStep, SessPc
  <2>2. disk' \in [Msgs -> Files]
    <3>1. disk[m] \in Files
      BY DEF TypeOK
    <3>2. WithHeader(disk[m]) \in Files
      BY <3>1, FileOps
    <3>3. disk' = [disk EXCEPT ![m] = WithHeader(disk[m])] \/ UNCHANGED disk
      BY <1>3 DEF StoreHeader
    <3> QED
      BY <3>2, <3>3 DEF TypeOK
  <2>3. faults' \in 0 .. MaxFaults
    BY <1>3, QueueAssumption DEF TypeOK, StoreHeader, Fault, NoFault
  <2> QED
    BY <1>3, <2>1, <2>2, <2>3, MetaTypes
       DEF TypeOK, StoreHeader, workVars, sessVars, wheelVars, procVars, histVars
<1>4. CASE StoreBodyCreate(m)
  <2>1. sess' \in [Msgs -> SessPc]
    BY <1>4 DEF TypeOK, StoreBodyCreate, SessStep, SessPc
  <2>2. disk' \in [Msgs -> Files]
    BY <1>4, FileOps, MetaTypes DEF TypeOK, StoreBodyCreate
  <2>3. faults' \in 0 .. MaxFaults
    BY <1>4, QueueAssumption DEF TypeOK, StoreBodyCreate, Fault, NoFault
  <2> QED
    BY <1>4, <2>1, <2>2, <2>3, MetaTypes
       DEF TypeOK, StoreBodyCreate, workVars, sessVars, wheelVars, procVars, histVars
<1>5. CASE StoreBodyCopy(m)
  <2>1. sess' \in [Msgs -> SessPc]
    BY <1>5 DEF TypeOK, StoreBodyCopy, SessStep, SessPc
  <2>2. disk' \in [Msgs -> Files]
    <3>1. disk[m] \in Files
      BY DEF TypeOK
    <3>2. /\ WithBody(disk[m], "full") \in Files
          /\ WithoutHeader(WithoutBody(disk[m])) \in Files
      BY <3>1, FileOps
    <3>3. \/ disk' = [disk EXCEPT ![m] = WithBody(disk[m], "full")]
          \/ disk' = [disk EXCEPT ![m] = WithoutHeader(WithoutBody(disk[m]))]
      BY <1>5 DEF StoreBodyCopy
    <3> QED
      BY <3>2, <3>3 DEF TypeOK
  <2>3. faults' \in 0 .. MaxFaults
    BY <1>5, QueueAssumption DEF TypeOK, StoreBodyCopy, Fault, NoFault
  <2> QED
    BY <1>5, <2>1, <2>2, <2>3, MetaTypes
       DEF TypeOK, StoreBodyCopy, workVars, sessVars, wheelVars, procVars, histVars
<1>6. CASE StoreMeta(m)
  <2>1. sess' \in [Msgs -> SessPc]
    BY <1>6 DEF TypeOK, StoreMeta, SessStep, SessPc
  <2>2. disk' \in [Msgs -> Files]
    BY <1>6, FileOps, MetaTypes DEF TypeOK, StoreMeta
  <2>3. faults' \in 0 .. MaxFaults
    BY <1>6, QueueAssumption DEF TypeOK, StoreMeta, Fault, NoFault
  <2> QED
    BY <1>6, <2>1, <2>2, <2>3, MetaTypes
       DEF TypeOK, StoreMeta, workVars, sessVars, wheelVars, procVars, histVars
<1>7. CASE StoreSync(m)
  <2>1. sess' \in [Msgs -> SessPc]
    BY <1>7 DEF TypeOK, StoreSync, SessStep, SessPc
  <2>2. faults' \in 0 .. MaxFaults
    BY <1>7, QueueAssumption DEF TypeOK, StoreSync, Fault, NoFault
  <2> QED
    BY <1>7, <2>1, <2>2, MetaTypes
       DEF TypeOK, StoreSync, workVars, sessVars, wheelVars, procVars, histVars
<1>8. CASE Abort(m)
  <2>1. sess' \in [Msgs -> SessPc]
    BY <1>8 DEF TypeOK, Abort, SessStep, SessPc
  <2> QED
    BY <1>8, <2>1, MetaTypes DEF TypeOK, Abort, workVars, sessVars, wheelVars, procVars, histVars
<1>9. CASE AbortRemove(m)
  <2>1. sess' \in [Msgs -> SessPc]
    BY <1>9 DEF TypeOK, AbortRemove, SessStep, SessPc
  <2>2. disk' \in [Msgs -> Files]
    <3>1. disk[m] \in Files
      BY DEF TypeOK
    <3>2. /\ WithoutHeader(disk[m]) \in Files /\ WithoutBody(disk[m]) \in Files
          /\ WithoutMeta(disk[m]) \in Files
      BY <3>1, FileOps
    <3>3. \/ disk' = [disk EXCEPT ![m] = WithoutHeader(disk[m])]
          \/ disk' = [disk EXCEPT ![m] = WithoutBody(disk[m])]
          \/ disk' = [disk EXCEPT ![m] = WithoutMeta(disk[m])]
          \/ UNCHANGED disk
      BY <1>9 DEF AbortRemove, RemoveFile
    <3> QED
      BY <3>2, <3>3 DEF TypeOK
  <2>3. faults' \in 0 .. MaxFaults
    BY <1>9, QueueAssumption DEF TypeOK, AbortRemove, RemoveFile, Fault, NoFault
  <2> QED
    BY <1>9, <2>1, <2>2, <2>3, MetaTypes
       DEF TypeOK, AbortRemove, workVars, sessVars, wheelVars, procVars, histVars
<1>10. CASE Commit(m)
  <2>1. sess' \in [Msgs -> SessPc]
    BY <1>10 DEF TypeOK, Commit, SessStep, SessPc
  <2>2. accepted' \in [Msgs -> SUBSET Rcpts]
    BY <1>10 DEF TypeOK, Commit, Accept
  <2> QED
    BY <1>10, <2>1, <2>2, MetaTypes
       DEF TypeOK, Commit, workVars, sessVars, wheelVars, procVars, histVars
<1>11. CASE CommitPush(m)
  <2>1. sess' \in [Msgs -> SessPc]
    BY <1>11 DEF TypeOK, CommitPush, SessStep, SessPc
  <2> QED
    BY <1>11, <2>1, MetaTypes
       DEF TypeOK, CommitPush, Slot, Adder, workVars, sessVars, wheelVars, procVars, histVars
<1>12. CASE CommitNotify(m)
  <2>1. sess' \in [Msgs -> SessPc]
    BY <1>12 DEF TypeOK, CommitNotify, SessStep, SessPc
  <2>2. accepted' \in [Msgs -> SUBSET Rcpts]
    BY <1>12 DEF TypeOK, CommitNotify, Accept
  <2> QED
    BY <1>12, <2>1, <2>2, MetaTypes
       DEF TypeOK, CommitNotify, workVars, sessVars, wheelVars, procVars, histVars
<1> QED
  BY <1>1, <1>2, <1>3, <1>4, <1>5, <1>6, <1>7, <1>8, <1>9, <1>10, <1>11, <1>12 DEF SessNext

(* The steps of a delivery goroutine keep the types. *)
LEMMA TypeWork ==
  ASSUME TypeOK, NEW w \in Workers, WorkNext(w)
  PROVE  TypeOK'
<1>1. CASE Acquire(w)
  <2>1. wpc' \in [Workers -> WorkPc]
    BY <1>1 DEF TypeOK, Acquire, WorkStep, WorkPc
  <2> QED
    BY <1>1, <2>1, MetaTypes DEF TypeOK, Acquire, workVars, sessVars, wheelVars, procVars, histVars
<1>2. CASE OpenMessage(w)
  <2>1. wpc' \in [Workers -> WorkPc]
    BY <1>2 DEF TypeOK, OpenMessage, WorkStep, WorkPc
  <2>2. wmeta' \in [Workers -> Meta]
    BY <1>2, FileOps, MetaTypes DEF TypeOK, OpenMessage
  <2> QED
    BY <1>2, <2>1, <2>2, MetaTypes
       DEF TypeOK, OpenMessage, workVars, sessVars, wheelVars, procVars, histVars
<1>3. CASE OpenFails(w)
  <2>1. wpc' \in [Workers -> WorkPc]
    BY <1>3 DEF TypeOK, OpenFails, WorkStep, WorkPc
  <2>2. disk' \in [Msgs -> Files]
    <3>1. disk[wmsg[w]] \in Files
      BY DEF TypeOK
    <3>2. /\ WithoutMeta(disk[wmsg[w]]) \in Files
          /\ WithoutMeta(WithoutBody(disk[wmsg[w]])) \in Files
      BY <3>1, FileOps
    <3>3. \/ disk' = [disk EXCEPT ![wmsg[w]] = WithoutMeta(disk[wmsg[w]])]
          \/ disk' = [disk EXCEPT ![wmsg[w]] = WithoutMeta(WithoutBody(disk[wmsg[w]]))]
          \/ UNCHANGED disk
      BY <1>3 DEF OpenFails
    <3> QED
      BY <3>2, <3>3 DEF TypeOK
  <2>3. faults' \in 0 .. MaxFaults
    BY <1>3, QueueAssumption DEF TypeOK, OpenFails, Fault, NoFault
  <2> QED
    BY <1>3, <2>1, <2>2, <2>3, MetaTypes
       DEF TypeOK, OpenFails, workVars, sessVars, wheelVars, procVars, histVars
<1>4. CASE DeliverStart(w)
  <2>1. wpc' \in [Workers -> WorkPc]
    BY <1>4 DEF TypeOK, DeliverStart, WorkStep, WorkPc
  <2>2. werr' \in [Workers -> Errs]
    BY <1>4 DEF TypeOK, DeliverStart, StartErrs, AddRcptErrs, Errs
  <2>3. wacc' \in [Workers -> SUBSET Rcpts]
    BY <1>4 DEF TypeOK, DeliverStart, Meta
  <2>4. attempts' \in [Msgs -> [Rcpts -> Nat]]
    BY <1>4 DEF TypeOK, DeliverStart
  <2> QED
    BY <1>4, <2>1, <2>2, <2>3, <2>4, MetaTypes
       DEF TypeOK, DeliverStart, workVars, sessVars, wheelVars, procVars, histVars
<1>5. CASE DeliverBody(w)
  <2>1. wpc' \in [Workers -> WorkPc]
    BY <1>5 DEF TypeOK, DeliverBody, WorkStep, WorkPc
  <2>2. werr' \in [Workers -> Errs]
    BY <1>5 DEF TypeOK, DeliverBody, BodyErrs
  <2> QED
    BY <1>5, <2>1, <2>2, MetaTypes
       DEF TypeOK, DeliverBody, workVars, sessVars, wheelVars, procVars, histVars
<1>6. CASE DeliverCommit(w)
  <2>1. wpc' \in [Workers -> WorkPc]
    BY <1>6 DEF TypeOK, DeliverCommit, WorkStep, WorkPc
  <2>2. werr' \in [Workers -> Errs]
    <3>1. CASE UNCHANGED werr
      BY <3>1 DEF TypeOK
    <3>2. ASSUME NEW e \in {"temp", "perm"},
                 werr' = [werr EXCEPT ![w] = [r \in Rcpts |-> IF r \in wacc[w] THEN e ELSE @[r]]]
          PROVE  werr' \in [Workers -> Errs]
      BY <3>2 DEF TypeOK, Errs
    <3> QED
      BY <1>6, <3>1, <3>2 DEF DeliverCommit
  <2>3. delivered' \in [Msgs -> [Rcpts -> Nat]]
    <3>1. \E R : Took(wmsg[w], R)
      BY <1>6 DEF DeliverCommit
    <3> QED
      BY <3>1 DEF TypeOK, Took
  <2>4. faults' \in 0 .. MaxFaults
    BY <1>6, QueueAssumption DEF TypeOK, DeliverCommit, Fault, NoFault
  <2> QED
    BY <1>6, <2>1, <2>2, <2>3, <2>4, MetaTypes
       DEF TypeOK, DeliverCommit, workVars, sessVars, wheelVars, procVars, histVars
<1>7. CASE DeliverPanic(w)
  <2>1. wpc' \in [Workers -> WorkPc]
    BY <1>7 DEF TypeOK, DeliverPanic, WorkStep, WorkPc
  <2>2. faults' \in 0 .. MaxFaults
    BY <1>7, QueueAssumption DEF TypeOK, DeliverPanic, Fault, NoFault
  <2> QED
    BY <1>7, <2>1, <2>2, MetaTypes
       DEF TypeOK, DeliverPanic, workVars, sessVars, wheelVars, procVars, histVars
<1>8. CASE Settle(w)
  <2>1. wpc' \in [Workers -> WorkPc]
    BY <1>8 DEF TypeOK, Settle, WorkStep, WorkPc
  <2>2. wmeta' \in [Workers -> Meta]
    BY <1>8, FileOps, MetaTypes, QueueAssumption
       DEF TypeOK, Settle, NewRcpts, TriesCount, LastTry, Meta
  <2>3. reported' \in [Msgs -> SUBSET Rcpts]
    BY <1>8 DEF TypeOK, Settle, FailedRcpts, Meta
  <2> QED
    BY <1>8, <2>1, <2>2, <2>3, MetaTypes
       DEF TypeOK, Settle, workVars, sessVars, wheelVars, procVars, histVars
<1>9. CASE Update(w)
  <2>1. wpc' \in [Workers -> WorkPc]
    BY <1>9 DEF TypeOK, Update, WorkStep, WorkPc
  <2>2. disk' \in [Msgs -> Files]
    <3>1. disk[wmsg[w]] \in Files
      BY DEF TypeOK
    <3>0. wmeta[w] \in Meta
      BY DEF TypeOK
    <3>2. WithMeta(disk[wmsg[w]], wmeta[w]) \in Files
      BY <3>0, <3>1, FileOps
    <3>3. disk' = [disk EXCEPT ![wmsg[w]] = WithMeta(disk[wmsg[w]], wmeta[w])] \/ UNCHANGED disk
      BY <1>9 DEF Update
    <3> QED
      BY <3>2, <3>3 DEF TypeOK
  <2>3. faults' \in 0 .. MaxFaults
    BY <1>9, QueueAssumption DEF TypeOK, Update, Fault, NoFault
  <2> QED
    BY <1>9, <2>1, <2>2, <2>3, MetaTypes
       DEF TypeOK, Update, workVars, sessVars, wheelVars, procVars, histVars
<1>10. CASE Remove(w)
  <2>1. wpc' \in [Workers -> WorkPc]
    BY <1>10 DEF TypeOK, Remove, WorkStep, WorkPc
  <2>2. disk' \in [Msgs -> Files]
    <3>1. disk[wmsg[w]] \in Files
      BY DEF TypeOK
    <3>2. /\ WithoutHeader(disk[wmsg[w]]) \in Files /\ WithoutBody(disk[wmsg[w]]) \in Files
          /\ WithoutMeta(disk[wmsg[w]]) \in Files
      BY <3>1, FileOps
    <3>3. \/ disk' = [disk EXCEPT ![wmsg[w]] = WithoutHeader(disk[wmsg[w]])]
          \/ disk' = [disk EXCEPT ![wmsg[w]] = WithoutBody(disk[wmsg[w]])]
          \/ disk' = [disk EXCEPT ![wmsg[w]] = WithoutMeta(disk[wmsg[w]])]
          \/ UNCHANGED disk
      BY <1>10 DEF Remove, RemoveFile
    <3> QED
      BY <3>2, <3>3 DEF TypeOK
  <2>3. faults' \in 0 .. MaxFaults
    BY <1>10, QueueAssumption DEF TypeOK, Remove, RemoveFile, Fault, NoFault
  <2> QED
    BY <1>10, <2>1, <2>2, <2>3, MetaTypes
       DEF TypeOK, Remove, workVars, sessVars, wheelVars, procVars, histVars
<1>11. CASE Retry(w)
  <2>1. wpc' \in [Workers -> WorkPc]
    BY <1>11 DEF TypeOK, Retry, WorkStep, WorkPc
  <2> QED
    BY <1>11, <2>1, MetaTypes DEF TypeOK, Retry, workVars, sessVars, wheelVars, procVars, histVars
<1>12. CASE RetryPush(w)
  <2>1. wpc' \in [Workers -> WorkPc]
    BY <1>12 DEF TypeOK, RetryPush, WorkStep, WorkPc
  <2> QED
    BY <1>12, <2>1, MetaTypes
       DEF TypeOK, RetryPush, Slot, Adder, workVars, sessVars, wheelVars, procVars, histVars
<1>13. CASE RetryNotify(w)
  <2>1. wpc' \in [Workers -> WorkPc]
    BY <1>13 DEF TypeOK, RetryNotify, WorkStep, WorkPc
  <2> QED
    BY <1>13, <2>1, MetaTypes
       DEF TypeOK, RetryNotify, workVars, sessVars, wheelVars, procVars, histVars
<1>14. CASE Release(w)
  <2>1. wpc' \in [Workers -> WorkPc]
    BY <1>14 DEF TypeOK, Release, WorkStep, WorkPc
  <2>2. /\ wmsg' \in [Workers -> Msgs] /\ wmeta' \in [Workers -> Meta]
        /\ werr' \in [Workers -> Errs] /\ wacc' \in [Workers -> SUBSET Rcpts]
    <3>1. CASE Forget(w)
      BY <3>1, MetaTypes DEF TypeOK, Forget
    <3>2. CASE UNCHANGED <<wmsg, wmeta, werr, wacc>>
      BY <3>2 DEF TypeOK
    <3> QED
      BY <1>14, <3>1, <3>2 DEF Release
  <2> QED
    BY <1>14, <2>1, <2>2, MetaTypes
       DEF TypeOK, Release, workVars, sessVars, wheelVars, procVars, histVars
<1>15. CASE DiscardBroken(w)
  <2>1. wpc' \in [Workers -> WorkPc]
    BY <1>15 DEF TypeOK, DiscardBroken, WorkStep, WorkPc
  <2>2. disk' \in [Msgs -> Files]
    BY <1>15, FileOps, MetaTypes DEF TypeOK, DiscardBroken
  <2> QED
    BY <1>15, <2>1, <2>2, MetaTypes
       DEF TypeOK, DiscardBroken, Forget, workVars, sessVars, wheelVars, procVars, histVars
<1> QED
  BY <1>1, <1>2, <1>3, <1>4, <1>5, <1>6, <1>7, <1>8, <1>9, <1>10, <1>11, <1>12, <1>13, <1>14, <1>15
     DEF WorkNext

(* Every step keeps the types. *)
LEMMA TypeStep ==
  ASSUME TypeOK, [Next]_vars
  PROVE  TypeOK'
<1>1. CASE \E m \in Msgs : SessNext(m)
  BY <1>1, TypeSess
<1>2. CASE \E w \in Workers : WorkNext(w)
  BY <1>2, TypeWork
<1>3. CASE \E s \in slots, w \in Workers : Dispatch(s, w)
  BY <1>3, MetaTypes, QueueAssumption
       DEF TypeOK, Dispatch, WorkStep, WorkPc, Slot, workVars, sessVars, wheelVars, procVars, histVars
<1>4. CASE CloseNext
  BY <1>4, MetaTypes, QueueAssumption
       DEF TypeOK, CloseNext, CloseStore, CloseStop, CloseChan, CloseWait, CloseStep, workVars, sessVars, wheelVars, procVars, histVars
<1>5. CASE Kill \/ Exit
  BY <1>5, MetaTypes, QueueAssumption
       DEF TypeOK, Kill, Exit, Vanish, WorkPc, SessPc, Fault, NoFault, workVars, sessVars, wheelVars, procVars, histVars
<1>6. CASE StartUp \/ LoadDone
  BY <1>6, MetaTypes, QueueAssumption
       DEF TypeOK, StartUp, LoadDone, workVars, sessVars, wheelVars, procVars, histVars
<1>7. CASE \E m \in Msgs : LoadSkip(m)
  <2>1. disk' \in [Msgs -> Files]
    <3> PICK m \in Msgs : LoadSkip(m)
      BY <1>7
    <3>1. disk[m] \in Files
      BY DEF TypeOK
    <3>2. /\ WithoutBody(WithoutMeta(disk[m])) \in Files
          /\ WithoutHeader(WithoutMeta(disk[m])) \in Files
      BY <3>1, FileOps
    <3>3. \/ disk' = [disk EXCEPT ![m] = WithoutBody(WithoutMeta(disk[m]))]
          \/ disk' = [disk EXCEPT ![m] = WithoutHeader(WithoutMeta(disk[m]))]
          \/ UNCHANGED disk
      BY DEF LoadSkip
    <3> QED
      BY <3>2, <3>3 DEF TypeOK
  <2>2. faults' \in 0 .. MaxFaults
    BY <1>7, QueueAssumption DEF TypeOK, LoadSkip, Fault, NoFault
  <2> QED
    BY <1>7, <2>1, <2>2, MetaTypes
       DEF TypeOK, LoadSkip, workVars, sessVars, wheelVars, procVars, histVars
<1>8. CASE \E m \in Msgs : LoadSlot(m)
  BY <1>8, MetaTypes, QueueAssumption
       DEF TypeOK, LoadSlot, Slot, Adder, workVars, sessVars, wheelVars, procVars, histVars
<1>9. CASE UNCHANGED vars
  BY <1>9, MetaTypes, QueueAssumption
       DEF TypeOK, vars, workVars, sessVars, wheelVars, procVars, histVars
<1> QED
  BY <1>1, <1>2, <1>3, <1>4, <1>5, <1>6, <1>7, <1>8, <1>9 DEF Next, BootNext

------------------------------------------------------------------------------
(* What a step of one source or of one goroutine has to leave in order.     *)

(* Debts only change with the source's state and the outcomes. *)
LEMMA OwedFrame ==
  ASSUME NEW m \in Msgs, sess'[m] = sess[m], qdTo'[m] = qdTo[m], accepted'[m] = accepted[m],
         delivered'[m] = delivered[m], reported'[m] = reported[m]
  PROVE  Owed(m)' = Owed(m)
BY DEF Owed, Disposed

(* A source changes the files and the state of its own message, and creates *)
(* debts only while nobody else knows the message.                          *)
LEMMA SourceFrame ==
  ASSUME IInv, TypeOK', NEW m \in Msgs, proc = "up",
         UNCHANGED <<workVars, procVars, histVars>>,
         \A n \in Msgs \ {m} : /\ sess'[n] = sess[n] /\ qdTo'[n] = qdTo[n]
                               /\ accepted'[n] = accepted[n] /\ disk'[n] = disk[n],
         sess[m] \in Storing \/ (sess'[m] \notin Storing /\ Owed(m)' \subseteq Owed(m)),
         DiskOK(m)', SessOK(m)',
         \A s \in slots' \ slots : SlotOK(s)'
  PROVE  IInv'
<1>1. \A n \in Msgs \ {m} : Owed(n)' = Owed(n)
  BY OwedFrame DEF histVars
<1>2. ASSUME NEW n \in Msgs PROVE DiskOK(n)' /\ SessOK(n)'
  <2>1. CASE n = m
    BY <2>1
  <2>2. CASE n # m
    BY <1>1, <2>2 DEF IInv, DiskOK, SessOK
  <2> QED
    BY <2>1, <2>2
<1>3. ASSUME NEW s \in slots' PROVE SlotOK(s)'
  <2>1. CASE s \notin slots
    BY <2>1
  <2>2. CASE s \in slots
    <3>1. SlotOK(s) /\ s.msg \in Msgs
      BY <2>2 DEF IInv, TypeOK, Slot
    <3> QED
      BY <1>1, <3>1 DEF SlotOK
  <2> QED
    BY <2>1, <2>2
<1>4. ASSUME NEW w \in Workers PROVE WorkOK(w)'
  <2>1. WorkOK(w) /\ wmsg[w] \in Msgs
    BY DEF IInv, TypeOK
  <2>2. wpc' = wpc /\ wmsg' = wmsg /\ wmeta' = wmeta /\ werr' = werr /\ wacc' = wacc
    BY DEF workVars
  <2> QED
    BY <1>1, <2>1, <2>2 DEF WorkOK
<1>5. BootOK'
  BY DEF IInv, BootOK, procVars
<1> QED
  BY <1>2, <1>3, <1>4, <1>5 DEF IInv

(* A goroutine changes the files of its own message, discharges debts and   *)
(* creates none.                                                            *)
LEMMA WorkFrame ==
  ASSUME IInv, TypeOK', NEW w \in Workers, wpc[w] # "idle",
         NEW m \in Msgs, m = wmsg[w],
         UNCHANGED <<sessVars, procVars>>,
         \A v \in Workers \ {w} : /\ wpc'[v] = wpc[v] /\ wmsg'[v] = wmsg[v] /\ wmeta'[v] = wmeta[v]
                                  /\ werr'[v] = werr[v] /\ wacc'[v] = wacc[v],
         \A n \in Msgs : Owed(n)' \subseteq Owed(n),
         \A n \in Msgs \ {m} : disk'[n] = disk[n],
         DiskOK(m)', WorkOK(w)',
         slots' \subseteq slots \cup {[msg |-> m, meta |-> NoMeta, by |-> w]}
  PROVE  IInv'
<1>0. sess[m] \notin Storing
  BY DEF IInv, WorkOK
<1>1. ASSUME NEW n \in Msgs PROVE DiskOK(n)' /\ SessOK(n)'
  <2>1. CASE n = m
    BY <1>0, <2>1 DEF IInv, SessOK, Storing, sessVars
  <2>2. CASE n # m
    BY <2>2 DEF IInv, DiskOK, SessOK, sessVars
  <2> QED
    BY <2>1, <2>2
<1>2. ASSUME NEW s \in slots' PROVE SlotOK(s)'
  <2>1. CASE s \in slots
    <3>1. SlotOK(s) /\ s.msg \in Msgs
      BY <2>1 DEF IInv, TypeOK, Slot
    <3> QED
      BY <3>1 DEF SlotOK, sessVars
  <2>2. CASE s = [msg |-> m, meta |-> NoMeta, by |-> w]
    BY <1>0, <2>2 DEF SlotOK, sessVars
  <2> QED
    BY <2>1, <2>2
<1>3. ASSUME NEW v \in Workers PROVE WorkOK(v)'
  <2>1. CASE v = w
    BY <2>1
  <2>2. CASE v # w
    <3>1. WorkOK(v) /\ wmsg[v] \in Msgs
      BY DEF IInv, TypeOK
    <3> QED
      BY <2>2, <3>1 DEF WorkOK, sessVars
  <2> QED
    BY <2>1, <2>2
<1>4. BootOK'
  BY DEF IInv, BootOK, procVars, sessVars
<1> QED
  BY <1>1, <1>2, <1>3, <1>4 DEF IInv

------------------------------------------------------------------------------
(* The inductive step *)

(* A source step preserves the invariant. *)
LEMMA SourceStep ==
  ASSUME IInv, NEW m \in Msgs, SessNext(m)
  PROVE  IInv'
<1>1. TypeOK /\ TypeOK'
  BY TypeSess DEF IInv
<1>2. /\ DiskOK(m) /\ SessOK(m)
      /\ disk[m] \in Files /\ qdTo[m] \in SUBSET Rcpts
  BY DEF IInv, TypeOK
<1>3. CASE Start(m)
  <2>1. /\ proc = "up" /\ sess[m] \in Storing /\ sess[m] # "ok" /\ UNCHANGED <<workVars, wheelVars, procVars, histVars, accepted>>
        /\ sess'[m] \in Storing \cup {"failed"}
    BY <1>3, <1>1 DEF Start, SessStep, TypeOK, Storing
  <2>2. \A n \in Msgs \ {m} : /\ sess'[n] = sess[n] /\ qdTo'[n] = qdTo[n]
                              /\ accepted'[n] = accepted[n] /\ disk'[n] = disk[n]
    BY <1>3, <1>1 DEF Start, SessStep, TypeOK
  <2>3. accepted'[m] = {} /\ sess'[m] # "ok" /\ sess'[m] \notin Pending
    BY <1>2, <2>1 DEF SessOK, Storing, Pending
  <2>4. DiskOK(m)'
    BY <2>3 DEF DiskOK, Owed
  <2>5. SessOK(m)'
    BY <1>1, <1>2, <1>3, <2>3 DEF Start, SessStep, SessOK, Storing, TypeOK
  <2> QED
    BY <1>1, <2>1, <2>2, <2>4, <2>5, SourceFrame DEF wheelVars
<1>4. CASE \E r \in Rcpts : AddRcpt(m, r)
  <2>1. /\ proc = "up" /\ sess[m] \in Storing /\ sess[m] # "ok" /\ UNCHANGED <<workVars, wheelVars, procVars, histVars, accepted>>
        /\ sess'[m] \in Storing \cup {"failed"}
    BY <1>4, <1>1 DEF AddRcpt, SessStep, TypeOK, Storing
  <2>2. \A n \in Msgs \ {m} : /\ sess'[n] = sess[n] /\ qdTo'[n] = qdTo[n]
                              /\ accepted'[n] = accepted[n] /\ disk'[n] = disk[n]
    BY <1>4, <1>1 DEF AddRcpt, SessStep, TypeOK
  <2>3. accepted'[m] = {} /\ sess'[m] # "ok" /\ sess'[m] \notin Pending
    BY <1>2, <2>1 DEF SessOK, Storing, Pending
  <2>4. DiskOK(m)'
    BY <2>3 DEF DiskOK, Owed
  <2>5. SessOK(m)'
    BY <1>1, <1>2, <1>4, <2>3 DEF AddRcpt, SessOK, Storing, TypeOK
  <2> QED
    BY <1>1, <2>1, <2>2, <2>4, <2>5, SourceFrame DEF wheelVars
<1>5. CASE StoreHeader(m)
  <2>1. /\ proc = "up" /\ sess[m] \in Storing /\ sess[m] # "ok" /\ UNCHANGED <<workVars, wheelVars, procVars, histVars, accepted>>
        /\ sess'[m] \in Storing \cup {"failed"}
    BY <1>5, <1>1 DEF StoreHeader, SessStep, TypeOK, Storing
  <2>2. \A n \in Msgs \ {m} : /\ sess'[n] = sess[n] /\ qdTo'[n] = qdTo[n]
                              /\ accepted'[n] = accepted[n] /\ disk'[n] = disk[n]
    BY <1>5, <1>1 DEF StoreHeader, SessStep, TypeOK
  <2>3. accepted'[m] = {} /\ sess'[m] # "ok" /\ sess'[m] \notin Pending
    BY <1>2, <2>1 DEF SessOK, Storing, Pending
  <2>4. DiskOK(m)'
    BY <2>3 DEF DiskOK, Owed
  <2>5. SessOK(m)'
    <3>1. CASE SessStep(m, "rcpt", "header") /\ disk' = [disk EXCEPT ![m] = WithHeader(@)]
      BY <1>1, <1>2, <2>3, <3>1, FileOps, MetaTypes DEF SessStep, SessOK, Storing, TypeOK
    <3>2. CASE SessStep(m, "rcpt", "failed")
      BY <1>1, <1>2, <2>3, <3>2, FileOps, MetaTypes DEF SessStep, SessOK, Storing, TypeOK
    <3> QED
      BY <1>5, <3>1, <3>2 DEF StoreHeader
  <2> QED
    BY <1>1, <2>1, <2>2, <2>4, <2>5, SourceFrame DEF wheelVars
<1>6. CASE StoreBodyCreate(m)
  <2>1. /\ proc = "up" /\ sess[m] \in Storing /\ sess[m] # "ok" /\ UNCHANGED <<workVars, wheelVars, procVars, histVars, accepted>>
        /\ sess'[m] \in Storing \cup {"failed"}
    BY <1>6, <1>1 DEF StoreBodyCreate, SessStep, TypeOK, Storing
  <2>2. \A n \in Msgs \ {m} : /\ sess'[n] = sess[n] /\ qdTo'[n] = qdTo[n]
                              /\ accepted'[n] = accepted[n] /\ disk'[n] = disk[n]
    BY <1>6, <1>1 DEF StoreBodyCreate, SessStep, TypeOK
  <2>3. accepted'[m] = {} /\ sess'[m] # "ok" /\ sess'[m] \notin Pending
    BY <1>2, <2>1 DEF SessOK, Storing, Pending
  <2>4. DiskOK(m)'
    BY <2>3 DEF DiskOK, Owed
  <2>5. SessOK(m)'
    <3>1. CASE SessStep(m, "header", "create") /\ disk' = [disk EXCEPT ![m] = WithBody(@, "partial")]
      BY <1>1, <1>2, <2>3, <3>1, FileOps, MetaTypes DEF SessStep, SessOK, Storing, TypeOK
    <3>2. CASE SessStep(m, "header", "failed")
      BY <1>1, <1>2, <2>3, <3>2, FileOps, MetaTypes DEF SessStep, SessOK, Storing, TypeOK
    <3> QED
      BY <1>6, <3>1, <3>2 DEF StoreBodyCreate
  <2> QED
    BY <1>1, <2>1, <2>2, <2>4, <2>5, SourceFrame DEF wheelVars
<1>7. CASE StoreBodyCopy(m)
  <2>1. /\ proc = "up" /\ sess[m] \in Storing /\ sess[m] # "ok" /\ UNCHANGED <<workVars, wheelVars, procVars, histVars, accepted>>
        /\ sess'[m] \in Storing \cup {"failed"}
    BY <1>7, <1>1 DEF StoreBodyCopy, SessStep, TypeOK, Storing
  <2>2. \A n \in Msgs \ {m} : /\ sess'[n] = sess[n] /\ qdTo'[n] = qdTo[n]
                              /\ accepted'[n] = accepted[n] /\ disk'[n] = disk[n]
    BY <1>7, <1>1 DEF StoreBodyCopy, SessStep, TypeOK
  <2>3. accepted'[m] = {} /\ sess'[m] # "ok" /\ sess'[m] \notin Pending
    BY <1>2, <2>1 DEF SessOK, Storing, Pending
  <2>4. DiskOK(m)'
    BY <2>3 DEF DiskOK, Owed
  <2>5. SessOK(m)'
    <3>1. CASE SessStep(m, "create", "copied") /\ disk' = [disk EXCEPT ![m] = WithBody(@, "full")]
      BY <1>1, <1>2, <2>3, <3>1, FileOps, MetaTypes DEF SessStep, SessOK, Storing, TypeOK
    <3>2. CASE SessStep(m, "create", "failed")
      BY <1>1, <1>2, <2>3, <3>2, FileOps, MetaTypes DEF SessStep, SessOK, Storing, TypeOK
    <3> QED
      BY <1>7, <3>1, <3>2 DEF StoreBodyCopy
  <2> QED
    BY <1>1, <2>1, <2>2, <2>4, <2>5, SourceFrame DEF wheelVars
<1>8. CASE StoreMeta(m)
  <2>1. /\ proc = "up" /\ sess[m] \in Storing /\ sess[m] # "ok" /\ UNCHANGED <<workVars, wheelVars, procVars, histVars, accepted>>
        /\ sess'[m] \in Storing \cup {"failed"}
    BY <1>8, <1>1 DEF StoreMeta, SessStep, TypeOK, Storing
  <2>2. \A n \in Msgs \ {m} : /\ sess'[n] = sess[n] /\ qdTo'[n] = qdTo[n]
                              /\ accepted'[n] = accepted[n] /\ disk'[n] = disk[n]
    BY <1>8, <1>1 DEF StoreMeta, SessStep, TypeOK
  <2>3. accepted'[m] = {} /\ sess'[m] # "ok" /\ sess'[m] \notin Pending
    BY <1>2, <2>1 DEF SessOK, Storing, Pending
  <2>4. DiskOK(m)'
    BY <2>3 DEF DiskOK, Owed
  <2>5. SessOK(m)'
    <3>1. CASE /\ SessStep(m, "copied", "meta") /\ UNCHANGED qdTo
               /\ disk' = [disk EXCEPT ![m] = WithMeta(@, NewMeta(qdTo[m]))]
      BY <1>1, <1>2, <2>3, <3>1, FileOps, MetaTypes DEF SessStep, SessOK, Storing, TypeOK
    <3>2. CASE SessStep(m, "copied", "failed")
      BY <1>1, <1>2, <2>3, <3>2, FileOps, MetaTypes DEF SessStep, SessOK, Storing, TypeOK
    <3> QED
      BY <1>8, <3>1, <3>2 DEF StoreMeta
  <2> QED
    BY <1>1, <2>1, <2>2, <2>4, <2>5, SourceFrame DEF wheelVars
<1>9. CASE StoreSync(m)
  <2>1. /\ proc = "up" /\ sess[m] = "meta" /\ sess'[m] \in {"stored", "failed"}
        /\ UNCHANGED <<qdTo, accepted, disk, workVars, wheelVars, procVars, histVars>>
    BY <1>9, <1>1 DEF StoreSync, SessStep, TypeOK
  <2>2. \A n \in Msgs \ {m} : /\ sess'[n] = sess[n] /\ qdTo'[n] = qdTo[n]
                              /\ accepted'[n] = accepted[n] /\ disk'[n] = disk[n]
    BY <1>9, <1>1 DEF StoreSync, SessStep, TypeOK
  <2>3. accepted'[m] = {} /\ Owed(m)' \subseteq qdTo[m]
    BY <1>2, <2>1 DEF SessOK, Owed
  <2>4. DiskOK(m)'
    <3>1. disk[m].meta = NewMeta(qdTo[m]) /\ disk[m].header /\ disk[m].body # "none"
      BY <1>2, <2>1 DEF SessOK
    <3>2. NewMeta(qdTo[m]).to = qdTo[m] /\ NoMeta.to = {}
      BY <1>2, MetaTypes
    <3> QED
      BY <2>1, <2>3, <3>1, <3>2 DEF DiskOK
  <2>5. SessOK(m)'
    BY <2>1, <2>3 DEF SessOK, Storing
  <2> QED
    BY <1>1, <2>1, <2>2, <2>4, <2>5, SourceFrame DEF wheelVars, Storing
<1>10. CASE Abort(m)
  <2>1. /\ proc = "up" /\ sess[m] \in {"rcpt", "stored"} /\ sess'[m] \in {"aborted", "rmheader"}
        /\ UNCHANGED <<qdTo, accepted, disk, workVars, wheelVars, procVars, histVars>>
    BY <1>10, <1>1 DEF Abort, SessStep, TypeOK
  <2>2. \A n \in Msgs \ {m} : /\ sess'[n] = sess[n] /\ qdTo'[n] = qdTo[n]
                              /\ accepted'[n] = accepted[n] /\ disk'[n] = disk[n]
    BY <1>10, <1>1 DEF Abort, SessStep, TypeOK
  <2>3. accepted'[m] = {} /\ Owed(m)' = {}
    BY <1>2, <2>1 DEF SessOK, Owed, Pending
  <2>4. DiskOK(m)' /\ SessOK(m)'
    BY <2>1, <2>3 DEF DiskOK, SessOK, Storing
  <2> QED
    BY <1>1, <2>1, <2>2, <2>3, <2>4, SourceFrame DEF wheelVars, Storing
<1>11. CASE AbortRemove(m)
  <2>1. /\ proc = "up" /\ sess[m] \in Removing /\ sess'[m] \in Removing \cup {"aborted"}
        /\ UNCHANGED <<qdTo, accepted, workVars, wheelVars, procVars, histVars>>
    BY <1>11, <1>1 DEF AbortRemove, SessStep, TypeOK, Removing
  <2>2. \A n \in Msgs \ {m} : /\ sess'[n] = sess[n] /\ qdTo'[n] = qdTo[n]
                              /\ accepted'[n] = accepted[n] /\ disk'[n] = disk[n]
    BY <1>11, <1>1 DEF AbortRemove, RemoveFile, SessStep, TypeOK
  <2>3. accepted'[m] = {} /\ Owed(m)' = {}
    BY <1>2, <2>1 DEF SessOK, Owed, Pending, Removing
  <2>4. DiskOK(m)' /\ SessOK(m)'
    BY <2>1, <2>3 DEF DiskOK, SessOK, Storing, Removing
  <2> QED
    BY <1>1, <2>1, <2>2, <2>3, <2>4, SourceFrame DEF wheelVars, Storing, Removing
<1>12. CASE Commit(m)
  <2>1. /\ proc = "up" /\ sess[m] = "stored"
        /\ UNCHANGED <<qdTo, disk, workVars, wheelVars, procVars, histVars>>
        /\ \/ sess'[m] = "ok" /\ accepted'[m] = qdTo[m]
           \/ sess'[m] = "push" /\ accepted'[m] = accepted[m]
    BY <1>12, <1>1 DEF Commit, Accept, SessStep, TypeOK
  <2>2. \A n \in Msgs \ {m} : /\ sess'[n] = sess[n] /\ qdTo'[n] = qdTo[n]
                              /\ accepted'[n] = accepted[n] /\ disk'[n] = disk[n]
    BY <1>12, <1>1 DEF Commit, Accept, SessStep, TypeOK
  <2>3. Owed(m)' = Owed(m)
    BY <1>2, <2>1 DEF SessOK, Owed, Pending, Disposed, histVars
  <2>4. DiskOK(m)'
    BY <1>2, <2>1, <2>3 DEF DiskOK
  <2>5. SessOK(m)'
    BY <1>2, <2>1 DEF SessOK, Storing
  <2> QED
    BY <1>1, <2>1, <2>2, <2>3, <2>4, <2>5, SourceFrame DEF wheelVars, Storing
<1>13. CASE CommitPush(m)
  <2> DEFINE s == [msg |-> m, meta |-> NewMeta(qdTo[m]), by |-> "commit"]
  <2>1. /\ proc = "up" /\ sess[m] = "push" /\ sess'[m] = "notify" /\ slots' = slots \cup {s}
        /\ UNCHANGED <<qdTo, accepted, disk, workVars, procVars, histVars>>
    BY <1>13, <1>1 DEF CommitPush, SessStep, TypeOK
  <2>2. \A n \in Msgs \ {m} : /\ sess'[n] = sess[n] /\ qdTo'[n] = qdTo[n]
                              /\ accepted'[n] = accepted[n] /\ disk'[n] = disk[n]
    BY <1>13, <1>1 DEF CommitPush, SessStep, TypeOK
  <2>3. Owed(m)' = Owed(m) /\ Owed(m) \subseteq qdTo[m]
    BY <1>2, <2>1 DEF SessOK, Owed, Pending, Disposed, histVars
  <2>4. DiskOK(m)' /\ SessOK(m)'
    BY <1>2, <2>1, <2>3 DEF DiskOK, SessOK, Storing
  <2>5. SlotOK(s)'
    BY <1>2, <2>1, <2>3, MetaTypes DEF SlotOK, Storing
  <2>6. \A x \in slots' \ slots : SlotOK(x)'
    BY <2>1, <2>5
  <2> QED
    BY <1>1, <2>1, <2>2, <2>3, <2>4, <2>6, SourceFrame DEF Storing
<1>14. CASE CommitNotify(m)
  <2>1. /\ proc = "up" /\ sess[m] = "notify"
        /\ UNCHANGED <<qdTo, disk, workVars, wheelVars, procVars, histVars>>
        /\ \/ sess'[m] = "ok" /\ accepted'[m] = qdTo[m]
           \/ sess'[m] = "panicked" /\ accepted'[m] = accepted[m]
    BY <1>14, <1>1 DEF CommitNotify, Accept, SessStep, TypeOK
  <2>2. \A n \in Msgs \ {m} : /\ sess'[n] = sess[n] /\ qdTo'[n] = qdTo[n]
                              /\ accepted'[n] = accepted[n] /\ disk'[n] = disk[n]
    BY <1>14, <1>1 DEF CommitNotify, Accept, SessStep, TypeOK
  <2>3. Owed(m)' \subseteq Owed(m)
    BY <1>2, <2>1 DEF SessOK, Owed, Pending, Disposed, histVars
  <2>4. DiskOK(m)'
    BY <1>2, <2>1, <2>3 DEF DiskOK
  <2>5. SessOK(m)'
    BY <1>2, <2>1 DEF SessOK, Storing
  <2> QED
    BY <1>1, <2>1, <2>2, <2>3, <2>4, <2>5, SourceFrame DEF wheelVars, Storing
<1> QED
  BY <1>3, <1>4, <1>5, <1>6, <1>7, <1>8, <1>9, <1>10, <1>11, <1>12, <1>13, <1>14 DEF SessNext

(* A goroutine step that leaves the files and the outcomes alone. *)
LEMMA WorkFrameQuiet ==
  ASSUME IInv, TypeOK', NEW w \in Workers, wpc[w] # "idle",
         UNCHANGED <<sessVars, procVars, disk, delivered, reported>>,
         \A v \in Workers \ {w} : /\ wpc'[v] = wpc[v] /\ wmsg'[v] = wmsg[v] /\ wmeta'[v] = wmeta[v]
                                  /\ werr'[v] = werr[v] /\ wacc'[v] = wacc[v],
         WorkOK(w)',
         slots' \subseteq slots \cup {[msg |-> wmsg[w], meta |-> NoMeta, by |-> w]}
  PROVE  IInv'
<1> SUFFICES ASSUME NEW m \in Msgs, m = wmsg[w] PROVE IInv'
  BY DEF IInv, TypeOK
<1>1. \A n \in Msgs : Owed(n)' = Owed(n)
  BY OwedFrame DEF sessVars
<1>2. DiskOK(m)'
  BY <1>1 DEF IInv, DiskOK
<1> QED
  BY <1>1, <1>2, WorkFrame

(* A goroutine step that changes neither the debts nor what the goroutine   *)
(* holds: only the place it is at matters.                                  *)
LEMMA WorkFrameMoves ==
  ASSUME IInv, TypeOK', NEW w \in Workers, wpc[w] # "idle",
         UNCHANGED <<sessVars, procVars, disk, delivered, reported, wmsg, wmeta, werr, wacc>>,
         NEW to \in WorkPc, wpc' = [wpc EXCEPT ![w] = to],
         to \notin InHand \cup Removing \cup {"wait"},
         slots' \subseteq slots \cup {[msg |-> wmsg[w], meta |-> NoMeta, by |-> w]}
  PROVE  IInv'
<1>1. \A v \in Workers \ {w} : wpc'[v] = wpc[v]
  BY DEF IInv, TypeOK
<1>2. wpc'[w] = to
  BY DEF IInv, TypeOK
<1>3. WorkOK(w)'
  BY <1>2 DEF IInv, WorkOK, InHand, sessVars
<1> QED
  BY <1>1, <1>3, WorkFrameQuiet

(* A step of a delivery goroutine preserves the invariant. *)
LEMMA WorkerStep ==
  ASSUME IInv, NEW w \in Workers, WorkNext(w)
  PROVE  IInv'
<1>1. TypeOK /\ TypeOK'
  BY TypeWork DEF IInv
<1> SUFFICES ASSUME NEW m \in Msgs, m = wmsg[w] PROVE IInv'
  BY <1>1 DEF TypeOK
<1>2. /\ WorkOK(w) /\ DiskOK(m) /\ disk[m] \in Files
      /\ wmeta[w] \in Meta /\ wmeta[w].to \subseteq Rcpts /\ werr[w] \in Errs
  BY <1>1 DEF IInv, TypeOK, Meta
<1>3. CASE Acquire(w)
  <2>1. /\ wpc[w] = "wait" /\ wpc'[w] \in {"open", "deliver"}
        /\ (wpc'[w] = "deliver" => wmeta[w] # NoMeta)
        /\ UNCHANGED <<wmsg, wmeta, werr, wacc, sessVars, wheelVars, procVars, histVars, disk, faults>>
    BY <1>3, <1>1 DEF Acquire, WorkStep, TypeOK
  <2>2. \A v \in Workers \ {w} : /\ wpc'[v] = wpc[v] /\ wmsg'[v] = wmsg[v] /\ wmeta'[v] = wmeta[v]
                                 /\ werr'[v] = werr[v] /\ wacc'[v] = wacc[v]
    BY <1>3, <1>1 DEF Acquire, WorkStep, TypeOK
  <2>3. \A n \in Msgs : Owed(n)' = Owed(n)
    BY <2>1, OwedFrame DEF sessVars, histVars
  <2>4. WorkOK(w)'
    BY <1>2, <2>1, <2>3 DEF WorkOK, InHand, Removing, sessVars
  <2> QED
    BY <1>1, <2>1, <2>2, <2>4, WorkFrameQuiet DEF histVars, wheelVars
<1>4. CASE OpenMessage(w)
  <2>1. /\ wpc[w] = "open" /\ wpc'[w] = "deliver" /\ wmeta'[w] = disk[m].meta /\ disk[m].meta # NoMeta
        /\ UNCHANGED <<wmsg, werr, wacc, sessVars, wheelVars, procVars, histVars, disk, faults>>
    BY <1>4, <1>1 DEF OpenMessage, WorkStep, TypeOK
  <2>2. \A v \in Workers \ {w} : /\ wpc'[v] = wpc[v] /\ wmsg'[v] = wmsg[v] /\ wmeta'[v] = wmeta[v]
                                 /\ werr'[v] = werr[v] /\ wacc'[v] = wacc[v]
    BY <1>4, <1>1 DEF OpenMessage, WorkStep, TypeOK
  <2>3. \A n \in Msgs : Owed(n)' = Owed(n)
    BY <2>1, OwedFrame DEF sessVars, histVars
  <2>4. WorkOK(w)'
    BY <1>2, <2>1, <2>3 DEF WorkOK, DiskOK, InHand, Removing, sessVars
  <2> QED
    BY <1>1, <2>1, <2>2, <2>4, WorkFrameQuiet DEF histVars, wheelVars
<1>5. CASE OpenFails(w)
  <2>1. /\ wpc[w] = "open" /\ wpc'[w] = "release"
        /\ UNCHANGED <<wmsg, wmeta, werr, wacc, sessVars, wheelVars, procVars, histVars>>
    BY <1>5, <1>1 DEF OpenFails, WorkStep, TypeOK
  <2>2. \A v \in Workers \ {w} : /\ wpc'[v] = wpc[v] /\ wmsg'[v] = wmsg[v] /\ wmeta'[v] = wmeta[v]
                                 /\ werr'[v] = werr[v] /\ wacc'[v] = wacc[v]
    BY <1>5, <1>1 DEF OpenFails, WorkStep, TypeOK
  <2>3. \A n \in Msgs : Owed(n)' = Owed(n)
    BY <2>1, OwedFrame DEF sessVars, histVars
  <2>4. WorkOK(w)'
    BY <1>2, <2>1, <2>3 DEF WorkOK, InHand, Removing, sessVars
  <2>5. \A n \in Msgs \ {m} : disk'[n] = disk[n]
    BY <1>5, <1>1 DEF OpenFails, TypeOK
  <2>6. DiskOK(m)'
    <3>1. CASE Owed(m) = {}
      BY <2>3, <3>1 DEF DiskOK
    <3>2. CASE Owed(m) # {}
      <4>1. disk[m].header /\ disk[m].body # "none"
        BY <1>2, <3>2 DEF DiskOK
      <4>2. UNCHANGED disk
        BY <1>5, <4>1 DEF OpenFails
      <4> QED
        BY <1>2, <2>3, <4>2 DEF DiskOK
    <3> QED
      BY <3>1, <3>2
  <2> QED
    BY <1>1, <2>1, <2>2, <2>3, <2>4, <2>5, <2>6, WorkFrame DEF wheelVars
<1>6. CASE DeliverStart(w)
  <2>1. PICK e \in StartErrs(wmeta[w].to) \cup AddRcptErrs(wmeta[w].to) :
          /\ werr' = [werr EXCEPT ![w] = e]
          /\ wacc' = [wacc EXCEPT ![w] = {r \in wmeta[w].to : e[r] = "none"}]
          /\ WorkStep(w, "deliver", IF \E r \in wmeta[w].to : e[r] = "none" THEN "data" ELSE "settle")
    BY <1>6 DEF DeliverStart
  <2>2. /\ wpc[w] = "deliver" /\ werr'[w] = e /\ wacc'[w] = {r \in wmeta[w].to : e[r] = "none"}
        /\ \/ wpc'[w] = "data"
           \/ wpc'[w] = "settle" /\ \A r \in wmeta[w].to : e[r] # "none"
        /\ UNCHANGED <<wmsg, wmeta, delivered, reported, sessVars, wheelVars, procVars, disk, faults>>
    BY <1>1, <1>6, <2>1 DEF DeliverStart, WorkStep, TypeOK
  <2>3. \A v \in Workers \ {w} : /\ wpc'[v] = wpc[v] /\ wmsg'[v] = wmsg[v] /\ wmeta'[v] = wmeta[v]
                                 /\ werr'[v] = werr[v] /\ wacc'[v] = wacc[v]
    BY <1>6, <1>1 DEF DeliverStart, WorkStep, TypeOK
  <2>4. \A n \in Msgs : Owed(n)' = Owed(n)
    BY <2>2, OwedFrame DEF sessVars
  <2>5. WorkOK(w)'
    BY <1>2, <2>2, <2>4 DEF WorkOK, InHand, Removing, sessVars
  <2> QED
    BY <1>1, <2>2, <2>3, <2>5, WorkFrameQuiet DEF wheelVars
<1>7. CASE DeliverBody(w)
  <2>1. PICK e \in BodyErrs(w) :
          /\ werr' = [werr EXCEPT ![w] = e]
          /\ WorkStep(w, "data", IF \E r \in wacc[w] : e[r] = "none" THEN "commit" ELSE "settle")
    BY <1>7 DEF DeliverBody
  <2>2. /\ wpc[w] = "data" /\ werr'[w] = e /\ \A r \in Rcpts \ wacc[w] : e[r] = werr[w][r]
        /\ \/ wpc'[w] = "commit"
           \/ wpc'[w] = "settle" /\ \A r \in wacc[w] : e[r] # "none"
        /\ UNCHANGED <<wmsg, wmeta, wacc, sessVars, wheelVars, procVars, histVars, disk, faults>>
    BY <1>1, <1>7, <2>1 DEF DeliverBody, WorkStep, TypeOK, BodyErrs
  <2>3. \A v \in Workers \ {w} : /\ wpc'[v] = wpc[v] /\ wmsg'[v] = wmsg[v] /\ wmeta'[v] = wmeta[v]
                                 /\ werr'[v] = werr[v] /\ wacc'[v] = wacc[v]
    BY <1>7, <1>1 DEF DeliverBody, WorkStep, TypeOK
  <2>4. \A n \in Msgs : Owed(n)' = Owed(n) /\ Owed(n) \subseteq Rcpts
    BY <2>2, OwedFrame DEF sessVars, histVars, Owed
  <2>5. WorkOK(w)'
    BY <1>2, <2>2, <2>4 DEF WorkOK, InHand, Removing, sessVars
  <2> QED
    BY <1>1, <2>2, <2>3, <2>5, WorkFrameQuiet DEF wheelVars, histVars
<1>8. CASE DeliverCommit(w)
  <2> DEFINE through == {r \in wacc[w] : werr[w][r] = "none"}
  <2>1. /\ wpc[w] = "commit" /\ wpc'[w] = "settle"
        /\ UNCHANGED <<wmsg, wmeta, wacc, attempts, reported, sessVars, wheelVars, procVars, disk>>
    BY <1>8, <1>1 DEF DeliverCommit, WorkStep, TypeOK
  <2>2. \A v \in Workers \ {w} : /\ wpc'[v] = wpc[v] /\ wmsg'[v] = wmsg[v] /\ wmeta'[v] = wmeta[v]
                                 /\ werr'[v] = werr[v] /\ wacc'[v] = wacc[v]
    BY <1>8, <1>1 DEF DeliverCommit, WorkStep, TypeOK
  <2>3. PICK R \in SUBSET Rcpts : Took(m, R) /\ (R = through \/ \A r \in wacc[w] : werr'[w][r] # "none")
                                /\ \A r \in Rcpts \ R : werr[w][r] # "none" => werr'[w][r] # "none"
    <3>1. through \subseteq Rcpts /\ wacc[w] \subseteq Rcpts
      BY <1>1 DEF TypeOK
    <3>2. CASE Took(m, through) /\ UNCHANGED werr
      BY <3>1, <3>2
    <3>3. ASSUME NEW part \in SUBSET through, NEW e \in {"temp", "perm"}, Took(m, part),
                 werr' = [werr EXCEPT ![w] = [r \in Rcpts |-> IF r \in wacc[w] THEN e ELSE @[r]]]
          PROVE  /\ part \in SUBSET Rcpts /\ Took(m, part) /\ \A r \in wacc[w] : werr'[w][r] # "none"
                 /\ \A r \in Rcpts : werr[w][r] # "none" => werr'[w][r] # "none"
      <4>1. \A r \in Rcpts : werr'[w][r] = IF r \in wacc[w] THEN e ELSE werr[w][r]
        BY <1>1, <3>3 DEF TypeOK, Errs
      <4> QED
        BY <3>1, <3>3, <4>1
    <3> QED
      BY <1>8, <3>2, <3>3 DEF DeliverCommit
  <2>4. \A n \in Msgs, r \in Rcpts : delivered'[n][r] = IF n = m /\ r \in R THEN delivered[n][r] + 1 ELSE delivered[n][r]
    BY <1>1, <2>3 DEF Took, TypeOK
  <2>5. \A n \in Msgs, r \in Rcpts : delivered[n][r] \in Nat
    BY <1>1 DEF TypeOK
  <2>6. \A n \in Msgs : Owed(n)' \subseteq Owed(n)
    BY <2>1, <2>4, <2>5 DEF Owed, Disposed, sessVars
  <2>7. \A r \in Owed(m)' : r \in Rcpts /\ r \notin R
    BY <2>4, <2>5 DEF Owed, Disposed
  <2>8. WorkOK(w)'
    BY <1>2, <2>1, <2>3, <2>6, <2>7 DEF WorkOK, InHand, Removing, sessVars
  <2>9. DiskOK(m)'
    BY <1>2, <2>1, <2>6 DEF DiskOK
  <2> QED
    BY <1>1, <2>1, <2>2, <2>6, <2>8, <2>9, WorkFrame DEF wheelVars
<1>9. CASE DeliverPanic(w)
  <2>1. PICK pc \in {"deliver", "data", "commit"} : WorkStep(w, pc, "unwind")
    BY <1>9 DEF DeliverPanic
  <2> QED
    BY <1>1, <1>9, <2>1, WorkFrameMoves
       DEF DeliverPanic, WorkStep, WorkPc, InHand, Removing, histVars, wheelVars
<1>10. CASE Settle(w)
  <2>1. /\ wpc[w] = "settle" /\ wmeta'[w].to = NewRcpts(w)
        /\ reported' = [reported EXCEPT ![m] = @ \cup FailedRcpts(w)]
        /\ \/ wpc'[w] = "rmheader" /\ NewRcpts(w) = {}
           \/ wpc'[w] = "update"
        /\ UNCHANGED <<wmsg, werr, wacc, attempts, delivered, sessVars, wheelVars, procVars, disk, faults>>
    BY <1>10, <1>1 DEF Settle, WorkStep, TypeOK
  <2>2. \A v \in Workers \ {w} : /\ wpc'[v] = wpc[v] /\ wmsg'[v] = wmsg[v] /\ wmeta'[v] = wmeta[v]
                                 /\ werr'[v] = werr[v] /\ wacc'[v] = wacc[v]
    BY <1>10, <1>1 DEF Settle, WorkStep, TypeOK
  <2>3. \A n \in Msgs : reported[n] \subseteq reported'[n]
    BY <1>1, <2>1 DEF TypeOK
  <2>4. \A n \in Msgs : Owed(n)' \subseteq Owed(n)
    BY <2>1, <2>3 DEF Owed, Disposed, sessVars
  <2>5. \A r \in Owed(m)' : r \notin FailedRcpts(w)
    BY <1>1, <2>1 DEF Owed, Disposed, TypeOK
  <2>6. Owed(m)' \subseteq NewRcpts(w)
    <3> SUFFICES ASSUME NEW r \in Owed(m)' PROVE r \in NewRcpts(w)
      OBVIOUS
    <3>1. r \in Owed(m) /\ r \notin FailedRcpts(w)
      BY <2>4, <2>5
    <3>2. r \in wmeta[w].to /\ werr[w][r] # "none" /\ r \in Rcpts
      BY <1>2, <2>1, <3>1 DEF WorkOK, InHand, Owed
    <3>3. werr[w][r] \in {"temp", "perm"}
      BY <1>2, <3>2 DEF Errs
    <3> QED
      BY <3>1, <3>2, <3>3 DEF FailedRcpts, NewRcpts
  <2>7. WorkOK(w)'
    BY <1>2, <2>1, <2>6 DEF WorkOK, InHand, Removing, sessVars
  <2>8. DiskOK(m)'
    BY <1>2, <2>1, <2>4 DEF DiskOK
  <2> QED
    BY <1>1, <2>1, <2>2, <2>4, <2>7, <2>8, WorkFrame DEF wheelVars
<1>11. CASE Update(w)
  <2>1. /\ wpc[w] = "update" /\ wpc'[w] = "add"
        /\ UNCHANGED <<wmsg, wmeta, werr, wacc, sessVars, wheelVars, procVars, histVars>>
    BY <1>11, <1>1 DEF Update, WorkStep, TypeOK
  <2>2. \A v \in Workers \ {w} : /\ wpc'[v] = wpc[v] /\ wmsg'[v] = wmsg[v] /\ wmeta'[v] = wmeta[v]
                                 /\ werr'[v] = werr[v] /\ wacc'[v] = wacc[v]
    BY <1>11, <1>1 DEF Update, WorkStep, TypeOK
  <2>3. \A n \in Msgs : Owed(n)' = Owed(n)
    BY <2>1, OwedFrame DEF sessVars, histVars
  <2>4. WorkOK(w)'
    BY <1>2, <2>1, <2>3 DEF WorkOK, InHand, Removing, sessVars
  <2>5. \A n \in Msgs \ {m} : disk'[n] = disk[n]
    BY <1>11, <1>1 DEF Update, TypeOK
  <2>6. DiskOK(m)'
    <3>1. CASE UNCHANGED disk
      BY <1>2, <2>3, <3>1 DEF DiskOK
    <3>2. CASE disk' = [disk EXCEPT ![wmsg[w]] = WithMeta(@, wmeta[w])]
      <4>1. disk'[m] = WithMeta(disk[m], wmeta[w])
        BY <1>1, <3>2 DEF TypeOK
      <4>2. /\ disk'[m].meta = wmeta[w] /\ disk'[m].header = disk[m].header
            /\ disk'[m].body = disk[m].body
        BY <1>2, <4>1 DEF WithMeta, Files
      <4>3. \A r \in Owed(m) : r \in wmeta[w].to
        BY <1>2, <2>1 DEF WorkOK, InHand
      <4> QED
        BY <1>2, <2>3, <4>2, <4>3, MetaTypes DEF DiskOK
    <3> QED
      BY <1>11, <3>1, <3>2 DEF Update
  <2> QED
    BY <1>1, <2>1, <2>2, <2>3, <2>4, <2>5, <2>6, WorkFrame DEF wheelVars
<1>12. CASE Remove(w)
  <2>1. /\ wpc[w] \in Removing /\ wpc'[w] \in Removing \cup {"release"}
        /\ UNCHANGED <<wmsg, wmeta, werr, wacc, sessVars, wheelVars, procVars, histVars>>
    BY <1>12, <1>1 DEF Remove, WorkStep, TypeOK, Removing
  <2>2. \A v \in Workers \ {w} : /\ wpc'[v] = wpc[v] /\ wmsg'[v] = wmsg[v] /\ wmeta'[v] = wmeta[v]
                                 /\ werr'[v] = werr[v] /\ wacc'[v] = wacc[v]
    BY <1>12, <1>1 DEF Remove, WorkStep, TypeOK
  <2>3. \A n \in Msgs : Owed(n)' = Owed(n)
    BY <2>1, OwedFrame DEF sessVars, histVars
  <2>4. Owed(m) = {}
    BY <1>2, <2>1 DEF WorkOK, Removing
  <2>5. WorkOK(w)' /\ DiskOK(m)'
    BY <1>2, <2>1, <2>3, <2>4 DEF WorkOK, DiskOK, Removing, sessVars
  <2>6. \A n \in Msgs \ {m} : disk'[n] = disk[n]
    BY <1>12, <1>1 DEF Remove, RemoveFile, TypeOK
  <2> QED
    BY <1>1, <2>1, <2>2, <2>3, <2>5, <2>6, WorkFrame DEF wheelVars, Removing
<1>13. CASE Retry(w)
  BY <1>1, <1>13, WorkFrameMoves DEF Retry, WorkStep, WorkPc, InHand, Removing, histVars, wheelVars
<1>14. CASE RetryPush(w)
  BY <1>1, <1>14, WorkFrameMoves DEF RetryPush, WorkStep, WorkPc, InHand, Removing, histVars
<1>15. CASE RetryNotify(w)
  <2>1. WorkStep(w, "notify", "release") \/ WorkStep(w, "notify", "unwind")
    BY <1>15 DEF RetryNotify
  <2> QED
    BY <1>1, <1>15, <2>1, WorkFrameMoves
       DEF RetryNotify, WorkStep, WorkPc, InHand, Removing, histVars, wheelVars
<1>16. CASE Release(w)
  <2>1. CASE WorkStep(w, "unwind", "discard") /\ UNCHANGED <<wmsg, wmeta, werr, wacc>>
    BY <1>1, <1>16, <2>1, WorkFrameMoves
       DEF Release, WorkStep, WorkPc, InHand, Removing, histVars, wheelVars
  <2>2. CASE WorkStep(w, "release", "idle") /\ Forget(w)
    <3>1. wpc[w] = "release" /\ wpc'[w] = "idle"
      BY <1>1, <2>2 DEF WorkStep, TypeOK
    <3>2. \A v \in Workers \ {w} : /\ wpc'[v] = wpc[v] /\ wmsg'[v] = wmsg[v] /\ wmeta'[v] = wmeta[v]
                                   /\ werr'[v] = werr[v] /\ wacc'[v] = wacc[v]
      BY <1>1, <2>2 DEF WorkStep, Forget, TypeOK
    <3>3. UNCHANGED <<sessVars, wheelVars, procVars, histVars, disk>>
      BY <1>16 DEF Release
    <3>4. WorkOK(w)'
      BY <3>1 DEF WorkOK
    <3> QED
      BY <1>1, <3>1, <3>2, <3>3, <3>4, WorkFrameQuiet DEF histVars, wheelVars
  <2> QED
    BY <1>16, <2>1, <2>2 DEF Release
<1>17. CASE DiscardBroken(w)
  <2>1. /\ wpc[w] = "discard" /\ wpc'[w] = "idle"
        /\ UNCHANGED <<sessVars, wheelVars, procVars, histVars>>
    BY <1>17, <1>1 DEF DiscardBroken, WorkStep, TypeOK
  <2>2. \A v \in Workers \ {w} : /\ wpc'[v] = wpc[v] /\ wmsg'[v] = wmsg[v] /\ wmeta'[v] = wmeta[v]
                                 /\ werr'[v] = werr[v] /\ wacc'[v] = wacc[v]
    BY <1>1, <1>17 DEF DiscardBroken, WorkStep, Forget, TypeOK
  <2>3. \A n \in Msgs : Owed(n)' = Owed(n)
    BY <2>1, OwedFrame DEF sessVars, histVars
  <2>4. WorkOK(w)'
    BY <2>1 DEF WorkOK
  <2>5. /\ \A n \in Msgs \ {m} : disk'[n] = disk[n]
        /\ disk'[m] = IF disk[m].meta = NoMeta THEN disk[m] ELSE Quarantined(disk[m])
    BY <1>17, <1>1 DEF DiscardBroken, TypeOK
  <2>6. DiskOK(m)'
    <3>1. CASE disk[m].meta = NoMeta
      BY <1>2, <2>3, <2>5, <3>1 DEF DiskOK
    <3>2. CASE disk[m].meta # NoMeta
      <4>1. /\ disk'[m].meta = NoMeta /\ disk'[m].broken = disk[m].meta
            /\ disk'[m].header = disk[m].header /\ disk'[m].body = disk[m].body
        BY <1>2, <2>5, <3>2, FileOps
      <4> QED
        BY <1>2, <2>3, <3>2, <4>1 DEF DiskOK
    <3> QED
      BY <3>1, <3>2
  <2> QED
    BY <1>1, <2>1, <2>2, <2>3, <2>4, <2>5, <2>6, WorkFrame DEF wheelVars
<1> QED
  BY <1>3, <1>4, <1>5, <1>6, <1>7, <1>8, <1>9, <1>10, <1>11, <1>12, <1>13, <1>14, <1>15, <1>16, <1>17
     DEF WorkNext

(* The tick goroutine hands a slot to a new goroutine. *)
LEMMA DispatchStep ==
  ASSUME IInv, NEW s \in slots, NEW w \in Workers, Dispatch(s, w)
  PROVE  IInv'
<1>1. TypeOK /\ TypeOK'
  BY TypeStep DEF IInv, Next
<1>2. s.msg \in Msgs /\ SlotOK(s)
  BY <1>1 DEF IInv, TypeOK, Slot
<1>3. /\ wpc'[w] = "wait" /\ wmsg'[w] = s.msg /\ wmeta'[w] = s.meta /\ slots' \subseteq slots
      /\ \A v \in Workers \ {w} : wpc'[v] = wpc[v] /\ wmsg'[v] = wmsg[v] /\ wmeta'[v] = wmeta[v]
      /\ UNCHANGED <<werr, wacc, sessVars, procVars, histVars, disk>>
  BY <1>1 DEF Dispatch, WorkStep, TypeOK
<1>4. \A n \in Msgs : Owed(n)' = Owed(n)
  BY <1>3, OwedFrame DEF sessVars, histVars
<1>5. \A n \in Msgs : DiskOK(n)' /\ SessOK(n)'
  BY <1>3, <1>4 DEF IInv, DiskOK, SessOK, sessVars
<1>6. ASSUME NEW x \in slots' PROVE SlotOK(x)'
  <2>1. SlotOK(x) /\ x.msg \in Msgs
    BY <1>1, <1>3 DEF IInv, TypeOK, Slot
  <2> QED
    BY <1>3, <1>4, <2>1 DEF SlotOK, sessVars
<1>7. ASSUME NEW v \in Workers PROVE WorkOK(v)'
  <2>1. CASE v = w
    BY <1>2, <1>3, <1>4, <2>1 DEF WorkOK, SlotOK, InHand, Removing, sessVars
  <2>2. CASE v # w
    <3>1. WorkOK(v) /\ wmsg[v] \in Msgs
      BY <1>1 DEF IInv, TypeOK
    <3> QED
      BY <1>3, <1>4, <2>2, <3>1 DEF WorkOK, sessVars
  <2> QED
    BY <2>1, <2>2
<1>8. BootOK'
  BY <1>3 DEF IInv, BootOK, procVars, sessVars
<1> QED
  BY <1>1, <1>5, <1>6, <1>7, <1>8 DEF IInv

(* A step that leaves messages, slots and goroutines as they are. *)
LEMMA IdleFrame ==
  ASSUME IInv, TypeOK', BootOK',
         UNCHANGED <<workVars, sessVars, slots, histVars, disk>>
  PROVE  IInv'
<1>1. \A n \in Msgs : Owed(n)' = Owed(n)
  BY OwedFrame DEF sessVars, histVars
<1>2. \A n \in Msgs : DiskOK(n)' /\ SessOK(n)'
  BY <1>1 DEF IInv, DiskOK, SessOK, sessVars
<1>3. ASSUME NEW x \in slots' PROVE SlotOK(x)'
  <2>1. SlotOK(x) /\ x.msg \in Msgs
    BY DEF IInv, TypeOK, Slot
  <2> QED
    BY <1>1, <2>1 DEF SlotOK, sessVars
<1>4. ASSUME NEW w \in Workers PROVE WorkOK(w)'
  <2>1. WorkOK(w) /\ wmsg[w] \in Msgs
    BY DEF IInv, TypeOK
  <2>2. wpc' = wpc /\ wmsg' = wmsg /\ wmeta' = wmeta /\ werr' = werr /\ wacc' = wacc
    BY DEF workVars
  <2> QED
    BY <1>1, <2>1, <2>2 DEF WorkOK, sessVars
<1> QED
  BY <1>2, <1>3, <1>4 DEF IInv

(* The process ends: the debts of accepted messages stay on disk. *)
LEMMA VanishStep ==
  ASSUME IInv, TypeOK', Vanish
  PROVE  IInv'
<1>1. ASSUME NEW m \in Msgs
      PROVE  /\ Owed(m)' \subseteq Owed(m)
             /\ sess'[m] = sess[m] \/ (sess'[m] = "gone" /\ sess[m] \notin Quiet)
             /\ sess'[m] \in Quiet
  BY DEF Vanish, Owed, Disposed, histVars, Pending, Quiet, IInv, TypeOK
<1>2. \A m \in Msgs : DiskOK(m)'
  BY <1>1 DEF IInv, DiskOK, Vanish
<1>3. \A m \in Msgs : SessOK(m)'
  BY <1>1 DEF IInv, SessOK, Vanish, Storing, Quiet
<1>4. \A w \in Workers : WorkOK(w)'
  BY DEF Vanish, WorkOK
<1>5. BootOK'
  BY <1>1 DEF Vanish, BootOK
<1> QED
  BY <1>2, <1>3, <1>4, <1>5 DEF IInv, Vanish

(* One turn of readDiskQueue. *)
LEMMA LoadStep ==
  ASSUME IInv, TypeOK', NEW m \in Msgs, LoadSkip(m) \/ LoadSlot(m)
  PROVE  IInv'
<1>1. /\ m \in toLoad /\ proc = "load" /\ toLoad' = toLoad \ {m} /\ proc' = proc
      /\ UNCHANGED <<workVars, sessVars, histVars>>
      /\ \A n \in Msgs \ {m} : disk'[n] = disk[n]
  BY DEF LoadSkip, LoadSlot, IInv, TypeOK
<1>2. sess[m] \in Quiet \ {"new"}
  BY <1>1 DEF IInv, BootOK
<1>3. \A n \in Msgs : Owed(n)' = Owed(n)
  BY <1>1, OwedFrame DEF sessVars, histVars
<1>4. DiskOK(m)'
  <2>1. CASE Owed(m) = {}
    BY <1>3, <2>1 DEF DiskOK
  <2>2. CASE Owed(m) # {}
    <3>1. DiskOK(m)
      BY DEF IInv
    <3>2. disk[m].header /\ disk[m].body # "none"
      BY <2>2, <3>1 DEF DiskOK
    <3>3. UNCHANGED disk
      BY <3>2 DEF LoadSkip, LoadSlot
    <3> QED
      BY <1>3, <3>1, <3>3 DEF DiskOK
  <2> QED
    BY <2>1, <2>2
<1>5. SessOK(m)'
  BY <1>1, <1>2 DEF IInv, SessOK, Storing, Quiet, sessVars
<1>6. ASSUME NEW n \in Msgs PROVE DiskOK(n)' /\ SessOK(n)'
  <2>1. CASE n = m
    BY <1>4, <1>5, <2>1
  <2>2. CASE n # m
    BY <1>1, <1>3, <2>2 DEF IInv, DiskOK, SessOK, sessVars
  <2> QED
    BY <2>1, <2>2
<1>7. ASSUME NEW x \in slots' PROVE SlotOK(x)'
  <2>1. CASE x \in slots
    <3>1. SlotOK(x) /\ x.msg \in Msgs
      BY <2>1 DEF IInv, TypeOK, Slot
    <3> QED
      BY <1>1, <1>3, <3>1 DEF SlotOK, sessVars
  <2>2. CASE x = [msg |-> m, meta |-> NoMeta, by |-> "load"]
    BY <1>1, <1>2, <2>2 DEF SlotOK, sessVars, Quiet, Storing
  <2> QED
    BY <2>1, <2>2 DEF LoadSkip, LoadSlot, wheelVars
<1>8. ASSUME NEW w \in Workers PROVE WorkOK(w)'
  <2>1. WorkOK(w) /\ wmsg[w] \in Msgs
    BY DEF IInv, TypeOK
  <2>2. wpc' = wpc /\ wmsg' = wmsg /\ wmeta' = wmeta /\ werr' = werr /\ wacc' = wacc
    BY <1>1 DEF workVars
  <2> QED
    BY <1>1, <1>3, <2>1, <2>2 DEF WorkOK, sessVars
<1>9. BootOK'
  BY <1>1 DEF IInv, BootOK, sessVars
<1> QED
  BY <1>6, <1>7, <1>8, <1>9 DEF IInv

(* The invariant holds at the start. *)
LEMMA InitStep == Init => IInv
<1> SUFFICES ASSUME Init PROVE IInv
  OBVIOUS
<1>1. TypeOK
  BY MetaTypes, QueueAssumption DEF Init, TypeOK, SessPc, WorkPc, Errs, NoErrs
<1>2. \A m \in Msgs : DiskOK(m) /\ SessOK(m)
  BY MetaTypes DEF Init, DiskOK, SessOK, Owed, Pending, Storing
<1>3. /\ \A s \in slots : SlotOK(s)
      /\ \A w \in Workers : WorkOK(w)
      /\ BootOK
  BY DEF Init, WorkOK, BootOK
<1> QED
  BY <1>1, <1>2, <1>3 DEF IInv

(* Every step preserves the invariant. *)
LEMMA NextStep == IInv /\ [Next]_vars => IInv'
<1> SUFFICES ASSUME IInv, [Next]_vars PROVE IInv'
  OBVIOUS
<1>1. TypeOK'
  BY TypeStep DEF IInv
<1>2. CASE \E m \in Msgs : SessNext(m)
  BY <1>2, SourceStep
<1>3. CASE \E s \in slots, w \in Workers : Dispatch(s, w)
  BY <1>3, DispatchStep
<1>4. CASE \E w \in Workers : WorkNext(w)
  BY <1>4, WorkerStep
<1>5. CASE CloseNext
  <2>1. UNCHANGED <<slots, workVars, sessVars, histVars, disk, proc, toLoad>>
    BY <1>5 DEF CloseNext, CloseStore, CloseStop, CloseChan, CloseWait, CloseStep
  <2>2. BootOK'
    BY <2>1 DEF IInv, BootOK, sessVars
  <2> QED
    BY <1>1, <2>1, <2>2, IdleFrame
<1>6. CASE Kill \/ Exit
  BY <1>1, <1>6, VanishStep DEF Kill, Exit
<1>7. CASE StartUp
  <2>1. UNCHANGED <<slots, workVars, sessVars, histVars, disk>>
    BY <1>7 DEF StartUp, wheelVars
  <2>2. BootOK'
    BY <1>7 DEF StartUp, IInv, BootOK, SessOK, Storing, sessVars
  <2> QED
    BY <1>1, <2>1, <2>2, IdleFrame
<1>8. CASE LoadDone
  <2>1. UNCHANGED <<slots, workVars, sessVars, histVars, disk>>
    BY <1>8 DEF LoadDone, wheelVars
  <2>2. BootOK'
    BY <1>8 DEF LoadDone, BootOK
  <2> QED
    BY <1>1, <2>1, <2>2, IdleFrame
<1>9. CASE \E m \in Msgs : LoadSkip(m) \/ LoadSlot(m)
  BY <1>1, <1>9, LoadStep
<1>10. CASE UNCHANGED vars
  <2>1. UNCHANGED <<slots, workVars, sessVars, histVars, disk>>
    BY <1>10 DEF vars, wheelVars
  <2>2. BootOK'
    BY <1>10 DEF vars, IInv, BootOK, sessVars, procVars
  <2> QED
    BY <1>1, <2>1, <2>2, IdleFrame
<1> QED
  BY <1>2, <1>3, <1>4, <1>5, <1>6, <1>7, <1>8, <1>9, <1>10 DEF Next, BootNext

(* Files, slots and goroutines agree about every recipient the queue owes   *)
(* an outcome to, in every reachable state.                                 *)
THEOREM QueueInvariant == Spec => []IInv
<1> QED
  BY InitStep, NextStep, PTL DEF Spec

(* The queue's variables keep their types; in particular no tries counter   *)
(* goes beyond max_tries.                                                   *)
THEOREM QueueTypeOK == Spec => []TypeOK
<1>1. IInv => TypeOK
  BY DEF IInv
<1> QED
  BY <1>1, QueueInvariant, PTL

(* No recipient is forgotten, for any number of messages, recipients,       *)
(* goroutines, kills, failing file operations and panics: once Commit has   *)
(* returned nil, the recipient is delivered to, reported or named by a      *)
(* metadata file of its message.                                            *)
THEOREM QueueRcptAccounted == Spec => []RcptAccounted
<1>1. IInv => RcptAccounted
  <2> SUFFICES ASSUME IInv, NEW m \in Msgs, NEW r \in accepted[m], ~Disposed(m, r)
               PROVE  r \in disk[m].meta.to \/ r \in disk[m].broken.to
    BY DEF RcptAccounted
  <2>1. r \in Owed(m) /\ DiskOK(m)
    BY DEF IInv, TypeOK, Owed
  <2> QED
    BY <2>1 DEF DiskOK
<1> QED
  BY <1>1, QueueInvariant, PTL

-----------------------------------------------------------------------------
(***************************************************************************)
(* Delivery attempts.                                                      *)
(*                                                                         *)
(* Theorems about the delivery attempts: at most one goroutine             *)
(* works on a message, it finds the whole body, the number of tries and    *)
(* of deliveries is bounded, and Close leaves nothing running.             *)
(*                                                                         *)
(* None of this is inductive by itself.  The argument is that a message    *)
(* has one claim at most, which is handed on: from its source to the slot  *)
(* Commit pushes, from the slot to the goroutine dispatch starts, from the *)
(* goroutine to the slot of the retry, and over a restart to the directory *)
(* listing and the slot readDiskQueue makes of it.  Only the holder of the *)
(* claim changes the body and the counts, so that whatever the next holder *)
(* will read, in memory or on disk, is known to agree with them.           *)
(***************************************************************************)

(* The source has not yet put its slot on the wheel. *)
Sourced == {"new", "rcpt", "header", "create", "copied", "meta", "stored", "rmheader",
            "rmbody", "rmmeta", "push"}

(* A goroutine that has a message to work on or a slot to push for it. *)
Claiming == {"wait", "open", "deliver", "data", "commit", "settle", "update",
             "rmheader", "rmbody", "rmmeta", "add", "push"}
Claims(w, m) == wpc[w] \in Claiming /\ wmsg[w] = m

(* No slot and no goroutine has the message. *)
Unclaimed(m) ==
    /\ \A s \in slots : s.msg # m
    /\ \A w \in Workers : ~Claims(w, m)

(* One claim at most. *)
OneClaim ==
    /\ \A s, t \in slots : s.msg = t.msg => s = t
    /\ \A s \in slots, w \in Workers : ~Claims(w, s.msg)
    /\ \A v, w \in Workers : v # w /\ wpc[v] \in Claiming => ~Claims(w, wmsg[v])
    /\ \A m \in toLoad : Unclaimed(m)
    /\ \A m \in Msgs : sess[m] \in Sourced => Unclaimed(m)

(* A stopped process has no goroutines, and Close waits for them. *)
Stops ==
    /\ proc = "down" => slots = {} /\ \A w \in Workers : wpc[w] = "idle"
    /\ wheel = "returned" => \A w \in Workers : ~InWaitGroup(w)

(* Where the body is complete. *)
BodyOnDisk(m) ==
    /\ disk[m].meta # NoMeta => disk[m].body # "partial"
    /\ sess[m] \in {"copied", "meta", "stored", "push"} => disk[m].body = "full"
BodyOfSlot(s) == s.meta # NoMeta => disk[s.msg].body = "full"
BodyOfWork(w) ==
    wpc[w] \in InHand \/ (wpc[w] = "wait" /\ wmeta[w] # NoMeta) => disk[wmsg[w]].body = "full"

(* The tries recorded in metadata are those made, up to the faults so far   *)
(* and slack, and nobody it names got the message, up to the same.          *)
Tallies(m, meta, slack) ==
    \A r \in meta.to :
        /\ meta.tries[r] < MaxTries
        /\ attempts[m][r] <= meta.tries[r] + faults + slack
        /\ delivered[m][r] <= faults + slack

(* An attempt on the message was counted and is not recorded on disk. *)
Trying == {"data", "commit", "settle", "update", "rmheader", "rmbody", "rmmeta"}
Busy(m) == \E w \in Workers : wpc[w] \in Trying /\ wmsg[w] = m

TallyOnDisk(m) ==
    /\ Tallies(m, disk[m].meta, IF Busy(m) THEN 1 ELSE 0)
    /\ sess[m] \in Sourced => \A r \in Rcpts : attempts[m][r] = 0 /\ delivered[m][r] = 0
TallyOfSlot(s) == Tallies(s.msg, s.meta, 0)
TallyOfWork(w) ==
    /\ wpc[w] \in {"wait", "deliver", "update"} => Tallies(wmsg[w], wmeta[w], 0)
    /\ wpc[w] \in {"data", "commit", "settle"} =>
        \A r \in wmeta[w].to :
            /\ wmeta[w].tries[r] < MaxTries
            /\ attempts[wmsg[w]][r] <= wmeta[w].tries[r] + 1 + faults
            /\ wpc[w] \in {"data", "commit"} \/ werr[w][r] # "none"
                 => delivered[wmsg[w]][r] <= faults
    /\ wpc[w] \in {"data", "commit"} => wacc[w] \subseteq wmeta[w].to

MsgOK(m) == BodyOnDisk(m) /\ TallyOnDisk(m)
ItemOK(s) == BodyOfSlot(s) /\ TallyOfSlot(s)
TryOK(w) == BodyOfWork(w) /\ TallyOfWork(w)

Agree ==
    /\ \A m \in Msgs : MsgOK(m)
    /\ \A s \in slots : ItemOK(s)
    /\ \A w \in Workers : TryOK(w)
    /\ RetriesBounded

AInv == OneClaim /\ Stops /\ Agree

------------------------------------------------------------------------------
(* What steps leave alone *)

SameWork(v) ==
    /\ wpc'[v] = wpc[v] /\ wmsg'[v] = wmsg[v] /\ wmeta'[v] = wmeta[v]
    /\ werr'[v] = werr[v] /\ wacc'[v] = wacc[v]

(* The number of faults never goes down. *)
LEMMA FaultsGrow ==
  ASSUME TypeOK, [Next]_vars
  PROVE  \E d \in Nat : faults' = faults + d
<1>1. faults \in Nat
  BY QueueAssumption DEF TypeOK
<1>2. faults' = faults \/ faults' = faults + 1
  <2>1. CASE \E m \in Msgs : SessNext(m)
    BY <2>1
    DEF SessNext, Start, AddRcpt, StoreHeader, StoreBodyCreate, StoreBodyCopy, StoreMeta, StoreSync,
        Abort, AbortRemove, RemoveFile, Commit, CommitPush, CommitNotify, Fault, NoFault
  <2>2. CASE \E w \in Workers : WorkNext(w)
    BY <2>2
    DEF WorkNext, Acquire, OpenMessage, OpenFails, DeliverStart, DeliverBody, DeliverCommit,
        DeliverPanic, Settle, Update, Remove, RemoveFile, Retry, RetryPush, RetryNotify, Release,
        DiscardBroken, Fault, NoFault
  <2>3. CASE (\E s \in slots, w \in Workers : Dispatch(s, w)) \/ CloseNext \/ UNCHANGED vars
    BY <2>3 DEF Dispatch, CloseNext, CloseStore, CloseStop, CloseChan, CloseWait, CloseStep, vars
  <2>4. CASE BootNext
    BY <2>4 DEF BootNext, Kill, Exit, StartUp, LoadDone, LoadSkip, LoadSlot, Vanish, Fault, NoFault
  <2> QED
    BY <2>1, <2>2, <2>3, <2>4 DEF Next
<1>3. CASE faults' = faults
  <2>1. faults' = faults + 0
    BY <1>1, <1>3
  <2> QED
    BY <2>1
<1> QED
  BY <1>2, <1>3

(* A step of one source leaves the others alone; its slot is pushed by      *)
(* CommitPush, and it never comes back to the states before that.           *)
LEMMA SessMoves ==
  ASSUME TypeOK, NEW m \in Msgs, SessNext(m)
  PROVE  /\ proc = "up"
         /\ UNCHANGED <<wheel, workVars, procVars, histVars>>
         /\ \A n \in Msgs \ {m} : sess'[n] = sess[n] /\ qdTo'[n] = qdTo[n] /\ disk'[n] = disk[n]
         /\ sess'[m] \in Sourced => sess[m] \in Sourced
         /\ CommitPush(m) \/ slots' = slots
<1> USE DEF TypeOK, SessStep, Sourced, workVars, wheelVars, procVars, histVars
<1>1. CASE Start(m)
  BY <1>1 DEF Start
<1>2. CASE \E r \in Rcpts : AddRcpt(m, r)
  BY <1>2 DEF AddRcpt
<1>3. CASE StoreHeader(m)
  BY <1>3 DEF StoreHeader
<1>4. CASE StoreBodyCreate(m)
  BY <1>4 DEF StoreBodyCreate
<1>5. CASE StoreBodyCopy(m)
  BY <1>5 DEF StoreBodyCopy
<1>6. CASE StoreMeta(m)
  BY <1>6 DEF StoreMeta
<1>7. CASE StoreSync(m)
  BY <1>7 DEF StoreSync
<1>8. CASE Abort(m)
  BY <1>8 DEF Abort
<1>9. CASE AbortRemove(m)
  BY <1>9 DEF AbortRemove, RemoveFile
<1>10. CASE Commit(m)
  BY <1>10 DEF Commit
<1>11. CASE CommitPush(m)
  BY <1>11 DEF CommitPush
<1>12. CASE CommitNotify(m)
  BY <1>12 DEF CommitNotify
<1> QED
  BY <1>1, <1>2, <1>3, <1>4, <1>5, <1>6, <1>7, <1>8, <1>9, <1>10, <1>11, <1>12 DEF SessNext

(* A step of one goroutine leaves the others alone, never takes a message,  *)
(* and pushes a slot only in RetryPush.                                     *)
LEMMA WorkMoves ==
  ASSUME TypeOK, NEW w \in Workers, WorkNext(w)
  PROVE  /\ UNCHANGED <<wheel, sessVars, procVars>>
         /\ \A v \in Workers \ {w} : SameWork(v)
         /\ wpc[w] # "idle"
         /\ wpc'[w] \in Claiming => wpc[w] \in Claiming /\ wmsg'[w] = wmsg[w]
         /\ wpc'[w] \notin {"idle", "discard"} => wpc[w] \notin {"idle", "discard"}
         /\ RetryPush(w) \/ slots' = slots
         /\ \A n \in Msgs \ {wmsg[w]} : /\ disk'[n] = disk[n] /\ attempts'[n] = attempts[n]
                                       /\ delivered'[n] = delivered[n]
<1> USE DEF TypeOK, SameWork, WorkStep, Claiming, sessVars, wheelVars, procVars, histVars
<1>1. CASE Acquire(w)
  BY <1>1 DEF Acquire
<1>2. CASE OpenMessage(w)
  BY <1>2 DEF OpenMessage
<1>3. CASE OpenFails(w)
  BY <1>3 DEF OpenFails
<1>4. CASE DeliverStart(w)
  BY <1>4 DEF DeliverStart
<1>5. CASE DeliverBody(w)
  BY <1>5 DEF DeliverBody
<1>6. CASE DeliverCommit(w)
  BY <1>6 DEF DeliverCommit, Took
<1>7. CASE DeliverPanic(w)
  BY <1>7 DEF DeliverPanic
<1>8. CASE Settle(w)
  BY <1>8 DEF Settle
<1>9. CASE Update(w)
  BY <1>9 DEF Update
<1>10. CASE Remove(w)
  BY <1>10 DEF Remove, RemoveFile
<1>11. CASE Retry(w)
  BY <1>11 DEF Retry
<1>12. CASE RetryPush(w)
  BY <1>12 DEF RetryPush
<1>13. CASE RetryNotify(w)
  BY <1>13 DEF RetryNotify
<1>14. CASE Release(w)
  BY <1>14 DEF Release, Forget
<1>15. CASE DiscardBroken(w)
  BY <1>15 DEF DiscardBroken, Forget
<1> QED
  BY <1>1, <1>2, <1>3, <1>4, <1>5, <1>6, <1>7, <1>8, <1>9, <1>10, <1>11, <1>12, <1>13, <1>14, <1>15
  DEF WorkNext
------------------------------------------------------------------------------
(* One claim at most *)

(* Nothing new claims a message. *)
LEMMA ClaimsShrink ==
  ASSUME OneClaim, slots' \subseteq slots, toLoad' \subseteq toLoad,
         \A w \in Workers : wpc'[w] \in Claiming => wpc[w] \in Claiming /\ wmsg'[w] = wmsg[w],
         \A m \in Msgs : sess'[m] \in Sourced => sess[m] \in Sourced
  PROVE  OneClaim'
<1>1. ASSUME NEW w \in Workers, NEW m, Claims(w, m)' PROVE Claims(w, m)
  BY <1>1 DEF Claims
<1>2. ASSUME NEW m, Unclaimed(m) PROVE Unclaimed(m)'
  BY <1>1, <1>2 DEF Unclaimed, Claims
<1> QED
  BY <1>1, <1>2 DEF OneClaim, Claims

(* A message nobody claims gets a slot, by its source, by readDiskQueue or  *)
(* by the goroutine that gives up its own claim.                            *)
LEMMA ClaimPushed ==
  ASSUME OneClaim, NEW s, slots' = slots \cup {s},
         \A t \in slots : t.msg # s.msg,
         \A w \in Workers : ~Claims(w, s.msg)',
         s.msg \notin toLoad', sess'[s.msg] \notin Sourced,
         toLoad' \subseteq toLoad,
         \A w \in Workers : wpc'[w] \in Claiming => wpc[w] \in Claiming /\ wmsg'[w] = wmsg[w],
         \A m \in Msgs : sess'[m] \in Sourced => sess[m] \in Sourced
  PROVE  OneClaim'
<1>1. ASSUME NEW w \in Workers, NEW m, Claims(w, m)' PROVE Claims(w, m)
  BY <1>1 DEF Claims
<1>2. ASSUME NEW m, m # s.msg, Unclaimed(m) PROVE Unclaimed(m)'
  BY <1>1, <1>2 DEF Unclaimed, Claims
<1>3. /\ \A t, u \in slots' : t.msg = u.msg => t = u
      /\ \A t \in slots', w \in Workers : ~Claims(w, t.msg)'
  BY <1>1 DEF OneClaim, Claims
<1>4. \A v, w \in Workers : v # w /\ wpc'[v] \in Claiming => ~Claims(w, wmsg[v])'
  BY <1>1 DEF OneClaim, Claims
<1>5. (\A m \in toLoad : Unclaimed(m))' /\ (\A m \in Msgs : sess[m] \in Sourced => Unclaimed(m))'
  BY <1>2 DEF OneClaim
<1> QED
  BY <1>3, <1>4, <1>5 DEF OneClaim, Claims

(* dispatch hands the claim of a slot to a goroutine. *)
LEMMA ClaimTaken ==
  ASSUME TypeOK, OneClaim, NEW s \in slots, NEW w \in Workers, Dispatch(s, w)
  PROVE  OneClaim'
<1>1. /\ slots' = slots \ {s} /\ toLoad' = toLoad /\ sess' = sess
      /\ wpc[w] = "idle" /\ wpc'[w] = "wait" /\ wmsg'[w] = s.msg
      /\ \A v \in Workers \ {w} : wpc'[v] = wpc[v] /\ wmsg'[v] = wmsg[v]
  BY DEF Dispatch, WorkStep, TypeOK, procVars, sessVars
<1>2. ASSUME NEW v \in Workers, NEW m, Claims(v, m)' PROVE Claims(v, m) \/ (v = w /\ m = s.msg)
  BY <1>1, <1>2 DEF Claims
<1>3. ASSUME NEW m, Unclaimed(m) PROVE Unclaimed(m)'
  BY <1>1, <1>2, <1>3 DEF Unclaimed, Claims
<1>4. /\ \A t, u \in slots' : t.msg = u.msg => t = u
      /\ \A t \in slots', v \in Workers : ~Claims(v, t.msg)'
  BY <1>1, <1>2 DEF OneClaim, Claims
<1>5. \A v, u \in Workers : v # u /\ wpc'[v] \in Claiming => ~Claims(u, wmsg[v])'
  BY <1>1 DEF OneClaim, Claims, Claiming
<1>6. (\A m \in toLoad : Unclaimed(m))' /\ (\A m \in Msgs : sess[m] \in Sourced => Unclaimed(m))'
  BY <1>1, <1>3 DEF OneClaim
<1> QED
  BY <1>4, <1>5, <1>6 DEF OneClaim, Claims

(* Every step hands a claim on or drops it. *)
LEMMA OneClaimStep ==
  ASSUME IInv, OneClaim, Stops, [Next]_vars
  PROVE  OneClaim'
<1>0. TypeOK /\ TypeOK'
  BY TypeStep DEF IInv
<1>1. ASSUME NEW m \in Msgs, SessNext(m) PROVE OneClaim'
  <2>1. /\ UNCHANGED <<wpc, wmsg, toLoad>>
        /\ \A n \in Msgs : sess'[n] \in Sourced => sess[n] \in Sourced
    BY <1>0, <1>1, SessMoves DEF workVars, procVars
  <2>2. CASE slots' = slots
    BY <2>1, <2>2, ClaimsShrink
  <2>3. CASE CommitPush(m)
    <3> DEFINE s == [msg |-> m, meta |-> NewMeta(qdTo[m]), by |-> "commit"]
    <3>1. slots' = slots \cup {s} /\ s.msg = m /\ sess[m] = "push" /\ sess'[m] = "notify" /\ proc = "up"
      BY <2>3, <1>0 DEF CommitPush, SessStep, TypeOK
    <3>2. Unclaimed(m) /\ sess'[m] \notin Sourced
      BY <3>1 DEF OneClaim, Sourced
    <3>3. m \notin toLoad'
      BY <2>1, <3>1 DEF IInv, BootOK
    <3> HIDE DEF s
    <3> QED
      BY <2>1, <3>1, <3>2, <3>3, ClaimPushed DEF Unclaimed, Claims
  <2> QED
    BY <1>0, <1>1, <2>2, <2>3, SessMoves
<1>2. ASSUME NEW w \in Workers, WorkNext(w) PROVE OneClaim'
  <2>1. /\ UNCHANGED <<sess, toLoad>>
        /\ \A v \in Workers : wpc'[v] \in Claiming => wpc[v] \in Claiming /\ wmsg'[v] = wmsg[v]
    BY <1>0, <1>2, WorkMoves DEF SameWork, sessVars, procVars
  <2>2. CASE slots' = slots
    BY <2>1, <2>2, ClaimsShrink
  <2>3. CASE RetryPush(w)
    <3> DEFINE s == [msg |-> wmsg[w], meta |-> NoMeta, by |-> w]
    <3>1. /\ slots' = slots \cup {s} /\ s.msg = wmsg[w] /\ wpc[w] = "push" /\ wpc'[w] = "notify"
          /\ wmsg' = wmsg /\ \A v \in Workers \ {w} : wpc'[v] = wpc[v]
      BY <2>3, <1>0 DEF RetryPush, WorkStep, TypeOK
    <3>2. Claims(w, wmsg[w]) /\ wmsg[w] \in Msgs
      BY <1>0, <3>1 DEF Claims, Claiming, TypeOK
    <3>3. /\ \A t \in slots : t.msg # wmsg[w]
          /\ wmsg[w] \notin toLoad' /\ sess'[wmsg[w]] \notin Sourced
      BY <2>1, <3>2 DEF OneClaim, Unclaimed
    <3>4. \A v \in Workers : ~Claims(v, wmsg[w])'
      BY <3>1 DEF OneClaim, Claims, Claiming
    <3> HIDE DEF s
    <3> QED
      BY <2>1, <3>1, <3>3, <3>4, ClaimPushed DEF Claims
  <2> QED
    BY <1>0, <1>2, <2>2, <2>3, WorkMoves
<1>3. ASSUME NEW s \in slots, NEW w \in Workers, Dispatch(s, w) PROVE OneClaim'
  BY <1>0, <1>3, ClaimTaken
<1>4. CASE CloseNext \/ LoadDone \/ UNCHANGED vars
  <2>1. UNCHANGED <<slots, toLoad, wpc, wmsg, sess>>
    BY <1>4 DEF CloseNext, CloseStore, CloseStop, CloseChan, CloseWait, CloseStep, LoadDone,
                vars, workVars, sessVars, wheelVars, procVars
  <2> QED
    BY <2>1, ClaimsShrink
<1>5. CASE Kill \/ Exit
  <2>1. /\ slots' = {} /\ toLoad' = {} /\ \A w \in Workers : wpc'[w] = "idle"
        /\ \A m \in Msgs : sess'[m] = sess[m] \/ sess'[m] = "gone"
    BY <1>5 DEF Kill, Exit, Vanish
  <2> QED
    BY <2>1, ClaimsShrink DEF Claiming, Sourced
<1>6. CASE StartUp
  <2>1. /\ UNCHANGED <<slots, wpc, wmsg, sess>>
        /\ slots = {} /\ \A w \in Workers : wpc[w] = "idle"
    BY <1>6 DEF StartUp, Stops, workVars, sessVars, wheelVars
  <2> QED
    BY <2>1 DEF OneClaim, Unclaimed, Claims, Claiming
<1>7. ASSUME NEW m \in Msgs, LoadSkip(m) \/ LoadSlot(m) PROVE OneClaim'
  <2>1. /\ UNCHANGED <<wpc, wmsg, sess>> /\ m \in toLoad /\ toLoad' = toLoad \ {m} /\ proc = "load"
        /\ slots' = slots \/ slots' = slots \cup {[msg |-> m, meta |-> NoMeta, by |-> "load"]}
    BY <1>7 DEF LoadSkip, LoadSlot, workVars, sessVars, wheelVars
  <2>2. Unclaimed(m) /\ sess[m] \notin Sourced
    BY <2>1 DEF OneClaim, IInv, BootOK, Quiet, Sourced
  <2>3. CASE slots' = slots
    BY <2>1, <2>3, ClaimsShrink
  <2>4. CASE slots' # slots
    <3> DEFINE s == [msg |-> m, meta |-> NoMeta, by |-> "load"]
    <3>1. s.msg = m /\ slots' = slots \cup {s}
      BY <2>1, <2>4
    <3> HIDE DEF s
    <3> QED
      BY <2>1, <2>2, <3>1, ClaimPushed DEF Unclaimed, Claims
  <2> QED
    BY <2>3, <2>4
<1> QED
  BY <1>1, <1>2, <1>3, <1>4, <1>5, <1>6, <1>7 DEF Next, BootNext

(* Close returns only when every goroutine is done, and none is started     *)
(* afterwards.                                                              *)
LEMMA StopsStep ==
  ASSUME IInv, Stops, [Next]_vars
  PROVE  Stops'
<1>0. TypeOK /\ TypeOK'
  BY TypeStep DEF IInv
<1>1. ASSUME NEW m \in Msgs, SessNext(m) PROVE Stops'
  BY <1>0, <1>1, SessMoves DEF Stops, InWaitGroup, workVars, procVars
<1>2. ASSUME NEW w \in Workers, WorkNext(w) PROVE Stops'
  BY <1>0, <1>2, WorkMoves DEF Stops, InWaitGroup, SameWork, procVars
<1>3. ASSUME NEW s \in slots, NEW w \in Workers, Dispatch(s, w) PROVE Stops'
  BY <1>3 DEF Dispatch, TickAlive, Stops, procVars
<1>4. CASE CloseNext
  BY <1>4 DEF CloseNext, CloseStore, CloseStop, CloseChan, CloseWait, CloseStep, Stops, InWaitGroup,
              workVars
<1>5. CASE Kill \/ Exit
  BY <1>5 DEF Kill, Exit, Vanish, Stops
<1>6. CASE StartUp \/ LoadDone \/ (\E m \in Msgs : LoadSkip(m) \/ LoadSlot(m)) \/ UNCHANGED vars
  BY <1>6 DEF StartUp, LoadDone, LoadSkip, LoadSlot, Stops, InWaitGroup, vars, workVars, wheelVars, procVars
<1> QED
  BY <1>1, <1>2, <1>3, <1>4, <1>5, <1>6 DEF Next, BootNext
------------------------------------------------------------------------------
(* What is on disk, on the wheel and in hand agrees with what was done *)

Kept(m) ==
    /\ disk'[m].body = disk[m].body
    /\ attempts'[m] = attempts[m] /\ delivered'[m] = delivered[m]

(* More faults only make the bounds weaker. *)
LEMMA TalliesGrow ==
  ASSUME TypeOK, NEW m \in Msgs, NEW meta \in Meta, NEW a \in Nat, NEW b \in Nat, NEW d \in Nat,
         attempts'[m] = attempts[m], delivered'[m] = delivered[m], faults' = faults + d,
         a <= d + b, Tallies(m, meta, a)
  PROVE  \A r \in meta.to :
           /\ meta.tries[r] < MaxTries
           /\ attempts'[m][r] <= meta.tries[r] + faults' + b
           /\ delivered'[m][r] <= faults' + b
<1> SUFFICES ASSUME NEW r \in meta.to
             PROVE  /\ meta.tries[r] < MaxTries
                    /\ attempts'[m][r] <= meta.tries[r] + faults' + b
                    /\ delivered'[m][r] <= faults' + b
  OBVIOUS
<1>1. /\ r \in Rcpts /\ meta.tries[r] \in 0 .. MaxTries /\ faults \in Nat
      /\ attempts[m][r] \in Nat /\ delivered[m][r] \in Nat
  BY QueueAssumption DEF TypeOK, Meta
<1>2. /\ meta.tries[r] < MaxTries /\ attempts[m][r] <= meta.tries[r] + faults + a
      /\ delivered[m][r] <= faults + a
  BY DEF Tallies
<1> QED
  BY <1>1, <1>2, QueueAssumption

(* A slot whose message is left alone. *)
LEMMA SlotKept ==
  ASSUME TypeOK, Agree, NEW s \in slots, Kept(s.msg), NEW d \in Nat, faults' = faults + d
  PROVE  ItemOK(s)'
<1>1. s.msg \in Msgs /\ s.meta \in Meta
  BY QueueAssumption DEF TypeOK, Slot
<1>2. Tallies(s.msg, s.meta, 0) /\ BodyOfSlot(s)
  BY DEF Agree, ItemOK, TallyOfSlot
<1>3. \A r \in s.meta.to :
           /\ s.meta.tries[r] < MaxTries
           /\ attempts'[s.msg][r] <= s.meta.tries[r] + faults' + 0
           /\ delivered'[s.msg][r] <= faults' + 0
  BY <1>1, <1>2, TalliesGrow DEF Kept
<1> QED
  BY <1>2, <1>3 DEF ItemOK, TallyOfSlot, BodyOfSlot, Tallies, Kept

(* A goroutine that does nothing, with its message left alone or without    *)
(* one.                                                                     *)
LEMMA WorkKept ==
  ASSUME TypeOK, Agree, NEW w \in Workers, SameWork(w), NEW d \in Nat, faults' = faults + d,
         wpc[w] \in Claiming => Kept(wmsg[w])
  PROVE  TryOK(w)'
<1>1. /\ wmsg[w] \in Msgs /\ wmeta[w] \in Meta /\ faults \in Nat
      /\ TryOK(w)
  BY QueueAssumption DEF TypeOK, Agree
<1>2. CASE wpc[w] \notin Claiming
  BY <1>2 DEF SameWork, TryOK, BodyOfWork, TallyOfWork, Claiming, InHand
<1>3. CASE wpc[w] \in Claiming
  <2>1. Kept(wmsg[w])
    BY <1>3
  <2>2. BodyOfWork(w)'
    BY <1>1, <2>1 DEF SameWork, TryOK, BodyOfWork, Kept
  <2>3. (wpc[w] \in {"wait", "deliver", "update"} => Tallies(wmsg[w], wmeta[w], 0))'
    <3> SUFFICES ASSUME wpc[w] \in {"wait", "deliver", "update"}
                 PROVE  Tallies(wmsg[w], wmeta[w], 0)'
      BY DEF SameWork
    <3>1. \A r \in wmeta[w].to :
           /\ wmeta[w].tries[r] < MaxTries
           /\ attempts'[wmsg[w]][r] <= wmeta[w].tries[r] + faults' + 0
           /\ delivered'[wmsg[w]][r] <= faults' + 0
      BY <1>1, <2>1, TalliesGrow DEF TryOK, TallyOfWork, Kept
    <3> QED
      BY <3>1 DEF Tallies, SameWork
  <2>4. ASSUME wpc[w] \in {"data", "commit", "settle"}, NEW r \in wmeta[w].to
        PROVE  /\ wmeta[w].tries[r] < MaxTries
               /\ attempts'[wmsg[w]][r] <= wmeta[w].tries[r] + 1 + faults'
               /\ wpc[w] \in {"data", "commit"} \/ werr[w][r] # "none"
                    => delivered'[wmsg[w]][r] <= faults'
    <3>1. /\ wmeta[w].tries[r] < MaxTries
          /\ attempts[wmsg[w]][r] <= wmeta[w].tries[r] + 1 + faults
          /\ wpc[w] \in {"data", "commit"} \/ werr[w][r] # "none"
               => delivered[wmsg[w]][r] <= faults
      BY <1>1, <2>4 DEF TryOK, TallyOfWork
    <3>2. r \in Rcpts /\ wmeta[w].tries[r] \in 0 .. MaxTries
      BY <1>1 DEF Meta
    <3>3. attempts[wmsg[w]][r] \in Nat /\ delivered[wmsg[w]][r] \in Nat
      BY <1>1, <3>2 DEF TypeOK
    <3> QED
      BY <1>1, <2>1, <3>1, <3>2, <3>3, QueueAssumption DEF Kept
  <2>5. wpc[w] \in {"data", "commit"} => wacc[w] \subseteq wmeta[w].to
    BY <1>1 DEF TryOK, TallyOfWork
  <2> QED
    BY <2>2, <2>3, <2>4, <2>5 DEF TryOK, TallyOfWork, SameWork
<1> QED
  BY <1>2, <1>3

(* A message that is left alone, as long as an attempt on it that ends      *)
(* unrecorded is paid for by a fault.                                       *)
LEMMA TallyKept ==
  ASSUME TypeOK, Agree, NEW m \in Msgs, attempts'[m] = attempts[m], delivered'[m] = delivered[m],
         disk'[m].meta = disk[m].meta, sess'[m] \in Sourced => sess'[m] = sess[m],
         NEW d \in Nat, faults' = faults + d, Busy(m) => Busy(m)' \/ d # 0
  PROVE  TallyOnDisk(m)'
<1>1. disk[m].meta \in Meta /\ MsgOK(m)
  BY DEF TypeOK, Files, Agree
<1>2. PICK a \in Nat, b \in Nat :
         a = (IF Busy(m) THEN 1 ELSE 0) /\ b = (IF Busy(m)' THEN 1 ELSE 0)
  OBVIOUS
<1>3. a <= d + b /\ Tallies(m, disk[m].meta, a)
  <2>1. Tallies(m, disk[m].meta, a)
    BY <1>1, <1>2 DEF MsgOK, TallyOnDisk
  <2> QED
    BY <1>2, <2>1
<1>4. \A r \in disk[m].meta.to :
           /\ disk[m].meta.tries[r] < MaxTries
           /\ attempts'[m][r] <= disk[m].meta.tries[r] + faults' + b
           /\ delivered'[m][r] <= faults' + b
  BY <1>1, <1>3, TalliesGrow
<1>5. Tallies(m, disk[m].meta, IF Busy(m) THEN 1 ELSE 0)'
  BY <1>2, <1>4 DEF Tallies
<1>6. (sess[m] \in Sourced => \A r \in Rcpts : attempts[m][r] = 0 /\ delivered[m][r] = 0)'
  BY <1>1 DEF MsgOK, TallyOnDisk
<1> QED
  BY <1>5, <1>6 DEF TallyOnDisk

(* A message whose files no step writes keeps its part of the tallies, unless a fault is spent. *)
LEMMA MsgKept ==
  ASSUME TypeOK, Agree, NEW m \in Msgs, Kept(m), disk'[m].meta = disk[m].meta,
         sess'[m] \in Sourced => sess'[m] = sess[m],
         NEW d \in Nat, faults' = faults + d, Busy(m) => Busy(m)' \/ d # 0
  PROVE  MsgOK(m)'
<1>1. TallyOnDisk(m)'
  BY TallyKept DEF Kept
<1>2. BodyOnDisk(m)'
  BY DEF Agree, MsgOK, BodyOnDisk, Kept, Sourced
<1> QED
  BY <1>1, <1>2 DEF MsgOK
(* The bound on tries and deliveries of a message that is left alone. *)
LEMMA BoundKept ==
  ASSUME TypeOK, Agree, NEW m \in Msgs, attempts'[m] = attempts[m], delivered'[m] = delivered[m],
         NEW d \in Nat, faults' = faults + d, NEW r \in Rcpts
  PROVE  attempts'[m][r] <= MaxTries + faults' /\ delivered'[m][r] <= 1 + faults'
<1>1. attempts[m][r] \in Nat /\ delivered[m][r] \in Nat /\ faults \in Nat /\ MaxTries \in Nat
  BY QueueAssumption DEF TypeOK
<1>2. attempts[m][r] <= MaxTries + faults /\ delivered[m][r] <= 1 + faults
  BY DEF Agree, RetriesBounded
<1> QED
  BY <1>1, <1>2

(* A message that was never tried: any fresh metadata agrees with that. *)
LEMMA FreshTallies ==
  ASSUME TypeOK, Agree, NEW m \in Msgs, sess[m] \in Sourced, attempts'[m] = attempts[m],
         delivered'[m] = delivered[m], NEW d \in Nat, faults' = faults + d, NEW b \in Nat,
         NEW meta \in {disk[m].meta, NoMeta, NewMeta(qdTo[m])}
  PROVE  \A r \in meta.to :
           /\ meta.tries[r] < MaxTries
           /\ attempts'[m][r] <= meta.tries[r] + faults' + b
           /\ delivered'[m][r] <= faults' + b
<1> SUFFICES ASSUME NEW r \in meta.to
             PROVE  /\ meta.tries[r] < MaxTries
                    /\ attempts'[m][r] <= meta.tries[r] + faults' + b
                    /\ delivered'[m][r] <= faults' + b
  OBVIOUS
<1>1. /\ meta \in Meta /\ r \in Rcpts
  BY MetaTypes DEF TypeOK, Files, Meta
<1>2. meta.tries[r] \in Nat /\ faults \in Nat
  BY <1>1, QueueAssumption DEF Meta, TypeOK
<1>3. attempts[m][r] = 0 /\ delivered[m][r] = 0
  BY <1>1 DEF Agree, MsgOK, TallyOnDisk
<1>4. meta.tries[r] < MaxTries
  <2>1. CASE meta = disk[m].meta
    BY <2>1 DEF Agree, MsgOK, TallyOnDisk, Tallies
  <2>2. CASE meta # disk[m].meta
    <3>1. meta.tries[r] = 0
      BY <1>1, <2>2 DEF NewMeta, NoMeta
    <3> QED
      BY <3>1, QueueAssumption
  <2> QED
    BY <2>1, <2>2
<1> QED
  BY <1>2, <1>3, <1>4

(* A message its SMTP session still holds: its files are the fresh ones or none. *)
LEMMA SourcedMsg ==
  ASSUME TypeOK, Agree, NEW m \in Msgs, sess[m] \in Sourced, attempts'[m] = attempts[m],
         delivered'[m] = delivered[m], NEW d \in Nat, faults' = faults + d,
         disk'[m].meta \in {disk[m].meta, NoMeta, NewMeta(qdTo[m])}, BodyOnDisk(m)'
  PROVE  MsgOK(m)'
<1>1. PICK b \in Nat : b = IF Busy(m)' THEN 1 ELSE 0
  OBVIOUS
<1>2. \A r \in disk'[m].meta.to :
           /\ disk'[m].meta.tries[r] < MaxTries
           /\ attempts'[m][r] <= disk'[m].meta.tries[r] + faults' + b
           /\ delivered'[m][r] <= faults' + b
  BY FreshTallies
<1>3. Tallies(m, disk[m].meta, IF Busy(m) THEN 1 ELSE 0)'
  BY <1>1, <1>2 DEF Tallies
<1>4. \A r \in Rcpts : attempts'[m][r] = 0 /\ delivered'[m][r] = 0
  BY DEF Agree, MsgOK, TallyOnDisk
<1> QED
  BY <1>3, <1>4 DEF MsgOK, TallyOnDisk

(* The files of a message its source is storing, committing or removing. *)
LEMMA SourceFiles ==
  ASSUME IInv, Agree, NEW m \in Msgs, SessNext(m)
  PROVE  /\ sess[m] \notin Sourced => disk'[m] = disk[m] /\ sess'[m] \notin Sourced
         /\ sess[m] \in Sourced => /\ disk'[m].meta \in {disk[m].meta, NoMeta, NewMeta(qdTo[m])}
                                   /\ BodyOnDisk(m)'
<1>0. TypeOK /\ BodyOnDisk(m) /\ SessOK(m) /\ disk[m] \in Files /\ qdTo[m] \in SUBSET Rcpts
  BY DEF IInv, Agree, MsgOK, TypeOK
<1>1. /\ WithoutHeader(disk[m]).meta = disk[m].meta /\ WithoutHeader(disk[m]).body = disk[m].body
      /\ WithoutMeta(disk[m]).meta = NoMeta /\ WithoutMeta(disk[m]).body = disk[m].body
      /\ WithoutBody(disk[m]).meta = disk[m].meta /\ WithoutBody(disk[m]).body = "none"
      /\ WithoutHeader(WithoutBody(disk[m])).meta = disk[m].meta
      /\ WithoutHeader(WithoutBody(disk[m])).body = "none"
  BY <1>0 DEF Files, WithoutHeader, WithoutBody, WithoutMeta
<1>2. /\ WithHeader(disk[m]).meta = disk[m].meta /\ WithHeader(disk[m]).body = disk[m].body
      /\ WithBody(disk[m], "partial").meta = disk[m].meta
      /\ WithBody(disk[m], "partial").body = "partial"
      /\ WithBody(disk[m], "full").meta = disk[m].meta /\ WithBody(disk[m], "full").body = "full"
      /\ WithMeta(disk[m], NewMeta(qdTo[m])).meta = NewMeta(qdTo[m])
      /\ WithMeta(disk[m], NewMeta(qdTo[m])).body = disk[m].body
  BY <1>0 DEF Files, WithHeader, WithBody, WithMeta
<1> USE DEF SessStep, Sourced, BodyOnDisk
<1>3. CASE Start(m) \/ Abort(m) \/ Commit(m) \/ CommitPush(m) \/ CommitNotify(m) \/ StoreSync(m)
  BY <1>0, <1>3 DEF TypeOK, Start, Abort, Commit, CommitPush, CommitNotify, StoreSync
<1>4. CASE \E r \in Rcpts : AddRcpt(m, r)
  BY <1>0, <1>4 DEF TypeOK, AddRcpt
<1>5. CASE StoreHeader(m)
  BY <1>0, <1>2, <1>5 DEF TypeOK, StoreHeader
<1>6. CASE StoreBodyCreate(m)
  BY <1>0, <1>2, <1>6 DEF TypeOK, StoreBodyCreate, SessOK, Storing
<1>7. CASE StoreBodyCopy(m)
  BY <1>0, <1>1, <1>2, <1>7 DEF TypeOK, StoreBodyCopy
<1>8. CASE StoreMeta(m)
  BY <1>0, <1>1, <1>2, <1>8 DEF TypeOK, StoreMeta
<1>9. CASE AbortRemove(m)
  BY <1>0, <1>1, <1>9 DEF TypeOK, AbortRemove, RemoveFile
<1> QED
  BY <1>3, <1>4, <1>5, <1>6, <1>7, <1>8, <1>9 DEF SessNext

(* The steps of a source. *)
LEMMA AgreeSess ==
  ASSUME IInv, OneClaim, Agree, NEW m \in Msgs, SessNext(m), NEW d \in Nat, faults' = faults + d
  PROVE  Agree'
<1>0. TypeOK
  BY DEF IInv
<1>1. /\ proc = "up"
      /\ UNCHANGED <<wheel, workVars, procVars, histVars>>
      /\ \A n \in Msgs \ {m} : sess'[n] = sess[n] /\ qdTo'[n] = qdTo[n] /\ disk'[n] = disk[n]
      /\ CommitPush(m) \/ slots' = slots
  BY <1>0, SessMoves
<1>2. \A n : Busy(n)' <=> Busy(n)
  BY <1>1 DEF Busy, workVars
<1>3. attempts' = attempts /\ delivered' = delivered
  BY <1>1 DEF histVars
<1>4. sess[m] \notin Sourced => disk'[m] = disk[m] /\ sess'[m] \notin Sourced
  BY SourceFiles
<1>5. ASSUME NEW n \in Msgs PROVE MsgOK(n)'
  <2>1. CASE n = m /\ sess[m] \in Sourced
    BY <1>0, <1>3, <2>1, SourceFiles, SourcedMsg
  <2>2. CASE n # m \/ sess[m] \notin Sourced
    <3>1. disk'[n] = disk[n] /\ (sess'[n] \in Sourced => sess'[n] = sess[n])
      BY <1>1, <1>4, <2>2
    <3>2. Kept(n)
      BY <1>3, <3>1 DEF Kept
    <3> QED
      BY <1>0, <1>2, <3>1, <3>2, MsgKept
  <2> QED
    BY <2>1, <2>2
<1>6. ASSUME NEW s \in slots PROVE ItemOK(s)'
  <2>1. sess[m] \in Sourced => s.msg # m
    BY DEF OneClaim, Unclaimed
  <2>2. s.msg \in Msgs
    BY <1>0 DEF TypeOK, Slot
  <2>3. Kept(s.msg)
    BY <1>1, <1>3, <1>4, <2>1, <2>2 DEF Kept
  <2> QED
    BY <1>0, <2>3, SlotKept
<1>7. ASSUME NEW w \in Workers PROVE TryOK(w)'
  <2>1. SameWork(w) /\ wmsg[w] \in Msgs
    BY <1>0, <1>1 DEF SameWork, workVars, TypeOK
  <2>2. wpc[w] \in Claiming /\ sess[m] \in Sourced => wmsg[w] # m
    BY DEF OneClaim, Unclaimed, Claims
  <2>3. wpc[w] \in Claiming => Kept(wmsg[w])
    BY <1>1, <1>3, <1>4, <2>1, <2>2 DEF Kept
  <2> QED
    BY <1>0, <2>1, <2>3, WorkKept
<1>8. ASSUME CommitPush(m) PROVE ItemOK([msg |-> m, meta |-> NewMeta(qdTo[m]), by |-> "commit"])'
  <2>1. sess[m] = "push" /\ qdTo' = qdTo /\ disk' = disk
    BY <1>8 DEF CommitPush, SessStep
  <2>2. disk[m].body = "full"
    BY <2>1 DEF Agree, MsgOK, BodyOnDisk
  <2>3. \A r \in NewMeta(qdTo[m]).to :
           /\ NewMeta(qdTo[m]).tries[r] < MaxTries
           /\ attempts'[m][r] <= NewMeta(qdTo[m]).tries[r] + faults' + 0
           /\ delivered'[m][r] <= faults' + 0
    BY <1>0, <1>3, <2>1, FreshTallies DEF Sourced
  <2> QED
    BY <2>1, <2>2, <2>3 DEF ItemOK, BodyOfSlot, TallyOfSlot, Tallies, NewMeta
<1>9. (\A s \in slots : ItemOK(s))'
  <2>1. CASE slots' = slots
    BY <1>6, <2>1
  <2>2. CASE CommitPush(m)
    <3>1. slots' = slots \cup {[msg |-> m, meta |-> NewMeta(qdTo'[m]), by |-> "commit"]}
      BY <2>2 DEF CommitPush
    <3> QED
      BY <1>6, <1>8, <2>2, <3>1
  <2> QED
    BY <1>1, <2>1, <2>2
<1>10. RetriesBounded'
  BY <1>0, <1>3, BoundKept DEF RetriesBounded
<1> QED
  BY <1>5, <1>7, <1>9, <1>10 DEF Agree
(* A message whose metadata file is gone. *)
LEMMA NoMetaMsg ==
  ASSUME TypeOK, Agree, NEW m \in Msgs, disk'[m].meta = NoMeta, sess' = sess,
         sess[m] \notin Sourced \/ Kept(m)
  PROVE  MsgOK(m)'
<1>1. BodyOnDisk(m)'
  BY DEF Agree, MsgOK, BodyOnDisk, Kept, Sourced
<1>2. Tallies(m, disk[m].meta, IF Busy(m) THEN 1 ELSE 0)'
  BY MetaTypes DEF Tallies
<1>3. (sess[m] \in Sourced => \A r \in Rcpts : attempts[m][r] = 0 /\ delivered[m][r] = 0)'
  BY DEF Agree, MsgOK, TallyOnDisk, Kept
<1> QED
  BY <1>1, <1>2, <1>3 DEF MsgOK, TallyOnDisk

(* A goroutine without an attempt in progress. *)
LEMMA RestingOK ==
  ASSUME NEW w \in Workers,
         wpc'[w] \in {"idle", "open", "rmheader", "rmbody", "rmmeta", "add", "push", "notify",
                     "unwind", "discard", "release"}
  PROVE  TryOK(w)'
BY DEF TryOK, BodyOfWork, TallyOfWork, InHand

(* What remains to be shown of a goroutine's step: its own message, itself, *)
(* and the bounds.  A goroutine that has no claim leaves the body and the   *)
(* counts alone.                                                            *)
LEMMA AgreeWork ==
  ASSUME IInv, OneClaim, Agree, NEW w \in Workers, WorkNext(w),
         NEW d \in Nat, faults' = faults + d,
         NEW m \in Msgs, m = wmsg[w], wpc[w] \in Claiming \/ Kept(m),
         MsgOK(m)', TryOK(w)',
         \A r \in Rcpts : /\ attempts'[m][r] <= MaxTries + faults'
                          /\ delivered'[m][r] <= 1 + faults'
  PROVE  Agree'
<1>0. TypeOK
  BY DEF IInv
<1>1. /\ sess' = sess
      /\ \A v \in Workers \ {w} : SameWork(v)
      /\ RetryPush(w) \/ slots' = slots
      /\ \A n \in Msgs \ {wmsg[w]} : /\ disk'[n] = disk[n] /\ attempts'[n] = attempts[n]
                                    /\ delivered'[n] = delivered[n]
  BY <1>0, WorkMoves DEF sessVars
<1>2. ASSUME NEW n \in Msgs, n # wmsg[w] PROVE Kept(n) /\ MsgOK(n)'
  <2>1. Busy(n) => Busy(n)'
    BY <1>1, <1>2 DEF Busy, SameWork
  <2>2. Kept(n) /\ disk'[n].meta = disk[n].meta
    BY <1>1, <1>2 DEF Kept
  <2> QED
    BY <1>0, <1>1, <2>1, <2>2, MsgKept
<1>3. ASSUME NEW s \in slots PROVE ItemOK(s)'
  <2>1. s.msg \in Msgs
    BY <1>0 DEF TypeOK, Slot
  <2>2. wpc[w] \in Claiming => s.msg # wmsg[w]
    BY DEF OneClaim, Claims
  <2>3. Kept(s.msg)
    BY <1>2, <2>1, <2>2
  <2> QED
    BY <1>0, <2>3, SlotKept
<1>4. ASSUME NEW v \in Workers, v # w PROVE TryOK(v)'
  <2>1. SameWork(v) /\ wmsg[v] \in Msgs
    BY <1>0, <1>1, <1>4 DEF TypeOK
  <2>2. wpc[w] \in Claiming /\ wpc[v] \in Claiming => wmsg[v] # wmsg[w]
    BY <1>4 DEF OneClaim, Claims
  <2>3. wpc[v] \in Claiming => Kept(wmsg[v])
    BY <1>2, <2>1, <2>2
  <2> QED
    BY <1>0, <2>1, <2>3, WorkKept
<1>5. (\A s \in slots : ItemOK(s))'
  <2>1. CASE slots' = slots
    BY <1>3, <2>1
  <2>2. CASE RetryPush(w)
    <3>1. slots' = slots \cup {[msg |-> wmsg[w], meta |-> NoMeta, by |-> w]} /\ wmsg' = wmsg
      BY <2>2 DEF RetryPush
    <3>2. ItemOK([msg |-> wmsg[w], meta |-> NoMeta, by |-> w])'
      BY MetaTypes DEF ItemOK, BodyOfSlot, TallyOfSlot, Tallies
    <3> QED
      BY <1>3, <3>1, <3>2
  <2> QED
    BY <1>1, <2>1, <2>2
<1>6. RetriesBounded'
  <2> SUFFICES ASSUME NEW n \in Msgs, NEW r \in Rcpts
               PROVE  attempts'[n][r] <= MaxTries + faults' /\ delivered'[n][r] <= 1 + faults'
    BY DEF RetriesBounded
  <2>1. CASE n = wmsg[w]
    BY <2>1
  <2>2. CASE n # wmsg[w]
    BY <1>0, <1>1, <2>2, BoundKept
  <2> QED
    BY <2>1, <2>2
<1>7. ASSUME NEW n \in Msgs PROVE MsgOK(n)'
  <2>1. CASE n = m
    BY <2>1
  <2>2. CASE n # m
    BY <1>2, <2>2
  <2> QED
    BY <2>1, <2>2
<1> QED
  BY <1>4, <1>5, <1>6, <1>7 DEF Agree
(* Steps that leave body, metadata and counts of the message alone, and     *)
(* stay in the attempt if they were in it.                                  *)
LEMMA AgreeQuiet ==
  ASSUME IInv, OneClaim, Agree, NEW w \in Workers, WorkNext(w),
         NEW d \in Nat, faults' = faults + d,
         NEW m \in Msgs, m = wmsg[w], Kept(m), disk'[m].meta = disk[m].meta,
         wpc[w] \in Trying => d # 0 \/ (wpc'[w] \in Trying /\ wmsg'[w] = m),
         TryOK(w)'
  PROVE  Agree'
<1>0. TypeOK
  BY DEF IInv
<1>1. sess' = sess /\ \A v \in Workers \ {w} : SameWork(v)
  BY <1>0, WorkMoves DEF sessVars
<1>2. Busy(m) => Busy(m)' \/ d # 0
  BY <1>1 DEF Busy, SameWork
<1>3. MsgOK(m)'
  BY <1>0, <1>1, <1>2, MsgKept
<1>4. \A r \in Rcpts : attempts'[m][r] <= MaxTries + faults' /\ delivered'[m][r] <= 1 + faults'
  BY <1>0, BoundKept DEF Kept
<1> QED
  BY <1>3, <1>4, AgreeWork

(* Nobody else is in an attempt on the message of a goroutine with a claim. *)
LEMMA NotBusy ==
  ASSUME OneClaim, NEW w \in Workers, wpc[w] \in Claiming \ Trying
  PROVE  ~Busy(wmsg[w])
BY DEF OneClaim, Claims, Busy, Claiming, Trying

(* Taking the delivery semaphore and opening the message read what the tallies count. *)
LEMMA AgreeAcquire ==
  ASSUME IInv, OneClaim, Agree, NEW w \in Workers, WorkNext(w), NEW d \in Nat, faults' = faults + d,
         Acquire(w) \/ OpenMessage(w)
  PROVE  Agree'
<1>0. TypeOK /\ TryOK(w) /\ wmsg[w] \in Msgs /\ MsgOK(wmsg[w]) /\ disk[wmsg[w]] \in Files
  BY DEF IInv, TypeOK, Agree
<1>1. /\ UNCHANGED <<attempts, delivered, disk, wmsg, faults>>
      /\ wpc[w] \in {"wait", "open"}
  BY DEF Acquire, OpenMessage, WorkStep, histVars
<1>2. CASE Acquire(w)
  <2>1. wmeta' = wmeta /\ wpc[w] = "wait" /\ wpc'[w] = IF wmeta[w] = NoMeta THEN "open" ELSE "deliver"
    BY <1>0, <1>2 DEF Acquire, WorkStep, TypeOK
  <2> QED
    BY <1>0, <1>1, <2>1, AgreeQuiet
    DEF Kept, Trying, TryOK, BodyOfWork, TallyOfWork, InHand, Tallies
<1>3. CASE OpenMessage(w)
  <2>1. /\ wmeta'[w] = disk[wmsg[w]].meta /\ wpc[w] = "open" /\ wpc'[w] = "deliver"
        /\ disk[wmsg[w]].meta # NoMeta /\ disk[wmsg[w]].body # "none"
    BY <1>0, <1>3 DEF OpenMessage, WorkStep, TypeOK
  <2>2. disk[wmsg[w]].body = "full"
    BY <1>0, <2>1 DEF MsgOK, BodyOnDisk, Files
  <2>3. Tallies(wmsg[w], disk[wmsg[w]].meta, 0)
    BY <1>0, <2>1, NotBusy DEF MsgOK, TallyOnDisk, Claiming, Trying
  <2>4. TryOK(w)'
    BY <1>1, <2>1, <2>2, <2>3 DEF TryOK, BodyOfWork, TallyOfWork, Tallies
  <2> QED
    BY <1>0, <1>1, <2>1, <2>4, AgreeQuiet DEF Kept, Trying
<1> QED
  BY <1>2, <1>3

(* A message that cannot be opened leaves its goroutine without an attempt. *)
LEMMA AgreeOpenFails ==
  ASSUME IInv, OneClaim, Agree, NEW w \in Workers, WorkNext(w), NEW d \in Nat, faults' = faults + d,
         OpenFails(w)
  PROVE  Agree'
<1>0. TypeOK /\ wmsg[w] \in Msgs /\ disk[wmsg[w]] \in Files
  BY DEF IInv, TypeOK
<1>1. /\ UNCHANGED <<attempts, delivered, sess>>
      /\ wpc[w] = "open" /\ wpc'[w] = "release"
      /\ \/ UNCHANGED disk
         \/ disk' = [disk EXCEPT ![wmsg[w]] = WithoutMeta(disk[wmsg[w]])]
         \/ disk' = [disk EXCEPT ![wmsg[w]] = WithoutMeta(WithoutBody(disk[wmsg[w]]))]
  BY <1>0 DEF OpenFails, WorkStep, TypeOK, histVars, sessVars
<1>2. TryOK(w)'
  BY <1>1, RestingOK
<1>3. CASE UNCHANGED disk
  BY <1>0, <1>1, <1>2, <1>3, AgreeQuiet DEF Kept, Trying
<1>4. CASE ~UNCHANGED disk
  <2>1. disk'[wmsg[w]].meta = NoMeta
    BY <1>0, <1>1, <1>4, FileOps DEF TypeOK
  <2>2. sess[wmsg[w]] \notin Sourced
    BY <1>0, <1>1 DEF OneClaim, Unclaimed, Claims, Claiming
  <2>3. PICK m \in Msgs : m = wmsg[w]
    BY <1>0
  <2>4. MsgOK(m)'
    BY <1>0, <1>1, <2>1, <2>2, <2>3, NoMetaMsg
  <2>5. \A r \in Rcpts : attempts'[m][r] <= MaxTries + faults' /\ delivered'[m][r] <= 1 + faults'
    BY <1>0, <1>1, BoundKept
  <2> QED
    BY <1>1, <1>2, <2>3, <2>4, <2>5, AgreeWork DEF Claiming
<1> QED
  BY <1>3, <1>4

(* Starting an attempt (deliver) counts one attempt against every recipient still to serve. *)
LEMMA AgreeDeliverStart ==
  ASSUME IInv, OneClaim, Agree, NEW w \in Workers, WorkNext(w), NEW d \in Nat, faults' = faults + d,
         DeliverStart(w)
  PROVE  Agree'
<1> DEFINE to == wmeta[w].to
<1>0. PICK m \in Msgs : m = wmsg[w]
  BY DEF IInv, TypeOK
<1>1. TypeOK /\ TryOK(w) /\ MsgOK(m) /\ faults \in Nat /\ wmeta[w] \in Meta /\ disk[m].meta \in Meta
  BY QueueAssumption DEF IInv, TypeOK, Agree, Files
<1>2. /\ UNCHANGED <<delivered, disk, wmsg, wmeta, sess, faults>>
      /\ wpc[w] = "deliver" /\ wpc'[w] \in {"data", "settle"} /\ wacc'[w] \subseteq to
      /\ attempts'[m] = [r \in Rcpts |-> IF r \in to THEN attempts[m][r] + 1 ELSE attempts[m][r]]
  BY <1>0, <1>1 DEF DeliverStart, WorkStep, TypeOK, sessVars
<1>3. Busy(m)' /\ ~Busy(m) /\ sess[m] \notin Sourced
  <2>1. Busy(m)'
    BY <1>0, <1>2 DEF Busy, Trying
  <2>2. ~Busy(m)
    BY <1>0, <1>2, NotBusy DEF Claiming, Trying
  <2>3. sess[m] \notin Sourced
    BY <1>0, <1>2 DEF OneClaim, Unclaimed, Claims, Claiming
  <2> QED
    BY <2>1, <2>2, <2>3
<1>4. ASSUME NEW r \in Rcpts
      PROVE  /\ attempts[m][r] \in Nat /\ delivered[m][r] \in Nat /\ MaxTries \in Nat
             /\ wmeta[w].tries[r] \in Nat /\ disk[m].meta.tries[r] \in Nat
             /\ attempts'[m][r] = IF r \in to THEN attempts[m][r] + 1 ELSE attempts[m][r]
             /\ r \in to => /\ wmeta[w].tries[r] < MaxTries
                            /\ attempts[m][r] <= wmeta[w].tries[r] + faults
                            /\ delivered[m][r] <= faults
             /\ r \in disk[m].meta.to => /\ disk[m].meta.tries[r] < MaxTries
                                         /\ attempts[m][r] <= disk[m].meta.tries[r] + faults
                                         /\ delivered[m][r] <= faults
             /\ attempts[m][r] <= MaxTries + faults /\ delivered[m][r] <= 1 + faults
  <2>1. /\ attempts[m][r] \in Nat /\ delivered[m][r] \in Nat /\ MaxTries \in Nat
        /\ wmeta[w].tries[r] \in Nat /\ disk[m].meta.tries[r] \in Nat
        /\ attempts'[m][r] = IF r \in to THEN attempts[m][r] + 1 ELSE attempts[m][r]
    BY <1>1, <1>2, QueueAssumption DEF TypeOK, Meta
  <2>2. Tallies(m, wmeta[w], 0) /\ Tallies(m, disk[m].meta, 0)
    BY <1>0, <1>1, <1>2, <1>3 DEF TryOK, TallyOfWork, MsgOK, TallyOnDisk
  <2>3. attempts[m][r] <= MaxTries + faults /\ delivered[m][r] <= 1 + faults
    BY DEF Agree, RetriesBounded
  <2> QED
    BY <1>1, <2>1, <2>2, <2>3 DEF Tallies
<1>5. TryOK(w)'
  <2>1. BodyOfWork(w)'
    BY <1>0, <1>1, <1>2 DEF TryOK, BodyOfWork, InHand
  <2>2. ASSUME NEW r \in to
        PROVE  /\ wmeta[w].tries[r] < MaxTries
               /\ attempts'[m][r] <= wmeta[w].tries[r] + 1 + faults
               /\ delivered[m][r] <= faults
    <3>1. r \in Rcpts
      BY <1>1 DEF Meta
    <3> QED
      BY <1>1, <1>4, <3>1
  <2> QED
    BY <1>0, <1>2, <2>1, <2>2 DEF TryOK, TallyOfWork
<1>6. MsgOK(m)'
  <2>1. BodyOnDisk(m)'
    BY <1>1, <1>2 DEF MsgOK, BodyOnDisk
  <2>2. ASSUME NEW r \in disk[m].meta.to
        PROVE  /\ disk[m].meta.tries[r] < MaxTries
               /\ attempts'[m][r] <= disk[m].meta.tries[r] + faults + 1
               /\ delivered[m][r] <= faults + 1
    <3>1. r \in Rcpts
      BY <1>1 DEF Meta
    <3> QED
      BY <1>1, <1>4, <3>1
  <2> QED
    BY <1>2, <1>3, <2>1, <2>2 DEF MsgOK, TallyOnDisk, Tallies
<1>7. ASSUME NEW r \in Rcpts
      PROVE  attempts'[m][r] <= MaxTries + faults /\ delivered[m][r] <= 1 + faults
  BY <1>1, <1>4
<1> QED
  BY <1>0, <1>2, <1>5, <1>6, <1>7, AgreeWork DEF Claiming

(* The body step, and a panic of the target, deliver nothing. *)
LEMMA AgreeDeliverBody ==
  ASSUME IInv, OneClaim, Agree, NEW w \in Workers, WorkNext(w), NEW d \in Nat, faults' = faults + d,
         DeliverBody(w) \/ DeliverPanic(w)
  PROVE  Agree'
<1>0. TypeOK /\ TryOK(w) /\ wmsg[w] \in Msgs
  BY DEF IInv, TypeOK, Agree
<1>1. UNCHANGED <<attempts, delivered, disk, wmsg, wmeta, wacc>>
  BY DEF DeliverBody, DeliverPanic, histVars
<1>2. CASE DeliverBody(w)
  <2>1. faults' = faults /\ wpc[w] = "data" /\ wpc'[w] \in {"commit", "settle"}
    BY <1>0, <1>2 DEF DeliverBody, WorkStep, TypeOK
  <2>2. TryOK(w)'
    BY <1>0, <1>1, <2>1 DEF TryOK, BodyOfWork, TallyOfWork, InHand
  <2> QED
    BY <1>0, <1>1, <2>1, <2>2, AgreeQuiet DEF Kept, Trying
<1>3. CASE DeliverPanic(w)
  <2>1. wpc'[w] = "unwind" /\ faults' = faults + 1
    BY <1>0, <1>3 DEF DeliverPanic, WorkStep, TypeOK, Fault
  <2>2. TryOK(w)'
    BY <2>1, RestingOK
  <2> QED
    BY <1>0, <1>1, <2>1, <2>2, AgreeQuiet DEF Kept
<1> QED
  BY <1>2, <1>3

(* Commit delivers to the recipients the target accepted without an error. *)
LEMMA AgreeDeliverCommit ==
  ASSUME IInv, OneClaim, Agree, NEW w \in Workers, WorkNext(w), NEW d \in Nat, faults' = faults + d,
         DeliverCommit(w)
  PROVE  Agree'
<1> DEFINE to == wmeta[w].to
           through == {r \in wacc[w] : werr[w][r] = "none"}
<1>0. PICK m \in Msgs : m = wmsg[w]
  BY DEF IInv, TypeOK
<1>1. TypeOK /\ TryOK(w) /\ MsgOK(m) /\ faults \in Nat /\ wmeta[w] \in Meta /\ disk[m].meta \in Meta
  BY QueueAssumption DEF IInv, TypeOK, Agree, Files
<1>2. /\ UNCHANGED <<attempts, disk, wmsg, wmeta, sess>>
      /\ wpc[w] = "commit" /\ wpc'[w] = "settle" /\ wacc[w] \subseteq to
  BY <1>1 DEF DeliverCommit, WorkStep, TypeOK, sessVars, TryOK, TallyOfWork
<1>3. PICK R \in SUBSET through :
         /\ delivered'[m] = [r \in Rcpts |-> IF r \in R THEN delivered[m][r] + 1 ELSE delivered[m][r]]
         /\ \/ faults' = faults /\ werr' = werr
            \/ faults' = faults + 1 /\ \A r \in wacc[w] : werr'[w][r] # "none"
  <2>1. CASE Took(wmsg[w], through) /\ NoFault /\ UNCHANGED werr
    BY <1>0, <1>1, <2>1 DEF Took, NoFault, TypeOK
  <2>2. ASSUME NEW part \in SUBSET through, NEW e \in {"temp", "perm"},
               Fault("commit"), Took(wmsg[w], part),
               werr' = [werr EXCEPT ![w] = [r \in Rcpts |-> IF r \in wacc[w] THEN e ELSE @[r]]]
        PROVE  /\ delivered'[m] =
                    [r \in Rcpts |-> IF r \in part THEN delivered[m][r] + 1 ELSE delivered[m][r]]
               /\ faults' = faults + 1 /\ \A r \in wacc[w] : werr'[w][r] # "none"
    <3>1. wacc[w] \subseteq Rcpts /\ w \in DOMAIN werr
      BY <1>1 DEF TypeOK
    <3>2. \A r \in wacc[w] : werr'[w][r] = e
      BY <2>2, <3>1
    <3> QED
      BY <1>0, <1>1, <2>2, <3>2 DEF Took, Fault, TypeOK
  <2> QED
    BY <2>1, <2>2 DEF DeliverCommit
<1>4. Busy(m) /\ Busy(m)' /\ sess[m] \notin Sourced
  <2>1. Busy(m) /\ Busy(m)'
    BY <1>0, <1>2 DEF Busy, Trying
  <2>2. sess[m] \notin Sourced
    BY <1>0, <1>2 DEF OneClaim, Unclaimed, Claims, Claiming
  <2> QED
    BY <2>1, <2>2
<1>5. ASSUME NEW r \in Rcpts
      PROVE  /\ attempts[m][r] \in Nat /\ delivered[m][r] \in Nat /\ MaxTries \in Nat
             /\ wmeta[w].tries[r] \in Nat /\ disk[m].meta.tries[r] \in Nat
             /\ delivered'[m][r] = IF r \in R THEN delivered[m][r] + 1 ELSE delivered[m][r]
             /\ r \in R => r \in to /\ r \in wacc[w] /\ werr[w][r] = "none"
             /\ r \in to => /\ wmeta[w].tries[r] < MaxTries
                            /\ attempts[m][r] <= wmeta[w].tries[r] + 1 + faults
                            /\ delivered[m][r] <= faults
             /\ r \in disk[m].meta.to => /\ disk[m].meta.tries[r] < MaxTries
                                         /\ attempts[m][r] <= disk[m].meta.tries[r] + faults + 1
                                         /\ delivered[m][r] <= faults + 1
             /\ attempts[m][r] <= MaxTries + faults /\ delivered[m][r] <= 1 + faults
  <2>1. /\ attempts[m][r] \in Nat /\ delivered[m][r] \in Nat /\ MaxTries \in Nat
        /\ wmeta[w].tries[r] \in Nat /\ disk[m].meta.tries[r] \in Nat
        /\ delivered'[m][r] = IF r \in R THEN delivered[m][r] + 1 ELSE delivered[m][r]
    BY <1>1, <1>3, QueueAssumption DEF TypeOK, Meta
  <2>2. Tallies(m, disk[m].meta, 1)
    BY <1>1, <1>4 DEF MsgOK, TallyOnDisk
  <2>3. attempts[m][r] <= MaxTries + faults /\ delivered[m][r] <= 1 + faults
    BY DEF Agree, RetriesBounded
  <2>4. r \in R => r \in to /\ r \in wacc[w] /\ werr[w][r] = "none"
    BY <1>2, <1>3
  <2>5. r \in to => /\ wmeta[w].tries[r] < MaxTries
                   /\ attempts[m][r] <= wmeta[w].tries[r] + 1 + faults
                   /\ delivered[m][r] <= faults
    BY <1>0, <1>1, <1>2 DEF TryOK, TallyOfWork
  <2> QED
    BY <2>1, <2>2, <2>3, <2>4, <2>5 DEF Tallies
<1> HIDE DEF to, through
<1>6. ASSUME NEW r \in to
      PROVE  /\ wmeta[w].tries[r] < MaxTries
             /\ attempts[m][r] <= wmeta[w].tries[r] + 1 + faults'
             /\ werr'[w][r] # "none" => delivered'[m][r] <= faults'
  <2>1. r \in Rcpts
    BY <1>1 DEF Meta, to
  <2>2. CASE faults' = faults /\ werr' = werr
    BY <1>1, <1>5, <2>1, <2>2
  <2>3. CASE faults' = faults + 1
    BY <1>1, <1>5, <2>1, <2>3
  <2> QED
    BY <1>3, <2>2, <2>3
<1>7. TryOK(w)'
  <2>1. BodyOfWork(w)'
    BY <1>0, <1>1, <1>2 DEF TryOK, BodyOfWork, InHand
  <2> QED
    BY <1>0, <1>2, <1>6, <2>1 DEF TryOK, TallyOfWork, to
<1>8. MsgOK(m)'
  <2>1. BodyOnDisk(m)'
    BY <1>1, <1>2 DEF MsgOK, BodyOnDisk
  <2>2. ASSUME NEW r \in disk[m].meta.to
        PROVE  /\ disk[m].meta.tries[r] < MaxTries
               /\ attempts[m][r] <= disk[m].meta.tries[r] + faults' + 1
               /\ delivered'[m][r] <= faults' + 1
    <3>1. r \in Rcpts
      BY <1>1 DEF Meta
    <3>2. delivered'[m][r] <= faults + 1
      BY <1>1, <1>5, <3>1
    <3>3. delivered'[m][r] \in Nat
      BY <1>5, <3>1
    <3> QED
      BY <1>1, <1>5, <3>1, <3>2, <3>3
  <2> QED
    BY <1>2, <1>4, <2>1, <2>2 DEF MsgOK, TallyOnDisk, Tallies
<1>9. ASSUME NEW r \in Rcpts
      PROVE  attempts[m][r] <= MaxTries + faults' /\ delivered'[m][r] <= 1 + faults'
  BY <1>1, <1>5
<1> QED
  BY <1>0, <1>2, <1>7, <1>8, <1>9, AgreeWork DEF Claiming

(* tryDelivery's new recipient list and try count follow the attempt's errors. *)
LEMMA AgreeSettle ==
  ASSUME IInv, OneClaim, Agree, NEW w \in Workers, WorkNext(w), NEW d \in Nat, faults' = faults + d,
         Settle(w)
  PROVE  Agree'
<1>0. TypeOK /\ TryOK(w) /\ wmsg[w] \in Msgs /\ faults \in Nat /\ wmeta[w] \in Meta
  BY QueueAssumption DEF IInv, TypeOK, Agree
<1>1. /\ UNCHANGED <<attempts, delivered, disk, wmsg, faults>>
      /\ wmeta'[w] = [to |-> NewRcpts(w), tries |-> TriesCount(w)]
      /\ wpc[w] = "settle" /\ wpc'[w] \in {"rmheader", "update"}
  BY <1>0 DEF Settle, WorkStep, TypeOK
<1>2. ASSUME NEW r \in NewRcpts(w)
      PROVE  /\ TriesCount(w)[r] < MaxTries
             /\ attempts[wmsg[w]][r] <= TriesCount(w)[r] + faults + 0
             /\ delivered[wmsg[w]][r] <= faults + 0
  <2>1. /\ r \in wmeta[w].to /\ werr[w][r] = "temp" /\ ~(wmeta[w].tries[r] + 1 >= MaxTries)
    BY DEF NewRcpts, LastTry
  <2>2. r \in Rcpts /\ wmeta[w].tries[r] \in Nat /\ MaxTries \in Nat
    BY <1>0, <2>1, QueueAssumption DEF Meta
  <2>3. TriesCount(w)[r] = wmeta[w].tries[r] + 1
    BY <2>2 DEF TriesCount
  <2>4. attempts[wmsg[w]][r] \in Nat /\ delivered[wmsg[w]][r] \in Nat
    BY <1>0, <2>2 DEF TypeOK
  <2>5. attempts[wmsg[w]][r] <= wmeta[w].tries[r] + 1 + faults /\ delivered[wmsg[w]][r] <= faults
    BY <1>0, <1>1, <2>1 DEF TryOK, TallyOfWork
  <2> QED
    BY <1>0, <2>1, <2>2, <2>3, <2>4, <2>5
<1>3. TryOK(w)'
  <2>1. BodyOfWork(w)'
    BY <1>0, <1>1 DEF TryOK, BodyOfWork, InHand
  <2>2. Tallies(wmsg[w], wmeta[w], 0)'
    BY <1>1, <1>2 DEF Tallies
  <2> QED
    BY <1>1, <2>1, <2>2 DEF TryOK, TallyOfWork
<1> QED
  BY <1>0, <1>1, <1>3, AgreeQuiet DEF Kept, Trying

(* updateMetadataOnDisk writes the settled list, or spends a fault. *)
LEMMA AgreeUpdate ==
  ASSUME IInv, OneClaim, Agree, NEW w \in Workers, WorkNext(w), NEW d \in Nat, faults' = faults + d,
         Update(w)
  PROVE  Agree'
<1>0. PICK m \in Msgs : m = wmsg[w]
  BY DEF IInv, TypeOK
<1>1. TypeOK /\ TryOK(w) /\ disk[m] \in Files /\ wmeta[w] \in Meta
  BY DEF IInv, TypeOK, Agree
<1>2. /\ UNCHANGED <<attempts, delivered, wmsg, wmeta, sess>>
      /\ wpc[w] = "update" /\ wpc'[w] = "add"
  BY <1>1 DEF Update, WorkStep, TypeOK, histVars, sessVars
<1>3. TryOK(w)'
  BY <1>2, RestingOK
<1>4. CASE UNCHANGED disk /\ Fault("update")
  <2>1. faults' = faults + 1
    BY <1>4 DEF Fault
  <2> QED
    BY <1>0, <1>2, <1>3, <1>4, <2>1, AgreeQuiet DEF Kept
<1>5. CASE disk' = [disk EXCEPT ![m] = WithMeta(disk[m], wmeta[w])] /\ NoFault
  <2>1. disk'[m].meta = wmeta[w] /\ disk'[m].body = disk[m].body /\ faults' = faults
    <3>1. disk'[m] = WithMeta(disk[m], wmeta[w])
      BY <1>1, <1>5 DEF TypeOK
    <3> QED
      BY <1>1, <1>5, <3>1, FileOps DEF NoFault
  <2>2. disk[m].body = "full" /\ Tallies(m, wmeta[w], 0)
    BY <1>0, <1>1, <1>2 DEF TryOK, BodyOfWork, TallyOfWork, InHand
  <2>3. sess[m] \notin Sourced
    BY <1>0, <1>2 DEF OneClaim, Unclaimed, Claims, Claiming
  <2>4. PICK b \in Nat : b = IF Busy(m)' THEN 1 ELSE 0
    OBVIOUS
  <2>5. \A r \in wmeta[w].to :
           /\ wmeta[w].tries[r] < MaxTries
           /\ attempts'[m][r] <= wmeta[w].tries[r] + faults' + b
           /\ delivered'[m][r] <= faults' + b
    BY <1>1, <1>2, <2>2, TalliesGrow
  <2>6. Tallies(m, disk[m].meta, IF Busy(m) THEN 1 ELSE 0)'
    BY <2>1, <2>4, <2>5 DEF Tallies
  <2>7. MsgOK(m)'
    BY <1>2, <2>1, <2>2, <2>3, <2>6 DEF MsgOK, TallyOnDisk, BodyOnDisk
  <2>8. \A r \in Rcpts : attempts'[m][r] <= MaxTries + faults' /\ delivered'[m][r] <= 1 + faults'
    BY <1>1, <1>2, BoundKept
  <2> QED
    BY <1>0, <1>2, <1>3, <2>7, <2>8, AgreeWork DEF Claiming
<1> QED
  BY <1>0, <1>4, <1>5 DEF Update

(* removeFromDisk leaves nothing for a later attempt to count. *)
LEMMA AgreeRemove ==
  ASSUME IInv, OneClaim, Agree, NEW w \in Workers, WorkNext(w), NEW d \in Nat, faults' = faults + d,
         Remove(w)
  PROVE  Agree'
<1>0. PICK m \in Msgs : m = wmsg[w]
  BY DEF IInv, TypeOK
<1>1. TypeOK /\ disk[m] \in Files
  BY DEF IInv, TypeOK
<1>2. /\ UNCHANGED <<attempts, delivered, wmsg, sess>>
      /\ wpc[w] \in Trying /\ wpc'[w] \in {"rmbody", "rmmeta", "release"}
      /\ wpc'[w] # "release" => wpc'[w] \in Trying
  BY <1>1 DEF Remove, WorkStep, TypeOK, histVars, sessVars, Trying
<1>3. TryOK(w)'
  BY <1>2, RestingOK
<1>4. sess[m] \notin Sourced /\ wpc[w] \in Claiming
  BY <1>0, <1>2 DEF OneClaim, Unclaimed, Claims, Claiming, Trying
<1>5. \A r \in Rcpts : attempts'[m][r] <= MaxTries + faults' /\ delivered'[m][r] <= 1 + faults'
  BY <1>1, <1>2, BoundKept
<1>6. CASE UNCHANGED disk /\ Fault("remove")
  <2>1. faults' = faults + 1
    BY <1>6 DEF Fault
  <2> QED
    BY <1>0, <1>2, <1>3, <1>6, <2>1, AgreeQuiet DEF Kept
<1>7. CASE disk' = [disk EXCEPT ![m] = WithoutMeta(disk[m])]
  <2>1. disk'[m].meta = NoMeta
    BY <1>1, <1>7, FileOps DEF TypeOK
  <2>2. MsgOK(m)'
    BY <1>1, <1>2, <1>4, <2>1, NoMetaMsg
  <2> QED
    BY <1>0, <1>3, <1>4, <1>5, <2>2, AgreeWork
<1>8. CASE /\ wpc'[w] # "release"
           /\ \/ disk' = [disk EXCEPT ![m] = WithoutHeader(disk[m])]
              \/ disk' = [disk EXCEPT ![m] = WithoutBody(disk[m])]
  <2>1. disk'[m].meta = disk[m].meta /\ disk'[m].body \in {disk[m].body, "none"}
    <3>1. disk'[m] \in {WithoutHeader(disk[m]), WithoutBody(disk[m])}
      BY <1>1, <1>8 DEF TypeOK
    <3>2. WithoutBody(disk[m]).body = "none"
      BY <1>1 DEF WithoutBody, Files
    <3> QED
      BY <1>1, <3>1, <3>2, FileOps
  <2>2. Busy(m) => Busy(m)'
    BY <1>0, <1>2, <1>8 DEF Busy
  <2>3. TallyOnDisk(m)'
    BY <1>1, <1>2, <2>1, <2>2, TallyKept
  <2>4. BodyOnDisk(m)'
    BY <1>2, <1>4, <2>1 DEF Agree, MsgOK, BodyOnDisk, Sourced
  <2> QED
    BY <1>0, <1>3, <1>4, <1>5, <2>3, <2>4, AgreeWork DEF MsgOK
<1> QED
  <2>1. CASE WorkStep(w, "rmmeta", "release") /\ RemoveFile(wmsg[w], WithoutMeta(disk[wmsg[w]]))
    BY <1>0, <1>6, <1>7, <2>1 DEF RemoveFile
  <2>2. CASE WorkStep(w, "rmheader", "rmbody") /\ RemoveFile(wmsg[w], WithoutHeader(disk[wmsg[w]]))
    <3>1. wpc'[w] = "rmbody"
      BY <1>1, <2>2 DEF WorkStep, TypeOK
    <3> QED
      BY <1>0, <1>6, <1>8, <2>2, <3>1 DEF RemoveFile
  <2>3. CASE WorkStep(w, "rmbody", "rmmeta") /\ RemoveFile(wmsg[w], WithoutBody(disk[wmsg[w]]))
    <3>1. wpc'[w] = "rmmeta"
      BY <1>1, <2>3 DEF WorkStep, TypeOK
    <3> QED
      BY <1>0, <1>6, <1>8, <2>3, <3>1 DEF RemoveFile
  <2> QED
    BY <2>1, <2>2, <2>3 DEF Remove

(* Handing the message back to the wheel, or releasing it, keeps the tallies. *)
LEMMA AgreeLeave ==
  ASSUME IInv, OneClaim, Agree, NEW w \in Workers, WorkNext(w), NEW d \in Nat, faults' = faults + d,
         Retry(w) \/ RetryPush(w) \/ RetryNotify(w) \/ Release(w) \/ DiscardBroken(w)
  PROVE  Agree'
<1>0. PICK m \in Msgs : m = wmsg[w]
  BY DEF IInv, TypeOK
<1>1. TypeOK /\ disk[m] \in Files
  BY DEF IInv, TypeOK
<1>2. /\ UNCHANGED <<attempts, delivered, sess>>
      /\ wpc'[w] \in {"release", "push", "notify", "unwind", "idle", "discard"}
      /\ wpc[w] \notin Trying
  BY <1>1 DEF Retry, RetryPush, RetryNotify, Release, DiscardBroken, WorkStep, TypeOK, histVars, sessVars, Trying
<1>3. TryOK(w)'
  BY <1>2, RestingOK
<1>4. CASE disk' = disk
  BY <1>0, <1>2, <1>3, <1>4, AgreeQuiet DEF Kept
<1>5. CASE DiscardBroken(w) /\ disk' # disk
  <2>1. disk' = [disk EXCEPT ![m] = Quarantined(disk[m])]
    <3>1. disk' = [disk EXCEPT ![m] = IF @.meta = NoMeta THEN @ ELSE Quarantined(@)]
      BY <1>0, <1>5 DEF DiscardBroken
    <3>2. CASE disk[m].meta = NoMeta
      <4>1. disk' = [disk EXCEPT ![m] = disk[m]]
        BY <3>1, <3>2
      <4> QED
        BY <1>1, <1>5, <4>1 DEF TypeOK
    <3> QED
      BY <3>1, <3>2
  <2>2. disk'[m].meta = NoMeta /\ disk'[m].body = disk[m].body
    BY <1>1, <2>1, FileOps DEF TypeOK
  <2>3. Kept(m)
    BY <1>2, <2>2 DEF Kept
  <2>4. MsgOK(m)'
    BY <1>1, <1>2, <2>2, <2>3, NoMetaMsg
  <2>5. \A r \in Rcpts : attempts'[m][r] <= MaxTries + faults' /\ delivered'[m][r] <= 1 + faults'
    BY <1>1, <1>2, BoundKept
  <2> QED
    BY <1>0, <1>3, <2>3, <2>4, <2>5, AgreeWork
<1> QED
  BY <1>4, <1>5 DEF Retry, RetryPush, RetryNotify, Release
(* A slot is taken off the wheel with its metadata. *)
LEMMA AgreeDispatch ==
  ASSUME IInv, OneClaim, Agree, NEW s \in slots, NEW w \in Workers, Dispatch(s, w)
  PROVE  Agree'
<1>0. TypeOK /\ faults \in Nat /\ s.msg \in Msgs /\ ItemOK(s)
  BY QueueAssumption DEF IInv, TypeOK, Slot, Agree
<1>1. /\ UNCHANGED <<attempts, delivered, disk, sess, faults>>
      /\ slots' = slots \ {s}
      /\ wpc[w] = "idle" /\ wpc'[w] = "wait" /\ wmsg'[w] = s.msg /\ wmeta'[w] = s.meta
      /\ \A v \in Workers \ {w} : SameWork(v)
  BY <1>0 DEF Dispatch, WorkStep, TypeOK, histVars, sessVars, SameWork
<1>2. faults' = faults + 0
  BY <1>0, <1>1
<1>3. ASSUME NEW n \in Msgs PROVE MsgOK(n)'
  <2>1. Kept(n) /\ disk'[n].meta = disk[n].meta /\ sess'[n] = sess[n]
    BY <1>1 DEF Kept
  <2>2. Busy(n) => Busy(n)'
    BY <1>1 DEF Busy, SameWork, Trying
  <2> QED
    BY <1>0, <1>2, <2>1, <2>2, MsgKept
<1>4. ASSUME NEW t \in slots PROVE ItemOK(t)'
  BY <1>0, <1>1, <1>2, SlotKept DEF Kept
<1>5. ASSUME NEW v \in Workers PROVE TryOK(v)'
  <2>1. CASE v # w
    BY <1>0, <1>1, <1>2, <2>1, WorkKept DEF Kept
  <2>2. CASE v = w
    BY <1>0, <1>1, <2>2
    DEF TryOK, BodyOfWork, TallyOfWork, InHand, ItemOK, BodyOfSlot, TallyOfSlot, Tallies
  <2> QED
    BY <2>1, <2>2
<1>6. RetriesBounded'
  BY <1>1 DEF Agree, RetriesBounded
<1> QED
  BY <1>1, <1>3, <1>4, <1>5, <1>6 DEF Agree

(* The end of the process: a kill is a fault, and after Close nobody is in  *)
(* an attempt.                                                              *)
LEMMA AgreeVanish ==
  ASSUME IInv, Stops, Agree, NEW d \in Nat, faults' = faults + d, Kill \/ Exit
  PROVE  Agree'
<1>0. TypeOK
  BY DEF IInv
<1>1. /\ UNCHANGED <<attempts, delivered, disk>> /\ slots' = {}
      /\ \A w \in Workers : wpc'[w] = "idle"
      /\ \A m \in Msgs : sess'[m] = sess[m] \/ sess'[m] = "gone"
  BY DEF Kill, Exit, Vanish, histVars
<1>2. ASSUME NEW m \in Msgs PROVE MsgOK(m)'
  <2>1. Kept(m) /\ disk'[m].meta = disk[m].meta /\ (sess'[m] \in Sourced => sess'[m] = sess[m])
    BY <1>1 DEF Kept, Sourced
  <2>2. CASE Kill
    <3>1. faults' = faults + 1
      BY <2>2 DEF Kill, Fault
    <3> QED
      BY <1>0, <2>1, <3>1, MsgKept
  <2>3. CASE Exit
    <3>1. ~Busy(m)
      BY <2>3 DEF Exit, Stops, InWaitGroup, Busy, Trying
    <3> QED
      BY <1>0, <2>1, <3>1, MsgKept
  <2> QED
    BY <2>2, <2>3
<1>3. \A w \in Workers : TryOK(w)'
  BY <1>1, RestingOK
<1>4. RetriesBounded'
  BY <1>0, <1>1, BoundKept DEF RetriesBounded
<1> QED
  BY <1>1, <1>2, <1>3, <1>4 DEF Agree

(* readDiskQueue. *)
LEMMA AgreeLoad ==
  ASSUME IInv, OneClaim, Agree, NEW d \in Nat, faults' = faults + d,
         NEW m \in Msgs, LoadSkip(m) \/ LoadSlot(m)
  PROVE  Agree'
<1>0. TypeOK /\ disk[m] \in Files
  BY DEF IInv, TypeOK
<1>1. /\ UNCHANGED <<attempts, delivered, sess, workVars>> /\ m \in toLoad /\ proc = "load"
      /\ \A n \in Msgs \ {m} : disk'[n] = disk[n]
  BY <1>0 DEF LoadSkip, LoadSlot, histVars, sessVars, workVars, TypeOK
<1>2. Unclaimed(m) /\ sess[m] \notin Sourced
  BY <1>1 DEF OneClaim, IInv, BootOK, Quiet, Sourced
<1>3. ASSUME NEW n \in Msgs PROVE Busy(n) => Busy(n)'
  BY <1>1 DEF Busy, workVars
<1>4. MsgOK(m)'
  <2>1. CASE disk' = disk
    BY <1>0, <1>1, <1>3, <2>1, MsgKept DEF Kept
  <2>2. CASE disk' # disk
    <3>1. disk'[m] \in {WithoutBody(WithoutMeta(disk[m])), WithoutHeader(WithoutMeta(disk[m]))}
      BY <1>0, <2>2 DEF LoadSkip, LoadSlot, TypeOK
    <3>2. WithoutMeta(disk[m]) \in Files /\ WithoutMeta(disk[m]).meta = NoMeta
      BY <1>0, FileOps
    <3>3. disk'[m].meta = NoMeta
      BY <3>1, <3>2, FileOps
    <3> QED
      BY <1>0, <1>1, <1>2, <3>3, NoMetaMsg
  <2> QED
    BY <2>1, <2>2
<1>5. ASSUME NEW n \in Msgs, n # m PROVE Kept(n) /\ MsgOK(n)'
  <2>1. Kept(n) /\ disk'[n].meta = disk[n].meta
    BY <1>1, <1>5 DEF Kept
  <2> QED
    BY <1>0, <1>1, <1>3, <2>1, MsgKept
<1>6. ASSUME NEW s \in slots PROVE ItemOK(s)'
  <2>1. s.msg \in Msgs /\ s.msg # m
    BY <1>0, <1>2 DEF TypeOK, Slot, Unclaimed
  <2> QED
    BY <1>0, <1>5, <2>1, SlotKept
<1>7. (\A s \in slots : ItemOK(s))'
  <2>1. slots' = slots \/ slots' = slots \cup {[msg |-> m, meta |-> NoMeta, by |-> "load"]}
    BY DEF LoadSkip, LoadSlot, wheelVars
  <2>2. ItemOK([msg |-> m, meta |-> NoMeta, by |-> "load"])'
    BY MetaTypes DEF ItemOK, BodyOfSlot, TallyOfSlot, Tallies
  <2> QED
    BY <1>6, <2>1, <2>2
<1>8. ASSUME NEW w \in Workers PROVE TryOK(w)'
  <2>1. SameWork(w) /\ wmsg[w] \in Msgs
    BY <1>0, <1>1 DEF SameWork, workVars, TypeOK
  <2>2. wpc[w] \in Claiming => Kept(wmsg[w])
    BY <1>2, <1>5, <2>1 DEF Unclaimed, Claims
  <2> QED
    BY <1>0, <2>1, <2>2, WorkKept
<1>9. RetriesBounded'
  BY <1>0, <1>1, BoundKept DEF RetriesBounded
<1> QED
  BY <1>4, <1>5, <1>7, <1>8, <1>9 DEF Agree

(* Every step of the queue keeps the tallies. *)
LEMMA AgreeStep ==
  ASSUME IInv, OneClaim, Stops, Agree, [Next]_vars
  PROVE  Agree'
<1>0. PICK d \in Nat : faults' = faults + d
  BY FaultsGrow DEF IInv
<1>1. ASSUME NEW m \in Msgs, SessNext(m) PROVE Agree'
  BY <1>0, <1>1, AgreeSess
<1>2. ASSUME NEW w \in Workers, WorkNext(w) PROVE Agree'
  BY <1>0, <1>2, AgreeAcquire, AgreeOpenFails, AgreeDeliverStart, AgreeDeliverBody,
     AgreeDeliverCommit, AgreeSettle, AgreeUpdate, AgreeRemove, AgreeLeave DEF WorkNext
<1>3. ASSUME NEW s \in slots, NEW w \in Workers, Dispatch(s, w) PROVE Agree'
  BY <1>3, AgreeDispatch
<1>4. CASE CloseNext \/ LoadDone \/ StartUp \/ UNCHANGED vars
  <2>1. UNCHANGED <<slots, workVars, sess, disk, attempts, delivered, faults>>
    BY <1>4 DEF CloseNext, CloseStore, CloseStop, CloseChan, CloseWait, CloseStep, LoadDone, StartUp,
                vars, workVars, sessVars, wheelVars, histVars
  <2> QED
    BY <2>1 DEF Agree, MsgOK, ItemOK, TryOK, BodyOnDisk, BodyOfSlot, BodyOfWork, TallyOnDisk,
                TallyOfSlot, TallyOfWork, Tallies, Busy, RetriesBounded, workVars
<1>5. CASE Kill \/ Exit
  BY <1>0, <1>5, AgreeVanish
<1>6. ASSUME NEW m \in Msgs, LoadSkip(m) \/ LoadSlot(m) PROVE Agree'
  BY <1>0, <1>6, AgreeLoad
<1> QED
  BY <1>1, <1>2, <1>3, <1>4, <1>5, <1>6 DEF Next, BootNext

------------------------------------------------------------------------------
(* Theorems *)

(* An empty queue directory: nobody claims a message and every tally is zero. *)
LEMMA AttemptsInit == Init => AInv
<1> SUFFICES ASSUME Init PROVE AInv
  OBVIOUS
<1>1. OneClaim /\ Stops
  BY DEF Init, OneClaim, Unclaimed, Claims, Claiming, Stops
<1>2. ASSUME NEW m \in Msgs PROVE MsgOK(m)
  <2>1. disk[m].meta = NoMeta /\ disk[m].body = "none" /\ sess[m] = "new"
    BY MetaTypes DEF Init, NoFiles
  <2>2. Tallies(m, disk[m].meta, IF Busy(m) THEN 1 ELSE 0)
    BY <2>1, MetaTypes DEF Tallies
  <2> QED
    BY <2>1, <2>2 DEF MsgOK, BodyOnDisk, TallyOnDisk, Init
<1>3. \A w \in Workers : TryOK(w)
  BY DEF Init, TryOK, BodyOfWork, TallyOfWork, InHand
<1>4. RetriesBounded
  BY QueueAssumption DEF Init, RetriesBounded
<1> QED
  BY <1>1, <1>2, <1>3, <1>4 DEF AInv, Agree, Init

(* One claim on a message, and agreement of what is recorded with what was  *)
(* done, are kept by every step.                                            *)
THEOREM AttemptsInvariant == Spec => [](IInv /\ AInv)
<1>1. Init => IInv /\ AInv
  BY InitStep, AttemptsInit
<1>2. (IInv /\ AInv) /\ [Next]_vars => (IInv /\ AInv)'
  BY NextStep, OneClaimStep, StopsStep, AgreeStep DEF AInv
<1> QED
  BY <1>1, <1>2, PTL DEF Spec

(* No two goroutines work on one message: a retry is put on the wheel only  *)
(* when its goroutine is done with the files (tryDelivery).                 *)
THEOREM QueueOneAttempt == Spec => []OneAttemptAtATime
<1>1. IInv /\ AInv => OneAttemptAtATime
  BY DEF AInv, OneClaim, Claims, Claiming, OneAttemptAtATime, Attempting
<1> QED
  BY <1>1, AttemptsInvariant, PTL

(* Whoever talks to the target finds the whole body on disk                 *)
(* (storeNewMessage, openMessage, removeFromDisk).                          *)
THEOREM QueueContentPresent == Spec => []ContentPresent
<1>1. IInv /\ AInv => ContentPresent
  BY DEF AInv, Agree, TryOK, BodyOfWork, InHand, ContentPresent
<1> QED
  BY <1>1, AttemptsInvariant, PTL

(* The tries of a recipient are bounded by max_tries and the faults so far, *)
(* its deliveries by one and the faults so far (tryDelivery, deliver).      *)
THEOREM QueueRetriesBounded == Spec => []RetriesBounded
<1>1. IInv /\ AInv => RetriesBounded
  BY DEF AInv, Agree
<1> QED
  BY <1>1, AttemptsInvariant, PTL

(* After Close has returned no goroutine works on a message, and stopping   *)
(* and starting the queue adds no try and no delivery (Close).              *)
THEOREM QueueCloseIsClean == Spec => []CloseIsClean
<1>1. IInv /\ AInv => CloseIsClean
  BY DEF AInv, Agree, Stops, InWaitGroup, Attempting, CloseIsClean
<1> QED
  BY <1>1, AttemptsInvariant, PTL


------------------------------------------------------------------------------
(* The wheel, for any set of Add callers, any clock range and any number of *)
(* Add calls: no lost wakeup, the slot the timer was set for stays in the   *)
(* list, and the wheel implements the abstract Scheduler.                   *)

(* The list scan and the wakeup argument need that a slot about to be       *)
(* pushed is new: every slot seen so far has a smaller number.              *)
NumbersBelowPushed == \A s \in wheelSlots \cup dispatched : s.num < pushed

WheelInv ==
    /\ WheelTypeOK
    /\ NumbersBelowPushed
    /\ NoMissedWakeup
    /\ ClosestStaysListed

(* The wheel's initial state satisfies the inductive invariant. *)
LEMMA InitWheelInv == WheelInit => WheelInv
<1> SUFFICES ASSUME WheelInit PROVE WheelInv
  OBVIOUS
<1>1. 0 \in Time /\ NoSlot \in TimeSlot /\ 0 \in 0 .. MaxAdds
  BY WheelAssumption DEF Time, TimeSlot, NoSlot
<1>2. WheelTypeOK
  BY <1>1 DEF WheelInit, WheelTypeOK
<1>3. NumbersBelowPushed /\ NoMissedWakeup /\ ClosestStaysListed
  BY DEF WheelInit, NumbersBelowPushed, NoMissedWakeup, ClosestStaysListed
<1> QED  BY <1>2, <1>3 DEF WheelInv

(* Every step of Add, tick and Close keeps the state well typed. *)
LEMMA TypeOKStep == WheelTypeOK /\ [WheelNext]_twVars => WheelTypeOK'
<1> SUFFICES ASSUME WheelTypeOK, [WheelNext]_twVars PROVE WheelTypeOK'
  OBVIOUS
<1> USE WheelAssumption DEF WheelTypeOK, listVars, addVars, tickVars, stopVars
<1>1. ASSUME NEW a \in Adders, NEW t \in Time, AddLoad(a, t) PROVE WheelTypeOK'
  BY <1>1 DEF AddLoad, NoSlot, TimeSlot, Time
<1>2. ASSUME NEW a \in Adders, AddPush(a) PROVE WheelTypeOK'
  <2>1. slot' \in [Adders -> TimeSlot]
    BY <1>2 DEF AddPush, TimeSlot
  <2> QED  BY <1>2, <2>1 DEF AddPush
<1>3. ASSUME NEW a \in Adders, AddPanic(a) PROVE WheelTypeOK'
  BY <1>3 DEF AddPanic
<1>4. ASSUME NEW a \in Adders, TickUpdate(a) PROVE WheelTypeOK'
  BY <1>4 DEF TickUpdate
<1>5. CASE TickScan   BY <1>5 DEF TickScan
<1>6. CASE TickTimer  BY <1>6 DEF TickTimer
<1>7. CASE SetStopped BY <1>7 DEF SetStopped
<1>8. CASE SendStop  BY <1>8 DEF SendStop
<1>9. CASE CloseAck   BY <1>9 DEF CloseAck
<1>10. CASE CloseUpdates BY <1>10 DEF CloseUpdates
<1>11. CASE Advance   BY <1>11 DEF Advance, Time
<1>12. CASE UNCHANGED twVars BY <1>12 DEF twVars
<1> QED  BY <1>1, <1>2, <1>3, <1>4, <1>5, <1>6, <1>7, <1>8, <1>9, <1>10, <1>11, <1>12 DEF WheelNext

(* A slot being announced stays announced-about by its Add call in every    *)
(* step but the rendezvous with the tick goroutine.                         *)
LEMMA AnnouncingPush ==
  ASSUME WheelTypeOK, NumbersBelowPushed, NEW a \in Adders, AddPush(a)
  PROVE  /\ slot'[a] \notin wheelSlots \cup dispatched
         /\ slot'[a] \in TimeSlot /\ slot'[a].num = pushed
         /\ \A s : s = slot'[a] => Announcing(s)'
         /\ \A s \in wheelSlots : Announcing(s)' <=> Announcing(s)
<1>1. /\ slot'[a] \in TimeSlot /\ slot'[a].num = pushed
      /\ \A b \in Adders \ {a} : slot'[b] = slot[b] /\ add'[b] = add[b]
      /\ add[a] = "push" /\ add'[a] = "notify"
  BY DEF AddPush, WheelTypeOK, TimeSlot
<1>2. slot'[a] \notin wheelSlots \cup dispatched
  BY <1>1 DEF NumbersBelowPushed, WheelTypeOK, TimeSlot
<1>3. \A s : s = slot'[a] => Announcing(s)'
  BY <1>1 DEF Announcing
<1>4. ASSUME NEW s \in wheelSlots PROVE Announcing(s)' <=> Announcing(s)
  <2>1. s # slot'[a]
    BY <1>2
  <2> QED  BY <1>1, <2>1 DEF Announcing
<1> QED  BY <1>1, <1>2, <1>3, <1>4

(* Every step keeps the numbers of listed slots below the count of pushes. *)
LEMMA NumbersStep == WheelInv /\ [WheelNext]_twVars => NumbersBelowPushed'
<1> SUFFICES ASSUME WheelInv, [WheelNext]_twVars PROVE NumbersBelowPushed'
  OBVIOUS
<1> USE DEF WheelInv, NumbersBelowPushed
<1>1. ASSUME NEW a \in Adders, AddPush(a) PROVE NumbersBelowPushed'
  BY <1>1, AnnouncingPush DEF AddPush, WheelTypeOK, TimeSlot
<1>2. CASE TickTimer BY <1>2 DEF TickTimer, ClosestStaysListed
<1> QED
  BY <1>1, <1>2 DEF WheelNext, twVars, listVars, AddLoad, AddPanic, TickUpdate, TickScan,
     SetStopped, SendStop, CloseAck, CloseUpdates, Advance

(* Every step keeps the slot the tick goroutine waits for in the list. *)
LEMMA ClosestStep == WheelInv /\ [WheelNext]_twVars => ClosestStaysListed'
<1> SUFFICES ASSUME WheelInv, [WheelNext]_twVars PROVE ClosestStaysListed'
  OBVIOUS
<1> USE DEF WheelInv, ClosestStaysListed, listVars, tickVars
<1>1. ASSUME NEW a \in Adders, AddPush(a) PROVE ClosestStaysListed'
  BY <1>1, AnnouncingPush DEF AddPush
<1>2. CASE TickTimer BY <1>2 DEF TickTimer
<1>3. CASE TickScan  BY <1>3 DEF TickScan
<1>4. ASSUME NEW a \in Adders, TickUpdate(a) PROVE ClosestStaysListed'
  BY <1>4 DEF TickUpdate, KeepWaiting
<1> QED
  BY <1>1, <1>2, <1>3, <1>4 DEF WheelNext, twVars, AddLoad, AddPanic,
     SetStopped, SendStop, CloseAck, CloseUpdates, Advance

(* The heart of the argument: the scan sees every slot of the list, a slot  *)
(* pushed later is covered by its own Add call, and when that call hands    *)
(* its time over, the tick goroutine rescans unless it already wakes up     *)
(* early enough.                                                            *)
LEMMA WakeupStep == WheelInv /\ [WheelNext]_twVars => NoMissedWakeup'
<1> SUFFICES ASSUME WheelInv, [WheelNext]_twVars PROVE NoMissedWakeup'
  OBVIOUS
<1> USE DEF WheelInv, listVars, tickVars, addVars
<1>1. ASSUME NEW a \in Adders, NEW t \in Time, AddLoad(a, t) PROVE NoMissedWakeup'
  <2>1. /\ add[a] = "out" /\ add'[a] = "push"
        /\ \A b \in Adders \ {a} : slot'[b] = slot[b] /\ add'[b] = add[b]
    BY <1>1 DEF AddLoad, WheelTypeOK
  <2>2. \A s : Announcing(s) => Announcing(s)'
    BY <2>1 DEF Announcing
  <2> QED  BY <1>1, <2>2 DEF AddLoad, NoMissedWakeup
<1>2. ASSUME NEW a \in Adders, AddPush(a) PROVE NoMissedWakeup'
  BY <1>2, AnnouncingPush DEF AddPush, NoMissedWakeup
<1>3. ASSUME NEW a \in Adders, AddPanic(a) PROVE NoMissedWakeup'
  BY <1>3 DEF AddPanic, NoMissedWakeup, Announcing, WheelTypeOK
<1>4. ASSUME NEW a \in Adders, TickUpdate(a) PROVE NoMissedWakeup'
  <2>1. CASE KeepWaiting(slot[a].time)
    <3> SUFFICES ASSUME NEW s \in wheelSlots', ~Announcing(s)'
                 PROVE  tick' = "armed" /\ closest'.time <= s.time
      BY DEF NoMissedWakeup
    <3>1. tick' = "armed" /\ closest' = closest /\ wheelSlots' = wheelSlots
      BY <1>4, <2>1 DEF TickUpdate
    <3>2. CASE s = slot[a]
      BY <2>1, <3>1, <3>2 DEF KeepWaiting
    <3>3. CASE s # slot[a]
      <4>1. ~Announcing(s)
        BY <1>4, <3>3 DEF TickUpdate, Announcing, WheelTypeOK
      <4> QED  BY <2>1, <3>1, <4>1 DEF NoMissedWakeup, KeepWaiting
    <3> QED  BY <3>2, <3>3
  <2>2. CASE ~KeepWaiting(slot[a].time)
    BY <1>4, <2>2 DEF TickUpdate, NoMissedWakeup
  <2> QED  BY <2>1, <2>2
<1>5. CASE TickScan
  BY <1>5 DEF TickScan, IsClosest, NoMissedWakeup, WheelTypeOK, TimeSlot, Time
<1>6. CASE TickTimer
  BY <1>6 DEF TickTimer, NoMissedWakeup
<1>7. CASE SendStop
  BY <1>7 DEF SendStop, NoMissedWakeup
<1>8. CASE CloseAck
  BY <1>8 DEF CloseAck, NoMissedWakeup
<1>9. CASE SetStopped \/ CloseUpdates \/ Advance \/ UNCHANGED twVars
  BY <1>9 DEF SetStopped, CloseUpdates, Advance, twVars, NoMissedWakeup, Announcing
<1> QED  BY <1>1, <1>2, <1>3, <1>4, <1>5, <1>6, <1>7, <1>8, <1>9 DEF WheelNext

(* The inductive invariant holds in every state of the wheel. *)
THEOREM WheelInvariant == WheelSpec => []WheelInv
<1>1. WheelInv /\ [WheelNext]_twVars => WheelInv'
  BY TypeOKStep, NumbersStep, ClosestStep, WakeupStep DEF WheelInv
<1> QED  BY InitWheelInv, <1>1, PTL DEF WheelSpec

(* The tick goroutine never sleeps past a slot whose Add has returned       *)
(* (timewheel.go:89-146), however many callers there are.                   *)
THEOREM WheelNoMissedWakeup == WheelSpec => []NoMissedWakeup
<1>1. WheelInv => NoMissedWakeup
  BY DEF WheelInv
<1> QED  BY WheelInvariant, <1>1, PTL

(* The comment at timewheel.go:104 is right: the slot the timer was set for *)
(* cannot leave the list behind the tick goroutine's back, and no slot is   *)
(* dispatched while it is still listed.                                     *)
THEOREM WheelClosestStaysListed == WheelSpec => []ClosestStaysListed
<1>1. WheelInv => ClosestStaysListed
  BY DEF WheelInv
<1> QED  BY WheelInvariant, <1>1, PTL

------------------------------------------------------------------------------
(* Refinement *)

(* The slots of the abstract scheduler that are announced. *)
Announced == {s \in wheelSlots : ~Announcing(s)}

(* Steps that touch neither the list nor the Add calls in their send nor    *)
(* the life of the tick goroutine are invisible to the scheduler's users.   *)
LEMMA InvisibleStep ==
  ASSUME UNCHANGED <<wheelSlots, dispatched, clock>>,
         (tick \in {"ack", "done"})' <=> tick \in {"ack", "done"},
         \A s \in wheelSlots : Announcing(s)' <=> Announcing(s)
  PROVE  UNCHANGED Promise!vars
<1>1. Announced' = Announced
  BY DEF Announced
<1> QED  BY <1>1 DEF Promise!vars, Announced

(* Add's send is received: its slot becomes announced, or was dispatched    *)
(* before the notification arrived.                                         *)
LEMMA UpdateRefines ==
  ASSUME WheelInv, NEW a \in Adders, TickUpdate(a)
  PROVE  [Promise!Next]_(Promise!vars)
<1>1. /\ wheelSlots' = wheelSlots /\ dispatched' = dispatched /\ clock' = clock
      /\ tick \in {"idle", "armed"} /\ tick' \in {"armed", "scan"}
  BY DEF TickUpdate, listVars
<1>2. /\ slot' = slot /\ add[a] = "notify" /\ add'[a] = "out"
      /\ \A b \in Adders \ {a} : add'[b] = add[b]
  BY DEF TickUpdate, WheelInv, WheelTypeOK
<1>3. ASSUME NEW s \in wheelSlots, s # slot[a] PROVE Announcing(s)' <=> Announcing(s)
  BY <1>2, <1>3 DEF Announcing
<1>4. CASE slot[a] \in wheelSlots /\ \A s : s = slot[a] => ~Announcing(s)'
  <2>1. Announced' = Announced \cup {slot[a]}
    BY <1>1, <1>3, <1>4 DEF Announced
  <2>2. Promise!Announce(slot[a])
    BY <1>1, <1>4, <2>1 DEF Promise!Announce, Announced
  <2> QED  BY <1>4, <2>2 DEF Promise!Next
<1>5. CASE ~(slot[a] \in wheelSlots /\ \A s : s = slot[a] => ~Announcing(s)')
  <2>1. Announcing(slot[a])
    BY <1>2 DEF Announcing
  <2>2. \A s \in wheelSlots : Announcing(s)' <=> Announcing(s)
    BY <1>3, <1>5, <2>1
  <2>3. UNCHANGED Promise!vars
    BY <1>1, <2>2, InvisibleStep
  <2> QED  BY <2>3
<1> QED  BY <1>4, <1>5

(* Every step of the wheel is a step of the scheduler or invisible to it. *)
LEMMA StepRefines == WheelInv /\ [WheelNext]_twVars => [Promise!Next]_(Promise!vars)
<1> SUFFICES ASSUME WheelInv, [WheelNext]_twVars PROVE [Promise!Next]_(Promise!vars)
  OBVIOUS
<1> USE DEF listVars, addVars, tickVars, stopVars
<1>1. ASSUME NEW a \in Adders, NEW t \in Time, AddLoad(a, t)
      PROVE  [Promise!Next]_(Promise!vars)
  <2>1. /\ add[a] = "out" /\ add'[a] = "push"
        /\ \A b \in Adders \ {a} : slot'[b] = slot[b] /\ add'[b] = add[b]
    BY <1>1 DEF AddLoad, WheelInv, WheelTypeOK
  <2>2. \A s \in wheelSlots : Announcing(s)' <=> Announcing(s)
    BY <2>1 DEF Announcing
  <2>3. UNCHANGED <<wheelSlots, dispatched, clock, tick>>
    BY <1>1 DEF AddLoad
  <2> QED  BY <2>2, <2>3, InvisibleStep
<1>2. ASSUME NEW a \in Adders, AddPush(a) PROVE [Promise!Next]_(Promise!vars)
  <2> DEFINE n == slot'[a]
  <2>1. /\ wheelSlots' = wheelSlots \cup {n}
        /\ UNCHANGED <<dispatched, clock, tick>>
    BY <1>2 DEF AddPush
  <2>2. /\ n \notin wheelSlots \cup dispatched
        /\ \A s : s = n => Announcing(s)'
        /\ \A s \in wheelSlots : Announcing(s)' <=> Announcing(s)
    BY <1>2, AnnouncingPush DEF WheelInv
  <2> HIDE DEF n
  <2>3. Announced' = Announced
    BY <2>1, <2>2 DEF Announced
  <2>4. Promise!Schedule(n)
    BY <2>1, <2>2, <2>3 DEF Promise!Schedule, Announced
  <2>5. n \in wheelSlots'
    BY <2>1
  <2> QED  BY <2>4, <2>5 DEF Promise!Next
<1>3. ASSUME NEW a \in Adders, AddPanic(a) PROVE [Promise!Next]_(Promise!vars)
  <2>1. /\ add[a] = "notify" /\ add'[a] = "panicked" /\ slot' = slot
        /\ \A b \in Adders \ {a} : add'[b] = add[b]
    BY <1>3 DEF AddPanic, WheelInv, WheelTypeOK
  <2>2. \A s \in wheelSlots : Announcing(s)' <=> Announcing(s)
    BY <2>1 DEF Announcing
  <2>3. UNCHANGED <<wheelSlots, dispatched, clock, tick>>
    BY <1>3 DEF AddPanic
  <2> QED  BY <2>2, <2>3, InvisibleStep
<1>4. ASSUME NEW a \in Adders, TickUpdate(a) PROVE [Promise!Next]_(Promise!vars)
  BY <1>4, UpdateRefines
<1>5. CASE TickTimer
  <2>1. /\ closest \in wheelSlots /\ tick = "armed" /\ tick' = "scan"
        /\ closest.time <= clock /\ clock' = clock
        /\ wheelSlots' = wheelSlots \ {closest} /\ dispatched' = dispatched \cup {closest}
        /\ add' = add /\ slot' = slot
    BY <1>5 DEF TickTimer, WheelInv, ClosestStaysListed
  <2>2. \A o \in Announced : closest.time <= o.time
    BY <2>1 DEF WheelInv, NoMissedWakeup, Announced
  <2>3. Announced' = Announced \ {closest}
    BY <2>1 DEF Announced, Announcing
  <2>4. Promise!Fire(closest)
    BY <2>1, <2>2, <2>3 DEF Promise!Fire, Announced
  <2> QED  BY <2>1, <2>4 DEF Promise!Next
<1>6. CASE SendStop
  <2>1. Announced' = Announced
    BY <1>6 DEF SendStop, Announced, Announcing
  <2>2. Promise!Stop
    BY <1>6, <2>1 DEF SendStop, Promise!Stop, Announced
  <2> QED  BY <2>2 DEF Promise!Next
<1>7. CASE Advance
  <2>1. Announced' = Announced
    BY <1>7 DEF Advance, Announced, Announcing
  <2>2. Promise!Advance
    BY <1>7, <2>1 DEF Advance, Promise!Advance, Announced
  <2> QED  BY <2>2 DEF Promise!Next
<1>8. CASE TickScan \/ SetStopped \/ CloseAck \/ CloseUpdates \/ UNCHANGED twVars
  <2>1. \A s \in wheelSlots : Announcing(s)' <=> Announcing(s)
    BY <1>8 DEF TickScan, SetStopped, CloseAck, CloseUpdates, twVars, Announcing
  <2>2. /\ UNCHANGED <<wheelSlots, dispatched, clock>>
        /\ (tick \in {"ack", "done"})' <=> tick \in {"ack", "done"}
    BY <1>8 DEF TickScan, SetStopped, CloseAck, CloseUpdates, twVars
  <2> QED  BY <2>1, <2>2, InvisibleStep
<1> QED  BY <1>1, <1>2, <1>3, <1>4, <1>5, <1>6, <1>7, <1>8 DEF WheelNext

(* The goroutines, channels and timers of timewheel.go implement the        *)
(* abstract scheduler: a slot is fired once, not before its time, never     *)
(* past an announced earlier slot and never after the wheel was stopped.    *)
THEOREM WheelImplementsScheduler == WheelSpec => ImplementsScheduler
<1>1. WheelInit => Promise!Init
  BY DEF WheelInit, Promise!Init
<1> QED  BY <1>1, StepRefines, WheelInvariant, PTL DEF WheelSpec, ImplementsScheduler, Promise!Spec
==============================================================================
