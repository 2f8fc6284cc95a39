-------------------------------- MODULE Queue --------------------------------
(***************************************************************************)
(* internal/target/queue/queue.go: the on-disk delivery queue.             *)
(*                                                                         *)
(* A message source opens a delivery, adds recipients, has the message     *)
(* stored (ID.header, ID.body, ID.meta) and commits it, which puts a slot  *)
(* on the time wheel.  The wheel's tick goroutine starts one goroutine per *)
(* slot, which tries the recipients still in the metadata, sends a bounce  *)
(* for those that failed for good, rewrites the metadata with those to be  *)
(* retried and puts a new slot on the wheel, or removes the files.  A      *)
(* restart rebuilds the slots from the metadata files.                     *)
(*                                                                         *)
(* The wheel appears by what TimeWheel shows about it: Add is a check of   *)
(* the stopped flag, a push and a notification; a pushed slot may be       *)
(* dispatched as long as the tick goroutine lives; a notification that     *)
(* meets the closed channel panics.  Target times are left out: every slot *)
(* may be the next one to be due.                                          *)
(***************************************************************************)
EXTENDS Naturals, FiniteSets

CONSTANTS
    Msgs,           \* message IDs
    Rcpts,          \* recipient addresses
    Workers,        \* identities for the goroutines started by dispatch
    MaxTries,       \* q.maxTries
    MaxParallelism, \* cap(q.deliverySemaphore)
    Partial,        \* TRUE: the target implements PartialDelivery
    FaultKinds,     \* the faults that may happen in a behaviour
    MaxFaults,      \* bound: how many faults happen
    MaxCloses       \* bound: how often the process is stopped with Close

ASSUME QueueAssumption ==
    /\ Msgs # {}
    /\ MaxTries \in Nat \ {0}
    /\ MaxParallelism \in Nat \ {0}
    /\ Partial \in BOOLEAN
    /\ MaxFaults \in Nat
    /\ MaxCloses \in Nat

VARIABLES
    proc,           \* the process: "down", "load" (in start), "up"
    toLoad,         \* entries of the directory listing readDiskQueue still has to visit
    wheel,          \* the wheel and the Close call that stops it
    slots,          \* slots on the wheel
    sess,           \* where the source's delivery of each message is
    qdTo,           \* queueDelivery.meta.To of each message
    disk,           \* files of each message
    wpc,            \* where each delivery goroutine is
    wmsg,           \* its slot.ID
    wmeta,          \* its QueueMetadata
    werr,           \* its partialError.Errs
    wacc,           \* its acceptedRcpts
    accepted,       \* recipients of each message whose Commit returned nil
    attempts,       \* how often the target was asked to deliver to a recipient
    delivered,      \* how often the target took the message for a recipient
    reported,       \* recipients handed to emitDSN
    faults,         \* number of faults so far
    closes          \* number of Close calls so far

workVars  == <<wpc, wmsg, wmeta, werr, wacc>>
sessVars  == <<sess, qdTo, accepted>>
wheelVars == <<wheel, slots>>
procVars  == <<proc, toLoad, closes>>
histVars  == <<attempts, delivered, reported>>
vars == <<workVars, sessVars, wheelVars, procVars, histVars, disk, faults>>

------------------------------------------------------------------------------
(* QueueMetadata: the recipients to try next and how often each was tried.  *)
(* A message without recipients is never stored, so an empty To stands for  *)
(* the absent metadata (a missing file, a nil slot.Meta).                   *)
Meta == [to : SUBSET Rcpts, tries : [Rcpts -> 0 .. MaxTries]]
NewMeta(to) == [to |-> to, tries |-> [r \in Rcpts |-> 0]]
NoMeta == NewMeta({})

Files == [header : BOOLEAN, body : {"none", "partial", "full"}, meta : Meta, broken : Meta]
NoFiles == [header |-> FALSE, body |-> "none", meta |-> NoMeta, broken |-> NoMeta]

Errs == [Rcpts -> {"none", "temp", "perm"}]
NoErrs == [r \in Rcpts |-> "none"]

(* The message an idle goroutine identity refers to, of no importance. *)
AnyMsg == CHOOSE m \in Msgs : TRUE

(* Who put a slot on the wheel. *)
Adder == Workers \cup {"commit", "load"}
Slot == [msg : Msgs, meta : Meta, by : Adder]

SessPc == {"new", "rcpt", "header", "create", "copied", "meta", "stored", "rmheader",
           "rmbody", "rmmeta", "push", "notify", "ok", "failed", "aborted", "panicked", "gone"}
WorkPc == {"idle", "wait", "open", "deliver", "data", "commit", "settle", "update",
           "rmheader", "rmbody", "rmmeta", "add", "push", "notify", "unwind", "discard", "release"}

(* Goroutines that have the delivery semaphore. *)
HasSemaphore(w) == wpc[w] \notin {"idle", "wait", "discard"}

(* A goroutine that works on the message: reads its files, talks to the     *)
(* target or changes the files.                                             *)
Attempting(w) ==
    wpc[w] \in {"open", "deliver", "data", "commit", "settle", "update",
                "rmheader", "rmbody", "rmmeta"}

TypeOK ==
    /\ proc \in {"down", "load", "up"}
    /\ toLoad \subseteq Msgs
    /\ wheel \in {"run", "stopping", "stopped", "closed", "returned"}
    /\ slots \subseteq Slot
    /\ sess \in [Msgs -> SessPc]
    /\ qdTo \in [Msgs -> SUBSET Rcpts]
    /\ disk \in [Msgs -> Files]
    /\ wpc \in [Workers -> WorkPc]
    /\ wmsg \in [Workers -> Msgs]
    /\ wmeta \in [Workers -> Meta]
    /\ werr \in [Workers -> Errs]
    /\ wacc \in [Workers -> SUBSET Rcpts]
    /\ accepted \in [Msgs -> SUBSET Rcpts]
    /\ attempts \in [Msgs -> [Rcpts -> Nat]]
    /\ delivered \in [Msgs -> [Rcpts -> Nat]]
    /\ reported \in [Msgs -> SUBSET Rcpts]
    /\ faults \in 0 .. MaxFaults
    /\ closes \in 0 .. MaxCloses

Init ==
    /\ proc = "up"
    /\ toLoad = {}
    /\ wheel = "run"
    /\ slots = {}
    /\ sess = [m \in Msgs |-> "new"]
    /\ qdTo = [m \in Msgs |-> {}]
    /\ disk = [m \in Msgs |-> NoFiles]
    /\ wpc = [w \in Workers |-> "idle"]
    /\ wmsg = [w \in Workers |-> AnyMsg]
    /\ wmeta = [w \in Workers |-> NoMeta]
    /\ werr = [w \in Workers |-> NoErrs]
    /\ wacc = [w \in Workers |-> {}]
    /\ accepted = [m \in Msgs |-> {}]
    /\ attempts = [m \in Msgs |-> [r \in Rcpts |-> 0]]
    /\ delivered = [m \in Msgs |-> [r \in Rcpts |-> 0]]
    /\ reported = [m \in Msgs |-> {}]
    /\ faults = 0
    /\ closes = 0

(* One of the outcomes the code has to expect and that should be rare. *)
Fault(kind) ==
    /\ kind \in FaultKinds
    /\ faults < MaxFaults
    /\ faults' = faults + 1

NoFault == UNCHANGED faults

(* The flag Add reads, the goroutine that takes notifications, the channel. *)
Stopped == wheel # "run"
TickAlive == wheel \in {"run", "stopping"}
UpdateClosed == wheel \in {"closed", "returned"}

------------------------------------------------------------------------------
(* The files of a message after one of them was written, removed or renamed. *)

WithHeader(f)     == [f EXCEPT !.header = TRUE]
WithBody(f, b)    == [f EXCEPT !.body = b]
WithMeta(f, meta) == [f EXCEPT !.meta = meta]
WithoutHeader(f)  == [f EXCEPT !.header = FALSE]
WithoutBody(f)    == [f EXCEPT !.body = "none"]
WithoutMeta(f)    == [f EXCEPT !.meta = NoMeta]
Quarantined(f)    == [f EXCEPT !.broken = f.meta, !.meta = NoMeta]

(* removeFromDisk, for an aborting source and for a delivery goroutine.     *)
(* Every os.Remove may fail; the error is logged and the next file follows. *)

RemoveFile(m, without) ==
    \/ disk' = [disk EXCEPT ![m] = without] /\ NoFault
    \/ UNCHANGED disk /\ Fault("remove")

------------------------------------------------------------------------------
(* The message source: Start, AddRcpt, Body, Abort, Commit of queueDelivery *)

SessStep(m, from, to) ==
    /\ proc = "up"
    /\ sess[m] = from
    /\ sess' = [sess EXCEPT ![m] = to]

Start(m) ==
    /\ SessStep(m, "new", "rcpt")
    /\ UNCHANGED <<qdTo, accepted, disk, faults, workVars, wheelVars, procVars, histVars>>

AddRcpt(m, r) ==
    /\ proc = "up"
    /\ sess[m] = "rcpt"
    /\ qdTo' = [qdTo EXCEPT ![m] = @ \cup {r}]
    /\ UNCHANGED <<sess, accepted, disk, faults, workVars, wheelVars, procVars, histVars>>

(* storeNewMessage, one action for each point where a kill leaves another   *)
(* set of files behind.  Creating the header file, writing it and opening   *)
(* the body: a failure removes the header again.                            *)
StoreHeader(m) ==
    /\ qdTo[m] # {}
    /\ \/ /\ SessStep(m, "rcpt", "header")
          /\ disk' = [disk EXCEPT ![m] = WithHeader(@)]
          /\ NoFault
       \/ /\ SessStep(m, "rcpt", "failed")
          /\ Fault("store")
          /\ UNCHANGED disk
    /\ UNCHANGED <<qdTo, accepted, workVars, wheelVars, procVars, histVars>>

(* Seeded fault: the metadata is written before the body has been copied. *)
StoreBodyCreateMetaFirst(m) ==
    /\ SessStep(m, "header", "create")
    /\ disk' = [disk EXCEPT ![m] = WithMeta(WithBody(@, "partial"), NewMeta(qdTo[m]))]
    /\ NoFault
    /\ UNCHANGED <<qdTo, accepted, workVars, wheelVars, procVars, histVars>>

(* The one failure of storeNewMessage that leaves the header file behind. *)
StoreBodyCreate(m) ==
    /\ \/ /\ SessStep(m, "header", "create")
          /\ disk' = [disk EXCEPT ![m] = WithBody(@, "partial")]
          /\ NoFault
       \/ /\ SessStep(m, "header", "failed")
          /\ Fault("store")
          /\ UNCHANGED disk
    /\ UNCHANGED <<qdTo, accepted, workVars, wheelVars, procVars, histVars>>

StoreBodyCopy(m) ==
    /\ \/ /\ SessStep(m, "create", "copied")
          /\ disk' = [disk EXCEPT ![m] = WithBody(@, "full")]
          /\ NoFault
       \/ /\ SessStep(m, "create", "failed")
          /\ Fault("store")
          /\ disk' = [disk EXCEPT ![m] = WithoutHeader(WithoutBody(@))]
    /\ UNCHANGED <<qdTo, accepted, workVars, wheelVars, procVars, histVars>>

(* updateMetadataOnDisk writes ID.meta.new and renames it over ID.meta: for *)
(* the reader the new metadata is there or it is not.                       *)
StoreMeta(m) ==
    /\ \/ /\ SessStep(m, "copied", "meta")
          /\ disk' = [disk EXCEPT ![m] = WithMeta(@, NewMeta(qdTo[m]))]
          /\ NoFault
       \/ /\ SessStep(m, "copied", "failed")
          /\ Fault("store")
          /\ disk' = [disk EXCEPT ![m] = WithoutHeader(WithoutBody(@))]
    /\ UNCHANGED <<qdTo, accepted, workVars, wheelVars, procVars, histVars>>

(* The Sync calls come last; when one fails Body fails and the files stay. *)
StoreSync(m) ==
    /\ \/ SessStep(m, "meta", "stored") /\ NoFault
       \/ SessStep(m, "meta", "failed") /\ Fault("sync")
    /\ UNCHANGED <<qdTo, accepted, disk, workVars, wheelVars, procVars, histVars>>

(* Abort removes the files only when Body has succeeded. *)
Abort(m) ==
    /\ SessStep(m, "rcpt", "aborted") \/ SessStep(m, "stored", "rmheader")
    /\ UNCHANGED <<qdTo, accepted, disk, faults, workVars, wheelVars, procVars, histVars>>

AbortRemove(m) ==
    /\ \/ SessStep(m, "rmheader", "rmbody") /\ RemoveFile(m, WithoutHeader(disk[m]))
       \/ SessStep(m, "rmbody", "rmmeta") /\ RemoveFile(m, WithoutBody(disk[m]))
       \/ SessStep(m, "rmmeta", "aborted") /\ RemoveFile(m, WithoutMeta(disk[m]))
    /\ UNCHANGED <<qdTo, accepted, workVars, wheelVars, procVars, histVars>>

(* Commit: wheel.Add with the metadata in memory.  An Add that finds the    *)
(* wheel stopped returns without doing anything, and Commit succeeds.       *)
Accept(m) == accepted' = [accepted EXCEPT ![m] = qdTo[m]]

Commit(m) ==
    /\ \/ Stopped /\ SessStep(m, "stored", "ok") /\ Accept(m)
       \/ ~Stopped /\ SessStep(m, "stored", "push") /\ UNCHANGED accepted
    /\ UNCHANGED <<qdTo, disk, faults, workVars, wheelVars, procVars, histVars>>

CommitPush(m) ==
    /\ SessStep(m, "push", "notify")
    /\ slots' = slots \cup {[msg |-> m, meta |-> NewMeta(qdTo[m]), by |-> "commit"]}
    /\ UNCHANGED <<wheel, qdTo, accepted, disk, faults, workVars, procVars, histVars>>

CommitNotify(m) ==
    /\ \/ TickAlive /\ SessStep(m, "notify", "ok") /\ Accept(m)
       \/ UpdateClosed /\ SessStep(m, "notify", "panicked") /\ UNCHANGED accepted
    /\ UNCHANGED <<qdTo, disk, faults, workVars, wheelVars, procVars, histVars>>

------------------------------------------------------------------------------
(* dispatch: the tick goroutine takes a slot off the wheel and starts a     *)
(* goroutine for it.                                                        *)

WorkStep(w, from, to) ==
    /\ wpc[w] = from
    /\ wpc' = [wpc EXCEPT ![w] = to]

Dispatch(s, w) ==
    /\ proc # "down"
    /\ TickAlive
    /\ WorkStep(w, "idle", "wait")
    /\ slots' = slots \ {s}
    /\ wmsg' = [wmsg EXCEPT ![w] = s.msg]
    /\ wmeta' = [wmeta EXCEPT ![w] = s.meta]
    /\ UNCHANGED <<wheel, werr, wacc, sessVars, procVars, histVars, disk, faults>>

Acquire(w) ==
    /\ Cardinality({v \in Workers : HasSemaphore(v)}) < MaxParallelism
    /\ WorkStep(w, "wait", IF wmeta[w] = NoMeta THEN "open" ELSE "deliver")
    /\ UNCHANGED <<wmsg, wmeta, werr, wacc, sessVars, wheelVars, procVars, histVars, disk, faults>>

(* openMessage: files that lost their counterpart are cleaned up, and a     *)
(* message that cannot be read is dropped from the schedule.                *)
OpenFails(w) ==
    /\ WorkStep(w, "open", "release")
    /\ LET f == disk[wmsg[w]] IN
       \/ f.meta = NoMeta /\ UNCHANGED disk /\ NoFault
       \/ /\ f.meta # NoMeta /\ f.body = "none"
          /\ disk' = [disk EXCEPT ![wmsg[w]] = WithoutMeta(@)]
          /\ NoFault
       \/ /\ f.meta # NoMeta /\ f.body # "none" /\ ~f.header
          /\ disk' = [disk EXCEPT ![wmsg[w]] = WithoutMeta(WithoutBody(@))]
          /\ NoFault
       \/ Fault("read") /\ UNCHANGED disk
    /\ UNCHANGED <<wmsg, wmeta, werr, wacc, sessVars, wheelVars, procVars, histVars>>

OpenMessage(w) ==
    /\ WorkStep(w, "open", "deliver")
    /\ disk[wmsg[w]].meta # NoMeta
    /\ disk[wmsg[w]].body # "none"
    /\ disk[wmsg[w]].header
    /\ wmeta' = [wmeta EXCEPT ![w] = disk[wmsg[w]].meta]
    /\ UNCHANGED <<wmsg, werr, wacc, sessVars, wheelVars, procVars, histVars, disk, faults>>

------------------------------------------------------------------------------
(* deliver: the target may take any decision its interface allows.          *)

(* The errors of q.Target.Start (the same one for everybody) or of AddRcpt. *)
StartErrs(to) ==
    {[r \in Rcpts |-> IF r \in to THEN e ELSE "none"] : e \in {"temp", "perm"}}
AddRcptErrs(to) ==
    {e \in Errs : \A r \in Rcpts \ to : e[r] = "none"}

DeliverStart(w) ==
    LET to == wmeta[w].to IN
    /\ \E e \in StartErrs(to) \cup AddRcptErrs(to) :
          /\ werr' = [werr EXCEPT ![w] = e]
          /\ wacc' = [wacc EXCEPT ![w] = {r \in to : e[r] = "none"}]
          /\ WorkStep(w, "deliver", IF \E r \in to : e[r] = "none" THEN "data" ELSE "settle")
    /\ attempts' = [attempts EXCEPT ![wmsg[w]] =
          [r \in Rcpts |-> IF r \in to THEN @[r] + 1 ELSE @[r]]]
    /\ UNCHANGED <<wmsg, wmeta, delivered, reported, sessVars, wheelVars, procVars, disk, faults>>

(* Errors are recorded for accepted recipients only: one error for all of   *)
(* them, or one for each when the target implements PartialDelivery.        *)
BodyErrs(w) ==
    {e \in Errs :
        /\ \A r \in Rcpts \ wacc[w] : e[r] = werr[w][r]
        /\ Partial \/ \A r, q \in wacc[w] : e[r] = e[q]}

DeliverBody(w) ==
    /\ \E e \in BodyErrs(w) :
          /\ werr' = [werr EXCEPT ![w] = e]
          /\ WorkStep(w, "data", IF \E r \in wacc[w] : e[r] = "none" THEN "commit" ELSE "settle")
    /\ UNCHANGED <<wmsg, wmeta, wacc, sessVars, wheelVars, procVars, histVars, disk, faults>>

Took(m, R) ==
    delivered' = [delivered EXCEPT ![m] = [r \in Rcpts |-> IF r \in R THEN @[r] + 1 ELSE @[r]]]

(* A failed Commit overwrites the errors of all accepted recipients.  The   *)
(* target should not fail there, since part of the message may be through.  *)
DeliverCommit(w) ==
    /\ WorkStep(w, "commit", "settle")
    /\ LET through == {r \in wacc[w] : werr[w][r] = "none"} IN
       \/ /\ Took(wmsg[w], through)
          /\ NoFault
          /\ UNCHANGED werr
       \/ \E part \in SUBSET through, e \in {"temp", "perm"} :
          /\ Fault("commit")
          /\ Took(wmsg[w], part)
          /\ werr' = [werr EXCEPT ![w] = [r \in Rcpts |-> IF r \in wacc[w] THEN e ELSE @[r]]]
    /\ UNCHANGED <<wmsg, wmeta, wacc, attempts, reported, sessVars, wheelVars, procVars, disk>>

DeliverPanic(w) ==
    /\ \E pc \in {"deliver", "data", "commit"} : WorkStep(w, pc, "unwind")
    /\ Fault("panic")
    /\ UNCHANGED <<wmsg, wmeta, werr, wacc, sessVars, wheelVars, procVars, histVars, disk>>

------------------------------------------------------------------------------
(* tryDelivery after deliver *)

LastTry(w, r) == wmeta[w].tries[r] + 1 >= MaxTries
FailedRcpts(w) ==
    {r \in wmeta[w].to : werr[w][r] = "perm" \/ (werr[w][r] = "temp" /\ LastTry(w, r))}
(* Seeded fault: one temporary failure brings everybody back. *)
NewRcptsAll(w) ==
    {r \in wmeta[w].to : \E q \in wmeta[w].to : werr[w][q] = "temp" /\ ~LastTry(w, q)}

NewRcpts(w) ==
    {r \in wmeta[w].to : werr[w][r] = "temp" /\ ~LastTry(w, r)}
TriesCount(w) ==
    [r \in Rcpts |-> IF r \in NewRcpts(w) THEN wmeta[w].tries[r] + 1
                     ELSE IF r \in FailedRcpts(w) THEN 0
                     ELSE wmeta[w].tries[r]]

(* Seeded fault: bounces are sent only when nobody is left to retry. *)
SettleLateBounce(w) ==
    /\ WorkStep(w, "settle", IF NewRcpts(w) = {} THEN "rmheader" ELSE "update")
    /\ reported' = [reported EXCEPT ![wmsg[w]] =
          IF NewRcpts(w) = {} THEN @ \cup FailedRcpts(w) ELSE @]
    /\ wmeta' = [wmeta EXCEPT ![w] = [to |-> NewRcpts(w), tries |-> TriesCount(w)]]
    /\ UNCHANGED <<wmsg, werr, wacc, attempts, delivered, sessVars, wheelVars, procVars, disk, faults>>

(* Seeded fault: the retry is scheduled before the metadata is rewritten. *)
SettleAddsEarly(w) ==
    /\ WorkStep(w, "settle", IF NewRcpts(w) = {} THEN "rmheader" ELSE "update")
    /\ reported' = [reported EXCEPT ![wmsg[w]] = @ \cup FailedRcpts(w)]
    /\ wmeta' = [wmeta EXCEPT ![w] = [to |-> NewRcpts(w), tries |-> TriesCount(w)]]
    /\ slots' = IF NewRcpts(w) = {} THEN slots
                ELSE slots \cup {[msg |-> wmsg[w], meta |-> NoMeta, by |-> w]}
    /\ UNCHANGED <<wheel, wmsg, werr, wacc, attempts, delivered, sessVars, procVars, disk, faults>>

(* emitDSN for the recipients that failed for good, before the metadata     *)
(* forgets them.  A bounce that cannot be generated or queued is logged.    *)
Settle(w) ==
    /\ WorkStep(w, "settle", IF NewRcpts(w) = {} THEN "rmheader" ELSE "update")
    /\ reported' = [reported EXCEPT ![wmsg[w]] = @ \cup FailedRcpts(w)]
    /\ wmeta' = [wmeta EXCEPT ![w] = [to |-> NewRcpts(w), tries |-> TriesCount(w)]]
    /\ UNCHANGED <<wmsg, werr, wacc, attempts, delivered, sessVars, wheelVars, procVars, disk, faults>>

(* An error of updateMetadataOnDisk is logged and the retry goes on. *)
Update(w) ==
    /\ WorkStep(w, "update", "add")
    /\ \/ disk' = [disk EXCEPT ![wmsg[w]] = WithMeta(@, wmeta[w])] /\ NoFault
       \/ UNCHANGED disk /\ Fault("update")
    /\ UNCHANGED <<wmsg, wmeta, werr, wacc, sessVars, wheelVars, procVars, histVars>>

Remove(w) ==
    /\ \/ WorkStep(w, "rmheader", "rmbody") /\ RemoveFile(wmsg[w], WithoutHeader(disk[wmsg[w]]))
       \/ WorkStep(w, "rmbody", "rmmeta") /\ RemoveFile(wmsg[w], WithoutBody(disk[wmsg[w]]))
       \/ WorkStep(w, "rmmeta", "release") /\ RemoveFile(wmsg[w], WithoutMeta(disk[wmsg[w]]))
    /\ UNCHANGED <<wmsg, wmeta, werr, wacc, sessVars, wheelVars, procVars, histVars>>

(* wheel.Add for the retry: a slot without metadata, to be read from disk.  *)
Retry(w) ==
    /\ WorkStep(w, "add", IF Stopped THEN "release" ELSE "push")
    /\ UNCHANGED <<wmsg, wmeta, werr, wacc, sessVars, wheelVars, procVars, histVars, disk, faults>>

RetryPush(w) ==
    /\ WorkStep(w, "push", "notify")
    /\ slots' = slots \cup {[msg |-> wmsg[w], meta |-> NoMeta, by |-> w]}
    /\ UNCHANGED <<wheel, wmsg, wmeta, werr, wacc, sessVars, procVars, histVars, disk, faults>>

RetryNotify(w) ==
    /\ \/ TickAlive /\ WorkStep(w, "notify", "release")
       \/ UpdateClosed /\ WorkStep(w, "notify", "unwind")
    /\ UNCHANGED <<wmsg, wmeta, werr, wacc, sessVars, wheelVars, procVars, histVars, disk, faults>>

(* The deferred function: the semaphore and the wait group come first, the  *)
(* recovery of a panic after them.                                          *)
Forget(w) ==
    /\ wmsg' = [wmsg EXCEPT ![w] = AnyMsg]
    /\ wmeta' = [wmeta EXCEPT ![w] = NoMeta]
    /\ werr' = [werr EXCEPT ![w] = NoErrs]
    /\ wacc' = [wacc EXCEPT ![w] = {}]

Release(w) ==
    /\ \/ WorkStep(w, "release", "idle") /\ Forget(w)
       \/ WorkStep(w, "unwind", "discard") /\ UNCHANGED <<wmsg, wmeta, werr, wacc>>
    /\ UNCHANGED <<sessVars, wheelVars, procVars, histVars, disk, faults>>

(* discardBroken renames ID.meta to ID.meta_broken. *)
DiscardBroken(w) ==
    /\ WorkStep(w, "discard", "idle")
    /\ disk' = [disk EXCEPT ![wmsg[w]] = IF @.meta = NoMeta THEN @ ELSE Quarantined(@)]
    /\ Forget(w)
    /\ UNCHANGED <<sessVars, wheelVars, procVars, histVars, faults>>

------------------------------------------------------------------------------
(* Close: stop the wheel, then wait for the delivery goroutines.            *)

CloseStep(from, to) ==
    /\ proc = "up"
    /\ wheel = from
    /\ wheel' = to
    /\ UNCHANGED <<slots, workVars, sessVars, histVars, disk, faults, proc, toLoad>>

CloseStore == CloseStep("run", "stopping") /\ closes < MaxCloses /\ closes' = closes + 1
CloseStop  == CloseStep("stopping", "stopped") /\ UNCHANGED closes
CloseChan  == CloseStep("stopped", "closed") /\ UNCHANGED closes

(* Seeded fault: deliveryWg.Add is called after the semaphore was acquired. *)
InWaitGroupLate(w) == wpc[w] \notin {"idle", "wait", "discard"}

(* deliveryWg counts a goroutine from dispatch to the deferred Done call. *)
InWaitGroup(w) == wpc[w] \notin {"idle", "discard"}

CloseWait ==
    /\ \A w \in Workers : ~InWaitGroup(w)
    /\ CloseStep("closed", "returned")
    /\ UNCHANGED closes

------------------------------------------------------------------------------
(* The end of the process, killed or after Close, and the next start.       *)

Vanish ==
    /\ proc' = "down"
    /\ toLoad' = {}
    /\ wheel' = "run"
    /\ slots' = {}
    /\ wpc' = [w \in Workers |-> "idle"]
    /\ wmsg' = [w \in Workers |-> AnyMsg]
    /\ wmeta' = [w \in Workers |-> NoMeta]
    /\ werr' = [w \in Workers |-> NoErrs]
    /\ wacc' = [w \in Workers |-> {}]
    /\ sess' = [m \in Msgs |->
          IF sess[m] \in {"new", "ok", "failed", "aborted", "panicked"} THEN sess[m] ELSE "gone"]
    /\ UNCHANGED <<qdTo, accepted, histVars, disk, closes>>

Kill == proc # "down" /\ Fault("kill") /\ Vanish

Exit == wheel = "returned" /\ NoFault /\ Vanish

(* start: the wheel runs, readDiskQueue lists the directory. *)
StartUp ==
    /\ proc = "down"
    /\ proc' = "load"
    /\ toLoad' = {m \in Msgs : disk[m].meta # NoMeta}
    /\ UNCHANGED <<closes, workVars, sessVars, wheelVars, histVars, disk, faults>>

(* One turn of readDiskQueue's loop: metadata that cannot be read is        *)
(* skipped, metadata without header or body is removed with what is left.   *)
LoadSkip(m) ==
    /\ proc = "load"
    /\ m \in toLoad
    /\ toLoad' = toLoad \ {m}
    /\ \/ /\ ~disk[m].header
          /\ disk' = [disk EXCEPT ![m] = WithoutBody(WithoutMeta(@))]
          /\ NoFault
       \/ /\ disk[m].header /\ disk[m].body = "none"
          /\ disk' = [disk EXCEPT ![m] = WithoutHeader(WithoutMeta(@))]
          /\ NoFault
       \/ Fault("read") /\ UNCHANGED disk
    /\ UNCHANGED <<proc, closes, workVars, sessVars, wheelVars, histVars>>

(* Seeded fault: a message that was stored and never tried is not scheduled. *)
LoadSlotTriedOnly(m) ==
    /\ proc = "load"
    /\ m \in toLoad
    /\ disk[m].header /\ disk[m].body # "none"
    /\ toLoad' = toLoad \ {m}
    /\ slots' = IF \E r \in disk[m].meta.to : disk[m].meta.tries[r] > 0
                THEN slots \cup {[msg |-> m, meta |-> NoMeta, by |-> "load"]} ELSE slots
    /\ UNCHANGED <<proc, closes, wheel, workVars, sessVars, histVars, disk, faults>>

LoadSlot(m) ==
    /\ proc = "load"
    /\ m \in toLoad
    /\ disk[m].header /\ disk[m].body # "none"
    /\ toLoad' = toLoad \ {m}
    /\ slots' = slots \cup {[msg |-> m, meta |-> NoMeta, by |-> "load"]}
    /\ UNCHANGED <<proc, closes, wheel, workVars, sessVars, histVars, disk, faults>>

LoadDone ==
    /\ proc = "load"
    /\ toLoad = {}
    /\ proc' = "up"
    /\ UNCHANGED <<toLoad, closes, workVars, sessVars, wheelVars, histVars, disk, faults>>

------------------------------------------------------------------------------

SessNext(m) ==
    \/ Start(m) \/ \E r \in Rcpts : AddRcpt(m, r)
    \/ StoreHeader(m) \/ StoreBodyCreate(m) \/ StoreBodyCopy(m) \/ StoreMeta(m) \/ StoreSync(m)
    \/ Abort(m) \/ AbortRemove(m)
    \/ Commit(m) \/ CommitPush(m) \/ CommitNotify(m)

WorkNext(w) ==
    \/ Acquire(w) \/ OpenMessage(w) \/ OpenFails(w)
    \/ DeliverStart(w) \/ DeliverBody(w) \/ DeliverCommit(w) \/ DeliverPanic(w)
    \/ Settle(w) \/ Update(w) \/ Remove(w)
    \/ Retry(w) \/ RetryPush(w) \/ RetryNotify(w)
    \/ Release(w) \/ DiscardBroken(w)

CloseNext == CloseStore \/ CloseStop \/ CloseChan \/ CloseWait

BootNext == Kill \/ Exit \/ StartUp \/ LoadDone \/ \E m \in Msgs : LoadSkip(m) \/ LoadSlot(m)

Next ==
    \/ \E m \in Msgs : SessNext(m)
    \/ \E s \in slots, w \in Workers : Dispatch(s, w)
    \/ \E w \in Workers : WorkNext(w)
    \/ CloseNext
    \/ BootNext

Spec == Init /\ [][Next]_vars

(* Goroutines that can run do run, a slot on the wheel is dispatched        *)
(* (TimeWheel, EventuallyDispatched), whoever waits for the semaphore gets  *)
(* it, and the service manager starts the process again.                    *)
Fairness ==
    /\ \A m \in Msgs : WF_vars(CommitPush(m)) /\ WF_vars(CommitNotify(m))
    /\ \A w \in Workers : WF_vars(WorkNext(w))
    /\ \A m \in Msgs : WF_vars(\E s \in slots, w \in Workers : s.msg = m /\ Dispatch(s, w))
    /\ WF_vars(CloseStop) /\ WF_vars(CloseChan) /\ WF_vars(CloseWait)
    /\ WF_vars(Exit) /\ WF_vars(StartUp) /\ WF_vars(LoadDone)
    /\ \A m \in Msgs : WF_vars(LoadSkip(m) \/ LoadSlot(m))

FairSpec == Spec /\ Fairness

------------------------------------------------------------------------------
(* Properties *)

(* The target took the message for this recipient, or a bounce was due and  *)
(* emitDSN was called for it.                                               *)
Disposed(m, r) == delivered[m][r] > 0 \/ r \in reported[m]

(* No recipient is forgotten: once Commit has told the source that the      *)
(* message is queued, every recipient of it is delivered to, reported as    *)
(* failed or still named by a metadata file, whatever is killed, fails or   *)
(* panics in between.                                                       *)
RcptAccounted ==
    \A m \in Msgs : \A r \in accepted[m] :
        Disposed(m, r) \/ r \in disk[m].meta.to \/ r \in disk[m].broken.to

(* "Amount of attempts for each message is limited to a certain configured  *)
(* number" (queue.go:52): beyond max_tries there is at most one attempt for *)
(* every fault that made the queue forget one, and a recipient gets the     *)
(* message once, and at most once more for every fault that hid the first   *)
(* delivery from the metadata.                                              *)
RetriesBounded ==
    \A m \in Msgs, r \in Rcpts :
        attempts[m][r] <= MaxTries + faults /\ delivered[m][r] <= 1 + faults

(* Whoever hands the message to the target finds a complete body file: it   *)
(* is neither removed yet nor a torso left by a killed storeNewMessage.     *)
ContentPresent ==
    \A w \in Workers : wpc[w] \in {"deliver", "data"} => disk[wmsg[w]].body = "full"

(* Two goroutines never work on one message at the same time: the next slot *)
(* is put on the wheel only when the files are in their final state.        *)
OneAttemptAtATime ==
    \A v, w \in Workers :
        v # w /\ Attempting(v) /\ Attempting(w) => wmsg[v] # wmsg[w]

(* When Queue.Close has returned no goroutine talks to the target or        *)
(* touches the files of a delivery attempt, and stopping the queue with     *)
(* Close and starting it again causes no duplicates and no further tries.   *)
CloseIsClean ==
    /\ wheel = "returned" => \A w \in Workers : ~Attempting(w)
    /\ RetriesBounded

(* The files of a message that is not quarantined. *)
Spooled(m) == disk[m].meta # NoMeta \/ disk[m].header \/ disk[m].body # "none"

(* Every accepted recipient is eventually delivered to or reported and the  *)
(* files of the message go away, unless the message was set aside as        *)
(* broken.                                                                  *)
EventuallySettled ==
    \A m \in Msgs :
        /\ \A r \in Rcpts : r \in accepted[m] ~> (Disposed(m, r) \/ r \in disk[m].broken.to)
        /\ accepted[m] # {} ~> (~Spooled(m) \/ disk[m].broken # NoMeta)

(* "All metadata is preserved on disk" (queue.go:30): stopping the queue    *)
(* with Close loses no recipient from the metadata readDiskQueue loads at   *)
(* the next start.                                                          *)
PreservedOnDisk ==
    \A m \in Msgs : \A r \in accepted[m] : Disposed(m, r) \/ r \in disk[m].meta.to

(* "At this point, it is safe on disk and next try will reread it"          *)
(* (queue.go:453-454): a retry is scheduled with its metadata on disk.      *)
SafeOnDisk ==
    \A w \in Workers : wpc[w] = "push" => disk[wmsg[w]].meta = wmeta[w]

(* "If this method fails, message is assumed to be undeliverable to all     *)
(* recipients" (framework/module/delivery_target.go, Delivery.Body).        *)
FailedBodyNotDelivered ==
    \A m \in Msgs, r \in Rcpts : sess[m] = "failed" => delivered[m][r] = 0
==============================================================================
