--------------------------- MODULE StorPortDriver ---------------------------
(***************************************************************************)
(* The Windows StorPort miniport (drivers/windows/ramshared) with the ring *)
(* the service shares with it.  StorPort calls HwStorStartIo on any        *)
(* processor, so a read or write runs QSubmit beside every other one and   *)
(* beside the service's IOCTLs; the service is one thread that registers   *)
(* the queue, fetches and completes requests with COMMIT_AND_FETCH, and    *)
(* unregisters, or dies and has its handle cleaned up.                     *)
(*                                                                         *)
(* A step is what runs between two points where another processor can      *)
(* interfere: one section under Q->Lock, one interlocked operation, one    *)
(* rundown call.  `windows` is history: the three gaps of the code, taken  *)
(* one by one in the README, record here that they were hit.               *)
(***************************************************************************)
EXTENDS Integers, Sequences, FiniteSets

CONSTANTS
  Srbs,       \* the requests StorPort may have outstanding
  Readers,    \* those of them that read; the others write
  QueueDepth, \* the registered queue_depth
  NoSrb       \* an empty Inflight[].Srb

ASSUME StorPortAssumption ==
  /\ Readers \subseteq Srbs /\ NoSrb \notin Srbs
  /\ QueueDepth \in Nat \ {0}

Tags == 1..QueueDepth

VARIABLES
  disk,       \* g_Active and its state: "none", "created" or "failed"
  registered, \* Q->Registered
  mapped,     \* are the rings and the data area mapped?
  count,      \* Q->IoRundown: the holders it counts
  closed,     \* Q->IoRundown: run down, so that acquiring fails
  slot,       \* Q->Inflight[].State
  holds,      \* Q->Inflight[].Srb
  sq,         \* the submission ring: tag and request of each entry
  cq,         \* the completion ring: tag and whether it was served
  data,       \* whose bytes each bounce slot holds
  th,         \* where the StartIo call of each request is
  owed,       \* how many completions StorPort still awaits of each request
  pended,     \* Q->PendedFetch is the service's IRP
  routine,    \* the IRP has a cancel routine
  irp,        \* the COMMIT IRP: "idle", "pending", "success" or "cancelled"
  svc,        \* where the service's thread is
  cur,        \* the completion it is working on: tag, request, served
  completed,  \* has this COMMIT completed a request?
  inq,        \* the INQUIRY handler: "idle" or "seen"
  inquirySeen, applied, \* Disk->InquirySeen; is AppliedQueueDepth the registered depth?
  windows     \* which gaps were hit: "reset", "crossed", "orphaned"

queue == <<registered, mapped, count, closed, slot, holds, sq, cq, data>>
fetch == <<pended, routine, irp>>
depth == <<inq, inquirySeen, applied>>
spVars == <<disk, queue, th, owed, fetch, svc, cur, completed, depth, windows>>

NoCur == <<1, NoSrb, FALSE>>

SpTypeOK ==
  /\ disk \in {"none", "created", "failed"}
  /\ {registered, mapped, closed, pended, routine, completed, inquirySeen, applied}
       \subseteq BOOLEAN
  /\ count \in (0 - Cardinality(Srbs))..(Cardinality(Srbs) + 1)
  /\ slot \in [Tags -> {"free", "submitted", "completing"}]
  /\ holds \in [Tags -> Srbs \cup {NoSrb}]
  /\ Len(sq) <= QueueDepth /\ \A i \in DOMAIN sq : sq[i] \in Tags \X Srbs
  /\ Len(cq) <= QueueDepth /\ \A i \in DOMAIN cq : cq[i] \in Tags \X BOOLEAN
  /\ data \in [Tags -> Srbs \cup {NoSrb}]
  /\ th \in [Srbs -> {"out", "checked", "acquired", "entered", "waking"}]
  /\ owed \in [Srbs -> Int]
  /\ irp \in {"idle", "pending", "success", "cancelled"}
  /\ svc \in {"absent", "created", "applying", "loop", "drain", "copy", "notify",
              "arming", "waiting", "cancelling", "canceled", "serve",
              "unregister", "unrundown", "unmap", "unregistered",
              "destroy", "rundown", "destroying",
              "exitCancel", "exiting", "cleanup", "cleaning", "dying"}
  /\ cur \in Tags \X (Srbs \cup {NoSrb}) \X BOOLEAN
  /\ inq \in {"idle", "seen"}
  /\ windows \subseteq {"reset", "crossed", "orphaned"}

SpInit ==
  /\ disk = "none" /\ registered = FALSE /\ mapped = FALSE /\ count = 0 /\ closed = FALSE
  /\ slot = [t \in Tags |-> "free"] /\ holds = [t \in Tags |-> NoSrb]
  /\ sq = <<>> /\ cq = <<>> /\ data = [t \in Tags |-> NoSrb]
  /\ th = [s \in Srbs |-> "out"] /\ owed = [s \in Srbs |-> 0]
  /\ pended = FALSE /\ routine = FALSE /\ irp = "idle"
  /\ svc = "absent" /\ cur = NoCur /\ completed = FALSE
  /\ inq = "idle" /\ inquirySeen = FALSE /\ applied = FALSE
  /\ windows = {}

(***************************************************************************)
(* HwStorStartIo, VdTranslateSrb and QSubmit, on the processor StorPort    *)
(* chose.  A request refused before QSubmit (no disk, a failed one, an LBA *)
(* out of range) is completed in the same call and leaves no trace.        *)
(***************************************************************************)
At(s, from, to) == th[s] = from /\ th' = [th EXCEPT ![s] = to]

Answer(s) == owed' = [owed EXCEPT ![s] = @ - 1]

StartIo(s) ==
  /\ disk = "created" /\ owed[s] = 0
  /\ At(s, "out", "checked")
  /\ owed' = [owed EXCEPT ![s] = 1]
  /\ UNCHANGED <<disk, queue, fetch, svc, cur, completed, depth, windows>>

\* ExAcquireRundownProtection
AcquireRundown(s) ==
  /\ IF closed
     THEN At(s, "checked", "out") /\ Answer(s) /\ UNCHANGED count
     ELSE At(s, "checked", "acquired") /\ count' = count + 1 /\ UNCHANGED owed
  /\ UNCHANGED <<disk, registered, mapped, closed, slot, holds, sq, cq, data,
                 fetch, svc, cur, completed, depth, windows>>

\* Not registered, too long, or no system address for the buffer: refused.
SubmitRefused(s) ==
  /\ At(s, "acquired", "out")
  /\ count' = count - 1 /\ Answer(s)
  /\ UNCHANGED <<disk, registered, mapped, closed, slot, holds, sq, cq, data,
                 fetch, svc, cur, completed, depth, windows>>

SubmitChecked(s) ==
  /\ registered
  /\ At(s, "acquired", "entered")
  /\ UNCHANGED <<disk, queue, owed, fetch, svc, cur, completed, depth, windows>>

FreeTags == {t \in Tags : slot[t] = "free"}

\* The ring is full: SRB_STATUS_BUSY, and StorPort issues the request again.
SubmitBusy(s) ==
  /\ FreeTags = {}
  /\ At(s, "entered", "out")
  /\ count' = count - 1 /\ Answer(s)
  /\ UNCHANGED <<disk, registered, mapped, closed, slot, holds, sq, cq, data,
                 fetch, svc, cur, completed, depth, windows>>

\* Under Q->Lock: the slot, the bounce copy, the SQE and the pended fetch.  On
\* rings that are not mapped the machine stops here.
SubmitInto(s, t) ==
  /\ mapped
  /\ slot' = [slot EXCEPT ![t] = "submitted"] /\ holds' = [holds EXCEPT ![t] = s]
  /\ data' = IF s \in Readers THEN data ELSE [data EXCEPT ![t] = s]
  /\ sq' = Append(sq, <<t, s>>)
  /\ IF pended
     THEN pended' = FALSE /\ At(s, "entered", "waking") /\ UNCHANGED count
     ELSE UNCHANGED pended /\ At(s, "entered", "out") /\ count' = count - 1
  /\ windows' = IF registered THEN windows ELSE windows \cup {"crossed"}
  /\ UNCHANGED <<disk, registered, mapped, closed, cq, owed, routine, irp, svc, cur,
                 completed, depth>>

QSubmit(s) == \E t \in FreeTags : (\A u \in FreeTags : t <= u) /\ SubmitInto(s, t)

\* IoSetCancelRoutine(irp, NULL): with a routine to take back, QSubmit completes
\* the fetch; without one it leaves the IRP to whoever has the routine.
Wake(s) ==
  /\ At(s, "waking", "out")
  /\ count' = count - 1
  /\ IF routine
     THEN routine' = FALSE /\ irp' = "success" /\ UNCHANGED windows
     ELSE windows' = windows \cup {"orphaned"} /\ UNCHANGED <<routine, irp>>
  /\ UNCHANGED <<disk, registered, mapped, closed, slot, holds, sq, cq, data, owed,
                 pended, svc, cur, completed, depth>>

(***************************************************************************)
(* The service's IOCTLs.  CREATE and REGISTER clear the queue, with the    *)
(* rundown in it; a StartIo call may be holding that rundown.              *)
(***************************************************************************)
Goto(from, to) == svc = from /\ svc' = to

ClearQueue ==
  /\ count' = 0 /\ closed' = FALSE
  /\ slot' = [t \in Tags |-> "free"] /\ holds' = [t \in Tags |-> NoSrb]
  /\ windows' = IF count = 0 THEN windows ELSE windows \cup {"reset"}

\* CREATE_DISK; refused while a disk is active, whoever owns it.
VdActivate ==
  /\ disk = "none" /\ Goto("absent", "created")
  /\ disk' = "created" /\ ClearQueue
  /\ inquirySeen' = FALSE /\ applied' = FALSE
  /\ UNCHANGED <<registered, mapped, sq, cq, data, th, owed, fetch, cur, completed, inq>>

QRegister ==
  /\ Goto("created", "applying")
  /\ registered' = TRUE /\ mapped' = TRUE
  /\ sq' = <<>> /\ cq' = <<>> /\ data' = [t \in Tags |-> NoSrb]
  /\ ClearQueue
  /\ UNCHANGED <<disk, th, owed, fetch, cur, completed, depth>>

\* VdApplyRegisteredQueueDepth at the end of REGISTER; its failure unregisters.
ApplyDepth(yes) ==
  IF yes
  THEN Goto("applying", "loop") /\ applied' = inquirySeen
  ELSE inquirySeen /\ ~applied /\ Goto("applying", "unregister") /\ UNCHANGED applied

RegisterApplies ==
  /\ \E yes \in BOOLEAN : ApplyDepth(yes)
  /\ UNCHANGED <<disk, queue, th, owed, fetch, cur, completed, inq, inquirySeen, windows>>

\* INQUIRY marks itself seen before it looks at the registration.
InquiryStarts ==
  /\ disk # "none" /\ inq = "idle"
  /\ inq' = "seen" /\ inquirySeen' = TRUE
  /\ UNCHANGED <<disk, queue, th, owed, fetch, svc, cur, completed, applied, windows>>

InquiryApplies ==
  /\ inq = "seen" /\ inq' = "idle"
  /\ \/ registered /\ applied' = TRUE /\ UNCHANGED disk
     \/ registered /\ ~applied /\ disk' = "failed" /\ UNCHANGED applied
     \/ ~registered /\ UNCHANGED <<disk, applied>>
  /\ UNCHANGED <<queue, th, owed, fetch, svc, cur, completed, inquirySeen, windows>>

(***************************************************************************)
(* COMMIT_AND_FETCH: drain the completion ring, one completion at a time,  *)
(* then return, or pend the IRP when there was nothing to do.  Having      *)
(* completed something it fails with STATUS_BUFFER_TOO_SMALL, since it     *)
(* reports their number and the service gives it no output buffer; the     *)
(* service then just calls again.                                          *)
(***************************************************************************)
Commit ==
  /\ Goto("loop", "drain")
  /\ count' = count + 1 /\ completed' = FALSE
  /\ UNCHANGED <<disk, registered, mapped, closed, slot, holds, sq, cq, data,
                 th, owed, fetch, cur, depth, windows>>

\* Under Q->Lock; a tag that is not submitted is skipped.
TakeAs(t, state) ==
  IF slot[t] = "submitted"
  THEN /\ Goto("drain", "copy")
       /\ slot' = [slot EXCEPT ![t] = state] /\ holds' = [holds EXCEPT ![t] = NoSrb]
       /\ cur' = <<t, holds[t], Head(cq)[2]>> /\ completed' = TRUE
  ELSE svc = "drain" /\ UNCHANGED <<svc, slot, holds, cur, completed>>

TakeCompletion ==
  /\ cq # <<>> /\ cq' = Tail(cq)
  /\ TakeAs(Head(cq)[1], "completing")
  /\ UNCHANGED <<disk, registered, mapped, count, closed, sq, data, th, owed, fetch,
                 depth, windows>>

\* Outside the lock the bytes of a served READ go to its buffer; then the slot
\* is free again, before RequestComplete can bring the next request in.
FreeSlot == slot' = [slot EXCEPT ![cur[1]] = "free"] /\ UNCHANGED holds

CopyOut ==
  /\ Goto("copy", "notify")
  /\ FreeSlot
  /\ UNCHANGED <<disk, registered, mapped, count, closed, sq, cq, data, th, owed,
                 fetch, cur, completed, depth, windows>>

RequestComplete ==
  /\ Goto("notify", "drain")
  /\ Answer(cur[2]) /\ cur' = NoCur
  /\ UNCHANGED <<disk, queue, th, fetch, completed, depth, windows>>

CommitReturns ==
  /\ cq = <<>> /\ (completed \/ sq # <<>>)
  /\ Goto("drain", IF completed THEN "loop" ELSE "serve")
  /\ count' = count - 1 /\ completed' = FALSE
  /\ UNCHANGED <<disk, registered, mapped, closed, slot, holds, sq, cq, data,
                 th, owed, fetch, cur, depth, windows>>

\* PendedFetch is set under the lock, the cancel routine after it is released.
CommitPends ==
  /\ cq = <<>> /\ ~completed /\ sq = <<>>
  /\ Goto("drain", "arming")
  /\ pended' = TRUE /\ irp' = "pending" /\ count' = count - 1
  /\ UNCHANGED <<disk, registered, mapped, closed, slot, holds, sq, cq, data,
                 th, owed, routine, cur, completed, depth, windows>>

SetCancelRoutine ==
  /\ Goto("arming", "waiting")
  /\ routine' = TRUE
  /\ UNCHANGED <<disk, queue, th, owed, pended, irp, cur, completed, depth, windows>>

\* QCommitCancel, under the lock: the IRP is completed only if it is still the
\* pended one; whoever took it from PendedFetch completes it otherwise.
CommitCancel(from, to) ==
  /\ Goto(from, to)
  /\ pended' = FALSE
  /\ irp' = IF pended THEN "cancelled" ELSE irp
  /\ UNCHANGED <<disk, queue, th, owed, routine, cur, completed, depth, windows>>

\* CancelIoEx, after 500 ms of waiting or because the process ends, calls the
\* routine it finds in the IRP; without one nothing happens now.
CancelIo(ends) ==
  /\ svc = "waiting" /\ irp = "pending"
  /\ svc' = IF routine THEN IF ends THEN "exitCancel" ELSE "cancelling"
             ELSE IF ends THEN "exiting" ELSE "canceled"
  /\ routine' = FALSE
  /\ UNCHANGED <<disk, queue, th, owed, pended, irp, cur, completed, depth, windows>>

\* GetOverlappedResult returns when the IRP is complete, and only then; what
\* the service does next depends on whether it had given up on it.
FetchReturns ==
  /\ irp # "pending"
  /\ \/ Goto("waiting", "serve")
     \/ Goto("canceled", "loop")
     \/ Goto("exiting", "cleanup")
  /\ irp' = "idle" /\ routine' = FALSE
  /\ UNCHANGED <<disk, queue, th, owed, pended, cur, completed, depth, windows>>

\* The service takes the entries one by one and answers each in the other ring.
Serve ==
  /\ svc = "serve" /\ sq # <<>>
  /\ \E ok \in BOOLEAN :
       /\ cq' = Append(cq, <<Head(sq)[1], ok>>)
       /\ data' = IF ok /\ Head(sq)[2] \in Readers
                  THEN [data EXCEPT ![Head(sq)[1]] = Head(sq)[2]] ELSE data
  /\ sq' = Tail(sq)
  /\ UNCHANGED <<disk, registered, mapped, count, closed, slot, holds, th, owed, fetch,
                 svc, cur, completed, depth, windows>>

Served ==
  /\ sq = <<>> /\ Goto("serve", "loop")
  /\ UNCHANGED <<disk, queue, th, owed, fetch, cur, completed, depth, windows>>

(***************************************************************************)
(* QTeardownOnCrash, the one teardown: under the lock every request in     *)
(* flight is completed with an error; the rundown waits for the calls that *)
(* still touch the mapping; then the pages are unlocked.  Nobody reads the *)
(* rings any more, so they are emptied in the first step.                  *)
(***************************************************************************)
InFlight(s) == {t \in Tags : slot[t] # "free" /\ holds[t] = s}

\* Mutant: the teardown answers no request in flight.
AnswerNone == UNCHANGED owed

AnswerInFlight == owed' = [s \in Srbs |-> owed[s] - Cardinality(InFlight(s))]

TeardownQueue(from, to) ==
  /\ Goto(from, to)
  /\ registered' = FALSE /\ pended' = FALSE /\ sq' = <<>> /\ cq' = <<>>
  /\ AnswerInFlight
  /\ slot' = [t \in Tags |-> IF holds[t] = NoSrb THEN slot[t] ELSE "free"]
  /\ holds' = [t \in Tags |-> NoSrb]

WaitForRundown(from, to) ==
  /\ Goto(from, to)
  /\ closed' = TRUE
  /\ UNCHANGED <<disk, registered, mapped, count, slot, holds, sq, cq, data, th, owed,
                 fetch, cur, completed, depth, windows>>

RundownOver == count = 0

Unlock == mapped' = FALSE /\ sq' = <<>> /\ cq' = <<>> /\ data' = [t \in Tags |-> NoSrb]

QUnlockAll(from, to) ==
  /\ RundownOver /\ Goto(from, to)
  /\ Unlock
  /\ UNCHANGED <<disk, registered, count, closed, slot, holds, th, owed, fetch, cur,
                 completed, depth, windows>>

\* UNREGISTER, then DESTROY_DISK: it tears down again and zeroes the disk.
QUnregister ==
  /\ TeardownQueue("unregister", "unrundown")
  /\ UNCHANGED <<disk, mapped, count, closed, data, th, routine, irp, cur,
                 completed, depth, windows>>

QDestroy ==
  /\ TeardownQueue("destroy", "rundown")
  /\ UNCHANGED <<disk, mapped, count, closed, data, th, routine, irp, cur,
                 completed, depth, windows>>

VdDestroy ==
  /\ RundownOver /\ Goto("destroying", "absent")
  /\ Unlock /\ ClearQueue
  /\ disk' = "none" /\ inquirySeen' = FALSE /\ applied' = FALSE
  /\ UNCHANGED <<registered, th, owed, fetch, cur, completed, inq>>

\* IRP_MJ_CLEANUP of the owner's handle: the disk fails and stays.
VdOwnerCleanup ==
  /\ TeardownQueue("cleanup", "cleaning")
  /\ disk' = "failed"
  /\ UNCHANGED <<mapped, count, closed, data, th, routine, irp, cur, completed,
                 depth, windows>>

Stop ==
  /\ \/ Goto("loop", "unregister")
     \/ Goto("unregistered", "destroy")
     \/ Goto("created", "destroy")
     \/ disk = "failed" /\ Goto("absent", "destroy")
  /\ UNCHANGED <<disk, queue, th, owed, fetch, cur, completed, depth, windows>>

Exit ==
  /\ svc \in {"created", "loop", "serve", "unregistered"} /\ svc' = "cleanup"
  /\ UNCHANGED <<disk, queue, th, owed, fetch, cur, completed, depth, windows>>

-----------------------------------------------------------------------------
StartIoStep(s) ==
  AcquireRundown(s) \/ SubmitChecked(s) \/ SubmitBusy(s) \/ QSubmit(s) \/ Wake(s)

CommitStep ==
  \/ Commit \/ TakeCompletion \/ CopyOut \/ RequestComplete \/ CommitReturns
  \/ CommitPends \/ SetCancelRoutine

FetchStep ==
  \/ CommitCancel("cancelling", "canceled") \/ CommitCancel("exitCancel", "exiting")
  \/ FetchReturns

TeardownStep ==
  \/ QUnregister \/ WaitForRundown("unrundown", "unmap") \/ QUnlockAll("unmap", "unregistered")
  \/ QDestroy \/ WaitForRundown("rundown", "destroying") \/ VdDestroy
  \/ VdOwnerCleanup \/ WaitForRundown("cleaning", "dying") \/ QUnlockAll("dying", "absent")

SpNext ==
  \/ \E s \in Srbs : StartIo(s) \/ StartIoStep(s) \/ SubmitRefused(s)
  \/ VdActivate \/ QRegister \/ RegisterApplies \/ InquiryStarts \/ InquiryApplies
  \/ CommitStep \/ FetchStep \/ Serve \/ Served
  \/ (\E ends \in BOOLEAN : CancelIo(ends))
  \/ TeardownStep \/ Stop \/ Exit

\* Every processor, the service's thread and its timer go on; nothing makes
\* StorPort send, the operator start or stop, or the process die.
SpSpec ==
  /\ SpInit /\ [][SpNext]_spVars
  /\ \A s \in Srbs : WF_spVars(StartIoStep(s) \/ (~registered /\ SubmitRefused(s)))
  /\ WF_spVars(RegisterApplies) /\ WF_spVars(CommitStep) /\ WF_spVars(FetchStep)
  /\ WF_spVars(Serve \/ Served) /\ WF_spVars(CancelIo(FALSE)) /\ WF_spVars(TeardownStep)
  /\ WF_spVars(Stop /\ svc # "loop" /\ svc # "absent" /\ svc # "created")

-----------------------------------------------------------------------------
\* No request is completed twice: what the teardown completes is not what
\* COMMIT_AND_FETCH is completing, and a refused call is not queued.
CompletedOnce == \A s \in Srbs : owed[s] \in 0..1

\* The bytes of a bounce slot are those of the request that holds it: from the
\* copy in to the service for a WRITE, from the service to the copy out for a
\* READ, whatever requests come in between.
OwnData ==
  /\ \A i \in DOMAIN sq : sq[i][2] \notin Readers => data[sq[i][1]] = sq[i][2]
  /\ svc = "copy" /\ cur[3] /\ cur[2] \in Readers => data[cur[1]] = cur[2]

TouchesMapping == svc \in {"drain", "copy"} \/ \E s \in Srbs : th[s] = "entered"

\* The rings are mapped while a StartIo call or COMMIT_AND_FETCH touches them,
\* as long as no rundown was cleared under a holder.
MappedWhileTouched == TouchesMapping /\ "reset" \notin windows => mapped

\* Once both INQUIRY and REGISTER have happened, in either order or at the same
\* time, the device's queue depth is the registered one.
DepthIsApplied ==
  /\ registered /\ inquirySeen /\ disk = "created"
  /\ inq = "idle" /\ svc \notin {"applying", "unregister"}
  => applied

\* Every request StorPort sends is completed, through service stops and deaths,
\* unless one of the gaps was hit.
SrbAnswered == \A s \in Srbs : owed[s] = 1 ~> owed[s] = 0 \/ windows # {}

\* When the queue is gone, nothing is left in it: the promise of the teardown.
NoSrbLeftBehind == svc = "absent" => \A t \in Tags : holds[t] = NoSrb

\* A fetch the service gave up on returns: the promise of the cancel routine.
FetchReturnsAfterCancel == svc = "canceled" ~> svc = "loop"

\* The rundown protects every touch of the mapping, without exception.
RundownProtects == TouchesMapping => mapped

\* The promises together.
SpContract ==
  /\ [](SpTypeOK /\ CompletedOnce /\ OwnData /\ MappedWhileTouched /\ DepthIsApplied)
  /\ SrbAnswered
=============================================================================
