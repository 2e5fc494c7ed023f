---------------------------- MODULE WinLifecycle ----------------------------
(***************************************************************************)
(* The two lifecycle machines of the Windows storage service that the      *)
(* product loop (ProductOnline) does not use: the phase machine of runtime.rs *)
(* and the provisioning and teardown of service.rs.  They share no state.  *)
(***************************************************************************)
EXTENDS Naturals

(***************************************************************************)
(* The phase machine of the Windows storage service (runtime.rs): one      *)
(* RuntimeState driven by run_runtime, stop_runtime and                    *)
(* contain_broker_loss over injected operations, every one of which may    *)
(* fail without an effect.  A call owns the state while it runs: between   *)
(* two of its steps only the world outside changes.                        *)
(***************************************************************************)

CONSTANTS
  RtMaxRuns,  \* bound: successful calls of acquire_lease
  LossMidway  \* may a broker loss be contained while a half-done startup is owned?

ASSUME RuntimeAssumption == RtMaxRuns \in Nat \ {0} /\ LossMidway \in BOOLEAN

\* What a run acquires, in this order, and the phase it is in with each of them.
Owned == {"lease", "vram", "disk", "queue"}
After == [lease |-> "vram", vram |-> "disk", disk |-> "queue", queue |-> "idle"]
PhaseWith == [lease |-> "Leased", vram |-> "CudaReady", disk |-> "DiskCreated", queue |-> "Online"]
RtPhases == {"Stopped", "Leased", "CudaReady", "DiskCreated", "Online", "Stopping", "FailedSafe"}

VARIABLES
  rtPhase,  \* state.phase
  rtDone,   \* state.stop_completed
  rtId,     \* is state.lease_id present?
  rtLog,    \* acquisitions minus releases in state.effects, per resource
  rtWorld,  \* what is really held: a count per resource
  rtRuns,   \* leases acquired so far
  rtStuck,  \* state.cuda_op_outstanding
  rtPage,   \* is a pagefile active on the product volume?
  rtCall,   \* the call in progress: "none", "run", "unwind" (of a run) or "stop"
  rtAt,     \* its next step: "gates", "drain" or the resource it turns to
  rtRet     \* how the last call ended

rtVars == <<rtPhase, rtDone, rtId, rtLog, rtWorld, rtRuns, rtStuck, rtPage, rtCall, rtAt, rtRet>>

RtTypeOK ==
  /\ rtPhase \in RtPhases
  /\ rtDone \in BOOLEAN /\ rtId \in BOOLEAN /\ rtStuck \in BOOLEAN /\ rtPage \in BOOLEAN
  /\ rtLog \in [Owned -> 0..RtMaxRuns] /\ rtWorld \in [Owned -> 0..RtMaxRuns]
  /\ rtRuns \in 0..RtMaxRuns
  /\ rtCall \in {"none", "run", "unwind", "stop"}
  /\ rtAt \in Owned \cup {"idle", "gates", "drain"}
  /\ (rtCall = "none") = (rtAt = "idle")
  /\ rtRet \in {"none", "online", "stopped", "unowned", "refused", "error"}

\* RuntimeState::new.
RtInit ==
  /\ rtPhase = "Stopped" /\ rtDone = FALSE /\ rtId = FALSE /\ rtStuck = FALSE /\ rtPage = FALSE
  /\ rtLog = [r \in Owned |-> 0] /\ rtWorld = [r \in Owned |-> 0] /\ rtRuns = 0
  /\ rtCall = "none" /\ rtAt = "idle" /\ rtRet = "none"

RtReturn(ret) == rtCall' = "none" /\ rtAt' = "idle" /\ rtRet' = ret
RtGoto(call, at) == rtCall' = call /\ rtAt' = at /\ UNCHANGED rtRet

(***************************************************************************)
(* run_runtime.                                                            *)
(***************************************************************************)
MayRun == rtPhase = "Stopped" /\ ~rtDone

RtRun ==
  /\ rtCall = "none" /\ rtRuns < RtMaxRuns
  /\ IF MayRun THEN RtGoto("run", "lease") ELSE RtReturn("error")
  /\ UNCHANGED <<rtPhase, rtDone, rtId, rtLog, rtWorld, rtRuns, rtStuck, rtPage>>

RtAcquire ==
  /\ rtCall = "run"
  /\ rtLog' = [rtLog EXCEPT ![rtAt] = @ + 1]
  /\ rtWorld' = [rtWorld EXCEPT ![rtAt] = @ + 1]
  /\ rtId' = (rtId \/ rtAt = "lease")
  /\ rtRuns' = IF rtAt = "lease" THEN rtRuns + 1 ELSE rtRuns
  /\ rtPhase' = PhaseWith[rtAt]
  /\ IF rtAt = "queue" THEN RtReturn("online") ELSE RtGoto("run", After[rtAt])
  /\ UNCHANGED <<rtDone, rtStuck, rtPage>>

\* A refused lease fails at once, a later failure unwinds what the run holds.  A
\* CREATE that answers busy is observed once and never issued again.
RtAcquireFails ==
  /\ rtCall = "run"
  /\ IF rtAt = "lease"
     THEN rtPhase' = "FailedSafe" /\ RtReturn("error")
     ELSE UNCHANGED rtPhase /\ RtGoto("unwind", "queue")
  /\ UNCHANGED <<rtDone, rtId, rtLog, rtWorld, rtRuns, rtStuck, rtPage>>

(***************************************************************************)
(* stop_runtime up to its destructive part.                                *)
(***************************************************************************)
StopsIdle ==
  /\ rtCall = "none" /\ rtPhase = "Stopped"
  /\ rtDone' = TRUE
  /\ RtReturn("unowned")
  /\ UNCHANGED <<rtPhase, rtId, rtLog, rtWorld, rtRuns, rtStuck, rtPage>>

\* The stop that does not ask for the outstanding operation.

WatchdogRefuses == rtStuck

RtStop ==
  /\ rtCall = "none" /\ rtPhase # "Stopped"
  /\ IF WatchdogRefuses
     THEN rtPhase' = "FailedSafe" /\ RtReturn("refused")
     ELSE rtPhase' = "Stopping" /\ RtGoto("stop", "gates")
  /\ UNCHANGED <<rtDone, rtId, rtLog, rtWorld, rtRuns, rtStuck, rtPage>>

\* An active pagefile refuses, and so does a query that fails.
RtGates ==
  /\ rtCall = "stop" /\ rtAt = "gates"
  /\ \/ ~rtPage /\ RtGoto("stop", "drain") /\ UNCHANGED rtPhase
     \/ rtPhase' = "Online" /\ RtReturn("refused")
  /\ UNCHANGED <<rtDone, rtId, rtLog, rtWorld, rtRuns, rtStuck, rtPage>>

RtDrain ==
  /\ rtCall = "stop" /\ rtAt = "drain"
  /\ RtGoto("stop", "queue") \/ RtReturn("error")
  /\ UNCHANGED <<rtPhase, rtDone, rtId, rtLog, rtWorld, rtRuns, rtStuck, rtPage>>

(***************************************************************************)
(* unwind_from: queue, disk, allocation, lease, each only if the log says  *)
(* that it is held; the lease id is taken before the broker is told.       *)
(***************************************************************************)
Releasing == rtCall \in {"unwind", "stop"} /\ rtAt \in Owned
\* The allocation is freed under the disk.

NextToRelease == [queue |-> "disk", disk |-> "vram", vram |-> "lease", lease |-> "idle"]

\* The unwind trusts the phase and not the log.

NeedsRelease(r) == IF r = "lease" THEN rtId ELSE rtLog[r] > 0

Finish ==
  IF rtCall = "stop"
  THEN rtPhase' = "Stopped" /\ rtDone' = TRUE /\ rtId' = FALSE /\ RtReturn("stopped")
  ELSE rtPhase' = "FailedSafe" /\ rtId' = FALSE /\ RtReturn("error") /\ UNCHANGED rtDone

Advance ==
  IF rtAt = "lease"
  THEN Finish
  ELSE RtGoto(rtCall, NextToRelease[rtAt]) /\ UNCHANGED <<rtPhase, rtDone, rtId>>

\* The log forgets to count the release.

RtRelease ==
  /\ Releasing
  /\ IF NeedsRelease(rtAt)
     THEN /\ rtLog' = [rtLog EXCEPT ![rtAt] = @ - 1]
          /\ rtWorld' = [rtWorld EXCEPT ![rtAt] = @ - 1]
     ELSE UNCHANGED <<rtLog, rtWorld>>
  /\ Advance
  /\ UNCHANGED <<rtRuns, rtStuck, rtPage>>

\* An error in the middle of a stop is reported as success.

RtReleaseFails ==
  /\ Releasing /\ NeedsRelease(rtAt)
  /\ rtId' = (rtId /\ rtAt # "lease")
  /\ RtReturn("error")
  /\ UNCHANGED <<rtPhase, rtDone, rtLog, rtWorld, rtRuns, rtStuck, rtPage>>

(***************************************************************************)
(* contain_broker_loss, and the world between and during the calls.        *)
(***************************************************************************)
\* Every phase is taken for one that owns nothing.

RtContain ==
  /\ rtCall = "none"
  /\ LossMidway \/ rtPhase \in {"Online", "FailedSafe", "Stopped"}
  /\ rtPhase' = IF rtPhase \in {"Online", "FailedSafe"} THEN "FailedSafe" ELSE "Stopped"
  /\ UNCHANGED <<rtDone, rtId, rtLog, rtWorld, rtRuns, rtStuck, rtPage, rtCall, rtAt, rtRet>>

\* A CUDA operation hangs, or comes back.
RtCudaHangs ==
  /\ rtCall = "none" /\ rtWorld["vram"] > 0
  /\ rtStuck' = ~rtStuck
  /\ UNCHANGED <<rtPhase, rtDone, rtId, rtLog, rtWorld, rtRuns, rtPage, rtCall, rtAt, rtRet>>

\* The pagefile sits on the disk; a dismount that locks it out is not in this machine,
\* so it does not move between the gates and the disk's end.
RtPagefile ==
  /\ rtWorld["disk"] > 0 /\ (rtCall = "none" \/ rtAt = "gates")
  /\ rtPage' = ~rtPage
  /\ UNCHANGED <<rtPhase, rtDone, rtId, rtLog, rtWorld, rtRuns, rtStuck, rtCall, rtAt, rtRet>>

RtNext ==
  \/ RtRun \/ RtAcquire \/ RtAcquireFails
  \/ StopsIdle \/ RtStop \/ RtGates \/ RtDrain \/ RtRelease \/ RtReleaseFails
  \/ RtContain \/ RtCudaHangs \/ RtPagefile

RtSpec == RtInit /\ [][RtNext]_rtVars

(***************************************************************************)
(* Properties.                                                             *)
(***************************************************************************)
\* The resources nest at every moment, whatever failed before: no queue without its disk,
\* no disk without the allocation behind it, no allocation the broker has no lease for.
OwnershipNests ==
  rtWorld["queue"] <= rtWorld["disk"] /\ rtWorld["disk"] <= rtWorld["vram"] /\ rtWorld["vram"] <= rtWorld["lease"]

\* The effect log tells what is held: no release is repeated after an error in the middle
\* of an unwind and none is lost, so that the next stop takes up where the last one failed.
LogIsTrue == rtLog = rtWorld

\* A stop that reports success leaves no queue, disk or allocation behind, also after stops
\* that failed halfway.
StopFreesStorage ==
  [][rtRet # "stopped" /\ rtRet' = "stopped" => \A r \in Owned \ {"lease"} : rtWorld'[r] = 0]_rtVars

\* While a CUDA operation is outstanding, or a pagefile lies on the disk, a stop takes
\* nothing away (DT-12, DT-8).
HeldWhileUnsafe ==
  [][rtStuck \/ (rtPage /\ rtCall = "stop") => \A r \in Owned : rtWorld'[r] >= rtWorld[r]]_rtVars

\* A stopped machine that has not been through a stop owns nothing: what run_runtime starts
\* from is empty.
FreshIsEmpty == MayRun => \A r \in Owned : rtWorld[r] = 0

-----------------------------------------------------------------------------
(***************************************************************************)
(* Provisioning after a lease and the two-gate teardown of the Windows     *)
(* storage service (service.rs): provision_after_lease and                 *)
(* teardown_storage_only over injected disk, wipe and volume operations.   *)
(* An operation that fails has no effect.  Windows writes to the disk and  *)
(* places a pagefile on its volume while a call runs.                      *)
(***************************************************************************)

VARIABLES
  tdLease,       \* state.lease is present
  tdCreated,     \* state.disk_created
  tdRegistered,  \* state.registered_queue
  tdOnline,      \* state.online
  tdDisk,        \* the disk exists in the driver
  tdQueue,       \* the queue is registered with the driver
  tdDirty,       \* the allocation holds data of the disk
  tdMounted,     \* gates.has_mounted_volume(): FALSE for a RAW disk
  tdLocked,      \* the volume is locked
  tdDismounted,  \* ... and dismounted
  tdPage,        \* a pagefile is active on the volume
  tdAt,          \* the next step of the call in progress
  tdWas,         \* disk and queue when the teardown in progress was called
  tdRet          \* how the last call ended

tdFlags == <<tdLease, tdCreated, tdRegistered, tdOnline>>
tdDevice == <<tdDisk, tdQueue, tdDirty>>
tdVolume == <<tdMounted, tdLocked, tdDismounted, tdPage>>
tdVars == <<tdFlags, tdDevice, tdVolume, tdAt, tdWas, tdRet>>

TdSteps == {"idle", "create", "register", "identity", "gateA", "lock", "gateB", "dismount",
            "unregister", "destroy", "unlock", "wipe"}

TdTypeOK ==
  /\ {tdLease, tdCreated, tdRegistered, tdOnline, tdDisk, tdQueue, tdDirty} \subseteq BOOLEAN
  /\ {tdMounted, tdLocked, tdDismounted, tdPage} \subseteq BOOLEAN
  /\ tdAt \in TdSteps
  /\ tdWas \in BOOLEAN \X BOOLEAN
  /\ tdRet \in {"none", "ok", "refused", "error"}
  /\ tdQueue => tdDisk
  /\ tdLocked => tdMounted

TdInit ==
  /\ tdLease = FALSE /\ tdCreated = FALSE /\ tdRegistered = FALSE /\ tdOnline = FALSE
  /\ tdDisk = FALSE /\ tdQueue = FALSE /\ tdDirty = FALSE
  /\ tdMounted \in BOOLEAN /\ tdLocked = FALSE /\ tdDismounted = FALSE /\ tdPage = FALSE
  /\ tdAt = "idle" /\ tdWas = <<FALSE, FALSE>> /\ tdRet = "none"

TdReturn(ret) == tdAt' = "idle" /\ tdRet' = ret /\ tdWas' = <<FALSE, FALSE>>
TdGoto(at) == tdAt' = at /\ UNCHANGED <<tdWas, tdRet>>

(***************************************************************************)
(* provision_after_lease.  The co-residence gate fails before anything is  *)
(* created; a later failure leaves what exists to the teardown.            *)
(***************************************************************************)
TdProvision ==
  /\ tdAt = "idle" /\ ~tdOnline /\ ~tdCreated
  /\ \/ tdLease' = TRUE /\ TdGoto("create")
     \/ tdLease' = FALSE /\ TdReturn("error")
  /\ UNCHANGED <<tdCreated, tdRegistered, tdOnline, tdDevice, tdVolume>>

TdCreate ==
  /\ tdAt = "create"
  /\ \/ tdCreated' = TRUE /\ tdDisk' = TRUE /\ TdGoto("register")
     \/ UNCHANGED <<tdCreated, tdDisk>> /\ TdReturn("error")
  /\ UNCHANGED <<tdLease, tdRegistered, tdOnline, tdQueue, tdDirty, tdVolume>>

TdRegister ==
  /\ tdAt = "register"
  /\ \/ tdRegistered' = TRUE /\ tdQueue' = TRUE /\ tdOnline' = TRUE /\ TdReturn("ok")
     \/ UNCHANGED <<tdRegistered, tdQueue, tdOnline>> /\ TdReturn("error")
  /\ UNCHANGED <<tdLease, tdCreated, tdDisk, tdDirty, tdVolume>>

(***************************************************************************)
(* teardown_storage_only up to the destructive frontier: exact identity,   *)
(* gate A, lock, gate B, flush and dismount.                               *)
(***************************************************************************)
TdTeardown ==
  /\ tdAt = "idle"
  /\ IF tdOnline \/ tdCreated \/ tdRegistered
     THEN tdAt' = "identity" /\ tdWas' = <<tdDisk, tdQueue>> /\ UNCHANGED tdRet
     ELSE TdReturn("ok")
  /\ UNCHANGED <<tdFlags, tdDevice, tdVolume>>

\* TeardownTarget::verify_unique: a volume of a destroyed disk is never found.
TdIdentity ==
  /\ tdAt = "identity"
  /\ (tdDisk /\ TdGoto("gateA")) \/ TdReturn("refused")
  /\ UNCHANGED <<tdFlags, tdDevice, tdVolume>>

TdGateA ==
  /\ tdAt = "gateA"
  /\ (~tdPage /\ TdGoto(IF tdMounted THEN "lock" ELSE "gateB")) \/ TdReturn("refused")
  /\ UNCHANGED <<tdFlags, tdDevice, tdVolume>>

TdLock ==
  /\ tdAt = "lock"
  /\ \/ tdLocked' = TRUE /\ TdGoto("gateB")
     \/ UNCHANGED tdLocked /\ TdReturn("refused")
  /\ UNCHANGED <<tdFlags, tdDevice, tdMounted, tdDismounted, tdPage>>

\* let _ = gates.unlock_volume(): a failing unlock is passed over.
Refused ==
  /\ TdReturn("refused")
  /\ tdLocked' \in {FALSE, tdLocked}
  /\ tdDismounted' = (tdDismounted /\ tdLocked')

\* Mutant: the gate under the lock is passed because gate A was.
GateBTrusted ==
  /\ tdAt = "gateB"
  /\ TdGoto(IF tdMounted THEN "dismount" ELSE "unregister")
  /\ UNCHANGED <<tdFlags, tdDevice, tdVolume>>

TdGateB ==
  /\ tdAt = "gateB"
  /\ \/ /\ ~tdPage
        /\ TdGoto(IF tdMounted THEN "dismount" ELSE "unregister")
        /\ UNCHANGED <<tdLocked, tdDismounted>>
     \/ Refused
  /\ UNCHANGED <<tdFlags, tdDevice, tdMounted, tdPage>>

\* The queue is left to the driver's destroy.

TdDismount ==
  /\ tdAt = "dismount"
  /\ \/ tdDismounted' = TRUE /\ UNCHANGED tdLocked /\ TdGoto("unregister")
     \/ Refused
  /\ UNCHANGED <<tdFlags, tdDevice, tdMounted, tdPage>>

(***************************************************************************)
(* The destructive part.  A failure here returns with the volume locked.   *)
(***************************************************************************)
\* The queue goes before the volume was flushed and dismounted.

TdUnregister ==
  /\ tdAt = "unregister"
  /\ \/ tdRegistered' = FALSE /\ tdQueue' = FALSE /\ TdGoto("destroy")
     \/ tdRegistered /\ UNCHANGED <<tdRegistered, tdQueue>> /\ TdReturn("error")
  /\ UNCHANGED <<tdLease, tdCreated, tdOnline, tdDisk, tdDirty, tdVolume>>

TdDestroy ==
  /\ tdAt = "destroy"
  /\ \/ tdCreated' = FALSE /\ tdDisk' = FALSE /\ TdGoto(IF tdMounted THEN "unlock" ELSE "wipe")
     \/ tdCreated /\ UNCHANGED <<tdCreated, tdDisk>> /\ TdReturn("error")
  /\ UNCHANGED <<tdLease, tdRegistered, tdOnline, tdQueue, tdDirty, tdVolume>>

TdUnlock ==
  /\ tdAt = "unlock"
  /\ \/ tdLocked' = FALSE /\ tdDismounted' = FALSE /\ TdGoto("wipe")
     \/ UNCHANGED <<tdLocked, tdDismounted>> /\ TdReturn("error")
  /\ UNCHANGED <<tdFlags, tdDevice, tdMounted, tdPage>>

\* A wipe that fails is passed over.

TdWipe ==
  /\ tdAt = "wipe"
  /\ \/ tdDirty' = FALSE /\ tdLease' = FALSE /\ tdOnline' = FALSE /\ TdReturn("ok")
     \/ UNCHANGED <<tdDirty, tdLease, tdOnline>> /\ TdReturn("error")
  /\ UNCHANGED <<tdCreated, tdRegistered, tdDisk, tdQueue, tdVolume>>

(***************************************************************************)
(* Windows: a write reaches the allocation through the queue; a pagefile   *)
(* comes and goes on a volume nobody has locked.                           *)
(***************************************************************************)
OsWrites ==
  /\ tdQueue /\ ~tdDirty
  /\ tdDirty' = TRUE
  /\ UNCHANGED <<tdFlags, tdDisk, tdQueue, tdVolume, tdAt, tdWas, tdRet>>

OsPages ==
  /\ tdDisk /\ tdMounted /\ ~tdLocked
  /\ tdPage' = ~tdPage
  /\ UNCHANGED <<tdFlags, tdDevice, tdMounted, tdLocked, tdDismounted, tdAt, tdWas, tdRet>>

TdNext ==
  \/ TdProvision \/ TdCreate \/ TdRegister
  \/ TdTeardown \/ TdIdentity \/ TdGateA \/ TdLock \/ TdGateB \/ TdDismount
  \/ TdUnregister \/ TdDestroy \/ TdUnlock \/ TdWipe
  \/ OsWrites \/ OsPages

TdSpec == TdInit /\ [][TdNext]_tdVars

(***************************************************************************)
(* Properties.                                                             *)
(***************************************************************************)
\* No disk is destroyed under a pagefile, one that appeared after gate A included, and none
\* before its volume was flushed and dismounted under the lock (DT-8).
DestroyedOnlyDismounted ==
  [][tdDisk /\ ~tdDisk' => ~tdPage /\ (tdMounted => tdLocked /\ tdDismounted)]_tdVars

\* A refusal (code 7) changed nothing: the disk and the queue are as the call found them.
RefusalIsHarmless ==
  [][tdAt # "idle" /\ tdAt' = "idle" /\ tdRet' = "refused" => <<tdDisk', tdQueue'>> = tdWas]_tdVars

\* The lease goes back only when nothing of the disk is left: neither the disk nor its
\* queue nor its data in the allocation, after whatever failed teardowns came before.
LeaseOutlivesData ==
  [][tdLease /\ ~tdLease' => ~tdDisk' /\ ~tdQueue' /\ ~tdDirty']_tdVars

-----------------------------------------------------------------------------
\* What the runtime and the teardown promise.
WlContract ==
  /\ [](RtTypeOK /\ OwnershipNests /\ LogIsTrue /\ FreshIsEmpty /\ TdTypeOK)
  /\ StopFreesStorage /\ HeldWhileUnsafe
  /\ DestroyedOnlyDismounted /\ RefusalIsHarmless /\ LeaseOutlivesData
=============================================================================
