----------------------------- MODULE UblkDaemon -----------------------------
(***************************************************************************)
(* The daemon's ublk transport: the ordered life of the device             *)
(* (run_ublk_with_runtime), the ring owner that fetches requests and       *)
(* commits their results, the worker that owns the backend and may demote  *)
(* it, and, outside the daemon, the kernel's driver, the swap area on the  *)
(* device and the operator who switches it on.                             *)
(***************************************************************************)
EXTENDS Naturals, Sequences, FiniteSets, Functions

CONSTANTS
  QueueDepth,     \* --queue-depth: the number of tags
  Blocks,         \* the page slots of the swap area
  OperatorRaces   \* may the operator switch the swap on during the shutdown?

ASSUME UblkAssumption == QueueDepth \in Nat \ {0} /\ OperatorRaces \in BOOLEAN

Tags == 1..QueueDepth

VARIABLES
  ubMain,     \* the main thread, see UbTypeOK
  backend,  \* "vram" or "ram"
  dev,      \* the ublk device: "none", "added", "live", "stopped", "deleted"
  ubSig,      \* SHUTDOWN
  ring,     \* the ring owner: "none", "fetch", "run", "ended", "failed"
  inflight, \* in_flight
  pool,     \* the number of buffers in buf_pool
  work,     \* the channel to the worker
  replies,  \* the channel back
  ubWorker,   \* "none", "init", "run", "ended", "failed"
  ubDemote,   \* the worker's swapoff: "none", "running", "draining", "ok", "failed"
  ubDemoted,
  ubMem,      \* does the backend hold the page last written to the block?
  tag,      \* the driver's view of a tag: "idle", "parked", "ready", "served"
  req,      \* the request of a tag: <<operation, block>>
  tbuf,     \* does the tag's buffer hold the current page of its block?
  ubSwap,     \* "off", "on" or "draining"
  ubDrainer,  \* whose swapoff runs: "none", "main", "worker"
  ubUsed      \* the slots in use

mainVars == <<ubMain, backend, dev, ubSig>>
ringVars == <<ring, inflight, pool>>
chanVars == <<work, replies>>
workerVars == <<ubWorker, ubDemote, ubDemoted, ubMem>>
driverVars == <<tag, req, tbuf>>
swapVars == <<ubSwap, ubDrainer, ubUsed>>
ubVars == <<mainVars, ringVars, chanVars, workerVars, driverVars, swapVars>>

Over == {"done", "exited"}
Running == {"wait", "check", "swapoff", "swapping", "recheck", "prove", "stop"}

\* The type of every variable; a tag is at most in one of the two channels.
UbTypeOK ==
  /\ ubMain \in Over \cup Running \cup
       {"add", "params", "server", "start", "join", "proveGone", "delete",
        "undoStop", "undoJoin", "undoDelete"}
  /\ backend \in {"vram", "ram"}
  /\ dev \in {"none", "added", "live", "stopped", "deleted"}
  /\ {ubSig, ubDemoted} \subseteq BOOLEAN
  /\ ring \in {"none", "fetch", "run", "ended", "failed"}
  /\ inflight \in 0..QueueDepth /\ pool \in 0..QueueDepth
  /\ \A i \in DOMAIN work : work[i].tag \in Tags
  /\ \A i \in DOMAIN replies : replies[i].tag \in Tags
  /\ Len(work) + Len(replies) <= QueueDepth
  /\ ubWorker \in {"none", "init", "run", "ended", "failed"}
  /\ ubDemote \in {"none", "running", "draining", "ok", "failed"}
  /\ ubMem \in [Blocks -> BOOLEAN] /\ tbuf \in [Tags -> BOOLEAN]
  /\ tag \in [Tags -> {"idle", "parked", "ready", "served"}]
  /\ ubSwap \in {"off", "on", "draining"} /\ ubDrainer \in {"none", "main", "worker"}
  /\ ubUsed \subseteq Blocks

NoRequest == <<"none", CHOOSE b \in Blocks : TRUE>>

UbInit ==
  /\ ubMain = "add" /\ backend = "vram" /\ dev = "none" /\ ubSig = FALSE
  /\ ring = "none" /\ inflight = 0 /\ pool = 0
  /\ work = <<>> /\ replies = <<>>
  /\ ubWorker = "none" /\ ubDemote = "none" /\ ubDemoted = FALSE /\ ubMem = [b \in Blocks |-> FALSE]
  /\ tag = [t \in Tags |-> "idle"] /\ req = [t \in Tags |-> NoRequest]
  /\ tbuf = [t \in Tags |-> FALSE]
  /\ ubSwap = "off" /\ ubDrainer = "none" /\ ubUsed = {}

(***************************************************************************)
(* run_ublk_with_runtime.  Every step may fail; what has been created by   *)
(* then decides what is undone, and nothing is stopped or deleted without  *)
(* a fresh snapshot that shows the swap absent.                            *)
(***************************************************************************)
\* The process ends: its threads go with it, whatever they were doing.
UbExit(how) ==
  /\ ubMain' = how
  /\ ring' = IF ring \in {"fetch", "run"} THEN "failed" ELSE ring
  /\ ubWorker' = IF ubWorker \in {"init", "run"} THEN "failed" ELSE ubWorker
  /\ work' = <<>> /\ replies' = <<>> /\ inflight' = 0 /\ pool' = 0
  /\ ubDemote' = "none" /\ ubDemoted' = FALSE
  /\ ubMem' = [b \in Blocks |-> FALSE] /\ tbuf' = [t \in Tags |-> FALSE]
  /\ UNCHANGED <<backend, ubSig, tag, req, swapVars>>

UbGoto(pc) ==
  /\ ubMain' = pc
  /\ UNCHANGED <<backend, ubSig, ringVars, chanVars, workerVars, driverVars, swapVars>>

AddDevice == ubMain = "add" /\ UbGoto("params") /\ dev' = "added"

SetParams ==
  /\ ubMain = "params" /\ UNCHANGED dev
  /\ UbGoto("server") \/ UbGoto("undoDelete")

\* The server's threads are started.  The worker opens the GPU on its own thread,
\* after this step has succeeded: only a failure to open the char device or to set
\* up the ring makes the daemon fall back to the RAM backend.
StartServer ==
  /\ ubMain = "server" /\ ubMain' = "start"
  /\ backend' \in {backend, "ram"}
  /\ ring' = "fetch" /\ ubWorker' = "init"
  /\ UNCHANGED <<dev, ubSig, inflight, pool, chanVars, ubDemote, ubDemoted, ubMem, driverVars,
                 swapVars>>

ServerFails == ubMain = "server" /\ UbGoto("undoDelete") /\ UNCHANGED dev

\* START_DEV waits until every tag is parked.
StartDevice ==
  /\ ubMain = "start" /\ \A t \in Tags : tag[t] = "parked"
  /\ UbGoto("wait") /\ dev' = "live"

StartFails == ubMain = "start" /\ UbGoto("undoStop") /\ UNCHANGED dev

Shutdown == ubMain = "wait" /\ ubSig /\ UbGoto("check") /\ UNCHANGED dev

\* deactivate_ublk_swap: nothing to do, or a bounded swapoff.
CheckSwap ==
  /\ ubMain = "check" /\ UNCHANGED dev
  /\ IF ubSwap = "off" THEN UbGoto("prove") ELSE UbGoto("swapoff")

SwapoffRuns ==
  /\ ubMain = "swapoff" /\ ubMain' = "swapping"
  /\ IF ubSwap = "on" THEN ubSwap' = "draining" /\ ubDrainer' = "main" ELSE UNCHANGED <<ubSwap, ubDrainer>>
  /\ UNCHANGED <<backend, dev, ubSig, ringVars, chanVars, workerVars, driverVars, ubUsed>>

\* It is over, was refused because another one runs, or is killed at its deadline;
\* the snapshot that follows decides, not its exit status.
UbSwapoffReturns ==
  /\ ubMain = "swapping" /\ ubMain' = "recheck"
  /\ IF ubDrainer = "main" THEN ubSwap' = "on" /\ ubDrainer' = "none" ELSE UNCHANGED <<ubSwap, ubDrainer>>
  /\ UNCHANGED <<backend, dev, ubSig, ringVars, chanVars, workerVars, driverVars, ubUsed>>

\* prove_ublk_swap_absent
Proved == ubSwap = "off"

Prove(pc, next) ==
  /\ ubMain = pc /\ UNCHANGED dev
  /\ IF Proved THEN UbGoto(next) ELSE UbExit("exited")

\* STOP_DEV removes the block device, which lets no new request in, and aborts the
\* parked fetches once the requests in flight are over.
StopDevice ==
  /\ ubMain = "stop" /\ \A t \in Tags : tag[t] \in {"idle", "parked"}
  /\ UbGoto("join") /\ dev' = "stopped"

RingOver == ring \in {"ended", "failed"}
WorkerOver == ubWorker \in {"ended", "failed"}

JoinServer ==
  /\ ubMain = "join" /\ RingOver /\ WorkerOver /\ UNCHANGED dev
  /\ IF ring = "ended" /\ ubWorker = "ended" THEN UbGoto("proveGone") ELSE UbExit("exited")

DeleteDevice == ubMain = "delete" /\ UbExit("done") /\ dev' = "deleted"

\* The way back from a failed start: stop, join whatever the outcome, delete, each
\* device command behind a proof of its own.
UndoStop ==
  /\ ubMain = "undoStop"
  /\ IF Proved THEN UbGoto("undoJoin") /\ dev' = "stopped" ELSE UbExit("exited") /\ UNCHANGED dev

UndoJoin == ubMain = "undoJoin" /\ RingOver /\ WorkerOver /\ UbGoto("undoDelete") /\ UNCHANGED dev

UndoDelete ==
  /\ ubMain = "undoDelete" /\ UbExit("exited")
  /\ dev' = IF Proved THEN "deleted" ELSE dev

\* Any other failure, of a device command or of a snapshot, ends the daemon at once.
StepFails ==
  /\ ubMain \in {"add", "check", "recheck", "prove", "stop", "proveGone", "delete", "undoStop",
               "undoDelete"}
  /\ UbExit("exited") /\ UNCHANGED dev

MainStep ==
  \/ AddDevice \/ SetParams \/ StartServer \/ StartDevice \/ Shutdown \/ CheckSwap
  \/ SwapoffRuns \/ UbSwapoffReturns
  \/ Prove("recheck", "prove") \/ Prove("prove", "stop") \/ Prove("proveGone", "delete")
  \/ StopDevice \/ JoinServer \/ DeleteDevice \/ UndoStop \/ UndoJoin \/ UndoDelete

MainFails == ServerFails \/ StartFails \/ StepFails

(***************************************************************************)
(* The ring owner.  It waits for completions only when nothing is in       *)
(* flight, and for the worker's replies otherwise.                         *)
(***************************************************************************)
\* submit_initial_fetch, and the pool of one buffer per tag.
RingFetches ==
  /\ ring = "fetch"
  /\ ring' = IF dev = "added" THEN "run" ELSE "failed"
  /\ pool' = QueueDepth
  /\ tag' = IF dev = "added" THEN [t \in Tags |-> "parked"] ELSE tag
  /\ UNCHANGED <<mainVars, inflight, chanVars, workerVars, req, tbuf, swapVars>>

\* The fetches were aborted by STOP_DEV.
RingAborted ==
  /\ ring = "run" /\ inflight = 0 /\ dev = "stopped"
  /\ ring' = "ended"
  /\ UNCHANGED <<mainVars, inflight, pool, chanVars, workerVars, driverVars, swapVars>>

\* The kernel takes the result of the request on tag t and parks the tag again.  A
\* page that was read back, or whose write failed, frees its slot; a read error
\* ends a swapoff.
Complete(t, ok, data) ==
  LET r == req[t] IN
  /\ tag' = [tag EXCEPT ![t] = "parked"]
  /\ req' = [req EXCEPT ![t] = NoRequest]
  /\ tbuf' = [tbuf EXCEPT ![t] = data]
  /\ ubUsed' = IF r[1] = (IF ok THEN "read" ELSE "write") THEN ubUsed \ {r[2]} ELSE ubUsed
  /\ IF r[1] = "read" /\ ~ok /\ ubSwap = "draining"
     THEN ubSwap' = "on" /\ ubDrainer' = "none"
     ELSE UNCHANGED <<ubSwap, ubDrainer>>

Payload(t) == tbuf[t]

\* wait_and_drain and dispatch_request for each completion: an operation without an
\* equivalent is completed at once with EINVAL; the others take a buffer each and go
\* to the worker, which only sees the channel, so that the batch is one step.
RingDispatches ==
  LET ready == {t \in Tags : tag[t] = "ready"}
      valid == {t \in ready : req[t][1] # "other"} IN
  /\ ring = "run" /\ inflight = 0 /\ ready # {} /\ ~WorkerOver
  /\ \E s \in {s \in [1..Cardinality(valid) -> valid] : IsInjective(s)} :
       work' = [i \in DOMAIN s |-> [tag |-> s[i], data |-> Payload(s[i])]]
  /\ tag' = [t \in Tags |-> IF t \in valid THEN "served" ELSE "parked"]
  /\ req' = [t \in Tags |-> IF t \in valid THEN req[t] ELSE NoRequest]
  /\ inflight' = Cardinality(valid) /\ pool' = pool - Cardinality(valid)
  /\ UNCHANGED <<mainVars, ring, replies, workerVars, tbuf, swapVars>>

\* commit_reply
Commit(r) == Complete(r.tag, r.ok, r.data)

Recycle == pool + 1

RingCommits ==
  /\ ring = "run" /\ inflight > 0 /\ replies # <<>>
  /\ Commit(Head(replies))
  /\ replies' = Tail(replies)
  /\ inflight' = inflight - 1 /\ pool' = Recycle
  /\ UNCHANGED <<mainVars, ring, work, workerVars>>

\* The worker has gone, or the ring itself fails: the owner returns an error, which
\* closes the char device and the channel.
RingFails ==
  /\ ring = "run"
  /\ ring' = "failed" /\ inflight' = 0 /\ pool' = 0
  /\ replies' = <<>> /\ tbuf' = [t \in Tags |-> FALSE]
  /\ UNCHANGED <<mainVars, work, workerVars, tag, req, swapVars>>

RingSeesWorkerGone ==
  WorkerOver /\ (IF inflight > 0 THEN replies = <<>> ELSE \E t \in Tags : tag[t] = "ready") /\ RingFails

RingStep ==
  RingFetches \/ RingAborted \/ RingDispatches \/ RingCommits \/ RingSeesWorkerGone

(***************************************************************************)
(* The worker.                                                             *)
(***************************************************************************)
WorkerStarts ==
  /\ ubWorker = "init"
  /\ ubWorker' \in {"run"} \cup (IF backend = "vram" THEN {"failed"} ELSE {})
  /\ UNCHANGED <<mainVars, ringVars, chanVars, ubDemote, ubDemoted, ubMem, driverVars, swapVars>>

Demoting == ubDemote \in {"running", "draining"}

\* serve_request: GPU memory may fail with EIO; the requests of the kernel are in range.
UbOutcomes == {TRUE} \cup (IF backend = "vram" THEN {FALSE} ELSE {})

\* The reply, the poll of the swapoff in flight, and the canary's verdict.
Serve ==
  /\ ubWorker = "run" /\ work # <<>> /\ ~RingOver
  /\ LET w == Head(work)
         op == req[w.tag][1]
         b == req[w.tag][2] IN
     /\ work' = Tail(work)
     /\ \E ok \in UbOutcomes :
          /\ ubMem' = IF ok /\ op = "write" THEN [ubMem EXCEPT ![b] = w.data] ELSE ubMem
          /\ replies' = Append(replies,
               [tag |-> w.tag, ok |-> ok,
                data |-> IF ok /\ op = "read" THEN ubMem[b] ELSE tbuf[w.tag]])
     /\ ubDemoted' = (ubDemoted \/ ubDemote = "ok")
     /\ \E verdict \in {"none"} \cup
                       (IF backend = "vram" /\ ~ubDemoted' /\ ~Demoting
                        THEN {"running"} ELSE {}) :
          ubDemote' = IF Demoting THEN ubDemote ELSE verdict
  /\ UNCHANGED <<mainVars, ringVars, ubWorker, driverVars, swapVars>>

\* Mutant: the swapoff of a demotion is waited for on the worker's own thread.
WorkerServesInline == ~Demoting /\ Serve

UbWorkerServes == Serve

\* Teardown: the channel is closed and a last reply would reach nobody; a swapoff in
\* flight is waited for at most five seconds, and the memory is zeroed.
UbWorkerEnds ==
  /\ ubWorker = "run" /\ RingOver
  /\ ubWorker' = "ended" /\ work' = <<>>
  /\ ubMem' = [b \in Blocks |-> FALSE] /\ ubDemote' = "none" /\ ubDemoted' = FALSE
  /\ UNCHANGED <<mainVars, ringVars, replies, driverVars, swapVars>>

\* spawn_swapoff's thread: swapoff of the device, and its verdict.
DemoteRuns ==
  /\ ubDemote = "running"
  /\ \/ ubSwap = "on" /\ ubSwap' = "draining" /\ ubDrainer' = "worker" /\ ubDemote' = "draining"
     \/ ubSwap # "on" /\ ubDemote' = "failed" /\ UNCHANGED <<ubSwap, ubDrainer>>
  /\ UNCHANGED <<mainVars, ringVars, chanVars, ubWorker, ubDemoted, ubMem, driverVars, ubUsed>>

DemoteGivesUp ==
  /\ ubDemote = "draining" /\ ubDrainer # "worker"
  /\ ubDemote' = "failed"
  /\ UNCHANGED <<mainVars, ringVars, chanVars, ubWorker, ubDemoted, ubMem, driverVars, swapVars>>

WorkerStep == WorkerStarts \/ UbWorkerServes \/ UbWorkerEnds

(***************************************************************************)
(* The kernel and the operator.                                            *)
(***************************************************************************)
UbIdle(b) == \A t \in Tags : req[t] = NoRequest \/ req[t][2] # b \/ tag[t] = "parked"

Issue(t, op, b) ==
  /\ dev = "live" /\ ubMain # "stop" /\ tag[t] = "parked" /\ ring = "run"
  /\ tag' = [tag EXCEPT ![t] = "ready"]
  /\ req' = [req EXCEPT ![t] = <<op, b>>]

\* A page goes out: what the backend holds of the slot is no longer its page.
UbPageOut(t, b) ==
  /\ ubSwap = "on" /\ b \notin ubUsed /\ UbIdle(b) /\ Issue(t, "write", b)
  /\ ubUsed' = ubUsed \cup {b} /\ ubMem' = [ubMem EXCEPT ![b] = FALSE]
  /\ tbuf' = [tbuf EXCEPT ![t] = TRUE]
  /\ UNCHANGED <<mainVars, ringVars, chanVars, ubWorker, ubDemote, ubDemoted, ubSwap, ubDrainer>>

UbPageIn(t, b) ==
  /\ ubSwap # "off" /\ b \in ubUsed /\ UbIdle(b) /\ Issue(t, "read", b)
  /\ tbuf' = [tbuf EXCEPT ![t] = FALSE]
  /\ UNCHANGED <<mainVars, ringVars, chanVars, workerVars, swapVars>>

\* An operation the server has no equivalent for (bound: issued on an idle device).
Unusual(t) ==
  /\ \A u \in Tags : req[u] = NoRequest
  /\ Issue(t, "other", NoRequest[2])
  /\ UNCHANGED <<mainVars, ringVars, chanVars, workerVars, tbuf, swapVars>>

\* Without a server the driver fails what it has handed out.
KernelAborts(t) ==
  /\ RingOver /\ tag[t] \in {"ready", "served"}
  /\ Complete(t, FALSE, tbuf[t])
  /\ UNCHANGED <<mainVars, ringVars, chanVars, workerVars>>

DrainOver(s) ==
  /\ ubSwap = "draining"
  /\ ubSwap' = s /\ ubDrainer' = "none"
  /\ ubDemote' = IF ubDrainer = "worker" /\ s = "off" /\ ubDemote = "draining" THEN "ok" ELSE ubDemote
  /\ UNCHANGED <<mainVars, ringVars, chanVars, ubWorker, ubDemoted, ubMem, driverVars, ubUsed>>

Drained == ubUsed = {} /\ (\A b \in Blocks : UbIdle(b)) /\ DrainOver("off")

\* For lack of memory.
DrainFails == DrainOver("on")

Swapon ==
  /\ dev = "live" /\ ubSwap = "off" /\ (ubMain = "wait" \/ OperatorRaces) /\ ~RingOver
  /\ ubSwap' = "on"
  /\ UNCHANGED <<mainVars, ringVars, chanVars, workerVars, driverVars, ubDrainer, ubUsed>>

UbSignal ==
  /\ ubMain = "wait" /\ ~ubSig /\ ubSig' = TRUE
  /\ UNCHANGED <<ubMain, backend, dev, ringVars, chanVars, workerVars, driverVars, swapVars>>

UbNext ==
  \/ MainStep \/ MainFails
  \/ RingStep \/ RingFails
  \/ WorkerStep \/ DemoteRuns \/ DemoteGivesUp
  \/ \E t \in Tags : (\E b \in Blocks : UbPageOut(t, b) \/ UbPageIn(t, b)) \/ Unusual(t)
                     \/ KernelAborts(t)
  \/ Drained \/ DrainFails \/ Swapon \/ UbSignal

\* The three threads and the swapoff they start run; the kernel answers for a dead
\* server and reads a draining swap back.
UbFairness ==
  /\ WF_ubVars(MainStep) /\ WF_ubVars(RingStep) /\ WF_ubVars(WorkerStep)
  /\ WF_ubVars(DemoteRuns) /\ WF_ubVars(DemoteGivesUp)
  /\ \A t \in Tags : WF_ubVars(KernelAborts(t))

UbSpec == UbInit /\ [][UbNext]_ubVars /\ UbFairness

(***************************************************************************)
(* Properties.                                                             *)
(***************************************************************************)
\* What run_ring_owner says of its buffers: "pool.len() + in_flight == qd", so that
\* the hot path never allocates; and every request counted is with the worker.
PoolCoversFlight ==
  ring = "run" =>
    /\ pool + inflight = QueueDepth
    /\ inflight = Len(work) + Len(replies)

\* A page read back is the page last written to its slot, through the tag buffers,
\* the recycled buffers, the two channels and the backend, whatever else is in
\* flight on other tags.
ReadBack(t) ==
  tag[t] = "served" /\ tag'[t] = "parked" /\ req[t][1] = "read" /\ req[t][2] \notin ubUsed'

ReadsLastWrite == [][\A t \in Tags : ReadBack(t) => tbuf'[t]]_ubVars

\* The device is only stopped, and its server told to end, when no page is left on
\* it: neither a swapoff that failed, nor one that another swapoff made fail, nor a
\* demotion still draining may be taken for an empty swap.
StopsOnlyUnused == [][dev = "live" /\ dev' = "stopped" => ubSwap = "off" /\ ubUsed = {}]_ubVars

\* Every request the kernel hands out is answered: the demotion's swapoff, which
\* itself reads pages through the worker, never stops the worker.
RequestsAnswered ==
  \A t \in Tags : tag[t] \in {"ready", "served"} ~> tag[t] \in {"parked", "idle"}

\* After a signal the daemon ends, with or without its device.
ShutdownEnds == ubSig ~> ubMain \in Over

\* The words of every refusal of the teardown, "device and backend preserved": a
\* daemon that ends leaves no page on a device without a server.
PreservedWhileActive == [][ubMain # ubMain' /\ ubMain' \in Over => ubSwap = "off"]_ubVars

\* The promises together.
UbContract ==
  /\ [](UbTypeOK /\ PoolCoversFlight)
  /\ ReadsLastWrite /\ StopsOnlyUnused
  /\ RequestsAnswered /\ ShutdownEnds
=============================================================================
