---------------------------- MODULE BrokerDaemon ----------------------------
(***************************************************************************)
(* The life of the daemon in broker mode: which provider it opens, the     *)
(* sockets it binds and owns, the broker thread, its join observer and the *)
(* single worker it runs, how a signal, a demotion or a panic of the       *)
(* broker thread brings all of them down, and the fallback to a RAM        *)
(* backend when the GPU path fails.  What the broker decides is the module *)
(* BrokerCore; here it only tells a tenant to switch its swap on and off.  *)
(***************************************************************************)
EXTENDS Naturals, Sequences

CONSTANTS
  BdChanCap,        \* the capacity of the worker's queue (CHAN_CAP)
  MaxErrors,      \* MAX_CONSECUTIVE_IO_ERRORS
  ReplacedEarly   \* may another process replace the socket before it is pinned?

ASSUME BrokerDaemonAssumption ==
  /\ BdChanCap \in Nat \ {0} /\ MaxErrors \in Nat \ {0}
  /\ ReplacedEarly \in BOOLEAN

VARIABLES
  kind,      \* --backend: "vram", "auto", "vulkan" or "ram"
  attempt,   \* the backend being run: "cuda", "vulkan" or "ram"
  bdMain,      \* the main thread
  bdMem,       \* the backend's memory: "none", "clean" or "dirty" (holds tenant data)
  path,      \* the Unix socket's pathname: "none", "mine", "foreign" or "leaked"
  guard,     \* the identity the OwnedUnixSocketPath token holds, "none" without one
  nbdPort,   \* the NBD TCP port: "free", "held", or "stale": an earlier attempt's
  arbPort,   \* the arbiter's port, likewise
  bdSig,       \* SHUTDOWN, the static the signal handler sets
  bdBridge,    \* the thread that mirrors SHUTDOWN: "none", "armed", "fired"
  flag,      \* the attempt's terminal flag
  wake,      \* shutdown_wake_pending
  queue,     \* the worker's channel
  bdWorker,    \* "none", "top", "recv", "ended"
  broker,    \* the broker thread: "none", "running", "stopped", "panicked"
  observed,  \* has the join observer delivered the broker's result?
  errs,      \* consecutive_io_errors
  bdDemoted,   \* has this worker sent its demotion?
  bdDemote,    \* is a demotion on its way to the broker?
  tenant,    \* a tenant's swap on a slice: "off", "on", "told", "reading", "lost"
  page,      \* does that swap hold a page?
  bdResult     \* how the run of the attempt ended: "none", "ok" or "err"

devVars == <<bdMem, errs, bdDemoted, bdDemote>>
sockVars == <<path, guard, nbdPort, arbPort>>
stopVars == <<bdSig, bdBridge, flag, wake>>
tenantVars == <<tenant, page>>
threadVars == <<bdWorker, broker, observed>>
runVars == <<kind, attempt, bdMain, bdResult>>
bdVars == <<runVars, devVars, sockVars, stopVars, queue, threadVars, tenantVars>>

BdMessages == {"opened", "write", "read", "zero", "shutdown"}
Ended == {"done", "failed"}

\* The type of every variable.
BdTypeOK ==
  /\ kind \in {"vram", "auto", "vulkan", "ram"}
  /\ attempt \in {"cuda", "vulkan", "ram"}
  /\ bdMain \in Ended \cup {"open", "alloc", "bind", "pin", "tcp", "spawn", "accept",
                          "serve", "zero", "release"}
  /\ bdMem \in {"none", "clean", "dirty"} /\ path \in {"none", "mine", "foreign", "leaked"}
  /\ guard \in {"none", "mine", "foreign"}
  /\ {nbdPort, arbPort} \subseteq {"free", "held", "stale"}
  /\ {bdSig, flag, wake, observed, bdDemoted, bdDemote, page} \subseteq BOOLEAN
  /\ bdBridge \in {"none", "armed", "fired"}
  /\ queue \in Seq(BdMessages) /\ Len(queue) <= BdChanCap
  /\ bdWorker \in {"none", "top", "recv", "ended"}
  /\ broker \in {"none", "running", "stopped", "panicked"}
  /\ errs \in 0..MaxErrors
  /\ tenant \in {"off", "on", "told", "reading", "lost"}
  /\ bdResult \in {"none", "ok", "err"}

(***************************************************************************)
(* The command line: what AppArgs::parse_from and select_daemon_action     *)
(* leave of it.  The broker runs for --slices with --arbiter-listen, and   *)
(* then neither the transport nor the backend narrows the choice.          *)
(***************************************************************************)
Arguments ==
  [slices : BOOLEAN, arbiter : BOOLEAN, listen : BOOLEAN, advertise : BOOLEAN,
   origin : BOOLEAN, ublk : BOOLEAN, backend : {"vram", "auto", "vulkan", "ram"}]

Parsed(a) ==
  /\ a.advertise => a.listen
  /\ a.slices => a.arbiter /\ ~a.ublk
  /\ a.arbiter \/ a.listen => a.slices

Selected(a) ==
  CASE a.slices /\ a.origin -> "refused"
    [] a.slices -> "broker"
    [] ~a.ublk /\ a.backend # "ram" /\ a.origin -> "nbd"
    [] a.ublk /\ a.backend # "vulkan" /\ ~a.origin -> "ublk"
    [] OTHER -> "refused"

First(k) == CASE k = "vulkan" -> "vulkan" [] k = "ram" -> "ram" [] OTHER -> "cuda"

BdInit ==
  /\ \E a \in Arguments : Parsed(a) /\ Selected(a) = "broker" /\ kind = a.backend
  /\ attempt = First(kind) /\ bdMain = "open" /\ bdResult = "none"
  /\ bdMem = "none" /\ errs = 0 /\ bdDemoted = FALSE /\ bdDemote = FALSE
  /\ path \in {"none", "foreign"} /\ guard = "none" /\ nbdPort = "free" /\ arbPort = "free"
  /\ bdSig = FALSE /\ bdBridge = "none" /\ flag = FALSE /\ wake = FALSE
  /\ queue = <<>> /\ bdWorker = "none" /\ broker = "none" /\ observed = FALSE
  /\ tenant = "off" /\ page = FALSE

Gpu == attempt # "ram"

(***************************************************************************)
(* ProductionDaemonRunner::execute.  An attempt that fails, whether before *)
(* or after it served, is followed by the RAM backend unless the operator  *)
(* asked for Vulkan; --backend auto tries Vulkan when CUDA does not open.  *)
(***************************************************************************)
Fallback ==
  IF kind = "vulkan" \/ attempt = "ram" THEN "none"
  ELSE IF kind = "auto" /\ attempt = "cuda" /\ bdMain = "open" THEN "vulkan"
  ELSE "ram"

\* The locals of the attempt are dropped: its memory, its flags, its channels.
\* The acceptors' threads are not joined and keep their listeners.
Stale(port) == IF port = "held" THEN "stale" ELSE port

EndAttempt(r) ==
  /\ IF r = "ok" \/ Fallback = "none"
     THEN /\ bdMain' = IF r = "ok" THEN "done" ELSE "failed"
          /\ bdResult' = r
          /\ UNCHANGED attempt
     ELSE /\ bdMain' = "open" /\ attempt' = Fallback /\ bdResult' = "none"
  /\ bdMem' = "none" /\ errs' = 0 /\ bdDemoted' = FALSE /\ bdDemote' = FALSE
  /\ bdBridge' = "none" /\ flag' = FALSE /\ wake' = FALSE
  /\ queue' = <<>> /\ bdWorker' = "none" /\ broker' = "none" /\ observed' = FALSE
  /\ UNCHANGED <<kind, bdSig>>

\* Cuda::load, device(0), create_context; VulkanProvider::open; RAM needs none.
Open ==
  /\ bdMain = "open"
  /\ bdMain' = "alloc"
  /\ UNCHANGED <<kind, attempt, bdResult, devVars, sockVars, stopVars, queue, threadVars,
                 tenantVars>>

OpenFails ==
  /\ bdMain = "open" /\ Gpu
  /\ EndAttempt("err")
  /\ UNCHANGED <<sockVars, tenantVars>>

\* run_broker_with_setup up to setup(): the memory is zeroed and the process
\* locked before the canary's region is allocated.
Allocate ==
  /\ bdMain = "alloc"
  /\ bdMem' = "clean" /\ bdMain' = "bind"
  /\ UNCHANGED <<kind, attempt, bdResult, errs, bdDemoted, bdDemote, sockVars, stopVars, queue,
                 threadVars, tenantVars>>

AllocateFails ==
  /\ bdMain = "alloc" /\ Gpu
  /\ EndAttempt("err")
  /\ UNCHANGED <<sockVars, tenantVars>>

(***************************************************************************)
(* broker_setup: bind_owned_unix_listener, the optional TCP listener, the  *)
(* broker thread and the acceptors.                                        *)
(***************************************************************************)
BindUnix ==
  /\ bdMain = "bind" /\ path = "none"
  /\ path' = "mine" /\ bdMain' = "pin"
  /\ UNCHANGED <<kind, attempt, bdResult, devVars, guard, nbdPort, arbPort, stopVars, queue,
                 threadVars, tenantVars>>

BindRefused ==
  /\ bdMain = "bind" /\ path # "none"
  /\ EndAttempt("err")
  /\ UNCHANGED <<sockVars, tenantVars>>

\* The token takes the identity of whatever the name leads to now.
Pin ==
  /\ bdMain = "pin" /\ path # "none"
  /\ guard' = path /\ bdMain' = "tcp"
  /\ UNCHANGED <<kind, attempt, bdResult, devVars, path, nbdPort, arbPort, stopVars, queue,
                 threadVars, tenantVars>>

\* remove_if_owned: only the inode the token pins is unlinked.
Unlinked == IF guard = path THEN "none" ELSE path

DropToken ==
  /\ path' = IF guard = "none" THEN path ELSE Unlinked
  /\ guard' = "none"

\* listen or a check fails before there is a token, and the name is left behind;
\* or the name's directory was exchanged during the bind: the new token is dropped.
PinFails ==
  /\ bdMain = "pin"
  /\ path' \in IF path = "mine" THEN {"none", "leaked"} ELSE {path}
  /\ EndAttempt("err")
  /\ UNCHANGED <<guard, nbdPort, arbPort, tenantVars>>

BindTcp ==
  /\ bdMain = "tcp"
  /\ \/ nbdPort = "free" /\ nbdPort' = "held"
     \/ UNCHANGED nbdPort   \* no --listen-nbd
  /\ bdMain' = "spawn"
  /\ UNCHANGED <<kind, attempt, bdResult, devVars, path, guard, arbPort, stopVars, queue,
                 threadVars, tenantVars>>

Unwind == DropToken

BindTcpFails ==
  /\ bdMain = "tcp"
  /\ Unwind
  /\ EndAttempt("err")
  /\ UNCHANGED <<nbdPort, arbPort, tenantVars>>

SpawnBroker ==
  /\ bdMain = "spawn" /\ arbPort = "free"
  /\ arbPort' = "held" /\ broker' = "running" /\ bdMain' = "accept"
  /\ UNCHANGED <<kind, attempt, bdResult, devVars, path, guard, nbdPort, stopVars, queue,
                 bdWorker, observed, tenantVars>>

SpawnBrokerFails ==
  /\ bdMain = "spawn"
  /\ Unwind
  /\ nbdPort' = IF nbdPort = "held" THEN "free" ELSE nbdPort
  /\ EndAttempt("err")
  /\ UNCHANGED <<arbPort, tenantVars>>

\* The acceptors, then the bridge, the join observer and the worker.
StartAcceptors ==
  /\ bdMain = "accept" /\ ~flag
  /\ bdMain' = "serve" /\ bdBridge' = "armed" /\ bdWorker' = "top"
  /\ UNCHANGED <<kind, attempt, bdResult, devVars, sockVars, bdSig, flag, wake, queue, broker,
                 observed, tenantVars>>

\* The flag is raised and the broker joined before the sockets go.
AcceptorsFail ==
  /\ bdMain = "accept" /\ ~flag
  /\ flag' = TRUE
  /\ UNCHANGED <<runVars, devVars, sockVars, bdSig, bdBridge, wake, queue, threadVars, tenantVars>>

AcceptorsJoined ==
  /\ bdMain = "accept" /\ flag /\ broker # "running"
  /\ Unwind
  /\ nbdPort' = IF nbdPort = "held" THEN "free" ELSE nbdPort
  /\ arbPort' = Stale(arbPort)
  /\ EndAttempt("err")
  /\ UNCHANGED tenantVars

(***************************************************************************)
(* BrokerShutdown::request: the flag first, then a wake that never blocks. *)
(* The receiver lives until the worker's function returns.                 *)
(***************************************************************************)
Receiver == bdWorker \in {"top", "recv"}

BdRequest ==
  /\ flag' = TRUE
  /\ queue' = IF Receiver /\ Len(queue) < BdChanCap THEN Append(queue, "shutdown") ELSE queue
  /\ wake' = (wake \/ (Receiver /\ Len(queue) >= BdChanCap))

BdSignal ==
  /\ bdMain \notin Ended /\ ~bdSig
  /\ bdSig' = TRUE
  /\ UNCHANGED <<runVars, devVars, sockVars, bdBridge, flag, wake, queue, threadVars, tenantVars>>

Bridge ==
  /\ bdSig /\ bdBridge = "armed"
  /\ bdBridge' = "fired"
  /\ BdRequest
  /\ UNCHANGED <<runVars, devVars, sockVars, bdSig, threadVars, tenantVars>>

(***************************************************************************)
(* The broker thread as the daemon sees it: it tells tenants to switch     *)
(* their swap on and off, tells all of them off when a demotion arrives or *)
(* the flag is up, and in the latter case ends without waiting for them.   *)
(***************************************************************************)
Told == IF tenant = "on" THEN "told" ELSE tenant

BrokerAssigns ==
  /\ broker = "running" /\ bdWorker # "none" /\ ~flag /\ ~bdDemoted /\ tenant = "off"
  /\ tenant' = "on" /\ page' = FALSE
  /\ UNCHANGED <<runVars, devVars, sockVars, stopVars, queue, threadVars>>

BrokerDemotes ==
  /\ broker = "running" /\ bdDemote
  /\ bdDemote' = FALSE /\ tenant' = Told
  /\ UNCHANGED <<runVars, bdMem, errs, bdDemoted, sockVars, stopVars, queue, threadVars, page>>

BrokerStops ==
  /\ broker = "running" /\ flag
  /\ broker' = "stopped" /\ tenant' = Told
  /\ UNCHANGED <<runVars, devVars, sockVars, stopVars, queue, bdWorker, observed, page>>

BrokerPanics ==
  /\ broker = "running" /\ bdMain = "serve"
  /\ broker' = "panicked"
  /\ UNCHANGED <<runVars, devVars, sockVars, stopVars, queue, bdWorker, observed, tenantVars>>

\* Mutant: the observer only delivers the result.
ObserveSilent ==
  /\ bdMain = "serve" /\ broker \in {"stopped", "panicked"} /\ ~observed
  /\ observed' = TRUE
  /\ UNCHANGED <<runVars, devVars, sockVars, stopVars, queue, bdWorker, broker, tenantVars>>

\* BrokerJoinMonitor's observer: join, request, deliver the result.
Observe ==
  /\ bdMain = "serve" /\ broker \in {"stopped", "panicked"} /\ ~observed
  /\ observed' = TRUE
  /\ BdRequest
  /\ UNCHANGED <<runVars, devVars, sockVars, bdSig, bdBridge, bdWorker, broker, tenantVars>>

(***************************************************************************)
(* The tenant and other clients of the worker's queue.  A send to a full   *)
(* queue waits, one to a worker that has ended fails.                      *)
(***************************************************************************)

Send(m) == Receiver /\ Len(queue) < BdChanCap /\ queue' = Append(queue, m)

ClientConnects ==
  /\ Send("opened")
  /\ UNCHANGED <<runVars, devVars, sockVars, stopVars, threadVars, tenantVars>>

BrokerAsksZero ==
  /\ broker = "running" /\ tenant = "off" /\ Send("zero")
  /\ UNCHANGED <<runVars, devVars, sockVars, stopVars, threadVars, tenantVars>>

TenantPagesOut ==
  /\ tenant = "on" /\ ~page /\ "write" \notin {queue[i] : i \in DOMAIN queue} /\ Send("write")
  /\ UNCHANGED <<runVars, devVars, sockVars, stopVars, threadVars, tenantVars>>

\* The agent's swapoff reads the page back before the swap is off.
TenantDrains ==
  /\ tenant = "told" /\ "write" \notin {queue[i] : i \in DOMAIN queue}
  /\ IF page THEN tenant' = "reading" /\ Send("read") ELSE tenant' = "off" /\ UNCHANGED queue
  /\ UNCHANGED <<runVars, devVars, sockVars, stopVars, threadVars, page>>

TenantLoses ==
  /\ bdWorker \in {"none", "ended"} /\ tenant \in {"on", "told", "reading"}
  /\ tenant' = IF page THEN "lost" ELSE "off"
  /\ UNCHANGED <<runVars, devVars, sockVars, stopVars, queue, threadVars, page>>

(***************************************************************************)
(* serve_broker_jobs_..._and_reply_hook, one iteration.                    *)
(***************************************************************************)
WorkerTop ==
  /\ bdWorker = "top"
  /\ bdWorker' = IF flag THEN "ended" ELSE "recv"
  /\ wake' = (wake /\ ~flag)
  /\ UNCHANGED <<runVars, devVars, sockVars, bdSig, bdBridge, flag, queue, broker, observed,
                 tenantVars>>

\* The wake is repeated once there is room for it.
Rewake(q) ==
  /\ queue' = IF wake /\ Len(q) < BdChanCap THEN Append(q, "shutdown") ELSE q
  /\ wake' = (wake /\ Len(q) >= BdChanCap)

Demotes(reason) ==
  /\ bdDemoted' = (bdDemoted \/ reason)
  /\ bdDemote' = (bdDemote \/ (reason /\ ~bdDemoted))

\* The receive timed out: the idle heartbeat asks the provider for its memory.
WorkerIdle ==
  /\ bdWorker = "recv" /\ queue = <<>>
  /\ bdWorker' = IF flag THEN "ended" ELSE "top"
  /\ \E lost \in IF Gpu /\ ~flag THEN BOOLEAN ELSE {FALSE} : Demotes(lost)
  /\ UNCHANGED <<runVars, bdMem, errs, sockVars, stopVars, queue, broker, observed, tenantVars>>

\* A backend error counts towards the burst that demotes; a success resets it.
\* Then the residency check of the request may demote too.
Burst(ok) == IF ok THEN 0 ELSE IF errs < MaxErrors THEN errs + 1 ELSE errs

Trips(n) == n >= MaxErrors

BdWorkerServes ==
  /\ bdWorker = "recv" /\ queue # <<>> /\ Head(queue) \in {"write", "read"}
  /\ \E ok \in IF Gpu THEN BOOLEAN ELSE {TRUE}, resident \in IF Gpu THEN BOOLEAN ELSE {TRUE} :
       /\ errs' = Burst(ok)
       /\ Demotes(Trips(errs') \/ ~resident)
       /\ IF Head(queue) = "write"
          THEN /\ bdMem' = IF ok THEN "dirty" ELSE bdMem
               /\ page' = ok
               /\ UNCHANGED tenant
          ELSE /\ tenant' = IF ok THEN "off" ELSE "on"
               /\ page' = (page /\ ~ok)
               /\ UNCHANGED bdMem
  /\ Rewake(Tail(queue))
  /\ bdWorker' = "top"
  /\ UNCHANGED <<runVars, sockVars, bdSig, bdBridge, flag, broker, observed>>

WorkerZeroes ==
  /\ bdWorker = "recv" /\ queue # <<>> /\ Head(queue) \in {"opened", "zero"}
  /\ Rewake(Tail(queue))
  /\ bdWorker' = "top"
  /\ UNCHANGED <<runVars, devVars, sockVars, bdSig, bdBridge, flag, broker, observed, tenantVars>>

WorkerWoken ==
  /\ bdWorker = "recv" /\ queue # <<>> /\ Head(queue) = "shutdown"
  /\ bdWorker' = "ended" /\ queue' = Tail(queue)
  /\ UNCHANGED <<runVars, devVars, sockVars, stopVars, broker, observed, tenantVars>>

(***************************************************************************)
(* The end of run_broker_with_setup: the broker's result, the memory       *)
(* zeroed, the socket dropped, and only then the errors.                   *)
(***************************************************************************)
BdFinish ==
  /\ bdMain = "serve" /\ bdWorker = "ended" /\ observed
  /\ bdMain' = "zero" /\ bdResult' = IF broker = "panicked" THEN "err" ELSE "ok"
  /\ UNCHANGED <<kind, attempt, devVars, sockVars, stopVars, queue, threadVars, tenantVars>>

Zero ==
  /\ bdMain = "zero"
  /\ IF Gpu THEN \E ok \in BOOLEAN :
                   /\ bdMem' = IF ok THEN "clean" ELSE bdMem
                   /\ bdResult' = IF ok THEN bdResult ELSE "err"
            ELSE UNCHANGED <<bdMem, bdResult>>
  /\ bdMain' = "release"
  /\ UNCHANGED <<kind, attempt, errs, bdDemoted, bdDemote, sockVars, stopVars, queue, threadVars,
                 tenantVars>>

Release ==
  /\ bdMain = "release"
  /\ DropToken
  /\ nbdPort' = Stale(nbdPort) /\ arbPort' = Stale(arbPort)
  /\ EndAttempt(bdResult)
  /\ UNCHANGED tenantVars

(***************************************************************************)
(* The world: stale listeners go when their thread ends, and another       *)
(* process of the same user may take over the socket's name.               *)
(***************************************************************************)
\* An NBD acceptor notices that its worker is gone only on its next connection;
\* the arbiter's looks at the flag between two accepts.
StaleNbdAcceptorEnds ==
  /\ nbdPort = "stale" /\ nbdPort' = "free"
  /\ UNCHANGED <<runVars, devVars, path, guard, arbPort, stopVars, queue, threadVars, tenantVars>>

StaleArbiterEnds ==
  /\ arbPort = "stale" /\ arbPort' = "free"
  /\ UNCHANGED <<runVars, devVars, path, guard, nbdPort, stopVars, queue, threadVars, tenantVars>>

SocketReplaced ==
  /\ path = "mine" /\ (guard = "mine" \/ ReplacedEarly)
  /\ path' = "foreign"
  /\ UNCHANGED <<runVars, devVars, guard, nbdPort, arbPort, stopVars, queue, threadVars,
                 tenantVars>>

MainSteps ==
  \/ Open \/ OpenFails \/ Allocate \/ AllocateFails \/ BindUnix \/ BindRefused \/ Pin
  \/ PinFails \/ BindTcp \/ BindTcpFails \/ SpawnBroker \/ SpawnBrokerFails
  \/ StartAcceptors \/ AcceptorsFail \/ AcceptorsJoined \/ BdFinish \/ Zero \/ Release

WorkerSteps == WorkerTop \/ WorkerIdle \/ BdWorkerServes \/ WorkerZeroes \/ WorkerWoken

Environment ==
  \/ BdSignal \/ BrokerAssigns \/ BrokerDemotes \/ BrokerPanics \/ ClientConnects
  \/ BrokerAsksZero \/ TenantPagesOut \/ TenantDrains \/ TenantLoses
  \/ StaleNbdAcceptorEnds \/ StaleArbiterEnds \/ SocketReplaced

BdNext == MainSteps \/ WorkerSteps \/ Bridge \/ BrokerStops \/ Observe \/ Environment

\* Each thread of the process keeps running.
BdFairness ==
  /\ WF_bdVars(MainSteps) /\ WF_bdVars(WorkerSteps)
  /\ WF_bdVars(Bridge) /\ WF_bdVars(BrokerStops) /\ WF_bdVars(Observe)

BdSpec == BdInit /\ [][BdNext]_bdVars /\ BdFairness

-----------------------------------------------------------------------------
\* The name a daemon bound is either still being checked or guarded by its token
\* until it is unlinked: a later failure of the setup leaves no socket of its own
\* behind (bind_broker_listeners, broker_setup_with_acceptors).
SocketHasOwner == path = "mine" => bdMain = "pin" \/ guard = "mine"

\* A socket another process put under the name survives the daemon's cleanup
\* (OwnedUnixSocketPath::remove_if_owned).
ForeignSocketSurvives == [][path = "foreign" => path' = "foreign"]_bdVars

\* The daemon never reports an orderly end of a GPU attempt with tenant data left
\* in the memory it gives back (run_broker_with_setup).
SuccessMeansZeroed == bdMain = "release" /\ Gpu /\ bdMem = "dirty" => bdResult = "err"

\* A worker that has answered MAX_CONSECUTIVE_IO_ERRORS errors in a row has
\* demoted, whatever the residency check said of each.
BurstDemotes == errs >= MaxErrors => bdDemoted

\* When the daemon goes on to another backend, or ends, the broker thread and the
\* worker of the attempt before have ended.
NothingOutlivesItsAttempt ==
  [][bdMain' \in Ended \cup {"open"} /\ bdMain \notin Ended \cup {"open"}
       => broker # "running" /\ ~Receiver]_bdVars

\* A signal ends the daemon, however full the worker's queue is and whichever
\* backend is being tried (BrokerShutdown::request, the bridge, the observer).
SignalStops == bdSig ~> bdMain \in Ended

\* A broker thread that panics brings its worker and the attempt down
\* (BrokerJoinMonitor).
PanicEndsAttempt == broker = "panicked" ~> broker # "panicked"

\* The orderly end the product document describes: the memory is zeroed only after
\* the tenants have confirmed that their swap is off.
OrderlyShutdown ==
  [][bdMem = "dirty" /\ bdMem' = "clean" /\ bdSig /\ broker = "stopped" => tenant = "off"]_bdVars

\* The promises together.
BdContract ==
  /\ [](BdTypeOK /\ SocketHasOwner /\ SuccessMeansZeroed /\ BurstDemotes)
  /\ ForeignSocketSurvives /\ NothingOutlivesItsAttempt
  /\ SignalStops /\ PanicEndsAttempt
=============================================================================
