--------------------------- MODULE ProductOnline ---------------------------
(***************************************************************************)
(* The Windows consumer service: run_product_online takes a lease from the *)
(* broker, allocates VRAM, creates the virtual disk, registers the queue,  *)
(* serves the disk until it is told to stop, and takes everything down in  *)
(* order behind two pagefile gates and a volume lock.  The service manager *)
(* with its retry monitor, and Windows as the disk's user, are part of it. *)
(***************************************************************************)
EXTENDS Naturals, Sequences

(***************************************************************************)
(* The Windows broker service: one process that binds the product pipe,    *)
(* accepts one consumer at a time, keeps the logical lease in a LeaseBook  *)
(* and lets it expire.  The pipe and the consumer's end of it are part of  *)
(* the state; what the consumer does is in ProductOnline.                  *)
(***************************************************************************)
CONSTANTS
  MaxBrokerLives,   \* how often the broker service is started
  MaxLeaseId        \* how many leases one broker process grants

ASSUME WinBrokerAssumption == MaxBrokerLives \in Nat /\ MaxLeaseId \in Nat

VARIABLES
  wbAt,     \* where the broker's loop is
  wbPipe,   \* a client is connected and the server end is open
  wbGone,   \* the client has closed its end
  wbIn,     \* frames on their way to the broker
  wbOut,    \* the reply on its way to the client, or "none"
  wbLive,   \* live_session is the connected one
  wbLease,  \* the active lease of the book, 0 for none
  wbDue,    \* the active lease's deadline has passed
  wbNext,   \* next_id of the book
  wbLives   \* starts of the broker so far

wbVars == <<wbAt, wbPipe, wbGone, wbIn, wbOut, wbLive, wbLease, wbDue, wbNext, wbLives>>

Frames == {"register", "request", "release", "psi"}
PipeReplies == {"none", "registered", "granted", "denied", "error"}

WbTypeOK ==
  /\ wbAt \in {"down", "top", "created", "accept", "first", "serve"}
  /\ wbPipe \in BOOLEAN /\ wbGone \in BOOLEAN
  /\ wbIn \in Seq(Frames) /\ wbOut \in PipeReplies
  /\ wbLive \in BOOLEAN /\ wbDue \in BOOLEAN
  /\ wbLease \in 0..MaxLeaseId /\ wbNext \in 1..(MaxLeaseId + 1)
  /\ wbLives \in 0..MaxBrokerLives

WbInit ==
  /\ wbAt = "down" /\ wbPipe = FALSE /\ wbGone = FALSE
  /\ wbIn = <<>> /\ wbOut = "none"
  /\ wbLive = FALSE /\ wbLease = 0 /\ wbDue = FALSE /\ wbNext = 1
  /\ wbLives = 0

\* A fresh process has an empty book: nothing is persisted.
WbStarts ==
  /\ wbAt = "down" /\ wbLives < MaxBrokerLives
  /\ wbAt' = "top" /\ wbLives' = wbLives + 1
  /\ wbLive' = FALSE /\ wbLease' = 0 /\ wbDue' = FALSE /\ wbNext' = 1
  /\ UNCHANGED <<wbPipe, wbGone, wbIn, wbOut>>

\* The server end goes: a client still there finds the pipe broken, and what
\* was in flight either way is discarded.
ServerEndCloses ==
  /\ wbPipe' = FALSE /\ wbGone' = FALSE
  /\ wbIn' = <<>> /\ wbOut' = "none"

\* The process ends, by an I/O error or by the service manager; the book goes with it.
Dies ==
  /\ wbAt' = "down"
  /\ ServerEndCloses
  /\ wbLive' = FALSE /\ wbLease' = 0 /\ wbDue' = FALSE /\ wbNext' = 1
  /\ UNCHANGED wbLives

WbStopped ==
  /\ wbAt # "down"
  /\ Dies

(***************************************************************************)
(* LeaseBook.                                                              *)
(***************************************************************************)
\* LeaseBook::expire: the lease is handed back once, when its deadline passed.
Expire ==
  IF wbLease # 0 /\ wbDue
  THEN wbLease' = 0 /\ wbDue' = FALSE
  ELSE UNCHANGED <<wbLease, wbDue>>

\* begin_request and grant_pending in one message: a held lease or an
\* exhausted id denies.
Grantable == wbLease = 0 /\ wbNext <= MaxLeaseId

\* on_disconnect: the session is over, the active lease is retained until it expires.
OnDisconnect ==
  /\ wbLive' = FALSE
  /\ UNCHANGED <<wbLease, wbDue>>

(***************************************************************************)
(* run_console: tick, bind the pipe, connect, first frame, session.        *)
(***************************************************************************)
WbBinds ==
  /\ wbAt = "top"
  /\ Expire
  /\ wbAt' = "created"
  /\ UNCHANGED <<wbPipe, wbGone, wbIn, wbOut, wbLive, wbNext, wbLives>>

\* ConnectNamedPipe reports a client that came before it as an error of its
\* own, which is not ERROR_IO_PENDING: the broker ends.
WbConnects ==
  /\ wbAt = "created"
  /\ IF ~wbPipe
     THEN /\ wbAt' = "accept"
          /\ UNCHANGED <<wbPipe, wbGone, wbIn, wbOut, wbLive, wbLease, wbDue, wbNext, wbLives>>
     ELSE Dies

WbAccepts ==
  /\ wbAt = "accept" /\ wbPipe
  /\ wbAt' = "first"
  /\ UNCHANGED <<wbPipe, wbGone, wbIn, wbOut, wbLive, wbLease, wbDue, wbNext, wbLives>>

\* Ten seconds without an accepted client; a client that connected at the last
\* moment loses the pipe it just opened.
WbAcceptDeadline ==
  /\ wbAt = "accept"
  /\ wbAt' = "top"
  /\ ServerEndCloses
  /\ UNCHANGED <<wbLive, wbLease, wbDue, wbNext, wbLives>>

WbFirstFrame ==
  /\ wbAt = "first" /\ wbIn # <<>>
  /\ wbAt' = "serve"
  /\ UNCHANGED <<wbPipe, wbGone, wbIn, wbOut, wbLive, wbLease, wbDue, wbNext, wbLives>>

\* No first frame in ten seconds, or a client that left: any read error ends the process.
WbFirstFrameFails ==
  /\ wbAt = "first" /\ wbIn = <<>>
  /\ Dies

Take(reply) ==
  /\ wbIn' = Tail(wbIn) /\ wbOut' = reply
  /\ UNCHANGED <<wbAt, wbPipe, wbGone, wbLives>>

\* write_message to a client that has closed its end fails, and the error ends the process.
WbAnswer(frame, reply, change) ==
  /\ wbAt = "serve" /\ wbIn # <<>> /\ Head(wbIn) = frame
  /\ IF wbGone THEN Dies ELSE Take(reply) /\ change

Grant ==
  /\ wbLease' = wbNext /\ wbNext' = wbNext + 1 /\ wbDue' = FALSE
  /\ UNCHANGED wbLive

WbRegister ==
  /\ ~wbLive
  /\ WbAnswer("register", "registered",
            wbLive' = TRUE /\ UNCHANGED <<wbLease, wbDue, wbNext>>)

WbLeaseRequest ==
  /\ wbLive
  /\ \/ Grantable /\ WbAnswer("request", "granted", Grant)
     \/ ~Grantable /\ WbAnswer("request", "denied", UNCHANGED <<wbLive, wbLease, wbDue, wbNext>>)

\* A release of the held lease; one that is unknown or already gone is a no-op.
\* No reply is sent.
WbLeaseRelease ==
  /\ wbAt = "serve" /\ wbLive /\ wbIn # <<>> /\ Head(wbIn) = "release"
  /\ wbIn' = Tail(wbIn)
  /\ wbLease' = 0 /\ wbDue' = FALSE
  /\ UNCHANGED <<wbAt, wbPipe, wbGone, wbOut, wbLive, wbNext, wbLives>>

\* A heartbeat renews the deadline of the active lease.
WbPsi ==
  /\ wbAt = "serve" /\ wbLive /\ wbIn # <<>> /\ Head(wbIn) = "psi"
  /\ wbIn' = Tail(wbIn)
  /\ wbDue' = FALSE
  /\ UNCHANGED <<wbAt, wbPipe, wbGone, wbOut, wbLive, wbLease, wbNext, wbLives>>

\* The client's end is closed and everything it wrote has been read.
WbSessionEnds ==
  /\ wbAt = "serve" /\ wbIn = <<>> /\ wbGone
  /\ wbAt' = "top"
  /\ ServerEndCloses
  /\ OnDisconnect
  /\ UNCHANGED <<wbNext, wbLives>>

\* The tick without the Close effect: the session goes on without a lease.

\* on_tick after ten silent seconds: an overdue lease expires and closes its session.
WbTick ==
  /\ wbAt = "serve" /\ wbIn = <<>> /\ ~wbGone /\ wbLease # 0 /\ wbDue
  /\ Expire
  /\ wbLive' = FALSE
  /\ wbAt' = "top"
  /\ ServerEndCloses
  /\ UNCHANGED <<wbNext, wbLives>>

\* The clock passes the deadline of a lease that no heartbeat on its way will renew.
WbDeadlinePasses ==
  /\ wbLease # 0 /\ ~wbDue
  /\ \A i \in 1..Len(wbIn) : wbIn[i] # "psi"
  /\ wbDue' = TRUE
  /\ UNCHANGED <<wbAt, wbPipe, wbGone, wbIn, wbOut, wbLive, wbLease, wbNext, wbLives>>

WbSteps ==
  \/ WbBinds \/ WbConnects \/ WbAccepts \/ WbFirstFrame
  \/ WbRegister \/ WbLeaseRequest \/ WbLeaseRelease \/ WbPsi
  \/ WbSessionEnds \/ WbTick

WbFaults == WbStarts \/ WbAcceptDeadline \/ WbFirstFrameFails

-----------------------------------------------------------------------------

CONSTANTS
  MaxRuns,            \* how often the consumer is started
  FormatsDuringStop,  \* may the operator format the RAW disk while a stop runs?
  DismountWrites,     \* does dismounting the locked volume write to the disk?
  BrokerStops         \* does the service manager stop the broker under the consumer?

ASSUME ProductOnlineAssumption ==
  /\ MaxRuns \in Nat
  /\ FormatsDuringStop \in BOOLEAN /\ DismountWrites \in BOOLEAN
  /\ BrokerStops \in BOOLEAN

VARIABLES
  poAt,      \* where run_product_online is
  poMode,    \* "scm" or "console"
  poLease,   \* the tenant holds a lease
  poSent,    \* the lease release: "none", "attempted" or "sent"
  poLost,    \* broker_lost_online
  poVram,    \* the allocation: "none", "clean" or "dirty"
  poDisk,    \* the virtual disk exists
  poQueue,   \* the queue is registered
  poVol,     \* what Windows has on the disk: "absent", "raw", "mounted", "dismounted"
  poSeen,    \* the stop in progress observed a mounted volume
  poLock,    \* the volume lock: "free", "asked", "held" or "failed"
  poLate,    \* the stop's thirty seconds are over
  poIo,      \* a disk request waits for this process
  poPage,    \* a pagefile on the volume: "none", "configured" or "active"
  poStop,    \* the stop flag
  poAsked,   \* the service manager's one STOP was delivered
  poNotify,  \* resume_notifier
  poMonitor, \* the retry monitor: "idle" or "waiting"
  poRuns     \* starts so far

stopVars == <<poStop, poAsked, poNotify, poMonitor>>
hostVars == <<poVol, poIo, poPage>>
poVars == <<poAt, poMode, poLease, poSent, poLost, poVram, poDisk, poQueue, poVol, poSeen,
            poLock, poLate, poIo, poPage, poStop, poAsked, poNotify, poMonitor, poRuns>>
winVars == <<wbVars, poVars>>

Starting == {"connect", "register", "registering", "acquiring", "leased", "cuda", "disk", "lun"}
Stopping == {"observe", "gateA", "lock", "gateB", "dismount", "unregister", "destroy", "wipe",
             "restore", "release"}
FailedSafe == {"parked", "parkedIo", "parkedLease"}
Pumping == {"lun", "online", "observe", "gateA", "lock", "gateB", "parkedIo"}

PoTypeOK ==
  /\ WbTypeOK
  /\ poAt \in {"off", "online", "stuck", "resume", "unwind"} \cup Starting \cup Stopping \cup FailedSafe
  /\ poMode \in {"scm", "console"}
  /\ poLease \in BOOLEAN /\ poSent \in {"none", "attempted", "sent"} /\ poLost \in BOOLEAN
  /\ poVram \in {"none", "clean", "dirty"} /\ poDisk \in BOOLEAN /\ poQueue \in BOOLEAN
  /\ poVol \in {"absent", "raw", "mounted", "dismounted"} /\ poSeen \in BOOLEAN
  /\ poLock \in {"free", "asked", "held", "failed"} /\ poLate \in BOOLEAN
  /\ poIo \in BOOLEAN /\ poPage \in {"none", "configured", "active"}
  /\ poStop \in BOOLEAN /\ poAsked \in BOOLEAN /\ poNotify \in BOOLEAN
  /\ poMonitor \in {"idle", "waiting"} /\ poRuns \in 0..MaxRuns

PoInit ==
  /\ WbInit
  /\ poAt = "off" /\ poMode \in {"scm", "console"}
  /\ poLease = FALSE /\ poSent = "none" /\ poLost = FALSE
  /\ poVram = "none" /\ poDisk = FALSE /\ poQueue = FALSE
  /\ poVol = "absent" /\ poSeen = FALSE /\ poLock = "free" /\ poLate = FALSE
  /\ poIo = FALSE /\ poPage = "none"
  /\ poStop = FALSE /\ poAsked = FALSE /\ poNotify = FALSE /\ poMonitor = "idle"
  /\ poRuns = 0

(***************************************************************************)
(* The client's end of the pipe.                                           *)
(***************************************************************************)
\* A write succeeds while the broker has the pipe open.
Written(frame) ==
  /\ wbPipe
  /\ wbIn' = Append(wbIn, frame)
  /\ UNCHANGED <<wbAt, wbPipe, wbGone, wbOut, wbLive, wbLease, wbDue, wbNext, wbLives>>

Read(reply) ==
  /\ wbOut = reply
  /\ wbOut' = "none"
  /\ UNCHANGED <<wbAt, wbPipe, wbGone, wbIn, wbLive, wbLease, wbDue, wbNext, wbLives>>

\* Dropping the stream closes the client's end; replies nobody reads are gone.
ClientEndCloses ==
  /\ wbGone' = wbPipe /\ wbOut' = "none"
  /\ UNCHANGED <<wbAt, wbPipe, wbIn, wbLive, wbLease, wbDue, wbNext, wbLives>>

\* BrokerTenant::release: written once; a failed write is never replayed.
Release ==
  IF wbPipe
  THEN /\ Written("release")
       /\ poSent' = "sent" /\ poLease' = FALSE
  ELSE /\ poSent' = "attempted"
       /\ UNCHANGED <<wbVars, poLease>>

(***************************************************************************)
(* Starting up.                                                            *)
(***************************************************************************)
PoStart ==
  /\ poAt = "off" /\ poRuns < MaxRuns
  /\ poAt' = "connect" /\ poRuns' = poRuns + 1
  /\ UNCHANGED <<wbVars, poMode, poLease, poSent, poLost, poVram, poDisk, poQueue, hostVars,
                 poSeen, poLock, poLate, stopVars>>

\* The process ends: its allocation, its volume handle and its end of the pipe go.
Ends ==
  /\ poAt' = "off"
  /\ poVram' = "none" /\ poLock' = "free" /\ poLease' = FALSE /\ poSent' = "none"
  /\ poLost' = FALSE /\ poSeen' = FALSE /\ poLate' = FALSE
  /\ poStop' = FALSE /\ poAsked' = FALSE /\ poNotify' = FALSE /\ poMonitor' = "idle"
  /\ ClientEndCloses
  /\ UNCHANGED <<poMode, poDisk, poQueue, hostVars, poRuns>>

\* CreateFile on the pipe's name, retried until broker_ready_timeout.
PoConnect ==
  /\ poAt = "connect" /\ wbAt \in {"created", "accept"} /\ ~wbPipe
  /\ wbPipe' = TRUE
  /\ poAt' = "register"
  /\ UNCHANGED <<wbAt, wbGone, wbIn, wbOut, wbLive, wbLease, wbDue, wbNext, wbLives,
                 poMode, poLease, poSent, poLost, poVram, poDisk, poQueue, hostVars, poSeen,
                 poLock, poLate, stopVars, poRuns>>

StartupUnchanged ==
  UNCHANGED <<poMode, poSent, poLost, poVram, poDisk, poQueue, hostVars, poSeen, poLock, poLate,
              stopVars, poRuns>>

PoRegister ==
  /\ poAt = "register"
  /\ Written("register")
  /\ poAt' = "registering"
  /\ UNCHANGED poLease /\ StartupUnchanged

PoRegistered ==
  /\ poAt = "registering" /\ wbPipe /\ wbOut = "registered"
  /\ wbOut' = "none" /\ wbIn' = Append(wbIn, "request")
  /\ poAt' = "acquiring"
  /\ UNCHANGED <<wbAt, wbPipe, wbGone, wbLive, wbLease, wbDue, wbNext, wbLives, poLease>>
  /\ StartupUnchanged

PoGranted ==
  /\ poAt = "acquiring"
  /\ Read("granted")
  /\ poLease' = TRUE
  /\ poAt' = "leased"
  /\ StartupUnchanged

\* The broker is not there in time, denies, hangs up, or does not answer in ten seconds.
PoNoLease ==
  /\ poAt \in {"connect", "register", "registering", "acquiring"}
  /\ wbOut \notin {"registered", "granted"}
  /\ Ends

\* error_after_release: the release is sent first, the allocation is dropped
\* when the function returns.
ErrorAfterRelease ==
  /\ Release
  /\ poAt' = "unwind"

PoUnwound ==
  /\ poAt = "unwind"
  /\ Ends

\* CUDA: load, device, context, room for size and reserve, allocate, zero.
PoCuda ==
  /\ poAt = "leased"
  /\ \/ /\ poVram' = "clean" /\ poAt' = "cuda"
        /\ UNCHANGED <<wbVars, poLease, poSent>>
     \/ \* too little room, or the allocation could not be zeroed
        /\ poVram' \in {"none", "clean"}
        /\ ErrorAfterRelease
  /\ UNCHANGED <<poMode, poLost, poDisk, poQueue, hostVars, poSeen, poLock, poLate, stopVars, poRuns>>

PoCreateDisk ==
  /\ poAt = "cuda"
  /\ \/ /\ poDisk' = TRUE /\ poVol' = "raw" /\ poAt' = "disk"
        /\ UNCHANGED <<wbVars, poLease, poSent>>
     \/ /\ ErrorAfterRelease
        /\ UNCHANGED <<poDisk, poVol>>
  /\ UNCHANGED <<poMode, poLost, poVram, poQueue, poIo, poPage, poSeen, poLock, poLate, stopVars, poRuns>>

\* preserve_failed_safe: the thread parks for good and sends no heartbeat.
Park == poAt' = "parked" /\ UNCHANGED <<wbVars, poLease, poSent>>

\* The disk, and with it the registration, is gone; or DESTROY failed and the process parks.
DestroyOrPark ==
  \/ /\ poDisk' = FALSE /\ poQueue' = FALSE /\ poVol' = "absent" /\ poIo' = FALSE
     /\ ErrorAfterRelease
  \/ /\ UNCHANGED <<poDisk, poQueue, poVol, poIo>>
     /\ Park

PoRegisterQueue ==
  /\ poAt = "disk"
  /\ \/ /\ poQueue' = TRUE /\ poAt' = "lun"
        /\ UNCHANGED <<wbVars, poLease, poSent, poDisk, poVol, poIo>>
     \/ DestroyOrPark
  /\ UNCHANGED <<poMode, poLost, poVram, poPage, poSeen, poLock, poLate, stopVars, poRuns>>

\* Windows must enumerate the disk within sixty seconds; its requests are served meanwhile.
PoLun ==
  /\ poAt = "lun"
  /\ \/ /\ poAt' = "online"
        /\ UNCHANGED <<wbVars, poLease, poSent, poDisk, poQueue, poVol, poIo>>
     \/ DestroyOrPark
  /\ UNCHANGED <<poMode, poLost, poVram, poPage, poSeen, poLock, poLate, stopVars, poRuns>>

(***************************************************************************)
(* Online.                                                                 *)
(***************************************************************************)
OnlineUnchanged ==
  UNCHANGED <<poMode, poLease, poSent, poDisk, poQueue, poVol, poPage, poSeen, poLock, poLate, poRuns>>

\* commit_and_fetch and the request it brings; the gates and the parked loop pump it too.
PoServe ==
  /\ poAt \in Pumping /\ poIo
  /\ poAt = "online" => ~poStop
  /\ poIo' = FALSE
  /\ poVram' \in {poVram} \cup (IF poVol = "mounted" THEN {"dirty"} ELSE {})
  /\ UNCHANGED <<wbVars, poAt, poLost, stopVars>>
  /\ OnlineUnchanged

\* A request that does not come back in time, fails, or a fetch that keeps
\* failing: FailedSafe, parked.
PoServeFails ==
  /\ poAt = "online" /\ ~poStop
  /\ poAt' \in {"stuck", "parked"}
  /\ UNCHANGED <<wbVars, poLost, poVram, poIo, stopVars>>
  /\ OnlineUnchanged

\* The stuck CUDA call returns; the watchdog has fired.
PoStuckReturns ==
  /\ poAt = "stuck"
  /\ poAt' = "parked"
  /\ UNCHANGED <<wbVars, poLost, poVram, poIo, stopVars>>
  /\ OnlineUnchanged

\* A heartbeat in every round; a second one waiting in the pipe adds nothing.
PoHeartbeat ==
  /\ poAt \in {"online", "parkedIo", "parkedLease"} /\ wbPipe
  /\ poAt = "online" => ~poStop
  /\ \A i \in 1..Len(wbIn) : wbIn[i] # "psi"
  /\ Written("psi")
  /\ UNCHANGED <<poAt, poLost, poVram, poIo, stopVars>>
  /\ OnlineUnchanged

\* The write fails: broker_lost_online, and a stop is requested.
PoBrokerLost ==
  /\ poAt = "online" /\ ~poStop /\ ~wbPipe
  /\ poLost' = TRUE
  /\ poStop' = TRUE
  /\ UNCHANGED <<wbVars, poAt, poVram, poIo, poAsked, poNotify, poMonitor>>
  /\ OnlineUnchanged

PoStopSeen ==
  /\ poAt = "online" /\ poStop
  /\ poAt' = "observe"
  /\ UNCHANGED <<wbVars, poLost, poVram, poIo, stopVars>>
  /\ OnlineUnchanged

(***************************************************************************)
(* The stop request: the service manager's one STOP, the console's file,   *)
(* and resume_online_stop with the retry monitor.                          *)
(***************************************************************************)
StopUnchanged ==
  UNCHANGED <<wbVars, poMode, poLease, poSent, poLost, poVram, poDisk, poQueue, hostVars, poSeen,
              poLock, poLate, poRuns>>

PoStopRequested ==
  /\ poAt \notin {"off", "unwind"} /\ ~poStop
  /\ poMode = "scm" => ~poAsked
  /\ poStop' = TRUE
  /\ poAsked' = (poMode = "scm")
  /\ UNCHANGED <<poAt, poNotify, poMonitor>>
  /\ StopUnchanged

\* refuse_stop_online: back to Online; the volume lock, if held, is dropped.
Refuse ==
  /\ poAt' = "resume"
  /\ poLock' = "free" /\ poSeen' = FALSE /\ poLate' = FALSE
  /\ IF poMode = "scm"
     THEN poNotify' = TRUE /\ UNCHANGED <<poStop, poAsked, poMonitor>>
     ELSE poStop' = FALSE /\ UNCHANGED <<poAsked, poNotify, poMonitor>>

\* Mutant: a refused stop is forgotten.
ResumeClears ==
  /\ poAt = "resume"
  /\ poAt' = "online"
  /\ poNotify' = FALSE /\ poStop' = FALSE
  /\ UNCHANGED <<poAsked, poMonitor>>
  /\ StopUnchanged

\* It waits a second for the monitor to take the notification, and goes on either way.
PoResumed ==
  /\ poAt = "resume"
  /\ poAt' = "online"
  /\ UNCHANGED stopVars
  /\ StopUnchanged

\* The monitor lets the I/O loop run for a second and then asks again.
PoMonitorTakes ==
  /\ poNotify /\ poMonitor = "idle"
  /\ poStop' = FALSE /\ poNotify' = FALSE /\ poMonitor' = "waiting"
  /\ UNCHANGED <<poAt, poAsked>>
  /\ StopUnchanged

PoMonitorRetries ==
  /\ poMonitor = "waiting"
  /\ poStop' = TRUE /\ poMonitor' = "idle"
  /\ UNCHANGED <<poAt, poAsked, poNotify>>
  /\ StopUnchanged

(***************************************************************************)
(* Stopping: identity, Gate A, volume lock, Gate B, and then the part that *)
(* cannot be taken back.  poVol, poIo and poPage are Windows' own.         *)
(***************************************************************************)
StoppingUnchanged == UNCHANGED <<wbVars, poMode, poLease, poSent, poLost, poRuns>>
DeviceUnchanged == UNCHANGED <<poVram, poDisk, poQueue, hostVars>>

\* observe_product_volume binds the letter to the live disk, or reports it RAW.
PoObserve ==
  /\ poAt = "observe"
  /\ \/ /\ poAt' = "gateA" /\ poSeen' = (poVol = "mounted")
        /\ UNCHANGED <<poLock, poLate, stopVars>>
     \/ Refuse
  /\ StoppingUnchanged /\ DeviceUnchanged

\* active_pagefiles: what is configured and what is in use, or an error.
NoPagefileSeen == poPage = "none"

PoGateA ==
  /\ poAt = "gateA"
  /\ \/ /\ NoPagefileSeen
        /\ IF poSeen
           THEN poAt' = "lock" /\ poLock' = "asked"
           ELSE poAt' = "gateB" /\ UNCHANGED poLock
        /\ UNCHANGED <<poSeen, poLate, stopVars>>
     \/ Refuse
  /\ StoppingUnchanged /\ DeviceUnchanged

\* The worker's FSCTL_LOCK_VOLUME: it waits for the disk and fails while a file is open.
PoLockWorker ==
  /\ poLock = "asked" /\ ~poIo
  /\ \/ poLock' = "held" /\ poPage # "active"
     \/ poLock' = "failed"
  /\ UNCHANGED <<poAt, poSeen, poLate, stopVars>>
  /\ StoppingUnchanged /\ DeviceUnchanged

PoBudgetPasses ==
  /\ poAt \in {"lock", "gateB"} /\ ~poLate
  /\ poLate' = TRUE
  /\ UNCHANGED <<poAt, poSeen, poLock, stopVars>>
  /\ StoppingUnchanged /\ DeviceUnchanged

\* The worker's result; one that came after the budget is dropped, which unlocks.
PoLocked ==
  /\ poAt = "lock" /\ poLock # "asked"
  /\ IF poLock = "held" /\ ~poLate
     THEN poAt' = "gateB" /\ UNCHANGED <<poSeen, poLock, poLate, stopVars>>
     ELSE Refuse
  /\ StoppingUnchanged /\ DeviceUnchanged

\* Thirty seconds and the worker is still in the call: preserve_failed_safe_with_io.
PoLockTimeout ==
  /\ poAt = "lock" /\ poLock = "asked" /\ poLate
  /\ poAt' = "parkedIo"
  /\ UNCHANGED <<poSeen, poLock, poLate, stopVars>>
  /\ StoppingUnchanged /\ DeviceUnchanged

PoLateLock ==
  /\ poAt = "parkedIo" /\ poLock \in {"held", "failed"}
  /\ poLock' = "free"
  /\ UNCHANGED <<poAt, poSeen, poLate, stopVars>>
  /\ StoppingUnchanged /\ DeviceUnchanged

PoGateB ==
  /\ poAt = "gateB"
  /\ \/ /\ NoPagefileSeen /\ ~poLate
        /\ poAt' = "dismount"
        /\ UNCHANGED <<poSeen, poLock, poLate, stopVars>>
     \/ Refuse
  /\ StoppingUnchanged /\ DeviceUnchanged

\* flush_and_dismount on the locked volume; nothing serves the disk meanwhile.
PoDismount ==
  /\ poAt = "dismount"
  /\ \/ /\ poSeen => (DismountWrites => ~poIo)
        /\ poVol' = IF poSeen THEN "dismounted" ELSE poVol
        /\ poAt' = "unregister"
        /\ UNCHANGED <<poSeen, poLock, poLate, stopVars>>
     \/ poSeen /\ Refuse /\ UNCHANGED poVol
  /\ UNCHANGED <<poVram, poDisk, poQueue, poIo, poPage>>
  /\ StoppingUnchanged

\* UNREGISTER and DESTROY answer what is outstanding; a failure of either parks.
PoUnregister ==
  /\ poAt = "unregister"
  /\ \/ poQueue' = FALSE /\ poIo' = FALSE /\ poAt' = "destroy"
     \/ poAt' = "parked" /\ UNCHANGED <<poQueue, poIo>>
  /\ UNCHANGED <<poVram, poDisk, poVol, poPage, poSeen, poLock, poLate, stopVars>>
  /\ StoppingUnchanged

PoDestroy ==
  /\ poAt = "destroy"
  /\ \/ poDisk' = FALSE /\ poVol' = "absent" /\ poAt' = "wipe"
     \/ poAt' = "parked" /\ UNCHANGED <<poDisk, poVol>>
  /\ UNCHANGED <<poVram, poQueue, poIo, poPage, poSeen, poLock, poLate, stopVars>>
  /\ StoppingUnchanged

\* The volume is unlocked, then the allocation zeroed.
PoWipe ==
  /\ poAt = "wipe"
  /\ poLock' = "free"
  /\ \/ poVram' = "clean" /\ poAt' = "restore"
     \/ poAt' = "parked" /\ UNCHANGED poVram
  /\ UNCHANGED <<poDisk, poQueue, hostVars, poSeen, poLate, stopVars>>
  /\ StoppingUnchanged

\* The allocation is freed, and mem_info must show it came back.
PoRestore ==
  /\ poAt = "restore"
  /\ poVram' = "none"
  /\ poAt' \in {"release", "parkedLease"}
  /\ UNCHANGED <<poDisk, poQueue, hostVars, poSeen, poLock, poLate, stopVars>>
  /\ StoppingUnchanged

\* The release is last; when it cannot be written the process keeps the lease,
\* unless the broker was already known to be lost.
PoRelease ==
  /\ poAt = "release"
  /\ Release
  /\ poAt' = IF wbPipe \/ poLost THEN "unwind" ELSE "parkedLease"
  /\ UNCHANGED <<poMode, poLost, poVram, poDisk, poQueue, hostVars, poSeen, poLock, poLate, stopVars,
                 poRuns>>

(***************************************************************************)
(* Windows and its operator: disk requests, formatting, pagefiles.         *)
(***************************************************************************)
HostUnchanged ==
  UNCHANGED <<wbVars, poAt, poMode, poLease, poSent, poLost, poDisk, poQueue, poSeen, poLock,
              poLate, stopVars, poRuns>>

OsRequest ==
  /\ poQueue /\ ~poIo
  /\ poIo' = TRUE
  /\ UNCHANGED <<poVram, poVol, poPage>> /\ HostUnchanged

OsFormats ==
  /\ poVol = "raw" /\ poQueue
  /\ poAt = "online" \/ (FormatsDuringStop /\ poAt \in Stopping)
  /\ poVol' = "mounted" /\ poVram' = "dirty"
  /\ UNCHANGED <<poIo, poPage>> /\ HostUnchanged

\* Paging on the volume is configured, comes into use while nobody holds the
\* volume, and is removed again.
OsPagefile ==
  /\ \/ poPage = "none" /\ poVol = "mounted" /\ poPage' = "configured"
     \/ poPage = "configured" /\ poVol = "mounted" /\ poLock # "held" /\ poPage' = "active"
     \/ poPage # "none" /\ poPage' = "none"
  /\ UNCHANGED <<poVram, poVol, poIo>> /\ HostUnchanged

\* Only a consumer that is heartbeating keeps the lease's deadline ahead of the clock.
PoDeadlinePasses ==
  /\ poAt \notin {"online", "parkedIo", "parkedLease"} \/ ~wbPipe
  /\ WbDeadlinePasses
  /\ UNCHANGED poVars

(***************************************************************************)
(* The system.                                                             *)
(***************************************************************************)
PoStartup ==
  \/ PoConnect \/ PoRegister \/ PoRegistered \/ PoGranted
  \/ PoUnwound \/ PoCuda \/ PoCreateDisk \/ PoRegisterQueue \/ PoLun
PoOnline == PoServe \/ PoHeartbeat \/ PoBrokerLost \/ PoStopSeen \/ PoStuckReturns
PoRetry == PoResumed \/ PoMonitorTakes \/ PoMonitorRetries
PoTeardown ==
  \/ PoObserve \/ PoGateA \/ PoLockWorker \/ PoLocked \/ PoLockTimeout \/ PoLateLock \/ PoGateB
  \/ PoDismount \/ PoUnregister \/ PoDestroy \/ PoWipe \/ PoRestore \/ PoRelease

PoNext ==
  \/ (WbSteps \/ WbFaults) /\ UNCHANGED poVars
  \/ BrokerStops /\ WbStopped /\ UNCHANGED poVars
  \/ PoStart \/ PoNoLease \/ PoStartup
  \/ PoOnline \/ PoServeFails
  \/ PoStopRequested \/ PoRetry
  \/ PoTeardown \/ PoBudgetPasses
  \/ OsRequest \/ OsFormats \/ OsPagefile \/ PoDeadlinePasses

\* Every thread of the two services that can take a step does so; the pump
\* serves a request it can fetch before it looks at a finished host call again.
PoFairness ==
  /\ WF_winVars(WbSteps /\ UNCHANGED poVars)
  /\ WF_winVars(PoStartup) /\ SF_winVars(PoServe)
  /\ WF_winVars(PoHeartbeat \/ PoBrokerLost) /\ WF_winVars(PoStopSeen)
  /\ WF_winVars(PoResumed) /\ WF_winVars(PoMonitorTakes) /\ WF_winVars(PoMonitorRetries)
  /\ WF_winVars(PoTeardown) /\ WF_winVars(PoBudgetPasses)

PoSpec == PoInit /\ [][PoNext]_winVars /\ PoFairness

(***************************************************************************)
(* Properties.                                                             *)
(***************************************************************************)
\* Online means that the allocation, the disk and the queue are all owned, the
\* lease has not been given back and a refused stop has left no volume lock behind.
OnlineOwnsAll ==
  poAt = "online" =>
    /\ poVram # "none" /\ poDisk /\ poQueue /\ poLease
    /\ poLock = "free" /\ poVol \in {"raw", "mounted"}

\* While the consumer believes in its lease and its pipe is open, the broker's
\* book holds one: expiry always closes the session it takes the lease from.
OpenPipeMeansLease ==
  poLease /\ wbPipe => wbLease # 0

\* The lease is given back only after the allocation it stands for is gone,
\* except on the way out of a failed start.
LeaseCoversVram ==
  poVram # "none" => poLease \/ poAt = "unwind"

\* The disk is never destroyed while Windows pages to it, whatever happened
\* between the two gates.
DestroyTakesDisk == poDisk /\ ~poDisk'
NoPagefileDestroyed ==
  [][DestroyTakesDisk => poPage # "active"]_winVars

\* What was written to the disk is zeroed before the memory goes back to the GPU.
FreedIsWiped ==
  [][poVram = "dirty" => poVram' # "none"]_winVars

\* A disk request is answered: the process serves it wherever it waits, or
\* answers it by taking the queue down; only a parked or stuck process does not.
IoAnswered ==
  poIo ~> (~poIo \/ poAt \in {"parked", "stuck"})

\* The service manager sends one STOP; refused by a gate, it is tried again
\* without being asked.
StopIsRetried ==
  (poAsked /\ poAt = "online") ~> (poAt # "online")

\* What preserve_failed_safe announces: disk, allocation and lease are kept.
FailedSafeKeepsLease ==
  poAt = "parked" /\ poVram # "none" /\ wbLives = 1 /\ wbAt # "down" => wbLease # 0

\* A healthy broker is not ended by a consumer that connects, leaves or times out.
BrokerStaysUp ==
  wbLives > 0 => wbAt # "down"

\* The promises together.
PoContract ==
  /\ [](PoTypeOK /\ OnlineOwnsAll /\ OpenPipeMeansLease /\ LeaseCoversVram)
  /\ NoPagefileDestroyed /\ FreedIsWiped
  /\ IoAnswered /\ StopIsRetried
=============================================================================
