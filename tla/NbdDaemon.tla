------------------------------ MODULE NbdDaemon ------------------------------
(***************************************************************************)
(* ramsharedd in NBD mode (run_nbd_with_startup of ramshared-wsl2d): the   *)
(* connection threads of conn.rs, the single worker that serves the jobs   *)
(* channel, the demotion of the swap area by a swapoff process, its        *)
(* recovery by a swapon process, the shutdown bridge and the teardown that *)
(* must not release the backend under a swap area in use.                  *)
(*                                                                         *)
(* One iteration of the serve loop is three steps, between which the       *)
(* kernel, the processes and the connection threads run: LoopTop (the      *)
(* polls before recv_timeout), Receive or ReceiveTimesOut (the message),   *)
(* and Tick (everything after the message).                                *)
(***************************************************************************)
EXTENDS Naturals, Sequences, FiniteSets, SequencesExt

(***************************************************************************)
(* The users of an exported block device that are not the daemon's code:   *)
(* the kernel's swap layer, the swapoff and swapon system calls, and the   *)
(* operator (the CLI) who attaches the device, formats it, switches it on  *)
(* and off and detaches it.  The daemon meets them as block requests, as   *)
(* the row of the device in /proc/swaps and as the exit status of the      *)
(* swapoff and swapon processes it starts.                                 *)
(***************************************************************************)
CONSTANTS
  Pages,              \* the page slots of the swap area
  OperatorReactivates \* may the operator switch the swap on a second time?

ASSUME SwapClientAssumption == OperatorReactivates \in BOOLEAN

\* The page mkswap writes and swapon reads; the kernel keeps no use count for it.
Header == "header"
Slots == Pages \cup {Header}

VARIABLES
  swap,      \* the device's swap area: "off", "on" or "draining" (swapoff runs)
  drainer,   \* whose swapoff runs: "none", "child", "orphan" or "operator"
  used,      \* the page slots in use, counted from allocation on
  io,        \* the request outstanding on each slot, see Requests
  swaponBy,  \* whose swapon is reading the header: "none", "child", "operator"
  operator   \* what the operator does next

clientVars == <<swap, drainer, used, io, swaponBy, operator>>

\* "reading" and "writing" wait for the daemon; the others are its replies on
\* their way back: "read", "blank" (a read of a slot that holds nothing),
\* "written", and NBD_EIO in answer to either.
Waiting == {"reading", "writing"}
Replies == {"read", "blank", "written", "readFailed", "writeFailed"}
Requests == {"none"} \cup Waiting \cup Replies

OperatorSteps ==
  {"attach", "mkswap", "formatting", "swapon", "activating", "running", "down"}

ClientTypeOK ==
  /\ swap \in {"off", "on", "draining"}
  /\ drainer \in {"none", "child", "orphan", "operator"}
  /\ used \subseteq Pages
  /\ io \in [Slots -> Requests]
  /\ swaponBy \in {"none", "child", "operator"}
  /\ operator \in OperatorSteps

ClientInit ==
  /\ swap = "off" /\ drainer = "none" /\ used = {} /\ swaponBy = "none"
  /\ io = [s \in Slots |-> "none"]
  /\ operator = "attach"

Idle(s) == io[s] = "none"

(***************************************************************************)
(* Paging.  A slot is allocated, and counted as used, before its write is  *)
(* issued; a page that came back, or whose owner died, frees its slot.     *)
(***************************************************************************)
PageOut(p) ==
  /\ swap = "on" /\ p \notin used /\ Idle(p)
  /\ used' = used \cup {p}
  /\ io' = [io EXCEPT ![p] = "writing"]
  /\ UNCHANGED <<swap, drainer, swaponBy, operator>>

PageIn(p) ==
  /\ swap # "off" /\ p \in used /\ Idle(p)
  /\ io' = [io EXCEPT ![p] = "reading"]
  /\ UNCHANGED <<swap, drainer, used, swaponBy, operator>>

PageDropped(p) ==
  /\ swap # "off" /\ p \in used /\ Idle(p)
  /\ used' = used \ {p}
  /\ UNCHANGED <<swap, drainer, io, swaponBy, operator>>

(***************************************************************************)
(* swapoff: the device stays in /proc/swaps until every page it holds has  *)
(* been read back; a second swapoff of it is refused at once.  It gives up *)
(* on a read error, and may for lack of memory.                            *)
(***************************************************************************)
SwapoffStarts(who) ==
  /\ swap = "on"
  /\ swap' = "draining" /\ drainer' = who
  /\ UNCHANGED <<used, io, swaponBy>>

SwapoffEnds ==
  /\ swap = "draining" /\ used = {} /\ \A p \in Pages : Idle(p)
  /\ swap' = "off" /\ drainer' = "none"
  /\ UNCHANGED <<used, io, swaponBy>>

SwapoffGivesUp ==
  /\ swap = "draining"
  /\ swap' = "on" /\ drainer' = "none"
  /\ UNCHANGED <<used, io, swaponBy>>

(***************************************************************************)
(* swapon reads the header first and switches the area on if it is there.  *)
(***************************************************************************)
SwaponStarts(who) ==
  /\ swap = "off" /\ swaponBy = "none" /\ Idle(Header)
  /\ swaponBy' = who
  /\ io' = [io EXCEPT ![Header] = "reading"]
  /\ UNCHANGED <<swap, drainer, used>>

\* The block device's page cache may still hold the header of a formatted area.
SwaponFromCache ==
  /\ swap = "off" /\ swaponBy = "none" /\ operator \in {"running", "down"}
  /\ swap' = "on"
  /\ UNCHANGED <<drainer, used, io, swaponBy>>

(***************************************************************************)
(* The reply to the request on slot s reaches the kernel.                  *)
(***************************************************************************)
HeaderDelivered ==
  /\ io[Header] \in Replies
  /\ io' = [io EXCEPT ![Header] = "none"]
  /\ swaponBy' = "none"
  /\ swap' = IF io[Header] = "read" THEN "on" ELSE swap
  /\ operator' =
       CASE operator = "formatting" -> IF io[Header] = "written" THEN "swapon" ELSE "mkswap"
         [] operator = "activating" -> IF io[Header] = "read" THEN "running" ELSE "mkswap"
         [] OTHER -> operator
  /\ UNCHANGED <<drainer, used>>

PageDelivered(p) ==
  /\ io[p] \in Replies
  /\ io' = [io EXCEPT ![p] = "none"]
  /\ used' = IF io[p] \in {"read", "blank", "writeFailed"} THEN used \ {p} ELSE used
  /\ IF io[p] = "readFailed" /\ swap = "draining"
     THEN swap' = "on" /\ drainer' = "none"
     ELSE UNCHANGED <<swap, drainer>>
  /\ UNCHANGED <<swaponBy, operator>>

(***************************************************************************)
(* The operator.  Attaching and detaching belong to the daemon's module,   *)
(* which owns the connection.                                              *)
(***************************************************************************)
OperatorFormats ==
  /\ operator = "mkswap" /\ swap = "off" /\ Idle(Header)
  /\ operator' = "formatting"
  /\ io' = [io EXCEPT ![Header] = "writing"]
  /\ UNCHANGED <<swap, drainer, used, swaponBy>>

OperatorActivates ==
  /\ operator = "swapon"
  /\ SwaponStarts("operator")
  /\ operator' = "activating"

OperatorSwitchesOff ==
  /\ operator = "running"
  /\ SwapoffStarts("operator")
  /\ UNCHANGED operator

\* The operator finds the swap off (their own swapoff, or the daemon's demotion).
OperatorSeesOff ==
  /\ operator = "running" /\ swap = "off"
  /\ operator' \in {"down"} \cup (IF OperatorReactivates THEN {"mkswap"} ELSE {})
  /\ UNCHANGED <<swap, drainer, used, io, swaponBy>>

-----------------------------------------------------------------------------

CONSTANTS
  ChanCap,                \* CHAN_CAP, the bound of the jobs channel
  MaxConsecutiveIoErrors, \* MAX_CONSECUTIVE_IO_ERRORS
  RecoveryHealthySamples, \* autotier_config.recovery_samples
  Modes                   \* the backends started: "origin" and "sparse"

ASSUME NbdDaemonAssumption ==
  /\ ChanCap \in Nat \ {0} /\ MaxConsecutiveIoErrors \in Nat \ {0}
  /\ RecoveryHealthySamples \in Nat \ {0}
  /\ Modes \subseteq {"origin", "sparse"}

VARIABLES
  mode,      \* the backend: Be::Origin or Be::Sparse
  conn,      \* the client connection: "closed", "handshake", "open", "closing"
  jobs,      \* the jobs channel: slots of jobs, "Opened", "Closed", "Shutdown"
  live,      \* LiveCount
  stored,    \* the slots whose contents the backend holds
  pc,        \* where the worker is
  shutdown,  \* the SHUTDOWN flag
  bridge,    \* the shutdown bridge: "polling" or "sent"
  requested, \* shutdown_requested
  demote,    \* demote_rx and its swapoff process
  orphan,    \* a swapoff process the worker no longer listens to, not yet in the kernel
  demoted, attempted, confirmed, \* demoted, swapoff_attempted, swapoff_confirmed
  ioErrors,  \* consecutive_io_errors
  streak,    \* the RecoveryTracker's streak
  activation,\* RecoveryActivation.result_rx and its swapon process
  failedEpoch, \* RecoveryActivation.failed_epoch
  sampledZero  \* the teardown's used_kb was 0 when it was sampled

loopVars == <<requested, demoted, attempted, confirmed, ioErrors, streak, failedEpoch>>
connVars == <<conn, live>>
childVars == <<demote, orphan, activation>>
vars == <<clientVars, mode, conn, jobs, live, stored, pc, shutdown, bridge,
          loopVars, childVars, sampledZero>>

Messages == Slots \cup {"Opened", "Closed", "Shutdown"}
Serving == {"top", "recv", "tick"}
Teardown == {"wait", "sample", "decide", "retry", "release"}

\* A receiver and the process behind it: nothing, started, in its system call,
\* finished with the result that try_recv will return.
Children == {"none", "started", "running", "ok", "failed"}

TypeOK ==
  /\ ClientTypeOK
  /\ mode \in Modes /\ conn \in {"closed", "handshake", "open", "closing"}
  /\ jobs \in BoundedSeq(Messages, ChanCap) /\ live \in Nat /\ stored \subseteq Slots
  /\ pc \in Serving \cup Teardown \cup {"done"}
  /\ shutdown \in BOOLEAN /\ bridge \in {"polling", "sent"} /\ requested \in BOOLEAN
  /\ demote \in Children /\ orphan \in BOOLEAN /\ activation \in Children
  /\ demoted \in BOOLEAN /\ attempted \in BOOLEAN /\ confirmed \in BOOLEAN
  /\ ioErrors \in 0 .. MaxConsecutiveIoErrors
  /\ streak \in 0 .. RecoveryHealthySamples
  /\ failedEpoch \in BOOLEAN /\ sampledZero \in BOOLEAN

Init ==
  /\ ClientInit
  /\ mode \in Modes /\ conn = "closed" /\ jobs = <<>> /\ live = 0 /\ stored = {}
  /\ pc = "top" /\ shutdown = FALSE /\ bridge = "polling" /\ requested = FALSE
  /\ demote = "none" /\ orphan = FALSE /\ activation = "none"
  /\ demoted = FALSE /\ attempted = FALSE /\ confirmed = FALSE
  /\ ioErrors = 0 /\ streak = 0 /\ failedEpoch = FALSE /\ sampledZero = FALSE

-----------------------------------------------------------------------------
(***************************************************************************)
(* conn.rs: an accepted connection announces itself, shakes hands, turns   *)
(* requests into jobs and replies into bytes, and announces its end.  A    *)
(* send on the full channel blocks.                                        *)
(***************************************************************************)

Room == Len(jobs) < ChanCap

Unserved(s) == io[s] \in Waiting /\ s \notin ToSet(jobs)

Listening == pc # "done"

\* wire_conn: Opened is sent before the reader thread exists.
WireConn ==
  /\ Listening /\ operator = "attach" /\ conn = "closed" /\ Room
  /\ conn' = "handshake"
  /\ jobs' = Append(jobs, "Opened")
  /\ UNCHANGED <<clientVars, mode, live, stored, pc, shutdown, bridge, loopVars, childVars, sampledZero>>

\* server_handshake: an export is negotiated, or the reader thread ends.
Handshake ==
  /\ conn = "handshake"
  /\ \/ conn' = "open" /\ operator' = "mkswap"
     \/ conn' = "closing" /\ UNCHANGED operator
  /\ UNCHANGED <<swap, drainer, used, io, swaponBy, mode, jobs, live, stored, pc,
                 shutdown, bridge, loopVars, childVars, sampledZero>>

ReaderSendsJob(s) ==
  /\ Listening /\ conn = "open" /\ Unserved(s) /\ Room
  /\ jobs' = Append(jobs, s)
  /\ UNCHANGED <<clientVars, mode, connVars, stored, pc, shutdown, bridge, loopVars, childVars, sampledZero>>

\* nbd-client -d, or the client's end of the stream: only the CLI's order, with
\* the swap off and nothing outstanding, is modelled.
ClientDisconnects ==
  /\ conn = "open" /\ operator = "down" /\ swap = "off" /\ \A s \in Slots : Idle(s)
  /\ swaponBy = "none"
  /\ conn' = "closing"
  /\ UNCHANGED <<clientVars, mode, jobs, live, stored, pc, shutdown, bridge, loopVars, childVars, sampledZero>>

ReaderExits ==
  /\ Listening /\ conn = "closing" /\ Room
  /\ conn' = "closed"
  /\ jobs' = Append(jobs, "Closed")
  /\ UNCHANGED <<clientVars, mode, live, stored, pc, shutdown, bridge, loopVars, childVars, sampledZero>>

\* The writer thread delivers a reply.
WriterSends ==
  /\ HeaderDelivered \/ \E p \in Pages : PageDelivered(p)
  /\ activation' = IF activation = "running" /\ io[Header] \in Replies /\ io'[Header] = "none"
                   THEN IF io[Header] = "read" THEN "ok" ELSE "failed"
                   ELSE activation
  /\ demote' = IF drainer = "child" /\ drainer' = "none" THEN "failed" ELSE demote
  /\ UNCHANGED <<mode, connVars, jobs, stored, pc, shutdown, bridge, loopVars, orphan, sampledZero>>

\* A request on a closed connection, or of a daemon that is gone, fails.
SocketFails(s) ==
  /\ io[s] \in Waiting
  /\ pc = "done" \/ (conn # "open" /\ Unserved(s))
  /\ io' = [io EXCEPT ![s] = IF io[s] = "reading" THEN "readFailed" ELSE "writeFailed"]
  /\ UNCHANGED <<swap, drainer, used, swaponBy, operator, mode, connVars, jobs, stored, pc,
                 shutdown, bridge, loopVars, childVars, sampledZero>>

-----------------------------------------------------------------------------
(***************************************************************************)
(* swap.rs: the swapoff and swapon processes of the worker.                *)
(***************************************************************************)
SwapoffChild ==
  /\ demote = "started"
  /\ \/ SwapoffStarts("child") /\ demote' = "running"
     \/ demote' = "failed" /\ UNCHANGED <<swap, drainer, used, io, swaponBy>>
  /\ UNCHANGED <<operator, mode, connVars, jobs, stored, pc, shutdown, bridge, loopVars,
                 orphan, activation, sampledZero>>

OrphanSwapoff ==
  /\ orphan
  /\ orphan' = FALSE
  /\ SwapoffStarts("orphan") \/ UNCHANGED <<swap, drainer, used, io, swaponBy>>
  /\ UNCHANGED <<operator, mode, connVars, jobs, stored, pc, shutdown, bridge, loopVars,
                 demote, activation, sampledZero>>

SwapoffReturns ==
  /\ \/ SwapoffEnds /\ demote' = IF drainer = "child" THEN "ok" ELSE demote
     \/ SwapoffGivesUp /\ demote' = IF drainer = "child" THEN "failed" ELSE demote
  /\ UNCHANGED <<operator, mode, connVars, jobs, stored, pc, shutdown, bridge, loopVars,
                 orphan, activation, sampledZero>>

SwaponChild ==
  /\ activation = "started"
  /\ \/ SwaponStarts("child") /\ activation' = "running"
     \/ SwaponFromCache /\ activation' = "ok"
     \/ activation' = "failed" /\ UNCHANGED <<swap, drainer, used, io, swaponBy>>
  /\ UNCHANGED <<operator, mode, connVars, jobs, stored, pc, shutdown, bridge, loopVars,
                 demote, orphan, sampledZero>>

-----------------------------------------------------------------------------
(***************************************************************************)
(* SIGTERM sets SHUTDOWN; the bridge thread turns it into a message, which *)
(* is dropped when the channel is full.                                    *)
(***************************************************************************)
Sigterm ==
  /\ ~shutdown /\ Listening /\ operator \notin {"formatting", "activating"}
  /\ shutdown' = TRUE
  /\ UNCHANGED <<clientVars, mode, connVars, jobs, stored, pc, bridge, loopVars, childVars, sampledZero>>

ShutdownBridge ==
  /\ shutdown /\ bridge = "polling" /\ Listening
  /\ bridge' = "sent"
  /\ jobs' = IF Room THEN Append(jobs, "Shutdown") ELSE jobs
  /\ UNCHANGED <<clientVars, mode, connVars, stored, pc, shutdown, loopVars, childVars, sampledZero>>

-----------------------------------------------------------------------------
(***************************************************************************)
(* The top of the loop.                                                    *)
(***************************************************************************)
Finished(child) == child \in {"ok", "failed"}

\* The flag is looked at on every iteration, the bridge's message aside.
ShutdownSeen == requested \/ shutdown

\* A swapon that succeeded clears demoted, swapoff_attempted, swapoff_confirmed.
ClearedBySwapon(flag) == flag /\ activation # "ok"

\* RecoveryActivation::backend_release_allowed once shutdown is requested.
ActivationReleased(child) == child = "none"

LoopTop ==
  /\ pc = "top"
  /\ requested' = ShutdownSeen
  /\ activation' = IF Finished(activation) THEN "none" ELSE activation
  /\ failedEpoch' = IF Finished(activation) THEN activation = "failed" ELSE failedEpoch
  /\ streak' = IF Finished(activation) THEN 0 ELSE streak
  /\ LET undo == activation = "ok" /\ requested'
         polled == IF undo THEN "started" ELSE demote
         drained == polled = "ok"
     IN /\ demote' = IF Finished(polled) THEN "none" ELSE polled
        /\ demoted' = (drained \/ ClearedBySwapon(demoted))
        /\ confirmed' = (drained \/ ClearedBySwapon(confirmed))
        /\ attempted' = (undo \/ ClearedBySwapon(attempted))
  /\ pc' = IF requested' /\ ActivationReleased(activation') /\ demote' = "none"
           THEN "wait" ELSE "recv"
  /\ UNCHANGED <<clientVars, mode, connVars, jobs, stored, shutdown, bridge, ioErrors, orphan, sampledZero>>

(***************************************************************************)
(* The message.  Only a sparse backend demotes, and only when it is not    *)
(* demoted and no swapoff is being waited for.                             *)
(***************************************************************************)
MayDemote == mode = "sparse" /\ ~demoted /\ demote = "none"

SpawnSwapoff(wanted) ==
  /\ demote' = IF wanted /\ MayDemote THEN "started" ELSE demote
  /\ attempted' = (attempted \/ (wanted /\ MayDemote))

\* A message is there for the worker.
Receiving == pc = "recv" /\ jobs # <<>>

\* recv_timeout with an empty channel; while a swapon is pending, nothing but
\* its result is looked at.
ReceiveTimesOut ==
  /\ pc = "recv" /\ jobs = <<>>
  /\ pc' = IF activation # "none" THEN "top" ELSE "tick"
  /\ UNCHANGED <<clientVars, mode, connVars, jobs, stored, shutdown, bridge, loopVars, childVars, sampledZero>>

ReceiveOpened ==
  /\ Receiving /\ Head(jobs) = "Opened"
  /\ jobs' = Tail(jobs)
  /\ live' = live + 1
  /\ pc' = "tick"
  /\ UNCHANGED <<clientVars, mode, conn, stored, shutdown, bridge, loopVars, childVars, sampledZero>>

\* LiveCount::on_close is true on reaching zero; the iteration then ends.
ReceiveClosed ==
  /\ Receiving /\ Head(jobs) = "Closed"
  /\ jobs' = Tail(jobs)
  /\ live' = IF live = 0 THEN 0 ELSE live - 1
  /\ pc' = IF live = 1 THEN "top" ELSE "tick"
  /\ UNCHANGED <<clientVars, mode, conn, stored, shutdown, bridge, loopVars, childVars, sampledZero>>

\* The message breaks out of the loop whether or not a swapoff is waited for;
\* only a pending swapon keeps the loop going.
ReceiveShutdown ==
  /\ Receiving /\ Head(jobs) = "Shutdown"
  /\ jobs' = Tail(jobs)
  /\ requested' = TRUE
  /\ pc' = IF ActivationReleased(activation) THEN "wait" ELSE "top"
  /\ UNCHANGED <<clientVars, mode, connVars, stored, shutdown, bridge, demoted, attempted,
                 confirmed, ioErrors, streak, failedEpoch, childVars, sampledZero>>

\* What the backend answers.  A sparse write to a slot without memory allocates,
\* unless the budget gate ("refused"), the floor or the allocator refuses; a
\* sparse read of a slot without memory answers zeroes.
Answers(s) ==
  CASE io[s] = "writing" /\ mode = "sparse" /\ s \notin stored -> {"written", "writeFailed", "refused"}
    [] io[s] = "writing" -> {"written", "writeFailed"}
    [] s \in stored -> {"read", "readFailed"}
    [] mode = "sparse" -> {"blank"}
    [] OTHER -> {"blank", "readFailed"}

\* serve, the reply, the burst of I/O errors, the residency check (which may
\* ask for a demotion at any request) and the budget gate's refusals.
ReceiveJob ==
  /\ Receiving /\ Head(jobs) \in Slots
  /\ jobs' = Tail(jobs)
  /\ pc' = "tick"
  /\ \E answer \in Answers(Head(jobs)), residency \in BOOLEAN :
       LET s == Head(jobs)
           eio == answer \notin {"written", "read", "blank"}
       IN /\ io' = [io EXCEPT ![s] = IF answer = "refused" THEN "writeFailed" ELSE answer]
          /\ stored' = IF answer = "written" THEN stored \cup {s} ELSE stored
          /\ ioErrors' = IF ~eio THEN 0
                         ELSE IF ioErrors < MaxConsecutiveIoErrors THEN ioErrors + 1 ELSE ioErrors
          /\ SpawnSwapoff(residency \/ answer = "refused" \/ (eio /\ ioErrors' = MaxConsecutiveIoErrors))
  /\ UNCHANGED <<swap, drainer, used, swaponBy, operator, mode, connVars, shutdown, bridge,
                 requested, demoted, confirmed, streak, failedEpoch, orphan, activation, sampledZero>>

-----------------------------------------------------------------------------
(***************************************************************************)
(* The rest of the iteration: the second poll of the swapoff, the reclaim  *)
(* of a sparse backend whose swap area holds no page, the GPU heartbeat,   *)
(* and the budget probe that demotes or, once demoted, recovers.           *)
(***************************************************************************)

\* try_reclaim: free_all_live when used_kb is 0 and the GPU is short or idle.  A
\* /proc/swaps that cannot be read counts as used.
ReclaimedStore(reclaims) == IF mode = "sparse" /\ used = {} /\ reclaims THEN {} ELSE stored

\* RecoveryTracker::observe.
ObservedStreak(healthy, empty, s) ==
  IF ~healthy \/ ~empty THEN 0
  ELSE IF s < RecoveryHealthySamples THEN s + 1 ELSE s

\* RecoveryActivation::launch_allowed leaves a failed epoch on an unhealthy or
\* nonempty sample, and allows a launch in an epoch that has not failed.
EpochAfter(healthy, empty, failed) == failed /\ healthy /\ empty

Tick ==
  /\ pc = "tick" /\ pc' = "top"
  /\ \E reclaims, healthy, gpuLost, spawnFails \in BOOLEAN :
       LET drained == demote = "ok"
           waiting == demote \in {"started", "running"}
           isDemoted == demoted \/ drained
           polledStreak == IF Finished(demote) THEN 0 ELSE streak
           kept == ReclaimedStore(reclaims)
           demotes == mode = "sparse" /\ ~isDemoted /\ ~waiting /\ (gpuLost \/ ~healthy)
           observes == mode = "sparse" /\ isDemoted /\ ~waiting
           observed == ObservedStreak(healthy, kept = {}, polledStreak)
           epoch == EpochAfter(healthy, kept = {}, failedEpoch)
           launches == /\ observes /\ ~requested /\ observed = RecoveryHealthySamples
                       /\ activation = "none" /\ ~epoch
       IN /\ stored' = kept
          /\ demoted' = isDemoted
          /\ confirmed' = (confirmed \/ drained)
          /\ demote' = IF demotes THEN "started" ELSE IF waiting THEN demote ELSE "none"
          /\ attempted' = (attempted \/ demotes)
          /\ activation' = IF launches /\ ~spawnFails THEN "started" ELSE activation
          /\ failedEpoch' = IF launches /\ spawnFails THEN TRUE
                            ELSE IF observes THEN epoch ELSE failedEpoch
          /\ streak' = IF launches /\ spawnFails THEN 0 ELSE IF observes THEN observed ELSE polledStreak
  /\ UNCHANGED <<clientVars, mode, connVars, jobs, shutdown, bridge, requested, ioErrors, orphan, sampledZero>>

-----------------------------------------------------------------------------
(***************************************************************************)
(* Teardown.  Nothing receives from the jobs channel any more.             *)
(***************************************************************************)

\* recv_timeout on a swapoff's result: the result, or the process is left alone.
AwaitSwapoff ==
  /\ confirmed' = (confirmed \/ demote = "ok")
  /\ demote' = "none"
  /\ orphan' = (orphan \/ demote = "started")
  /\ drainer' = IF demote = "running" THEN "orphan" ELSE drainer

TeardownWait ==
  /\ pc = "wait" /\ pc' = "sample"
  /\ AwaitSwapoff
  /\ UNCHANGED <<swap, used, io, swaponBy, operator, mode, connVars, jobs, stored, shutdown, bridge,
                 requested, demoted, attempted, ioErrors, streak, failedEpoch, activation, sampledZero>>

\* nbd_used_kb, which answers u64::MAX when /proc/swaps cannot be read.
TeardownSample ==
  /\ pc = "sample" /\ pc' = "decide"
  /\ sampledZero' \in {used = {}, FALSE}
  /\ UNCHANGED <<clientVars, mode, connVars, jobs, stored, shutdown, bridge, loopVars, childVars>>

\* Mutant: an unused area is taken for an absent one.
ReleaseUnused(absent) == sampledZero

\* autotier::backend_release_allowed.
BackendReleaseAllowed(absent) == sampledZero /\ (absent \/ (attempted /\ confirmed))

\* nbd_swap_is_explicitly_absent, the loop's condition and its body up to the
\* wait for another swapoff.
TeardownDecide ==
  /\ pc = "decide"
  /\ \E absent \in {swap = "off", FALSE} :
       IF BackendReleaseAllowed(absent)
       THEN pc' = "release" /\ UNCHANGED <<attempted, demote>>
       ELSE /\ attempted' = TRUE
            /\ pc' = IF confirmed THEN "sample" ELSE "retry"
            /\ demote' = IF confirmed THEN demote ELSE "started"
  /\ UNCHANGED <<clientVars, mode, connVars, jobs, stored, shutdown, bridge, requested, demoted,
                 confirmed, ioErrors, streak, failedEpoch, orphan, activation, sampledZero>>

TeardownRetry ==
  /\ pc = "retry" /\ pc' = "sample"
  /\ AwaitSwapoff
  /\ UNCHANGED <<swap, used, io, swaponBy, operator, mode, connVars, jobs, stored, shutdown, bridge,
                 requested, demoted, attempted, ioErrors, streak, failedEpoch, activation, sampledZero>>

\* free_all_live or release_cache, then the process ends.
TeardownRelease ==
  /\ pc = "release" /\ pc' = "done"
  /\ stored' = IF mode = "sparse" THEN {} ELSE stored
  /\ UNCHANGED <<clientVars, mode, connVars, jobs, shutdown, bridge, loopVars, childVars, sampledZero>>

-----------------------------------------------------------------------------
\* The kernel and the operator move; the daemon does not.  The CLI runs one
\* lifecycle command at a time: it activates nothing while it stops the daemon,
\* and stops no daemon while it activates its device.
ClientMoves ==
  /\ \/ \E p \in Pages : PageOut(p) \/ PageIn(p) \/ PageDropped(p)
     \/ ~shutdown /\ (OperatorFormats \/ OperatorActivates)
     \/ OperatorSwitchesOff \/ OperatorSeesOff
  /\ UNCHANGED <<mode, connVars, jobs, stored, pc, shutdown, bridge, loopVars, childVars, sampledZero>>

Worker ==
  \/ LoopTop \/ ReceiveTimesOut \/ ReceiveOpened \/ ReceiveClosed \/ ReceiveShutdown
  \/ ReceiveJob \/ Tick
  \/ TeardownWait \/ TeardownSample \/ TeardownDecide \/ TeardownRetry \/ TeardownRelease

Threads ==
  \/ WireConn \/ Handshake \/ ClientDisconnects \/ ReaderExits \/ WriterSends
  \/ \E s \in Slots : ReaderSendsJob(s) \/ SocketFails(s)

Processes == SwapoffChild \/ OrphanSwapoff \/ SwapoffReturns \/ SwaponChild

Next == Worker \/ Threads \/ Processes \/ ClientMoves \/ Sigterm \/ ShutdownBridge

Spec == Init /\ [][Next]_vars

(***************************************************************************)
(* Fairness: threads and processes that can run do run; the worker loop    *)
(* never blocks for good (every receive has a timeout); a swapoff reads    *)
(* its pages back and, tried again and again, is not refused for ever;     *)
(* /proc/swaps is not unreadable for ever, nor the GPU short for ever.     *)
(***************************************************************************)
Fairness ==
  /\ WF_vars(Worker) /\ WF_vars(ShutdownBridge) /\ WF_vars(Handshake) /\ WF_vars(ReaderExits)
  /\ WF_vars(WriterSends)
  /\ \A s \in Slots : WF_vars(ReaderSendsJob(s)) /\ WF_vars(SocketFails(s))
  /\ \A p \in Pages : WF_vars(swap = "draining" /\ PageIn(p) /\ ClientMoves)
  /\ WF_vars(SwapoffChild) /\ WF_vars(OrphanSwapoff) /\ WF_vars(SwaponChild)
  /\ SF_vars((SwapoffChild \/ OrphanSwapoff) /\ swap' = "draining")
  /\ SF_vars(SwapoffReturns /\ swap' = "off")
  /\ SF_vars(TeardownSample /\ sampledZero') /\ SF_vars(TeardownDecide /\ pc' = "release")
  /\ SF_vars(Tick /\ demote' = "none")

FairSpec == Spec /\ Fairness

-----------------------------------------------------------------------------
(***************************************************************************)
(* Properties.                                                             *)
(***************************************************************************)

\* The backend is not released under an active swap area: when the process has
\* ended, the device is no swap area any more (the loop on
\* backend_release_allowed, main.rs).
BackendKept == pc = "done" => swap = "off"

\* A page the kernel has paged out, and was told is written, is held by the
\* backend until the kernel frees its slot: the reclaim of a sparse backend,
\* decided on a used_kb sampled between two requests, never frees a page in use.
UsedPagesStored ==
  \A p \in used : io[p] \in {"none", "reading", "read", "written"} /\ pc # "done" => p \in stored

\* A swapon process runs only from a demoted daemon that serves, and never
\* beside a swapoff process of the same daemon; the loop is not left, and so the
\* backend not released, while it can still read the export.
SwaponRunsAlone ==
  activation # "none" => demoted /\ demote = "none" /\ pc \in Serving

\* A confirmed swapoff is current: while swapoff_confirmed lets the teardown
\* release an unused backend, the area is off or the daemon's own swapon is
\* about to be polled, which clears the confirmation.
ConfirmedIsCurrent == confirmed => swap = "off" \/ activation \in {"running", "ok"}

\* LiveCount agrees with the connection threads once the channel is drained:
\* every Opened has its Closed, also when the handshake fails.
LiveBalanced ==
  live + Len(SelectSeq(jobs, LAMBDA m : m = "Opened"))
    = Len(SelectSeq(jobs, LAMBDA m : m = "Closed")) + (IF conn = "closed" THEN 0 ELSE 1)

\* A demotion ends while the daemon serves: the swapoff process has its pages
\* read back by the very worker that waits for it.
DemotionSettles ==
  (demote \in {"started", "running"} /\ pc \in Serving) ~> (demote \notin {"started", "running"} \/ pc \notin Serving)

\* A daemon told to stop ends as long as its swap area stays empty, also when
\* the bridge's message was dropped on a full channel.
ShutdownReleases == (shutdown /\ used = {}) ~> (pc = "done" \/ used # {})

\* A daemon told to stop ends: no swapoff it waits for needs the worker that
\* waits (swap.rs: the swapoff runs outside of the path serving the swap).
ShutdownNeverHangs == shutdown ~> pc = "done"

\* The promises together: of every state, and of what happens in the end.
NbdContract ==
  /\ [](TypeOK /\ BackendKept /\ UsedPagesStored /\ SwaponRunsAlone /\ ConfirmedIsCurrent /\ LiveBalanced)
  /\ DemotionSettles /\ ShutdownReleases
=============================================================================
