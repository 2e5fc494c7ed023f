------------------------------ MODULE Cascade ------------------------------
(***************************************************************************)
(* `ramshared up` and `ramshared down` (cascade_io.rs of ramshared-cli):   *)
(* zram, daemon, NBD attachment, sealed binding and swap are set up one    *)
(* after the other, unwound when a step fails, and taken down again.  Each *)
(* external command and each file write is one step; it may fail, a failed *)
(* command may still have taken effect, and the CLI may be killed between  *)
(* any two steps.  Steps that end a command with an error that is          *)
(* UnsafeContainment in the code leave everything as it is.                *)
(***************************************************************************)
EXTENDS Naturals, FiniteSets, Sequences

(***************************************************************************)
(* What the cascade commands of the CLI act on and what they look at: the  *)
(* zram and NBD devices of the kernel, /proc/swaps, the daemon processes,  *)
(* and the files under /run/ramshared.  The daemon of the module NbdDaemon *)
(* is here one process that answers, publishes its status and may die.     *)
(***************************************************************************)
CONSTANTS
  Zrams,         \* the zram device paths
  MaxDaemons,    \* bound: daemons ever started
  ForeignZram,   \* may another program own zram devices?
  StatusLapses   \* may the daemon's status file be older than its bound?

ASSUME CascadeHostAssumption ==
  /\ MaxDaemons \in Nat /\ ForeignZram \in BOOLEAN /\ StatusLapses \in BOOLEAN
  /\ "nbd0" \notin Zrams /\ "none" \notin Zrams

VARIABLES
  zram,     \* each zram device: "free", or allocated by us ("ours") or by others ("foreign")
  nbd,      \* the daemon /dev/nbd0 is attached to, 0 when it is detached
  swaps,    \* the paths in /proc/swaps
  alive,    \* the daemons running
  started,  \* daemons started so far
  bound,    \* the daemons that have bound their export socket
  sock,     \* the daemon whose export socket has the path, 0 if there is none
  status,   \* the daemon the cache status file names as current, 0 if none
  pidFile,  \* the daemon in ramsharedd.pid, 0 if the file is missing
  swapDev,  \* does the swap-dev record exist?
  zramDev,  \* the device of the zram-dev record
  binding   \* the lifecycle binding on disk

kernelVars == <<zram, nbd, swaps>>
daemonVars == <<alive, started, bound, sock, status>>
fileVars == <<pidFile, swapDev, zramDev, binding>>
hostVars == <<kernelVars, daemonVars, fileVars>>

None == "none"
Nbd == "nbd0"
Daemons == 1 .. MaxDaemons

\* BoundDeviceIdentity: a zram device is known by its path and number only, an
\* NBD attachment also by the process that owns it.
ZramId(z) == <<"zram", z>>
NbdId(d) == <<"nbd", d>>
Identities == {ZramId(z) : z \in Zrams} \cup {NbdId(d) : d \in Daemons}
PathOf(id) == IF id[1] = "nbd" THEN Nbd ELSE id[2]
Kind(ids, kind) == {id \in ids : id[1] = kind}

NoBinding == [daemon |-> 0, devices |-> {}]
Bindings == [daemon : Daemons, devices : SUBSET Identities] \cup {NoBinding}

HostTypeOK ==
  /\ zram \in [Zrams -> {"free", "ours", "foreign"}]
  /\ nbd \in 0 .. MaxDaemons /\ swaps \subseteq Zrams \cup {Nbd}
  /\ alive \subseteq 1 .. started /\ started \in 0 .. MaxDaemons
  /\ bound \subseteq 1 .. started /\ sock \in {0} \cup bound /\ status \in 0 .. started /\ pidFile \in 0 .. started
  /\ swapDev \in BOOLEAN /\ zramDev \in Zrams \cup {None} /\ binding \in Bindings

HostInit ==
  /\ zram = [z \in Zrams |-> "free"] /\ nbd = 0 /\ swaps = {}
  /\ alive = {} /\ started = 0 /\ bound = {} /\ sock = 0 /\ status = 0
  /\ pidFile = 0 /\ swapDev = FALSE /\ zramDev = None /\ binding = NoBinding

\* detect_live_managed_devices.
Live ==
  {ZramId(z) : z \in {x \in Zrams : zram[x] # "free"}}
    \cup (IF nbd = 0 THEN {} ELSE {NbdId(nbd)})

\* bind_device_for_effect: the identity is what the kernel shows, and stays so
\* while the descriptor is open.
Pinned(id) == id \in Live

\* exact_single_device_delta: the one device that appeared, if exactly one of
\* the kind did and nothing disappeared.
DeviceDelta(before, after, kind) ==
  IF before \subseteq after /\ Cardinality(after \ before) = 1
  THEN Kind(after \ before, kind) ELSE {}

\* validate_lifecycle_binding.
ValidBinding(b) ==
  /\ b.daemon # 0
  /\ Cardinality(Kind(b.devices, "nbd")) = 1
  /\ Cardinality(Kind(b.devices, "zram")) <= 1

\* cache_status_has_current_daemon_identity.
StatusCurrent(d) == d \in alive /\ status = d

\* revalidate_daemon_and_socket: the process, its status file and its socket.
DaemonMatches(b) == StatusCurrent(b.daemon) /\ sock = b.daemon

\* prove_exact_live_device_set.
ExactLiveSet(b, expected) == expected \subseteq b.devices /\ Live = expected

\* A strict snapshot of /proc/swaps does not show the path.
SwapAbsent(path) == path \notin swaps

\* authorize_bound_environment for a binding at the stage of a command at which
\* exactly the expected devices are live.
Authorized(b, expected) ==
  /\ ValidBinding(b) /\ DaemonMatches(b)
  /\ zramDev # None => ZramId(zramDev) \in b.devices
  /\ swaps \subseteq {PathOf(id) : id \in b.devices}
  /\ ExactLiveSet(b, expected)

\* observe_exact_detached_nbd.
NbdDetached == nbd = 0 /\ SwapAbsent(Nbd)

\* The records are written to a temporary file, synced and renamed: a reader sees
\* all of the new one or none of it.
SealBinding(b) == binding' = b
SealZramRecord(z) == zramDev' = z
SealNbdRecord == swapDev' = TRUE

(***************************************************************************)
(* The daemon and the other programs of the host.                          *)
(***************************************************************************)
DaemonListens(d) ==
  /\ d \in alive \ bound /\ sock = 0
  /\ sock' = d /\ bound' = bound \cup {d}
  /\ UNCHANGED <<kernelVars, fileVars, alive, started, status>>

DaemonPublishes(d) ==
  /\ d \in alive /\ status # d
  /\ status' = d
  /\ UNCHANGED <<kernelVars, fileVars, alive, started, bound, sock>>

StatusAges ==
  /\ StatusLapses /\ status # 0
  /\ status' = 0
  /\ UNCHANGED <<kernelVars, fileVars, alive, started, bound, sock>>

\* A daemon that ends closes the connection: the kernel may or may not give up
\* the attachment, and the socket's path is removed only in an orderly exit.
DaemonDies(d) ==
  /\ d \in alive
  /\ alive' = alive \ {d}
  /\ nbd' \in {nbd} \cup (IF nbd = d THEN {0} ELSE {})
  /\ sock' \in {sock} \cup (IF sock = d THEN {0} ELSE {})
  /\ status' = IF status = d THEN 0 ELSE status
  /\ UNCHANGED <<zram, swaps, started, bound, fileVars>>

ForeignAllocates(z) ==
  /\ ForeignZram /\ zram[z] = "free"
  /\ zram' = [zram EXCEPT ![z] = "foreign"]
  /\ swaps' \in {swaps, swaps \cup {z}}
  /\ UNCHANGED <<nbd, daemonVars, fileVars>>

ForeignFrees(z) ==
  /\ zram[z] = "foreign"
  /\ zram' = [zram EXCEPT ![z] = "free"]
  /\ swaps' = swaps \ {z}
  /\ UNCHANGED <<nbd, daemonVars, fileVars>>

HostMoves ==
  \/ StatusAges
  \/ \E d \in alive : DaemonListens(d) \/ DaemonPublishes(d) \/ DaemonDies(d)
  \/ \E z \in Zrams : ForeignAllocates(z) \/ ForeignFrees(z)

-----------------------------------------------------------------------------

CONSTANTS
  Procs,             \* the CLI processes; the code takes no lock between them
  MaxAlgos           \* ZRAM_ALGOS: compression algorithms tried in turn

ASSUME CascadeAssumption == MaxAlgos \in Nat \ {0}

VARIABLE cli         \* the state of each CLI process

vars == <<hostVars, cli>>

\* zdev: the zram device of this run; before: the devices seen before a command;
\* first: those seen by the first reconciliation; dmn: the daemon this run
\* started; record: record_written; full: unwinding all of setup_new_cascade;
\* todo: the swapoffs left; from: the binding a `down` works from.
Idle == [pc |-> "idle", zdev |-> None, before |-> {}, first |-> {}, dmn |-> 0, tries |-> 0,
         record |-> FALSE, full |-> FALSE, todo |-> {}, from |-> NoBinding]

UpSteps == {"zfind", "zramctl", "zdelta", "zmalformed", "zreset", "mkswap", "zswapon", "spawn",
            "pid", "ready", "attach", "nbdclient", "recon1", "recon2", "bind", "verify",
            "records", "nswapon", "rbcheck", "rbdetach", "rbafter", "kill", "unwind", "unwindReset"}
DownSteps == {"doff", "dreset", "dresetAfter", "dcheck", "ddetach", "dafter", "dstop", "dclean"}

TypeOK ==
  /\ HostTypeOK
  /\ \A p \in Procs :
       /\ cli[p].pc \in {"idle"} \cup UpSteps \cup DownSteps
       /\ cli[p].zdev \in Zrams \cup {None} /\ cli[p].dmn \in 0 .. started
       /\ cli[p].before \subseteq Identities /\ cli[p].first \subseteq Identities
       /\ cli[p].tries \in 0 .. MaxAlgos - 1 /\ cli[p].from \in Bindings
       /\ cli[p].todo \subseteq Zrams \cup {Nbd}

Init == HostInit /\ cli = [p \in Procs |-> Idle]

Goto(p, pc) == cli' = [cli EXCEPT ![p].pc = pc]
Ends(p) == cli' = [cli EXCEPT ![p] = Idle]

\* A command that failed may have had its effect all the same.
Maybe(var, new) == {var, new}

(***************************************************************************)
(* up: admission.  Refusals leave no trace.                                *)
(***************************************************************************)
\* cascade_already_healthy: `up` has nothing to do.
Healthy == ~SwapAbsent(Nbd) /\ (swapDev \/ pidFile # 0) /\ (pidFile \in alive \/ sock # 0)

\* plan_orphan_action: a managed swap outside a healthy cascade is only reported.
Orphaned == ~Healthy /\ swaps # {}

\* refuse_half_cascade.
HalfCascade == ~Healthy /\ (swapDev \/ zramDev # None \/ pidFile # 0 \/ ~SwapAbsent(Nbd))

UpAdmitted == ~Healthy /\ ~Orphaned /\ ~HalfCascade

UpStarts(p) ==
  /\ cli[p].pc = "idle" /\ UpAdmitted /\ started < MaxDaemons
  /\ cli' = [cli EXCEPT ![p] = [Idle EXCEPT !.pc = "zfind"]]
  /\ UNCHANGED hostVars

\* --zram 0
UpSkipsZram(p) ==
  /\ cli[p].pc = "idle" /\ UpAdmitted /\ started < MaxDaemons
  /\ cli' = [cli EXCEPT ![p] = [Idle EXCEPT !.pc = "spawn"]]
  /\ UNCHANGED hostVars

(***************************************************************************)
(* up: setup_zram_with.                                                    *)
(***************************************************************************)
ZramFind(p) ==
  /\ cli[p].pc = "zfind"
  /\ cli' = [cli EXCEPT ![p].pc = "zramctl", ![p].before = Live]
  /\ UNCHANGED hostVars

NextAlgo(p) ==
  IF cli[p].tries + 1 < MaxAlgos
  THEN cli' = [cli EXCEPT ![p].pc = "zfind", ![p].tries = @ + 1]
  ELSE Ends(p)

Allocates(z) == zram[z] = "free" /\ zram' = [zram EXCEPT ![z] = "ours"]

Zramctl(p) ==
  /\ cli[p].pc = "zramctl"
  /\ \/ \E z \in Zrams :
          Allocates(z) /\ cli' = [cli EXCEPT ![p].pc = "zdelta", ![p].zdev = z]
     \/ \E z \in Zrams : Allocates(z) /\ (Goto(p, "zmalformed") \/ NextAlgo(p))
     \/ (Goto(p, "zmalformed") \/ NextAlgo(p)) /\ UNCHANGED zram
  /\ UNCHANGED <<nbd, swaps, daemonVars, fileVars>>

\* The device is recorded before it is formatted.
ZramRecord(p) ==
  /\ cli[p].pc = "zdelta"
  /\ \/ /\ DeviceDelta(cli[p].before, Live, "zram") = {ZramId(cli[p].zdev)}
        /\ SealZramRecord(cli[p].zdev) /\ Goto(p, "mkswap")
     \/ Ends(p) /\ UNCHANGED zramDev
  /\ UNCHANGED <<kernelVars, daemonVars, pidFile, swapDev, binding>>

\* reconcile_malformed_zram_allocation, up to the reset.
ZramReconcile(p) ==
  LET delta == DeviceDelta(cli[p].before, Live, "zram") IN
  /\ cli[p].pc = "zmalformed"
  /\ \/ Live = cli[p].before /\ NextAlgo(p) /\ UNCHANGED zramDev
     \/ \E id \in delta :
          /\ SwapAbsent(PathOf(id))
          /\ SealZramRecord(PathOf(id))
          /\ cli' = [cli EXCEPT ![p].pc = "zreset", ![p].zdev = PathOf(id)]
     \/ Live # cli[p].before /\ Ends(p) /\ zramDev' \in {zramDev} \cup {PathOf(id) : id \in delta}
  /\ UNCHANGED <<kernelVars, daemonVars, pidFile, swapDev, binding>>

\* zramctl -r: the kernel refuses to reset a device that is in use.
Resets(z) == SwapAbsent(z) /\ zram' = [zram EXCEPT ![z] = "free"]

ZramResetMalformed(p) ==
  /\ cli[p].pc = "zreset"
  /\ \/ /\ Resets(cli[p].zdev)
        /\ zramDev' \in {zramDev} \cup
             (IF Live \ {ZramId(cli[p].zdev)} = cli[p].before THEN {None} ELSE {})
     \/ UNCHANGED <<zram, zramDev>>
  /\ Ends(p)
  /\ UNCHANGED <<nbd, swaps, daemonVars, pidFile, swapDev, binding>>

Mkswap(p) ==
  /\ cli[p].pc = "mkswap"
  /\ \/ Pinned(ZramId(cli[p].zdev)) /\ Goto(p, "zswapon")
     \/ Goto(p, "unwind")
  /\ UNCHANGED hostVars

ZramSwapon(p) ==
  /\ cli[p].pc = "zswapon"
  /\ \/ swaps' = swaps \cup {cli[p].zdev} /\ Goto(p, "spawn")
     \/ swaps' \in Maybe(swaps, swaps \cup {cli[p].zdev}) /\ Ends(p)
  /\ UNCHANGED <<zram, nbd, daemonVars, fileVars>>

(***************************************************************************)
(* up: spawn_daemon_with_deadline.  The daemon leads a process group of    *)
(* its own and outlives the CLI.                                           *)
(***************************************************************************)
Spawn(p) ==
  /\ cli[p].pc = "spawn"
  /\ sock' = 0 /\ status' = 0
  /\ \/ /\ started < MaxDaemons
        /\ started' = started + 1 /\ alive' = alive \cup {started'}
        /\ cli' = [cli EXCEPT ![p].pc = "pid", ![p].dmn = started']
     \/ /\ cli' = [cli EXCEPT ![p].pc = "unwind", ![p].full = TRUE]
        /\ UNCHANGED <<started, alive>>
  /\ UNCHANGED <<kernelVars, fileVars, bound>>

\* terminate_spawned_child: the child is gone and reaped, or the command ends
\* with everything in place.
Terminates(p) ==
  /\ alive' = alive \ {cli[p].dmn}
  /\ sock' \in {sock} \cup (IF sock = cli[p].dmn THEN {0} ELSE {})
  /\ cli' = [cli EXCEPT ![p].pc = "unwind", ![p].full = TRUE]

WritePid(p) ==
  /\ cli[p].pc = "pid"
  /\ \/ pidFile' = cli[p].dmn /\ Goto(p, "ready") /\ UNCHANGED <<alive, sock>>
     \/ Terminates(p) /\ UNCHANGED pidFile
     \/ Ends(p) /\ UNCHANGED <<alive, sock, pidFile>>
  /\ UNCHANGED <<kernelVars, started, bound, status, swapDev, zramDev, binding>>

DaemonReady(p) == sock # 0 /\ StatusCurrent(cli[p].dmn)

AwaitReady(p) ==
  /\ cli[p].pc = "ready" /\ DaemonReady(p)
  /\ Goto(p, "attach")
  /\ UNCHANGED hostVars

ReadyTimesOut(p) ==
  /\ cli[p].pc = "ready" /\ ~DaemonReady(p)
  /\ \/ Terminates(p) /\ pidFile' = 0 /\ status' = 0
     \/ Ends(p) /\ UNCHANGED <<alive, sock, status, pidFile>>
  /\ UNCHANGED <<kernelVars, started, bound, swapDev, zramDev, binding>>

(***************************************************************************)
(* up: connect_nbd_with.                                                   *)
(***************************************************************************)
BeforeAttach(p) ==
  /\ cli[p].pc = "attach"
  /\ \/ cli' = [cli EXCEPT ![p].pc = "nbdclient", ![p].before = Live]
     \/ Goto(p, "kill")
  /\ UNCHANGED hostVars

NbdClient(p) ==
  /\ cli[p].pc = "nbdclient"
  /\ \/ /\ nbd = 0 /\ sock \in alive
        /\ nbd' = sock /\ (Goto(p, "bind") \/ Goto(p, "recon1"))
     \/ Goto(p, "recon1") /\ UNCHANGED nbd
  /\ UNCHANGED <<zram, swaps, daemonVars, fileVars>>

\* capture_lifecycle_binding: the devices as the kernel shows them now.
Captured(p) ==
  [daemon |-> cli[p].dmn,
   devices |-> Kind(Live, "nbd") \cup (IF cli[p].zdev = None THEN {} ELSE {ZramId(cli[p].zdev)})]

CanCapture(p) ==
  /\ cli[p].zdev # None => zramDev = cli[p].zdev
  /\ Authorized(Captured(p), Captured(p).devices)

Bind(p) ==
  /\ cli[p].pc = "bind"
  /\ \/ CanCapture(p) /\ SealBinding(Captured(p)) /\ Goto(p, "verify")
     \/ Ends(p) /\ binding' \in {binding} \cup (IF CanCapture(p) THEN {Captured(p)} ELSE {})
  /\ UNCHANGED <<kernelVars, daemonVars, pidFile, swapDev, zramDev>>

\* reconcile_uncertain_nbd_attach: two looks at the kernel must agree.
Reconcile(p) ==
  /\ cli[p].pc = "recon1"
  /\ \/ cli' = [cli EXCEPT ![p].pc = "recon2", ![p].first = Live]
     \/ Ends(p)
  /\ UNCHANGED hostVars

StablyAbsent(p) == cli[p].first = cli[p].before /\ Live = cli[p].before

ReconcileAgain(p) ==
  /\ cli[p].pc = "recon2"
  /\ \/ StablyAbsent(p) /\ NbdDetached /\ Goto(p, "kill") /\ UNCHANGED <<binding, swapDev>>
     \/ /\ cli[p].first = Live
        /\ DeviceDelta(cli[p].before, Live, "nbd") # {} /\ CanCapture(p)
        /\ SealBinding(Captured(p)) /\ (SealNbdRecord \/ UNCHANGED swapDev)
        /\ Ends(p)
     \/ Ends(p) /\ UNCHANGED <<binding, swapDev>>
  /\ UNCHANGED <<kernelVars, daemonVars, pidFile, zramDev>>

\* verify_preprovisioned_swap: the header the origin was provisioned with.
VerifySwap(p) ==
  /\ cli[p].pc = "verify"
  /\ \/ Pinned(NbdId(cli[p].dmn)) /\ Goto(p, "records")
     \/ Goto(p, "rbcheck")
  /\ UNCHANGED hostVars

WriteRecords(p) ==
  /\ cli[p].pc = "records"
  /\ \/ Goto(p, "rbcheck") /\ UNCHANGED swapDev
     \/ /\ cli' = [cli EXCEPT ![p].pc = "rbcheck", ![p].record = TRUE]
        /\ SealNbdRecord \/ UNCHANGED swapDev
     \/ SealNbdRecord /\ Goto(p, "nswapon")
  /\ UNCHANGED <<kernelVars, daemonVars, pidFile, zramDev, binding>>

\* swapon reads the header through the daemon.
NbdSwapon(p) ==
  /\ cli[p].pc = "nswapon"
  /\ swaps' \in {swaps} \cup (IF nbd \in alive /\ Pinned(NbdId(cli[p].dmn)) THEN {swaps \cup {Nbd}} ELSE {})
  /\ Ends(p)
  /\ UNCHANGED <<zram, nbd, daemonVars, fileVars>>

(***************************************************************************)
(* up: rollback_nbd_attach_with.  A refusal of authorize_bound_environment *)
(* is a Precondition error, not UnsafeContainment: setup_new_cascade goes  *)
(* on to unwind.                                                           *)
(***************************************************************************)
RollbackCheck(p) ==
  /\ cli[p].pc = "rbcheck"
  /\ \/ /\ Authorized(binding, binding.devices)
        /\ IF SwapAbsent(Nbd) THEN Goto(p, "rbdetach") ELSE Ends(p)
     \/ binding = NoBinding /\ Ends(p)
     \/ /\ binding # NoBinding /\ ~Authorized(binding, binding.devices)
        /\ cli' = [cli EXCEPT ![p].pc = "unwind", ![p].full = TRUE]
  /\ UNCHANGED hostVars

RollbackDetach(p) ==
  /\ cli[p].pc = "rbdetach"
  /\ \/ nbd' = 0 /\ Goto(p, "rbafter")
     \/ nbd' \in Maybe(nbd, 0) /\ Ends(p)
  /\ UNCHANGED <<zram, swaps, daemonVars, fileVars>>

RollbackAfter(p) ==
  /\ cli[p].pc = "rbafter"
  /\ IF Authorized(binding, Kind(binding.devices, "zram")) THEN Goto(p, "kill") ELSE Ends(p)
  /\ UNCHANGED hostVars

KillChild(p) ==
  /\ cli[p].pc = "kill"
  /\ \/ /\ Terminates(p)
        /\ pidFile' = 0 /\ status' = 0
        /\ swapDev' = (swapDev /\ ~cli[p].record)
     \/ Ends(p) /\ UNCHANGED <<alive, sock, status, pidFile, swapDev>>
  /\ UNCHANGED <<kernelVars, started, bound, zramDev, binding>>

(***************************************************************************)
(* up: rollback_zram_tier, alone (full = FALSE, setup_zram_with failed) or *)
(* as the last part of setup_new_cascade's unwinding.                      *)
(***************************************************************************)
Unwound(p, rolledBack) ==
  /\ Ends(p)
  /\ IF cli[p].full
     THEN /\ sock' = 0 /\ pidFile' = 0
          /\ binding' = IF rolledBack THEN NoBinding ELSE binding
     ELSE UNCHANGED <<sock, pidFile, binding>>

OnlyProvisional(p) == zramDev = cli[p].zdev /\ Live = {ZramId(cli[p].zdev)}

UnwindZram(p) ==
  /\ cli[p].pc = "unwind"
  /\ \/ cli[p].zdev = None /\ Unwound(p, TRUE) /\ UNCHANGED swaps
     \/ cli[p].zdev # None /\ Unwound(p, FALSE) /\ UNCHANGED swaps
     \/ /\ cli[p].zdev # None /\ OnlyProvisional(p)
        /\ cli[p].full \/ SwapAbsent(cli[p].zdev)
        /\ swaps' = swaps \ {cli[p].zdev} /\ Goto(p, "unwindReset")
        /\ UNCHANGED <<sock, pidFile, binding>>
  /\ UNCHANGED <<zram, nbd, alive, started, bound, status, swapDev, zramDev>>

UnwindReset(p) ==
  /\ cli[p].pc = "unwindReset"
  /\ \/ Resets(cli[p].zdev) /\ zramDev' = None /\ Unwound(p, TRUE)
     \/ zram' \in {zram} \cup {[zram EXCEPT ![z] = "free"] : z \in {cli[p].zdev} \ swaps}
        /\ UNCHANGED zramDev /\ Unwound(p, FALSE)
  /\ UNCHANGED <<nbd, swaps, alive, started, bound, status, swapDev>>

(***************************************************************************)
(* down.  Without a binding it does nothing or refuses; with one, every    *)
(* step checks the whole environment again.                                *)
(***************************************************************************)
DownStarts(p) ==
  /\ cli[p].pc = "idle"
  /\ Authorized(binding, binding.devices)
  /\ cli' = [cli EXCEPT ![p] = [Idle EXCEPT !.pc = "doff", !.from = binding,
                                  !.todo = swaps \cap {PathOf(id) : id \in binding.devices}]]
  /\ UNCHANGED hostVars

\* The plan follows the sorted binding: NBD before zram.
NextOff(p) == IF Nbd \in cli[p].todo THEN Nbd ELSE CHOOSE z \in cli[p].todo : TRUE

\* swapoff reads every page back; it fails for lack of memory or on a read error,
\* and reports an error too when the swap is already off.
SwapsOff(path) == swaps' = swaps \ {path}

DownSwapoff(p) ==
  /\ cli[p].pc = "doff" /\ cli[p].todo # {}
  /\ LET path == NextOff(p)
         rest == cli[p].todo \ {path}
     IN \/ /\ Authorized(cli[p].from, cli[p].from.devices)
           /\ SwapsOff(path)
           /\ cli' = [cli EXCEPT ![p].todo = rest, ![p].pc = IF rest = {} THEN "dreset" ELSE "doff"]
        \/ /\ swaps' \in {swaps} \cup
                 (IF Authorized(cli[p].from, cli[p].from.devices) THEN {swaps \ {path}} ELSE {})
           /\ Ends(p)
  /\ UNCHANGED <<zram, nbd, daemonVars, fileVars>>

DownNothingOn(p) ==
  /\ cli[p].pc = "doff" /\ cli[p].todo = {}
  /\ Goto(p, "dreset")
  /\ UNCHANGED hostVars

DownResetZram(p) ==
  LET ids == Kind(cli[p].from.devices, "zram") IN
  /\ cli[p].pc = "dreset"
  /\ \/ ids = {} /\ Goto(p, "dcheck") /\ UNCHANGED zram
     \/ \E id \in ids :
          /\ Authorized(cli[p].from, cli[p].from.devices)
          /\ Resets(PathOf(id)) /\ (Goto(p, "dresetAfter") \/ Ends(p))
     \/ ids # {} /\ Ends(p) /\ UNCHANGED zram
  /\ UNCHANGED <<nbd, swaps, daemonVars, fileVars>>

DownResetAfter(p) ==
  /\ cli[p].pc = "dresetAfter"
  /\ IF Authorized(cli[p].from, Kind(cli[p].from.devices, "nbd"))
     THEN Goto(p, "dcheck") ELSE Ends(p)
  /\ UNCHANGED hostVars

DownCheck(p) ==
  /\ cli[p].pc = "dcheck"
  /\ IF Authorized(cli[p].from, Kind(cli[p].from.devices, "nbd")) /\ SwapAbsent(Nbd)
     THEN Goto(p, "ddetach") ELSE Ends(p)
  /\ UNCHANGED hostVars

DownDetach(p) ==
  /\ cli[p].pc = "ddetach"
  /\ \/ nbd' = 0 /\ Goto(p, "dafter")
     \/ nbd' \in Maybe(nbd, 0) /\ Ends(p)
  /\ UNCHANGED <<zram, swaps, daemonVars, fileVars>>

DownDetachAfter(p) ==
  /\ cli[p].pc = "dafter"
  /\ IF Authorized(cli[p].from, {}) THEN Goto(p, "dstop") ELSE Ends(p)
  /\ UNCHANGED hostVars

\* stop_daemon_gracefully_at: TERM through a pidfd, and a bounded wait.
DaemonKillAllowed == SwapAbsent(Nbd)

\* Mutant: the exit of the daemon is not awaited.
DownStopUnawaited(p) ==
  /\ cli[p].pc = "dstop" /\ Authorized(cli[p].from, {})
  /\ pidFile' = 0 /\ Goto(p, "dclean")
  /\ UNCHANGED <<kernelVars, daemonVars, swapDev, zramDev, binding>>

DownStop(p) ==
  /\ cli[p].pc = "dstop"
  /\ \/ /\ Authorized(cli[p].from, {}) /\ pidFile = 0
        /\ Goto(p, "dclean") /\ UNCHANGED <<alive, sock, status, pidFile>>
     \/ /\ Authorized(cli[p].from, {})
        /\ StatusCurrent(pidFile) /\ DaemonKillAllowed
        /\ alive' = alive \ {pidFile} /\ pidFile' = 0 /\ status' = 0
        /\ sock' \in {sock, 0} /\ Goto(p, "dclean")
     \/ Ends(p) /\ UNCHANGED <<alive, sock, status, pidFile>>
  /\ UNCHANGED <<kernelVars, started, bound, swapDev, zramDev, binding>>

DownClean(p) ==
  /\ cli[p].pc = "dclean"
  /\ sock' = 0 /\ status' = 0 /\ pidFile' = 0 /\ swapDev' = FALSE
  /\ zramDev' = None /\ binding' = NoBinding
  /\ Ends(p)
  /\ UNCHANGED <<kernelVars, alive, started, bound>>

\* The CLI is killed, or its terminal goes away, between two steps.
Killed(p) ==
  /\ cli[p].pc # "idle"
  /\ Ends(p)
  /\ UNCHANGED hostVars

Up(p) ==
  \/ UpStarts(p) \/ UpSkipsZram(p) \/ ZramFind(p) \/ Zramctl(p) \/ ZramRecord(p)
  \/ ZramReconcile(p) \/ ZramResetMalformed(p) \/ Mkswap(p) \/ ZramSwapon(p)
  \/ Spawn(p) \/ WritePid(p) \/ AwaitReady(p) \/ ReadyTimesOut(p) \/ BeforeAttach(p)
  \/ NbdClient(p) \/ Bind(p) \/ Reconcile(p) \/ ReconcileAgain(p) \/ VerifySwap(p)
  \/ WriteRecords(p) \/ NbdSwapon(p) \/ RollbackCheck(p) \/ RollbackDetach(p)
  \/ RollbackAfter(p) \/ KillChild(p) \/ UnwindZram(p) \/ UnwindReset(p)

Down(p) ==
  \/ DownStarts(p) \/ DownSwapoff(p) \/ DownNothingOn(p) \/ DownResetZram(p)
  \/ DownResetAfter(p) \/ DownCheck(p) \/ DownDetach(p) \/ DownDetachAfter(p)
  \/ DownStop(p) \/ DownClean(p)

Next ==
  \/ \E p \in Procs : Up(p) \/ Down(p) \/ Killed(p)
  \/ HostMoves /\ UNCHANGED cli

Spec == Init /\ [][Next]_vars

(***************************************************************************)
(* Properties.                                                             *)
(***************************************************************************)
\* While the NBD swap is on, whatever failed or was killed on the way, the disk
\* holds the binding that names exactly this attachment, so that a later `down`
\* can authorize itself: swapon comes after the binding and the path record, and
\* neither is removed before swapoff.
ActiveSwapIsBound ==
  Nbd \in swaps /\ nbd # 0 => NbdId(nbd) \in binding.devices /\ swapDev

\* A zram device of ours that is swapped on is named by the zram-dev record.
ActiveZramRecorded ==
  \A z \in Zrams : z \in swaps /\ zram[z] = "ours" => zramDev = z

\* No command detaches the NBD device under an active swap.
SwapoffBeforeDetach == [][nbd # 0 /\ nbd' = 0 /\ alive' = alive => Nbd \notin swaps]_vars

\* No command ends the daemon that serves an attached device; a daemon can only
\* die by itself while it is needed.
AttachedDaemonKept ==
  [][\A p \in Procs : cli'[p] # cli[p] /\ nbd # 0 => nbd \notin alive \ alive']_vars

\* A zram device of another program is reset or swapped off only if a record of
\* ours names its path: live enumeration alone authorizes nothing.
UnrecordedZramKept ==
  [][\A p \in Procs, z \in Zrams :
       cli'[p] # cli[p] /\ zram[z] = "foreign" /\ zramDev # z /\ ZramId(z) \notin binding.devices
         => zram'[z] = "foreign" /\ (z \in swaps <=> z \in swaps')]_vars

\* A `down` that succeeds leaves no device, daemon or record of the cascade, and
\* the next `up` is admitted unless another program uses zram for swap.
DownLeavesNothing ==
  [][\A p \in Procs : cli[p].pc = "dclean" /\ binding' # binding =>
       /\ nbd' = 0 /\ Nbd \notin swaps' /\ pidFile' = 0 /\ binding' = NoBinding
       /\ cli[p].from.daemon \notin alive'
       /\ \A id \in Kind(cli[p].from.devices, "zram") : zram'[PathOf(id)] # "ours"]_vars

\* What the startup rollback promises when it cannot prove the detach: as long as
\* the device stays attached, the daemon's pid record and the binding stay too.
\* Violated: a refusal of authorize_bound_environment inside the rollback is not
\* UnsafeContainment, so setup_new_cascade unwinds and removes both.
FailedRollbackKeepsEvidence ==
  [][\A p \in Procs : cli[p].pc = "unwind" /\ nbd # 0 /\ nbd = cli[p].dmn
       => pidFile' = pidFile /\ binding' = binding]_vars

\* The promises together.
CascadeContract ==
  /\ [](TypeOK /\ ActiveSwapIsBound /\ ActiveZramRecorded)
  /\ SwapoffBeforeDetach /\ AttachedDaemonKept /\ UnrecordedZramKept /\ DownLeavesNothing
=============================================================================
