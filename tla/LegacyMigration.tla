-------------------------- MODULE LegacyMigration --------------------------
(***************************************************************************)
(* `ramshared migrate-cascade --from-legacy`: the one command that may     *)
(* take down a cascade without a lifecycle binding.  It admits one exact   *)
(* topology and one exact daemon process, drains ZRAM and then NBD, resets *)
(* and detaches them, stops the daemon through a pidfd, retires the old    *)
(* records and hands over to `up`.  Between any two of its steps processes *)
(* end and their PIDs are reused, pages are swapped out, other swaps       *)
(* appear, and the command itself may be killed and started again.         *)
(***************************************************************************)
EXTENDS Naturals, Sequences, FiniteSets

CONSTANTS
  LmPids,        \* process ids
  LmMaxProcs,    \* bound: processes ever started
  SwapsReturn  \* may an operator switch a drained device on again?

ASSUME LegacyMigrationAssumption ==
  /\ IsFiniteSet(LmPids) /\ LmPids # {} /\ LmMaxProcs \in Nat \ {0} /\ SwapsReturn \in BOOLEAN

VARIABLES
  lmProc,     \* each pid's process: its start identity (0: none) and what it is
  lmStarted,  \* start identities given out
  lmOn,       \* the managed devices active in /proc/swaps
  lmUsed,     \* are there pages on NBD?
  lmZram,     \* is the legacy ZRAM device configured?
  lmNbd,      \* is /dev/nbd0 attached?
  lmClient,   \* what the kernel's owner PID of nbd0 names: "live" or "gone"
  lmStranger, \* is there a ghost or an unexpected managed swap?
  lmRecord,   \* the runtime records there are
  lmHonest,   \* do they name this topology and this daemon?
  lmAt,       \* where the command is
  lmPlan,     \* what it has admitted
  lmTodo,     \* the actions still to be done
  lmPidfd,    \* the process its pidfd is bound to
  lmTermed    \* history: the processes it signalled

lmHost == <<lmProc, lmStarted, lmOn, lmUsed, lmZram, lmNbd, lmClient, lmStranger>>
lmCommand == <<lmAt, lmPlan, lmTodo, lmPidfd, lmTermed>>
lmVars == <<lmHost, lmRecord, lmHonest, lmCommand>>

Managed == {"zram", "nbd"}
LmRecords == {"pid", "swap", "zram"}
\* A process named ramsharedd that passes one of the three proofs (LegacyDaemonProof)
\* is "bound", one that passes none "foreign"; any other name is "other".
ProcKinds == {"bound", "foreign", "other"}
NoProc == [inst |-> 0, kind |-> "other"]
NoPlan == [zram |-> FALSE, pid |-> {}, inst |-> 0, client |-> "live"]
LegacyInst == 1

LmInit ==
  /\ \E p \in LmPids : lmProc = [q \in LmPids |-> IF q = p THEN [inst |-> LegacyInst, kind |-> "bound"] ELSE NoProc]
  /\ lmStarted = LegacyInst
  /\ lmOn \in {{"nbd"}, {"zram", "nbd"}} /\ lmUsed \in BOOLEAN
  /\ lmZram = ("zram" \in lmOn) /\ lmNbd = TRUE /\ lmClient \in {"live", "gone"}
  /\ lmStranger = FALSE
  /\ lmRecord \in SUBSET LmRecords /\ lmHonest \in BOOLEAN /\ (lmRecord = {} => lmHonest)
  /\ lmAt = "idle" /\ lmPlan = NoPlan /\ lmTodo = << >> /\ lmPidfd = 0 /\ lmTermed = {}

LmAlive(inst) == \E p \in LmPids : lmProc[p].inst = inst
LmGoto(step) == lmAt' = step
LmRefused == LmGoto("failed") /\ lmTodo' = << >> /\ lmPidfd' = 0

(***************************************************************************)
(* Admission.  The gates that look at no state of this module (guardian,   *)
(* transport, sealed origin, drain budget, safety net) may refuse.         *)
(***************************************************************************)
LmStart ==
  /\ lmAt \in {"idle", "failed", "killed"}
  /\ LmGoto("plan") /\ lmPlan' = NoPlan /\ lmTodo' = << >> /\ lmPidfd' = 0
  /\ UNCHANGED <<lmHost, lmRecord, lmHonest, lmTermed>>

\* plan_legacy_migration: one NBD swap without pages, at most one ZRAM above it.
Eligible == ~lmStranger /\ "nbd" \in lmOn /\ ~lmUsed

LmAdmitTopology ==
  /\ lmAt = "plan"
  /\ \/ LmRefused /\ UNCHANGED lmPlan
     \/ /\ Eligible
        /\ lmPlan' = [lmPlan EXCEPT !.zram = "zram" \in lmOn]
        /\ LmGoto("discover") /\ UNCHANGED <<lmTodo, lmPidfd>>
  /\ UNCHANGED <<lmHost, lmRecord, lmHonest, lmTermed>>

\* discover_legacy_daemon: exactly one bound process and no foreign one; its start
\* identity is read after its proof.
LmDiscover ==
  /\ lmAt = "discover"
  /\ LET found == {p \in LmPids : lmProc[p].inst # 0 /\ lmProc[p].kind = "bound"}
         foreign == {p \in LmPids : lmProc[p].inst # 0 /\ lmProc[p].kind = "foreign"}
     IN IF Cardinality(found) = 1 /\ foreign = {}
        THEN lmPlan' = [lmPlan EXCEPT !.pid = found] /\ LmGoto("identify") /\ UNCHANGED <<lmTodo, lmPidfd>>
        ELSE LmRefused /\ UNCHANGED lmPlan
  /\ UNCHANGED <<lmHost, lmRecord, lmHonest, lmTermed>>

TheProc == lmProc[CHOOSE p \in lmPlan.pid : TRUE]

LmIdentify ==
  /\ lmAt = "identify"
  /\ IF TheProc.inst = 0
     THEN LmRefused /\ UNCHANGED lmPlan
     ELSE lmPlan' = [lmPlan EXCEPT !.inst = TheProc.inst] /\ LmGoto("records") /\ UNCHANGED <<lmTodo, lmPidfd>>
  /\ UNCHANGED <<lmHost, lmRecord, lmHonest, lmTermed>>

\* legacy_runtime_records_are_compatible: absent or equal; no ZRAM record without ZRAM.
RecordsCompatible ==
  /\ lmHonest
  /\ "zram" \in lmRecord => lmPlan.zram

\* Mutant: ZRAM is reset before the NBD swap is off.
ActionsResetFirst(zram) ==
  (IF zram THEN <<<<"swapoff", "zram">>, <<"reset", "zram">>>> ELSE << >>)
    \o <<<<"swapoff", "nbd">>, <<"disconnect", "nbd">>, <<"stop", "daemon">>>>

\* plan_legacy_migration_transition
LmActions(zram) ==
  IF zram
  THEN <<<<"swapoff", "zram">>, <<"swapoff", "nbd">>, <<"reset", "zram">>, <<"disconnect", "nbd">>,
         <<"stop", "daemon">>>>
  ELSE <<<<"swapoff", "nbd">>, <<"disconnect", "nbd">>, <<"stop", "daemon">>>>

\* observe_legacy_bound_device: the owner may be absent, but not unidentifiable.
LmBindDevices ==
  /\ lmAt = "records"
  /\ IF RecordsCompatible /\ lmNbd /\ (lmPlan.zram => lmZram)
     THEN /\ lmPlan' = [lmPlan EXCEPT !.client = lmClient]
          /\ lmTodo' = LmActions(lmPlan.zram) /\ LmGoto("next") /\ UNCHANGED lmPidfd
     ELSE LmRefused /\ UNCHANGED lmPlan
  /\ UNCHANGED <<lmHost, lmRecord, lmHonest, lmTermed>>

\* revalidate_legacy_bound_device
SameDevice(dev) ==
  IF dev = "zram" THEN lmZram ELSE lmNbd /\ lmClient = lmPlan.client

(***************************************************************************)
(* The actions, one after the other; the first refusal ends the command.   *)
(***************************************************************************)
Doing(kind) == lmTodo # << >> /\ lmTodo[1][1] = kind
LmDev == lmTodo[1][2]
LmDone == LmGoto("next") /\ lmTodo' = Tail(lmTodo)

\* authorize_legacy_effect and the two looks around the open of the device.
LmAuthorize ==
  /\ lmAt = "next" /\ Doing("swapoff")
  /\ IF ~lmStranger /\ LmDev \in lmOn /\ SameDevice(LmDev)
     THEN LmGoto("swapoff") /\ UNCHANGED <<lmTodo, lmPidfd>>
     ELSE LmRefused
  /\ UNCHANGED <<lmHost, lmRecord, lmHonest, lmPlan, lmTermed>>

\* swapoff: the pages go to memory, those of ZRAM also to NBD while that is on.
LmSwapoff ==
  /\ lmAt = "swapoff"
  /\ \/ /\ LmDev \in lmOn /\ (LmDev = "nbd" /\ lmUsed => LmAlive(LegacyInst))
        /\ lmOn' = lmOn \ {LmDev}
        /\ lmUsed' \in IF LmDev = "nbd" THEN {FALSE} ELSE {lmUsed, "nbd" \in lmOn}
        /\ LmGoto("drained") /\ UNCHANGED <<lmTodo, lmPidfd>>
     \/ LmRefused /\ UNCHANGED <<lmOn, lmUsed>>
  /\ UNCHANGED <<lmProc, lmStarted, lmZram, lmNbd, lmClient, lmStranger, lmRecord, lmHonest, lmPlan, lmTermed>>

\* prove_exact_swap_absent
LmProveDrained ==
  /\ lmAt = "drained"
  /\ IF LmDev \in lmOn THEN LmRefused ELSE LmDone /\ UNCHANGED lmPidfd
  /\ UNCHANGED <<lmHost, lmRecord, lmHonest, lmPlan, lmTermed>>

\* reset_zram and disconnect_nbd look once more before they act.
LmProveAbsent ==
  /\ lmAt = "next" /\ (Doing("reset") \/ Doing("disconnect"))
  /\ IF LmDev \notin lmOn /\ SameDevice(LmDev)
     THEN LmGoto(lmTodo[1][1]) /\ UNCHANGED <<lmTodo, lmPidfd>>
     ELSE LmRefused
  /\ UNCHANGED <<lmHost, lmRecord, lmHonest, lmPlan, lmTermed>>

\* zramctl -r; the kernel refuses to reset a device in use.
LmReset ==
  /\ lmAt = "reset"
  /\ \/ "zram" \notin lmOn /\ lmZram' = FALSE /\ LmDone /\ UNCHANGED lmPidfd
     \/ lmZram' \in {lmZram} \cup (IF "zram" \in lmOn THEN {} ELSE {FALSE}) /\ LmRefused
  /\ UNCHANGED <<lmProc, lmStarted, lmOn, lmUsed, lmNbd, lmClient, lmStranger, lmRecord, lmHonest, lmPlan, lmTermed>>

\* nbd-client -d, then observe_exact_detached_nbd.
LmDisconnect ==
  /\ lmAt = "disconnect"
  /\ \/ lmNbd' = FALSE /\ LmGoto("detached") /\ UNCHANGED <<lmTodo, lmPidfd>>
     \/ lmNbd' \in {lmNbd, FALSE} /\ LmRefused
  /\ UNCHANGED <<lmProc, lmStarted, lmOn, lmUsed, lmZram, lmClient, lmStranger, lmRecord, lmHonest, lmPlan, lmTermed>>

LmProveDetached ==
  /\ lmAt = "detached"
  /\ IF lmNbd \/ "nbd" \in lmOn THEN LmRefused ELSE LmDone /\ UNCHANGED lmPidfd
  /\ UNCHANGED <<lmHost, lmRecord, lmHonest, lmPlan, lmTermed>>

\* revalidate_legacy_daemon
RevalidateDaemon == TheProc.inst = lmPlan.inst /\ TheProc.kind = "bound"

\* stop_legacy_daemon: look, open the pidfd, look again, signal, wait.
LmCheckDaemon ==
  /\ lmAt = "next" /\ Doing("stop")
  /\ IF RevalidateDaemon THEN LmGoto("open") /\ UNCHANGED <<lmTodo, lmPidfd>> ELSE LmRefused
  /\ UNCHANGED <<lmHost, lmRecord, lmHonest, lmPlan, lmTermed>>

LmOpenPidfd ==
  /\ lmAt = "open"
  /\ IF TheProc.inst = 0 THEN LmRefused ELSE lmPidfd' = TheProc.inst /\ LmGoto("recheck") /\ UNCHANGED lmTodo
  /\ UNCHANGED <<lmHost, lmRecord, lmHonest, lmPlan, lmTermed>>

LmRecheckDaemon ==
  /\ lmAt = "recheck"
  /\ IF RevalidateDaemon THEN LmGoto("term") /\ UNCHANGED <<lmTodo, lmPidfd>> ELSE LmRefused
  /\ UNCHANGED <<lmHost, lmRecord, lmHonest, lmPlan, lmTermed>>

LmTerm ==
  /\ lmAt = "term"
  /\ IF LmAlive(lmPidfd)
     THEN lmTermed' = lmTermed \cup {lmPidfd} /\ LmGoto("wait") /\ UNCHANGED <<lmTodo, lmPidfd>>
     ELSE LmRefused /\ UNCHANGED lmTermed
  /\ UNCHANGED <<lmHost, lmRecord, lmHonest, lmPlan>>

\* The deadline passes while the PID, whoever has it now, is still there.
LmWait ==
  /\ lmAt = "wait"
  /\ IF TheProc.inst = 0 THEN LmDone /\ lmPidfd' = 0 ELSE LmRefused
  /\ UNCHANGED <<lmHost, lmRecord, lmHonest, lmPlan, lmTermed>>

\* retire_legacy_runtime_records removes one file after the other.
RetireOrder == <<"zram", "swap", "pid">>
LmRetire ==
  /\ lmAt = "next" /\ lmTodo = << >>
  /\ LET left == SelectSeq(RetireOrder, LAMBDA r : r \in lmRecord)
     IN IF left = << >>
        THEN LmGoto("up") /\ UNCHANGED lmRecord
        ELSE lmRecord' = lmRecord \ {left[1]} /\ UNCHANGED lmAt
  /\ UNCHANGED <<lmHost, lmHonest, lmPlan, lmTodo, lmPidfd, lmTermed>>

LmKilled ==
  /\ lmAt \notin {"idle", "failed", "killed", "up"}
  /\ LmGoto("killed") /\ lmTodo' = << >> /\ lmPidfd' = 0
  /\ UNCHANGED <<lmHost, lmRecord, lmHonest, lmPlan, lmTermed>>

CommandStep ==
  \/ LmStart \/ LmAdmitTopology \/ LmDiscover \/ LmIdentify \/ LmBindDevices
  \/ LmAuthorize \/ LmSwapoff \/ LmProveDrained \/ LmProveAbsent \/ LmReset \/ LmDisconnect \/ LmProveDetached
  \/ LmCheckDaemon \/ LmOpenPidfd \/ LmRecheckDaemon \/ LmTerm \/ LmWait
  \/ LmRetire \/ LmKilled

(***************************************************************************)
(* The host meanwhile.                                                     *)
(***************************************************************************)
ProcExits(p) ==
  /\ lmProc[p].inst # 0
  /\ lmProc' = [lmProc EXCEPT ![p] = NoProc]
  /\ UNCHANGED <<lmStarted, lmOn, lmUsed, lmZram, lmNbd, lmClient, lmStranger, lmRecord, lmHonest, lmCommand>>

ProcStarts(p, kind) ==
  /\ lmProc[p].inst = 0 /\ lmStarted < LmMaxProcs
  /\ lmStarted' = lmStarted + 1
  /\ lmProc' = [lmProc EXCEPT ![p] = [inst |-> lmStarted + 1, kind |-> kind]]
  /\ UNCHANGED <<lmOn, lmUsed, lmZram, lmNbd, lmClient, lmStranger, lmRecord, lmHonest, lmCommand>>

KernelSwaps ==
  /\ "nbd" \in lmOn
  /\ lmUsed' = ~lmUsed
  /\ UNCHANGED <<lmProc, lmStarted, lmOn, lmZram, lmNbd, lmClient, lmStranger, lmRecord, lmHonest, lmCommand>>

ClientChanges ==
  /\ lmClient = "live" /\ lmClient' = "gone"
  /\ UNCHANGED <<lmProc, lmStarted, lmOn, lmUsed, lmZram, lmNbd, lmStranger, lmRecord, lmHonest, lmCommand>>

StrangerComes ==
  /\ lmStranger' = ~lmStranger
  /\ UNCHANGED <<lmProc, lmStarted, lmOn, lmUsed, lmZram, lmNbd, lmClient, lmRecord, lmHonest, lmCommand>>

SwapReturns(dev) ==
  /\ SwapsReturn /\ dev \notin lmOn
  /\ IF dev = "zram" THEN lmZram ELSE lmNbd
  /\ lmOn' = lmOn \cup {dev}
  /\ UNCHANGED <<lmProc, lmStarted, lmUsed, lmZram, lmNbd, lmClient, lmStranger, lmRecord, lmHonest, lmCommand>>

LmHostMoves ==
  \/ \E p \in LmPids : ProcExits(p) \/ \E kind \in ProcKinds : ProcStarts(p, kind)
  \/ \E dev \in Managed : SwapReturns(dev)
  \/ KernelSwaps \/ ClientChanges \/ StrangerComes

LmNext == CommandStep \/ LmHostMoves
LmSpec == LmInit /\ [][LmNext]_lmVars

-----------------------------------------------------------------------------

LmSteps ==
  {"idle", "plan", "discover", "identify", "records", "next", "swapoff", "drained", "reset", "disconnect",
   "detached", "open", "recheck", "term", "wait", "up", "failed", "killed"}

\* A step with an action in hand has one, and only pages on active swaps count.
LmTypeOK ==
  /\ lmAt \in LmSteps /\ lmOn \subseteq Managed /\ (lmUsed => "nbd" \in lmOn)
  /\ lmRecord \subseteq LmRecords
  /\ lmAt \in {"swapoff", "drained", "reset", "disconnect", "detached", "open", "recheck", "term", "wait"} =>
       lmTodo # << >>
  /\ "zram" \in lmOn => lmZram
  /\ lmPidfd \in 0..lmStarted /\ lmTermed \subseteq 1..lmStarted

\* DT-6: "no teardown action occurs while either managed swap remains active":
\* ZRAM is not reset and NBD not detached before both are out of /proc/swaps.
TeardownAfterDrain ==
  [][(lmZram /\ ~lmZram') \/ (lmNbd /\ ~lmNbd') => lmOn = {}]_lmVars

\* The only process ever signalled is one that passed the daemon proof itself: no
\* PID that was reused while the command ran is terminated (stop_legacy_daemon).
TermsOnlyBound ==
  [][\A i \in lmTermed' \ lmTermed : \E p \in LmPids : lmProc[p] = [inst |-> i, kind |-> "bound"]]_lmVars

\* DT-7: the records of the old cascade go, and `up` runs, only when nothing of it
\* is left: both swaps off, NBD detached, its daemon ended and its ZRAM reset (a ZRAM
\* that an interrupted run had already switched off is not seen by the next one).
HandsOverNothing ==
  [][lmRecord' # lmRecord \/ (lmAt # "up" /\ lmAt' = "up") =>
       lmOn = {} /\ ~lmNbd /\ (lmPlan.zram => ~lmZram) /\ ~LmAlive(lmPlan.inst)]_lmVars

\* The promises together.
LmContract == []LmTypeOK /\ TeardownAfterDrain /\ TermsOnlyBound /\ HandsOverNothing
=============================================================================
