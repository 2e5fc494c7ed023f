--------------------------- MODULE CascadeStatus ---------------------------
(***************************************************************************)
(* `ramshared status`: it reads /proc/swaps, the daemon's PID record, the  *)
(* cache status the daemon publishes, the state the supervisor publishes,  *)
(* the daemon's start identity and the guardian's files, one after the     *)
(* other while all of them change, and derives a phase, a protection state *)
(* and one `ok` from them.                                                 *)
(*                                                                         *)
(* Sizes are counted in units of the default activity threshold.  Every    *)
(* daemon gets the same PID, the worst that PID reuse can do.  What is     *)
(* read only once and related to nothing else (the usage of the rows, a    *)
(* ghost row, the capacity and demotion records, the guardian, what the    *)
(* status files say beside whose they are and how old) is an input of the  *)
(* step that reads it.                                                     *)
(***************************************************************************)
EXTENDS Naturals, Sequences, FiniteSets, TLC

CONSTANTS
  ActiveKib,      \* RAMSHARED_STATUS_ACTIVE_KIB
  TierSize,       \* the size of the ZRAM tier
  Usages,         \* the amounts of a tier in use
  CsControls,     \* the control states the supervisor gets into
  CsMaxDaemons    \* bound: daemons started

ASSUME CascadeStatusAssumption ==
  /\ ActiveKib \in Nat /\ TierSize \in Nat /\ Usages \subseteq Nat /\ CsMaxDaemons \in Nat
  /\ CsControls \subseteq {"HEALTHY", "GUARDED", "CRITICAL", "EMERGENCY"}

VARIABLES
  csLive,     \* the daemon that runs, 0: none
  csBorn,     \* daemons started so far
  csNbd,      \* is the NBD swap on?
  csCache,    \* the daemon's status file, as a set of at most one record
  csSup,      \* the supervisor's state file, as a set of at most one record
  csAt,       \* what the command reads next
  csSeen,     \* what it has read
  csReport    \* what it printed

csFiles == <<csCache, csSup>>
csWorld == <<csLive, csBorn, csNbd, csFiles>>
csVars == <<csWorld, csAt, csSeen, csReport>>

DefaultActive == 1

\* Supervisor::observe: the actions of a decision, by state and by what is frozen
\* and whether a victim is to be terminated or killed.
Planned(control, frozen, pending, escalation) ==
  (IF (frozen \/ pending) /\ control # "CRITICAL" THEN <<"thaw">> ELSE << >>)
  \o CASE control = "HEALTHY" -> << >>
       [] control = "GUARDED" -> <<"close">>
       [] control = "CRITICAL" -> <<"close", "reduce">> \o (IF frozen THEN << >> ELSE <<"freeze">>) \o <<"reclaim">>
       [] control = "EMERGENCY" -> <<"close", "reduce", "reclaim">> \o escalation

SupervisorDecisions ==
  {[control |-> c, actions |-> Planned(c, f, p, e)] :
     c \in CsControls, f \in BOOLEAN, p \in BOOLEAN, e \in {<< >>, <<"terminate">>, <<"kill">>}}

NoSeen == [nbd |-> FALSE, alive |-> FALSE, cache |-> {}, sup |-> {}]
NoReport == [made |-> FALSE]

CsInit ==
  /\ csLive = 0 /\ csBorn = 0 /\ csNbd = FALSE /\ csCache = {} /\ csSup = {}
  /\ csAt = "swaps" /\ csSeen = NoSeen /\ csReport = NoReport

(***************************************************************************)
(* The product meanwhile.                                                  *)
(***************************************************************************)
CsUp ==
  /\ csLive = 0 /\ ~csNbd /\ csBorn < CsMaxDaemons
  /\ csLive' = csBorn + 1 /\ csBorn' = csBorn + 1 /\ csNbd' = TRUE
  /\ UNCHANGED <<csCache, csSup, csAt, csSeen, csReport>>

CsDown ==
  /\ csLive # 0 \/ csNbd
  /\ csNbd' = FALSE /\ csLive' = 0
  /\ UNCHANGED <<csBorn, csCache, csSup, csAt, csSeen, csReport>>

\* The daemon's own demotion takes the NBD swap off and keeps the daemon.
CsDemotes ==
  /\ csLive # 0 /\ csNbd /\ csNbd' = FALSE
  /\ UNCHANGED <<csLive, csBorn, csFiles, csAt, csSeen, csReport>>

CsDies ==
  /\ csLive # 0 /\ csLive' = 0
  /\ UNCHANGED <<csBorn, csNbd, csFiles, csAt, csSeen, csReport>>

CsDaemonPublishes ==
  /\ csLive # 0
  /\ csCache' = {[inst |-> csLive, fresh |-> TRUE]}
  /\ UNCHANGED <<csLive, csBorn, csNbd, csSup, csAt, csSeen, csReport>>

\* request_daemon_instance_at: the daemon named by a fresh cache status, if any.
RequestDaemon == IF \E c \in csCache : c.fresh THEN (CHOOSE c \in csCache : TRUE).inst ELSE 0

\* publish_at replaces the file by a rename.
CsSupervisorPublishes ==
  /\ csSup' = {[inst |-> RequestDaemon, fresh |-> TRUE]}
  /\ UNCHANGED <<csLive, csBorn, csNbd, csCache, csAt, csSeen, csReport>>

\* Fifteen seconds without a new publication; the copy the command holds ages too.
Stale(file) == {[f EXCEPT !.fresh = FALSE] : f \in file}
CsAges ==
  /\ csCache' = Stale(csCache) /\ csSup' = Stale(csSup)
  /\ csSeen' = [csSeen EXCEPT !.cache = Stale(@), !.sup = Stale(@)]
  /\ UNCHANGED <<csLive, csBorn, csNbd, csAt, csReport>>

(***************************************************************************)
(* build_cascade_snapshot, read by read.                                   *)
(***************************************************************************)
CsReadSwaps ==
  /\ csAt = "swaps" /\ csAt' = "pid"
  /\ csSeen' = [NoSeen EXCEPT !.nbd = csNbd] /\ csReport' = NoReport
  /\ UNCHANGED csWorld

\* daemon_alive_pid: the recorded PID runs a process of the daemon's name; while there
\* is a daemon there is its record.
CsReadPid ==
  /\ csAt = "pid" /\ csAt' = "cache"
  /\ csSeen' = [csSeen EXCEPT !.alive = csLive # 0]
  /\ UNCHANGED <<csWorld, csReport>>

CsReadCache ==
  /\ csAt = "cache" /\ csAt' = "supervisor"
  /\ csSeen' = [csSeen EXCEPT !.cache = csCache]
  /\ UNCHANGED <<csWorld, csReport>>

CsReadSupervisor ==
  /\ csAt = "supervisor" /\ csAt' = "identity"
  /\ csSeen' = [csSeen EXCEPT !.sup = csSup]
  /\ UNCHANGED <<csWorld, csReport>>

\* supervisor_status_shape_is_valid: the action lists a state may come with.
ShapeIsValid(s) ==
  LET emergency == <<"close", "reduce", "reclaim">>
      ends == {<< >>, <<"terminate">>, <<"kill">>}
  IN CASE s.control = "HEALTHY" -> s.actions = << >>
       [] s.control = "GUARDED" -> s.actions \in {<<"close">>, <<"thaw", "close">>}
       [] s.control = "CRITICAL" -> s.actions = <<"close", "reduce", "freeze", "reclaim">>
       [] s.control = "EMERGENCY" -> s.actions \in {t \o emergency \o e : t \in {<< >>, <<"thaw">>}, e \in ends}

\* Mutant: the daemon that wrote the cache status is not looked at.
CurrentOfAny(inst, in) ==
  /\ csSeen.alive /\ inst # 0
  /\ \E c \in csSeen.cache : c.fresh
  /\ \E f \in csSeen.sup : f.fresh /\ f.inst = inst
  /\ ShapeIsValid(in.decision)

\* control_plane_status_is_current, with the identity and the time taken after both
\* files were read.
Current(inst, in) ==
  /\ csSeen.alive /\ inst # 0
  /\ \E c \in csSeen.cache : c.fresh /\ c.inst = inst
  /\ \E f \in csSeen.sup : f.fresh /\ f.inst = inst
  /\ ShapeIsValid(in.decision)

(***************************************************************************)
(* lifecycle.rs.  A snapshot s holds the usage of each tier (a set of at   *)
(* most one element), the rest as the code names it.                       *)
(***************************************************************************)
UsedAtLeast(tier, n) == \E u \in tier : u >= n
Present(tier) == tier # {}
Threshold == IF ActiveKib = 0 THEN DefaultActive ELSE ActiveKib
Growth(s) == {IF u > b THEN u - b ELSE 0 : u \in s.disk, b \in s.baseline}

\* derive_lifecycle: the first match wins.
Phase(s) ==
  CASE s.ghost \/ ~s.orderOk \/ (Present(s.nbd) /\ ~s.alive) -> "Degraded"
    [] s.demoting -> "Demoting"
    [] UsedAtLeast(Growth(s), Threshold) -> "UsingDisk"
    [] UsedAtLeast(s.nbd, Threshold) -> "UsingVram"
    [] UsedAtLeast(s.zram, Threshold) -> "UsingZram"
    [] s.alive /\ Present(s.nbd) -> "Armed"
    [] OTHER -> "Off"

ViewOk(s) == s.phase # "Degraded"

\* zram_utilization_pct, rounded and capped.
ZramPct(s) ==
  IF ~Present(s.zram) \/ TierSize = 0 THEN 0
  ELSE LET used == CHOOSE u \in s.zram : TRUE
           pct == (used * 100 + TierSize \div 2) \div TierSize
       IN IF pct > 100 THEN 100 ELSE pct

Protection(s) ==
  IF ~ViewOk(s) THEN "BLOCKED"
  ELSE IF Present(s.nbd) /\ ~s.guaranteed THEN "BLOCKED"
  ELSE IF s.alive /\ Present(s.nbd) /\ s.baseline = {} THEN "BLOCKED"
  ELSE CASE s.phase = "Off" -> "OFF"
         [] s.phase = "UsingVram" -> "ACTIVE"
         [] s.phase \in {"UsingDisk", "Demoting"} -> "AT_RISK"
         [] s.phase = "UsingZram" /\ ~UsedAtLeast(s.nbd, ActiveKib) /\ ZramPct(s) >= 80 -> "AT_RISK"
         [] OTHER -> "READY"

\* protection_reason, by what it speaks of.
Reason(s) ==
  IF ~ViewOk(s) THEN "blocked"
  ELSE IF Present(s.nbd) /\ ~s.guaranteed THEN "blocked"
  ELSE IF s.alive /\ Present(s.nbd) /\ s.baseline = {} THEN "blocked"
  ELSE CASE s.phase = "Off" -> "off"
         [] s.phase = "UsingVram" -> "active"
         [] s.phase \in {"UsingDisk", "Demoting"} -> "at risk"
         [] s.phase = "UsingZram" /\ ZramPct(s) >= 80 -> "at risk"
         [] OTHER -> "ready"

\* The states of the planes, from what was read.
Active(s) == s.alive \/ Present(s.nbd)
ControlState(s) == IF s.current THEN s.decision.control ELSE "GUARDED"
OriginState(s) == IF s.current THEN s.origin ELSE IF Active(s) /\ s.guaranteed THEN "DEGRADED" ELSE "OFF"
CacheState(s) ==
  IF Active(s) /\ ~(s.current /\ s.ok) THEN "UNAVAILABLE" ELSE IF s.current THEN s.cache ELSE "OFF"

\* overall_state: the worst plane.
Ranks == [HEALTHY |-> 0, GUARDED |-> 1, CRITICAL |-> 2, BLOCKED |-> 3, SAFE_MODE |-> 4, EMERGENCY |-> 5]
Planes(s) ==
  {IF ViewOk(s) THEN "HEALTHY" ELSE "BLOCKED", ControlState(s), s.guardian}
  \cup {CASE OriginState(s) = "READY" \/ (OriginState(s) = "OFF" /\ ~Active(s)) -> "HEALTHY"
          [] OriginState(s) = "DEGRADED" -> "CRITICAL"
          [] OTHER -> "BLOCKED"}
  \cup {CASE CacheState(s) = "ACTIVE" \/ (CacheState(s) = "OFF" /\ ~Active(s)) -> "HEALTHY"
          [] CacheState(s) = "RESTRICTED" -> "GUARDED"
          [] OTHER -> "BLOCKED"}
  \cup (IF (Active(s) /\ ~s.current) \/ s.guardian = "BLOCKED" THEN {"BLOCKED"} ELSE {})
OverallState(s) ==
  CHOOSE p \in Planes(s) : \A q \in Planes(s) : Ranks[q] <= Ranks[p]

\* render_status_json and the text of `status`.
JsonOk(s) ==
  ViewOk(s) /\ Protection(s) \in {"READY", "ACTIVE"} /\ OverallState(s) = "HEALTHY"
TextOk(s) == ViewOk(s) /\ Protection(s) \in {"READY", "ACTIVE"}

\* compute_order_ok: ZRAM above NBD above every disk, where they are present.
OrderOk(zram, nbd, prio) ==
  /\ Present(zram) /\ nbd => prio.zram > prio.nbd
  /\ nbd => prio.nbd > prio.disk

\* guardian_state_from_files
Guardian(safeMode, health) ==
  CASE safeMode = "valid" -> "SAFE_MODE"
    [] safeMode = "invalid" -> "BLOCKED"
    [] OTHER -> IF health \in {"HEALTHY", "SAFE_MODE"} THEN health ELSE "BLOCKED"

\* The inputs: every usage of the tiers with the others as usual; and with the tiers idle
\* and with ZRAM and NBD in use, at most one of the others not as usual.
Usual ==
  [nbd |-> {0}, zram |-> {0}, disk |-> {0}, prio |-> [zram |-> 3, nbd |-> 2, disk |-> 1], ghost |-> FALSE, capacity |-> TRUE, baseline |-> {0},
   demoting |-> FALSE, safeMode |-> "absent", health |-> "HEALTHY", ok |-> TRUE, origin |-> "READY",
   cache |-> "ACTIVE", decision |-> [control |-> "HEALTHY", actions |-> << >>]]
Others ==
  [nbd |-> {{u} : u \in Usages}, zram |-> {{}} \cup {{u} : u \in Usages}, disk |-> {{u} : u \in Usages}, prio |-> {[zram |-> 3, nbd |-> 2, disk |-> 2], [zram |-> 2, nbd |-> 2, disk |-> 1]}, ghost |-> {TRUE},
   capacity |-> {FALSE}, baseline |-> {{}}, demoting |-> {TRUE}, safeMode |-> {"valid", "invalid"},
   health |-> {"SAFE_MODE", "stale"}, ok |-> {FALSE}, origin |-> {"DEGRADED", "FAILED"},
   cache |-> {"RESTRICTED", "STUCK"}, decision |-> SupervisorDecisions]
Vary(inputs) == inputs \cup UNION {{[in EXCEPT ![f] = v] : v \in Others[f]} : in \in inputs, f \in DOMAIN Usual}
InUse ==
  {[Usual EXCEPT !.nbd = n, !.zram = z, !.disk = d] : n \in Others.nbd, z \in Others.zram, d \in Others.disk}
Inputs == InUse \cup Vary({in \in InUse : in.disk = {0} /\ in.nbd = in.zram})

\* The snapshot: without a capacity record there is no baseline either.
Snapshot(inst, in) ==
  LET s ==
        [nbd |-> IF csSeen.nbd THEN in.nbd ELSE {}, alive |-> csSeen.alive, inst |-> inst, current |-> Current(inst, in),
         zram |-> in.zram, disk |-> in.disk, orderOk |-> OrderOk(in.zram, csSeen.nbd, in.prio), ghost |-> in.ghost,
         guaranteed |-> in.capacity, baseline |-> IF in.capacity THEN in.baseline ELSE {}, demoting |-> in.demoting,
         guardian |-> Guardian(in.safeMode, in.health),
         ok |-> in.ok, origin |-> in.origin, cache |-> in.cache, decision |-> in.decision]
  IN [phase |-> Phase(s)] @@ s

CsDerive ==
  /\ csAt = "identity" /\ csAt' = "swaps"
  /\ \E in \in Inputs :
       LET s == Snapshot(IF csSeen.alive THEN csLive ELSE 0, in)
       IN csReport' = [made |-> TRUE, ok |-> JsonOk(s), text |-> TextOk(s), protection |-> Protection(s),
                       reason |-> Reason(s), control |-> ControlState(s), from |-> s,
                       cache |-> csSeen.cache, sup |-> csSeen.sup]
  /\ csSeen' = NoSeen /\ UNCHANGED csWorld

CsNext ==
  \/ CsUp \/ CsDown \/ CsDemotes \/ CsDies \/ CsDaemonPublishes \/ CsSupervisorPublishes \/ CsAges
  \/ CsReadSwaps \/ CsReadPid \/ CsReadCache \/ CsReadSupervisor \/ CsDerive

CsSpec == CsInit /\ [][CsNext]_csVars

-----------------------------------------------------------------------------

\* A report is made of complete reads only.
CsTypeOK ==
  /\ csLive \in 0..csBorn /\ csBorn \in 0..CsMaxDaemons
  /\ Cardinality(csCache) <= 1 /\ Cardinality(csSup) <= 1
  /\ csSeen # NoSeen => csAt # "swaps"
  /\ \A c \in csCache \cup csSup : c.inst \in 0..csBorn

Made(report) == report.made
Claims(report) == report.made /\ report.protection \in {"READY", "ACTIVE"}

\* RF-6: "`ok` is true only when the worst mandatory plane is healthy": an ok rests on
\* healthy planes, on two statuses of the one daemon that runs, on a clean topology
\* and, with an NBD tier, on its capacity record and baseline.
Earned(report) ==
  LET s == report.from
  IN /\ s.alive /\ ~s.ghost /\ s.orderOk /\ ~s.demoting /\ s.ok
     /\ s.origin = "READY" /\ s.cache = "ACTIVE" /\ s.decision.control = "HEALTHY" /\ s.guardian = "HEALTHY"
     /\ \A f \in report.cache \cup report.sup : f.inst = s.inst
     /\ Present(s.nbd) => s.guaranteed /\ s.baseline # {}
OkIsEarned == [][Made(csReport') /\ csReport'.ok => Earned(csReport')]_csVars

\* The protection state and the reason printed beside it say the same.
Agree(report) ==
  report.reason = CASE report.protection = "BLOCKED" -> "blocked"
                    [] report.protection = "OFF" -> "off"
                    [] report.protection = "ACTIVE" -> "active"
                    [] report.protection = "AT_RISK" -> "at risk"
                    [] report.protection = "READY" -> "ready"
ReasonMatchesState == [][Made(csReport') => Agree(csReport')]_csVars

\* With an NBD tier, READY and ACTIVE are claimed only with a live daemon, its capacity
\* record and the disk baseline that attributes later disk use.
ProtectedIsBacked ==
  [][Claims(csReport') /\ Present(csReport'.from.nbd) =>
       csReport'.from.alive /\ csReport'.from.guaranteed /\ csReport'.from.baseline # {}]_csVars

\* RF-6: "Publish schema v4 status with independent `control_state`": a state the
\* supervisor published for the daemon that runs, not older than the limit, is the
\* one shown.
Shown(report) ==
  LET s == report.from
  IN s.inst # 0 /\ report.cache # {} /\ report.sup # {}
       /\ (\A f \in report.cache \cup report.sup : f.fresh /\ f.inst = s.inst)
     => report.control = s.decision.control
ControlIsShown == [][Made(csReport') => Shown(csReport')]_csVars

\* The promises together.
CsContract == []CsTypeOK /\ OkIsEarned /\ ProtectedIsBacked /\ ReasonMatchesState
=============================================================================
