--------------------------- MODULE ControlRequests ---------------------------
(***************************************************************************)
(* How memory pressure reaches the NBD daemon.  The supervisor and the     *)
(* daemon share no channel but files under /run/ramshared: the daemon      *)
(* publishes cache-status.json with its instance identity; a supervisor    *)
(* that decides CRITICAL or EMERGENCY addresses cache-target.json and      *)
(* reclaim-request.json to that instance; the daemon follows the requests  *)
(* that name it and are recent, and says so in its next status.  Nobody    *)
(* removes a request.                                                      *)
(*                                                                         *)
(* A tick is five seconds, the longest pause of the daemon's loop; ages    *)
(* are counted in ticks up to the first that is too old.  An identity is   *)
(* "own", that of the daemon that runs now, or "old".                      *)
(***************************************************************************)
EXTENDS Naturals

CONSTANT CrMaxAge   \* CONTROL_REQUEST_MAX_AGE_MS, in ticks

ASSUME ControlRequestsAssumption == CrMaxAge \in Nat \ {0, 1}

Ages == 0..(CrMaxAge + 1)
Older(age) == IF age <= CrMaxAge THEN age + 1 ELSE age
Instances == {"own", "old", "none"}

VARIABLES
  crAt,        \* where the daemon is
  crStatus,    \* cache-status.json: instance, age, and whether it shows pressure
  crTarget,    \* cache-target.json: instance and age
  crReclaim,   \* reclaim-request.json
  crSupervisor, \* where the supervisor's iteration is
  crAddressee, \* the instance the iteration read from the status
  crIssued,    \* how long ago the iteration began
  crResults,   \* the requests of this iteration reported as succeeded
  crPressure,  \* the host is short of memory
  crDisk,      \* files under /run can be written
  crRan,       \* which loops came round in this tick
  crAsked      \* history: how long ago the running daemon was last addressed

daemonVars == <<crAt, crStatus>>
supervisorVars == <<crTarget, crReclaim, crSupervisor, crAddressee, crIssued, crResults>>
worldVars == <<crPressure, crDisk>>
crVars == <<daemonVars, supervisorVars, worldVars, crRan, crAsked>>

CrRequests == [to : Instances, age : Ages]

CrTypeOK ==
  /\ crAt \in {"down", "identity", "lock", "build", "bind", "serve"}
  /\ crStatus \in [of : Instances, age : Ages, pressed : BOOLEAN]
  /\ crTarget \in CrRequests /\ crReclaim \in CrRequests
  /\ crSupervisor \in {"down", "sample", "target", "reclaim", "publish"}
  /\ crAddressee \in Instances /\ crIssued \in 0..1
  /\ crResults \subseteq {"target", "reclaim"}
  /\ crPressure \in BOOLEAN /\ crDisk \in BOOLEAN
  /\ crRan \subseteq {"daemon", "supervisor"} /\ crAsked \in Ages

CrAbsent == [to |-> "none", age |-> CrMaxAge + 1]

CrInit ==
  /\ crAt = "down" /\ crSupervisor = "down"
  /\ crStatus = [of |-> "none", age |-> CrMaxAge + 1, pressed |-> FALSE]
  /\ crTarget = CrAbsent /\ crReclaim = CrAbsent
  /\ crAddressee = "none" /\ crIssued = 0 /\ crResults = {}
  /\ crPressure = FALSE /\ crDisk = TRUE
  /\ crRan = {} /\ crAsked = CrMaxAge + 1

(***************************************************************************)
(* The daemon starts.  Each step may refuse, and the process then ends; a  *)
(* daemon without an identity never gets to serve.                         *)
(***************************************************************************)
Steps(at, next) ==
  /\ crAt = at /\ crAt' \in {next, "down"}
  /\ UNCHANGED <<crStatus, supervisorVars, worldVars, crRan, crAsked>>

DaemonStarts ==
  /\ crAt = "down" /\ crAt' = "identity"
  /\ UNCHANGED <<crStatus, supervisorVars, worldVars, crRan, crAsked>>

\* The origin mode wants an identity: PID and start time of the process.
RequireIdentity == Steps("identity", "lock")

\* mlock, which --force lets fail; budget, canary and sampler are idle with an origin.
LockMemory == Steps("lock", "build")

\* AuthoritativeOriginBackend over the validated origin, with no cache.
BuildBackend == Steps("build", "bind")

\* The socket is bound and its acceptor runs; SIGINT and SIGTERM are caught from
\* here on, before that they end the process.
StartRuntime == Steps("bind", "serve")

Aged(file, who) == [file EXCEPT !.to = IF @ = "own" THEN who ELSE @]

\* The daemon ends or is killed: what named it names a process that is gone.
DaemonEnds ==
  /\ crAt # "down" /\ crAt' = "down"
  /\ crStatus' = [crStatus EXCEPT !.of = IF @ = "own" THEN "old" ELSE @]
  /\ crTarget' = Aged(crTarget, "old") /\ crReclaim' = Aged(crReclaim, "old")
  /\ crAddressee' = IF crAddressee = "own" THEN "old" ELSE crAddressee
  /\ crAsked' = CrMaxAge + 1
  /\ UNCHANGED <<crSupervisor, crIssued, crResults, worldVars, crRan>>

\* The request names this instance and is at most CrMaxAge old.
Matches(request) == request.to = "own" /\ request.age <= CrMaxAge

\* Either file will do.
ReclaimRequested == Matches(crTarget) \/ Matches(crReclaim)

\* One pass of the serving loop in origin mode: requests are read, the cache is
\* released, the status is replaced; a status that cannot be written stays old.
PublishStatus ==
  /\ crAt = "serve"
  /\ crStatus' = IF crDisk
                 THEN [of |-> "own", age |-> 0, pressed |-> ReclaimRequested]
                 ELSE crStatus
  /\ crRan' = crRan \cup {"daemon"}
  /\ UNCHANGED <<crAt, supervisorVars, worldVars, crAsked>>

(***************************************************************************)
(* One iteration of `ramshared supervise`.                                 *)
(***************************************************************************)
\* Only a status that is recent says whom to address.
Addressee == IF crStatus.age <= CrMaxAge THEN crStatus.of ELSE "none"

\* Mutant: a target the daemon has been given is not written again.
SupervisorSamplesOnce ==
  /\ crSupervisor = "sample"
  /\ crAddressee' = Addressee
  /\ crIssued' = 0 /\ crResults' = {}
  /\ crSupervisor' = IF crPressure /\ crTarget.to # "own" THEN "target" ELSE "publish"
  /\ crAsked' = IF crPressure /\ Addressee = "own" THEN 0 ELSE crAsked
  /\ UNCHANGED <<daemonVars, crTarget, crReclaim, worldVars, crRan>>

SupervisorSamples ==
  /\ crSupervisor = "sample"
  /\ crAddressee' = Addressee
  /\ crIssued' = 0 /\ crResults' = {}
  /\ crSupervisor' = IF crPressure THEN "target" ELSE "publish"
  /\ crAsked' = IF crPressure /\ Addressee = "own" THEN 0 ELSE crAsked
  /\ UNCHANGED <<daemonVars, crTarget, crReclaim, worldVars, crRan>>

\* A request to no instance is refused ("daemon_instance_unavailable"); the write
\* replaces the file in one rename or leaves it.
CrRequest == [to |-> crAddressee, age |-> crIssued]
CrWrites(file) ==
  IF crAddressee # "none" /\ crDisk
  THEN {[file |-> CrRequest, ok |-> TRUE]} ELSE {[file |-> file, ok |-> FALSE]}

ReduceVramCache ==
  /\ crSupervisor = "target" /\ crSupervisor' = "reclaim"
  /\ \E w \in CrWrites(crTarget) :
       /\ crTarget' = w.file
       /\ crResults' = IF w.ok THEN crResults \cup {"target"} ELSE crResults
  /\ UNCHANGED <<daemonVars, crReclaim, crAddressee, crIssued, worldVars, crRan, crAsked>>

RequestReclaim ==
  /\ crSupervisor = "reclaim" /\ crSupervisor' = "publish"
  /\ \E w \in CrWrites(crReclaim) :
       /\ crReclaim' = w.file
       /\ crResults' = IF w.ok THEN crResults \cup {"reclaim"} ELSE crResults
  /\ UNCHANGED <<daemonVars, crTarget, crAddressee, crIssued, worldVars, crRan, crAsked>>

\* publish_at: a supervisor that cannot publish its state exits.
SupervisorPublishes ==
  /\ crSupervisor = "publish"
  /\ crSupervisor' = IF crDisk THEN "sample" ELSE "down"
  /\ crRan' = crRan \cup {"supervisor"}
  /\ crAddressee' = "none" /\ crIssued' = 0 /\ crResults' = {}
  /\ UNCHANGED <<daemonVars, crTarget, crReclaim, worldVars, crAsked>>

SupervisorStarts ==
  /\ crSupervisor = "down" /\ crSupervisor' = "sample"
  /\ UNCHANGED <<daemonVars, crTarget, crReclaim, crAddressee, crIssued, crResults,
                 worldVars, crRan, crAsked>>

SupervisorDies ==
  /\ crSupervisor # "down" /\ crSupervisor' = "down"
  /\ crAddressee' = "none" /\ crIssued' = 0 /\ crResults' = {}
  /\ UNCHANGED <<daemonVars, crTarget, crReclaim, worldVars, crRan, crAsked>>

(***************************************************************************)
(* The host.  Both loops come round in every tick: the daemon waits five   *)
(* seconds at most, the supervisor one between bounded commands.           *)
(***************************************************************************)
CrTick ==
  /\ crAt = "serve" => "daemon" \in crRan
  /\ crSupervisor # "down" => "supervisor" \in crRan
  /\ crRan' = {}
  /\ crStatus' = [crStatus EXCEPT !.age = Older(@)]
  /\ crTarget' = [crTarget EXCEPT !.age = Older(@)]
  /\ crReclaim' = [crReclaim EXCEPT !.age = Older(@)]
  /\ crIssued' = IF crSupervisor \in {"down", "sample"} THEN crIssued ELSE Older(crIssued)
  /\ crAsked' = Older(crAsked)
  /\ UNCHANGED <<crAt, crSupervisor, crAddressee, crResults, worldVars>>

HostChanges ==
  /\ \/ crPressure' = ~crPressure /\ UNCHANGED crDisk
     \/ crDisk' = ~crDisk /\ UNCHANGED crPressure
  /\ UNCHANGED <<daemonVars, supervisorVars, crRan, crAsked>>

DaemonSteps ==
  DaemonStarts \/ RequireIdentity \/ LockMemory \/ BuildBackend \/ StartRuntime \/ PublishStatus
SupervisorSteps ==
  SupervisorSamples \/ ReduceVramCache \/ RequestReclaim \/ SupervisorPublishes
CrNext ==
  \/ DaemonSteps \/ DaemonEnds
  \/ SupervisorSteps \/ SupervisorStarts \/ SupervisorDies
  \/ CrTick \/ HostChanges

\* Each loop goes on by itself and time passes; nothing is assumed of restarts.
CrSpec ==
  CrInit /\ [][CrNext]_crVars
    /\ WF_crVars(PublishStatus) /\ WF_crVars(SupervisorSteps) /\ WF_crVars(CrTick)

(***************************************************************************)
(* Properties.                                                             *)
(***************************************************************************)
\* A status that shows pressure is backed by a supervisor that saw pressure and
\* addressed this very daemon no longer than CrMaxAge ago: neither a request to its
\* predecessor nor one left behind by a dead supervisor keeps the cache closed.
PressureIsRecent ==
  crStatus.of = "own" /\ crStatus.pressed => crAsked <= CrMaxAge + crStatus.age

\* The supervisor publishes an action as succeeded only if the file holds the
\* request of this iteration (action results in supervisor-state.json).
ReportIsTrue ==
  crSupervisor = "publish" =>
    /\ "target" \in crResults => crTarget = CrRequest
    /\ "reclaim" \in crResults => crReclaim = CrRequest

\* Pressure that lasts, over a daemon that goes on serving, closes the cache for
\* good; when it ends for good the cache opens again although nobody removes the
\* requests.
Working == crAt = "serve" /\ crSupervisor # "down" /\ crDisk
Shows == crStatus.of = "own" /\ crStatus.pressed
PressureIsFollowed ==
  /\ <>[](Working /\ crPressure) => <>[]Shows
  /\ <>[](Working /\ ~crPressure) => <>[]~Shows

\* The promises together.
CrContract == [](CrTypeOK /\ PressureIsRecent /\ ReportIsTrue) /\ PressureIsFollowed
=============================================================================
