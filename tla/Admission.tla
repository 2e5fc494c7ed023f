------------------------------ MODULE Admission ------------------------------
(***************************************************************************)
(* `ramshared run`, the reservation ledger and `ramshared recover`.        *)
(*                                                                          *)
(* A run process takes the ledger's lock, checks the safe-mode marker, the *)
(* supervisor's evidence and the resume lease, reserves memory within the  *)
(* aggregate budget, starts a systemd scope, binds the reservation to it,  *)
(* gives the lock back and waits for the scope to end.  The supervisor     *)
(* publishes its state in two files, one of them under the same lock.      *)
(* recover clears the gates of an incident in five file operations.  Any   *)
(* of these processes may be killed between two steps, and the guest may   *)
(* be rebooted, which empties /run.                                         *)
(*                                                                          *)
(* Ages of evidence are counted in ticks up to one past MaxEvidenceAge.     *)
(***************************************************************************)
EXTENDS Naturals, FiniteSets, FiniteSetsExt

CONSTANTS
  AdProcs,           \* the run processes, each with an owner identity of its own
  Need,            \* of each, the memory its workload reserves
  Budget,          \* calculate_budget's memory_max_bytes
  MaxEvidenceAge,  \* MAX_CONTROL_EVIDENCE_AGE_MS, in ticks
  MaxSupervisors,  \* bound: incarnations of the supervisor
  MaxBoots         \* bound: boots of the guest

ASSUME AdmissionAssumption ==
  /\ Need \in [AdProcs -> Nat] /\ Budget \in Nat /\ MaxEvidenceAge \in Nat
  /\ MaxSupervisors \in Nat /\ MaxBoots \in Nat \ {0}

VARIABLES
  run,         \* where each run process stands
  scope,       \* the systemd scope of each
  lock,        \* who holds the flock on the ledger directory
  torn,        \* is the record in ledger-transition.lock cut short?
  reservations, \* reservations.json: the owners of its entries
  loaded,      \* the ledger as the transaction in progress read it
  sup,         \* the supervisor: incarnation, where it stands, its decision
  supStatus,   \* supervisor-state.json
  gate,        \* admission-state.json
  boot,        \* the number of this boot
  hostGate,    \* the Windows safe-mode gate
  guestGate,   \* /var/lib/ramshared/safe-mode.json
  pending,     \* /var/lib/ramshared/recovery-pending.json
  lease,       \* /run/ramshared/host-resume-lease.json
  rec,         \* the recover process
  resumed      \* history: the boots in which recover issued a lease

ledgerVars == <<lock, torn, reservations, loaded>>
runVars == <<run, scope>>
supVars == <<sup, supStatus, gate>>
recVars == <<hostGate, guestGate, pending, lease, rec, resumed>>
adVars == <<runVars, ledgerVars, supVars, boot, recVars>>

Ages == 0..MaxEvidenceAge + 1
Fresh(record) == record.age <= MaxEvidenceAge
Aged(files) == {[f EXCEPT !.age = IF @ > MaxEvidenceAge THEN @ ELSE @ + 1] : f \in files}

NoSupervisor == [id |-> 0, at |-> "down", state |-> "HEALTHY"]
NoRecover == [at |-> "idle", sup |-> 0, age |-> 0, host |-> FALSE]

\* The first boot after an incident.
AdInit ==
  /\ run = [p \in AdProcs |-> "new"] /\ scope = [p \in AdProcs |-> "none"]
  /\ lock = {} /\ torn = FALSE /\ reservations = {} /\ loaded = {}
  /\ sup = NoSupervisor /\ supStatus = {} /\ gate = {}
  /\ boot = 1 /\ hostGate = {[incident |-> 0, prior |-> 0]} /\ guestGate = {} /\ pending = {} /\ lease = {}
  /\ rec = NoRecover /\ resumed = {}

(***************************************************************************)
(* SystemOwnerProbe::is_alive: boot id, pid and start time all match, so a *)
(* new process never passes for a dead owner.                              *)
(***************************************************************************)
RunAlive(p) == run[p] \notin {"new", "dead"}

SupervisorAlive(id) == sup.id = id /\ sup.at # "down"

Reserved(owners) == MapThenSumSet(LAMBDA p : Need[p], owners)

\* A process that returns or is killed gives up the lock if it holds it.
AdEnds(p) ==
  /\ run' = [run EXCEPT ![p] = "dead"]
  /\ lock' = lock \ {p}

(***************************************************************************)
(* acquire_lock: a nonblocking flock on the directory, the owner's name    *)
(* rewritten in place in the transition record.  A record that does not    *)
(* parse refuses every later transaction; the record of a dead owner is    *)
(* copied aside first, which changes nothing here.                         *)
(***************************************************************************)
LockFree == lock = {} /\ ~torn

TakeLock(p) ==
  /\ run[p] = "new" /\ LockFree
  /\ lock' = {p}
  /\ run' = [run EXCEPT ![p] = "locked"]
  /\ UNCHANGED <<scope, torn, reservations, loaded, supVars, boot, recVars>>

\* The process is killed while it rewrites the transition record.
ClaimTorn(p) ==
  /\ run[p] \in {"new", "release"} /\ LockFree
  /\ torn' = TRUE /\ AdEnds(p)
  /\ UNCHANGED <<scope, reservations, loaded, supVars, boot, recVars>>

\* A busy lock, a path, type, owner or inode check that fails, a ledger that does
\* not parse or cannot be written, the safe-mode marker, or evidence that does
\* not allow the workload: run returns.  Or it is killed.
RunEnds(p) ==
  /\ run[p] # "dead"
  /\ AdEnds(p)
  /\ loaded' = IF p \in lock THEN {} ELSE loaded
  /\ UNCHANGED <<scope, torn, reservations, supVars, boot, recVars>>

(***************************************************************************)
(* run_with and admit_reservation_at                                       *)
(***************************************************************************)
CheckSafeMode(p) ==
  /\ run[p] = "locked" /\ guestGate = {}
  /\ run' = [run EXCEPT ![p] = "marked"]
  /\ UNCHANGED <<scope, ledgerVars, supVars, boot, recVars>>

\* read_current_supervisor_status_at, admission_state_allows_at and
\* read_resume_lease_if_present.
StatusAllows ==
  \E s \in supStatus : Fresh(s) /\ SupervisorAlive(s.sup) /\ s.state = "HEALTHY"
GateAllows ==
  \E s \in supStatus, g \in gate : Fresh(g) /\ g.sup = s.sup /\ g.state = "HEALTHY"
ValidLease(l) ==
  \E s \in supStatus : /\ l.schema = 2 /\ l.boot = boot /\ l.sup = s.sup
                       /\ SupervisorAlive(l.sup) /\ Fresh(l)

LeaseAllows == \E l \in lease : ValidLease(l)

CheckEvidence(p) ==
  /\ run[p] = "marked"
  /\ StatusAllows /\ GateAllows /\ LeaseAllows
  /\ run' = [run EXCEPT ![p] = "admitted"]
  /\ UNCHANGED <<scope, ledgerVars, supVars, boot, recVars>>

\* Mutant: the entries of other processes are taken for dead owners'.
LoadLedgerForgets(p) ==
  /\ run[p] = "admitted"
  /\ loaded' = reservations \cap {p}
  /\ run' = [run EXCEPT ![p] = "loaded"]
  /\ UNCHANGED <<scope, lock, torn, reservations, supVars, boot, recVars>>

\* load_ledger_locked, keeping the entries of living owners.
LoadLedger(p) ==
  /\ run[p] = "admitted"
  /\ loaded' = {q \in reservations : RunAlive(q)}
  /\ run' = [run EXCEPT ![p] = "loaded"]
  /\ UNCHANGED <<scope, lock, torn, reservations, supVars, boot, recVars>>

\* The sum is checked and the new ledger stored.
Reserve(p) ==
  /\ run[p] = "loaded"
  /\ Need[p] > 0 /\ Reserved(loaded) + Need[p] <= Budget
  /\ reservations' = loaded \cup {p} /\ loaded' = {}
  /\ run' = [run EXCEPT ![p] = "launch"]
  /\ UNCHANGED <<scope, lock, torn, supVars, boot, recVars>>

(***************************************************************************)
(* ScopeRunner::launch and ScopeExecution.  systemd-run may fail to start, *)
(* in which case the reservation is released; once it runs, the scope may  *)
(* exist whatever the acknowledgement says.                                *)
(***************************************************************************)
Launch(p) ==
  /\ run[p] = "launch"
  /\ \/ /\ run' = [run EXCEPT ![p] = "ack"]
        /\ scope' = [scope EXCEPT ![p] = "starting"]
        /\ UNCHANGED lock
     \/ /\ run' = [run EXCEPT ![p] = "release"] /\ lock' = lock \ {p}
        /\ UNCHANGED scope
  /\ UNCHANGED <<torn, reservations, loaded, supVars, boot, recVars>>

\* systemd starts the unit; later it ends and stays loaded with its exit status
\* or is unloaded.
ScopeMoves(p) ==
  /\ \/ scope[p] = "starting" /\ scope' = [scope EXCEPT ![p] = "active"]
     \/ scope[p] = "active" /\ scope' \in {[scope EXCEPT ![p] = s] : s \in {"ended", "unloaded"}}
  /\ UNCHANGED <<run, ledgerVars, supVars, boot, recVars>>

\* acknowledge_start reads the InvocationID of a unit that is loaded; when it
\* cannot, run returns without a release (RunEnds).
Acknowledge(p) ==
  /\ run[p] = "ack" /\ scope[p] \in {"active", "ended"}
  /\ run' = [run EXCEPT ![p] = "bind"]
  /\ UNCHANGED <<scope, ledgerVars, supVars, boot, recVars>>

\* The entry gets the InvocationID, and the lock is given back.
AdBind(p) ==
  /\ run[p] = "bind" /\ p \in reservations
  /\ run' = [run EXCEPT ![p] = "wait"] /\ lock' = lock \ {p}
  /\ UNCHANGED <<scope, torn, reservations, loaded, supVars, boot, recVars>>

\* wait_for_completion sees a terminal state; a query that fails is RunEnds.
WaitEnds(p) ==
  /\ run[p] = "wait" /\ scope[p] = "ended"
  /\ run' = [run EXCEPT ![p] = "release"]
  /\ UNCHANGED <<scope, ledgerVars, supVars, boot, recVars>>

\* release_reservation_at, a transaction of its own.
Release(p) ==
  /\ run[p] = "release" /\ LockFree
  /\ reservations' = reservations \ {p}
  /\ AdEnds(p)
  /\ UNCHANGED <<scope, torn, loaded, supVars, boot, recVars>>

RunStep(p) ==
  \/ TakeLock(p) \/ ClaimTorn(p) \/ RunEnds(p) \/ CheckSafeMode(p) \/ CheckEvidence(p)
  \/ LoadLedger(p) \/ Reserve(p) \/ Launch(p) \/ ScopeMoves(p) \/ Acknowledge(p) \/ AdBind(p) \/ WaitEnds(p)
  \/ Release(p)

(***************************************************************************)
(* The supervisor, as far as its publications go (apply_decision_with): a  *)
(* healthy decision writes the status and then opens the gate, any other   *)
(* closes the gate first.  The gate is written under the ledger's lock; a  *)
(* busy lock fails the publication and, after the status, the supervisor.  *)
(***************************************************************************)
SupStarts ==
  /\ sup.at = "down" /\ sup.id < MaxSupervisors
  /\ sup' = [id |-> sup.id + 1, at |-> "loop", state |-> "HEALTHY"]
  /\ UNCHANGED <<runVars, ledgerVars, supStatus, gate, boot, recVars>>

Publication(state) == [sup |-> sup.id, state |-> state, age |-> 0]

SupHealthy ==
  /\ sup.at = "loop"
  /\ supStatus' = {Publication("HEALTHY")}
  /\ sup' = [sup EXCEPT !.at = "open", !.state = "HEALTHY"]
  /\ UNCHANGED <<runVars, ledgerVars, gate, boot, recVars>>

SupOpensGate ==
  /\ sup.at = "open"
  /\ \/ LockFree /\ gate' = {Publication("HEALTHY")} /\ sup' = [sup EXCEPT !.at = "loop"]
     \/ sup' = [sup EXCEPT !.at = "down"] /\ UNCHANGED gate
  /\ UNCHANGED <<runVars, ledgerVars, supStatus, boot, recVars>>

SupClosesGate ==
  /\ sup.at = "loop"
  /\ \/ /\ LockFree /\ gate' = {Publication("PRESSURE")}
        /\ sup' = [sup EXCEPT !.at = "closed", !.state = "PRESSURE"]
     \/ sup' = [sup EXCEPT !.at = "notClosed", !.state = "PRESSURE"] /\ UNCHANGED gate
  /\ UNCHANGED <<runVars, ledgerVars, supStatus, boot, recVars>>

SupPressure ==
  /\ sup.at \in {"closed", "notClosed"}
  /\ supStatus' = {Publication("PRESSURE")}
  /\ sup' = [sup EXCEPT !.at = IF @ = "closed" THEN "loop" ELSE "down"]
  /\ UNCHANGED <<runVars, ledgerVars, gate, boot, recVars>>

SupCrashes ==
  /\ sup.at # "down" /\ sup' = [sup EXCEPT !.at = "down"]
  /\ UNCHANGED <<runVars, ledgerVars, supStatus, gate, boot, recVars>>

Supervision ==
  SupStarts \/ SupHealthy \/ SupOpensGate \/ SupClosesGate \/ SupPressure \/ SupCrashes

(***************************************************************************)
(* recover_resume_at.  Everything is read first, under one reading of the  *)
(* clock; then up to five durable file operations follow.  The 60 healthy  *)
(* samples it asks for are an input: they may be missing.                  *)
(***************************************************************************)

RecoverReads ==
  /\ rec.at = "idle"
  /\ StatusAllows
  /\ \E g \in guestGate :
       /\ g.boot = boot
       /\ \/ \E h \in hostGate : h.incident = g.incident /\ h.prior # boot
          \/ /\ hostGate = {}
             /\ \E t \in pending : ValidLease(t) /\ t.incident = g.incident
       /\ rec' = [at |-> IF hostGate = {} THEN "lease" ELSE "pending",
                  sup |-> sup.id, age |-> 0,
                  host |-> hostGate # {}]
  /\ UNCHANGED <<runVars, ledgerVars, supVars, boot, hostGate, guestGate, pending, lease, resumed>>

NewLease ==
  [schema |-> 2, boot |-> boot, sup |-> rec.sup, age |-> rec.age,
   incident |-> (CHOOSE g \in guestGate : TRUE).incident]

RecoverWritesPending ==
  /\ rec.at = "pending"
  /\ pending' = {NewLease} /\ rec' = [rec EXCEPT !.at = "lease"]
  /\ UNCHANGED <<runVars, ledgerVars, supVars, boot, hostGate, guestGate, lease, resumed>>

RecoverWritesLease ==
  /\ rec.at = "lease"
  /\ lease' = {NewLease} /\ resumed' = resumed \cup {boot}
  /\ rec' = [rec EXCEPT !.at = IF rec.host THEN "host" ELSE "guest"]
  /\ UNCHANGED <<runVars, ledgerVars, supVars, boot, hostGate, guestGate, pending>>

RecoverRemovesHost ==
  /\ rec.at = "host" /\ hostGate # {}
  /\ hostGate' = {} /\ rec' = [rec EXCEPT !.at = "guest"]
  /\ UNCHANGED <<runVars, ledgerVars, supVars, boot, guestGate, pending, lease, resumed>>

RecoverRemovesGuest ==
  /\ rec.at = "guest" /\ guestGate # {}
  /\ guestGate' = {} /\ rec' = [rec EXCEPT !.at = "clean"]
  /\ UNCHANGED <<runVars, ledgerVars, supVars, boot, hostGate, pending, lease, resumed>>

RecoverRemovesPending ==
  /\ rec.at = "clean" /\ pending # {}
  /\ pending' = {} /\ rec' = NoRecover
  /\ UNCHANGED <<runVars, ledgerVars, supVars, boot, hostGate, guestGate, lease, resumed>>

\* A file operation fails, or the process is killed.
RecoverStops ==
  /\ rec.at # "idle" /\ rec' = NoRecover
  /\ UNCHANGED <<runVars, ledgerVars, supVars, boot, hostGate, guestGate, pending, lease, resumed>>

Recovery ==
  \/ RecoverReads \/ RecoverWritesPending \/ RecoverWritesLease \/ RecoverRemovesHost
  \/ RecoverRemovesGuest \/ RecoverRemovesPending \/ RecoverStops

(***************************************************************************)
(* The guardian records an incident on the host and terminates the guest;  *)
(* a guest also reboots by itself.  /run and its processes go, /var/lib    *)
(* stays.  ramshared-host-gate.sh then mirrors the host's gate.            *)
(***************************************************************************)
Reboot(incident) ==
  /\ boot < MaxBoots /\ boot' = boot + 1
  /\ hostGate' = IF incident THEN {[incident |-> boot, prior |-> boot]} ELSE hostGate
  /\ run' = [p \in AdProcs |-> IF RunAlive(p) THEN "dead" ELSE run[p]]
  /\ scope' = [p \in AdProcs |-> "none"]
  /\ lock' = {} /\ torn' = FALSE /\ reservations' = {} /\ loaded' = {}
  /\ sup' = [NoSupervisor EXCEPT !.id = sup.id] /\ supStatus' = {} /\ gate' = {}
  /\ lease' = {} /\ rec' = NoRecover
  /\ UNCHANGED <<guestGate, pending, resumed>>

\* With neither a host gate nor a guest gate the script writes a lease of schema 1.
HostGateScript ==
  /\ sup.at = "down" /\ supStatus = {}
  /\ IF hostGate # {}
     THEN /\ guestGate' = {[incident |-> h.incident, boot |-> boot] : h \in hostGate}
          /\ lease' = {}
     ELSE /\ lease' = {[schema |-> 1, boot |-> boot, sup |-> 0, incident |-> 0, age |-> 0]
                         : b \in IF guestGate = {} THEN {boot} ELSE {}}
          /\ UNCHANGED guestGate
  /\ UNCHANGED <<runVars, ledgerVars, supVars, boot, hostGate, pending, rec, resumed>>

Tick ==
  /\ supStatus' = Aged(supStatus) /\ gate' = Aged(gate)
  /\ pending' = Aged(pending) /\ lease' = Aged(lease)
  /\ rec' = IF rec.at = "idle" THEN rec
            ELSE [rec EXCEPT !.age = IF @ > MaxEvidenceAge THEN @ ELSE @ + 1]
  /\ UNCHANGED <<runVars, ledgerVars, sup, boot, hostGate, guestGate, resumed>>

AdNext ==
  \/ \E p \in AdProcs : RunStep(p)
  \/ Supervision \/ Recovery \/ Tick \/ HostGateScript
  \/ \E incident \in BOOLEAN : Reboot(incident)

AdSpec == AdInit /\ [][AdNext]_adVars

-----------------------------------------------------------------------------
\* The type invariant of the module.
AdTypeOK ==
  /\ run \in [AdProcs -> {"new", "locked", "marked", "admitted", "loaded", "launch", "ack", "bind",
                         "wait", "release", "dead"}]
  /\ scope \in [AdProcs -> {"none", "starting", "active", "ended", "unloaded"}]
  /\ lock \subseteq AdProcs /\ Cardinality(lock) <= 1
  /\ torn \in BOOLEAN /\ reservations \subseteq AdProcs /\ loaded \subseteq AdProcs
  /\ sup.id \in 0..MaxSupervisors /\ boot \in 1..MaxBoots
  /\ \A f \in {supStatus, gate, lease, pending, hostGate, guestGate} : Cardinality(f) <= 1
  /\ resumed \subseteq 1..MaxBoots

\* The ledger never promises more memory than the budget, whichever processes are
\* killed inside a transaction (admit_reservation_at, "aggregate workload memory
\* limit would be exceeded").
WithinBudget == Reserved(reservations) <= Budget

Running(p) == scope[p] \in {"starting", "active"}

\* A scope whose run process lives is in the ledger, so no other admission can
\* give its memory away (run_with keeps the reservation until the scope's
\* terminal state has been read).
WatchedScopesAreReserved ==
  \A p \in AdProcs : Running(p) /\ RunAlive(p) => p \in reservations

\* Every scope that may still run is in the ledger (workload.rs, ScopeCompletion::
\* UnsafeContainment: "Keep the reservation and its forensic evidence
\* fail-closed").
RunningScopesAreReserved ==
  \A p \in AdProcs : Running(p) => p \in reservations

\* A scope is started only while the gate stands open: closing it and starting a
\* workload exclude each other through the ledger's lock, which run_with holds
\* from its checks until the scope has been acknowledged.
StartsUnderOpenGate ==
  [][\A p \in AdProcs : (scope[p] = "none" /\ scope'[p] = "starting") => \E g \in gate : g.state = "HEALTHY"]_adVars

\* Evidence admits a workload only from a supervisor that is alive, wrote it in
\* this boot and, unless it is about to publish something else, still holds the
\* guest healthy.
AdmitsOnCurrentHealth ==
  [][\A p \in AdProcs : (run[p] = "marked" /\ run'[p] = "admitted") => /\ sup.at # "down" /\ (sup.at = "loop" => sup.state = "HEALTHY")]_adVars

\* Nothing is reserved in a boot before recover has issued a lease in it, and the
\* lease was issued before either gate of the incident went (recover_resume_at
\* writes the lease first).
ReservedAfterResume ==
  /\ reservations # {} => boot \in resumed
  /\ boot \notin resumed => \A g \in guestGate : g.boot = boot => hostGate # {}

\* The gates of an incident go in one order, host first, so a crash between the
\* two leaves the guest refusing; and the pending record that lets recover resume
\* is the last to go.
GatesGoInOrder ==
  [][/\ (guestGate # {} /\ guestGate' = {}) => hostGate = {} /\ pending # {}
     /\ (hostGate # {} /\ hostGate' = {}) => lease # {} /\ pending # {}]_adVars

\* The promises together.
AdContract ==
  /\ [](AdTypeOK /\ WithinBudget /\ WatchedScopesAreReserved /\ ReservedAfterResume)
  /\ StartsUnderOpenGate /\ AdmitsOnCurrentHealth /\ GatesGoInOrder
=============================================================================
