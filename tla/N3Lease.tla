------------------------------- MODULE N3Lease -------------------------------
(***************************************************************************)
(* The host-led lease machine of crates/ramshared-tier/src/n3_state.rs:    *)
(* the observation preflight and the grant / revoke / drain protocol.  The *)
(* machine is pure; its inputs are host messages, which the channel may    *)
(* delay, repeat and reorder, and the calls of the guest that owns it.     *)
(*                                                                         *)
(* An Option is a set of at most one element, and active_lease keeps the   *)
(* grant it was made from (identity, generation, capacity) with its revoke *)
(* in active_revoke.  Reasons of failures and decisions are left out: no   *)
(* later step reads them.                                                  *)
(***************************************************************************)
EXTENDS Naturals, Sequences, FiniteSets

CONSTANTS
  Leases,          \* opaque lease identities, ordered as their bytes are
  Observations,    \* the host observations that may arrive
  Grants,          \* the GRANTs that may arrive
  Revokes,         \* the REVOKEs that may arrive
  RestartRecords,  \* the restart records a restarted guest may be given
  MaxNow,          \* bound: the model clock stops here
  MaxCapacity,     \* MAX_CAPACITY_BYTES
  Alignment,       \* CAPACITY_ALIGNMENT_BYTES
  MaxAge,          \* MAX_OBSERVATION_AGE
  MaxInFlight,     \* MAX_IN_FLIGHT
  MaxEvents,       \* MAX_PROTOCOL_EVENT_HISTORY
  MaxHistory,      \* MAX_GENERATION_HISTORY
  CarefulScrub     \* does the guest scrub, and count I/O, only where the lease allows it?

Schema == 1

ASSUME N3Assumption ==
  /\ Leases \subseteq Nat /\ IsFiniteSet(Leases)
  /\ \A g \in Grants : g.lease \in Leases /\ g.gen \in Nat
  /\ \A o \in Observations : o.epoch \in Nat
  /\ \A r \in RestartRecords :
       r.epoch \in Nat /\ \A i \in DOMAIN r.checkpoints : r.checkpoints[i].gen \in Nat
  /\ {MaxNow, MaxInFlight} \subseteq Nat
  /\ CarefulScrub \in BOOLEAN

VARIABLES
  preflight_state, last_observation,            \* PreflightModel
  lease_state,                                  \* [tag, gen]; gen 0 where it has none
  pending_grant, active_lease, active_revoke,
  seen_events, accepted_grant_acks, completed_revokes,
  generation_history,                           \* 0 for a lease never seen
  restored_restart_epoch,                       \* 0 for None
  in_flight, callbacks_pending, unknown_in_flight,
  scrub_state, sent_drain_ack,
  now,          \* the caller's clock
  negotiated,   \* history: the (lease, generation) pairs ever acknowledged
  dirty,        \* history: has I/O completed since the last successful scrub?
  forgot        \* history: was a restart record refused?

preflightVars == <<preflight_state, last_observation>>
ioVars == <<in_flight, callbacks_pending, unknown_in_flight, dirty>>
drainVars == <<scrub_state, sent_drain_ack>>
logVars == <<seen_events, accepted_grant_acks, completed_revokes>>
memoryVars == <<generation_history, restored_restart_epoch, negotiated, forgot>>
n3LeaseVars == <<lease_state, pending_grant, active_lease, active_revoke>>
n3Vars == <<preflightVars, n3LeaseVars, logVars, memoryVars, ioVars, drainVars, now>>

State(tag, gen) == [tag |-> tag, gen |-> gen]
Absent == State("Absent", 0)
Failed == State("Failed", 0)
Ending == {"Quiescing", "Drained", "Revoked", "Failed"}
Tags == {"Absent", "Negotiating", "Granted"} \cup Ending

(***************************************************************************)
(* The messages of the host: HostObservation::host, Grant::host,           *)
(* Revoke::host and the records RestartRecord::from_bytes can decode.      *)
(***************************************************************************)
HostObservation(event, epoch, at, maxAge, budget, signals) ==
  [schema |-> Schema, epoch |-> epoch, adapter |-> "gpu", authority |-> "Host",
   at |-> at, maxAge |-> maxAge, event |-> event, budget |-> budget, resident |-> 0,
   available |-> budget, signals |-> signals]

HostGrant(event, lease, gen, epoch, capacity, deadline) ==
  [version |-> Schema, lease |-> lease, gen |-> gen, event |-> event,
   capacity |-> capacity, epoch |-> epoch, issued |-> 0, deadline |-> deadline,
   expected |-> "None"]

HostRevoke(event, lease, gen, deadline) ==
  [lease |-> lease, gen |-> gen, event |-> event, deadline |-> deadline,
   expected |-> "None"]

RestartRecord(epoch, authority, checkpoints) ==
  [schema |-> Schema, authority |-> authority, epoch |-> epoch,
   checkpoints |-> checkpoints]

\* What identifies a GRANT_ACK, and a revoke completion, of message m.
Identity(m) == [lease |-> m.lease, gen |-> m.gen, event |-> m.event]
Identities == {Identity(m) : m \in Grants \cup Revokes}
AsSeen(kind, m) == [event |-> m.event, kind |-> kind, body |-> m]

N3TypeOK ==
  /\ preflight_state \in {"HostUnavailable", "Observing", "Constrained",
                          "DemotionRequested", "Refused"}
  /\ last_observation \subseteq Observations /\ Cardinality(last_observation) <= 1
  /\ lease_state.tag \in Tags /\ lease_state.gen \in Nat
  /\ pending_grant \subseteq Grants /\ active_lease \subseteq Grants
  /\ active_revoke \subseteq Revokes
  /\ accepted_grant_acks \subseteq Identities /\ completed_revokes \subseteq Identities
  /\ generation_history \in [Leases -> Nat] /\ restored_restart_epoch \in Nat
  /\ in_flight \in 0..MaxInFlight /\ callbacks_pending \in 0..MaxInFlight
  /\ {unknown_in_flight, sent_drain_ack, dirty, forgot} \subseteq BOOLEAN
  /\ scrub_state \in {"Pending", "Succeeded", "Failed"}
  /\ now \in 0..MaxNow

(***************************************************************************)
(* LeaseMachine::new, and what LeaseMachine::restart and a cleanup reset.  *)
(***************************************************************************)
N3Init ==
  /\ preflight_state = "HostUnavailable" /\ last_observation = {}
  /\ lease_state = Absent
  /\ pending_grant = {} /\ active_lease = {} /\ active_revoke = {}
  /\ seen_events = {} /\ accepted_grant_acks = {} /\ completed_revokes = {}
  /\ generation_history = [l \in Leases |-> 0] /\ restored_restart_epoch = 0
  /\ in_flight = 0 /\ callbacks_pending = 0 /\ unknown_in_flight = FALSE
  /\ scrub_state = "Pending" /\ sent_drain_ack = FALSE
  /\ now = 0 /\ negotiated = {} /\ dirty = FALSE /\ forgot = FALSE

DropLease ==
  /\ pending_grant' = {} /\ active_lease' = {} /\ active_revoke' = {}
  /\ in_flight' = 0 /\ callbacks_pending' = 0 /\ unknown_in_flight' = FALSE
  /\ scrub_state' = "Pending" /\ sent_drain_ack' = FALSE
  /\ lease_state' = Absent
  /\ dirty' = FALSE

(***************************************************************************)
(* PreflightModel.  The checks come in three groups: those made before the *)
(* clock is looked at, the clock, and those made after.                    *)
(***************************************************************************)
ValidCounter(v) == v <= MaxCapacity /\ v % Alignment = 0
ValidCapacity(v) == v # 0 /\ ValidCounter(v)

Verdict(o) ==
  IF \/ o.schema # Schema \/ o.epoch = 0 \/ o.authority # "Host"
     \/ o.maxAge = 0 \/ o.maxAge > MaxAge
  THEN "refused"
  ELSE IF now < o.at \/ now - o.at > o.maxAge THEN "unavailable"
  ELSE IF \/ "Unknown" \in o.signals
          \/ \E v \in {o.budget, o.resident, o.available} : ~ValidCounter(v) \/ v > o.budget
  THEN "refused"
  ELSE "valid"

OfflineSignal(o) == o.signals \cap {"Reset", "ChannelLoss", "Offline"} # {}

\* What PreflightModel::observe checks against the observation it holds.
Contradicts(o, p) ==
  \/ o.event = p.event /\ o # p
  \/ o.epoch < p.epoch
  \/ o.epoch = p.epoch /\ o # p
  \/ o.adapter # p.adapter

Observe(o) ==
  /\ o \notin last_observation  \* an exact repetition changes nothing
  /\ IF \E p \in last_observation : Contradicts(o, p)
     THEN preflight_state' = "Refused" /\ UNCHANGED last_observation
     ELSE CASE Verdict(o) = "valid" ->
                 /\ last_observation' = {o}
                 /\ preflight_state' =
                      IF OfflineSignal(o) THEN "HostUnavailable"
                      ELSE IF "Pressure" \in o.signals \/ o.budget = 0 THEN "Constrained"
                      ELSE "Observing"
            [] Verdict(o) = "unavailable" ->
                 preflight_state' = "HostUnavailable" /\ UNCHANGED last_observation
            [] Verdict(o) = "refused" ->
                 preflight_state' = "Refused" /\ UNCHANGED last_observation
  /\ UNCHANGED <<n3LeaseVars, logVars, memoryVars, ioVars, drainVars, now>>

RequestDemotion ==
  /\ preflight_state = "Constrained"
  /\ preflight_state' = "DemotionRequested"
  /\ UNCHANGED <<last_observation, n3LeaseVars, logVars, memoryVars, ioVars, drainVars, now>>

\* refuse_guest_claim and refuse_product_scope.
RefuseClaim ==
  /\ preflight_state' = "Refused"
  /\ UNCHANGED <<last_observation, n3LeaseVars, logVars, memoryVars, ioVars, drainVars, now>>

(***************************************************************************)
(* Failing.  fail_for_event forgets a pending grant, fail_for_active keeps *)
(* it; both keep the active lease until its cleanup.                       *)
(***************************************************************************)
FailForEvent ==
  /\ pending_grant' = {} /\ lease_state' = Failed
  /\ UNCHANGED <<active_lease, active_revoke>>

FailForActive ==
  /\ lease_state' = Failed
  /\ UNCHANGED <<pending_grant, active_lease, active_revoke>>

\* register_event: the events already seen under the identity of e.
SeenAs(e) == {s \in seen_events : s.event = e.event}

N3Register(e) ==
  seen_events' = IF SeenAs(e) = {} /\ Cardinality(seen_events) < MaxEvents
                 THEN seen_events \cup {e} ELSE seen_events

Registers(e) == SeenAs(e) = {} /\ Cardinality(seen_events) < MaxEvents

(***************************************************************************)
(* GRANT.                                                                  *)
(***************************************************************************)
\* Mutant: the generation last seen is taken once more.
GenerationNotBelow(l, gen) ==
  IF generation_history[l] # 0
  THEN gen \in {generation_history[l], generation_history[l] + 1}
  ELSE Cardinality({k \in Leases : generation_history[k] # 0}) < MaxHistory

NextGeneration(l, gen) ==
  IF generation_history[l] # 0 THEN gen = generation_history[l] + 1
  ELSE Cardinality({k \in Leases : generation_history[k] # 0}) < MaxHistory

FreshAuthority(g) ==
  /\ preflight_state \in {"Observing", "Constrained", "DemotionRequested"}
  /\ \E o \in last_observation :
       Verdict(o) = "valid" /\ o.epoch = g.epoch /\ o.budget >= g.capacity

Grantable(g) ==
  /\ lease_state = Absent
  /\ g.expected \in {"None", "Absent"}
  /\ g.version = Schema /\ g.gen # 0 /\ g.epoch # 0
  /\ g.deadline > g.issued /\ now >= g.issued /\ now < g.deadline
  /\ g.epoch >= restored_restart_epoch
  /\ FreshAuthority(g)
  /\ ValidCapacity(g.capacity)
  /\ NextGeneration(g.lease, g.gen)

ReceiveGrant(g) ==
  LET e == AsSeen("Grant", g) IN
  /\ e \notin seen_events  \* an exact duplicate is a Noop
  /\ N3Register(e)
  /\ IF Registers(e) /\ Grantable(g)
     THEN /\ lease_state' = State("Negotiating", g.gen)
          /\ pending_grant' = {g}
          /\ generation_history' = [generation_history EXCEPT ![g.lease] = g.gen]
          /\ negotiated' = negotiated \cup {<<g.lease, g.gen>>}
          /\ UNCHANGED <<active_lease, active_revoke>>
     ELSE FailForEvent /\ UNCHANGED <<generation_history, negotiated>>
  /\ UNCHANGED <<preflightVars, accepted_grant_acks, completed_revokes,
                 restored_restart_epoch, forgot, ioVars, drainVars, now>>

\* Mutant: the pending grant is copied, not taken.
AckKeepsPending(ack) ==
  /\ ack \notin accepted_grant_acks
  /\ IF \E g \in pending_grant : lease_state = State("Negotiating", g.gen) /\ ack = Identity(g)
     THEN /\ accepted_grant_acks' = accepted_grant_acks \cup {ack}
          /\ active_lease' = pending_grant /\ active_revoke' = {}
          /\ lease_state' = State("Granted", ack.gen)
          /\ UNCHANGED pending_grant
     ELSE FailForEvent /\ UNCHANGED accepted_grant_acks
  /\ UNCHANGED <<preflightVars, seen_events, completed_revokes, memoryVars, ioVars,
                 drainVars, now>>

AcceptGrantAck(ack) ==
  /\ ack \notin accepted_grant_acks
  /\ IF \E g \in pending_grant : lease_state = State("Negotiating", g.gen) /\ ack = Identity(g)
     THEN IF Cardinality(accepted_grant_acks) >= MaxEvents
          THEN FailForActive /\ UNCHANGED accepted_grant_acks
          ELSE /\ accepted_grant_acks' = accepted_grant_acks \cup {ack}
               /\ active_lease' = pending_grant /\ active_revoke' = {}
               /\ pending_grant' = {}
               /\ lease_state' = State("Granted", ack.gen)
     ELSE FailForEvent /\ UNCHANGED accepted_grant_acks
  /\ UNCHANGED <<preflightVars, seen_events, completed_revokes, memoryVars, ioVars,
                 drainVars, now>>

(***************************************************************************)
(* REVOKE, the drain and the host's completion.                            *)
(***************************************************************************)
N3Revocable(r) ==
  /\ \E a \in active_lease :
       /\ lease_state = State("Granted", a.gen)
       /\ r.lease = a.lease /\ r.gen = a.gen /\ r.deadline # 0
  /\ r.expected \in {"None", "Granted"}

ReceiveRevoke(r) ==
  LET e == AsSeen("Revoke", r) IN
  /\ e \notin seen_events
  /\ N3Register(e)
  /\ IF Registers(e) /\ N3Revocable(r)
     THEN /\ active_revoke' = {r}
          /\ lease_state' = State("Quiescing", r.gen)
          /\ scrub_state' = "Pending" /\ sent_drain_ack' = FALSE
          /\ UNCHANGED <<pending_grant, active_lease>>
     ELSE FailForEvent /\ UNCHANGED drainVars
  /\ UNCHANGED <<preflightVars, accepted_grant_acks, completed_revokes, memoryVars,
                 ioVars, now>>

\* The conditions under which drain sends its DRAIN_ACK ...
MayDrain ==
  /\ \E a \in active_lease : lease_state = State("Quiescing", a.gen)
  /\ \E r \in active_revoke : now < r.deadline
  /\ ~unknown_in_flight /\ in_flight = 0 /\ callbacks_pending = 0

\* ... or answers Blocked(ScrubPending), which changes nothing.
Drain ==
  /\ ~(MayDrain /\ scrub_state = "Pending")
  /\ IF MayDrain /\ scrub_state = "Succeeded"
     THEN /\ sent_drain_ack' = TRUE
          /\ lease_state' = State("Drained", lease_state.gen)
          /\ UNCHANGED <<pending_grant, active_lease, active_revoke>>
     ELSE /\ IF active_lease = {} THEN FailForEvent ELSE FailForActive
          /\ UNCHANGED sent_drain_ack
  /\ UNCHANGED <<preflightVars, logVars, memoryVars, ioVars, scrub_state, now>>

Completes(c) ==
  /\ \E a \in active_lease : lease_state = State("Drained", a.gen) /\ c.lease = a.lease
                             /\ c.gen = a.gen
  /\ \E r \in active_revoke : c.event = r.event

ConfirmRevoke(c) ==
  /\ c \notin completed_revokes
  /\ IF Completes(c) /\ Cardinality(completed_revokes) < MaxEvents
     THEN /\ completed_revokes' = completed_revokes \cup {c}
          /\ lease_state' = State("Revoked", 0)
          /\ UNCHANGED <<pending_grant, active_lease, active_revoke>>
     ELSE /\ IF active_lease # {} /\ (active_revoke = {} \/ Completes(c))
             THEN FailForActive ELSE FailForEvent
          /\ UNCHANGED completed_revokes
  /\ UNCHANGED <<preflightVars, seen_events, accepted_grant_acks, memoryVars, ioVars,
                 drainVars, now>>

(***************************************************************************)
(* The guest's own calls.                                                  *)
(***************************************************************************)
IoChanges == UNCHANGED <<preflightVars, n3LeaseVars, logVars, memoryVars, drainVars, now>>

BeginIo ==
  /\ \E a \in active_lease : lease_state = State("Granted", a.gen)
  /\ IF in_flight >= MaxInFlight
     THEN unknown_in_flight' = TRUE /\ UNCHANGED in_flight
     ELSE in_flight' = in_flight + 1 /\ UNCHANGED unknown_in_flight
  /\ UNCHANGED <<callbacks_pending, dirty>>
  /\ IoChanges

CompleteIo ==
  /\ IF in_flight = 0
     THEN unknown_in_flight' = TRUE /\ UNCHANGED <<in_flight, dirty>>
     ELSE in_flight' = in_flight - 1 /\ dirty' = TRUE /\ UNCHANGED unknown_in_flight
  /\ UNCHANGED callbacks_pending
  /\ IoChanges

\* A count over the limit is not taken over but makes the counters unknown.
SetInFlight(count) ==
  /\ CarefulScrub => lease_state.tag = "Granted"
  /\ IF count > MaxInFlight
     THEN unknown_in_flight' = TRUE /\ UNCHANGED in_flight
     ELSE in_flight' = count /\ UNCHANGED unknown_in_flight
  /\ UNCHANGED <<callbacks_pending, dirty>>
  /\ IoChanges

SetCallbacksPending(count) ==
  /\ CarefulScrub => lease_state.tag = "Granted" \/ count < callbacks_pending
  /\ IF count > MaxInFlight
     THEN unknown_in_flight' = TRUE /\ UNCHANGED callbacks_pending
     ELSE callbacks_pending' = count /\ UNCHANGED unknown_in_flight
  /\ UNCHANGED <<in_flight, dirty>>
  /\ IoChanges

MarkUnknownInFlight ==
  /\ unknown_in_flight' = TRUE
  /\ UNCHANGED <<in_flight, callbacks_pending, dirty>>
  /\ IoChanges

ScrubGuestData(result) ==
  /\ CarefulScrub => in_flight = 0 /\ lease_state.tag \in Ending
  /\ scrub_state' = result
  /\ dirty' = IF result = "Succeeded" THEN FALSE ELSE dirty
  /\ IF result = "Failed" THEN FailForActive ELSE UNCHANGED n3LeaseVars
  /\ UNCHANGED <<preflightVars, logVars, memoryVars, in_flight, callbacks_pending,
                 unknown_in_flight, sent_drain_ack, now>>

CompleteCleanup ==
  /\ active_lease # {} => scrub_state = "Succeeded"
  /\ lease_state.tag \in {"Revoked", "Failed"}
  /\ DropLease
  /\ UNCHANGED <<preflightVars, logVars, memoryVars, now>>

(***************************************************************************)
(* Lifecycle events, restart in the process and restart of the process.    *)
(***************************************************************************)
FailClosed ==
  /\ FailForActive
  /\ UNCHANGED <<preflightVars, logVars, memoryVars, ioVars, drainVars, now>>

ClearEvidence ==
  /\ preflight_state' = "HostUnavailable" /\ last_observation' = {}
  /\ seen_events' = {} /\ accepted_grant_acks' = {} /\ completed_revokes' = {}

Restart ==
  /\ DropLease
  /\ ClearEvidence
  /\ UNCHANGED <<memoryVars, now>>

\* RestartRecord::validate; the checkpoints are in the order of their bytes.
RecordValid(r) ==
  /\ r.schema = Schema /\ r.authority = "Host"
  /\ r.epoch # 0 /\ Len(r.checkpoints) <= MaxHistory
  /\ \A i \in DOMAIN r.checkpoints : r.checkpoints[i].gen # 0
  /\ \A i, j \in DOMAIN r.checkpoints : i < j => r.checkpoints[i].lease < r.checkpoints[j].lease

Checkpoint(r, l) ==
  LET found == {i \in DOMAIN r.checkpoints : r.checkpoints[i].lease = l}
  IN  IF found = {} THEN 0 ELSE r.checkpoints[CHOOSE i \in found : TRUE].gen

\* The host's record knows every generation the guest ever acknowledged.
Current(r) == \A p \in negotiated : Checkpoint(r, p[1]) >= p[2]

\* A new process builds a new machine and restores it first of all.
ProcessRestarts(r) ==
  /\ RecordValid(r) => Current(r)
  /\ pending_grant' = {} /\ active_lease' = {} /\ active_revoke' = {}
  /\ in_flight' = 0 /\ callbacks_pending' = 0 /\ unknown_in_flight' = FALSE
  /\ scrub_state' = "Pending" /\ sent_drain_ack' = FALSE /\ dirty' = FALSE
  /\ ClearEvidence
  /\ IF RecordValid(r)
     THEN /\ lease_state' = Absent
          /\ generation_history' = [l \in Leases |-> Checkpoint(r, l)]
          /\ restored_restart_epoch' = r.epoch
          /\ UNCHANGED forgot
     ELSE /\ lease_state' = Failed
          /\ generation_history' = [l \in Leases |-> 0]
          /\ restored_restart_epoch' = 0
          /\ forgot' = TRUE
  /\ UNCHANGED <<negotiated, now>>

\* restore_restart_record on a machine that is no longer fresh.
Fresh ==
  /\ lease_state = Absent /\ pending_grant = {} /\ active_lease = {}
  /\ seen_events = {} /\ accepted_grant_acks = {} /\ completed_revokes = {}
  /\ \A l \in Leases : generation_history[l] = 0
  /\ restored_restart_epoch = 0 /\ last_observation = {}

RestoreTooLate ==
  /\ ~Fresh
  /\ pending_grant' = {} /\ active_lease' = {} /\ active_revoke' = {}
  /\ lease_state' = Failed
  /\ UNCHANGED <<preflightVars, logVars, memoryVars, ioVars, drainVars, now>>

N3Tick ==
  /\ now < MaxNow
  /\ now' = now + 1
  /\ UNCHANGED <<preflightVars, n3LeaseVars, logVars, memoryVars, ioVars, drainVars>>

N3Next ==
  \/ \E o \in Observations : Observe(o)
  \/ RequestDemotion \/ RefuseClaim
  \/ \E g \in Grants : ReceiveGrant(g) \/ AcceptGrantAck(Identity(g))
  \/ \E r \in Revokes : ReceiveRevoke(r) \/ ConfirmRevoke(Identity(r))
  \/ Drain \/ BeginIo \/ CompleteIo \/ MarkUnknownInFlight
  \/ \E count \in 0..(MaxInFlight + 1) : SetInFlight(count) \/ SetCallbacksPending(count)
  \/ \E s \in {"Pending", "Succeeded", "Failed"} : ScrubGuestData(s)
  \/ CompleteCleanup \/ FailClosed \/ Restart \/ RestoreTooLate
  \/ \E r \in RestartRecords : ProcessRestarts(r)
  \/ N3Tick

N3Spec == N3Init /\ [][N3Next]_n3Vars

(***************************************************************************)
(* Properties.                                                             *)
(***************************************************************************)
\* The state's tag and the two lease fields tell the same story: a lease is
\* pending exactly for the generation under negotiation, held for the one that is
\* granted, quiescing or drained, a revoke is known once the drain began, and
\* Absent holds nothing (n3_state.rs, LeaseMachine, written by eleven methods).
LeaseStateConsistent ==
  LET tag == lease_state.tag IN
  /\ tag = "Absent" => pending_grant = {} /\ active_lease = {}
  /\ tag = "Negotiating" =>
       active_lease = {} /\ \E g \in Grants : pending_grant = {g} /\ lease_state.gen = g.gen
  /\ tag \in {"Granted", "Quiescing", "Drained"} =>
       pending_grant = {} /\ \E g \in Grants : active_lease = {g} /\ lease_state.gen = g.gen
  /\ tag \in {"Quiescing", "Drained", "Revoked"} => active_revoke # {}
  /\ active_lease = {} \/ pending_grant = {}

\* A GRANT is acknowledged at most once per lease and generation, however often and
\* however late it is delivered, across restart() and across processes that restore
\* the host's current record; only a refused record loses the memory.
GenerationNeverReused ==
  [][\A g \in pending_grant' \ pending_grant :
        forgot \/ <<g.lease, g.gen>> \notin negotiated]_n3Vars

\* A failed lease is never revived: whatever arrives, the machine leaves Failed only
\* for Absent, and then it holds neither a pending nor an active lease.
FailedIsFinal ==
  [][lease_state.tag = "Failed" =>
       \/ lease_state'.tag = "Failed"
       \/ lease_state' = Absent /\ pending_grant' = {} /\ active_lease' = {}]_n3Vars

NoAuthority == preflight_state \in {"Refused", "HostUnavailable"}

\* Once host authority was refused or lost, only an observation of a newer epoch, or a
\* machine without an observation, regains it: repeating the old one does not.
AuthorityNeedsNewEpoch ==
  [][NoAuthority /\ ~NoAuthority' =>
       (\A o \in last_observation' : \A p \in last_observation : o.epoch > p.epoch)]_n3Vars

\* A DRAIN_ACK, and the cleanup of a lease, never leave behind data of an I/O that
\* completed after the scrub, given a guest that scrubs only when its I/O is over.
LeaseEndsClean ==
  [][dirty => /\ lease_state'.tag # "Drained"
              /\ ~(active_lease # {} /\ CompleteCleanup)]_n3Vars

\* A scrub that is reported done is current: with a guest that scrubs only when its I/O
\* is over, it belongs to a lease that is ending, and nothing was written since; so does
\* a DRAIN_ACK, whatever scrub is reported after it.
ScrubIsCurrent ==
  CarefulScrub =>
    /\ scrub_state # "Pending" => lease_state.tag \in Ending
    /\ scrub_state = "Succeeded" \/ lease_state.tag = "Drained" => in_flight = 0 /\ ~dirty

\* The machine agrees with itself.
N3Safe == N3TypeOK /\ LeaseStateConsistent /\ ScrubIsCurrent

\* What no message, restart or fault makes it do.
N3Steps == GenerationNeverReused /\ FailedIsFinal /\ AuthorityNeedsNewEpoch /\ LeaseEndsClean
=============================================================================
