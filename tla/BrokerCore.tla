------------------------------ MODULE BrokerCore ------------------------------
(***************************************************************************)
(* BrokerCore: the single-threaded owner of the slice map, the lease book  *)
(* and the tenant table (crates/ramshared-wsl2d/src/broker_srv.rs, with    *)
(* slices.rs and lease.rs of crates/ramshared-broker/src).  One action per *)
(* event the core handles; what it sends is left in out, which the I/O     *)
(* layer delivers (BrokerSystem).                                          *)
(*                                                                         *)
(* The arbiter is left open here: Tick may take any of the decisions that  *)
(* Arbiter, which has its pressure and cooldown rules, can take.           *)
(***************************************************************************)
EXTENDS Integers, FiniteSets

CONSTANTS Slices,        \* slice ids
          Tenants,       \* tenants, by stable name
          SwapTenants,   \* those with an NBD transport; the others only lease
          NoTenant,
          LeaseTtl,      \* ticks a lease lives without a heartbeat of its holder
          MaxLeaseId,    \* the last id of the counter (2^32 - 1)
          ZeroGrace,     \* ZERO_RETRY_GRACE
          ZeroError      \* ZERO_RETRY_ERROR; the retry count is kept up to it

ASSUME BrokerAssumption ==
    /\ Slices \subseteq Nat /\ IsFiniteSet(Slices)
    /\ SwapTenants \subseteq Tenants /\ NoTenant \notin Tenants
    /\ {LeaseTtl, MaxLeaseId, ZeroGrace, ZeroError} \subseteq Nat \ {0}

VARIABLES
    state, owner,      \* SliceMap: the state and the tenant of every slice
    dest,              \* pending_dest: where a draining slice goes next
    zeroTicks,         \* pending_zero: ticks without confirmation, or NotZeroing
    present,           \* tenants with a live session
    reconciled,        \* tenants whose first Psi has been seen
    lease,             \* LeaseBook: the pending request or the active lease
    nextId,            \* LeaseBook: the next lease id
    out                \* what the last handler sent

sliceVars == <<state, owner>>
tenantVars == <<present, reconciled>>
leaseVars == <<lease, nextId>>
coreVars == <<sliceVars, dest, zeroTicks, tenantVars, leaseVars>>

NotZeroing == -1
NoLease == [phase |-> "none", holder |-> NoTenant, size |-> 0, left |-> 0, id |-> 0]
PendingLease(t, n) == [phase |-> "pending", holder |-> t, size |-> n, left |-> 0, id |-> 0]
ActiveLease(t, n, id) == [phase |-> "active", holder |-> t, size |-> n, left |-> LeaseTtl, id |-> id]

ToTenant(t, kind, s) == [to |-> t, kind |-> kind, slice |-> s]
Zero(s) == [to |-> NoTenant, kind |-> "Zero", slice |-> s]

\* to_tenant drops a message for an absent tenant.
Sent(msgs) == {m \in msgs : m.to \in present}

InState(st, k) == {s \in Slices : st[s] = k}

-----------------------------------------------------------------------------
(* Sessions *)

\* on_register; a second session of a present tenant is refused and closed.
Register(t) ==
    /\ t \notin present
    /\ present' = present \cup {t}
    /\ reconciled' = reconciled \ {t}
    /\ out' = {ToTenant(t, "Registered", 0)}
    /\ UNCHANGED <<sliceVars, dest, zeroTicks, leaseVars>>

\* Mutant: the slices of a tenant that has gone are free at once.
DisconnectFrees(t) ==
    /\ t \in present
    /\ present' = present \ {t}
    /\ state' = [s \in Slices |-> IF owner[s] = t THEN "Free" ELSE state[s]]
    /\ owner' = [s \in Slices |-> IF owner[s] = t THEN NoTenant ELSE owner[s]]
    /\ lease' = IF lease.phase = "pending" /\ lease.holder = t THEN NoLease ELSE lease
    /\ out' = {}
    /\ UNCHANGED <<dest, zeroTicks, reconciled, nextId>>

\* on_disconnect: the slices are frozen, a request is cancelled, an active lease
\* stays until it expires.
Disconnect(t) ==
    /\ t \in present
    /\ present' = present \ {t}
    /\ lease' = IF lease.phase = "pending" /\ lease.holder = t THEN NoLease ELSE lease
    /\ out' = {}
    /\ UNCHANGED <<sliceVars, dest, zeroTicks, reconciled, nextId>>

\* Mutant: anybody's heartbeat renews the lease, and for its sender.
RenewedForAnyone(t) ==
    IF lease.phase = "active" THEN ActiveLease(t, lease.size, lease.id) ELSE lease

\* renew_active
Renewed(t) ==
    IF lease.phase = "active" /\ lease.holder = t THEN [lease EXCEPT !.left = LeaseTtl] ELSE lease

\* on_psi: the first report of a session re-adopts mounted slices that are free.
Psi(t, mounted) ==
    /\ t \in present
    /\ LET adopted == IF t \in reconciled THEN {} ELSE mounted \cap InState(state, "Free")
       IN /\ state' = [s \in Slices |-> IF s \in adopted THEN "Active" ELSE state[s]]
          /\ owner' = [s \in Slices |-> IF s \in adopted THEN t ELSE owner[s]]
    /\ reconciled' = reconciled \cup {t}
    /\ lease' = Renewed(t)
    /\ out' = {ToTenant(t, "Ack", 0)}
    /\ UNCHANGED <<dest, zeroTicks, present, nextId>>

-----------------------------------------------------------------------------
(* The slice protocol *)

\* SwapOnDone: a failed mount returns the slice without zeroing it.
SwapOnDone(s, ok) ==
    /\ LET returned == ~ok /\ state[s] = "Active"
       IN /\ state' = IF returned THEN [state EXCEPT ![s] = "Free"] ELSE state
          /\ owner' = IF returned THEN [owner EXCEPT ![s] = NoTenant] ELSE owner
    /\ dest' = IF ok THEN dest ELSE [dest EXCEPT ![s] = NoTenant]
    /\ out' = {}
    /\ UNCHANGED <<zeroTicks, tenantVars, leaseVars>>

\* Mutant: a failed swapoff makes the slice active again.
SwapOffDoneUndone(s, ok) ==
    /\ zeroTicks' = IF ok /\ zeroTicks[s] = NotZeroing THEN [zeroTicks EXCEPT ![s] = 0] ELSE zeroTicks
    /\ state' = IF ok \/ state[s] # "Draining" THEN state ELSE [state EXCEPT ![s] = "Active"]
    /\ out' = IF ok THEN {Zero(s)} ELSE {}
    /\ UNCHANGED <<owner, dest, tenantVars, leaseVars>>

\* SwapOffDone: the slice is zeroed before it is released; after a failed
\* swapoff it stays draining.
SwapOffDone(s, ok) ==
    /\ zeroTicks' = IF ok /\ zeroTicks[s] = NotZeroing THEN [zeroTicks EXCEPT ![s] = 0] ELSE zeroTicks
    /\ out' = IF ok THEN {Zero(s)} ELSE {}
    /\ UNCHANGED <<sliceVars, dest, tenantVars, leaseVars>>

\* Mutant: the destination is read and not removed.
ZeroDoneKeepsDest(s, ok) ==
    IF ~ok \/ state[s] # "Draining"
    THEN out' = {} /\ UNCHANGED coreVars
    ELSE /\ zeroTicks' = [zeroTicks EXCEPT ![s] = NotZeroing]
         /\ state' = [state EXCEPT ![s] = IF dest[s] = NoTenant THEN "Free" ELSE "Active"]
         /\ owner' = [owner EXCEPT ![s] = dest[s]]
         /\ out' = Sent({ToTenant(dest[s], "SwapOn", s)})
         /\ UNCHANGED <<dest, tenantVars, leaseVars>>

\* on_zero_done: a failed zero is asked for again; a confirmed one releases the
\* slice and, for a move in flight, gives it to its destination.
ZeroDone(s, ok) ==
    IF ~ok
    THEN out' = {Zero(s)} /\ UNCHANGED coreVars
    ELSE /\ zeroTicks' = [zeroTicks EXCEPT ![s] = NotZeroing]
         /\ IF state[s] # "Draining"
            THEN out' = {} /\ UNCHANGED <<sliceVars, dest>>
            ELSE /\ state' = [state EXCEPT ![s] = IF dest[s] = NoTenant THEN "Free" ELSE "Active"]
                 /\ owner' = [owner EXCEPT ![s] = dest[s]]
                 /\ dest' = [dest EXCEPT ![s] = NoTenant]
                 /\ out' = Sent({ToTenant(dest[s], "SwapOn", s)})
         /\ UNCHANGED <<tenantVars, leaseVars>>

\* on_demote
Demote ==
    /\ out' = {ToTenant(t, "DemoteAll", 0) : t \in present}
    /\ UNCHANGED coreVars

-----------------------------------------------------------------------------
(* Leases, in slices *)

\* begin_request: at most one lease is pending or active.
LeaseRequest(t, size) ==
    /\ t \in present
    /\ IF size = 0 \/ size > Cardinality(Slices) \/ lease.phase # "none"
       THEN out' = {ToTenant(t, "LeaseDenied", 0)} /\ UNCHANGED lease
       ELSE out' = {} /\ lease' = PendingLease(t, size)
    /\ UNCHANGED <<sliceVars, dest, zeroTicks, tenantVars, nextId>>

Unleased(st) == [s \in Slices |-> IF st[s] = "Leased" THEN "Free" ELSE st[s]]

\* on_lease_release: only the holder, and only with the id of the active lease;
\* the session of another tenant is closed.
LeaseRelease(t, id) ==
    /\ t \in present
    /\ IF lease.phase = "active" /\ lease.holder = t /\ lease.id = id
       THEN lease' = NoLease /\ state' = Unleased(state)
       ELSE UNCHANGED <<lease, state>>
    /\ out' = IF lease.phase = "active" /\ lease.holder # t THEN {ToTenant(t, "Close", 0)} ELSE {}
    /\ UNCHANGED <<owner, dest, zeroTicks, tenantVars, nextId>>

-----------------------------------------------------------------------------
(* The tick *)

\* LeaseBook.expire
Expires == lease.phase = "active" /\ lease.left <= 1

\* Slice map and lease as the arbiter finds them, after expiry.
Swept == IF Expires THEN Unleased(state) ELSE state

Aged ==
    IF Expires THEN NoLease
    ELSE IF lease.phase = "active" THEN [lease EXCEPT !.left = @ - 1] ELSE lease

\* The arbiter sees the slices nobody owns and those of present tenants.
Visible == {s \in Slices : owner[s] = NoTenant \/ owner[s] \in present}

\* Mutant: a lost zero is never asked for again.
NoRetriedZeroes == {}

\* retry_stuck_zeroing
RetriedZeroes == {s \in Slices : zeroTicks[s] # NotZeroing /\ zeroTicks[s] + 1 > ZeroGrace}

CountZeroTicks ==
    zeroTicks' = [s \in Slices |->
                    IF zeroTicks[s] \in {NotZeroing, ZeroError} THEN zeroTicks[s] ELSE zeroTicks[s] + 1]

RetryMsgs == {Zero(s) : s \in RetriedZeroes}

\* GrantLease of the given free slices; refused once the lease ids run out.
Grant(chosen) ==
    /\ IF nextId < MaxLeaseId
       THEN /\ state' = [s \in Slices |-> IF s \in chosen THEN "Leased" ELSE Swept[s]]
            /\ lease' = ActiveLease(lease.holder, lease.size, nextId)
            /\ nextId' = nextId + 1
            /\ out' = RetryMsgs \cup Sent({ToTenant(lease.holder, "LeaseGranted", nextId)})
       ELSE state' = Swept /\ out' = RetryMsgs /\ UNCHANGED leaseVars
    /\ UNCHANGED <<owner, dest>>

\* RevokeForLease of the given active slices.
Revoke(chosen) ==
    /\ state' = [s \in Slices |-> IF s \in chosen THEN "Draining" ELSE Swept[s]]
    /\ out' = RetryMsgs \cup Sent({ToTenant(owner[s], "SwapOff", s) : s \in chosen})
    /\ UNCHANGED <<owner, dest, leaseVars>>

\* What is missing for the pending request, once the free slices are counted.
Missing == lease.size - Cardinality(InState(Swept, "Free"))

\* The sets of active slices that may be revoked for it: as many as are missing.
Revocable ==
    LET held == InState(Swept, "Active") \cap Visible
    IN {chosen \in SUBSET held :
          IF Cardinality(held) <= Missing THEN chosen = held ELSE Cardinality(chosen) = Missing}

\* A pending request takes the first free slices when there are enough of them;
\* otherwise active slices are revoked.  Slices already draining are not counted.
ServeRequest(revocable) ==
    \/ /\ Missing <= 0
       /\ \E chosen \in SUBSET InState(Swept, "Free") :
             /\ Cardinality(chosen) = lease.size
             /\ \A s \in chosen, k \in InState(Swept, "Free") \ chosen : s < k
             /\ Grant(chosen)
    \/ Missing > 0 /\ \E chosen \in revocable : Revoke(chosen)

\* What a tick may move: an active slice, the tenant told to let it go and the one
\* that gets it.  The tenant told need not be the owner: a RevertMove names the
\* receiver of an earlier move, whatever has become of the slice since.
Moves == [slice : InState(Swept, "Active"), from : SwapTenants, to : SwapTenants \cap present]

Destination(moves, s) == (CHOOSE m \in moves : m.slice = s).to

\* Without a request: MoveSlice or RevertMove, at most one, then AssignFree of
\* every free slice to the tenant given[s], unless nobody can take one.
Rebalance(moves, given) ==
    LET drained == {m.slice : m \in moves}
        taken == DOMAIN given
    IN /\ state' = [s \in Slices |->
                      IF s \in drained THEN "Draining" ELSE IF s \in taken THEN "Active" ELSE Swept[s]]
       /\ owner' = [s \in Slices |-> IF s \in taken THEN given[s] ELSE owner[s]]
       /\ dest' = [s \in Slices |-> IF s \in drained THEN Destination(moves, s) ELSE dest[s]]
       /\ out' = RetryMsgs
                   \cup Sent({ToTenant(m.from, "SwapOff", m.slice) : m \in moves})
                   \cup {ToTenant(given[s], "SwapOn", s) : s \in taken}
       /\ lease' = Aged
       /\ UNCHANGED nextId

\* Who may be given the free slices: everyone present, when someone is.
Assignments ==
    LET receivers == SwapTenants \cap present
    IN [(IF receivers = {} THEN {} ELSE InState(Swept, "Free")) -> receivers]

\* on_tick, for any decision of the arbiter among the given moves.
Tick(moves) ==
    /\ CountZeroTicks
    /\ \/ lease.phase = "pending" /\ ServeRequest(Revocable)
       \/ /\ lease.phase # "pending"
          /\ \E move \in {{}} \cup {{m} : m \in moves}, given \in Assignments : Rebalance(move, given)
    /\ UNCHANGED tenantVars

-----------------------------------------------------------------------------
(* Any tenant may send anything at any time: the core trusts no agent to    *)
(* follow the protocol.                                                     *)

Init ==
    /\ state = [s \in Slices |-> "Free"]
    /\ owner = [s \in Slices |-> NoTenant]
    /\ dest = [s \in Slices |-> NoTenant]
    /\ zeroTicks = [s \in Slices |-> NotZeroing]
    /\ present = {} /\ reconciled = {}
    /\ lease = NoLease /\ nextId = 1
    /\ out = {}

TenantStep(t) ==
    \/ Register(t)
    \/ Disconnect(t)
    \/ \E mounted \in SUBSET Slices : Psi(t, mounted)
    \/ \E size \in 0..(Cardinality(Slices) + 1) : LeaseRequest(t, size)
    \/ \E id \in 0..MaxLeaseId : LeaseRelease(t, id)

SliceStep(s, ok) ==
    \/ SwapOnDone(s, ok)
    \/ SwapOffDone(s, ok)
    \/ ZeroDone(s, ok)

Next ==
    \/ \E t \in Tenants : TenantStep(t)
    \/ \E s \in Slices, ok \in BOOLEAN : SliceStep(s, ok)
    \/ Demote
    \/ Tick(Moves)

vars == <<coreVars, out>>

Spec == Init /\ [][Next]_vars

-----------------------------------------------------------------------------
(* Properties *)

LeaseType ==
    [phase : {"none", "pending", "active"}, holder : Tenants \cup {NoTenant},
     size : 0..Cardinality(Slices), left : 0..LeaseTtl, id : 0..MaxLeaseId]

\* Every variable keeps its type; the lease counter stays within its width and
\* the zero-retry counter within its cap.
TypeOK ==
    /\ state \in [Slices -> {"Free", "Active", "Draining", "Leased"}]
    /\ owner \in [Slices -> Tenants \cup {NoTenant}]
    /\ dest \in [Slices -> SwapTenants \cup {NoTenant}]
    /\ zeroTicks \in [Slices -> NotZeroing..ZeroError]
    /\ present \subseteq Tenants /\ reconciled \subseteq Tenants
    /\ lease \in LeaseType /\ nextId \in 1..MaxLeaseId

\* Whatever the agents send, the slice map, pending_dest and the tenants agree: a
\* slice has a tenant exactly while it is active or draining, and a destination
\* only while it is draining, so a destination left behind by an earlier move can
\* never be applied to a later zero of the same slice.
SlicesConsistent ==
    \A s \in Slices :
        /\ (owner[s] = NoTenant) <=> (state[s] \in {"Free", "Leased"})
        /\ dest[s] # NoTenant => state[s] = "Draining"

\* The lease book and the slice map agree: slices are leased exactly while a
\* lease is active, as many as it asked for.  This is what makes the
\* LeaseConflict path of the arbiter dead and the unlease-all of a release and of
\* an expiry give back that lease's slices and no other's.
LeaseBacked ==
    Cardinality(InState(state, "Leased")) = IF lease.phase = "active" THEN lease.size ELSE 0

\* A request never outlives the session of its tenant, and an active lease has a
\* holder that can still release it.
LeaseHeld ==
    /\ lease.phase = "pending" => lease.holder \in present
    /\ lease.phase # "none" => lease.holder \in Tenants /\ lease.size > 0

\* While a lease is active its slices are its own: no step of any tenant, no zero
\* and no tick takes one away, adds one, or gives the lease to somebody else.
LeaseKeepsItsSlices ==
    [][lease.phase = "active" /\ lease'.phase = "active"
         => /\ InState(state', "Leased") = InState(state, "Leased")
            /\ lease'.holder = lease.holder /\ lease'.id = lease.id]_vars

\* An active slice never passes from one tenant to another in one step: it is
\* drained and zeroed, or returned by a failed mount, in between.
NoDirectHandover ==
    [][\A s \in Slices :
         state[s] \in {"Active", "Draining"} /\ state'[s] \in {"Active", "Draining"} /\ owner'[s] # owner[s]
            => state[s] = "Draining" /\ zeroTicks'[s] = NotZeroing]_vars

\* The agreement of slice map, tenants and lease book, whatever arrives.
BrokerSafe == TypeOK /\ SlicesConsistent /\ LeaseBacked /\ LeaseHeld

\* What no single message or tick does to a lease or to an active slice.
BrokerSteps == LeaseKeepsItsSlices /\ NoDirectHandover
=============================================================================
