--------------------------- MODULE BrokerCoreProofs ---------------------------
(***************************************************************************)
(* Proofs about BrokerCore, for any number of slices, tenants and leases   *)
(* and for every message any tenant may send.  The inductive invariant is  *)
(* the conjunction of TypeOK, SlicesConsistent, LeaseBacked and LeaseHeld: *)
(* that a grant finds no leased slice left (LeaseBacked) is what makes its *)
(* own slices the only leased ones, and that a slice with a destination is *)
(* draining (SlicesConsistent) is what makes ZeroDone keep the owner map   *)
(* in step with the states.                                                *)
(***************************************************************************)
EXTENDS BrokerCore, FiniteSetTheorems, TLAPS

\* The states a slice can be in.
SliceStates == {"Free", "Active", "Draining", "Leased"}

\* The slices in a state are finitely many, at most all of them.
LEMMA InStateFinite ==
    ASSUME NEW st, NEW k
    PROVE  /\ InState(st, k) \subseteq Slices
           /\ IsFiniteSet(InState(st, k))
           /\ Cardinality(InState(st, k)) \in Nat
           /\ Cardinality(InState(st, k)) <= Cardinality(Slices)
           /\ Cardinality(Slices) \in Nat
  <1>1. IsFiniteSet(Slices) BY BrokerAssumption
  <1>2. InState(st, k) \subseteq Slices BY DEF InState
  <1>3. IsFiniteSet(InState(st, k)) /\ Cardinality(InState(st, k)) <= Cardinality(Slices)
    BY <1>1, <1>2, FS_Subset
  <1> QED BY <1>1, <1>2, <1>3, FS_CardinalityType

\* unlease of every leased slice leaves none, and the other slices as they were.
LEMMA UnleasedType ==
    ASSUME NEW st \in [Slices -> SliceStates]
    PROVE  /\ Unleased(st) \in [Slices -> SliceStates]
           /\ InState(Unleased(st), "Leased") = {}
           /\ InState(Unleased(st), "Active") = InState(st, "Active")
           /\ \A s \in Slices : (st[s] \in {"Free", "Leased"}) <=> (Unleased(st)[s] \in {"Free", "Leased"})
           /\ \A s \in Slices : st[s] = "Draining" => Unleased(st)[s] = "Draining"
  BY DEF Unleased, InState, SliceStates

\* What the arbiter finds after expiry: no leased slice exactly when no lease is
\* active any more, and no change otherwise.
LEMMA SweptFacts ==
    ASSUME TypeOK, SlicesConsistent
    PROVE  /\ Swept \in [Slices -> SliceStates]
           /\ \A s \in Slices : (owner[s] = NoTenant) <=> (Swept[s] \in {"Free", "Leased"})
           /\ \A s \in Slices : state[s] = "Draining" => Swept[s] = "Draining"
           /\ Expires => InState(Swept, "Leased") = {}
           /\ ~Expires => Swept = state
           /\ InState(Swept, "Active") = InState(state, "Active")
           /\ Aged \in LeaseType
           /\ Aged.phase = IF Expires THEN "none" ELSE lease.phase
           /\ ~Expires => Aged.size = lease.size /\ Aged.holder = lease.holder /\ Aged.id = lease.id
  <1>1. state \in [Slices -> SliceStates] BY DEF TypeOK, SliceStates
  <1>2. NoLease \in LeaseType
    BY BrokerAssumption, InStateFinite DEF NoLease, LeaseType
  <1>3. lease.phase = "active" /\ ~Expires => [lease EXCEPT !.left = @ - 1] \in LeaseType
    BY BrokerAssumption DEF TypeOK, LeaseType, Expires
  <1>4. Aged \in LeaseType BY <1>2, <1>3 DEF Aged, TypeOK
  <1>5. Aged.phase = IF Expires THEN "none" ELSE lease.phase
    BY DEF Aged, NoLease, TypeOK, LeaseType, Expires
  <1>6. ~Expires => Aged.size = lease.size /\ Aged.holder = lease.holder /\ Aged.id = lease.id
    BY DEF Aged, TypeOK, LeaseType
  <1>7. CASE Expires
    <2>1. Swept = Unleased(state) BY <1>7 DEF Swept
    <2> QED BY <1>1, <1>4, <1>5, <1>6, <1>7, <2>1, UnleasedType DEF SlicesConsistent
  <1>8. CASE ~Expires
    <2>1. Swept = state BY <1>8 DEF Swept
    <2> QED BY <1>1, <1>4, <1>5, <1>6, <1>8, <2>1 DEF SlicesConsistent
  <1> QED BY <1>7, <1>8

\* Every step keeps the types.
LEMMA TypeStep ==
    BrokerSafe /\ [Next]_vars => TypeOK'
  <1> SUFFICES ASSUME BrokerSafe, [Next]_vars PROVE TypeOK'
    OBVIOUS
  <1> USE BrokerAssumption DEF BrokerSafe
  <1>a. Cardinality(Slices) \in Nat BY InStateFinite
  <1>b. NoLease \in LeaseType BY <1>a DEF NoLease, LeaseType
  <1>1. ASSUME NEW t \in Tenants, Register(t) PROVE TypeOK'
    BY <1>1 DEF Register, TypeOK, LeaseType, sliceVars, leaseVars
  <1>2. ASSUME NEW t \in Tenants, Disconnect(t) PROVE TypeOK'
    BY <1>2, <1>b DEF Disconnect, TypeOK, sliceVars
  <1>3. ASSUME NEW t \in Tenants, NEW mounted \in SUBSET Slices, Psi(t, mounted) PROVE TypeOK'
    <2>1. lease' \in LeaseType BY <1>3, SMT DEF Psi, Renewed, TypeOK, LeaseType
    <2>2. state' \in [Slices -> {"Free", "Active", "Draining", "Leased"}] BY <1>3 DEF Psi, TypeOK
    <2>3. owner' \in [Slices -> Tenants \cup {NoTenant}] BY <1>3 DEF Psi, TypeOK
    <2> QED BY <1>3, <2>1, <2>2, <2>3 DEF Psi, TypeOK
  <1>4. ASSUME NEW s \in Slices, NEW ok \in BOOLEAN, SwapOnDone(s, ok) PROVE TypeOK'
    BY <1>4 DEF SwapOnDone, TypeOK, tenantVars, leaseVars
  <1>5. ASSUME NEW s \in Slices, NEW ok \in BOOLEAN, SwapOffDone(s, ok) PROVE TypeOK'
    BY <1>5 DEF SwapOffDone, TypeOK, sliceVars, tenantVars, leaseVars, NotZeroing
  <1>6. ASSUME NEW s \in Slices, NEW ok \in BOOLEAN, ZeroDone(s, ok) PROVE TypeOK'
    <2>1. CASE ~ok
      BY <1>6, <2>1 DEF ZeroDone, TypeOK, coreVars, sliceVars, tenantVars, leaseVars
    <2>2. CASE ok
      <3>1. zeroTicks' \in [Slices -> NotZeroing..ZeroError] BY <1>6, <2>2 DEF ZeroDone, TypeOK, NotZeroing
      <3>2. /\ state' \in [Slices -> {"Free", "Active", "Draining", "Leased"}]
            /\ owner' \in [Slices -> Tenants \cup {NoTenant}]
            /\ dest' \in [Slices -> SwapTenants \cup {NoTenant}]
        BY <1>6, <2>2 DEF ZeroDone, TypeOK, sliceVars
      <3> QED BY <1>6, <2>2, <3>1, <3>2 DEF ZeroDone, TypeOK, tenantVars, leaseVars
    <2> QED BY <2>1, <2>2
  <1>7. ASSUME Demote PROVE TypeOK'
    BY <1>7 DEF Demote, TypeOK, coreVars, sliceVars, tenantVars, leaseVars
  <1>8. ASSUME NEW t \in Tenants, NEW size \in 0..(Cardinality(Slices) + 1), LeaseRequest(t, size) PROVE TypeOK'
    <2>1. lease' \in LeaseType
      BY <1>8, <1>a DEF LeaseRequest, TypeOK, LeaseType, PendingLease
    <2> QED BY <1>8, <2>1 DEF LeaseRequest, TypeOK, sliceVars, tenantVars
  <1>9. ASSUME NEW t \in Tenants, NEW id \in 0..MaxLeaseId, LeaseRelease(t, id) PROVE TypeOK'
    BY <1>9, <1>b DEF LeaseRelease, TypeOK, Unleased, tenantVars
  <1>10. ASSUME Tick(Moves) PROVE TypeOK'
    <2>1. zeroTicks' \in [Slices -> NotZeroing..ZeroError]
      BY <1>10 DEF Tick, CountZeroTicks, TypeOK, NotZeroing
    <2>2. UNCHANGED tenantVars BY <1>10 DEF Tick
    <2>3. /\ Swept \in [Slices -> SliceStates] /\ Aged \in LeaseType
          /\ InState(Swept, "Active") = InState(state, "Active")
      BY SweptFacts
    <2>4. ASSUME NEW chosen \in SUBSET Slices, lease.phase = "pending", Grant(chosen) PROVE TypeOK'
      <3>1. CASE nextId < MaxLeaseId
        <4>1. lease' = ActiveLease(lease.holder, lease.size, nextId)
          BY <2>4, <3>1 DEF Grant
        <4>2. lease' \in LeaseType BY <4>1, <3>1 DEF TypeOK, LeaseType, ActiveLease
        <4>3. nextId' \in 1..MaxLeaseId BY <2>4, <3>1 DEF Grant, TypeOK
        <4>4. state' \in [Slices -> SliceStates] BY <2>3, <2>4, <3>1 DEF Grant, SliceStates
        <4> QED BY <2>1, <2>2, <2>4, <4>2, <4>3, <4>4 DEF Grant, TypeOK, tenantVars, SliceStates
      <3>2. CASE ~(nextId < MaxLeaseId)
        BY <2>1, <2>2, <2>3, <2>4, <3>2 DEF Grant, TypeOK, tenantVars, leaseVars, SliceStates
      <3> QED BY <3>1, <3>2
    <2>5. ASSUME NEW chosen \in SUBSET Slices, Revoke(chosen) PROVE TypeOK'
      BY <2>1, <2>2, <2>3, <2>5, Zenon DEF Revoke, TypeOK, tenantVars, leaseVars, SliceStates
    <2>6. ASSUME NEW move, move = {} \/ \E m \in Moves : move = {m}, NEW given \in Assignments,
                 Rebalance(move, given)
          PROVE  TypeOK'
      <3>1. \A s \in {m.slice : m \in move} : Destination(move, s) \in SwapTenants
        BY <2>6 DEF Moves, Destination
      <3>2. dest' \in [Slices -> SwapTenants \cup {NoTenant}]
        BY <2>6, <3>1 DEF Rebalance, TypeOK
      <3>3. \A s \in DOMAIN given : given[s] \in Tenants BY <2>6 DEF Assignments
      <3>4. owner' \in [Slices -> Tenants \cup {NoTenant}] BY <2>6, <3>3 DEF Rebalance, TypeOK
      <3>5. state' \in [Slices -> SliceStates] BY <2>3, <2>6 DEF Rebalance, SliceStates
      <3> QED BY <2>1, <2>2, <2>3, <2>6, <3>2, <3>4, <3>5, Zenon DEF Rebalance, TypeOK, tenantVars, SliceStates
    <2>7. CASE lease.phase = "pending" /\ ServeRequest(Revocable)
      <3>1. CASE \E chosen \in SUBSET InState(Swept, "Free") : Grant(chosen)
        BY <2>4, <2>7, <3>1, InStateFinite
      <3>2. CASE \E chosen \in Revocable : Revoke(chosen)
        BY <2>5, <3>2, InStateFinite DEF Revocable
      <3> QED BY <2>7, <3>1, <3>2 DEF ServeRequest
    <2>8. CASE lease.phase # "pending"
      BY <1>10, <2>6, <2>8 DEF Tick
    <2> QED BY <1>10, <2>7, <2>8 DEF Tick
  <1>11. CASE UNCHANGED vars
    BY <1>11 DEF vars, coreVars, TypeOK, sliceVars, tenantVars, leaseVars
  <1> QED
    BY <1>1, <1>2, <1>3, <1>4, <1>5, <1>6, <1>7, <1>8, <1>9, <1>10, <1>11 DEF Next, TenantStep, SliceStep

\* What a tick does to the slice map, the lease and the destinations, whichever
\* way it goes: the four invariants and both action properties follow from this.
TickShape ==
    \/ /\ lease.phase = "pending"
       /\ \E chosen \in SUBSET InState(state, "Free") :
             Cardinality(chosen) = lease.size /\ Grant(chosen)
    \/ /\ lease.phase = "pending"
       /\ \E chosen \in SUBSET InState(state, "Active") : Revoke(chosen)
    \/ /\ lease.phase # "pending"
       /\ \E move \in SUBSET Moves : \E given :
             /\ DOMAIN given \subseteq InState(Swept, "Free")
             /\ \A s \in DOMAIN given : given[s] \in Tenants
             /\ Rebalance(move, given)

\* A tick answers the pending lease request, or else rebalances.
LEMMA TickCases ==
    ASSUME TypeOK, SlicesConsistent, Tick(Moves)
    PROVE  TickShape
  <1>1. CASE lease.phase = "pending"
    <2>1. Swept = state BY <1>1, SweptFacts DEF Expires
    <2>2. ServeRequest(Revocable) BY <1>1 DEF Tick
    <2>3. CASE \E chosen \in SUBSET InState(Swept, "Free") :
                 Cardinality(chosen) = lease.size /\ Grant(chosen)
      BY <1>1, <2>1, <2>3 DEF TickShape
    <2>4. CASE \E chosen \in Revocable : Revoke(chosen)
      BY <1>1, <2>1, <2>4 DEF TickShape, Revocable
    <2> QED BY <2>2, <2>3, <2>4 DEF ServeRequest
  <1>2. CASE lease.phase # "pending"
    <2>1. PICK move \in {{}} \cup {{m} : m \in Moves}, given \in Assignments : Rebalance(move, given)
      BY <1>2 DEF Tick
    <2>2. move \in SUBSET Moves OBVIOUS
    <2>3. DOMAIN given \subseteq InState(Swept, "Free") /\ \A s \in DOMAIN given : given[s] \in Tenants
      BY BrokerAssumption DEF Assignments
    <2> QED BY <1>2, <2>1, <2>2, <2>3 DEF TickShape
  <1> QED BY <1>1, <1>2

\* Every step keeps owners, destinations and slice states in agreement.
LEMMA SlicesStep ==
    BrokerSafe /\ [Next]_vars => SlicesConsistent'
  <1> SUFFICES ASSUME BrokerSafe, [Next]_vars PROVE SlicesConsistent'
    OBVIOUS
  <1> USE BrokerAssumption DEF BrokerSafe
  <1>1. ASSUME UNCHANGED <<sliceVars, dest>> PROVE SlicesConsistent'
    BY <1>1 DEF SlicesConsistent, sliceVars
  <1>2. ASSUME NEW t \in Tenants, NEW mounted \in SUBSET Slices, Psi(t, mounted) PROVE SlicesConsistent'
    BY <1>2 DEF Psi, SlicesConsistent, InState, TypeOK
  <1>3. ASSUME NEW s \in Slices, NEW ok \in BOOLEAN, SwapOnDone(s, ok) PROVE SlicesConsistent'
    BY <1>3 DEF SwapOnDone, SlicesConsistent, TypeOK
  <1>4. ASSUME NEW s \in Slices, NEW ok \in BOOLEAN, ZeroDone(s, ok) PROVE SlicesConsistent'
    BY <1>4, <1>1 DEF ZeroDone, SlicesConsistent, TypeOK, coreVars
  <1>5. ASSUME NEW t \in Tenants, NEW id \in 0..MaxLeaseId, LeaseRelease(t, id) PROVE SlicesConsistent'
    BY <1>5 DEF LeaseRelease, SlicesConsistent, Unleased, TypeOK
  <1>6. ASSUME Tick(Moves) PROVE SlicesConsistent'
    <2>1. TickShape BY <1>6, TickCases
    <2>2. ASSUME lease.phase = "pending", NEW chosen \in SUBSET InState(state, "Free"), Grant(chosen)
          PROVE  SlicesConsistent'
      <3>1. Swept = state BY <2>2, SweptFacts DEF Expires
      <3> QED BY <2>2, <3>1 DEF Grant, SlicesConsistent, InState, TypeOK
    <2>3. ASSUME lease.phase = "pending", NEW chosen \in SUBSET InState(state, "Active"), Revoke(chosen)
          PROVE  SlicesConsistent'
      <3>1. Swept = state BY <2>3, SweptFacts DEF Expires
      <3> QED BY <2>3, <3>1 DEF Revoke, SlicesConsistent, InState, TypeOK
    <2>4. ASSUME NEW move \in SUBSET Moves, NEW given, DOMAIN given \subseteq InState(Swept, "Free"),
                 \A s \in DOMAIN given : given[s] \in Tenants, Rebalance(move, given)
          PROVE  SlicesConsistent'
      <3>1. /\ Swept \in [Slices -> SliceStates]
            /\ \A s \in Slices : (owner[s] = NoTenant) <=> (Swept[s] \in {"Free", "Leased"})
            /\ \A s \in Slices : state[s] = "Draining" => Swept[s] = "Draining"
        BY SweptFacts
      <3>2. \A m \in move : m.slice \in Slices /\ Swept[m.slice] = "Active"
        BY DEF Moves, InState
      <3>3. \A s \in DOMAIN given : s \in Slices /\ Swept[s] = "Free" BY <2>4, Zenon DEF InState
      <3>4. ASSUME NEW s \in Slices PROVE (owner'[s] = NoTenant) <=> (state'[s] \in {"Free", "Leased"})
        BY <2>4, <3>1, <3>2, <3>3 DEF Rebalance, TypeOK, SliceStates
      <3>5. ASSUME NEW s \in Slices, dest'[s] # NoTenant PROVE state'[s] = "Draining"
        <4>1. CASE s \in {m.slice : m \in move} BY <2>4, <4>1 DEF Rebalance
        <4>2. CASE s \notin {m.slice : m \in move}
          <5>1. dest'[s] = dest[s] BY <2>4, <4>2 DEF Rebalance
          <5>2. Swept[s] = "Draining" BY <3>1, <3>5, <5>1 DEF SlicesConsistent
          <5> QED BY <2>4, <3>3, <4>2, <5>2 DEF Rebalance
        <4> QED BY <4>1, <4>2
      <3> QED BY <3>4, <3>5 DEF SlicesConsistent
    <2> QED BY <2>1, <2>2, <2>3, <2>4 DEF TickShape
  <1>7. ASSUME NEW t \in Tenants, NEW size, LeaseRequest(t, size) PROVE SlicesConsistent'
    BY <1>7, <1>1 DEF LeaseRequest
  <1>8. ASSUME NEW t \in Tenants, Register(t) \/ Disconnect(t) PROVE SlicesConsistent'
    BY <1>8, <1>1 DEF Register, Disconnect
  <1>9. ASSUME NEW s \in Slices, NEW ok, SwapOffDone(s, ok) PROVE SlicesConsistent'
    BY <1>9, <1>1 DEF SwapOffDone
  <1>10. CASE Demote \/ UNCHANGED vars
    BY <1>10, <1>1 DEF Demote, vars, coreVars
  <1> QED
    BY <1>2, <1>3, <1>4, <1>5, <1>6, <1>7, <1>8, <1>9, <1>10 DEF Next, TenantStep, SliceStep

\* What a tick does to the leased slices: a grant on which none was left makes the
\* chosen ones leased; nothing else but an expiry touches them.
LEMMA TickLease ==
    ASSUME BrokerSafe, Tick(Moves)
    PROVE  \/ /\ lease.phase = "pending"
              /\ lease' = ActiveLease(lease.holder, lease.size, nextId)
              /\ Cardinality(InState(state', "Leased")) = lease.size
           \/ /\ lease.phase = "pending" /\ lease' = lease
              /\ InState(state', "Leased") = InState(state, "Leased")
           \/ /\ lease.phase # "pending" /\ lease' = Aged
              /\ InState(state', "Leased") = InState(Swept, "Leased")
  <1> USE BrokerAssumption DEF BrokerSafe
  <1>1. TickShape BY TickCases, Zenon
  <1>2. ASSUME lease.phase = "pending", NEW chosen \in SUBSET InState(state, "Free"),
               Cardinality(chosen) = lease.size, Grant(chosen)
        PROVE  \/ /\ lease' = ActiveLease(lease.holder, lease.size, nextId)
                  /\ Cardinality(InState(state', "Leased")) = lease.size
               \/ /\ lease' = lease
                  /\ InState(state', "Leased") = InState(state, "Leased")
    <2>1. Swept = state BY <1>2, SweptFacts DEF Expires
    <2>2. CASE nextId < MaxLeaseId
      <3>1. InState(state, "Leased") = {}
        BY <1>2, InStateFinite, FS_EmptySet DEF LeaseBacked
      <3>2. /\ state' = [s \in Slices |-> IF s \in chosen THEN "Leased" ELSE state[s]]
            /\ lease' = ActiveLease(lease.holder, lease.size, nextId)
        BY <1>2, <2>1, <2>2 DEF Grant
      <3>3. chosen \subseteq Slices /\ \A s \in Slices : state[s] # "Leased"
        BY <1>2, <3>1 DEF InState
      <3>4. InState(state', "Leased") = chosen BY <3>2, <3>3, Zenon DEF InState
      <3> QED BY <1>2, <3>2, <3>4
    <2>3. CASE ~(nextId < MaxLeaseId)
      BY <1>2, <2>1, <2>3 DEF Grant, leaseVars
    <2> QED BY <2>2, <2>3
  <1>3. ASSUME lease.phase = "pending", NEW chosen \in SUBSET InState(state, "Active"), Revoke(chosen)
        PROVE  lease' = lease /\ InState(state', "Leased") = InState(state, "Leased")
    <2>1. Swept = state BY <1>3, SweptFacts DEF Expires
    <2> QED BY <1>3, <2>1, Zenon DEF Revoke, InState, TypeOK, leaseVars
  <1>4. ASSUME NEW move \in SUBSET Moves, NEW given, DOMAIN given \subseteq InState(Swept, "Free"),
               Rebalance(move, given)
        PROVE  lease' = Aged /\ InState(state', "Leased") = InState(Swept, "Leased")
    <2>1. \A m \in move : m.slice \in InState(Swept, "Active") BY DEF Moves
    <2>2. {m.slice : m \in move} \subseteq InState(Swept, "Active") BY <2>1, Zenon
    <2> DEFINE D == {m.slice : m \in move}
    <2>3. state' = [s \in Slices |->
                      IF s \in D THEN "Draining" ELSE IF s \in DOMAIN given THEN "Active" ELSE Swept[s]]
      BY <1>4 DEF Rebalance
    <2>4. D \subseteq InState(Swept, "Active") BY <2>2
    <2> HIDE DEF D
    <2>5. InState(state', "Leased") = InState(Swept, "Leased")
      BY <1>4, <2>3, <2>4, Zenon DEF InState
    <2> QED BY <1>4, <2>5 DEF Rebalance
  <1> QED BY <1>1, <1>2, <1>3, <1>4 DEF TickShape

\* Every step that is neither a tick nor a release leaves the leased slices, and
\* every step but those two and the two ends of a request the lease's terms.
LEMMA StepLease ==
    ASSUME BrokerSafe, [Next]_vars
    PROVE  \/ Tick(Moves)
           \/ lease' = NoLease /\ InState(state', "Leased") = {}
           \/ /\ InState(state', "Leased") = InState(state, "Leased")
              /\ \/ lease' = lease
                 \/ lease.phase = "active" /\ lease' = [lease EXCEPT !.left = LeaseTtl]
                 \/ lease.phase = "pending" /\ lease' = NoLease
                 \/ /\ lease.phase = "none" /\ present' = present
                    /\ \E t \in present, n \in 1..Cardinality(Slices) : lease' = PendingLease(t, n)
              /\ \/ present \subseteq present'
                 \/ \E t \in Tenants : /\ present' = present \ {t}
                                       /\ lease.phase = "pending" => (lease.holder = t <=> lease' = NoLease)
  <1> USE BrokerAssumption DEF BrokerSafe
  <1>1. ASSUME NEW t \in Tenants, Register(t)
        PROVE  state' = state /\ lease' = lease /\ present \subseteq present'
    BY <1>1 DEF Register, sliceVars, leaseVars
  <1>2. ASSUME NEW t \in Tenants, Disconnect(t)
        PROVE  /\ state' = state /\ present' = present \ {t}
               /\ lease' = lease \/ (lease.phase = "pending" /\ lease' = NoLease)
               /\ lease.phase = "pending" => (lease.holder = t <=> lease' = NoLease)
    BY <1>2 DEF Disconnect, sliceVars, NoLease
  <1>3. ASSUME NEW t \in Tenants, NEW mounted \in SUBSET Slices, Psi(t, mounted)
        PROVE  /\ InState(state', "Leased") = InState(state, "Leased") /\ present' = present
               /\ lease' = lease \/ (lease.phase = "active" /\ lease' = [lease EXCEPT !.left = LeaseTtl])
    <2>1. InState(state', "Leased") = InState(state, "Leased") BY <1>3 DEF Psi, InState
    <2> QED BY <1>3, <2>1 DEF Psi, Renewed
  <1>4. ASSUME NEW s \in Slices, NEW ok \in BOOLEAN, SliceStep(s, ok)
        PROVE  InState(state', "Leased") = InState(state, "Leased") /\ lease' = lease /\ present' = present
    <2>1. CASE SwapOnDone(s, ok) BY <2>1 DEF SwapOnDone, InState, TypeOK, tenantVars, leaseVars
    <2>2. CASE SwapOffDone(s, ok) BY <2>2 DEF SwapOffDone, sliceVars, tenantVars, leaseVars
    <2>3. CASE ZeroDone(s, ok)
      BY <2>3 DEF ZeroDone, InState, TypeOK, coreVars, sliceVars, tenantVars, leaseVars
    <2> QED BY <1>4, <2>1, <2>2, <2>3 DEF SliceStep
  <1>5. ASSUME NEW t \in Tenants, NEW size \in 0..(Cardinality(Slices) + 1), LeaseRequest(t, size)
        PROVE  /\ state' = state /\ present' = present
               /\ \/ lease' = lease
                  \/ lease.phase = "none" /\ \E n \in 1..Cardinality(Slices) : lease' = PendingLease(t, n)
    <2>1. Cardinality(Slices) \in Nat BY InStateFinite
    <2>2. state' = state /\ present' = present BY <1>5 DEF LeaseRequest, sliceVars, tenantVars
    <2>3. CASE size = 0 \/ size > Cardinality(Slices) \/ lease.phase # "none"
      BY <1>5, <2>2, <2>3 DEF LeaseRequest
    <2>4. CASE ~(size = 0 \/ size > Cardinality(Slices) \/ lease.phase # "none")
      <3>1. size \in 1..Cardinality(Slices) BY <2>1, <2>4
      <3>2. lease.phase = "none" /\ lease' = PendingLease(t, size) BY <1>5, <2>4 DEF LeaseRequest
      <3> QED BY <2>2, <3>1, <3>2
    <2> QED BY <2>3, <2>4
  <1>6. ASSUME NEW t \in Tenants, NEW id \in 0..MaxLeaseId, LeaseRelease(t, id)
        PROVE  \/ lease' = NoLease /\ InState(state', "Leased") = {}
               \/ state' = state /\ lease' = lease /\ present' = present
    <2>1. state \in [Slices -> SliceStates] BY DEF TypeOK, SliceStates
    <2> QED BY <1>6, <2>1, UnleasedType DEF LeaseRelease, tenantVars
  <1>7. CASE Demote \/ UNCHANGED vars
    <2>1. state' = state /\ lease' = lease /\ present' = present
      BY <1>7 DEF Demote, vars, coreVars, sliceVars, tenantVars, leaseVars
    <2> QED BY <2>1
  <1>8. ASSUME NEW t \in Tenants, NEW size \in 0..(Cardinality(Slices) + 1), LeaseRequest(t, size)
        PROVE t \in present
    BY <1>8 DEF LeaseRequest
  <1>9. ASSUME NEW t \in Tenants, TenantStep(t)
        PROVE  \/ lease' = NoLease /\ InState(state', "Leased") = {}
               \/ /\ InState(state', "Leased") = InState(state, "Leased")
                  /\ \/ lease' = lease
                     \/ lease.phase = "active" /\ lease' = [lease EXCEPT !.left = LeaseTtl]
                     \/ lease.phase = "pending" /\ lease' = NoLease
                     \/ /\ lease.phase = "none" /\ present' = present
                        /\ \E u \in present, n \in 1..Cardinality(Slices) : lease' = PendingLease(u, n)
                  /\ \/ present \subseteq present'
                     \/ \E u \in Tenants : /\ present' = present \ {u}
                                           /\ lease.phase = "pending" => (lease.holder = u <=> lease' = NoLease)
    <2>1. CASE Register(t) BY <1>1, <2>1
    <2>2. CASE Disconnect(t) BY <1>2, <2>2
    <2>3. CASE \E mounted \in SUBSET Slices : Psi(t, mounted) BY <1>3, <2>3
    <2>4. CASE \E size \in 0..(Cardinality(Slices) + 1) : LeaseRequest(t, size) BY <1>5, <1>8, <2>4
    <2>5. CASE \E id \in 0..MaxLeaseId : LeaseRelease(t, id) BY <1>6, <2>5
    <2> QED BY <1>9, <2>1, <2>2, <2>3, <2>4, <2>5 DEF TenantStep
  <1> QED
    BY <1>4, <1>7, <1>9, Zenon DEF Next

\* Every step keeps the lease book and the slice map in agreement, and a lease
\* somebody's.
LEMMA LeaseStep ==
    BrokerSafe /\ [Next]_vars => LeaseBacked' /\ LeaseHeld'
  <1> SUFFICES ASSUME BrokerSafe, [Next]_vars PROVE LeaseBacked' /\ LeaseHeld'
    OBVIOUS
  <1> USE BrokerAssumption DEF BrokerSafe
  <1>1. InState(state, "Leased")' = InState(state', "Leased") BY DEF InState
  <1>2. lease \in LeaseType /\ present \subseteq Tenants BY DEF TypeOK
  <1>3. /\ NoLease.phase = "none"
        /\ \A t, n : /\ PendingLease(t, n).phase = "pending"
                     /\ PendingLease(t, n).holder = t /\ PendingLease(t, n).size = n
        /\ \A t, n, id : /\ ActiveLease(t, n, id).phase = "active"
                         /\ ActiveLease(t, n, id).holder = t /\ ActiveLease(t, n, id).size = n
    BY DEF NoLease, PendingLease, ActiveLease
  <1>4. Cardinality({}) = 0 BY FS_EmptySet
  <1>5. CASE Tick(Moves)
    <2>1. present' = present BY <1>5 DEF Tick, tenantVars
    <2>2. ASSUME lease.phase = "pending", lease' = ActiveLease(lease.holder, lease.size, nextId),
                 Cardinality(InState(state', "Leased")) = lease.size
          PROVE  LeaseBacked' /\ LeaseHeld'
      <3>1. lease'.phase = "active" /\ lease'.holder = lease.holder /\ lease'.size = lease.size
        BY <2>2 DEF ActiveLease
      <3>2. lease.holder \in Tenants /\ lease.size > 0 BY <2>2 DEF LeaseHeld
      <3> QED BY <1>1, <2>2, <3>1, <3>2, Zenon DEF LeaseBacked, LeaseHeld
    <2>3. ASSUME lease.phase = "pending", lease' = lease, InState(state', "Leased") = InState(state, "Leased")
          PROVE  LeaseBacked' /\ LeaseHeld'
      BY <1>1, <2>1, <2>3 DEF LeaseBacked, LeaseHeld
    <2>4. ASSUME lease.phase # "pending", lease' = Aged, InState(state', "Leased") = InState(Swept, "Leased")
          PROVE  LeaseBacked' /\ LeaseHeld'
      <3>1. CASE Expires
        <4>1. lease'.phase = "none" /\ InState(state', "Leased") = {} BY <2>4, <3>1, SweptFacts
        <4> QED BY <1>1, <1>4, <4>1 DEF LeaseBacked, LeaseHeld
      <3>2. CASE ~Expires
        <4>1. /\ lease'.phase = lease.phase /\ lease'.size = lease.size /\ lease'.holder = lease.holder
              /\ InState(state', "Leased") = InState(state, "Leased")
          BY <2>4, <3>2, SweptFacts
        <4> QED BY <1>1, <2>1, <4>1 DEF LeaseBacked, LeaseHeld
      <3> QED BY <3>1, <3>2
    <2> QED BY <1>5, <2>2, <2>3, <2>4, TickLease
  <1>6. ASSUME lease' = NoLease, InState(state', "Leased") = {} PROVE LeaseBacked' /\ LeaseHeld'
    BY <1>1, <1>3, <1>4, <1>6, Zenon DEF LeaseBacked, LeaseHeld
  <1>7. ASSUME InState(state', "Leased") = InState(state, "Leased"),
               lease' = lease \/ (lease.phase = "active" /\ lease' = [lease EXCEPT !.left = LeaseTtl]),
               \/ present \subseteq present'
               \/ \E t \in Tenants : /\ present' = present \ {t}
                                     /\ lease.phase = "pending" => (lease.holder = t <=> lease' = NoLease)
        PROVE  LeaseBacked' /\ LeaseHeld'
    <2>1. lease'.phase = lease.phase /\ lease'.size = lease.size /\ lease'.holder = lease.holder
      BY <1>2, <1>7 DEF LeaseType
    <2>2. lease.phase = "pending" => lease' = lease /\ lease' # NoLease BY <1>3, <1>7
    <2>3. lease.phase = "pending" => lease.holder \in present' BY <1>7, <2>2 DEF LeaseHeld
    <2> QED BY <1>1, <1>7, <2>1, <2>3 DEF LeaseBacked, LeaseHeld
  <1>8. ASSUME InState(state', "Leased") = InState(state, "Leased"), lease.phase = "pending", lease' = NoLease
        PROVE  LeaseBacked' /\ LeaseHeld'
    BY <1>1, <1>3, <1>8 DEF LeaseBacked, LeaseHeld
  <1>9. ASSUME InState(state', "Leased") = InState(state, "Leased"), lease.phase = "none",
               NEW t \in present, NEW n \in 1..Cardinality(Slices), lease' = PendingLease(t, n),
               present' = present
        PROVE  LeaseBacked' /\ LeaseHeld'
    <2>1. n > 0 BY InStateFinite
    <2>2. lease'.phase = "pending" /\ lease'.holder = t /\ lease'.size = n BY <1>9 DEF PendingLease
    <2>3. t \in Tenants BY <1>2
    <2> QED BY <1>1, <1>9, <2>1, <2>2, <2>3 DEF LeaseBacked, LeaseHeld
  <1> QED BY <1>5, <1>6, <1>7, <1>8, <1>9, StepLease

\* The invariant holds in the first state, where everything is free.
LEMMA InvInit ==
    Init => BrokerSafe
  <1> SUFFICES ASSUME Init PROVE BrokerSafe OBVIOUS
  <1> USE BrokerAssumption DEF Init
  <1>1. Cardinality(Slices) \in Nat BY InStateFinite
  <1>2. TypeOK BY <1>1 DEF TypeOK, NoLease, LeaseType, NotZeroing
  <1>3. SlicesConsistent BY DEF SlicesConsistent
  <1>4. InState(state, "Leased") = {} BY DEF InState
  <1>5. LeaseBacked BY <1>4, FS_EmptySet, Zenon DEF LeaseBacked, NoLease
  <1>6. LeaseHeld BY DEF LeaseHeld, NoLease
  <1> QED BY <1>2, <1>3, <1>5, <1>6 DEF BrokerSafe

\* The inductive invariant of the core.
THEOREM BrokerAlwaysSafe == Spec => []BrokerSafe
  <1>1. BrokerSafe /\ [Next]_vars => BrokerSafe'
    BY TypeStep, SlicesStep, LeaseStep DEF BrokerSafe
  <1> QED BY <1>1, InvInit, PTL DEF Spec

\* Type correctness of the core, whatever the agents send.
THEOREM TypeCorrect == Spec => []TypeOK
  <1>1. BrokerSafe => TypeOK BY DEF BrokerSafe
  <1> QED BY <1>1, BrokerAlwaysSafe, PTL

\* The slice map, pending_dest and the tenants agree, whatever the agents send.
THEOREM SliceMapConsistent == Spec => []SlicesConsistent
  <1>1. BrokerSafe => SlicesConsistent BY DEF BrokerSafe
  <1> QED BY <1>1, BrokerAlwaysSafe, PTL

\* The lease book and the slice map agree: the LeaseConflict path of the grant and
\* the rollback that goes with it are dead code.
THEOREM LeaseAlwaysBacked == Spec => []LeaseBacked
  <1>1. BrokerSafe => LeaseBacked BY DEF BrokerSafe
  <1> QED BY <1>1, BrokerAlwaysSafe, PTL

\* A request dies with the session of its tenant; a lease has a holder.
THEOREM LeaseAlwaysHeld == Spec => []LeaseHeld
  <1>1. BrokerSafe => LeaseHeld BY DEF BrokerSafe
  <1> QED BY <1>1, BrokerAlwaysSafe, PTL

\* The slices of an active lease are its own until the release or the expiry.
THEOREM LeaseIsUndisturbed == Spec => LeaseKeepsItsSlices
  <1>1. ASSUME BrokerSafe, [Next]_vars, lease.phase = "active", lease'.phase = "active"
        PROVE  /\ InState(state', "Leased") = InState(state, "Leased")
               /\ lease'.holder = lease.holder /\ lease'.id = lease.id
    <2> USE <1>1
    <2>1. NoLease.phase = "none" BY DEF NoLease
    <2>2. CASE Tick(Moves)
      <3>1. lease' = Aged /\ InState(state', "Leased") = InState(Swept, "Leased")
        BY <2>2, TickLease
      <3>2. TypeOK /\ SlicesConsistent BY DEF BrokerSafe
      <3>3. ~Expires BY <3>1, <3>2, SweptFacts
      <3> QED BY <3>1, <3>2, <3>3, SweptFacts
    <2>3. CASE /\ InState(state', "Leased") = InState(state, "Leased")
               /\ lease' = lease \/ lease' = [lease EXCEPT !.left = LeaseTtl]
      <3>1. lease \in LeaseType BY DEF BrokerSafe, TypeOK
      <3> QED BY <2>3, <3>1 DEF LeaseType
    <2> QED BY <2>1, <2>2, <2>3, StepLease
  <1> QED BY <1>1, BrokerAlwaysSafe, PTL DEF Spec, LeaseKeepsItsSlices

\* A mounted slice reaches another tenant only through a drain and a zero.
THEOREM HandoverThroughZero == Spec => NoDirectHandover
  <1>1. ASSUME BrokerSafe, [Next]_vars, NEW s \in Slices,
               state[s] \in {"Active", "Draining"}, state'[s] \in {"Active", "Draining"}, owner'[s] # owner[s]
        PROVE  state[s] = "Draining" /\ zeroTicks'[s] = NotZeroing
    <2> USE <1>1 DEF BrokerSafe
    <2>1. CASE UNCHANGED owner BY <2>1, Zenon
    <2>2. ASSUME NEW t \in Tenants, NEW mounted \in SUBSET Slices, Psi(t, mounted) PROVE FALSE
      BY <2>2 DEF Psi, InState
    <2>3. ASSUME NEW k \in Slices, NEW ok \in BOOLEAN, SwapOnDone(k, ok) PROVE FALSE
      BY <2>3 DEF SwapOnDone, TypeOK
    <2>4. ASSUME NEW k \in Slices, NEW ok \in BOOLEAN, ZeroDone(k, ok)
          PROVE  state[s] = "Draining" /\ zeroTicks'[s] = NotZeroing
      <3>1. ok /\ k = s /\ state[k] = "Draining"
        BY <2>4, Zenon DEF ZeroDone, TypeOK, coreVars, sliceVars
      <3> QED BY <2>4, <3>1 DEF ZeroDone, TypeOK
    <2>5. CASE Tick(Moves)
      <3>1. TickShape BY <2>5, TickCases
      <3>2. PICK move \in SUBSET Moves : \E given : /\ DOMAIN given \subseteq InState(Swept, "Free")
                                                   /\ Rebalance(move, given)
        BY <1>1, <3>1, Zenon DEF TickShape, Grant, Revoke
      <3>3. s \in InState(Swept, "Free") BY <3>2 DEF Rebalance, TypeOK
      <3>4. state[s] \in {"Free", "Leased"} BY <3>3, SweptFacts DEF InState, SlicesConsistent
      <3> QED BY <1>1, <3>4, Zenon
    <2>6. ASSUME NEW k \in Slices, NEW ok \in BOOLEAN, SwapOffDone(k, ok) PROVE UNCHANGED owner
      BY <2>6 DEF SwapOffDone, sliceVars
    <2>7. ASSUME NEW t \in Tenants, Register(t) \/ Disconnect(t) PROVE UNCHANGED owner
      BY <2>7 DEF Register, Disconnect, sliceVars
    <2>8. ASSUME NEW t \in Tenants, NEW size, LeaseRequest(t, size) PROVE UNCHANGED owner
      BY <2>8 DEF LeaseRequest, sliceVars
    <2>9. ASSUME NEW t \in Tenants, NEW id, LeaseRelease(t, id) PROVE UNCHANGED owner
      BY <2>9 DEF LeaseRelease
    <2>10. CASE Demote \/ UNCHANGED vars
      BY <2>10, <2>1 DEF Demote, vars, coreVars, sliceVars
    <2> QED
      BY <2>1, <2>2, <2>3, <2>4, <2>5, <2>6, <2>7, <2>8, <2>9, <2>10, Zenon DEF Next, TenantStep, SliceStep
  <1>2. BrokerSafe /\ [Next]_vars =>
          \A s \in Slices :
            state[s] \in {"Active", "Draining"} /\ state'[s] \in {"Active", "Draining"} /\ owner'[s] # owner[s]
              => state[s] = "Draining" /\ zeroTicks'[s] = NotZeroing
    BY <1>1
  <1> QED BY <1>2, BrokerAlwaysSafe, PTL DEF Spec, NoDirectHandover

\* What no single message, zero or tick does, both parts together: it neither
\* disturbs an active lease nor hands a mounted slice over undrained.
THEOREM BrokerStepsHold == Spec => BrokerSteps
  BY LeaseIsUndisturbed, HandoverThroughZero DEF BrokerSteps
=============================================================================
