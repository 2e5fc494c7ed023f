---------------------------- MODULE N3LeaseProofs ----------------------------
(***************************************************************************)
(* The lease machine's tag and fields agree, no generation of a lease is   *)
(* acknowledged twice, lost authority needs a newer epoch and a lease ends *)
(* clean, for every set of messages, leases and records.                   *)
(***************************************************************************)
EXTENDS N3Lease, FiniteSetTheorems, TLAPS

\* Every step of the machine leaves tag, pending grant and active lease in agreement.
LEMMA ConsistentStep == LeaseStateConsistent /\ [N3Next]_n3Vars => LeaseStateConsistent'
<1> SUFFICES ASSUME LeaseStateConsistent, [N3Next]_n3Vars PROVE LeaseStateConsistent'
  OBVIOUS
<1>q. CASE UNCHANGED n3LeaseVars
  BY <1>q DEF LeaseStateConsistent, n3LeaseVars
<1>f. CASE FailForEvent \/ FailForActive
  BY <1>f DEF LeaseStateConsistent, FailForEvent, FailForActive, Failed, State
<1>d. CASE DropLease
  BY <1>d DEF LeaseStateConsistent, DropLease, Absent, State
<1>1. ASSUME NEW o \in Observations, Observe(o) PROVE LeaseStateConsistent'
  BY <1>1, <1>q DEF Observe
<1>2. CASE RequestDemotion \/ RefuseClaim
  BY <1>2, <1>q DEF RequestDemotion, RefuseClaim
<1>3. ASSUME NEW g \in Grants, ReceiveGrant(g) PROVE LeaseStateConsistent'
  BY <1>3, <1>f DEF ReceiveGrant, Grantable, LeaseStateConsistent, Absent, State
<1>4. ASSUME NEW g \in Grants, AcceptGrantAck(Identity(g)) PROVE LeaseStateConsistent'
  <2>1. CASE FailForEvent \/ FailForActive
    BY <2>1, <1>f
  <2>2. CASE ~(FailForEvent \/ FailForActive)
    <3>1. PICK h \in pending_grant :
            lease_state = State("Negotiating", h.gen) /\ Identity(g) = Identity(h)
      BY <1>4, <2>2 DEF AcceptGrantAck
    <3>2. /\ active_lease' = pending_grant /\ pending_grant' = {} /\ active_revoke' = {}
          /\ lease_state' = State("Granted", Identity(g).gen)
      BY <1>4, <2>2, <3>1 DEF AcceptGrantAck
    <3>3. pending_grant = {h} /\ h \in Grants
      BY <3>1 DEF LeaseStateConsistent, State
    <3>4. lease_state' = State("Granted", h.gen)
      BY <3>1, <3>2 DEF Identity
    <3> QED
      BY <3>2, <3>3, <3>4 DEF LeaseStateConsistent, State
  <2> QED
    BY <2>1, <2>2
<1>5. ASSUME NEW r \in Revokes, ReceiveRevoke(r) PROVE LeaseStateConsistent'
  BY <1>5, <1>f DEF ReceiveRevoke, N3Revocable, LeaseStateConsistent, State
<1>6. ASSUME NEW r \in Revokes, ConfirmRevoke(Identity(r)) PROVE LeaseStateConsistent'
  BY <1>6, <1>f DEF ConfirmRevoke, Completes, LeaseStateConsistent, State
<1>7. CASE Drain
  BY <1>7, <1>f DEF Drain, MayDrain, LeaseStateConsistent, State
<1>8. CASE BeginIo \/ CompleteIo \/ MarkUnknownInFlight
  BY <1>8, <1>q DEF BeginIo, CompleteIo, MarkUnknownInFlight, IoChanges
<1>9. ASSUME NEW c \in 0..(MaxInFlight + 1), SetInFlight(c) \/ SetCallbacksPending(c)
      PROVE LeaseStateConsistent'
  BY <1>9, <1>q DEF SetInFlight, SetCallbacksPending, IoChanges
<1>10. ASSUME NEW s \in {"Pending", "Succeeded", "Failed"}, ScrubGuestData(s)
       PROVE LeaseStateConsistent'
  BY <1>10, <1>q, <1>f DEF ScrubGuestData
<1>11. CASE CompleteCleanup \/ Restart
  BY <1>11, <1>d DEF CompleteCleanup, Restart
<1>12. CASE FailClosed
  BY <1>12, <1>f DEF FailClosed
<1>13. CASE RestoreTooLate
  BY <1>13 DEF RestoreTooLate, LeaseStateConsistent, Failed, State
<1>14. ASSUME NEW r \in RestartRecords, ProcessRestarts(r) PROVE LeaseStateConsistent'
  BY <1>14 DEF ProcessRestarts, LeaseStateConsistent, Failed, Absent, State
<1>15. CASE N3Tick
  BY <1>15, <1>q DEF N3Tick
<1>16. CASE UNCHANGED n3Vars
  BY <1>16, <1>q DEF n3Vars
<1> QED
  BY <1>1, <1>2, <1>3, <1>4, <1>5, <1>6, <1>7, <1>8, <1>9, <1>10, <1>11, <1>12, <1>13,
     <1>14, <1>15, <1>16 DEF N3Next

\* The state's tag and the pending and active lease agree in every reachable state,
\* whichever of the eleven methods of LeaseMachine wrote them.
THEOREM LeaseAgreement == N3Spec => []LeaseStateConsistent
<1>1. N3Init => LeaseStateConsistent
  BY DEF N3Init, LeaseStateConsistent, Absent, State
<1> QED
  BY <1>1, ConsistentStep, PTL DEF N3Spec

\* A lease that failed is left only for Absent, without a pending or active lease.
THEOREM FailureIsFinal == N3Spec => FailedIsFinal
<1> DEFINE Step ==
      lease_state.tag = "Failed" =>
        \/ lease_state'.tag = "Failed"
        \/ lease_state' = Absent /\ pending_grant' = {} /\ active_lease' = {}
<1>1. [N3Next]_n3Vars => [Step]_n3Vars
  <2> SUFFICES ASSUME N3Next PROVE Step
    BY DEF n3Vars
  <2> SUFFICES ASSUME lease_state.tag = "Failed" PROVE Step
    OBVIOUS
  <2>f. CASE FailForEvent \/ FailForActive
    BY <2>f DEF FailForEvent, FailForActive, Failed, State
  <2>q. CASE UNCHANGED n3LeaseVars
    BY <2>q DEF n3LeaseVars
  <2>1. ASSUME NEW o \in Observations, Observe(o) PROVE Step
    BY <2>1, <2>q DEF Observe
  <2>2. CASE RequestDemotion \/ RefuseClaim
    BY <2>2, <2>q DEF RequestDemotion, RefuseClaim
  <2>3. ASSUME NEW g \in Grants, ReceiveGrant(g) \/ AcceptGrantAck(Identity(g)) PROVE Step
    BY <2>3, <2>f DEF ReceiveGrant, Grantable, AcceptGrantAck, Absent, State
  <2>4. ASSUME NEW r \in Revokes, ReceiveRevoke(r) \/ ConfirmRevoke(Identity(r)) PROVE Step
    BY <2>4, <2>f DEF ReceiveRevoke, N3Revocable, ConfirmRevoke, Completes, State
  <2>5. CASE Drain
    BY <2>5, <2>f DEF Drain, MayDrain, State
  <2>6. CASE BeginIo \/ CompleteIo \/ MarkUnknownInFlight
    BY <2>6, <2>q DEF BeginIo, CompleteIo, MarkUnknownInFlight, IoChanges
  <2>7. ASSUME NEW c \in 0..(MaxInFlight + 1), SetInFlight(c) \/ SetCallbacksPending(c)
        PROVE Step
    BY <2>7, <2>q DEF SetInFlight, SetCallbacksPending, IoChanges
  <2>8. ASSUME NEW s \in {"Pending", "Succeeded", "Failed"}, ScrubGuestData(s) PROVE Step
    BY <2>8, <2>q, <2>f DEF ScrubGuestData
  <2>9. CASE CompleteCleanup \/ Restart
    BY <2>9 DEF CompleteCleanup, Restart, DropLease
  <2>10. CASE FailClosed
    BY <2>10, <2>f DEF FailClosed
  <2>11. CASE RestoreTooLate
    BY <2>11 DEF RestoreTooLate, Failed, State
  <2>12. ASSUME NEW r \in RestartRecords, ProcessRestarts(r) PROVE Step
    BY <2>12 DEF ProcessRestarts, Failed, State
  <2>13. CASE N3Tick
    BY <2>13, <2>q DEF N3Tick
  <2> QED
    BY <2>1, <2>2, <2>3, <2>4, <2>5, <2>6, <2>7, <2>8, <2>9, <2>10, <2>11, <2>12, <2>13
    DEF N3Next
<1> QED
  BY <1>1, PTL DEF N3Spec, FailedIsFinal

(***************************************************************************)
(* Generations.  Unless a restart record was refused, the generation       *)
(* history has reached every generation that was ever acknowledged.        *)
(***************************************************************************)
HistoryTypeOK ==
  /\ generation_history \in [Leases -> Nat]
  /\ negotiated \subseteq Leases \X Nat
  /\ forgot \in BOOLEAN

Remembered == forgot \/ \A p \in negotiated : p[2] <= generation_history[p[1]]

HistoryInv == HistoryTypeOK /\ Remembered

\* A record that names no checkpoint of a lease restores it as never seen.
LEMMA CheckpointIsNat ==
  ASSUME NEW r \in RestartRecords, NEW l \in Leases
  PROVE  Checkpoint(r, l) \in Nat
<1> DEFINE found == {i \in DOMAIN r.checkpoints : r.checkpoints[i].lease = l}
<1>1. CASE found = {}
  BY <1>1 DEF Checkpoint
<1>2. CASE found # {}
  <2>1. (CHOOSE i \in found : TRUE) \in found
    BY <1>2
  <2>2. r.checkpoints[CHOOSE i \in found : TRUE].gen \in Nat
    BY <2>1, N3Assumption, Zenon
  <2> QED
    BY <1>2, <2>2 DEF Checkpoint
<1> QED
  BY <1>1, <1>2

\* A grant that is accepted carries a generation above every acknowledged one.
LEMMA GrantIsNew ==
  ASSUME HistoryInv, NEW g \in Grants, Grantable(g), ~forgot
  PROVE  /\ <<g.lease, g.gen>> \notin negotiated
         /\ g.gen > generation_history[g.lease]
<1>1. g.lease \in Leases /\ g.gen \in Nat /\ generation_history[g.lease] \in Nat
  BY N3Assumption, Zenon DEF HistoryInv, HistoryTypeOK
<1>2. g.gen > generation_history[g.lease]
  BY <1>1 DEF Grantable, NextGeneration
<1>3. ASSUME <<g.lease, g.gen>> \in negotiated PROVE FALSE
  BY <1>1, <1>2, <1>3 DEF HistoryInv, Remembered
<1> QED
  BY <1>2, <1>3

\* Steps keep the history above what was acknowledged.
LEMMA HistoryStep == HistoryInv /\ [N3Next]_n3Vars => HistoryInv'
<1> SUFFICES ASSUME HistoryInv, [N3Next]_n3Vars PROVE HistoryInv'
  OBVIOUS
<1>q. CASE UNCHANGED <<generation_history, negotiated, forgot>>
  BY <1>q DEF HistoryInv, HistoryTypeOK, Remembered
<1>m. CASE UNCHANGED memoryVars
  BY <1>m, <1>q DEF memoryVars
<1>1. ASSUME NEW o \in Observations, Observe(o) PROVE HistoryInv'
  BY <1>1, <1>m DEF Observe
<1>2. CASE RequestDemotion \/ RefuseClaim
  BY <1>2, <1>m DEF RequestDemotion, RefuseClaim
<1>3. ASSUME NEW g \in Grants, ReceiveGrant(g) PROVE HistoryInv'
  <2>1. CASE UNCHANGED <<generation_history, negotiated>>
    BY <1>3, <2>1, <1>q DEF ReceiveGrant
  <2>2. CASE ~UNCHANGED <<generation_history, negotiated>>
    <3>1. /\ Grantable(g) /\ forgot' = forgot
          /\ generation_history' = [generation_history EXCEPT ![g.lease] = g.gen]
          /\ negotiated' = negotiated \cup {<<g.lease, g.gen>>}
      BY <1>3, <2>2 DEF ReceiveGrant
    <3>2. g.lease \in Leases /\ g.gen \in Nat
      BY N3Assumption
    <3>3. HistoryTypeOK'
      BY <3>1, <3>2 DEF HistoryInv, HistoryTypeOK
    <3>4. CASE forgot
      BY <3>1, <3>3, <3>4 DEF HistoryInv, Remembered
    <3>5. CASE ~forgot
      <4>1. g.gen > generation_history[g.lease]
        BY <3>1, <3>5, GrantIsNew, Zenon
      <4>2. ASSUME NEW p \in negotiated' PROVE p[2] <= generation_history'[p[1]]
        <5>1. CASE p = <<g.lease, g.gen>>
          BY <5>1, <3>1, <3>2 DEF HistoryInv, HistoryTypeOK
        <5>2. CASE p \in negotiated
          <6>1. p[1] \in Leases /\ p[2] \in Nat /\ p[2] <= generation_history[p[1]]
            BY <5>2, <3>5 DEF HistoryInv, HistoryTypeOK, Remembered
          <6>2. CASE p[1] = g.lease
            BY <6>1, <6>2, <4>1, <3>1, <3>2 DEF HistoryInv, HistoryTypeOK
          <6>3. CASE p[1] # g.lease
            BY <6>1, <6>3, <3>1, <3>2 DEF HistoryInv, HistoryTypeOK
          <6> QED
            BY <6>2, <6>3
        <5> QED
          BY <5>1, <5>2, <3>1
      <4> QED
        BY <4>2, <3>3 DEF HistoryInv, Remembered
    <3> QED
      BY <3>4, <3>5
  <2> QED
    BY <2>1, <2>2
<1>4. ASSUME NEW g \in Grants, AcceptGrantAck(Identity(g)) PROVE HistoryInv'
  BY <1>4, <1>m DEF AcceptGrantAck
<1>5. ASSUME NEW r \in Revokes, ReceiveRevoke(r) \/ ConfirmRevoke(Identity(r))
      PROVE HistoryInv'
  BY <1>5, <1>m DEF ReceiveRevoke, ConfirmRevoke
<1>6. CASE Drain \/ FailClosed \/ CompleteCleanup \/ Restart \/ RestoreTooLate \/ N3Tick
  BY <1>6, <1>m DEF Drain, FailClosed, CompleteCleanup, Restart, RestoreTooLate, N3Tick
<1>7. CASE BeginIo \/ CompleteIo \/ MarkUnknownInFlight
  BY <1>7, <1>m DEF BeginIo, CompleteIo, MarkUnknownInFlight, IoChanges
<1>8. ASSUME NEW c \in 0..(MaxInFlight + 1), SetInFlight(c) \/ SetCallbacksPending(c)
      PROVE HistoryInv'
  BY <1>8, <1>m DEF SetInFlight, SetCallbacksPending, IoChanges
<1>9. ASSUME NEW s \in {"Pending", "Succeeded", "Failed"}, ScrubGuestData(s)
      PROVE HistoryInv'
  BY <1>9, <1>m DEF ScrubGuestData
<1>10. ASSUME NEW r \in RestartRecords, ProcessRestarts(r) PROVE HistoryInv'
  <2>1. CASE RecordValid(r)
    <3>1. /\ generation_history' = [l \in Leases |-> Checkpoint(r, l)]
          /\ Current(r) /\ negotiated' = negotiated /\ forgot' = forgot
      BY <1>10, <2>1 DEF ProcessRestarts
    <3>2. HistoryTypeOK'
      BY <3>1, CheckpointIsNat DEF HistoryInv, HistoryTypeOK
    <3>3. ASSUME NEW p \in negotiated PROVE p[2] <= generation_history'[p[1]]
      <4>1. p[1] \in Leases /\ p[2] \in Nat
        BY DEF HistoryInv, HistoryTypeOK
      <4> QED
        BY <4>1, <3>1, CheckpointIsNat DEF Current
    <3> QED
      BY <3>1, <3>2, <3>3 DEF HistoryInv, Remembered
  <2>2. CASE ~RecordValid(r)
    BY <1>10, <2>2 DEF ProcessRestarts, HistoryInv, HistoryTypeOK, Remembered
  <2> QED
    BY <2>1, <2>2
<1>11. CASE UNCHANGED n3Vars
  BY <1>11, <1>m DEF n3Vars
<1> QED
  BY <1>1, <1>2, <1>3, <1>4, <1>5, <1>6, <1>7, <1>8, <1>9, <1>10, <1>11, Zenon DEF N3Next

\* No generation of a lease is acknowledged twice: delays, duplicates, restart() and
\* restored processes included, as long as no restart record was refused.
THEOREM NoGenerationTwice == N3Spec => GenerationNeverReused
<1> DEFINE Step ==
      \A g \in pending_grant' \ pending_grant :
        forgot \/ <<g.lease, g.gen>> \notin negotiated
<1>1. N3Init => HistoryInv
  <2> SUFFICES ASSUME N3Init PROVE HistoryInv
    OBVIOUS
  <2>1. generation_history \in [Leases -> Nat] /\ negotiated = {}
    BY DEF N3Init
  <2>2. forgot \in BOOLEAN
    BY Zenon DEF N3Init
  <2> QED
    BY <2>1, <2>2 DEF HistoryInv, HistoryTypeOK, Remembered
<1>2. HistoryInv /\ [N3Next]_n3Vars => [Step]_n3Vars
  <2> SUFFICES ASSUME HistoryInv, N3Next, NEW h \in pending_grant' \ pending_grant, ~forgot
               PROVE  <<h.lease, h.gen>> \notin negotiated
    BY DEF n3Vars
  <2> DEFINE Shrinks == pending_grant' \subseteq pending_grant
  <2>1. ASSUME NEW o \in Observations, Observe(o) PROVE Shrinks
    BY <2>1 DEF Observe, n3LeaseVars
  <2>2. CASE RequestDemotion \/ RefuseClaim \/ N3Tick
    BY <2>2 DEF RequestDemotion, RefuseClaim, N3Tick, n3LeaseVars
  <2>3. ASSUME NEW g \in Grants, AcceptGrantAck(Identity(g)) PROVE Shrinks
    BY <2>3 DEF AcceptGrantAck, FailForEvent, FailForActive
  <2>4. ASSUME NEW r \in Revokes, ReceiveRevoke(r) \/ ConfirmRevoke(Identity(r))
        PROVE Shrinks
    BY <2>4 DEF ReceiveRevoke, ConfirmRevoke, FailForEvent, FailForActive
  <2>5. CASE Drain \/ FailClosed
    BY <2>5 DEF Drain, FailClosed, FailForEvent, FailForActive
  <2>6. CASE CompleteCleanup \/ Restart \/ RestoreTooLate
    BY <2>6 DEF CompleteCleanup, Restart, RestoreTooLate, DropLease
  <2>7. CASE BeginIo \/ CompleteIo \/ MarkUnknownInFlight
    BY <2>7 DEF BeginIo, CompleteIo, MarkUnknownInFlight, IoChanges, n3LeaseVars
  <2>8. ASSUME NEW c \in 0..(MaxInFlight + 1), SetInFlight(c) \/ SetCallbacksPending(c)
        PROVE Shrinks
    BY <2>8 DEF SetInFlight, SetCallbacksPending, IoChanges, n3LeaseVars
  <2>9. ASSUME NEW s \in {"Pending", "Succeeded", "Failed"}, ScrubGuestData(s)
        PROVE Shrinks
    BY <2>9 DEF ScrubGuestData, FailForActive, n3LeaseVars
  <2>10. ASSUME NEW r \in RestartRecords, ProcessRestarts(r) PROVE Shrinks
    BY <2>10 DEF ProcessRestarts
  <2>0. ~Shrinks
    OBVIOUS
  <2> HIDE DEF Shrinks
  <2>11. ASSUME NEW g \in Grants, ReceiveGrant(g)
         PROVE  <<h.lease, h.gen>> \notin negotiated
    <3>1. h = g /\ Grantable(g)
      BY <2>11 DEF ReceiveGrant, FailForEvent
    <3> QED
      BY <3>1, GrantIsNew
  <2> QED
    BY <2>0, <2>1, <2>2, <2>3, <2>4, <2>5, <2>6, <2>7, <2>8, <2>9, <2>10, <2>11 DEF N3Next
<1> QED
  BY <1>1, <1>2, HistoryStep, PTL DEF N3Spec, GenerationNeverReused

(***************************************************************************)
(* Types.                                                                  *)
(***************************************************************************)
\* The fields of the lease keep their types in a failure, and their end is well typed.
LEMMA FailKeepsTypes ==
  ASSUME N3TypeOK, FailForEvent \/ FailForActive
  PROVE  /\ lease_state'.tag \in Tags /\ lease_state'.gen \in Nat
         /\ pending_grant' \subseteq Grants /\ active_lease' \subseteq Grants /\ active_revoke' \subseteq Revokes
  BY DEF N3TypeOK, FailForEvent, FailForActive, Failed, State, Tags, Ending

\* Every step keeps every variable in its type; only the identities of messages that
\* were sent are ever logged.
LEMMA N3TypeStep == N3TypeOK /\ [N3Next]_n3Vars => N3TypeOK'
<1> SUFFICES ASSUME N3TypeOK, [N3Next]_n3Vars PROVE N3TypeOK'
  OBVIOUS
<1> USE N3Assumption DEF preflightVars, n3LeaseVars, logVars, memoryVars, ioVars, drainVars
<1> DEFINE LeaseTypes == /\ lease_state'.tag \in Tags /\ lease_state'.gen \in Nat
                         /\ pending_grant' \subseteq Grants /\ active_lease' \subseteq Grants
                         /\ active_revoke' \subseteq Revokes
<1>a. Absent.tag \in Tags /\ Absent.gen \in Nat /\ Failed.tag \in Tags /\ Failed.gen \in Nat
  BY DEF Absent, Failed, State, Tags, Ending
<1>c. Cardinality({}) = 0 /\ \A o : Cardinality({o}) = 1
  BY FS_EmptySet, FS_Singleton, Zenon
<1>1. ASSUME NEW o \in Observations, Observe(o) PROVE N3TypeOK'
  <2>1. preflight_state' \in {"HostUnavailable", "Observing", "Constrained", "DemotionRequested", "Refused"}
    BY <1>1, Zenon DEF Observe, Verdict, OfflineSignal, N3TypeOK
  <2>2. last_observation' = {o} \/ last_observation' = last_observation
    BY <1>1, Zenon DEF Observe, Verdict
  <2>3. last_observation' \subseteq Observations
    BY <2>2 DEF N3TypeOK
  <2>4. Cardinality(last_observation') <= 1
    <3>1. CASE last_observation' = {o}
      <4>1. Cardinality(last_observation') = 1
        BY <3>1, <1>c, Zenon
      <4> QED
        BY <4>1
    <3>2. CASE last_observation' = last_observation
      BY <3>2, Zenon DEF N3TypeOK
    <3> QED
      BY <2>2, <3>1, <3>2
  <2> QED
    BY <1>1, <2>1, <2>3, <2>4 DEF Observe, N3TypeOK
<1>2. CASE RequestDemotion \/ RefuseClaim \/ N3Tick
  <2>1. CASE RequestDemotion \/ RefuseClaim
    BY <1>2, <2>1, Zenon DEF RequestDemotion, RefuseClaim, N3TypeOK
  <2>2. CASE N3Tick
    BY <2>2, SMTT(30) DEF N3Tick, N3TypeOK
  <2> QED
    BY <1>2, <2>1, <2>2, Zenon
<1>3. ASSUME NEW g \in Grants, ReceiveGrant(g) PROVE N3TypeOK'
  <2>1. g.lease \in Leases /\ g.gen \in Nat
    BY Zenon
  <2>2. LeaseTypes
    BY <1>3, <2>1, FailKeepsTypes, SMTT(30) DEF ReceiveGrant, N3TypeOK, State, Tags
  <2>3. generation_history' \in [Leases -> Nat]
    BY <1>3, <2>1, Zenon DEF ReceiveGrant, N3TypeOK
  <2> QED
    BY <1>3, <2>2, <2>3 DEF ReceiveGrant, N3TypeOK
<1>4. ASSUME NEW g \in Grants, AcceptGrantAck(Identity(g)) PROVE N3TypeOK'
  <2>1. Identity(g) \in Identities /\ Identity(g).gen \in Nat
    BY Zenon DEF Identities, Identity
  <2>2. LeaseTypes
    BY <1>4, <2>1, FailKeepsTypes, SMTT(30) DEF AcceptGrantAck, N3TypeOK, State, Tags
  <2>3. accepted_grant_acks' \subseteq Identities
    BY <1>4, <2>1, Zenon DEF AcceptGrantAck, N3TypeOK
  <2> QED
    BY <1>4, <2>2, <2>3, Zenon DEF AcceptGrantAck, N3TypeOK
<1>5. ASSUME NEW r \in Revokes, ReceiveRevoke(r) PROVE N3TypeOK'
  <2>1. LeaseTypes
    <3>1. CASE FailForEvent
      BY <3>1, FailKeepsTypes, Zenon
    <3>2. CASE ~FailForEvent
      <4>1. /\ N3Revocable(r) /\ active_revoke' = {r} /\ lease_state' = State("Quiescing", r.gen)
            /\ UNCHANGED <<pending_grant, active_lease>>
        BY <1>5, <3>2 DEF ReceiveRevoke
      <4>2. r.gen \in Nat
        BY <4>1, SMTT(30) DEF N3Revocable, N3TypeOK
      <4> QED
        BY <4>1, <4>2, Zenon DEF N3TypeOK, State, Tags, Ending
    <3> QED
      BY <3>1, <3>2
  <2>2. scrub_state' \in {"Pending", "Succeeded", "Failed"} /\ sent_drain_ack' \in BOOLEAN
    BY <1>5, Zenon DEF ReceiveRevoke, N3TypeOK
  <2> QED
    BY <1>5, <2>1, <2>2 DEF ReceiveRevoke, N3TypeOK
<1>6. ASSUME NEW r \in Revokes, ConfirmRevoke(Identity(r)) PROVE N3TypeOK'
  <2>1. Identity(r) \in Identities
    BY Zenon DEF Identities
  <2>2. LeaseTypes
    BY <1>6, FailKeepsTypes, SMTT(30) DEF ConfirmRevoke, N3TypeOK, State, Tags, Ending
  <2>3. completed_revokes' \subseteq Identities
    BY <1>6, <2>1, Zenon DEF ConfirmRevoke, N3TypeOK
  <2> QED
    BY <1>6, <2>2, <2>3 DEF ConfirmRevoke, N3TypeOK
<1>7. CASE Drain
  <2>1. LeaseTypes
    BY <1>7, FailKeepsTypes, SMTT(30) DEF Drain, N3TypeOK, State, Tags, Ending
  <2>2. sent_drain_ack' \in BOOLEAN
    BY <1>7, Zenon DEF Drain, N3TypeOK
  <2> QED
    BY <1>7, <2>1, <2>2, Zenon DEF Drain, N3TypeOK
<1>8. CASE BeginIo \/ CompleteIo \/ MarkUnknownInFlight
  <2>1. in_flight' \in 0..MaxInFlight
    BY <1>8, SMTT(30) DEF BeginIo, CompleteIo, MarkUnknownInFlight, N3TypeOK
  <2>2. {unknown_in_flight', dirty'} \subseteq BOOLEAN
    BY <1>8, Zenon DEF BeginIo, CompleteIo, MarkUnknownInFlight, N3TypeOK
  <2> QED
    BY <1>8, <2>1, <2>2, Zenon DEF BeginIo, CompleteIo, MarkUnknownInFlight, IoChanges, N3TypeOK
<1>9. ASSUME NEW c \in 0..(MaxInFlight + 1), SetInFlight(c) \/ SetCallbacksPending(c)
      PROVE N3TypeOK'
  <2>1. in_flight' \in 0..MaxInFlight /\ callbacks_pending' \in 0..MaxInFlight
    BY <1>9, SMTT(30) DEF SetInFlight, SetCallbacksPending, N3TypeOK
  <2>2. unknown_in_flight' \in BOOLEAN
    BY <1>9, Zenon DEF SetInFlight, SetCallbacksPending, N3TypeOK
  <2> QED
    BY <1>9, <2>1, <2>2, Zenon DEF SetInFlight, SetCallbacksPending, IoChanges, N3TypeOK
<1>10. ASSUME NEW s \in {"Pending", "Succeeded", "Failed"}, ScrubGuestData(s) PROVE N3TypeOK'
  <2>1. LeaseTypes
    BY <1>10, FailKeepsTypes DEF ScrubGuestData, N3TypeOK
  <2>2. dirty' \in BOOLEAN
    BY <1>10, ZenonT(40) DEF ScrubGuestData, N3TypeOK
  <2> QED
    BY <1>10, <2>1, <2>2, ZenonT(40) DEF ScrubGuestData, N3TypeOK
<1>11. CASE CompleteCleanup \/ Restart
  <2>1. DropLease
    BY <1>11, Zenon DEF CompleteCleanup, Restart
  <2>2. LeaseTypes
    BY <2>1, <1>a, Zenon DEF DropLease
  <2>3. in_flight' \in 0..MaxInFlight /\ callbacks_pending' \in 0..MaxInFlight
    BY <2>1 DEF DropLease
  <2>4. unknown_in_flight' = FALSE /\ sent_drain_ack' = FALSE /\ dirty' = FALSE /\ forgot' = forgot
    BY <1>11, <2>1, Zenon DEF CompleteCleanup, Restart, DropLease
  <2>5. {unknown_in_flight', sent_drain_ack', dirty', forgot'} \subseteq BOOLEAN
    BY <2>4, Zenon DEF N3TypeOK
  <2>6. /\ preflight_state' \in {"HostUnavailable", "Observing", "Constrained", "DemotionRequested", "Refused"}
        /\ last_observation' \subseteq Observations
        /\ accepted_grant_acks' \subseteq Identities /\ completed_revokes' \subseteq Identities
    BY <1>11, Zenon DEF CompleteCleanup, Restart, ClearEvidence, N3TypeOK
  <2>7. Cardinality(last_observation') <= 1
    <3>1. last_observation' = {} \/ last_observation' = last_observation
      BY <1>11, Zenon DEF CompleteCleanup, Restart, ClearEvidence
    <3>2. CASE last_observation' = {}
      <4>1. Cardinality(last_observation') = 0
        BY <3>2, <1>c, Zenon
      <4> QED
        BY <4>1
    <3>3. CASE last_observation' = last_observation
      BY <3>3, Zenon DEF N3TypeOK
    <3> QED
      BY <3>1, <3>2, <3>3, Zenon
  <2>8. UNCHANGED <<generation_history, restored_restart_epoch, now>> /\ scrub_state' = "Pending"
    BY <1>11, <2>1, Zenon DEF CompleteCleanup, Restart, DropLease
  <2> QED
    BY <2>2, <2>3, <2>5, <2>6, <2>7, <2>8, Zenon DEF N3TypeOK
<1>12. CASE FailClosed \/ RestoreTooLate
  <2>1. LeaseTypes
    BY <1>12, <1>a, FailKeepsTypes, Zenon DEF FailClosed, RestoreTooLate
  <2> QED
    BY <1>12, <2>1, Zenon DEF FailClosed, RestoreTooLate, N3TypeOK
<1>13. ASSUME NEW r \in RestartRecords, ProcessRestarts(r) PROVE N3TypeOK'
  <2>1. LeaseTypes
    BY <1>13, <1>a, Zenon DEF ProcessRestarts
  <2>2. generation_history' \in [Leases -> Nat]
    BY <1>13, CheckpointIsNat DEF ProcessRestarts
  <2>3. restored_restart_epoch' \in Nat
    BY <1>13 DEF ProcessRestarts
  <2>4. in_flight' \in 0..MaxInFlight /\ callbacks_pending' \in 0..MaxInFlight
    BY <1>13 DEF ProcessRestarts
  <2>5. {unknown_in_flight', sent_drain_ack', dirty', forgot'} \subseteq BOOLEAN
    BY <1>13, Zenon DEF ProcessRestarts, N3TypeOK
  <2> QED
    BY <1>13, <1>c, <2>1, <2>2, <2>3, <2>4, <2>5, SMTT(30) DEF ProcessRestarts, ClearEvidence, N3TypeOK
<1>14. CASE UNCHANGED n3Vars
  BY <1>14, Zenon DEF n3Vars, N3TypeOK
<1> QED
  BY <1>1, <1>2, <1>3, <1>4, <1>5, <1>6, <1>7, <1>8, <1>9, <1>10, <1>11, <1>12, <1>13, <1>14, Zenon DEF N3Next

\* Under a guest that scrubs only when its I/O is over, a finished scrub stays current:
\* I/O begins only in Granted, and Granted is reached again only through Absent.
LEMMA ScrubStep == ScrubIsCurrent /\ [N3Next]_n3Vars => ScrubIsCurrent'
<1> SUFFICES ASSUME CarefulScrub, ScrubIsCurrent, [N3Next]_n3Vars PROVE ScrubIsCurrent'
  BY DEF ScrubIsCurrent
<1> USE DEF n3LeaseVars, ioVars, drainVars, State, Failed, Ending
<1>u. CASE UNCHANGED <<n3LeaseVars, ioVars, drainVars>>
  BY <1>u DEF ScrubIsCurrent
<1>f. CASE (FailForEvent \/ FailForActive) /\ UNCHANGED <<ioVars, drainVars>>
  BY <1>f DEF FailForEvent, FailForActive, ScrubIsCurrent
<1>d. CASE DropLease
  BY <1>d DEF DropLease, Absent, ScrubIsCurrent
<1>1. CASE (\E o \in Observations : Observe(o)) \/ RequestDemotion \/ RefuseClaim \/ N3Tick
  BY <1>1, <1>u, Zenon DEF Observe, RequestDemotion, RefuseClaim, N3Tick
<1>2. ASSUME NEW g \in Grants, ReceiveGrant(g) PROVE ScrubIsCurrent'
  <2>1. UNCHANGED <<ioVars, drainVars>>
    BY <1>2 DEF ReceiveGrant
  <2>2. CASE FailForEvent
    BY <2>1, <2>2, <1>f
  <2>3. CASE ~FailForEvent
    <3>1. lease_state.tag = "Absent" /\ lease_state'.tag = "Negotiating"
      BY <1>2, <2>3 DEF ReceiveGrant, Grantable, Absent
    <3> QED
      BY <2>1, <3>1, Zenon DEF ScrubIsCurrent
  <2> QED
    BY <2>2, <2>3, Zenon
<1>3. ASSUME NEW g \in Grants, AcceptGrantAck(Identity(g)) PROVE ScrubIsCurrent'
  BY <1>3, <1>u, <1>f, SMTT(30) DEF AcceptGrantAck, ScrubIsCurrent
<1>4. ASSUME NEW r \in Revokes, ReceiveRevoke(r) PROVE ScrubIsCurrent'
  BY <1>4, <1>u, <1>f DEF ReceiveRevoke, ScrubIsCurrent
<1>5. ASSUME NEW r \in Revokes, ConfirmRevoke(Identity(r)) PROVE ScrubIsCurrent'
  BY <1>5, <1>u, <1>f DEF ConfirmRevoke, ScrubIsCurrent
<1>6. CASE Drain
  BY <1>6, <1>u, <1>f DEF Drain, ScrubIsCurrent
<1>7. CASE BeginIo
  BY <1>7 DEF BeginIo, IoChanges, ScrubIsCurrent
<1>8. CASE CompleteIo
  BY <1>8 DEF CompleteIo, IoChanges, ScrubIsCurrent
<1>9. CASE MarkUnknownInFlight
  BY <1>9, Zenon DEF MarkUnknownInFlight, IoChanges, ScrubIsCurrent
<1>10. ASSUME NEW c \in 0..(MaxInFlight + 1), SetInFlight(c) \/ SetCallbacksPending(c)
       PROVE ScrubIsCurrent'
  BY <1>10 DEF SetInFlight, SetCallbacksPending, IoChanges, ScrubIsCurrent
<1>11. ASSUME NEW s \in {"Pending", "Succeeded", "Failed"}, ScrubGuestData(s) PROVE ScrubIsCurrent'
  BY <1>11 DEF ScrubGuestData, FailForActive, ScrubIsCurrent
<1>12. CASE CompleteCleanup \/ Restart
  BY <1>12, <1>d, Zenon DEF CompleteCleanup, Restart
<1>13. CASE FailClosed \/ RestoreTooLate
  BY <1>13, <1>f DEF FailClosed, RestoreTooLate, ScrubIsCurrent
<1>14. ASSUME NEW r \in RestartRecords, ProcessRestarts(r) PROVE ScrubIsCurrent'
  BY <1>14 DEF ProcessRestarts, ScrubIsCurrent
<1>15. CASE UNCHANGED n3Vars
  BY <1>15, <1>u DEF n3Vars
<1> QED
  BY <1>1, <1>2, <1>3, <1>4, <1>5, <1>6, <1>7, <1>8, <1>9, <1>10, <1>11, <1>12, <1>13, <1>14, <1>15, Zenon DEF N3Next

\* The machine is well typed and agrees with itself in every reachable state.
THEOREM MachineAlwaysSafe == N3Spec => []N3Safe
<1>1. N3Init => N3TypeOK
  <2> SUFFICES ASSUME N3Init PROVE N3TypeOK
    OBVIOUS
  <2>1. lease_state.tag \in Tags /\ lease_state.gen \in Nat
    BY DEF N3Init, Absent, State, Tags
  <2>2. Cardinality(last_observation) <= 1
    BY FS_EmptySet DEF N3Init
  <2>3. generation_history \in [Leases -> Nat] /\ restored_restart_epoch \in Nat
    BY DEF N3Init
  <2>4. in_flight \in 0..MaxInFlight /\ callbacks_pending \in 0..MaxInFlight /\ now \in 0..MaxNow
    BY N3Assumption DEF N3Init
  <2>5. {unknown_in_flight, sent_drain_ack, dirty, forgot} \subseteq BOOLEAN
    BY Zenon DEF N3Init
  <2> QED
    BY <2>1, <2>2, <2>3, <2>4, <2>5 DEF N3Init, N3TypeOK
<1>2. N3Spec => []N3TypeOK
  BY <1>1, N3TypeStep, PTL DEF N3Spec
<1>3. N3Init => ScrubIsCurrent
  BY DEF N3Init, ScrubIsCurrent, Absent, State
<1>4. N3Spec => []ScrubIsCurrent
  BY <1>3, ScrubStep, PTL DEF N3Spec
<1>5. N3TypeOK /\ LeaseStateConsistent /\ ScrubIsCurrent => N3Safe
  BY DEF N3Safe
<1> QED
  BY <1>2, <1>4, <1>5, LeaseAgreement, PTL

\* Authority that was refused or lost is regained only by an observation of a newer epoch.
THEOREM AuthorityIsRenewed == N3Spec => AuthorityNeedsNewEpoch
<1> DEFINE Step == NoAuthority /\ ~NoAuthority' =>
                     (\A o \in last_observation' : \A p \in last_observation : o.epoch > p.epoch)
<1>1. N3TypeOK /\ [N3Next]_n3Vars => [Step]_n3Vars
  <2> SUFFICES ASSUME N3TypeOK, N3Next, NoAuthority, ~NoAuthority' PROVE Step
    BY DEF n3Vars
  <2>u. ~UNCHANGED preflightVars
    BY DEF preflightVars, NoAuthority
  <2>r. preflight_state' \notin {"HostUnavailable", "Refused"}
    BY DEF NoAuthority
  <2>1. PICK o \in Observations : Observe(o)
    <3>1. ~(RequestDemotion \/ RefuseClaim \/ N3Tick \/ Drain \/ BeginIo \/ CompleteIo \/ MarkUnknownInFlight)
      BY <2>u, <2>r DEF RequestDemotion, RefuseClaim, N3Tick, Drain, BeginIo, CompleteIo,
            MarkUnknownInFlight, IoChanges, NoAuthority
    <3>2. ~(CompleteCleanup \/ FailClosed \/ Restart \/ RestoreTooLate)
      BY <2>u, <2>r, SMTT(30) DEF CompleteCleanup, FailClosed, Restart, RestoreTooLate, ClearEvidence
    <3>3. \A g \in Grants : ~ReceiveGrant(g) /\ ~AcceptGrantAck(Identity(g))
      BY <2>u, Zenon DEF ReceiveGrant, AcceptGrantAck
    <3>4. \A r \in Revokes : ~ReceiveRevoke(r) /\ ~ConfirmRevoke(Identity(r))
      BY <2>u DEF ReceiveRevoke, ConfirmRevoke
    <3>5. \A c \in 0..(MaxInFlight + 1) : ~SetInFlight(c) /\ ~SetCallbacksPending(c)
      BY <2>u DEF SetInFlight, SetCallbacksPending, IoChanges
    <3>6. \A s \in {"Pending", "Succeeded", "Failed"} : ~ScrubGuestData(s)
      BY <2>u, Zenon DEF ScrubGuestData
    <3>7. \A r \in RestartRecords : ~ProcessRestarts(r)
      BY <2>r DEF ProcessRestarts, ClearEvidence
    <3> QED
      BY <3>1, <3>2, <3>3, <3>4, <3>5, <3>6, <3>7, Zenon DEF N3Next
  <2>2. last_observation' = {o} /\ o \notin last_observation /\ \A p \in last_observation : ~Contradicts(o, p)
    BY <2>1, <2>r, Zenon DEF Observe, Verdict
  <2>3. \A p \in last_observation : o.epoch \in Nat /\ p.epoch \in Nat
    BY N3Assumption DEF N3TypeOK
  <2> QED
    BY <2>2, <2>3 DEF Contradicts
<1>2. N3Safe => N3TypeOK
  BY DEF N3Safe
<1> QED
  BY <1>1, <1>2, MachineAlwaysSafe, PTL DEF N3Spec, AuthorityNeedsNewEpoch

\* With a guest that scrubs only when its I/O is over, neither a DRAIN_ACK nor the
\* cleanup of a lease leaves data behind.
THEOREM LeaseLeavesNothing == CarefulScrub => (N3Spec => LeaseEndsClean)
<1> DEFINE Step == dirty => lease_state'.tag # "Drained" /\ ~(active_lease # {} /\ CompleteCleanup)
<1> SUFFICES ASSUME CarefulScrub PROVE N3Spec => LeaseEndsClean
  BY Zenon
<1>1. ScrubIsCurrent /\ [N3Next]_n3Vars => [Step]_n3Vars
  <2> SUFFICES ASSUME ScrubIsCurrent, [N3Next]_n3Vars, dirty PROVE Step
    BY DEF n3Vars
  <2>1. scrub_state # "Succeeded" /\ lease_state.tag # "Drained"
    BY DEF ScrubIsCurrent
  <2>2. ~(active_lease # {} /\ CompleteCleanup)
    BY <2>1 DEF CompleteCleanup
  <2> USE DEF n3LeaseVars, State, Failed
  <2>u. CASE UNCHANGED lease_state
    BY <2>u, <2>1, <2>2, Zenon
  <2>f. CASE FailForEvent \/ FailForActive
    BY <2>f, <2>2 DEF FailForEvent, FailForActive
  <2>d. CASE lease_state' = Absent
    BY <2>d, <2>2 DEF Absent
  <2>o. ASSUME NEW n, \/ lease_state' = State("Negotiating", n) \/ lease_state' = State("Granted", n)
                      \/ lease_state' = State("Quiescing", n) \/ lease_state' = State("Revoked", n)
        PROVE  Step
    BY <2>o, <2>2
  <2>3. CASE \/ \E o \in Observations : Observe(o)
             \/ RequestDemotion \/ RefuseClaim \/ N3Tick
             \/ BeginIo \/ CompleteIo \/ MarkUnknownInFlight
             \/ \E c \in 0..(MaxInFlight + 1) : SetInFlight(c) \/ SetCallbacksPending(c)
    BY <2>3, <2>u, Zenon DEF Observe, RequestDemotion, RefuseClaim, N3Tick, BeginIo, CompleteIo,
         MarkUnknownInFlight, SetInFlight, SetCallbacksPending, IoChanges
  <2>4. ASSUME NEW g \in Grants, ReceiveGrant(g) \/ AcceptGrantAck(Identity(g)) PROVE Step
    <3>1. \/ FailForEvent \/ FailForActive
          \/ lease_state' = State("Negotiating", g.gen) \/ lease_state' = State("Granted", Identity(g).gen)
      BY <2>4, Zenon DEF ReceiveGrant, AcceptGrantAck
    <3> QED
      BY <3>1, <2>o, <2>f, Zenon
  <2>5. ASSUME NEW r \in Revokes, ReceiveRevoke(r) \/ ConfirmRevoke(Identity(r)) PROVE Step
    <3>1. \/ FailForEvent \/ FailForActive
          \/ lease_state' = State("Quiescing", r.gen) \/ lease_state' = State("Revoked", 0)
      BY <2>5, Zenon DEF ReceiveRevoke, ConfirmRevoke
    <3> QED
      BY <3>1, <2>o, <2>f, Zenon
  <2>6. CASE Drain
    BY <2>6, <2>1, <2>2, <2>u, <2>f, Zenon DEF Drain
  <2>7. ASSUME NEW s \in {"Pending", "Succeeded", "Failed"}, ScrubGuestData(s) PROVE Step
    BY <2>7, <2>u, <2>f DEF ScrubGuestData
  <2>8. CASE CompleteCleanup \/ Restart \/ FailClosed \/ RestoreTooLate
    <3>1. CASE CompleteCleanup \/ Restart
      BY <3>1, <2>d, Zenon DEF CompleteCleanup, Restart, DropLease
    <3>2. CASE FailClosed
      BY <3>2, <2>f DEF FailClosed
    <3>3. CASE RestoreTooLate
      BY <3>3, <2>2, Zenon DEF RestoreTooLate
    <3> QED
      BY <2>8, <3>1, <3>2, <3>3
  <2>9. ASSUME NEW r \in RestartRecords, ProcessRestarts(r) PROVE Step
    BY <2>9, <2>2, <2>d DEF ProcessRestarts
  <2>10. CASE UNCHANGED n3Vars
    BY <2>10, <2>u DEF n3Vars
  <2> QED
    BY <2>3, <2>4, <2>5, <2>6, <2>7, <2>8, <2>9, <2>10, Zenon DEF N3Next
<1>2. N3Safe => ScrubIsCurrent
  BY DEF N3Safe
<1> QED
  BY <1>1, <1>2, MachineAlwaysSafe, PTL DEF N3Spec, LeaseEndsClean

\* Everything the run checks of the machine's steps, for every instance.
THEOREM LeaseStepsHold == CarefulScrub => (N3Spec => N3Steps)
  BY NoGenerationTwice, FailureIsFinal, AuthorityIsRenewed, LeaseLeavesNothing DEF N3Steps
=============================================================================
