-------------------------- MODULE BrokerSystemProofs --------------------------
(***************************************************************************)
(* Safety of BrokerSystem for any number of slices, agents and faults,     *)
(* provided that the worker answers a zero before it is retried.  The      *)
(* inductive invariant SystemInv joins the core's own (BrokerSafe), the    *)
(* types of everything in flight, and OneTrace: the messages, commands,    *)
(* results, mounts and zeroes that concern a slice are one trace that      *)
(* moves from place to place.  MountsAreOwned alone is not inductive: it   *)
(* says nothing of the SwapOn, queued or in flight, that will mount.       *)
(***************************************************************************)
EXTENDS BrokerSystemCore

-----------------------------------------------------------------------------
(* The worker *)

\* A zero passes from the worker's queue to the confirmations.
LEMMA WorkerKeeps ==
    ASSUME SystemInv, WorkerZeroes
    PROVE  SystemInv'
  <1> DEFINE k == Head(jobs)
  <1>1. /\ jobs \in Seq(Slices) /\ jobs # << >> /\ confirmed \in Seq(Answer)
        /\ jobs' = Tail(jobs) /\ Len(jobs) + Len(confirmed) <= ZeroCap
    BY DEF SystemInv, SystemTypes, WorkerZeroes
  <1>2. /\ Tail(jobs) \in Seq(Slices) /\ k \in Slices
        /\ \A S : /\ Some(Tail(jobs), S) => Some(jobs, S)
                  /\ Once(jobs, S) => Once(Tail(jobs), S)
                  /\ k \in S => Some(jobs, S)
                  /\ Once(jobs, S) /\ k \in S => ~Some(Tail(jobs), S)
    BY <1>1, SomeTail
  <1>3. Len(Tail(jobs)) = Len(jobs) - 1 /\ Len(jobs) \in Nat /\ Len(confirmed) \in Nat BY <1>1
  <1>4. PICK ok \in BOOLEAN : confirmed' = Append(confirmed, [slice |-> k, ok |-> ok])
    <2>1. TRUE \in BOOLEAN /\ FALSE \in BOOLEAN OBVIOUS
    <2> QED BY <2>1, Zenon DEF WorkerZeroes
  <1>5. faults' \in 0..MaxFaults
    <2>1. faults' = faults \/ (faults > 0 /\ faults' = faults - 1) BY DEF WorkerZeroes, NoFault, Fault
    <2> QED BY <2>1, SystemAssumption DEF SystemInv, SystemTypes
  <1> DEFINE a == [slice |-> k, ok |-> ok]
  <1> HIDE DEF k
  <1>6. a \in Answer /\ a \in Zeroed(k) /\ \A s \in Slices : s # k => a \notin Zeroed(s)
    BY <1>2, Zenon DEF Answer, Zeroed
  <1> HIDE DEF a
  <1>7. /\ confirmed' \in Seq(Answer)
        /\ \A S : /\ Some(confirmed', S) <=> Some(confirmed, S) \/ a \in S
                  /\ Once(confirmed, S) /\ (a \in S => ~Some(confirmed, S)) => Once(confirmed', S)
    BY <1>1, <1>4, <1>6, SomeAppend DEF a
  <1>8. Len(confirmed') = Len(confirmed) + 1 BY <1>1, <1>4
  <1>9. BrokerSafe'
    <2>1. UNCHANGED vars BY DEF WorkerZeroes
    <2> QED BY <2>1, TypeStep, SlicesStep, LeaseStep, Zenon DEF SystemInv, BrokerSafe
  <1>10. SystemTypes'
    BY <1>1, <1>2, <1>3, <1>5, <1>7, <1>8 DEF SystemInv, SystemTypes, WorkerZeroes, agentVars
  <1>11. ASSUME NEW s \in Slices PROVE ZeroTrace(s)'
    <2>1. ZeroTrace(s) BY DEF SystemInv, OneTrace
    <2>2. state' = state /\ zeroTicks' = zeroTicks BY DEF WorkerZeroes, vars, coreVars, sliceVars
    <2>3. CASE s = k BY <1>1, <1>2, <1>6, <1>7, <2>1, <2>2, <2>3, Zenon DEF ZeroTrace, InUse
    <2>4. CASE s # k BY <1>1, <1>2, <1>6, <1>7, <2>1, <2>2, <2>4, Zenon DEF ZeroTrace, InUse
    <2> QED BY <2>3, <2>4
  <1>12. ASSUME NEW s \in Slices, NEW t \in Tenants PROVE AgentTrace(t, s)'
    BY DEF SystemInv, OneTrace, WorkerZeroes, vars, coreVars, sliceVars, agentVars, AgentTrace, InUse
  <1> QED BY <1>9, <1>10, <1>11, <1>12 DEF SystemInv, OneTrace

-----------------------------------------------------------------------------
(* The agents *)

\* A step of agent t that touches no queue of another agent keeps the invariant if
\* it keeps the types and t's own trace of every slice.
LEMMA AgentFrame ==
    ASSUME SystemInv, UNCHANGED <<vars, zeroVars>>, NEW t \in Tenants,
           \A u \in Tenants : u # t =>
              /\ toAgent'[u] = toAgent[u] /\ cmds'[u] = cmds[u] /\ mounted'[u] = mounted[u]
              /\ results'[u] = results[u] /\ toBroker'[u] = toBroker[u],
           SystemTypes', \A s \in Slices : AgentTrace(t, s)'
    PROVE  SystemInv'
  <1>1. BrokerSafe'
    BY TypeStep, SlicesStep, LeaseStep, Zenon DEF SystemInv, BrokerSafe
  <1>2. state' = state /\ owner' = owner /\ zeroTicks' = zeroTicks BY Zenon DEF vars, coreVars, sliceVars
  <1>3. \A s \in Slices : ZeroTrace(s)'
    BY <1>2, Zenon DEF SystemInv, OneTrace, ZeroTrace, InUse, zeroVars
  <1>4. ASSUME NEW s \in Slices, NEW u \in Tenants, u # t PROVE AgentTrace(u, s)'
    <2>1. AgentTrace(u, s) BY Zenon DEF SystemInv, OneTrace
    <2> QED BY <1>2, <1>4, <2>1, Zenon DEF AgentTrace, InUse
  <1> QED BY <1>1, <1>3, <1>4, Zenon DEF SystemInv, OneTrace

\* What is sent to the broker, other than a result, is no part of a trace.
LEMMA SendKeeps ==
    ASSUME SystemInv, NEW t \in Tenants, NEW m \in BrokerMsg, Send(t, m),
           \A s \in Slices : m \notin Returns(s),
           UNCHANGED <<vars, toAgent, agentVars, zeroVars, faults>>
    PROVE  SystemInv'
  <1>1. toBroker \in [Tenants -> Seq(BrokerMsg)] BY DEF SystemInv, SystemTypes
  <1>2. toBroker' = [toBroker EXCEPT ![t] = Append(toBroker[t], m)] BY DEF Send
  <1>3. /\ Append(toBroker[t], m) \in Seq(BrokerMsg)
        /\ \A S : /\ Some(Append(toBroker[t], m), S) <=> Some(toBroker[t], S) \/ m \in S
                  /\ Once(toBroker[t], S) /\ (m \in S => ~Some(toBroker[t], S)) => Once(Append(toBroker[t], m), S)
    BY <1>1, SomeAppend
  <1>4. toBroker' \in [Tenants -> Seq(BrokerMsg)] /\ toBroker'[t] = Append(toBroker[t], m) BY <1>1, <1>2, <1>3
  <1>5. SystemTypes' BY <1>4, Zenon DEF SystemInv, SystemTypes, agentVars, zeroVars
  <1>6. ASSUME NEW s \in Slices PROVE AgentTrace(t, s)'
    <2>1. AgentTrace(t, s) BY DEF SystemInv, OneTrace
    <2>2. state' = state /\ owner' = owner /\ zeroTicks' = zeroTicks BY DEF vars, coreVars, sliceVars
    <2>3. /\ Some(toBroker'[t], Returns(s)) <=> Some(toBroker[t], Returns(s))
          /\ Once(toBroker[t], Returns(s)) => Once(toBroker'[t], Returns(s))
      BY <1>3, <1>4, Zenon
    <2> QED BY <2>1, <2>2, <2>3, Zenon DEF AgentTrace, InUse, agentVars
  <1>7. \A u \in Tenants : u # t => toBroker'[u] = toBroker[u] BY <1>1, <1>2
  <1> QED BY <1>5, <1>6, <1>7, AgentFrame DEF agentVars

\* A pressure report (SendPsi) is harmless: it announces no use of a slice.
LEMMA SendPsiKeeps ==
    ASSUME SystemInv, NEW t \in Tenants, SendPsi(t)
    PROVE  SystemInv'
  <1>1. Heartbeat(t) \in BrokerMsg
    <2>1. mounted[t] \in SUBSET Slices BY DEF SystemInv, SystemTypes
    <2> QED BY <2>1 DEF Heartbeat, BrokerMsg
  <1>2. \A s \in Slices : Heartbeat(t) \notin Returns(s) BY DEF Heartbeat, Returns
  <1> QED BY <1>1, <1>2, SendKeeps DEF SendPsi, NoFault

\* A lease message is harmless for the same reason.
LEMMA SendLeaseKeeps ==
    ASSUME SystemInv, NEW t \in Tenants, SendLease(t)
    PROVE  SystemInv'
  <1>1. UNCHANGED <<vars, toAgent, agentVars, zeroVars, faults>> BY DEF SendLease, NoFault
  <1>2. ASSUME NEW n \in LeaseSizes, Send(t, [kind |-> "LeaseRequest", size |-> n]) PROVE SystemInv'
    <2>1. n \in 0..(Cardinality(Slices) + 1)
      BY SystemAssumption, BrokerAssumption, FS_CardinalityType
    <2>2. [kind |-> "LeaseRequest", size |-> n] \in BrokerMsg BY <2>1, Zenon DEF BrokerMsg
    <2>3. \A s \in Slices : [kind |-> "LeaseRequest", size |-> n] \notin Returns(s) BY DEF Returns
    <2> QED BY <1>1, <1>2, <2>2, <2>3, SendKeeps, Zenon
  <1>3. ASSUME Send(t, [kind |-> "LeaseRelease", id |-> lease.id]) PROVE SystemInv'
    <2>1. lease.id \in 0..MaxLeaseId BY DEF SystemInv, BrokerSafe, TypeOK, LeaseType
    <2>2. [kind |-> "LeaseRelease", id |-> lease.id] \in BrokerMsg BY <2>1 DEF BrokerMsg
    <2>3. \A s \in Slices : [kind |-> "LeaseRelease", id |-> lease.id] \notin Returns(s) BY DEF Returns
    <2> QED BY <1>1, <1>3, <2>2, <2>3, SendKeeps, Zenon
  <1> QED BY <1>2, <1>3, Zenon DEF SendLease

\* A new session starts with what connect() sends: Register and a heartbeat.
LEMMA ConnectKeeps ==
    ASSUME SystemInv, NEW t \in Tenants, Connect(t)
    PROVE  SystemInv'
  <1> DEFINE q == <<[kind |-> "Register"], Heartbeat(t)>>
  <1>1. toBroker \in [Tenants -> Seq(BrokerMsg)] BY DEF SystemInv, SystemTypes
  <1>2. toBroker' = [toBroker EXCEPT ![t] = q] BY DEF Connect
  <1>3. [kind |-> "Register"] \in BrokerMsg /\ Heartbeat(t) \in BrokerMsg
    <2>1. mounted[t] \in SUBSET Slices BY DEF SystemInv, SystemTypes
    <2> QED BY <2>1 DEF Heartbeat, BrokerMsg
  <1>4. q \in Seq(BrokerMsg) BY <1>3
  <1>5. ASSUME NEW s \in Slices PROVE ~Some(q, Returns(s)) /\ Once(q, Returns(s))
    <2>1. [kind |-> "Register"] \notin Returns(s)
      <3>1. \A x \in Returns(s) : x.kind \in {"SwapOnDone", "SwapOffDone"} BY DEF Returns
      <3> QED BY <3>1
    <2>2. Heartbeat(t) \notin Returns(s) BY DEF Heartbeat, Returns
    <2>3. DOMAIN q = {1, 2} /\ q[1] = [kind |-> "Register"] /\ q[2] = Heartbeat(t) OBVIOUS
    <2> QED BY <2>1, <2>2, <2>3, Zenon DEF Some, Once
  <1> HIDE DEF q
  <1>6. toBroker' \in [Tenants -> Seq(BrokerMsg)] /\ toBroker'[t] = q BY <1>1, <1>2, <1>4, Zenon
  <1>7. SystemTypes' BY <1>6, Zenon DEF SystemInv, SystemTypes, Connect, zeroVars, NoFault
  <1>8. ASSUME NEW s \in Slices PROVE AgentTrace(t, s)'
    <2>1. AgentTrace(t, s) BY DEF SystemInv, OneTrace
    <2>2. state' = state /\ owner' = owner /\ zeroTicks' = zeroTicks
      BY DEF Connect, vars, coreVars, sliceVars
    <2>3. toAgent' = toAgent /\ cmds' = cmds /\ results' = results /\ mounted' = mounted BY DEF Connect
    <2> QED BY <1>5, <1>6, <2>1, <2>2, <2>3, Zenon DEF AgentTrace, InUse
  <1>9. \A u \in Tenants : u # t => toBroker'[u] = toBroker[u] BY <1>1, <1>2
  <1> QED BY <1>7, <1>8, <1>9, AgentFrame, Zenon DEF Connect

\* A result passes from the execution thread to the session.
LEMMA SendResultKeeps ==
    ASSUME SystemInv, NEW t \in Tenants, SendResult(t)
    PROVE  SystemInv'
  <1> DEFINE r == Head(results[t])
  <1>1. /\ toBroker \in [Tenants -> Seq(BrokerMsg)] /\ results \in [Tenants -> Seq(Result)]
        /\ results[t] # << >> /\ active \in [Tenants -> SUBSET Slices]
    BY DEF SystemInv, SystemTypes, SendResult
  <1>2. /\ r \in Result /\ Tail(results[t]) \in Seq(Result)
        /\ \A S : /\ Some(Tail(results[t]), S) => Some(results[t], S)
                  /\ Once(results[t], S) => Once(Tail(results[t]), S)
                  /\ r \in S => Some(results[t], S)
                  /\ Once(results[t], S) /\ r \in S => ~Some(Tail(results[t]), S)
    BY <1>1, SomeTail, Zenon
  <1>3. /\ toBroker' = [toBroker EXCEPT ![t] = Append(toBroker[t], r)]
        /\ results' = [results EXCEPT ![t] = Tail(results[t])]
        /\ active' = active \/ active' = [active EXCEPT ![t] = active[t] \ {r.slice}]
    BY DEF SendResult, Send
  <1> HIDE DEF r
  <1>4. r \in BrokerMsg BY <1>2 DEF BrokerMsg
  <1>5. /\ Append(toBroker[t], r) \in Seq(BrokerMsg)
        /\ \A S : /\ Some(Append(toBroker[t], r), S) <=> Some(toBroker[t], S) \/ r \in S
                  /\ Once(toBroker[t], S) /\ (r \in S => ~Some(toBroker[t], S)) => Once(Append(toBroker[t], r), S)
    BY <1>1, <1>4, SomeAppend
  <1>6. /\ toBroker' \in [Tenants -> Seq(BrokerMsg)] /\ results' \in [Tenants -> Seq(Result)]
        /\ toBroker'[t] = Append(toBroker[t], r) /\ results'[t] = Tail(results[t])
        /\ active' \in [Tenants -> SUBSET Slices]
    BY <1>1, <1>2, <1>3, <1>5, Zenon
  <1>7. SystemTypes' BY <1>6, SMTT(30) DEF SystemInv, SystemTypes, SendResult, zeroVars, NoFault
  <1>8. ASSUME NEW s \in Slices PROVE AgentTrace(t, s)'
    <2>1. AgentTrace(t, s) BY DEF SystemInv, OneTrace
    <2>2. state' = state /\ owner' = owner /\ zeroTicks' = zeroTicks
      BY DEF SendResult, vars, coreVars, sliceVars
    <2>3. toAgent' = toAgent /\ cmds' = cmds /\ mounted' = mounted BY Zenon DEF SendResult
    <2>4. /\ Some(results'[t], Returns(s)) => Some(results[t], Returns(s))
          /\ Once(results[t], Returns(s)) => Once(results'[t], Returns(s))
          /\ r \in Returns(s) => Some(results[t], Returns(s))
          /\ Once(results[t], Returns(s)) /\ r \in Returns(s) => ~Some(results'[t], Returns(s))
          /\ Some(toBroker'[t], Returns(s)) <=> Some(toBroker[t], Returns(s)) \/ r \in Returns(s)
          /\ Once(toBroker[t], Returns(s)) /\ (r \in Returns(s) => ~Some(toBroker[t], Returns(s)))
               => Once(toBroker'[t], Returns(s))
      BY <1>2, <1>5, <1>6, Zenon
    <2> QED BY <2>1, <2>2, <2>3, <2>4, Zenon DEF AgentTrace, InUse
  <1>9. \A u \in Tenants : u # t => toBroker'[u] = toBroker[u] /\ results'[u] = results[u] BY <1>1, <1>3, Zenon
  <1> QED BY <1>7, <1>8, <1>9, AgentFrame, Zenon DEF SendResult

\* The swapoffs an agent queues are finitely many and start no use of a slice.
LEMMA OffsFacts ==
    ASSUME NEW S \in SUBSET Slices
    PROVE  /\ Offs(S) \in Seq(Cmd)
           /\ \A s \in Slices : ~Some(Offs(S), OnCmds(s)) /\ Once(Offs(S), OnCmds(s))
  <1> DEFINE T == {[op |-> "Off", slice |-> s] : s \in S}
  <1>1. IsFiniteSet(T)
    <2>1. IsFiniteSet(S) BY BrokerAssumption, FS_Subset, Zenon
    <2> DEFINE f == [s \in S |-> [op |-> "Off", slice |-> s]]
    <2>2. f \in Surjection(S, T) BY DEF Surjection
    <2> QED BY <2>1, <2>2, FS_Surjection
  <1>2. T \subseteq Cmd BY DEF Cmd
  <1>3. \A s \in Slices : T \cap OnCmds(s) = {} BY DEF OnCmds
  <1>4. Offs(S) = Listed(T) BY DEF Offs
  <1> HIDE DEF T
  <1>5. /\ Listed(T) \in Seq(T)
        /\ \A s \in Slices : ~Some(Listed(T), OnCmds(s)) /\ Once(Listed(T), OnCmds(s))
    BY <1>1, <1>3, ListedFacts
  <1>6. Listed(T) \in Seq(Cmd) BY <1>2, <1>5, WiderSeq, Zenon
  <1> QED BY <1>4, <1>5, <1>6, Zenon

\* A SwapOn passes from the session to the execution thread.
LEMMA AgentReceivesKeeps ==
    ASSUME SystemInv, NEW t \in Tenants, AgentReceives(t)
    PROVE  SystemInv'
  <1> DEFINE m == Head(toAgent[t])
             on == IF m.kind = "SwapOn" THEN <<[op |-> "On", slice |-> m.slice]>> ELSE << >>
             off == CASE m.kind = "SwapOff" -> {m.slice} [] m.kind = "DemoteAll" -> active[t] [] OTHER -> {}
             added == IF on = << >> THEN {} ELSE {m.slice}
  <1>1. /\ toAgent \in [Tenants -> Seq(AgentMsg)] /\ cmds \in [Tenants -> Seq(Cmd)]
        /\ toAgent[t] # << >> /\ active \in [Tenants -> SUBSET Slices]
    BY SMTT(30) DEF SystemInv, SystemTypes, AgentReceives
  <1>2. /\ m \in AgentMsg /\ Tail(toAgent[t]) \in Seq(AgentMsg)
        /\ \A S : /\ Some(Tail(toAgent[t]), S) => Some(toAgent[t], S)
                  /\ Once(toAgent[t], S) => Once(Tail(toAgent[t]), S)
                  /\ m \in S => Some(toAgent[t], S)
                  /\ Once(toAgent[t], S) /\ m \in S => ~Some(Tail(toAgent[t]), S)
    BY <1>1, SomeTail, Zenon
  <1>3. /\ active' = [active EXCEPT ![t] = (active[t] \cup added) \ off]
        /\ cmds' = [cmds EXCEPT ![t] = cmds[t] \o on \o Offs(off)]
        /\ toAgent' = [toAgent EXCEPT ![t] = Tail(toAgent[t])]
    BY Zenon DEF AgentReceives
  <1> HIDE DEF m
  <1>4. m.kind \in {"SwapOn", "SwapOff"} => m.slice \in Slices
    BY <1>2 DEF AgentMsg
  <1>5. off \in SUBSET Slices
    <2>1. CASE m.kind = "SwapOff" BY <1>4, <2>1, Zenon
    <2>2. CASE m.kind = "DemoteAll" BY <1>1, <2>2
    <2>3. CASE m.kind \notin {"SwapOff", "DemoteAll"} BY <2>3, Zenon
    <2> QED BY <2>1, <2>2, <2>3, Zenon
  <1>6. /\ on \in Seq(Cmd) /\ added \subseteq Slices
        /\ \A s \in Slices : /\ Some(on, OnCmds(s)) => m.kind = "SwapOn" /\ m.slice = s
                             /\ Once(on, OnCmds(s))
    <2>1. CASE m.kind = "SwapOn"
      <3>1. on = <<[op |-> "On", slice |-> m.slice]>> /\ [op |-> "On", slice |-> m.slice] \in Cmd
        BY <1>4, <2>1 DEF Cmd
      <3>2. DOMAIN on = {1} /\ on[1] = [op |-> "On", slice |-> m.slice] /\ on \in Seq(Cmd) BY <3>1
      <3>3. added \subseteq Slices BY <1>4, <2>1, Zenon
      <3> HIDE DEF on, added
      <3> QED BY <2>1, <3>2, <3>3 DEF Some, Once, OnCmds
    <2>2. CASE m.kind # "SwapOn"
      <3>1. on = << >> BY <2>2
      <3>2. << >> \in Seq(Cmd) /\ DOMAIN << >> = {} OBVIOUS
      <3> QED BY <3>1, <3>2 DEF Some, Once
    <2> QED BY <2>1, <2>2, Zenon
  <1>7. ASSUME NEW s \in Slices, m.kind = "SwapOn", m.slice = s PROVE m \in OnMsgs(s)
    <2>1. m.to \in Tenants /\ m = [to |-> m.to, kind |-> m.kind, slice |-> m.slice] BY <1>2 DEF AgentMsg
    <2> QED BY <1>7, <2>1, Zenon DEF OnMsgs, ToTenant
  <1> HIDE DEF on, off, added
  <1>8. /\ Offs(off) \in Seq(Cmd)
        /\ \A s \in Slices : ~Some(Offs(off), OnCmds(s)) /\ Once(Offs(off), OnCmds(s))
    BY <1>5, OffsFacts, Zenon
  <1>9. /\ cmds[t] \o on \in Seq(Cmd)
        /\ \A S : /\ Some(cmds[t] \o on, S) <=> Some(cmds[t], S) \/ Some(on, S)
                  /\ Once(cmds[t], S) /\ Once(on, S) /\ ~(Some(cmds[t], S) /\ Some(on, S))
                       => Once(cmds[t] \o on, S)
    BY <1>1, <1>6, SomeConcat
  <1>10. /\ (cmds[t] \o on) \o Offs(off) \in Seq(Cmd)
         /\ \A S : /\ Some((cmds[t] \o on) \o Offs(off), S) <=> Some(cmds[t] \o on, S) \/ Some(Offs(off), S)
                   /\ Once(cmds[t] \o on, S) /\ Once(Offs(off), S) /\ ~(Some(cmds[t] \o on, S) /\ Some(Offs(off), S))
                        => Once((cmds[t] \o on) \o Offs(off), S)
    BY <1>8, <1>9, SomeConcat, ZenonT(40)
  <1>11. /\ toAgent' \in [Tenants -> Seq(AgentMsg)] /\ cmds' \in [Tenants -> Seq(Cmd)]
         /\ toAgent'[t] = Tail(toAgent[t]) /\ cmds'[t] = (cmds[t] \o on) \o Offs(off)
         /\ active' \in [Tenants -> SUBSET Slices]
    BY <1>1, <1>2, <1>3, <1>6, <1>10
  <1>12. SystemTypes' BY <1>11, Zenon DEF SystemInv, SystemTypes, AgentReceives, zeroVars, NoFault
  <1>13. ASSUME NEW s \in Slices PROVE AgentTrace(t, s)'
    <2>1. AgentTrace(t, s) BY DEF SystemInv, OneTrace
    <2>2. state' = state /\ owner' = owner /\ zeroTicks' = zeroTicks
      BY Zenon DEF AgentReceives, vars, coreVars, sliceVars
    <2>3. toBroker' = toBroker /\ results' = results /\ mounted' = mounted BY DEF AgentReceives
    <2>4. /\ Some(toAgent'[t], OnMsgs(s)) => Some(toAgent[t], OnMsgs(s))
          /\ Once(toAgent[t], OnMsgs(s)) => Once(toAgent'[t], OnMsgs(s))
          /\ Some(on, OnCmds(s)) => Some(toAgent[t], OnMsgs(s))
          /\ Once(toAgent[t], OnMsgs(s)) /\ Some(on, OnCmds(s)) => ~Some(toAgent'[t], OnMsgs(s))
      BY <1>2, <1>6, <1>7, <1>11, Zenon
    <2>5. /\ Some(cmds'[t], OnCmds(s)) <=> Some(cmds[t], OnCmds(s)) \/ Some(on, OnCmds(s))
          /\ Once(cmds[t], OnCmds(s)) /\ ~(Some(cmds[t], OnCmds(s)) /\ Some(on, OnCmds(s)))
               => Once(cmds'[t], OnCmds(s))
      BY <1>6, <1>8, <1>9, <1>10, <1>11, Zenon
    <2> QED BY <2>1, <2>2, <2>3, <2>4, <2>5, Zenon DEF AgentTrace, InUse
  <1>14. \A u \in Tenants : u # t => toAgent'[u] = toAgent[u] /\ cmds'[u] = cmds[u] BY <1>1, <1>3
  <1> QED BY <1>12, <1>13, <1>14, AgentFrame, Zenon DEF AgentReceives

\* The end of a session takes SwapOns in flight and mounted slices out of the trace.
LEMMA SessionEndsKeeps ==
    ASSUME SystemInv, NEW t \in Tenants, SessionEnds(t)
    PROVE  SystemInv'
  <1> DEFINE m == [kind |-> "Gone"]
  <1>1. /\ toBroker \in [Tenants -> Seq(BrokerMsg)] /\ toAgent \in [Tenants -> Seq(AgentMsg)]
        /\ mounted \in [Tenants -> SUBSET Slices] /\ active \in [Tenants -> SUBSET Slices]
    BY DEF SystemInv, SystemTypes
  <1>2. PICK kept \in SUBSET (active[t] \cap mounted[t]) :
           mounted' = [mounted EXCEPT ![t] = mounted[t] \ (active[t] \ kept)]
    BY Zenon DEF SessionEnds
  <1>3. m \in BrokerMsg /\ \A s \in Slices : m \notin Returns(s)
    <2>1. \A s \in Slices : \A x \in Returns(s) : x.kind \in {"SwapOnDone", "SwapOffDone"} BY DEF Returns
    <2> QED BY <2>1, Zenon DEF BrokerMsg
  <1>4. toBroker' = [toBroker EXCEPT ![t] = Append(toBroker[t], m)] BY Zenon DEF SessionEnds, Send
  <1> HIDE DEF m
  <1>5. /\ Append(toBroker[t], m) \in Seq(BrokerMsg)
        /\ \A S : /\ Some(Append(toBroker[t], m), S) <=> Some(toBroker[t], S) \/ m \in S
                  /\ Once(toBroker[t], S) /\ (m \in S => ~Some(toBroker[t], S)) => Once(Append(toBroker[t], m), S)
    BY <1>1, <1>3, SomeAppend
  <1>6. /\ toBroker' \in [Tenants -> Seq(BrokerMsg)] /\ toBroker'[t] = Append(toBroker[t], m)
        /\ mounted' \in [Tenants -> SUBSET Slices] /\ mounted'[t] \subseteq mounted[t]
    BY <1>1, <1>2, <1>4, <1>5, Zenon
  <1>7. toAgent' \in [Tenants -> Seq(AgentMsg)] /\ toAgent'[t] = << >> /\ active' \in [Tenants -> SUBSET Slices]
    BY <1>1 DEF SessionEnds
  <1>8. faults' \in 0..MaxFaults
    <2>1. faults > 0 /\ faults' = faults - 1 BY Zenon DEF SessionEnds, Fault
    <2> QED BY <2>1, SystemAssumption DEF SystemInv, SystemTypes
  <1>9. SystemTypes' BY <1>6, <1>7, <1>8 DEF SystemInv, SystemTypes, SessionEnds, zeroVars
  <1>10. ASSUME NEW s \in Slices PROVE AgentTrace(t, s)'
    <2>1. AgentTrace(t, s) BY DEF SystemInv, OneTrace
    <2>2. state' = state /\ owner' = owner /\ zeroTicks' = zeroTicks
      BY DEF SessionEnds, vars, coreVars, sliceVars
    <2>3. cmds' = cmds /\ results' = results BY Zenon DEF SessionEnds
    <2>4. ~Some(toAgent'[t], OnMsgs(s)) /\ Once(toAgent'[t], OnMsgs(s)) BY <1>7 DEF Some, Once
    <2>5. /\ Some(toBroker'[t], Returns(s)) <=> Some(toBroker[t], Returns(s))
          /\ Once(toBroker[t], Returns(s)) => Once(toBroker'[t], Returns(s))
      BY <1>3, <1>5, <1>6, Zenon
    <2>6. s \in mounted'[t] => s \in mounted[t] BY <1>6, Zenon
    <2> QED BY <2>1, <2>2, <2>3, <2>4, <2>5, <2>6, Zenon DEF AgentTrace, InUse
  <1>11. \A u \in Tenants : u # t =>
            toBroker'[u] = toBroker[u] /\ mounted'[u] = mounted[u] /\ toAgent'[u] = toAgent[u]
    <2>1. toAgent' = [toAgent EXCEPT ![t] = << >>] BY Zenon DEF SessionEnds
    <2> QED BY <1>1, <1>2, <1>4, <2>1, Zenon
  <1> QED BY <1>9, <1>10, <1>11, AgentFrame, Zenon DEF SessionEnds

\* A command becomes a mount, an unmount or nothing, and a result.
LEMMA ExecKeeps ==
    ASSUME SystemInv, NEW t \in Tenants, Exec(t)
    PROVE  SystemInv'
  <1> DEFINE c == Head(cmds[t])
             k == c.slice
  <1>1. /\ cmds \in [Tenants -> Seq(Cmd)] /\ cmds[t] # << >>
        /\ results \in [Tenants -> Seq(Result)] /\ mounted \in [Tenants -> SUBSET Slices]
    BY DEF SystemInv, SystemTypes, Exec
  <1>2. /\ c \in Cmd /\ Tail(cmds[t]) \in Seq(Cmd)
        /\ \A S : /\ Some(Tail(cmds[t]), S) => Some(cmds[t], S)
                  /\ Once(cmds[t], S) => Once(Tail(cmds[t]), S)
                  /\ c \in S => Some(cmds[t], S)
                  /\ Once(cmds[t], S) /\ c \in S => ~Some(Tail(cmds[t]), S)
    BY <1>1, SomeTail, Zenon
  <1>3. (c.op = "On" /\ ExecOn(t, k)) \/ (c.op = "Off" /\ ExecOff(t, k)) BY DEF Exec
  <1>4. cmds' = [cmds EXCEPT ![t] = Tail(cmds[t])] BY DEF Exec
  <1>5. k \in Slices /\ c = [op |-> c.op, slice |-> k] BY <1>2 DEF Cmd
  <1> HIDE DEF c, k
  <1>6. c.op = "On" => c \in OnCmds(k) BY <1>5 DEF OnCmds
  \* the result, and what becomes of the mounted slices
  <1>7. PICK r \in Result :
           /\ results' = [results EXCEPT ![t] = Append(results[t], r)]
           /\ r.slice = k
           /\ \/ /\ c.op = "On" /\ r.kind = "SwapOnDone" /\ r.ok = TRUE
                 /\ mounted' = [mounted EXCEPT ![t] = mounted[t] \cup {k}]
              \/ c.op = "On" /\ r.kind = "SwapOnDone" /\ r.ok = FALSE /\ mounted' = mounted
              \/ /\ c.op = "Off" /\ r.kind = "SwapOffDone" /\ r.ok = TRUE /\ k \in mounted[t]
                 /\ mounted' = [mounted EXCEPT ![t] = mounted[t] \ {k}]
              \/ c.op = "Off" /\ r.kind = "SwapOffDone" /\ r.ok = FALSE /\ mounted' = mounted
    <2> DEFINE rec(kind, ok) == [kind |-> kind, slice |-> k, ok |-> ok]
    <2>1. \A kind \in {"SwapOnDone", "SwapOffDone"}, ok \in BOOLEAN :
             /\ rec(kind, ok) \in Result /\ rec(kind, ok).kind = kind
             /\ rec(kind, ok).slice = k /\ rec(kind, ok).ok = ok
      BY <1>5 DEF Result
    <2>2. CASE c.op = "On" /\ ExecOn(t, k)
      <3>1. \/ /\ results' = [results EXCEPT ![t] = Append(results[t], rec("SwapOnDone", TRUE))]
               /\ mounted' = [mounted EXCEPT ![t] = mounted[t] \cup {k}]
            \/ /\ results' = [results EXCEPT ![t] = Append(results[t], rec("SwapOnDone", FALSE))]
               /\ mounted' = mounted
        BY <2>2 DEF ExecOn, Report
      <3> HIDE DEF rec
      <3> QED BY <2>1, <2>2, <3>1, Zenon
    <2>3. CASE c.op = "Off" /\ ExecOff(t, k)
      <3>1. \/ /\ results' = [results EXCEPT ![t] = Append(results[t], rec("SwapOffDone", TRUE))]
               /\ mounted' = [mounted EXCEPT ![t] = mounted[t] \ {k}] /\ k \in mounted[t]
            \/ /\ results' = [results EXCEPT ![t] = Append(results[t], rec("SwapOffDone", FALSE))]
               /\ mounted' = mounted
        BY <2>3 DEF ExecOff, Report
      <3> HIDE DEF rec
      <3> QED BY <2>1, <2>3, <3>1, Zenon
    <2> QED BY <1>3, <2>2, <2>3, Zenon
  <1>8. /\ Append(results[t], r) \in Seq(Result)
        /\ \A S : /\ Some(Append(results[t], r), S) <=> Some(results[t], S) \/ r \in S
                  /\ Once(results[t], S) /\ (r \in S => ~Some(results[t], S)) => Once(Append(results[t], r), S)
    BY <1>1, SomeAppend, Zenon
  <1>9. \A s \in Slices : r \in Returns(s) <=>
           s = k /\ (\/ r.kind = "SwapOnDone" /\ r.ok = FALSE
                     \/ r.kind = "SwapOffDone" /\ r.ok = TRUE)
    <2>1. r = [kind |-> r.kind, slice |-> r.slice, ok |-> r.ok] BY <1>7 DEF Result
    <2> QED BY <1>7, <2>1 DEF Returns
  <1>10. /\ results' \in [Tenants -> Seq(Result)] /\ cmds' \in [Tenants -> Seq(Cmd)]
         /\ results'[t] = Append(results[t], r) /\ cmds'[t] = Tail(cmds[t])
         /\ mounted' \in [Tenants -> SUBSET Slices]
    <2>1. mounted' \in [Tenants -> SUBSET Slices] BY <1>1, <1>5, <1>7
    <2> QED BY <1>1, <1>2, <1>4, <1>7, <1>8, <2>1, Zenon
  <1>11. faults' \in 0..MaxFaults
    <2>1. faults' = faults \/ (faults > 0 /\ faults' = faults - 1)
      BY <1>3, Zenon DEF ExecOn, ExecOff, NoFault, Fault
    <2> QED BY <2>1, SystemAssumption DEF SystemInv, SystemTypes
  <1>12. SystemTypes' BY <1>10, <1>11, Zenon DEF SystemInv, SystemTypes, Exec, zeroVars
  <1>13. ASSUME NEW s \in Slices PROVE AgentTrace(t, s)'
    <2>1. AgentTrace(t, s) BY DEF SystemInv, OneTrace
    <2>2. state' = state /\ owner' = owner /\ zeroTicks' = zeroTicks
      BY DEF Exec, vars, coreVars, sliceVars
    <2>3. toAgent' = toAgent /\ toBroker' = toBroker BY DEF Exec
    <2>4. /\ Some(results'[t], Returns(s)) <=> Some(results[t], Returns(s)) \/ r \in Returns(s)
          /\ Once(results[t], Returns(s)) /\ (r \in Returns(s) => ~Some(results[t], Returns(s)))
               => Once(results'[t], Returns(s))
      BY <1>8, <1>10, Zenon
    <2>5. /\ Some(cmds'[t], OnCmds(s)) => Some(cmds[t], OnCmds(s))
          /\ Once(cmds[t], OnCmds(s)) => Once(cmds'[t], OnCmds(s))
          /\ s = k /\ c.op = "On" => Some(cmds[t], OnCmds(s))
          /\ Once(cmds[t], OnCmds(s)) /\ s = k /\ c.op = "On" => ~Some(cmds'[t], OnCmds(s))
      BY <1>2, <1>6, <1>10, Zenon
    <2>6. CASE s # k
      <3>0. mounted'[t] \in {mounted[t], mounted[t] \cup {k}, mounted[t] \ {k}} BY <1>1, <1>7, Zenon
      <3>1. s \in mounted'[t] <=> s \in mounted[t] BY <2>6, <3>0, Zenon
      <3>2. r \notin Returns(s) BY <1>9, <2>6
      <3> QED BY <2>1, <2>2, <2>3, <2>4, <2>5, <3>1, <3>2, ZenonT(40) DEF AgentTrace, InUse
    <2>7. CASE s = k /\ c.op = "On"
      <3>1. \/ r \notin Returns(s) /\ s \in mounted'[t]
            \/ r \in Returns(s) /\ (s \in mounted'[t] <=> s \in mounted[t])
        BY <1>1, <1>7, <1>9, <2>7, Zenon
      <3> QED BY <2>1, <2>2, <2>3, <2>4, <2>5, <2>7, <3>1, Zenon DEF AgentTrace, InUse
    <2>8. CASE s = k /\ c.op = "Off"
      <3>1. \/ r \in Returns(s) /\ s \in mounted[t] /\ s \notin mounted'[t]
            \/ r \notin Returns(s) /\ (s \in mounted'[t] <=> s \in mounted[t])
        BY <1>1, <1>7, <1>9, <2>8, Zenon
      <3> QED BY <2>1, <2>2, <2>3, <2>4, <2>5, <2>8, <3>1, Zenon DEF AgentTrace, InUse
    <2> QED BY <1>3, <2>6, <2>7, <2>8, Zenon
  <1>14. \A u \in Tenants : u # t =>
            cmds'[u] = cmds[u] /\ results'[u] = results[u] /\ mounted'[u] = mounted[u]
    <2>1. /\ cmds' = [cmds EXCEPT ![t] = cmds'[t]] /\ results' = [results EXCEPT ![t] = results'[t]]
          /\ mounted' = [mounted EXCEPT ![t] = mounted'[t]]
      BY <1>1, <1>4, <1>7, <1>10, Zenon
    <2> QED BY <1>1, <2>1, Zenon
  <1> QED BY <1>12, <1>13, <1>14, AgentFrame, Zenon DEF Exec

-----------------------------------------------------------------------------
(* The theorems *)

\* Nothing is in use and nothing in flight when the daemon has started.
LEMMA SystemInvInit ==
    SystemInit => SystemInv
  <1> SUFFICES ASSUME SystemInit PROVE SystemInv
    BY Zenon
  <1> USE SystemAssumption, BrokerAssumption
  <1>1. BrokerSafe BY InvInit DEF SystemInit
  <1>2. SystemTypes
    BY DEF SystemInit, SystemTypes
  <1>3. \A S : ~Some(<< >>, S) /\ Once(<< >>, S) BY DEF Some, Once
  <1>4. ASSUME NEW s \in Slices PROVE ZeroTrace(s)
    BY <1>3, Zenon DEF SystemInit, Init, ZeroTrace
  <1>5. ASSUME NEW s \in Slices, NEW t \in Tenants PROVE AgentTrace(t, s)
    BY <1>3 DEF SystemInit, AgentTrace
  <1> QED BY <1>1, <1>2, <1>4, <1>5 DEF SystemInv, OneTrace

\* Every step of the broker, an agent or the zeroing worker keeps the invariant.
LEMMA SystemInvStep ==
    ASSUME PromptWorker, SystemInv, [SystemNext]_sysVars
    PROVE  SystemInv'
  <1>1. ASSUME NEW t \in Tenants, CoreReceives(t) PROVE SystemInv' BY <1>1, CoreReceivesKeeps
  <1>2. ASSUME NEW i \in 1..Len(confirmed), CoreZeroDone(i) PROVE SystemInv' BY <1>2, CoreZeroDoneKeeps
  <1>3. CASE CoreTick(OwnerMoves) BY <1>3, CoreTickKeeps
  <1>4. CASE CoreDemote BY <1>4, CoreDemoteKeeps
  <1>5. CASE WorkerZeroes BY <1>5, WorkerKeeps, Zenon
  <1>6. ASSUME NEW t \in Tenants, AgentNext(t) PROVE SystemInv'
    <2>1. CASE Connect(t) BY <2>1, ConnectKeeps
    <2>2. CASE SendPsi(t) BY <2>2, SendPsiKeeps
    <2>3. CASE SendLease(t) BY <2>3, SendLeaseKeeps
    <2>4. CASE SendResult(t) BY <2>4, SendResultKeeps
    <2>5. CASE AgentReceives(t) BY <2>5, AgentReceivesKeeps
    <2>6. CASE SessionEnds(t) BY <2>6, SessionEndsKeeps
    <2>7. CASE Exec(t) BY <2>7, ExecKeeps
    <2> QED BY <1>6, <2>1, <2>2, <2>3, <2>4, <2>5, <2>6, <2>7, Zenon DEF AgentNext
  <1>7. CASE UNCHANGED sysVars
    <2>1. UNCHANGED vars BY <1>7 DEF sysVars
    <2>2. BrokerSafe' BY <2>1, TypeStep, SlicesStep, LeaseStep, Zenon DEF SystemInv, BrokerSafe
    <2>3. SystemTypes' BY <1>7 DEF SystemInv, SystemTypes, sysVars, agentVars, zeroVars
    <2>4. OneTrace'
      <3>1. state' = state /\ owner' = owner /\ zeroTicks' = zeroTicks BY <2>1 DEF vars, coreVars, sliceVars
      <3>2. /\ toAgent' = toAgent /\ cmds' = cmds /\ mounted' = mounted /\ results' = results
            /\ toBroker' = toBroker /\ jobs' = jobs /\ confirmed' = confirmed
        BY <1>7, Zenon DEF sysVars, agentVars, zeroVars
      <3>3. ASSUME NEW s \in Slices PROVE ZeroTrace(s)'
        BY <3>1, <3>2 DEF SystemInv, OneTrace, ZeroTrace, InUse
      <3>4. ASSUME NEW s \in Slices, NEW t \in Tenants PROVE AgentTrace(t, s)'
        BY <3>1, <3>2, Zenon DEF SystemInv, OneTrace, AgentTrace, InUse
      <3> QED BY <3>3, <3>4 DEF OneTrace
    <2> QED BY <2>2, <2>3, <2>4 DEF SystemInv
  <1> QED BY <1>1, <1>2, <1>3, <1>4, <1>5, <1>6, <1>7, Zenon DEF SystemNext, CoreNext

\* The invariant gives the promises about slices in use.
LEMMA SystemInvSafe ==
    SystemInv => SystemSafe
  <1> SUFFICES ASSUME SystemInv PROVE SystemSafe
    OBVIOUS
  <1>1. SystemTypeOK BY DEF SystemInv, SystemTypes, SystemTypeOK, BrokerSafe
  <1>2. MountsAreOwned BY Zenon DEF SystemInv, OneTrace, AgentTrace, InUse, MountsAreOwned
  <1> QED BY <1>1, <1>2 DEF SystemSafe, SystemInv

\* Whatever faults occur, if zeroes are answered before they are retried: every
\* slice has one trace, so nobody swaps to a slice that is not held for it.
THEOREM SlicesInUseAreSafe == PromptWorker => (SystemSpec => []SystemSafe)
  <1> SUFFICES ASSUME PromptWorker PROVE SystemSpec => []SystemSafe
    OBVIOUS
  <1>1. SystemInit => SystemInv BY SystemInvInit
  <1>2. SystemInv /\ [SystemNext]_sysVars => SystemInv' BY SystemInvStep
  <1>3. SystemInv => SystemSafe BY SystemInvSafe, Zenon
  <1> QED BY <1>1, <1>2, <1>3, PTL DEF SystemSpec

\* No step of the core but a confirmed zero ends the draining of a slice.
LEMMA DrainingKept ==
    ASSUME BrokerSafe, NEW s \in Slices, state[s] = "Draining",
           \/ \E t \in Tenants : TenantStep(t)
           \/ \E k \in Slices, ok \in BOOLEAN : SwapOnDone(k, ok) \/ SwapOffDone(k, ok)
           \/ \E k \in Slices, ok \in BOOLEAN : ZeroDone(k, ok) /\ k # s
           \/ Demote \/ Tick(Moves)
    PROVE  state'[s] = "Draining"
  <1> USE BrokerAssumption DEF BrokerSafe
  <1>0. /\ state \in [Slices -> {"Free", "Active", "Draining", "Leased"}]
        /\ owner \in [Slices -> Tenants \cup {NoTenant}]
    BY DEF TypeOK
  <1>1. ASSUME NEW t \in Tenants, TenantStep(t) PROVE state'[s] = "Draining"
    BY <1>0, <1>1, Zenon DEF TenantStep, Register, Disconnect, Psi, LeaseRequest, LeaseRelease, InState, sliceVars, Unleased
  <1>2. ASSUME NEW k \in Slices, NEW ok \in BOOLEAN,
               SwapOnDone(k, ok) \/ SwapOffDone(k, ok) \/ (ZeroDone(k, ok) /\ k # s)
        PROVE  state'[s] = "Draining"
    <2>1. CASE SwapOnDone(k, ok) BY <1>0, <2>1, Zenon DEF SwapOnDone
    <2>2. CASE SwapOffDone(k, ok) BY <2>2, ZenonT(40) DEF SwapOffDone, sliceVars
    <2>3. CASE ZeroDone(k, ok) /\ k # s BY <1>0, <2>3, Zenon DEF ZeroDone, coreVars, sliceVars
    <2> QED BY <1>2, <2>1, <2>2, <2>3, Zenon
  <1>3. CASE Demote BY <1>3, Zenon DEF Demote, coreVars, sliceVars
  <1>4. CASE Tick(Moves)
    <2>1. Swept[s] = "Draining" BY SweptFacts
    <2>2. ASSUME NEW chosen \in SUBSET InState(Swept, "Free"), Grant(chosen) PROVE state'[s] = "Draining"
      BY <2>1, <2>2, Zenon DEF Grant, InState
    <2>3. ASSUME NEW chosen \in Revocable, Revoke(chosen) PROVE state'[s] = "Draining"
      BY <2>1, <2>3, ZenonT(40) DEF Revoke
    <2>4. ASSUME NEW move \in {{}} \cup {{m} : m \in Moves}, NEW given \in Assignments, Rebalance(move, given)
          PROVE  state'[s] = "Draining"
      <3>1. s \notin DOMAIN given BY <2>1, Zenon DEF Assignments, InState
      <3> QED BY <2>1, <2>4, <3>1, ZenonT(40) DEF Rebalance
    <2> QED BY <1>4, <2>2, <2>3, <2>4, Zenon DEF Tick, ServeRequest
  <1> QED BY <1>1, <1>2, <1>3, <1>4, Zenon

\* While a zero of s is queued or answered, nobody swaps to s.
LEMMA ZeroedIsUnmounted ==
    ASSUME SystemInv, NEW s \in Slices, Some(jobs, {s}) \/ Some(confirmed, Zeroed(s)), NEW t \in Tenants
    PROVE  s \notin mounted[t]
  BY Zenon DEF SystemInv, OneTrace, ZeroTrace, AgentTrace

\* No zero runs over a slice in use, and a draining slice is released only after
\* the swapoff of its tenant, under the same assumption.
THEOREM UseEndsBeforeZero == PromptWorker => (SystemSpec => SystemSteps)
  <1> SUFFICES ASSUME PromptWorker PROVE SystemSpec => SystemSteps
    BY Zenon
  <1> DEFINE zeroStep == Len(jobs') < Len(jobs) => \A t \in Tenants : Head(jobs) \notin mounted[t]
             freeStep == \A s \in Slices :
                state[s] = "Draining" /\ state'[s] # "Draining" => s \notin mounted[owner[s]]
  <1>1. SystemInit => SystemInv BY SystemInvInit
  <1>2. SystemInv /\ [SystemNext]_sysVars => SystemInv' BY SystemInvStep
  <1>3. ASSUME SystemInv, [SystemNext]_sysVars PROVE zeroStep
    <2> SUFFICES ASSUME Len(jobs') < Len(jobs), NEW t \in Tenants PROVE Head(jobs) \notin mounted[t]
      BY Zenon
    <2>1. jobs \in Seq(Slices) /\ jobs' \in Seq(Slices) BY <1>2, <1>3 DEF SystemInv, SystemTypes
    <2>2. jobs # << >> BY <2>1
    <2>3. Head(jobs) \in Slices /\ Some(jobs, {Head(jobs)}) BY <2>1, <2>2, SomeTail, Zenon
    <2> QED BY <1>3, <2>3, ZeroedIsUnmounted, Zenon
  <1>4. ASSUME SystemInv, [SystemNext]_sysVars PROVE freeStep
    <2> SUFFICES ASSUME NEW s \in Slices, state[s] = "Draining", state'[s] # "Draining"
                 PROVE  s \notin mounted[owner[s]]
      OBVIOUS
    <2>0. BrokerSafe BY <1>4, Zenon DEF SystemInv
    <2>1. ASSUME NEW t \in Tenants, CoreReceives(t) PROVE FALSE
      <3> DEFINE m == Head(toBroker[t])
      <3>1. \/ TenantStep(t)
            \/ m \in Result /\ (SwapOnDone(m.slice, m.ok) \/ SwapOffDone(m.slice, m.ok))
        BY <1>4, <2>1, CoreReceivesCases, Zenon
      <3> HIDE DEF m
      <3>2. m \in Result => m.slice \in Slices /\ m.ok \in BOOLEAN BY DEF Result
      <3> QED BY <2>0, <3>1, <3>2, DrainingKept, Zenon
    <2>2. ASSUME NEW i \in 1..Len(confirmed), CoreZeroDone(i) PROVE s \notin mounted[owner[s]]
      <3>1. confirmed \in Seq(Answer) BY <1>4 DEF SystemInv, SystemTypes
      <3>2. confirmed[i] \in Answer BY <3>1
      <3> DEFINE a == confirmed[i]
      <3>3. ZeroDone(a.slice, a.ok) /\ a.slice \in Slices /\ a.ok \in BOOLEAN
        BY <2>2, <3>2, Zenon DEF CoreZeroDone, Answer
      <3>4. a.slice = s BY <2>0, <3>3, DrainingKept, Zenon
      <3>5. a \in Zeroed(s)
        <4>1. a = [slice |-> a.slice, ok |-> a.ok] BY <3>2 DEF Answer
        <4> QED BY <3>3, <3>4, <4>1, Zenon DEF Zeroed
      <3>6. Some(confirmed, Zeroed(s)) BY <3>1, <3>5 DEF Some
      <3>7. owner[s] \in Tenants
        <4>1. owner[s] # NoTenant BY <2>0 DEF BrokerSafe, SlicesConsistent
        <4> QED BY <2>0, <4>1, Zenon DEF BrokerSafe, TypeOK
      <3> QED BY <1>4, <3>6, <3>7, ZeroedIsUnmounted, Zenon
    <2>3. CASE CoreTick(OwnerMoves)
      <3>1. Tick(Moves)
        <4>1. OwnerMoves \subseteq Moves BY DEF OwnerMoves
        <4>2. Tick(OwnerMoves) BY <2>3, Zenon DEF CoreTick
        <4> QED BY <4>1, <4>2, Zenon DEF Tick
      <3> QED BY <2>0, <3>1, DrainingKept, Zenon
    <2>4. CASE CoreDemote BY <2>0, <2>4, DrainingKept, Zenon DEF CoreDemote
    <2>5. CASE WorkerZeroes \/ UNCHANGED sysVars \/ \E t \in Tenants : AgentNext(t)
      <3>1. UNCHANGED vars
        BY <2>5, Zenon DEF WorkerZeroes, sysVars, AgentNext, Connect, SendPsi, SendLease, SendResult,
                    AgentReceives, SessionEnds, Exec
      <3> QED BY <3>1 DEF vars, coreVars, sliceVars
    <2> QED BY <1>4, <2>1, <2>2, <2>3, <2>4, <2>5, Zenon DEF SystemNext, CoreNext
  <1>5. SystemSpec => [][zeroStep]_sysVars BY <1>1, <1>2, <1>3, PTL DEF SystemSpec
  <1>6. SystemSpec => [][freeStep]_sysVars BY <1>1, <1>2, <1>4, PTL DEF SystemSpec
  <1> QED BY <1>5, <1>6 DEF SystemSteps, ZeroesOnlyUnmounted, ReleasedAfterSwapOff
=============================================================================
