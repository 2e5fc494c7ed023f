-------------------------- MODULE BrokerSystemCore --------------------------
(***************************************************************************)
(* The first half of the proof about BrokerSystem.  Lemmas about queues:   *)
(* what the operators do to "some element of the queue is in S" and "at    *)
(* most one is", what may be in flight, and what dispatch does to it.      *)
(* Then the steps of the broker's core: each keeps the invariant of the    *)
(* composed system.  The steps of the agents and of the zeroing worker,    *)
(* and the theorems, are in BrokerSystemProofs.                            *)
(***************************************************************************)
EXTENDS BrokerSystem, BrokerCoreProofs

\* Sending a message adds it to what is in the queue.
LEMMA SomeAppend ==
    ASSUME NEW M, NEW q \in Seq(M), NEW m \in M, NEW S
    PROVE  /\ Append(q, m) \in Seq(M)
           /\ Some(Append(q, m), S) <=> Some(q, S) \/ m \in S
           /\ Once(q, S) /\ (m \in S => ~Some(q, S)) => Once(Append(q, m), S)
  <1> DEFINE r == Append(q, m)
  <1>1. r \in Seq(M) /\ DOMAIN q = 1..Len(q) /\ DOMAIN r = 1..(Len(q) + 1) /\ Len(q) \in Nat
    OBVIOUS
  <1>2. r[Len(q) + 1] = m /\ \A i \in 1..Len(q) : r[i] = q[i]
    OBVIOUS
  <1> HIDE DEF r
  <1>3. \A i \in DOMAIN r : i \in DOMAIN q \/ i = Len(q) + 1
    BY <1>1
  <1>4. DOMAIN q \subseteq DOMAIN r /\ Len(q) + 1 \in DOMAIN r
    BY <1>1
  <1>5. Some(r, S) <=> Some(q, S) \/ m \in S
    BY <1>1, <1>2, <1>3, <1>4 DEF Some
  <1>6. Once(q, S) /\ (m \in S => ~Some(q, S)) => Once(r, S)
    BY <1>1, <1>2, <1>3 DEF Some, Once
  <1> QED BY <1>1, <1>5, <1>6 DEF r

\* Messages of the core are told apart by their kind and their receiver.
LEMMA NotAZero == \A u, n, s : ToTenant(u, "SwapOn", n) # Zero(s)
  BY DEF ToTenant, Zero

\* So two such messages about a slice that are the same go to the same tenant.
LEMMA SameReceiver ==
    ASSUME NEW u, NEW x, NEW s, ToTenant(u, "SwapOn", s) = ToTenant(x, "SwapOn", s)
    PROVE  u = x
  BY DEF ToTenant

\* Taking the first message leaves nothing new in the queue.
LEMMA SomeTail ==
    ASSUME NEW M, NEW q \in Seq(M), q # << >>, NEW S
    PROVE  /\ Tail(q) \in Seq(M) /\ Head(q) \in M
           /\ Some(Tail(q), S) => Some(q, S)
           /\ Once(q, S) => Once(Tail(q), S)
           /\ Head(q) \in S => Some(q, S)
           /\ Once(q, S) /\ Head(q) \in S => ~Some(Tail(q), S)
  BY DEF Some, Once

\* Sending several messages, as dispatch does after one event.
LEMMA SomeConcat ==
    ASSUME NEW M, NEW q \in Seq(M), NEW r \in Seq(M), NEW S
    PROVE  /\ q \o r \in Seq(M) /\ Len(q \o r) = Len(q) + Len(r)
           /\ Some(q \o r, S) <=> Some(q, S) \/ Some(r, S)
           /\ Once(q, S) /\ Once(r, S) /\ ~(Some(q, S) /\ Some(r, S)) => Once(q \o r, S)
  <1> DEFINE c == q \o r
  <1>1. /\ c \in Seq(M) /\ Len(c) = Len(q) + Len(r) /\ Len(q) \in Nat /\ Len(r) \in Nat
        /\ DOMAIN q = 1..Len(q) /\ DOMAIN r = 1..Len(r) /\ DOMAIN c = 1..(Len(q) + Len(r))
    OBVIOUS
  <1>2. \A i \in 1..Len(q) : c[i] = q[i]
    OBVIOUS
  <1>3. \A i \in 1..Len(r) : c[Len(q) + i] = r[i]
    OBVIOUS
  <1> HIDE DEF c
  <1>4. \A i \in DOMAIN c : i \in DOMAIN q \/ (i - Len(q) \in DOMAIN r /\ c[i] = r[i - Len(q)])
    <2> TAKE i \in DOMAIN c
    <2>1. CASE i <= Len(q) BY <1>1, <2>1
    <2>2. CASE i > Len(q)
      <3>1. i - Len(q) \in 1..Len(r) /\ Len(q) + (i - Len(q)) = i BY <1>1, <2>2
      <3> QED BY <1>1, <1>3, <3>1
    <2> QED BY <1>1, <2>1, <2>2
  <1>5. \A i \in DOMAIN q : i \in DOMAIN c
    BY <1>1
  <1>6. \A i \in DOMAIN r : Len(q) + i \in DOMAIN c
    BY <1>1
  <1>7. Some(c, S) <=> Some(q, S) \/ Some(r, S)
    BY <1>1, <1>2, <1>3, <1>4, <1>5, <1>6 DEF Some
  <1>8. ASSUME Once(q, S), Once(r, S), ~(Some(q, S) /\ Some(r, S)),
               NEW i \in DOMAIN c, NEW j \in DOMAIN c, c[i] \in S, c[j] \in S
        PROVE  i = j
    <2>1. CASE Some(q, S)
      <3>1. \A k \in DOMAIN r : r[k] \notin S BY <2>1, <1>8 DEF Some
      <3>2. i \in DOMAIN q /\ j \in DOMAIN q BY <1>4, <1>8, <3>1
      <3> QED BY <1>1, <1>2, <1>8, <3>2 DEF Once
    <2>2. CASE ~Some(q, S)
      <3>1. \A k \in DOMAIN q : c[k] \notin S BY <1>1, <1>2, <2>2 DEF Some
      <3>2. /\ i - Len(q) \in DOMAIN r /\ r[i - Len(q)] \in S
            /\ j - Len(q) \in DOMAIN r /\ r[j - Len(q)] \in S
        BY <1>4, <1>8, <3>1
      <3>3. i - Len(q) = j - Len(q) BY <1>8, <3>2 DEF Once
      <3> QED BY <1>1, <3>3
    <2> QED BY <2>1, <2>2
  <1> QED BY <1>1, <1>7, <1>8 DEF c, Once

\* What holds of the queue before a loss holds after it: a prefix is no more.
LEMMA SomePrefix ==
    ASSUME NEW M, NEW q \in Seq(M), NEW n \in 0..Len(q), NEW S
    PROVE  /\ SubSeq(q, 1, n) \in Seq(M) /\ Len(SubSeq(q, 1, n)) = n
           /\ Some(SubSeq(q, 1, n), S) => Some(q, S)
           /\ Once(q, S) => Once(SubSeq(q, 1, n), S)
  BY DEF Some, Once

\* Listed sends each of a set of messages exactly once, in some order.
LEMMA ListedFacts ==
    ASSUME NEW T, IsFiniteSet(T)
    PROVE  /\ Listed(T) \in Seq(T) /\ Len(Listed(T)) = Cardinality(T)
           /\ \A S : Some(Listed(T), S) <=> T \cap S # {}
           /\ \A S : (\A x, y \in T \cap S : x = y) => Once(Listed(T), S)
  <1> DEFINE n == Cardinality(T)
             f == Listed(T)
             distinct(q) == \A i, j \in 1..n : q[i] = q[j] => i = j
  <1>1. n \in Nat /\ ExistsBijection(1..n, T)
    BY FS_CardinalityType
  <1>2. \E g \in [1..n -> T] : distinct(g)
    BY <1>1 DEF ExistsBijection, Bijection, Injection, Surjection, IsInjective
  <1>3. f \in [1..n -> T] /\ distinct(f)
    BY <1>2, Zenon DEF Listed
  <1> HIDE DEF f
  <1>4. f \in Injection(1..n, T)
    BY <1>3 DEF IsInjective, Injection
  <1>5. f \in Surjection(1..n, T)
    <2>1. IsFiniteSet(1..n) /\ Cardinality(1..n) = n
      BY <1>1, FS_Interval
    <2>2. (n = Cardinality(T)) <=> f \in Surjection(1..n, T)
      BY <1>4, <2>1, FS_Injection
    <2> QED BY <2>2
  <1>6. f \in Seq(T) /\ Len(f) = n /\ DOMAIN f = 1..n
    BY <1>1, <1>3
  <1>7. \A x \in T : \E i \in 1..n : f[i] = x
    BY <1>5 DEF Surjection
  <1> QED
    <2>1. \A S : Some(f, S) <=> T \cap S # {}
      BY <1>6, <1>7, <1>3 DEF Some
    <2>2. \A S : (\A x, y \in T \cap S : x = y) => Once(f, S)
      BY <1>6, <1>3 DEF Once
    <2> QED BY <2>1, <2>2, <1>6 DEF f

\* A sequence of messages of one kind is one of messages of any kind that includes it.
LEMMA WiderSeq ==
    ASSUME NEW S, NEW T, T \subseteq S, NEW q, q \in Seq(T)
    PROVE  q \in Seq(S)
  OBVIOUS

\* Removing an element from the middle.
LEMMA SomeWithout ==
    ASSUME NEW M, NEW q \in Seq(M), NEW i \in 1..Len(q), NEW S
    PROVE  /\ Without(q, i) \in Seq(M) /\ Len(Without(q, i)) = Len(q) - 1
           /\ Some(Without(q, i), S) => Some(q, S)
           /\ Once(q, S) => Once(Without(q, i), S)
           /\ Once(q, S) /\ q[i] \in S => ~Some(Without(q, i), S)
  <1> DEFINE r == Without(q, i)
             from(k) == IF k < i THEN k ELSE k + 1
             n == Len(q) - 1
  <1>1. n \in Nat /\ DOMAIN q = 1..Len(q) /\ \A k \in 1..n : from(k) \in 1..Len(q) /\ from(k) # i
    OBVIOUS
  <1>2. \A k, l \in 1..n : from(k) = from(l) => k = l
    BY <1>1
  <1>3. r = [k \in 1..n |-> q[from(k)]]
    BY DEF Without
  <1> HIDE DEF r, from
  <1>4. r \in [1..n -> M]
    BY <1>1, <1>3
  <1> HIDE DEF n
  <1>5. r \in Seq(M) /\ Len(r) = n /\ DOMAIN r = 1..n
    BY <1>1, <1>4
  <1>6. \A k \in DOMAIN r : r[k] = q[from(k)] /\ from(k) \in DOMAIN q /\ from(k) # i
    BY <1>1, <1>3, <1>5
  <1>7. /\ Some(r, S) => Some(q, S)
        /\ Once(q, S) => Once(r, S)
        /\ Once(q, S) /\ q[i] \in S => ~Some(r, S)
    BY <1>1, <1>2, <1>5, <1>6 DEF Some, Once
  <1> QED BY <1>5, <1>7 DEF r, n

-----------------------------------------------------------------------------
(* Types of what is in flight *)

AgentMsg ==
    [to : Tenants, kind : {"SwapOn", "SwapOff"}, slice : Slices]
      \cup [to : Tenants, kind : {"DemoteAll", "LeaseDenied", "LeaseGranted", "Close"}, slice : 0..MaxLeaseId]

OutMsg ==
    AgentMsg \cup [to : Tenants, kind : {"Registered", "Ack"}, slice : {0}]
             \cup [to : {NoTenant}, kind : {"Zero"}, slice : Slices]

Result == [kind : {"SwapOnDone", "SwapOffDone"}, slice : Slices, ok : BOOLEAN]

BrokerMsg ==
    Result \cup [kind : {"Register", "Gone"}] \cup [kind : {"Psi"}, mounted : SUBSET Slices]
           \cup [kind : {"LeaseRequest"}, size : 0..(Cardinality(Slices) + 1)]
           \cup [kind : {"LeaseRelease"}, id : 0..MaxLeaseId]

Cmd == [op : {"On", "Off"}, slice : Slices]
Answer == [slice : Slices, ok : BOOLEAN]

SystemTypes ==
    /\ linked \subseteq Tenants
    /\ active \in [Tenants -> SUBSET Slices] /\ mounted \in [Tenants -> SUBSET Slices]
    /\ toBroker \in [Tenants -> Seq(BrokerMsg)] /\ toAgent \in [Tenants -> Seq(AgentMsg)]
    /\ cmds \in [Tenants -> Seq(Cmd)] /\ results \in [Tenants -> Seq(Result)]
    /\ jobs \in Seq(Slices) /\ confirmed \in Seq(Answer)
    /\ Len(jobs) + Len(confirmed) <= ZeroCap
    /\ faults \in 0..MaxFaults

\* The worker's channel holds no answer about s if it holds none for slice s.
LEMMA NoneZeroed ==
    ASSUME NEW q \in Seq(Answer), NEW s, ~\E i \in 1..Len(q) : q[i].slice = s
    PROVE  ~Some(q, Zeroed(s))
  BY DEF Zeroed, Some

\* What a step of the core sends is well formed.
LEMMA OutTyped ==
    ASSUME BrokerSafe, Next
    PROVE  out' \subseteq OutMsg
  <1> USE BrokerAssumption DEF BrokerSafe
  <1> DEFINE quiet == out' = {}
  <1>a. nextId \in 0..MaxLeaseId /\ 0 \in 0..MaxLeaseId /\ present \subseteq Tenants
    BY DEF TypeOK
  <1>b. \A t \in Tenants : /\ ToTenant(t, "Registered", 0) \in OutMsg /\ ToTenant(t, "Ack", 0) \in OutMsg
                           /\ ToTenant(t, "LeaseDenied", 0) \in OutMsg /\ ToTenant(t, "Close", 0) \in OutMsg
                           /\ ToTenant(t, "DemoteAll", 0) \in OutMsg
                           /\ ToTenant(t, "LeaseGranted", nextId) \in OutMsg
    BY <1>a DEF ToTenant, OutMsg, AgentMsg
  <1>c. \A s \in Slices : /\ Zero(s) \in OutMsg
                          /\ \A t \in Tenants : /\ ToTenant(t, "SwapOn", s) \in OutMsg
                                                /\ ToTenant(t, "SwapOff", s) \in OutMsg
    BY DEF ToTenant, Zero, OutMsg, AgentMsg
  <1>d. \A x, k, n : ToTenant(x, k, n).to = x
    BY Zenon DEF ToTenant
  <1>1. ASSUME NEW t \in Tenants, TenantStep(t) PROVE out' \subseteq OutMsg
    BY <1>1, <1>b DEF TenantStep, Register, Disconnect, Psi, LeaseRequest, LeaseRelease
  <1>2. ASSUME NEW s \in Slices, NEW ok \in BOOLEAN, SliceStep(s, ok) PROVE out' \subseteq OutMsg
    <2>1. Sent({ToTenant(dest[s], "SwapOn", s)}) \subseteq OutMsg
      BY <1>a, <1>c, <1>d DEF Sent
    <2>2. CASE SwapOnDone(s, ok) BY <2>2 DEF SwapOnDone
    <2>3. CASE SwapOffDone(s, ok) BY <1>c, <2>3 DEF SwapOffDone
    <2>4. CASE ZeroDone(s, ok) BY <1>c, <2>1, <2>4 DEF ZeroDone
    <2> QED BY <1>2, <2>2, <2>3, <2>4 DEF SliceStep
  <1>3. CASE Demote
    BY <1>3, <1>a, <1>b, Zenon DEF Demote
  <1>4. CASE Tick(Moves)
    <2>1. RetryMsgs \subseteq OutMsg BY <1>c, Zenon DEF RetryMsgs, RetriedZeroes
    <2>2. CASE lease.phase = "pending"
      <3>1. Sent({ToTenant(lease.holder, "LeaseGranted", nextId)}) \subseteq OutMsg
        BY <1>a, <1>b, <1>d DEF Sent
      <3>2. ASSUME NEW chosen \in SUBSET InState(Swept, "Free"), Grant(chosen) PROVE out' \subseteq OutMsg
        BY <2>1, <3>1, <3>2, Zenon DEF Grant
      <3>3. ASSUME NEW chosen \in Revocable, Revoke(chosen) PROVE out' \subseteq OutMsg
        <4>1. chosen \subseteq Slices BY DEF Revocable, InState
        <4>2. Sent({ToTenant(owner[s], "SwapOff", s) : s \in chosen}) \subseteq OutMsg
          BY <1>a, <1>c, <1>d, <4>1 DEF Sent
        <4> QED BY <2>1, <3>3, <4>2 DEF Revoke
      <3> QED BY <1>4, <2>2, <3>2, <3>3, Zenon DEF Tick, ServeRequest
    <2>3. ASSUME NEW move \in {{}} \cup {{m} : m \in Moves}, NEW given \in Assignments, Rebalance(move, given)
          PROVE  out' \subseteq OutMsg
      <3>0. \A m \in move : m.slice \in Slices
        BY DEF Moves, InState
      <3>2. Sent({ToTenant(m.from, "SwapOff", m.slice) : m \in move}) \subseteq OutMsg
        <4>1. \A m \in move : m.from \in present => ToTenant(m.from, "SwapOff", m.slice) \in OutMsg
          BY <3>0, <1>a, <1>c, Zenon
        <4> QED BY <4>1, <1>d DEF Sent
      <3>3. \A s \in DOMAIN given : s \in Slices /\ given[s] \in Tenants
        BY <1>a DEF Assignments, InState
      <3>4. {ToTenant(given[s], "SwapOn", s) : s \in DOMAIN given} \subseteq OutMsg
        BY <3>3, <1>c, Zenon
      <3> QED BY <2>1, <2>3, <3>2, <3>4 DEF Rebalance
    <2> QED BY <1>4, <2>2, <2>3 DEF Tick
  <1> QED BY <1>1, <1>2, <1>3, <1>4 DEF Next

\* The messages to one agent are finitely many.
LEMMA AgentMsgsFinite ==
    ASSUME NEW t \in Tenants, NEW S \in SUBSET AgentMsg, \A m \in S : m.to = t
    PROVE  IsFiniteSet(S)
  <1> DEFINE K == {"SwapOn", "SwapOff", "DemoteAll", "LeaseDenied", "LeaseGranted", "Close"}
             N == Slices \cup 0..MaxLeaseId
             f == [m \in S |-> <<m.kind, m.slice>>]
  <1>1. IsFiniteSet(N)
    <2>1. IsFiniteSet(0..MaxLeaseId) BY BrokerAssumption, FS_Interval
    <2> QED BY <2>1, BrokerAssumption, FS_Union, Zenon
  <1>2. IsFiniteSet(K)
    <2>1. IsFiniteSet({"SwapOn"}) BY FS_Singleton, Zenon
    <2>2. IsFiniteSet({"SwapOn"} \cup {"SwapOff"}) BY <2>1, FS_AddElement
    <2>3. IsFiniteSet({"SwapOn"} \cup {"SwapOff"} \cup {"DemoteAll"}) BY <2>2, FS_AddElement
    <2>4. IsFiniteSet({"SwapOn"} \cup {"SwapOff"} \cup {"DemoteAll"} \cup {"LeaseDenied"})
      BY <2>3, FS_AddElement
    <2>5. IsFiniteSet({"SwapOn"} \cup {"SwapOff"} \cup {"DemoteAll"} \cup {"LeaseDenied"} \cup {"LeaseGranted"})
      BY <2>4, FS_AddElement
    <2>6. IsFiniteSet({"SwapOn"} \cup {"SwapOff"} \cup {"DemoteAll"} \cup {"LeaseDenied"} \cup {"LeaseGranted"}
                        \cup {"Close"})
      BY <2>5, FS_AddElement
    <2>7. K = {"SwapOn"} \cup {"SwapOff"} \cup {"DemoteAll"} \cup {"LeaseDenied"} \cup {"LeaseGranted"} \cup {"Close"}
      OBVIOUS
    <2> QED BY <2>6, <2>7
  <1>3. IsFiniteSet(K \X N)
    BY <1>1, <1>2, FS_Product
  <1>4. f \in [S -> K \X N]
    BY DEF AgentMsg
  <1>5. \A m, n \in S : f[m] = f[n] => m = n
    <2>1. \A m \in S : m = [to |-> t, kind |-> m.kind, slice |-> m.slice]
      BY DEF AgentMsg
    <2>2. \A m, n \in S : f[m] = f[n] => m.kind = n.kind /\ m.slice = n.slice
      OBVIOUS
    <2> QED BY <2>1, <2>2
  <1> HIDE DEF f, K, N
  <1>6. f \in Injection(S, K \X N)
    BY <1>4, <1>5 DEF Injection, IsInjective
  <1> QED BY <1>3, <1>6, FS_Injection

\* dispatch appends the messages for an agent to its session and the zeroes to the
\* queue of the worker, each at most once and never beyond the bound.
LEMMA DispatchFacts ==
    ASSUME SystemTypes, out' \subseteq OutMsg, NEW lost \in BOOLEAN, Dispatch(lost),
           confirmed' \in Seq(Answer), Len(confirmed') <= Len(confirmed)
    PROVE  /\ toAgent' \in [Tenants -> Seq(AgentMsg)]
           /\ \A t \in Tenants, s \in Slices :
                /\ Some(toAgent'[t], OnMsgs(s)) =>
                      Some(toAgent[t], OnMsgs(s)) \/ ToTenant(t, "SwapOn", s) \in out'
                /\ Once(toAgent[t], OnMsgs(s))
                     /\ (ToTenant(t, "SwapOn", s) \in out' => ~Some(toAgent[t], OnMsgs(s)))
                   => Once(toAgent'[t], OnMsgs(s))
           /\ jobs' \in Seq(Slices) /\ Len(jobs') + Len(confirmed') <= ZeroCap
           /\ \A s \in Slices :
                /\ Some(jobs', {s}) => Some(jobs, {s}) \/ Zero(s) \in out'
                /\ Once(jobs, {s}) /\ (Zero(s) \in out' => ~Some(jobs, {s})) => Once(jobs', {s})
  <1> USE BrokerAssumption, SystemAssumption
  <1>1. ASSUME NEW t \in Tenants
        PROVE  /\ toAgent'[t] \in Seq(AgentMsg)
               /\ \A s \in Slices :
                    /\ Some(toAgent'[t], OnMsgs(s)) =>
                          Some(toAgent[t], OnMsgs(s)) \/ ToTenant(t, "SwapOn", s) \in out'
                    /\ Once(toAgent[t], OnMsgs(s))
                         /\ (ToTenant(t, "SwapOn", s) \in out' => ~Some(toAgent[t], OnMsgs(s)))
                       => Once(toAgent'[t], OnMsgs(s))
    <2> DEFINE msgs == {m \in out' : m.to = t /\ m.kind \notin {"Registered", "Ack"}}
    <2>1. msgs \subseteq AgentMsg /\ \A m \in msgs : m.to = t
      <3>1. \A m \in OutMsg : m.to = t /\ m.kind \notin {"Registered", "Ack"} => m \in AgentMsg
        BY DEF OutMsg, AgentMsg
      <3> QED BY <3>1, Zenon
    <2>2. IsFiniteSet(msgs) BY <2>1, AgentMsgsFinite, Zenon
    <2>3. /\ Listed(msgs) \in Seq(AgentMsg)
          /\ \A S : Some(Listed(msgs), S) <=> msgs \cap S # {}
          /\ \A S : (\A x, y \in msgs \cap S : x = y) => Once(Listed(msgs), S)
      <3> HIDE DEF msgs
      <3>1. Listed(msgs) \in Seq(msgs) BY <2>2, ListedFacts
      <3>2. Listed(msgs) \in Seq(AgentMsg) BY <2>1, <3>1, WiderSeq, Zenon
      <3> QED BY <2>2, <3>2, ListedFacts, Zenon
    <2>4. \A s \in Slices : msgs \cap OnMsgs(s) \subseteq {ToTenant(t, "SwapOn", s)} \cap out'
      BY DEF OnMsgs, ToTenant
    <2>5. toAgent[t] \in Seq(AgentMsg) BY Zenon DEF SystemTypes
    <2>6. CASE t \in linked
      <3>1. toAgent'[t] = toAgent[t] \o Listed(msgs) BY <2>6, Zenon DEF Dispatch
      <3> HIDE DEF msgs
      <3>2. toAgent'[t] \in Seq(AgentMsg) BY <2>3, <2>5, <3>1, SomeConcat
      <3>3. ASSUME NEW s \in Slices
            PROVE  /\ Some(toAgent'[t], OnMsgs(s)) <=>
                         Some(toAgent[t], OnMsgs(s)) \/ Some(Listed(msgs), OnMsgs(s))
                   /\ Once(toAgent[t], OnMsgs(s)) /\ Once(Listed(msgs), OnMsgs(s))
                        /\ ~(Some(toAgent[t], OnMsgs(s)) /\ Some(Listed(msgs), OnMsgs(s)))
                      => Once(toAgent'[t], OnMsgs(s))
        BY <2>3, <2>5, <3>1, SomeConcat, SMTT(30)
      <3>4. ASSUME NEW s \in Slices
            PROVE  /\ Some(Listed(msgs), OnMsgs(s)) => ToTenant(t, "SwapOn", s) \in out'
                   /\ Once(Listed(msgs), OnMsgs(s))
        BY <2>3, <2>4, Zenon
      <3> QED BY <3>2, <3>3, <3>4
    <2>7. CASE t \notin linked
      <3>1. toAgent'[t] = << >> BY <2>7 DEF Dispatch
      <3> QED BY <3>1 DEF Some, Once
    <2> QED BY <2>6, <2>7, Zenon
  <1>2. toAgent' \in [Tenants -> Seq(AgentMsg)]
    <2>1. toAgent' = [t \in Tenants |-> toAgent'[t]] BY DEF Dispatch
    <2> QED BY <2>1, <1>1, Zenon
  <1> DEFINE zs == {m.slice : m \in {x \in out' : x.kind = "Zero"}}
             all == IF lost THEN << >> ELSE Listed(zs)
             room == ZeroCap - Len(jobs) - Len(confirmed')
             n == IF room < Len(all) THEN room ELSE Len(all)
             sent == SubSeq(all, 1, n)
  <1>3. zs \subseteq Slices /\ \A s \in zs : Zero(s) \in out'
    <2>1. \A m \in OutMsg : m.kind = "Zero" => m.slice \in Slices /\ m = Zero(m.slice)
      BY DEF OutMsg, AgentMsg, Zero
    <2> QED BY <2>1, Zenon
  <1>4. IsFiniteSet(zs) BY <1>3, FS_Subset, Zenon
  <1>5. /\ all \in Seq(Slices)
        /\ \A s \in Slices : Some(all, {s}) => Zero(s) \in out'
        /\ \A s \in Slices : Once(all, {s})
    <2> HIDE DEF zs
    <2>1. Listed(zs) \in Seq(zs) BY <1>4, ListedFacts, Zenon
    <2>2. Listed(zs) \in Seq(Slices) BY <1>3, <2>1, WiderSeq, Zenon
    <2>3. \A s \in Slices : Some(Listed(zs), {s}) => s \in zs BY <1>4, ListedFacts
    <2>4. \A s \in Slices : Once(Listed(zs), {s}) BY <1>4, ListedFacts, Zenon
    <2>5. \A s \in Slices : ~Some(<< >>, {s}) /\ Once(<< >>, {s}) BY DEF Some, Once
    <2>6. CASE lost
      <3>1. all = << >> /\ << >> \in Seq(Slices) BY <2>6
      <3> QED BY <2>5, <3>1, Zenon
    <2>7. CASE ~lost
      <3>1. all = Listed(zs) BY <2>7
      <3> QED BY <1>3, <2>2, <2>3, <2>4, <3>1, Zenon
    <2> QED BY <2>6, <2>7, Zenon
  <1>6. room \in Nat /\ jobs \in Seq(Slices) /\ Len(jobs) \in Nat /\ Len(confirmed') \in Nat
    BY DEF SystemTypes
  <1>7. jobs' = jobs \o sent
    BY DEF Dispatch
  <1> HIDE DEF zs, all
  <1>8. Len(all) \in Nat BY <1>5
  <1>9. n \in 0..Len(all) /\ n \in Nat /\ n <= room
    BY <1>6, <1>8
  <1> HIDE DEF n
  <1>10. /\ sent \in Seq(Slices) /\ Len(sent) = n
         /\ \A S : Some(sent, S) => Some(all, S)
         /\ \A S : Once(all, S) => Once(sent, S)
    BY <1>5, <1>9, SomePrefix
  <1> HIDE DEF sent
  <1>11. jobs' \in Seq(Slices) /\ Len(jobs') = Len(jobs) + n
    BY <1>6, <1>7, <1>10, SomeConcat, Zenon
  <1>12. Len(jobs') + Len(confirmed') <= ZeroCap
    <2>1. n <= ZeroCap - Len(jobs) - Len(confirmed') BY <1>9
    <2> QED BY <1>6, <1>9, <1>11, <2>1
  <1>13. ASSUME NEW s \in Slices
         PROVE  /\ Some(jobs', {s}) => Some(jobs, {s}) \/ Zero(s) \in out'
                /\ Once(jobs, {s}) /\ (Zero(s) \in out' => ~Some(jobs, {s})) => Once(jobs', {s})
    <2>1. /\ Some(jobs', {s}) <=> Some(jobs, {s}) \/ Some(sent, {s})
          /\ Once(jobs, {s}) /\ Once(sent, {s}) /\ ~(Some(jobs, {s}) /\ Some(sent, {s})) => Once(jobs', {s})
      BY <1>6, <1>7, <1>10, SomeConcat, Zenon
    <2>2. Once(sent, {s}) /\ (Some(sent, {s}) => Zero(s) \in out') BY <1>5, <1>10, Zenon
    <2> QED BY <2>1, <2>2, Zenon
  <1> QED BY <1>1, <1>2, <1>11, <1>12, <1>13, Zenon

-----------------------------------------------------------------------------
(* Steps of the core, seen from one slice *)

\* A step of the core that leaves the use of s and the wait for its zero as they
\* are, or starts a use of s that nobody had.
Harmless(s) ==
    /\ (zeroTicks'[s] = NotZeroing) <=> (zeroTicks[s] = NotZeroing)
    /\ InUse(s) => /\ InUse(s)' /\ owner'[s] = owner[s]
                   /\ \A t \in Tenants : ToTenant(t, "SwapOn", s) \notin out'
    /\ \A t \in Tenants : ToTenant(t, "SwapOn", s) \in out' => owner'[s] = t /\ InUse(s)'

\* Every step but the end of a use of s, or the end of its zero, is harmless to s.
LEMMA TenantStepHarmless ==
    ASSUME BrokerSafe, NEW t \in Tenants, TenantStep(t), NEW s \in Slices
    PROVE  Harmless(s) /\ Zero(s) \notin out'
  <1> USE BrokerAssumption DEF BrokerSafe
  <1>0. /\ state \in [Slices -> {"Free", "Active", "Draining", "Leased"}]
        /\ owner \in [Slices -> Tenants \cup {NoTenant}]
    BY DEF TypeOK
  <1>1. zeroTicks' = zeroTicks
    BY Zenon DEF TenantStep, Register, Disconnect, Psi, LeaseRequest, LeaseRelease
  <1>2. InUse(s) => InUse(s)' /\ owner'[s] = owner[s]
    BY <1>0, Zenon DEF TenantStep, Register, Disconnect, Psi, LeaseRequest, LeaseRelease, InUse, InState, sliceVars, Unleased
  <1>3. out' = {} \/ \E k \in {"Registered", "Ack", "LeaseDenied", "Close"} : out' = {ToTenant(t, k, 0)}
    BY Zenon DEF TenantStep, Register, Disconnect, Psi, LeaseRequest, LeaseRelease
  <1>4. Zero(s) \notin out' /\ \A u \in Tenants : ToTenant(u, "SwapOn", s) \notin out'
    BY <1>3 DEF ToTenant, Zero
  <1> QED BY <1>1, <1>2, <1>4, Zenon DEF Harmless

\* A demotion sends DemoteAll only: it tells nobody to start using a slice.
LEMMA DemoteHarmless ==
    ASSUME Demote, NEW s \in Slices
    PROVE  Harmless(s) /\ Zero(s) \notin out'
  <1>1. Zero(s) \notin out' /\ \A u \in Tenants : ToTenant(u, "SwapOn", s) \notin out'
    BY Zenon DEF Demote, ToTenant, Zero
  <1> QED BY <1>1 DEF Harmless, Demote, coreVars, sliceVars, InUse

\* A tick hands out only slices nobody uses.
LEMMA TickHarmless ==
    ASSUME BrokerSafe, Tick(Moves), NEW s \in Slices
    PROVE  Harmless(s) /\ (Zero(s) \in out' => s \in RetriedZeroes)
  <1> USE BrokerAssumption DEF BrokerSafe
  <1>0. /\ owner \in [Slices -> Tenants \cup {NoTenant}] /\ zeroTicks \in [Slices -> NotZeroing..ZeroError]
        /\ lease \in LeaseType
    BY DEF TypeOK
  <1>1. (zeroTicks'[s] = NotZeroing) <=> (zeroTicks[s] = NotZeroing)
    BY <1>0 DEF Tick, CountZeroTicks, NotZeroing
  <1>2. /\ Swept \in [Slices -> SliceStates]
        /\ InUse(s) <=> Swept[s] \in {"Active", "Draining"}
    BY SweptFacts DEF InUse, Swept, Unleased, TypeOK, SliceStates
  <1>3. Zero(s) \in RetryMsgs => s \in RetriedZeroes
    BY Zenon DEF RetryMsgs, Zero
  <1>4. \A u \in Tenants : ToTenant(u, "SwapOn", s) \notin RetryMsgs
    BY Zenon DEF RetryMsgs, Zero, ToTenant
  <1>5. \A u, x, k, n : ToTenant(u, k, n) = ToTenant(x, "SwapOn", s) => u = x /\ k = "SwapOn" /\ n = s
    BY DEF ToTenant
  <1>6. \A u, k, n : ToTenant(u, k, n) = Zero(s) => k = "Zero"
    BY DEF ToTenant, Zero
  <1>7. ASSUME NEW chosen \in SUBSET InState(Swept, "Free"), Grant(chosen)
        PROVE  Harmless(s) /\ (Zero(s) \in out' => s \in RetriedZeroes)
    <2>1. \A u \in Tenants : ToTenant(u, "SwapOn", s) \notin out'
      BY <1>4, <1>5, <1>7 DEF Grant, Sent
    <2>2. Zero(s) \in out' => s \in RetriedZeroes
      BY <1>3, <1>6, <1>7 DEF Grant, Sent
    <2>3. owner' = owner /\ (InUse(s) => InUse(s)')
      BY <1>2, <1>7, Zenon DEF Grant, InUse, InState
    <2> QED BY <1>1, <2>1, <2>2, <2>3, Zenon DEF Harmless
  <1>8. ASSUME NEW chosen \in Revocable, Revoke(chosen)
        PROVE  Harmless(s) /\ (Zero(s) \in out' => s \in RetriedZeroes)
    <2>1. \A u \in Tenants : ToTenant(u, "SwapOn", s) \notin out'
      BY <1>4, <1>5, <1>8 DEF Revoke, Sent
    <2>2. Zero(s) \in out' => s \in RetriedZeroes
      BY <1>3, <1>6, <1>8 DEF Revoke, Sent
    <2>3. owner' = owner /\ (InUse(s) => InUse(s)')
      BY <1>2, <1>8, Zenon DEF Revoke, InUse
    <2> QED BY <1>1, <2>1, <2>2, <2>3, Zenon DEF Harmless
  <1>9. ASSUME NEW move \in {{}} \cup {{m} : m \in Moves}, NEW given \in Assignments, Rebalance(move, given)
        PROVE  Harmless(s) /\ (Zero(s) \in out' => s \in RetriedZeroes)
    <2>1. \A x \in DOMAIN given : x \in Slices /\ Swept[x] = "Free" /\ given[x] \in Tenants
      <3>1. present \subseteq Tenants BY DEF TypeOK
      <3> QED BY <3>1, Zenon DEF Assignments, InState
    <2>2. Zero(s) \in out' => s \in RetriedZeroes
      BY <1>3, <1>6, <1>9, Zenon DEF Rebalance, Sent
    <2>3. ASSUME NEW u \in Tenants, ToTenant(u, "SwapOn", s) \in out'
          PROVE  s \in DOMAIN given /\ given[s] = u
      BY <1>4, <1>5, <1>9, <2>3 DEF Rebalance, Sent
    <2>4. state'[s] = IF s \in {m.slice : m \in move} THEN "Draining"
                      ELSE IF s \in DOMAIN given THEN "Active" ELSE Swept[s]
      BY <1>9, Zenon DEF Rebalance
    <2>5. owner'[s] = IF s \in DOMAIN given THEN given[s] ELSE owner[s]
      BY <1>9, Zenon DEF Rebalance
    <2>6. InUse(s) => s \notin DOMAIN given BY <1>2, <2>1
    <2>7. InUse(s) => InUse(s)' BY <1>2, <2>4 DEF InUse
    <2>8. s \in DOMAIN given => InUse(s)' BY <2>4 DEF InUse
    <2> QED BY <1>1, <2>2, <2>3, <2>5, <2>6, <2>7, <2>8, Zenon DEF Harmless
  <1>10. CASE lease.phase = "pending" BY <1>7, <1>8, <1>10, Zenon DEF Tick, ServeRequest
  <1>11. CASE lease.phase # "pending" BY <1>9, <1>11, Zenon DEF Tick
  <1> QED BY <1>10, <1>11, Zenon

\* An answer about a slice moves that slice alone.
LEMMA SliceStepHarmless ==
    ASSUME BrokerSafe, NEW k \in Slices, NEW ok \in BOOLEAN, SliceStep(k, ok), NEW s \in Slices,
           k # s \/ (SwapOnDone(k, ok) /\ ok) \/ (SwapOffDone(k, ok) /\ ~ok)
    PROVE  Harmless(s) /\ Zero(s) \notin out'
  <1> USE BrokerAssumption DEF BrokerSafe
  <1>0. /\ state \in [Slices -> {"Free", "Active", "Draining", "Leased"}]
        /\ owner \in [Slices -> Tenants \cup {NoTenant}] /\ zeroTicks \in [Slices -> NotZeroing..ZeroError]
    BY DEF TypeOK
  <1>1. out' \subseteq {Zero(k), ToTenant(dest[k], "SwapOn", k)}
    BY Zenon DEF SliceStep, SwapOnDone, SwapOffDone, ZeroDone, Sent
  <1>2. CASE k # s
    <2>1. state'[s] = state[s] /\ owner'[s] = owner[s] /\ zeroTicks'[s] = zeroTicks[s]
      BY <1>0, <1>2, Zenon DEF SliceStep, SwapOnDone, SwapOffDone, ZeroDone, coreVars, sliceVars
    <2>2. Zero(s) \notin out' /\ \A u \in Tenants : ToTenant(u, "SwapOn", s) \notin out'
      BY <1>1, <1>2 DEF ToTenant, Zero
    <2> QED BY <2>1, <2>2, Zenon DEF Harmless, InUse
  <1>3. CASE SwapOnDone(k, ok) /\ ok
    BY <1>3, Zenon DEF SwapOnDone, Harmless, InUse
  <1>4. CASE SwapOffDone(k, ok) /\ ~ok
    BY <1>4, Zenon DEF SwapOffDone, Harmless, InUse, sliceVars
  <1> QED BY <1>2, <1>3, <1>4, Zenon

-----------------------------------------------------------------------------
(* The trace of a slice over steps of the core *)

\* What the I/O layer does in a step of the core, as far as s is concerned: messages
\* leave the sessions, answers leave the worker's channel, new ones are dispatched.
CoreFlow(s) ==
    /\ UNCHANGED agentVars
    /\ \A t \in Tenants :
         /\ Some(toBroker'[t], Returns(s)) => Some(toBroker[t], Returns(s))
         /\ Once(toBroker[t], Returns(s)) => Once(toBroker'[t], Returns(s))
         /\ Some(toAgent'[t], OnMsgs(s)) => Some(toAgent[t], OnMsgs(s)) \/ ToTenant(t, "SwapOn", s) \in out'
         /\ Once(toAgent[t], OnMsgs(s))
              /\ (ToTenant(t, "SwapOn", s) \in out' => ~Some(toAgent[t], OnMsgs(s)))
            => Once(toAgent'[t], OnMsgs(s))
    /\ Some(confirmed', Zeroed(s)) => Some(confirmed, Zeroed(s))
    /\ Once(confirmed, Zeroed(s)) => Once(confirmed', Zeroed(s))
    /\ Some(jobs', {s}) => Some(jobs, {s}) \/ Zero(s) \in out'
    /\ Once(jobs, {s}) /\ (Zero(s) \in out' => ~Some(jobs, {s})) => Once(jobs', {s})

SliceTrace(s) == ZeroTrace(s) /\ \A t \in Tenants : AgentTrace(t, s)

\* A harmless step of the core keeps, slice by slice, the trace of its use.
LEMMA HarmlessTrace ==
    ASSUME NEW s \in Slices, SliceTrace(s), Harmless(s), CoreFlow(s),
           Zero(s) \in out' => zeroTicks[s] # NotZeroing /\ ~Some(jobs, {s}) /\ ~Some(confirmed', Zeroed(s))
    PROVE  SliceTrace(s)'
  <1>1. zeroTicks[s] # NotZeroing => InUse(s) BY Zenon DEF SliceTrace, ZeroTrace
  <1>3. ZeroTrace(s)'
    BY <1>1, Zenon DEF SliceTrace, ZeroTrace, Harmless, CoreFlow
  <1>4. ASSUME NEW t \in Tenants PROVE AgentTrace(t, s)'
    <2>1. AgentTrace(t, s) BY Zenon DEF SliceTrace
    <2>2. /\ cmds'[t] = cmds[t] /\ results'[t] = results[t] /\ mounted'[t] = mounted[t]
      BY Zenon DEF CoreFlow, agentVars
    <2>3. CASE InUse(s)
      BY <2>1, <2>2, <2>3, Zenon DEF AgentTrace, Harmless, CoreFlow
    <2>4. CASE ~InUse(s)
      BY <1>1, <2>1, <2>2, <2>4, ZenonT(40) DEF AgentTrace, Harmless, CoreFlow
    <2> QED BY <2>3, <2>4
  <1> QED BY <1>3, <1>4 DEF SliceTrace

\* A failed mount or a swapoff was reported: the use of s is over.
LEMMA ReturnTrace ==
    ASSUME BrokerSafe, NEW s \in Slices, NEW t \in Tenants, SliceTrace(s), CoreFlow(s),
           Some(toBroker[t], Returns(s)), ~Some(toBroker'[t], Returns(s)),
           SwapOnDone(s, FALSE) \/ SwapOffDone(s, TRUE)
    PROVE  SliceTrace(s)'
  <1> USE BrokerAssumption DEF BrokerSafe
  <1>0. /\ state \in [Slices -> {"Free", "Active", "Draining", "Leased"}]
        /\ owner \in [Slices -> Tenants \cup {NoTenant}] /\ zeroTicks \in [Slices -> NotZeroing..ZeroError]
    BY Zenon DEF TypeOK
  <1>1. owner[s] = t /\ InUse(s) /\ zeroTicks[s] = NotZeroing BY Zenon DEF SliceTrace, AgentTrace
  <1>2. \A u \in Tenants : ToTenant(u, "SwapOn", s) \notin out'
    <2>1. out' \subseteq {Zero(s)} BY Zenon DEF SwapOnDone, SwapOffDone
    <2> QED BY <2>1, NotAZero, Zenon
  <1>3. ASSUME NEW u \in Tenants PROVE AgentTrace(u, s)'
    <2>1. AgentTrace(u, s) /\ AgentTrace(t, s) BY Zenon DEF SliceTrace
    <2>2. cmds'[u] = cmds[u] /\ results'[u] = results[u] /\ mounted'[u] = mounted[u]
      BY DEF CoreFlow, agentVars
    <2>3. CASE u = t
      BY <1>2, <2>1, <2>2, <2>3, Zenon DEF AgentTrace, CoreFlow
    <2>4. CASE u # t
      BY <1>1, <1>2, <2>1, <2>2, <2>4, Zenon DEF AgentTrace, CoreFlow
    <2> QED BY <2>3, <2>4, Zenon
  <1>4. ~Some(jobs, {s}) /\ ~Some(confirmed, Zeroed(s)) BY <1>1 DEF SliceTrace, ZeroTrace
  <1>5. ZeroTrace(s)'
    <2>1. CASE SwapOnDone(s, FALSE)
      <3>1. Zero(s) \notin out' /\ zeroTicks' = zeroTicks BY <2>1, ZenonT(40) DEF SwapOnDone
      <3> QED BY <1>1, <1>4, <3>1, Zenon DEF SliceTrace, ZeroTrace, CoreFlow
    <2>2. CASE SwapOffDone(s, TRUE)
      <3>1. zeroTicks'[s] = 0 /\ state' = state BY <1>0, <1>1, <2>2, Zenon DEF SwapOffDone, sliceVars
      <3>2. zeroTicks'[s] # NotZeroing /\ InUse(s)' BY <1>1, <3>1 DEF NotZeroing, InUse
      <3> QED BY <1>4, <3>2, ZenonT(40) DEF SliceTrace, ZeroTrace, CoreFlow
    <2> QED BY <2>1, <2>2, Zenon
  <1> QED BY <1>3, <1>5 DEF SliceTrace

\* The zero of s was confirmed: s is free, or its next use begins.
LEMMA ZeroDoneTrace ==
    ASSUME BrokerSafe, NEW s \in Slices, SliceTrace(s), CoreFlow(s),
           Some(confirmed, Zeroed(s)), ~Some(confirmed', Zeroed(s)), ZeroDone(s, TRUE)
    PROVE  SliceTrace(s)'
  <1> USE BrokerAssumption DEF BrokerSafe
  <1>0. /\ state \in [Slices -> {"Free", "Active", "Draining", "Leased"}]
        /\ owner \in [Slices -> Tenants \cup {NoTenant}] /\ zeroTicks \in [Slices -> NotZeroing..ZeroError]
        /\ dest \in [Slices -> SwapTenants \cup {NoTenant}]
    BY DEF TypeOK
  <1>1. zeroTicks[s] # NotZeroing /\ ~Some(jobs, {s}) BY Zenon DEF SliceTrace, ZeroTrace
  <1>2. zeroTicks'[s] = NotZeroing BY <1>0 DEF ZeroDone
  <1>o. out' \subseteq {ToTenant(dest[s], "SwapOn", s)} BY Zenon DEF ZeroDone, Sent
  <1>3. Zero(s) \notin out' BY <1>o, NotAZero, Zenon
  <1>4. ZeroTrace(s)' BY <1>1, <1>2, <1>3, Zenon DEF SliceTrace, ZeroTrace, CoreFlow
  <1>5. ASSUME NEW u \in Tenants, ToTenant(u, "SwapOn", s) \in out' PROVE owner'[s] = u /\ InUse(s)'
    <2>1. state[s] = "Draining" BY <1>5, Zenon DEF ZeroDone
    <2>2. u = dest[s]
      <3>1. ToTenant(u, "SwapOn", s) = ToTenant(dest[s], "SwapOn", s) BY <1>5, <1>o, Zenon
      <3> QED BY <3>1, SameReceiver, Zenon
    <2>3. dest[s] # NoTenant BY <2>2
    <2> QED BY <1>0, <2>1, <2>2, <2>3, Zenon DEF ZeroDone, InUse
  <1>6. ASSUME NEW u \in Tenants PROVE AgentTrace(u, s)'
    <2>1. AgentTrace(u, s) BY DEF SliceTrace
    <2>2. cmds'[u] = cmds[u] /\ results'[u] = results[u] /\ mounted'[u] = mounted[u]
      BY Zenon DEF CoreFlow, agentVars
    <2> QED BY <1>1, <1>2, <1>5, <2>1, <2>2, Zenon DEF AgentTrace, CoreFlow
  <1> QED BY <1>4, <1>6, Zenon DEF SliceTrace

-----------------------------------------------------------------------------
(* The core *)

\* The inductive invariant: the core's own, the types of what is in flight, and the
\* one trace of every slice.
SystemInv == BrokerSafe /\ SystemTypes /\ OneTrace

\* What every step of the core has in common: it is a step of BrokerCore, after
\* which the I/O layer has dispatched what it sent.
CoreStep ==
    /\ Next
    /\ \E lost \in BOOLEAN : Dispatch(lost)
    /\ UNCHANGED agentVars
    /\ faults' \in 0..MaxFaults
    /\ toBroker' \in [Tenants -> Seq(BrokerMsg)]
    /\ confirmed' \in Seq(Answer) /\ Len(confirmed') <= Len(confirmed)
    /\ \A s \in Slices :
         /\ \A t \in Tenants :
              /\ Some(toBroker'[t], Returns(s)) => Some(toBroker[t], Returns(s))
              /\ Once(toBroker[t], Returns(s)) => Once(toBroker'[t], Returns(s))
         /\ Some(confirmed', Zeroed(s)) => Some(confirmed, Zeroed(s))
         /\ Once(confirmed, Zeroed(s)) => Once(confirmed', Zeroed(s))

\* Such a step keeps the core's invariant and the types; the queues flow as they should.
LEMMA CoreStepKeeps ==
    ASSUME SystemInv, CoreStep
    PROVE  BrokerSafe' /\ SystemTypes' /\ \A s \in Slices : CoreFlow(s)
  <1>1. BrokerSafe' BY TypeStep, SlicesStep, LeaseStep DEF SystemInv, CoreStep, BrokerSafe
  <1>2. PICK lost \in BOOLEAN : Dispatch(lost) BY DEF CoreStep
  <1>3. out' \subseteq OutMsg BY OutTyped DEF SystemInv, CoreStep
  <1>4. /\ toAgent' \in [Tenants -> Seq(AgentMsg)]
        /\ \A t \in Tenants, s \in Slices :
             /\ Some(toAgent'[t], OnMsgs(s)) =>
                   Some(toAgent[t], OnMsgs(s)) \/ ToTenant(t, "SwapOn", s) \in out'
             /\ Once(toAgent[t], OnMsgs(s))
                  /\ (ToTenant(t, "SwapOn", s) \in out' => ~Some(toAgent[t], OnMsgs(s)))
                => Once(toAgent'[t], OnMsgs(s))
        /\ jobs' \in Seq(Slices) /\ Len(jobs') + Len(confirmed') <= ZeroCap
        /\ \A s \in Slices :
             /\ Some(jobs', {s}) => Some(jobs, {s}) \/ Zero(s) \in out'
             /\ Once(jobs, {s}) /\ (Zero(s) \in out' => ~Some(jobs, {s})) => Once(jobs', {s})
    BY <1>2, <1>3, DispatchFacts, Zenon DEF SystemInv, CoreStep
  <1>5. SystemTypes'
    BY <1>4 DEF SystemInv, SystemTypes, CoreStep, agentVars
  <1>6. \A s \in Slices : CoreFlow(s)
    BY <1>4, Zenon DEF CoreFlow, CoreStep
  <1> QED BY <1>1, <1>5, <1>6, Zenon

\* Handling an event dispatches what the core sent, and uses up one fault at most.
LEMMA HandledDispatches ==
    ASSUME SystemTypes, Handled
    PROVE  (\E lost \in BOOLEAN : Dispatch(lost)) /\ faults' \in 0..MaxFaults
  <1>1. \E lost \in BOOLEAN : Dispatch(lost)
    <2>1. CASE Dispatch(FALSE) BY <2>1, Zenon
    <2>2. CASE Dispatch(TRUE) BY <2>2, Zenon
    <2> QED BY <2>1, <2>2, Zenon DEF Handled
  <1>2. faults' = faults \/ (faults > 0 /\ faults' = faults - 1)
    BY Zenon DEF Handled, NoFault, Fault
  <1> QED BY <1>1, <1>2, SystemAssumption DEF SystemTypes

\* A message to the core is a tenant's, or reports on a slice.
LEMMA CoreReceivesCases ==
    ASSUME SystemInv, NEW t \in Tenants, CoreReceives(t)
    PROVE  LET m == Head(toBroker[t])
           IN \/ TenantStep(t)
              \/ m \in Result /\ m.kind = "SwapOnDone" /\ SwapOnDone(m.slice, m.ok)
              \/ m \in Result /\ m.kind = "SwapOffDone" /\ SwapOffDone(m.slice, m.ok)
  <1> DEFINE m == Head(toBroker[t])
  <1>0. m \in BrokerMsg
    <2>1. toBroker[t] \in Seq(BrokerMsg) /\ toBroker[t] # << >>
      BY DEF SystemInv, SystemTypes, CoreReceives
    <2> QED BY <2>1, SomeTail, Zenon
  <1>1. CASE m.kind = "Register" /\ Register(t) BY <1>1 DEF TenantStep
  <1>2. CASE m.kind = "Gone" /\ Disconnect(t) BY <1>2, Zenon DEF TenantStep
  <1>3. CASE m.kind = "Psi" /\ Psi(t, m.mounted)
    <2>1. m.mounted \in SUBSET Slices BY <1>0, <1>3, Zenon DEF BrokerMsg, Result
    <2> HIDE DEF m
    <2> QED BY <1>3, <2>1, Zenon DEF TenantStep
  <1>4. CASE m.kind = "LeaseRequest" /\ LeaseRequest(t, m.size)
    <2>1. m.size \in 0..(Cardinality(Slices) + 1) BY <1>0, <1>4 DEF BrokerMsg, Result
    <2> HIDE DEF m
    <2> QED BY <1>4, <2>1, Zenon DEF TenantStep
  <1>5. CASE m.kind = "LeaseRelease" /\ LeaseRelease(t, m.id)
    <2>1. m.id \in 0..MaxLeaseId BY <1>0, <1>5, Zenon DEF BrokerMsg, Result
    <2> HIDE DEF m
    <2> QED BY <1>5, <2>1, Zenon DEF TenantStep
  <1>6. m.kind \in {"SwapOnDone", "SwapOffDone"} => m \in Result BY <1>0 DEF BrokerMsg
  <1> QED BY <1>1, <1>2, <1>3, <1>4, <1>5, <1>6, ZenonT(40) DEF CoreReceives

\* The core handling a message of a live session keeps the invariant.
LEMMA CoreReceivesKeeps ==
    ASSUME SystemInv, NEW t \in Tenants, CoreReceives(t)
    PROVE  SystemInv'
  <1> DEFINE m == Head(toBroker[t])
  <1>1. toBroker[t] \in Seq(BrokerMsg) /\ toBroker[t] # << >> /\ toBroker \in [Tenants -> Seq(BrokerMsg)]
    BY DEF SystemInv, SystemTypes, CoreReceives
  <1>2. /\ m \in BrokerMsg /\ Tail(toBroker[t]) \in Seq(BrokerMsg)
        /\ \A S : /\ Some(Tail(toBroker[t]), S) => Some(toBroker[t], S)
                  /\ Once(toBroker[t], S) => Once(Tail(toBroker[t]), S)
                  /\ m \in S => Some(toBroker[t], S)
                  /\ Once(toBroker[t], S) /\ m \in S => ~Some(Tail(toBroker[t]), S)
    BY <1>1, SomeTail
  <1>3. toBroker' = [toBroker EXCEPT ![t] = Tail(toBroker[t])] BY Zenon DEF CoreReceives
  <1> DEFINE done == m \in Result /\ (\/ m.kind = "SwapOnDone" /\ SwapOnDone(m.slice, m.ok)
                                      \/ m.kind = "SwapOffDone" /\ SwapOffDone(m.slice, m.ok))
  <1>4. TenantStep(t) \/ done BY CoreReceivesCases
  <1> HIDE DEF m
  <1>5. done => m.slice \in Slices /\ m.ok \in BOOLEAN /\ SliceStep(m.slice, m.ok)
    BY DEF Result, SliceStep
  <1>6. Next BY <1>4, <1>5 DEF Next
  <1>7. CoreStep
    <2>1. confirmed' = confirmed /\ UNCHANGED agentVars BY DEF CoreReceives
    <2>2. toBroker' \in [Tenants -> Seq(BrokerMsg)] BY <1>1, <1>2, <1>3, Zenon
    <2>3. \A u \in Tenants, s \in Slices :
             /\ Some(toBroker'[u], Returns(s)) => Some(toBroker[u], Returns(s))
             /\ Once(toBroker[u], Returns(s)) => Once(toBroker'[u], Returns(s))
      BY <1>1, <1>2, <1>3, Zenon
    <2>4. (\E lost \in BOOLEAN : Dispatch(lost)) /\ faults' \in 0..MaxFaults
      BY HandledDispatches DEF CoreReceives, SystemInv
    <2>5. confirmed \in Seq(Answer) /\ Len(confirmed) <= Len(confirmed) BY DEF SystemInv, SystemTypes
    <2> QED BY <1>6, <2>1, <2>2, <2>3, <2>4, <2>5, Zenon DEF CoreStep
  <1>8. BrokerSafe' /\ SystemTypes' /\ \A s \in Slices : CoreFlow(s) BY <1>7, CoreStepKeeps
  <1>9. ASSUME NEW s \in Slices PROVE SliceTrace(s)'
    <2>0. BrokerSafe /\ SliceTrace(s) BY DEF SystemInv, OneTrace, SliceTrace
    <2>1. CASE TenantStep(t)
      BY <1>8, <2>0, <2>1, TenantStepHarmless, HarmlessTrace, Zenon
    <2>2. CASE done /\ ~(m.slice = s /\ m \in Returns(s))
      <3>1. m.slice # s \/ (SwapOnDone(m.slice, m.ok) /\ m.ok) \/ (SwapOffDone(m.slice, m.ok) /\ ~m.ok)
        <4>1. m = [kind |-> m.kind, slice |-> m.slice, ok |-> m.ok] BY <2>2 DEF Result
        <4> QED BY <1>5, <2>2, <4>1, Zenon DEF Returns
      <3> QED BY <1>5, <1>8, <2>0, <2>2, <3>1, SliceStepHarmless, HarmlessTrace, Zenon
    <2>3. CASE done /\ m.slice = s /\ m \in Returns(s)
      <3>1. Some(toBroker[t], Returns(s)) BY <1>2, <2>3 DEF m
      <3>2. Once(toBroker[t], Returns(s)) BY <2>0, Zenon DEF SliceTrace, AgentTrace
      <3>3. toBroker'[t] = Tail(toBroker[t]) BY <1>1, <1>3
      <3>4. ~Some(toBroker'[t], Returns(s)) BY <1>2, <2>3, <3>2, <3>3, Zenon DEF m
      <3>5. SwapOnDone(s, FALSE) \/ SwapOffDone(s, TRUE)
        <4>1. \/ m.kind = "SwapOnDone" /\ m.ok = FALSE
              \/ m.kind = "SwapOffDone" /\ m.ok = TRUE
          BY <2>3 DEF Returns
        <4> QED BY <2>3, <4>1, Zenon
      <3> QED BY <1>8, <2>0, <3>1, <3>4, <3>5, ReturnTrace, Zenon
    <2> QED BY <1>4, <2>1, <2>2, <2>3, Zenon
  <1> QED BY <1>8, <1>9, Zenon DEF SystemInv, OneTrace, SliceTrace

\* So does the answer of the zeroing worker.
LEMMA CoreZeroDoneKeeps ==
    ASSUME SystemInv, NEW i \in 1..Len(confirmed), CoreZeroDone(i)
    PROVE  SystemInv'
  <1> DEFINE k == confirmed[i].slice
             ok == confirmed[i].ok
  <1>1. confirmed \in Seq(Answer) BY Zenon DEF SystemInv, SystemTypes
  <1>2. k \in Slices /\ ok \in BOOLEAN /\ confirmed[i] \in Zeroed(k)
    <2>1. confirmed[i] \in Answer BY <1>1
    <2>2. k \in Slices /\ ok \in BOOLEAN /\ confirmed[i] = [slice |-> k, ok |-> ok] BY <2>1 DEF Answer
    <2> QED BY <2>2 DEF Zeroed
  <1>3. /\ confirmed' \in Seq(Answer) /\ Len(confirmed') = Len(confirmed) - 1
        /\ \A S : /\ Some(confirmed', S) => Some(confirmed, S)
                  /\ Once(confirmed, S) => Once(confirmed', S)
                  /\ Once(confirmed, S) /\ confirmed[i] \in S => ~Some(confirmed', S)
    <2>1. confirmed' = Without(confirmed, i) BY DEF CoreZeroDone
    <2> QED BY <1>1, <2>1, SomeWithout
  <1>4. ZeroDone(k, ok) /\ SliceStep(k, ok) BY DEF CoreZeroDone, SliceStep
  <1>5. Some(confirmed, Zeroed(k)) BY <1>1, <1>2 DEF Some
  <1> HIDE DEF k, ok
  <1>6. CoreStep
    <2>1. Next BY <1>2, <1>4 DEF Next
    <2>2. toBroker' = toBroker /\ UNCHANGED agentVars BY DEF CoreZeroDone
    <2>3. (\E lost \in BOOLEAN : Dispatch(lost)) /\ faults' \in 0..MaxFaults
      BY HandledDispatches DEF CoreZeroDone, SystemInv
    <2>4. toBroker \in [Tenants -> Seq(BrokerMsg)] BY DEF SystemInv, SystemTypes
    <2>5. Len(confirmed') <= Len(confirmed) BY <1>1, <1>3
    <2> QED BY <1>3, <2>1, <2>2, <2>3, <2>4, <2>5, Zenon DEF CoreStep
  <1>7. BrokerSafe' /\ SystemTypes' /\ \A s \in Slices : CoreFlow(s) BY <1>6, CoreStepKeeps
  <1>8. ASSUME NEW s \in Slices PROVE SliceTrace(s)'
    <2>0. BrokerSafe /\ SliceTrace(s) BY DEF SystemInv, OneTrace, SliceTrace
    <2>1. CASE k # s BY <1>2, <1>4, <1>7, <2>0, <2>1, SliceStepHarmless, HarmlessTrace, Zenon
    <2>2. CASE k = s
      <3>1. ~Some(confirmed', Zeroed(s)) /\ Some(confirmed, Zeroed(s))
        BY <1>2, <1>3, <1>5, <2>0, <2>2, Zenon DEF SliceTrace, ZeroTrace
      <3>2. CASE ok
        <4>1. ZeroDone(s, TRUE) BY <1>2, <1>4, <2>2, <3>2, Zenon
        <4> QED BY <1>7, <2>0, <3>1, <4>1, ZeroDoneTrace, Zenon
      <3>3. CASE ~ok
        <4>1. out' = {Zero(s)} /\ UNCHANGED coreVars BY <1>4, <2>2, <3>3, Zenon DEF ZeroDone
        <4>2. \A u \in Tenants : ToTenant(u, "SwapOn", s) \notin out' BY <4>1, Zenon DEF ToTenant, Zero
        <4>3. Harmless(s) BY <4>1, <4>2, Zenon DEF Harmless, InUse, coreVars, sliceVars
        <4>4. zeroTicks[s] # NotZeroing /\ ~Some(jobs, {s}) BY <2>0, <3>1, Zenon DEF SliceTrace, ZeroTrace
        <4> QED BY <1>7, <2>0, <3>1, <4>3, <4>4, HarmlessTrace, Zenon
      <3> QED BY <3>2, <3>3, Zenon
    <2> QED BY <2>1, <2>2
  <1> QED BY <1>7, <1>8, Zenon DEF SystemInv, OneTrace, SliceTrace

\* A retry of a lost zero finds none under way: this is where the promptness of the
\* worker is needed.
LEMMA CoreTickKeeps ==
    ASSUME SystemInv, PromptWorker, CoreTick(OwnerMoves)
    PROVE  SystemInv'
  <1>1. Tick(Moves)
    <2>1. OwnerMoves \subseteq Moves BY DEF OwnerMoves
    <2>2. Tick(OwnerMoves) BY DEF CoreTick
    <2> QED BY <2>1, <2>2, Zenon DEF Tick
  <1>2. CoreStep
    <2>1. Next BY <1>1 DEF Next
    <2>2. toBroker' = toBroker /\ confirmed' = confirmed /\ UNCHANGED agentVars BY DEF CoreTick
    <2>3. (\E lost \in BOOLEAN : Dispatch(lost)) /\ faults' \in 0..MaxFaults
      BY HandledDispatches DEF CoreTick, SystemInv
    <2>4. /\ toBroker \in [Tenants -> Seq(BrokerMsg)] /\ confirmed \in Seq(Answer)
          /\ Len(confirmed) <= Len(confirmed)
      BY DEF SystemInv, SystemTypes
    <2> QED BY <2>1, <2>2, <2>3, <2>4 DEF CoreStep
  <1>3. BrokerSafe' /\ SystemTypes' /\ \A s \in Slices : CoreFlow(s) BY <1>2, CoreStepKeeps, Zenon
  <1>4. ASSUME NEW s \in Slices PROVE SliceTrace(s)'
    <2>0. BrokerSafe /\ SliceTrace(s) BY DEF SystemInv, OneTrace, SliceTrace
    <2>1. Harmless(s) /\ (Zero(s) \in out' => s \in RetriedZeroes) BY <1>1, <2>0, TickHarmless
    <2>2. ASSUME s \in RetriedZeroes
          PROVE  zeroTicks[s] # NotZeroing /\ ~Some(jobs, {s}) /\ ~Some(confirmed', Zeroed(s))
      <3>1. ~BeingZeroed(s) /\ confirmed' = confirmed BY <2>2 DEF CoreTick
      <3>2. jobs \in Seq(Slices) /\ confirmed \in Seq(Answer) BY DEF SystemInv, SystemTypes
      <3>3. ~Some(jobs, {s}) BY <3>1, Zenon DEF BeingZeroed
      <3>4. ~Some(confirmed, Zeroed(s)) BY <3>1, <3>2, NoneZeroed, Zenon DEF BeingZeroed
      <3> QED BY <2>2, <3>1, <3>3, <3>4, Zenon DEF RetriedZeroes
    <2> QED BY <1>3, <2>0, <2>1, <2>2, HarmlessTrace, Zenon
  <1> QED BY <1>3, <1>4 DEF SystemInv, OneTrace, SliceTrace

\* And so does a demotion ordered by the canary.
LEMMA CoreDemoteKeeps ==
    ASSUME SystemInv, CoreDemote
    PROVE  SystemInv'
  <1>1. Demote BY DEF CoreDemote
  <1>2. CoreStep
    <2>1. Next BY <1>1 DEF Next
    <2>2. toBroker' = toBroker /\ confirmed' = confirmed /\ UNCHANGED agentVars BY DEF CoreDemote
    <2>3. \E lost \in BOOLEAN : Dispatch(lost) BY Zenon DEF CoreDemote
    <2>4. faults' \in 0..MaxFaults BY SystemAssumption DEF CoreDemote
    <2>5. /\ toBroker \in [Tenants -> Seq(BrokerMsg)] /\ confirmed \in Seq(Answer)
          /\ Len(confirmed) <= Len(confirmed)
      BY DEF SystemInv, SystemTypes
    <2> QED BY <2>1, <2>2, <2>3, <2>4, <2>5, Zenon DEF CoreStep
  <1>3. BrokerSafe' /\ SystemTypes' /\ \A s \in Slices : CoreFlow(s) BY <1>2, CoreStepKeeps
  <1>4. ASSUME NEW s \in Slices PROVE SliceTrace(s)'
    BY <1>1, <1>3, DemoteHarmless, HarmlessTrace, Zenon DEF SystemInv, OneTrace, SliceTrace
  <1> QED BY <1>3, <1>4 DEF SystemInv, OneTrace, SliceTrace
=============================================================================
