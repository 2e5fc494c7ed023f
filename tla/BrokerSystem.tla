----------------------------- MODULE BrokerSystem -----------------------------
(***************************************************************************)
(* BrokerCore with the parts it talks to: the I/O layer of broker_srv.rs,  *)
(* the agents (crates/ramshared-agent/src: session loop, execution thread, *)
(* swap.rs) with the swap devices they mount, and the daemon's worker that *)
(* zeroes slices.                                                          *)
(*                                                                         *)
(* Sessions are FIFO in both directions.  When one ends, what was sent to  *)
(* the agent is lost and the broker reads what the agent had sent, then    *)
(* end of file.  An agent is back only after the broker has seen that: its *)
(* earlier attempts are refused as duplicates and change nothing.          *)
(***************************************************************************)
EXTENDS BrokerCore, Sequences

CONSTANTS
    LeaseSizes,    \* leases a tenant may ask for
    Rebalancing,   \* whether the arbiter moves slices between tenants
    PromptWorker,  \* whether the worker answers before a retry is due
    ZeroCap,       \* zero jobs and confirmations in flight; the jobs channel is bounded
    Faults,        \* kinds of fault that happen
    MaxFaults      \* how many of them

FaultKinds == {"session", "mount", "swapoff", "zero", "demote", "queue"}

ASSUME SystemAssumption ==
    /\ Faults \subseteq FaultKinds /\ MaxFaults \in Nat /\ ZeroCap \in Nat \ {0}
    /\ LeaseSizes \subseteq 1..Cardinality(Slices)
    /\ {Rebalancing, PromptWorker} \subseteq BOOLEAN

VARIABLES
    linked,        \* agents with a session
    toBroker, toAgent,
    active,        \* the slices an agent's session knows of
    cmds, results, \* to and from its execution thread
    mounted,       \* the slices its kernel swaps to
    jobs,          \* zero jobs, in the worker's queue
    confirmed,     \* zeroes answered, [slice, ok], on their way to the core
    faults         \* faults left

agentVars == <<linked, active, cmds, results, mounted>>
zeroVars == <<jobs, confirmed>>
sysVars == <<vars, toBroker, toAgent, agentVars, zeroVars, faults>>

Fault(kind) == kind \in Faults /\ faults > 0 /\ faults' = faults - 1
NoFault == UNCHANGED faults

-----------------------------------------------------------------------------
(* Queues.  SequencesExt has the like, but the modules it extends make every  *)
(* proof obligation about this module an order of magnitude slower.           *)

\* Some element of q, and at most one element of q, is in S.
Some(q, S) == \E i \in DOMAIN q : q[i] \in S
Once(q, S) == \A i, j \in DOMAIN q : q[i] \in S /\ q[j] \in S => i = j

\* q without its i-th element.
Without(q, i) == [k \in 1..(Len(q) - 1) |-> q[IF k < i THEN k ELSE k + 1]]

\* The elements of S, one after the other.
Listed(S) ==
    CHOOSE q \in [1..Cardinality(S) -> S] : \A i, j \in 1..Cardinality(S) : q[i] = q[j] => i = j

-----------------------------------------------------------------------------
(* The I/O layer *)

\* dispatch: messages to the sessions, zero jobs to the worker if there is room.
Dispatch(lost) ==
    LET zeroes == IF lost THEN << >> ELSE Listed({m.slice : m \in {x \in out' : x.kind = "Zero"}})
        room == ZeroCap - Len(jobs) - Len(confirmed')
    IN /\ toAgent' = [t \in Tenants |->
                        IF t \in linked
                        THEN toAgent[t] \o Listed({m \in out' : m.to = t /\ m.kind \notin {"Registered", "Ack"}})
                        ELSE << >>]
       /\ jobs' = jobs \o SubSeq(zeroes, 1, IF room < Len(zeroes) THEN room ELSE Len(zeroes))

Handled ==
    \/ NoFault /\ Dispatch(FALSE)
    \/ (\E m \in out' : m.kind = "Zero") /\ Fault("queue") /\ Dispatch(TRUE)

\* core_loop takes the next message of a session.
CoreReceives(t) ==
    /\ toBroker[t] # << >>
    /\ LET m == Head(toBroker[t])
       IN \/ m.kind = "Register" /\ Register(t)
          \/ m.kind = "Gone" /\ Disconnect(t)
          \/ m.kind = "Psi" /\ Psi(t, m.mounted)
          \/ m.kind = "SwapOnDone" /\ SwapOnDone(m.slice, m.ok)
          \/ m.kind = "SwapOffDone" /\ SwapOffDone(m.slice, m.ok)
          \/ m.kind = "LeaseRequest" /\ LeaseRequest(t, m.size)
          \/ m.kind = "LeaseRelease" /\ LeaseRelease(t, m.id)
    /\ toBroker' = [toBroker EXCEPT ![t] = Tail(@)]
    /\ UNCHANGED <<agentVars, confirmed>>
    /\ Handled

\* The forwarder threads of dispatch deliver confirmations in any order.
CoreZeroDone(i) ==
    /\ i \in 1..Len(confirmed)
    /\ ZeroDone(confirmed[i].slice, confirmed[i].ok)
    /\ confirmed' = Without(confirmed, i)
    /\ UNCHANGED <<toBroker, agentVars>>
    /\ Handled

\* The moves of an arbiter whose tenants are where it last saw them.
OwnerMoves ==
    {m \in Moves : Rebalancing /\ owner[m.slice] = m.from /\ m.from \in present /\ m.from # m.to}

\* A zero is in the worker's hands or on its way back.
BeingZeroed(s) == Some(jobs, {s}) \/ \E i \in 1..Len(confirmed) : confirmed[i].slice = s

CoreTick(moves) ==
    /\ PromptWorker => \A s \in RetriedZeroes : ~BeingZeroed(s)
    /\ Tick(moves)
    /\ UNCHANGED <<toBroker, agentVars, confirmed>>
    /\ Handled

\* Bound: a demotion is the last fault.
CoreDemote ==
    /\ "demote" \in Faults /\ faults > 0 /\ faults' = 0
    /\ Demote
    /\ UNCHANGED <<toBroker, agentVars, confirmed>>
    /\ Dispatch(FALSE)

-----------------------------------------------------------------------------
(* The worker *)

WorkerZeroes ==
    /\ jobs # << >>
    /\ \/ NoFault /\ confirmed' = Append(confirmed, [slice |-> Head(jobs), ok |-> TRUE])
       \/ Fault("zero") /\ confirmed' = Append(confirmed, [slice |-> Head(jobs), ok |-> FALSE])
    /\ jobs' = Tail(jobs)
    /\ UNCHANGED <<vars, toBroker, toAgent, agentVars>>

-----------------------------------------------------------------------------
(* The agents *)

Send(t, m) == toBroker' = [toBroker EXCEPT ![t] = Append(@, m)]

Heartbeat(t) == [kind |-> "Psi", mounted |-> mounted[t]]

\* A session starts with the registration and the first heartbeat.
Connect(t) ==
    /\ t \notin linked /\ toBroker[t] = << >>
    /\ linked' = linked \cup {t}
    /\ toBroker' = [toBroker EXCEPT ![t] = <<[kind |-> "Register"], Heartbeat(t)>>]
    /\ NoFault
    /\ UNCHANGED <<vars, toAgent, active, cmds, results, mounted, zeroVars>>

\* Later heartbeats only matter to a lease of the agent's own.
SendPsi(t) ==
    /\ t \in linked /\ toBroker[t] = << >>
    /\ lease.phase = "active" /\ lease.holder = t
    /\ Send(t, Heartbeat(t))
    /\ NoFault
    /\ UNCHANGED <<vars, toAgent, agentVars, zeroVars>>

SendLease(t) ==
    /\ t \in linked
    /\ \A i \in 1..Len(toBroker[t]) : toBroker[t][i].kind \notin {"LeaseRequest", "LeaseRelease"}
    /\ \/ lease.phase = "none" /\ \E n \in LeaseSizes : Send(t, [kind |-> "LeaseRequest", size |-> n])
       \/ lease.phase = "active" /\ lease.holder = t /\ Send(t, [kind |-> "LeaseRelease", id |-> lease.id])
    /\ NoFault
    /\ UNCHANGED <<vars, toAgent, agentVars, zeroVars>>

\* A result of the execution thread, which may be of an earlier session.
SendResult(t) ==
    /\ t \in linked /\ results[t] # << >>
    /\ LET r == Head(results[t])
       IN /\ active' = IF r.kind = "SwapOffDone" \/ ~r.ok THEN [active EXCEPT ![t] = @ \ {r.slice}] ELSE active
          /\ Send(t, r)
    /\ results' = [results EXCEPT ![t] = Tail(@)]
    /\ NoFault
    /\ UNCHANGED <<vars, toAgent, linked, cmds, mounted, zeroVars>>

Offs(S) == Listed({[op |-> "Off", slice |-> s] : s \in S})

\* handle_msg
AgentReceives(t) ==
    /\ t \in linked /\ toAgent[t] # << >>
    /\ LET m == Head(toAgent[t])
           on == IF m.kind = "SwapOn" THEN <<[op |-> "On", slice |-> m.slice]>> ELSE << >>
           off == CASE m.kind = "SwapOff" -> {m.slice} [] m.kind = "DemoteAll" -> active[t] [] OTHER -> {}
       IN /\ active' = [active EXCEPT ![t] = (@ \cup (IF on = << >> THEN {} ELSE {m.slice})) \ off]
          /\ cmds' = [cmds EXCEPT ![t] = @ \o on \o Offs(off)]
    /\ toAgent' = [toAgent EXCEPT ![t] = Tail(@)]
    /\ NoFault
    /\ UNCHANGED <<vars, toBroker, linked, results, mounted, zeroVars>>

\* The end of a session: watchdog, end of file or a write error.  What it had
\* mounted is given up, as far as swapoff succeeds.
SessionEnds(t) ==
    /\ t \in linked
    /\ Fault("session")
    /\ \E kept \in SUBSET (active[t] \cap mounted[t]) :
          /\ kept # {} => "swapoff" \in Faults
          /\ mounted' = [mounted EXCEPT ![t] = @ \ (active[t] \ kept)]
    /\ active' = [active EXCEPT ![t] = {}]
    /\ linked' = linked \ {t}
    /\ toAgent' = [toAgent EXCEPT ![t] = << >>]
    /\ Send(t, [kind |-> "Gone"])
    /\ UNCHANGED <<vars, cmds, results, zeroVars>>

Report(t, kind, s, ok) ==
    results' = [results EXCEPT ![t] = Append(@, [kind |-> kind, slice |-> s, ok |-> ok])]

\* exec_loop: attach_swap fails on a device in use, and otherwise at any of its
\* three commands; its writes queue behind the zeroes of the slice.
ExecOn(t, s) ==
    \/ /\ s \notin mounted[t] /\ ~Some(jobs, {s})
       /\ mounted' = [mounted EXCEPT ![t] = @ \cup {s}]
       /\ Report(t, "SwapOnDone", s, TRUE) /\ NoFault
    \/ /\ IF s \in mounted[t] THEN NoFault ELSE Fault("mount")
       /\ Report(t, "SwapOnDone", s, FALSE) /\ UNCHANGED mounted

\* detach_swap fails on a device that is not swapped to.
ExecOff(t, s) ==
    \/ /\ s \in mounted[t]
       /\ mounted' = [mounted EXCEPT ![t] = @ \ {s}]
       /\ Report(t, "SwapOffDone", s, TRUE) /\ NoFault
    \/ /\ IF s \notin mounted[t] THEN NoFault ELSE Fault("swapoff")
       /\ Report(t, "SwapOffDone", s, FALSE) /\ UNCHANGED mounted

Exec(t) ==
    /\ cmds[t] # << >>
    /\ LET c == Head(cmds[t])
       IN (c.op = "On" /\ ExecOn(t, c.slice)) \/ (c.op = "Off" /\ ExecOff(t, c.slice))
    /\ cmds' = [cmds EXCEPT ![t] = Tail(@)]
    /\ UNCHANGED <<vars, toBroker, toAgent, linked, active, zeroVars>>

-----------------------------------------------------------------------------

SystemInit ==
    /\ Init
    /\ linked = {} /\ jobs = << >> /\ confirmed = << >> /\ faults = MaxFaults
    /\ toBroker = [t \in Tenants |-> << >>] /\ toAgent = [t \in Tenants |-> << >>]
    /\ cmds = [t \in Tenants |-> << >>] /\ results = [t \in Tenants |-> << >>]
    /\ active = [t \in Tenants |-> {}] /\ mounted = [t \in Tenants |-> {}]

AgentNext(t) ==
    \/ Connect(t) \/ SendPsi(t) \/ SendLease(t) \/ SendResult(t)
    \/ AgentReceives(t) \/ SessionEnds(t) \/ Exec(t)

CoreNext ==
    \/ \E t \in Tenants : CoreReceives(t)
    \/ \E i \in 1..Len(confirmed) : CoreZeroDone(i)
    \/ CoreTick(OwnerMoves)
    \/ CoreDemote

SystemNext ==
    \/ CoreNext
    \/ WorkerZeroes
    \/ \E t \in Tenants : AgentNext(t)

SystemSpec == SystemInit /\ [][SystemNext]_sysVars

\* The threads keep running: the core loop drains its channel and ticks, the
\* worker serves its queue, and an agent connects, reads, executes and reports.
\* Ticks that move no slice are the ones that recur: a move starts a cooldown, and
\* nothing obliges the arbiter to move anything.
Fairness ==
    /\ WF_sysVars(CoreTick({})) /\ WF_sysVars(WorkerZeroes)
    /\ WF_sysVars(\E i \in 1..Len(confirmed) : CoreZeroDone(i))
    /\ \A t \in Tenants :
         /\ WF_sysVars(CoreReceives(t)) /\ WF_sysVars(Connect(t))
         /\ WF_sysVars(SendResult(t)) /\ WF_sysVars(AgentReceives(t)) /\ WF_sysVars(Exec(t))

FairSpec == SystemSpec /\ Fairness

-----------------------------------------------------------------------------
(* Properties *)

\* The composition keeps its types; what is in flight stays within its bound.
SystemTypeOK ==
    /\ TypeOK
    /\ linked \subseteq Tenants
    /\ active \in [Tenants -> SUBSET Slices] /\ mounted \in [Tenants -> SUBSET Slices]
    /\ Len(jobs) + Len(confirmed) <= ZeroCap
    /\ faults \in 0..MaxFaults

\* A slice is swapped to by nobody but the tenant the broker holds it for, so no
\* two kernels share one and nothing free or leased is in use: across sessions
\* that end with swapoffs half done, commands still queued from an earlier
\* session, failed mounts, moves and leases.
MountsAreOwned ==
    \A s \in Slices, t \in Tenants :
        s \in mounted[t] => owner[s] = t /\ state[s] \in {"Active", "Draining"}

\* A zero never runs over a slice some kernel is swapping to.
ZeroesOnlyUnmounted ==
    [][Len(jobs') < Len(jobs) => \A t \in Tenants : Head(jobs) \notin mounted[t]]_sysVars

\* DT-17: a draining slice is released only once its tenant has swapped it off.
ReleasedAfterSwapOff ==
    [][\A s \in Slices :
         state[s] = "Draining" /\ state'[s] # "Draining" => s \notin mounted[owner[s]]]_sysVars

\* A slice that is drained is released, however many zero jobs are lost or fail.
DrainingEnds == \A s \in Slices : state[s] = "Draining" ~> state[s] # "Draining"

\* A lease request is answered, unless the lease ids have run out.
LeaseAnswered == lease.phase = "pending" ~> (lease.phase # "pending" \/ nextId = MaxLeaseId)

Unused(s) == state[s] = "Active" /\ \A t \in Tenants : s \notin mounted[t]

\* What the broker holds for an agent that is there, the agent ends up using, or
\* the broker takes it back: "broker reconciles on re-register".
ActiveIsUsed == \A s \in Slices : Unused(s) /\ owner[s] \in present ~> ~Unused(s) \/ owner[s] \notin present

\* What starts the use of a slice, on its way to the agent and to its execution
\* thread, what says that the use has ended, and the answers to its zeroes.
OnMsgs(s) == {ToTenant(t, "SwapOn", s) : t \in Tenants}
OnCmds(s) == {[op |-> "On", slice |-> s]}
Returns(s) ==
    {[kind |-> "SwapOnDone", slice |-> s, ok |-> FALSE], [kind |-> "SwapOffDone", slice |-> s, ok |-> TRUE]}
Zeroed(s) == {[slice |-> s, ok |-> ok] : ok \in BOOLEAN}

InUse(s) == state[s] \in {"Active", "Draining"}

\* The use of s by agent t is asked for, queued, under way, over or reported, and
\* only one of these, once; meanwhile the slice is t's and no zero is under way.
AgentTrace(t, s) ==
    LET asked == Some(toAgent[t], OnMsgs(s))
        queued == Some(cmds[t], OnCmds(s))
        used == s \in mounted[t]
        over == Some(results[t], Returns(s))
        reported == Some(toBroker[t], Returns(s))
    IN /\ Once(toAgent[t], OnMsgs(s)) /\ Once(cmds[t], OnCmds(s))
       /\ Once(results[t], Returns(s)) /\ Once(toBroker[t], Returns(s))
       /\ asked => ~(queued \/ used \/ over \/ reported)
       /\ queued => ~(used \/ over \/ reported)
       /\ used => ~(over \/ reported)
       /\ over => ~reported
       /\ asked \/ queued \/ used \/ over \/ reported
             => owner[s] = t /\ InUse(s) /\ zeroTicks[s] = NotZeroing

\* At most one zero of s is with the worker or on its way back, and only while the
\* core waits for it.
ZeroTrace(s) ==
    /\ Once(jobs, {s}) /\ Once(confirmed, Zeroed(s))
    /\ ~(Some(jobs, {s}) /\ Some(confirmed, Zeroed(s)))
    /\ Some(jobs, {s}) \/ Some(confirmed, Zeroed(s)) => zeroTicks[s] # NotZeroing
    /\ zeroTicks[s] # NotZeroing => InUse(s)

\* Of every slice there is one trace in the system: one agent's use of it, or the
\* zero after it.  A SwapOn in flight, a queued command of an earlier session, a
\* late result and a retried zero can therefore never meet.
OneTrace == \A s \in Slices : ZeroTrace(s) /\ \A t \in Tenants : AgentTrace(t, s)

\* The promises about slices in use: in every state, of every step, in the end.
SystemSafe == SystemTypeOK /\ MountsAreOwned /\ OneTrace
SystemSteps == ZeroesOnlyUnmounted /\ ReleasedAfterSwapOff
SystemLive == DrainingEnds /\ ActiveIsUsed /\ LeaseAnswered
=============================================================================
