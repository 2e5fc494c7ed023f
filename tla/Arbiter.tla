------------------------------- MODULE Arbiter -------------------------------
(***************************************************************************)
(* The arbitration policy (crates/ramshared-broker/src/arbiter.rs) driving *)
(* BrokerCore: which slice moves, who gets the free ones and which active  *)
(* slices a lease revokes, from the memory pressure the tenants report.    *)
(* Time is counted in ticks; pressures are avg10 on a small integer scale. *)
(***************************************************************************)
EXTENDS BrokerCore, SequencesExt

CONSTANTS
    Pressures,         \* the pressures a tenant can report
    Order,             \* the swap tenants in the order of their ids
    DeltaPsi, PsiFloor, CfFactor,
    Streak, Cooldown, CfWindow, CfCooldown,
    CursorWrap,        \* the round-robin cursor is kept modulo this
    Mounts, Sizes      \* the sets of slices tenants report mounted, the leases they ask for

ASSUME ArbiterAssumption ==
    /\ Pressures \subseteq Nat /\ 0 \in Pressures
    /\ Order \in Seq(SwapTenants) /\ SwapTenants = {Order[i] : i \in 1..Len(Order)}
    /\ \A n \in 1..Len(Order) : CursorWrap % n = 0
    /\ Mounts \subseteq SUBSET Slices /\ Sizes \subseteq 0..(Cardinality(Slices) + 1)
    /\ {Streak, Cooldown, CfWindow, CfCooldown} \subseteq Nat \ {0}

VARIABLES
    psi,               \* the last pressure of every tenant
    streak,            \* ticks in a row with a differential above DeltaPsi
    lastMove,          \* MoveRecord of the last rebalance, with its age, or NoMove
    cooldown,          \* ticks until the next rebalance is allowed
    cursor             \* rr_cursor

arbiterVars == <<streak, lastMove, cooldown, cursor>>
allVars == <<vars, psi, arbiterVars>>

NoMove == [slice |-> -1, from |-> NoTenant, to |-> NoTenant, age |-> 0, psi |-> 0]

\* The present tenants the arbiter is shown.
Views == SelectSeq(Order, LAMBDA t : t \in present)

SlicesOf(t) == {s \in Slices : owner[s] = t}

\* pressure_pair: the last of the most pressured, and the first of the least
\* pressured others that have a slice.
Receiver ==
    LET i == CHOOSE i \in 1..Len(Views) :
                /\ \A j \in 1..Len(Views) : psi[Views[j]] <= psi[Views[i]]
                /\ \A j \in (i + 1)..Len(Views) : psi[Views[j]] < psi[Views[i]]
    IN Views[i]

Donors == SelectSeq(Views, LAMBDA t : t # Receiver /\ SlicesOf(t) # {})

Donor ==
    LET i == CHOOSE i \in 1..Len(Donors) :
                /\ \A j \in 1..Len(Donors) : psi[Donors[i]] <= psi[Donors[j]]
                /\ \A j \in 1..(i - 1) : psi[Donors[i]] < psi[Donors[j]]
    IN Donors[i]

HasPair == Views # << >> /\ Donors # << >>

Over == HasPair /\ psi[Receiver] - psi[Donor] > DeltaPsi

\* The record and the cooldown as a tick finds them, one tick later.
Record == IF lastMove = NoMove \/ lastMove.age > CfWindow THEN lastMove ELSE [lastMove EXCEPT !.age = @ + 1]
Cooled == IF cooldown = 0 THEN 0 ELSE cooldown - 1

\* Counterfactual: within the window, the donor got worse than CfFactor allows.
Reverts ==
    /\ Record # NoMove /\ Record.age <= CfWindow
    /\ Record.from \in present
    /\ psi[Record.from] > CfFactor * Record.psi
    /\ psi[Record.from] > PsiFloor

Counted == IF Over THEN (IF Reverts THEN 1 ELSE IF streak = Streak THEN Streak ELSE streak + 1) ELSE 0

\* Differential, with the never-zero rule for a donor under pressure.
ActiveOf(t) == SlicesOf(t) \cap InState(Swept, "Active")

Differential ==
    /\ ~Reverts /\ HasPair
    /\ Counted >= Streak /\ Cooled = 0
    /\ InState(Swept, "Free") = {}
    /\ ~(psi[Donor] > PsiFloor /\ Cardinality(SlicesOf(Donor)) <= 1)
    /\ ActiveOf(Donor) # {}

MoveSlice == [slice |-> Min(ActiveOf(Donor)), from |-> Donor, to |-> Receiver]

\* Drained only if it is still active, whoever has it by now.
RevertMove == [slice |-> Record.slice, from |-> Record.to, to |-> Record.from]

Decided ==
    CASE Differential -> {MoveSlice}
      [] Reverts /\ Swept[Record.slice] = "Active" -> {RevertMove}
      [] OTHER -> {}

\* Round-robin of the free slices, in the order of their ids.
Rank(s, S) == Cardinality({k \in S : k < s})

\* Mutants: draining slices are given away too; the cursor does not advance in a tick.
GivenWhileDraining ==
    LET free == IF Views = << >> THEN {} ELSE InState(Swept, "Free") \cup InState(Swept, "Draining")
    IN [s \in free |-> Views[((cursor + Rank(s, free)) % Len(Views)) + 1]]

GivenToOne ==
    LET free == IF Views = << >> THEN {} ELSE InState(Swept, "Free")
    IN [s \in free |-> Views[(cursor % Len(Views)) + 1]]

Given ==
    LET free == IF Views = << >> THEN {} ELSE InState(Swept, "Free")
    IN [s \in free |-> Views[((cursor + Rank(s, free)) % Len(Views)) + 1]]

\* A lease revokes the slices of the least pressured owners first; an owner the
\* arbiter is not shown counts as not pressured.
OwnerPsi(s) == IF owner[s] \in SwapTenants THEN psi[owner[s]] ELSE 0

LeastPressured(chosen) ==
    \A s \in chosen, k \in (InState(Swept, "Active") \cap Visible) \ chosen :
        OwnerPsi(s) < OwnerPsi(k) \/ (OwnerPsi(s) = OwnerPsi(k) /\ s < k)

\* tick, and what the core does with its actions.
ArbiterTick ==
    /\ CountZeroTicks
    /\ IF lease.phase = "pending"
       THEN /\ ServeRequest({chosen \in Revocable : LeastPressured(chosen)})
            /\ lastMove' = Record /\ cooldown' = Cooled
            /\ UNCHANGED <<streak, cursor>>
       ELSE /\ Rebalance(Decided, Given)
            /\ streak' = IF Differential THEN 0 ELSE Counted
            /\ cooldown' = IF Reverts THEN CfCooldown ELSE IF Differential THEN Cooldown ELSE Cooled
            /\ lastMove' = IF Differential
                           THEN [slice |-> MoveSlice.slice, from |-> Donor, to |-> Receiver,
                                 age |-> 0, psi |-> psi[Donor]]
                           ELSE IF Reverts \/ Record.age > CfWindow THEN NoMove ELSE Record
            /\ cursor' = (cursor + Cardinality(DOMAIN Given)) % CursorWrap
    /\ UNCHANGED <<tenantVars, psi>>

\* on_psi stores the sample the arbiter will see.
ArbiterReport(t, mounted, level) ==
    /\ Psi(t, mounted)
    /\ psi' = [psi EXCEPT ![t] = level]
    /\ UNCHANGED arbiterVars

ArbiterInit ==
    /\ Init
    /\ psi = [t \in Tenants |-> 0]
    /\ streak = 0 /\ lastMove = NoMove /\ cooldown = 0 /\ cursor = 0

SessionStep(t) ==
    \/ Register(t)
    \/ Disconnect(t)
    \/ \E size \in Sizes : LeaseRequest(t, size)
    \/ LeaseRelease(t, lease.id)

\* Agents that follow the protocol: mounts may fail, a draining slice is given up
\* once, and only slices given up are zeroed.
AgentStep(s) ==
    \/ state[s] = "Active" /\ owner[s] \in present /\ SwapOnDone(s, FALSE)
    \/ state[s] = "Draining" /\ owner[s] \in present /\ zeroTicks[s] = NotZeroing /\ SwapOffDone(s, TRUE)
    \/ zeroTicks[s] # NotZeroing /\ ZeroDone(s, TRUE)

ArbiterNext ==
    \/ \E t \in Tenants : SessionStep(t) /\ UNCHANGED <<psi, arbiterVars>>
    \/ \E t \in Tenants, mounted \in Mounts, level \in Pressures : ArbiterReport(t, mounted, level)
    \/ \E s \in Slices : AgentStep(s) /\ UNCHANGED <<psi, arbiterVars>>
    \/ ArbiterTick

ArbiterSpec == ArbiterInit /\ [][ArbiterNext]_allVars

-----------------------------------------------------------------------------
(* Properties *)

\* Every decision of the policy is one BrokerCore allows: what is shown there of
\* any arbiter holds with this one.
ImplementsBrokerCore == Spec

\* The policy's own state keeps its type.
ArbiterTypeOK ==
    /\ psi \in [Tenants -> Pressures]
    /\ streak \in 0..Streak
    /\ lastMove = NoMove
         \/ lastMove \in [slice : Slices, from : SwapTenants, to : SwapTenants,
                          age : 0..(CfWindow + 1), psi : Pressures]
    /\ cooldown \in Nat /\ cooldown <= Cooldown + CfCooldown
    /\ cursor \in 0..(CursorWrap - 1)

\* Free slices are shared out evenly: in one tick no present tenant gets two more
\* than another, wherever the cursor was left and whoever came or went since.
SharedEvenly ==
    [][lease.phase # "pending" =>
         LET got(t) == Cardinality({m \in out' : m.kind = "SwapOn" /\ m.to = t})
         IN out' # out /\ UNCHANGED tenantVars => \A t, u \in SwapTenants \cap present : got(t) <= got(u) + 1]_allVars

\* Two rebalances are at least Cooldown ticks apart, whatever leases, departures
\* and failed mounts happened in between: the record of the first is that old, or
\* has left its window, when the second is made.
RebalancesSpaced ==
    [][lastMove' # lastMove /\ lastMove' # NoMove /\ lastMove'.age = 0
         => lastMove = NoMove \/ Record.age >= Cooldown]_allVars

\* SPEC DT-20 and the contract of tick: no action targets an absent tenant, the
\* slices of an absent tenant stay as they are.
AbsentAreFrozen ==
    [][\A s \in Slices :
         state[s] = "Active" /\ state'[s] = "Draining" => owner[s] \in present]_allVars

\* RevertMove returns the slice "from `from` (current)": whoever is told to let a
\* slice go is the tenant that has it.
SwapOffGoesToOwner ==
    \A m \in out : m.kind = "SwapOff" => owner[m.slice] = m.to

\* never-zero: a donor under pressure keeps a slice it can swap to.
NeverZero ==
    [][\A t \in SwapTenants :
         lastMove'.age = 0 /\ lastMove'.from = t /\ lastMove' # lastMove /\ psi[t] > PsiFloor
           => \E s \in Slices : owner'[s] = t /\ state'[s] = "Active"]_allVars

\* What the policy promises of its own.
ArbiterContract == []ArbiterTypeOK /\ SharedEvenly /\ RebalancesSpaced
=============================================================================
