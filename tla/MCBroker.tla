------------------------------- MODULE MCBroker -------------------------------
(***************************************************************************)
(* Instances of the broker side.  A behaviour is either about Arbiter or   *)
(* about BrokerSystem; its first state chooses among Focus.                *)
(***************************************************************************)
EXTENDS Arbiter, BrokerSystem

CONSTANTS Focus, a, b
VARIABLE focus

MCOrder == <<a, b>>
MCMounts == {{}}
Symmetry == Permutations({a, b})

\* What the components have beside BrokerCore's variables.
policyVars == <<psi, arbiterVars>>
ioLayerVars == <<toBroker, toAgent, agentVars, zeroVars, faults>>
brokerVars == <<focus, vars, policyVars, ioLayerVars>>

BrokerInit ==
  /\ focus \in Focus
  /\ ArbiterInit /\ SystemInit

ArbiterStep == focus = "arbiter" /\ ArbiterNext /\ UNCHANGED ioLayerVars
SystemStep == focus = "system" /\ SystemNext /\ UNCHANGED policyVars

BrokerNext == UNCHANGED focus /\ (ArbiterStep \/ SystemStep)

BrokerSpec == BrokerInit /\ [][BrokerNext]_brokerVars

\* The fairness of BrokerSystem, for its own behaviours.
FairBrokerSpec ==
  /\ BrokerSpec
  /\ WF_sysVars(focus = "system" /\ CoreTick({}))
  /\ WF_sysVars(focus = "system" /\ WorkerZeroes)
  /\ WF_sysVars(focus = "system" /\ \E i \in 1..Len(confirmed) : CoreZeroDone(i))
  /\ \A t \in Tenants :
       /\ WF_sysVars(focus = "system" /\ CoreReceives(t))
       /\ WF_sysVars(focus = "system" /\ Connect(t))
       /\ WF_sysVars(focus = "system" /\ SendResult(t))
       /\ WF_sysVars(focus = "system" /\ AgentReceives(t))
       /\ WF_sysVars(focus = "system" /\ Exec(t))

\* Nothing reads the messages just sent (out) but the I/O layer, in the same step;
\* Arbiter reads of zeroTicks only whether a zero is under way.
ArbiterView ==
  LET zeroing == [s \in Slices |-> zeroTicks[s] # NotZeroing]
  IN <<focus, sliceVars, dest, zeroing, present, leaseVars, policyVars, ioLayerVars>>
SystemView == <<focus, coreVars, ioLayerVars>>
=============================================================================
