-------------------------------- MODULE MCHost --------------------------------
(***************************************************************************)
(* Instances of what runs on the Linux host: the ublk daemon, with two     *)
(* tags and two page slots, and the broker daemon around its core, with a  *)
(* queue of one message and a burst of two errors; one agent session, the  *)
(* control requests between supervisor and cache daemon, and a helper      *)
(* command; the pressure supervisor, over a batch and a shell scope, and   *)
(* the stress command: a single-tier ramp, one with a hold, and two multi- *)
(* tier runs, in which the tiers above the SSD hold little, so that the    *)
(* SSD tier gets used and, in one run, reaches its target. A behaviour is  *)
(* about one of them; its first state chooses among Focus.                 *)
(***************************************************************************)
EXTENDS UblkDaemon, BrokerDaemon, AgentSession, ControlRequests, BoundedCommand, Supervisor, Stress

CONSTANT Focus
VARIABLE focus

MCClass == [u \in Units |-> IF u = "batch" THEN 0 ELSE 3]
MCMemory == [u \in Units |-> 1]

MCStCommands ==
  {<< <<"--target", 10>>, <<"--hold-sec", 0>> >>, << <<"--start", 5>> >>, << <<"--cascade", 0>> >>,
   << <<"--tier3-target-pct", 90>>, <<"--hold-sec", 0>> >>}

linuxVars == <<focus, ubVars, bdVars, agVars, crVars, bcVars, svVars, stVars>>

LinuxInit ==
  /\ focus \in Focus
  /\ UbInit /\ BdInit /\ AgInit /\ CrInit /\ BcInit /\ SvInit /\ StInit
  /\ focus # "broker" => kind = "ram" /\ path = "none"
  /\ focus # "command" => caller = "cli"
  /\ focus # "stress" => stOpt = ParseStressArgs(<< <<"--start", 5>> >>)

LinuxNext ==
  /\ UNCHANGED focus
  /\ \/ focus = "ublk" /\ UbNext /\ UNCHANGED <<bdVars, agVars, crVars, bcVars, svVars, stVars>>
     \/ focus = "broker" /\ BdNext /\ UNCHANGED <<ubVars, agVars, crVars, bcVars, svVars, stVars>>
     \/ focus = "agent" /\ AgNext /\ UNCHANGED <<ubVars, bdVars, crVars, bcVars, svVars, stVars>>
     \/ focus = "requests" /\ CrNext /\ UNCHANGED <<ubVars, bdVars, agVars, bcVars, svVars, stVars>>
     \/ focus = "command" /\ BcNext /\ UNCHANGED <<ubVars, bdVars, agVars, crVars, svVars, stVars>>
     \/ focus = "supervisor" /\ SvNext /\ UNCHANGED <<ubVars, bdVars, agVars, crVars, bcVars, stVars>>
     \/ focus = "stress" /\ StNext /\ UNCHANGED <<ubVars, bdVars, agVars, crVars, bcVars, svVars>>

\* The fairness of the components, each for its own behaviours.
DaemonSpec ==
  /\ LinuxInit /\ [][LinuxNext]_linuxVars
  /\ WF_ubVars(focus = "ublk" /\ MainStep)
  /\ WF_ubVars(focus = "ublk" /\ RingStep)
  /\ WF_ubVars(focus = "ublk" /\ WorkerStep)
  /\ WF_ubVars(focus = "ublk" /\ DemoteRuns)
  /\ WF_ubVars(focus = "ublk" /\ DemoteGivesUp)
  /\ \A t \in Tags : WF_ubVars(focus = "ublk" /\ KernelAborts(t))
  /\ WF_bdVars(focus = "broker" /\ MainSteps)
  /\ WF_bdVars(focus = "broker" /\ WorkerSteps)
  /\ WF_bdVars(focus = "broker" /\ Bridge)
  /\ WF_bdVars(focus = "broker" /\ BrokerStops)
  /\ WF_bdVars(focus = "broker" /\ Observe)

ControlSpec ==
  /\ LinuxInit /\ [][LinuxNext]_linuxVars
  /\ WF_agVars(focus = "agent" /\ AgMainSteps)
  /\ WF_agVars(focus = "agent" /\ CleanSteps)
  /\ WF_agVars(focus = "agent" /\ AgTick)
  /\ WF_crVars(focus = "requests" /\ PublishStatus)
  /\ WF_crVars(focus = "requests" /\ SupervisorSteps)
  /\ WF_crVars(focus = "requests" /\ CrTick)
  /\ WF_bcVars(focus = "command" /\ Controller)

PressureSpec ==
  /\ LinuxInit /\ [][LinuxNext]_linuxVars
  /\ WF_svVars(focus = "supervisor" /\ Loop) /\ SF_svVars(focus = "supervisor" /\ Sample)
  /\ SF_svVars(focus = "supervisor" /\ ThawBegin)
  /\ SF_svVars(focus = "supervisor" /\ Acting("Thaw") /\ Query /\ step' = "run")
  /\ SF_svVars(focus = "supervisor" /\ Acting("Thaw") /\ Run("ok"))
  /\ WF_stVars(focus = "stress" /\ StMainStep) /\ WF_stVars(focus = "stress" /\ Watchdog)
  /\ WF_stVars(focus = "stress" /\ stStalled /\ BeatAges)
===============================================================================
