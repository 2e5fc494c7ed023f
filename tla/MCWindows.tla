------------------------------ MODULE MCWindows -------------------------------
(***************************************************************************)
(* Instances of the drivers: the Windows miniport with a reader and a      *)
(* writer on a queue of one, the rings it shares with the service (four    *)
(* slots and words that wrap at eight: eight requests take both rings      *)
(* round their entries twice and their words round once) and the Linux     *)
(* block driver; and of the Windows side: the product against a broker     *)
(* that may be started twice, a pipe of two sessions, two processes that   *)
(* install, remove and stop two versions, the runtime and the teardown. A  *)
(* behaviour is about one of them; its first state chooses among Focus.    *)
(***************************************************************************)
EXTENDS StorPortDriver, IoRing, LinuxBlock, ProductOnline, PipeIo, WinInstall, WinLifecycle

CONSTANT Focus
VARIABLE focus

windowsVars == <<focus, spVars, rqVars, lbVars, winVars, piVars, wiVars, rtVars, tdVars>>

WindowsInit ==
  /\ focus \in Focus
  /\ SpInit /\ RqInit /\ LbInit /\ PoInit /\ PiInit /\ WiInit /\ RtInit /\ TdInit
  /\ focus # "linux" => lbCap = 0 /\ lbBar = 0 /\ lbDepth = "below"
  /\ focus # "product" => poMode = "scm"
  /\ focus # "install" => wiPackage = [v \in Versions |-> "good"]
  /\ focus # "teardown" => ~tdMounted

WindowsNext ==
  /\ UNCHANGED focus
  /\ \/ focus = "storport" /\ SpNext /\ UNCHANGED <<rqVars, lbVars, winVars, piVars, wiVars, rtVars, tdVars>>
     \/ focus = "ring" /\ RqNext /\ UNCHANGED <<spVars, lbVars, winVars, piVars, wiVars, rtVars, tdVars>>
     \/ focus = "linux" /\ LbNext /\ UNCHANGED <<spVars, rqVars, winVars, piVars, wiVars, rtVars, tdVars>>
     \/ focus = "product" /\ PoNext /\ UNCHANGED <<spVars, rqVars, lbVars, piVars, wiVars, rtVars, tdVars>>
     \/ focus = "pipe" /\ PiNext /\ UNCHANGED <<spVars, rqVars, lbVars, winVars, wiVars, rtVars, tdVars>>
     \/ focus = "install" /\ WiNext /\ UNCHANGED <<spVars, rqVars, lbVars, winVars, piVars, rtVars, tdVars>>
     \/ focus = "runtime" /\ RtNext /\ UNCHANGED <<spVars, rqVars, lbVars, winVars, piVars, wiVars, tdVars>>
     \/ focus = "teardown" /\ TdNext /\ UNCHANGED <<spVars, rqVars, lbVars, winVars, piVars, wiVars, rtVars>>

\* The fairness of the components, each for its own behaviours.
DriverSpec ==
  /\ WindowsInit /\ [][WindowsNext]_windowsVars
  /\ \A s \in Srbs :
       WF_spVars(focus = "storport" /\ (StartIoStep(s) \/ (~registered /\ SubmitRefused(s))))
  /\ WF_spVars(focus = "storport" /\ RegisterApplies)
  /\ WF_spVars(focus = "storport" /\ CommitStep)
  /\ WF_spVars(focus = "storport" /\ FetchStep)
  /\ WF_spVars(focus = "storport" /\ (Serve \/ Served))
  /\ WF_spVars(focus = "storport" /\ CancelIo(FALSE))
  /\ WF_spVars(focus = "storport" /\ TeardownStep)
  /\ WF_spVars(focus = "storport" /\ Stop /\ svc # "loop" /\ svc # "absent" /\ svc # "created")
  /\ \A c \in Cpus : WF_lbVars(focus = "linux" /\ Serves(c))
  /\ WF_lbVars(focus = "linux" /\ Probing)
  /\ WF_lbVars(focus = "linux" /\ Removing)

WindowsSpec ==
  /\ WindowsInit /\ [][WindowsNext]_windowsVars
  /\ WF_winVars(focus = "product" /\ WbSteps /\ UNCHANGED poVars)
  /\ WF_winVars(focus = "product" /\ PoStartup) /\ SF_winVars(focus = "product" /\ PoServe)
  /\ WF_winVars(focus = "product" /\ (PoHeartbeat \/ PoBrokerLost))
  /\ WF_winVars(focus = "product" /\ PoStopSeen)
  /\ WF_winVars(focus = "product" /\ PoResumed)
  /\ WF_winVars(focus = "product" /\ PoMonitorTakes)
  /\ WF_winVars(focus = "product" /\ PoMonitorRetries)
  /\ WF_winVars(focus = "product" /\ PoTeardown)
  /\ WF_winVars(focus = "product" /\ PoBudgetPasses)
  /\ WF_piVars(focus = "pipe" /\ BrokerSteps)
  /\ WF_piVars(focus = "pipe" /\ UserSteps)
  /\ WF_piVars(focus = "pipe" /\ ServeStatus)
  /\ \A s \in PiSides : WF_piVars(focus = "pipe" /\ GivesUp(s, "time"))
===============================================================================
