----------------------------- MODULE WinInstall -----------------------------
(***************************************************************************)
(* Installing, replacing and removing the Windows product: the install,    *)
(* uninstall and stop commands of ramshared-winsvc, the version            *)
(* directories, the two service definitions, the active manifest, and the  *)
(* service control manager (SCM), which starts the services whenever it    *)
(* likes.  A command may die at any step; the installation mutex it held   *)
(* is then abandoned to the next one.                                      *)
(***************************************************************************)
EXTENDS Naturals, FiniteSets

CONSTANTS
  Installers,  \* processes that run the commands
  Versions     \* product versions, each with its package

VARIABLES
  wiPackage,   \* what each version's package holds: "good", "hash", "config"
  wiDir,       \* the version directories: "absent", "good" or "partial"
  wiDef,       \* SCM definition of each service: its version and its SID type
  wiActive,    \* the version in active-manifest.json
  wiService,   \* the version each service runs
  wiMutex,     \* the holder of the installation mutex
  wiCommand,   \* what each process runs: [pc, kind, version, old]
  wiSettled    \* history: did the last change of the product end as it should?

wiHost == <<wiDef, wiActive, wiService>>
wiFiles == <<wiPackage, wiDir>>
wiVars == <<wiPackage, wiDir, wiDef, wiActive, wiService,
            wiMutex, wiCommand, wiSettled>>

Services == {"broker", "consumer"}

\* An Option is a set of at most one element.
Optional(S) == {{}} \cup {{x} : x \in S}

Definition == [version : Versions, sid : BOOLEAN]

WiPoints == {"idle", "lock", "parse", "stage", "protect", "publish", "verify", "stopConsumer",
          "stopBroker", "old", "broker", "brokerSid", "consumer", "consumerSid",
          "definitions", "activate", "recheck", "deleteConsumer", "deleteBroker",
          "removeFiles", "removeActive"}

WiResting == [pc |-> "idle", kind |-> "stop", version |-> {}, old |-> {}]

(***************************************************************************)
(* Type invariant.                                                         *)
(***************************************************************************)
WiTypeOK ==
  /\ wiPackage \in [Versions -> {"good", "hash", "config"}]
  /\ wiDir \in [Versions -> {"absent", "good", "partial"}]
  /\ wiDef \in [Services -> Optional(Definition)]
  /\ wiActive \in Optional(Versions)
  /\ wiService \in [Services -> Optional(Versions)]
  /\ wiMutex \in Optional(Installers)
  /\ wiCommand \in [Installers ->
       [pc : WiPoints, kind : {"install", "rollback", "undo", "uninstall", "stop"},
        version : Optional(Versions), old : Optional(Versions)]]
  /\ wiSettled \in BOOLEAN

WiInit ==
  /\ wiPackage \in [Versions -> {"good", "hash", "config"}]
  /\ wiDir = [v \in Versions |-> "absent"]
  /\ wiDef = [s \in Services |-> {}] /\ wiActive = {}
  /\ wiService = [s \in Services |-> {}]
  /\ wiMutex = {} /\ wiCommand = [p \in Installers |-> WiResting]
  /\ wiSettled = TRUE

WiAt(p, pc) == wiCommand[p].pc = pc
WiTarget(p) == CHOOSE v \in Versions : wiCommand[p].version = {v}
WiGoto(p, pc) == wiCommand' = [wiCommand EXCEPT ![p].pc = pc]

\* The command returns; whoever holds the mutex lets go of it.
WiReturn(p) ==
  /\ wiCommand' = [wiCommand EXCEPT ![p] = WiResting]
  /\ wiMutex' = wiMutex \ {p}

WiReturns(p, settled) == WiReturn(p) /\ wiSettled' = settled

(***************************************************************************)
(* ProductInstallMutex: 30 seconds for it; an abandoned one is taken.      *)
(***************************************************************************)
WiInstall(p, v) ==
  /\ WiAt(p, "idle")
  /\ wiCommand' = [wiCommand EXCEPT ![p] =
       [pc |-> "lock", kind |-> "install", version |-> {v}, old |-> {}]]
  /\ UNCHANGED <<wiFiles, wiHost, wiMutex, wiSettled>>

WiUninstall(p) ==
  /\ WiAt(p, "idle")
  /\ wiCommand' = [wiCommand EXCEPT ![p] =
       [pc |-> "lock", kind |-> "uninstall", version |-> {}, old |-> {}]]
  /\ UNCHANGED <<wiFiles, wiHost, wiMutex, wiSettled>>

\* stop takes no mutex.
WiStop(p) ==
  /\ WiAt(p, "idle")
  /\ WiGoto(p, "stopConsumer")
  /\ UNCHANGED <<wiFiles, wiHost, wiMutex, wiSettled>>

WiAcquire(p) ==
  /\ WiAt(p, "lock") /\ wiMutex = {}
  /\ wiMutex' = {p}
  /\ WiGoto(p, "parse")
  /\ UNCHANGED <<wiFiles, wiHost, wiSettled>>

WiMutexTimeout(p) ==
  /\ WiAt(p, "lock") /\ wiMutex # {}
  /\ WiReturn(p)
  /\ UNCHANGED <<wiFiles, wiHost, wiSettled>>

(***************************************************************************)
(* Files.  VerifiedFiles is what verify_staged_files and                   *)
(* validate_installed_configs demand of the files of version v.            *)
(***************************************************************************)
HashesMatch(v) == wiPackage[v] # "hash"
ConfigsAgree(v) == wiPackage[v] = "good"

\* uninstall takes its version from the active manifest and verifies it.
WiReadActive(p) ==
  /\ WiAt(p, "parse") /\ wiCommand[p].kind = "uninstall"
  /\ IF \E v \in wiActive : wiDir[v] = "good"
     THEN /\ wiCommand' = [wiCommand EXCEPT ![p].pc = "stopConsumer", ![p].version = wiActive]
          /\ UNCHANGED <<wiFiles, wiHost, wiMutex, wiSettled>>
     ELSE WiReturn(p) /\ UNCHANGED <<wiFiles, wiHost, wiSettled>>

WiParse(p) ==
  /\ WiAt(p, "parse") /\ wiCommand[p].kind = "install"
  /\ WiGoto(p, IF wiDir[WiTarget(p)] = "absent" THEN "stage" ELSE "verify")
  /\ UNCHANGED <<wiFiles, wiHost, wiMutex, wiSettled>>

\* Copied into a directory of its own, hashed, the two configurations compared ...
WiStage(p) ==
  /\ WiAt(p, "stage") /\ HashesMatch(WiTarget(p)) /\ ConfigsAgree(WiTarget(p))
  /\ WiGoto(p, "protect")
  /\ UNCHANGED <<wiFiles, wiHost, wiMutex, wiSettled>>

\* ... readable from now on by the broker's SID and administrators only ...
WiProtect(p) ==
  /\ WiAt(p, "protect")
  /\ WiGoto(p, "publish")
  /\ UNCHANGED <<wiFiles, wiHost, wiMutex, wiSettled>>

\* ... hashed again and renamed.
WiPublish(p) ==
  /\ WiAt(p, "publish")
  /\ wiDir' = [wiDir EXCEPT ![WiTarget(p)] = "good"]
  /\ WiGoto(p, "stopConsumer")
  /\ UNCHANGED <<wiPackage, wiHost, wiMutex, wiSettled>>

\* Any of these steps fails; what was staged is removed.
WiStageFails(p) ==
  /\ wiCommand[p].pc \in {"stage", "protect", "publish"}
  /\ WiReturn(p)
  /\ UNCHANGED <<wiFiles, wiHost, wiSettled>>

WiVerifyExisting(p) ==
  /\ WiAt(p, "verify")
  /\ IF wiDir[WiTarget(p)] = "good"
     THEN WiGoto(p, "stopConsumer") /\ UNCHANGED wiMutex
     ELSE WiReturn(p)
  /\ UNCHANGED <<wiFiles, wiHost, wiSettled>>

(***************************************************************************)
(* stop_product_for_mutation: the consumer, then the broker.               *)
(***************************************************************************)
AfterStop(p) ==
  CASE wiCommand[p].kind = "install"   -> "old"
    [] wiCommand[p].kind = "uninstall" -> "deleteConsumer"
    [] OTHER -> "idle"

WiConsumerStopped(p) ==
  /\ WiAt(p, "stopConsumer") /\ wiDef["consumer"] # {}
  /\ wiService' = [wiService EXCEPT !["consumer"] = {}]
  /\ WiGoto(p, "stopBroker")
  /\ UNCHANGED <<wiFiles, wiDef, wiActive, wiMutex, wiSettled>>

\* A service that cannot be opened is skipped.
WiConsumerAbsent(p) ==
  /\ WiAt(p, "stopConsumer") /\ wiDef["consumer"] = {}
  /\ WiGoto(p, "stopBroker")
  /\ UNCHANGED <<wiFiles, wiHost, wiMutex, wiSettled>>

\* The consumer refuses to stop (a paging file on its volume) for 45 seconds.
WiStopTimesOut(p) ==
  /\ WiAt(p, "stopConsumer") /\ wiService["consumer"] # {}
  /\ WiReturn(p)
  /\ UNCHANGED <<wiFiles, wiHost, wiSettled>>

\* A crashed broker that waits for its restart is reported as stopped; the SCM
\* does not stop a service while a dependent one runs.
WiBrokerStopped(p) ==
  /\ WiAt(p, "stopBroker")
  /\ IF wiDef["broker"] # {} /\ wiService["broker"] # {} /\ wiService["consumer"] # {}
     THEN WiReturn(p) /\ UNCHANGED wiService
     ELSE /\ wiService' = IF wiDef["broker"] = {} THEN wiService
                          ELSE [wiService EXCEPT !["broker"] = {}]
          /\ IF AfterStop(p) = "idle" THEN WiReturn(p) ELSE WiGoto(p, AfterStop(p)) /\ UNCHANGED wiMutex
  /\ UNCHANGED <<wiFiles, wiDef, wiActive, wiSettled>>

(***************************************************************************)
(* Registration, forwards with the candidate and backwards with the old    *)
(* manifest.                                                               *)
(***************************************************************************)
WiReadOld(p) ==
  /\ WiAt(p, "old")
  /\ wiCommand' = [wiCommand EXCEPT ![p].pc = "broker", ![p].old = wiActive]
  /\ UNCHANGED <<wiFiles, wiHost, wiMutex, wiSettled>>

\* An error in registration: back to the old product or, without one, to none;
\* an error in the way back ends the command.
Unwind(p) ==
  IF wiCommand[p].kind # "install"
  THEN WiReturns(p, FALSE)
  ELSE /\ wiCommand' = [wiCommand EXCEPT ![p] =
            IF wiCommand[p].old = {}
            THEN [@ EXCEPT !.pc = "deleteConsumer", !.kind = "undo"]
            ELSE [@ EXCEPT !.pc = "broker", !.kind = "rollback", !.version = wiCommand[p].old]]
       /\ UNCHANGED <<wiMutex, wiSettled>>

NextStep(pc) ==
  CASE pc = "broker" -> "brokerSid"   [] pc = "brokerSid" -> "consumer"
    [] pc = "consumer" -> "consumerSid" [] pc = "consumerSid" -> "definitions"

ServiceOf(pc) == IF pc \in {"broker", "brokerSid"} THEN "broker" ELSE "consumer"

\* register_one changes or creates the definition ...
WiDefine(p) ==
  /\ wiCommand[p].pc \in {"broker", "consumer"}
  /\ LET s == ServiceOf(wiCommand[p].pc)
         sid == \E d \in wiDef[s] : d.sid
     IN wiDef' = [wiDef EXCEPT ![s] = {[version |-> WiTarget(p), sid |-> sid]}]
  /\ WiGoto(p, NextStep(wiCommand[p].pc))
  /\ UNCHANGED <<wiFiles, wiActive, wiService, wiMutex, wiSettled>>

\* ... and then sets its SID type and its failure actions.
WiConfigure(p) ==
  /\ wiCommand[p].pc \in {"brokerSid", "consumerSid"}
  /\ LET s == ServiceOf(wiCommand[p].pc)
     IN wiDef' = [wiDef EXCEPT ![s] = {[d EXCEPT !.sid = TRUE] : d \in @}]
  /\ WiGoto(p, NextStep(wiCommand[p].pc))
  /\ UNCHANGED <<wiFiles, wiActive, wiService, wiMutex, wiSettled>>

WiRegisterFails(p) ==
  /\ wiCommand[p].pc \in {"broker", "brokerSid", "consumer", "consumerSid", "definitions"}
  /\ Unwind(p)
  /\ UNCHANGED <<wiFiles, wiHost>>

Registered(v) == \A s \in Services : wiDef[s] = {[version |-> v, sid |-> TRUE]}

WiVerifyDefinitions(p) ==
  /\ WiAt(p, "definitions") /\ Registered(WiTarget(p))
  /\ WiGoto(p, "activate")
  /\ UNCHANGED <<wiFiles, wiHost, wiMutex, wiSettled>>

\* ReplaceFileW, or a rename when there is no active manifest.
WiActivate(p) ==
  /\ WiAt(p, "activate")
  /\ wiActive' = wiCommand[p].version
  /\ IF wiCommand[p].kind = "install"
     THEN WiGoto(p, "recheck") /\ UNCHANGED <<wiMutex, wiSettled>>
     ELSE WiReturns(p, TRUE)
  /\ UNCHANGED <<wiFiles, wiDef, wiService>>

\* A failed ReplaceFileW may have moved the old file away already.
WiActivateFails(p) ==
  /\ WiAt(p, "activate")
  /\ \/ wiActive' = wiActive
     \/ wiActive # {} /\ wiActive' = {}
  /\ Unwind(p)
  /\ UNCHANGED <<wiFiles, wiDef, wiService>>

\* The configurations are read and compared once more; the product stays.
WiRecheck(p) ==
  /\ WiAt(p, "recheck")
  /\ WiReturns(p, TRUE)
  /\ UNCHANGED <<wiFiles, wiHost>>

(***************************************************************************)
(* Removal.                                                                *)
(***************************************************************************)

AfterDelete(p) ==
  CASE WiAt(p, "deleteConsumer") -> "deleteBroker"
    [] wiCommand[p].kind = "uninstall" -> "removeFiles"
    [] OTHER -> "idle"

\* Mutant: a service is deleted while it runs.
DeleteRunning(p) ==
  /\ wiCommand[p].pc \in {"deleteConsumer", "deleteBroker"}
  /\ LET s == IF WiAt(p, "deleteConsumer") THEN "consumer" ELSE "broker"
     IN wiDef' = [wiDef EXCEPT ![s] = {}]
  /\ IF AfterDelete(p) = "idle" THEN WiReturns(p, TRUE)
     ELSE WiGoto(p, AfterDelete(p)) /\ UNCHANGED <<wiMutex, wiSettled>>
  /\ UNCHANGED <<wiFiles, wiActive, wiService>>

WiDelete(p) ==
  /\ wiCommand[p].pc \in {"deleteConsumer", "deleteBroker"}
  /\ LET s == IF WiAt(p, "deleteConsumer") THEN "consumer" ELSE "broker"
     IN /\ wiService[s] = {}
        /\ wiDef' = [wiDef EXCEPT ![s] = {}]
  /\ IF AfterDelete(p) = "idle" THEN WiReturns(p, TRUE)
     ELSE WiGoto(p, AfterDelete(p)) /\ UNCHANGED <<wiMutex, wiSettled>>
  /\ UNCHANGED <<wiFiles, wiActive, wiService>>

\* The service runs, or the SCM refuses.
WiDeleteFails(p) ==
  /\ wiCommand[p].pc \in {"deleteConsumer", "deleteBroker"}
  /\ WiReturns(p, FALSE)
  /\ UNCHANGED <<wiFiles, wiHost>>

\* Windows removes no executable that runs.
WiRemoveFiles(p) ==
  /\ WiAt(p, "removeFiles") /\ \A s \in Services : wiService[s] # wiCommand[p].version
  /\ wiDir' = [wiDir EXCEPT ![WiTarget(p)] = "absent"]
  /\ WiGoto(p, "removeActive")
  /\ UNCHANGED <<wiPackage, wiHost, wiMutex, wiSettled>>

WiRemoveFilesFails(p) ==
  /\ WiAt(p, "removeFiles")
  /\ wiDir' = [wiDir EXCEPT ![WiTarget(p)] = "partial"]
  /\ WiReturns(p, FALSE)
  /\ UNCHANGED <<wiPackage, wiHost>>

WiRemoveActive(p) ==
  /\ WiAt(p, "removeActive")
  /\ \/ wiActive' = {} /\ WiReturns(p, TRUE)
     \/ wiActive' = wiActive /\ WiReturns(p, FALSE)
  /\ UNCHANGED <<wiFiles, wiDef, wiService>>

\* The process dies.
Changing == {"broker", "brokerSid", "consumer", "consumerSid", "definitions",
             "activate", "deleteConsumer", "deleteBroker", "removeFiles", "removeActive"}

WiCrash(p) ==
  /\ ~WiAt(p, "idle")
  /\ wiDir' = IF WiAt(p, "removeFiles")
              THEN [wiDir EXCEPT ![WiTarget(p)] = "partial"] ELSE wiDir
  /\ WiReturns(p, wiSettled /\ wiCommand[p].pc \notin Changing)
  /\ UNCHANGED <<wiPackage, wiHost>>

(***************************************************************************)
(* The SCM.  A started service checks that its configuration is the active *)
(* manifest's and that the files are intact, and ends otherwise.           *)
(***************************************************************************)
Launches(s) ==
  IF \E d \in wiDef[s] : wiActive = {d.version} /\ wiDir[d.version] = "good"
  THEN wiActive ELSE {}

BrokerRuns(v) == wiService' = [wiService EXCEPT !["broker"] = v]

ScmStartsBroker ==
  /\ wiService["broker"] = {} /\ Launches("broker") # {}
  /\ BrokerRuns(Launches("broker"))
  /\ UNCHANGED <<wiFiles, wiDef, wiActive, wiMutex, wiCommand, wiSettled>>

\* The consumer depends on the broker, which the SCM starts before it.
ScmStartsConsumer ==
  /\ wiService["consumer"] = {} /\ wiService["broker"] # {} /\ Launches("consumer") # {}
  /\ wiService' = [wiService EXCEPT !["consumer"] = Launches("consumer")]
  /\ UNCHANGED <<wiFiles, wiDef, wiActive, wiMutex, wiCommand, wiSettled>>

\* A consumer ends by itself, for one when a refused stop is retried.
ConsumerEnds ==
  /\ wiService["consumer"] # {}
  /\ wiService' = [wiService EXCEPT !["consumer"] = {}]
  /\ UNCHANGED <<wiFiles, wiDef, wiActive, wiMutex, wiCommand, wiSettled>>

BrokerCrashes ==
  /\ wiService["broker"] # {}
  /\ BrokerRuns({})
  /\ UNCHANGED <<wiFiles, wiDef, wiActive, wiMutex, wiCommand, wiSettled>>

(***************************************************************************)
(* Specification.                                                          *)
(***************************************************************************)
WiSteps(p) ==
  \/ WiAcquire(p) \/ WiMutexTimeout(p) \/ WiReadActive(p) \/ WiParse(p)
  \/ WiStage(p) \/ WiProtect(p) \/ WiPublish(p) \/ WiStageFails(p) \/ WiVerifyExisting(p)
  \/ WiConsumerStopped(p) \/ WiConsumerAbsent(p) \/ WiStopTimesOut(p) \/ WiBrokerStopped(p)
  \/ WiReadOld(p) \/ WiDefine(p) \/ WiConfigure(p) \/ WiRegisterFails(p)
  \/ WiVerifyDefinitions(p) \/ WiActivate(p) \/ WiActivateFails(p) \/ WiRecheck(p)
  \/ WiDelete(p) \/ WiDeleteFails(p) \/ WiRemoveFiles(p) \/ WiRemoveFilesFails(p)
  \/ WiRemoveActive(p)

ScmSteps == ScmStartsBroker \/ ScmStartsConsumer \/ ConsumerEnds \/ BrokerCrashes

WiNext ==
  \/ \E p \in Installers :
       \/ \E v \in Versions : WiInstall(p, v)
       \/ WiUninstall(p) \/ WiStop(p) \/ WiSteps(p) \/ WiCrash(p)
  \/ ScmSteps

WiSpec == WiInit /\ [][WiNext]_wiVars

(***************************************************************************)
(* Properties.                                                             *)
(***************************************************************************)
\* A version directory exists under its final name only with the files of its
\* manifest and configurations that agree with each other, or as the rest of a
\* removal that failed; so no service ever runs a package that was not verified
\* (install's staging and rename).
OnlyVerifiedVersionsRun ==
  \A v \in Versions :
    wiPackage[v] # "good" =>
      wiDir[v] = "absent" /\ \A s \in Services : wiService[s] # {v}

\* Once a change of the product has ended as it should (installed, rolled back,
\* removed) and until the next one starts, both definitions and the active
\* manifest name one version, or there is no product at all (install's register,
\* verify, activate; its rollback; uninstall).
Settled ==
  wiSettled /\ wiMutex = {} =>
    \/ wiActive = {} /\ \A s \in Services : wiDef[s] = {}
    \/ \E v \in wiActive : Registered(v)

\* What a command changes, another command does not change meanwhile: from its
\* first look at the old product to its end, only the holder of the mutex writes
\* definitions, files and active manifest (ProductInstallMutex).
OnlyHolderChanges ==
  [][ <<wiDir, wiDef, wiActive>> # <<wiDir', wiDef', wiActive'>> =>
        \E p \in wiMutex : wiCommand[p] # wiCommand'[p] ]_wiVars

\* uninstall never takes the files away from under a service that runs them, nor
\* its definition (the state query before DeleteService, and stop before both).
RunningKeepsDefinition ==
  [][ \A s \in Services : (wiDef'[s] = {} /\ wiDef[s] # {}) => wiService'[s] = {} ]_wiVars

\* Broker and consumer that run together are of one version (what the comparison
\* of their configurations is for).  Not so: a crashed broker that waits for its
\* restart counts as stopped, restarts while install registers the candidate, and
\* goes on running beside the new consumer.
OneVersionRuns ==
  \A v, w \in Versions :
    wiService["broker"] = {v} /\ wiService["consumer"] = {w} => v = w

\* The promises together.
WiContract ==
  /\ [](WiTypeOK /\ OnlyVerifiedVersionsRun /\ Settled)
  /\ OnlyHolderChanges /\ RunningKeepsDefinition
=============================================================================
