-------------------------------- MODULE MCCli ---------------------------------
(***************************************************************************)
(* Instances of the command line: `up` and `down` of the cascade, the      *)
(* status report, the admission of an origin and that of workloads, of     *)
(* which two do not fit the budget together. A behaviour is about one of   *)
(* them; its first state chooses among Focus.                              *)
(***************************************************************************)
EXTENDS Cascade, CascadeStatus, OriginAdmission, Admission

CONSTANT Focus
VARIABLE focus

\* Two partitions on two disks; the root filesystem is elsewhere.
MCParent == [p \in Partitions |-> IF p = "sdb1" THEN "sdb" ELSE "sdc"]
MCHome == [v \in Versions |-> IF v = 1 THEN "sdb1" ELSE "sdc1"]
MCNeed == [p \in AdProcs |-> 2]
Symmetry == Permutations(AdProcs)

cliVars == <<focus, vars, csVars, oaVars, adVars>>

CliInit ==
  /\ focus \in Focus
  /\ Init /\ CsInit /\ OaInit /\ AdInit
  /\ focus # "origin" => guestFile.body[1] = 1 /\ table = [p \in Partitions |-> 1]

CliNext ==
  /\ UNCHANGED focus
  /\ \/ focus = "cascade" /\ Next /\ UNCHANGED <<csVars, oaVars, adVars>>
     \/ focus = "status" /\ CsNext /\ UNCHANGED <<vars, oaVars, adVars>>
     \/ focus = "origin" /\ OaNext /\ UNCHANGED <<vars, csVars, adVars>>
     \/ focus = "admission" /\ AdNext /\ UNCHANGED <<vars, csVars, oaVars>>

CliSpec == CliInit /\ [][CliNext]_cliVars

\* The status report is looked at in the step that makes it.
CliView == <<focus, vars, csWorld, csAt, csSeen, oaVars, adVars>>
===============================================================================
