---------------------------- MODULE BoundedCommand ----------------------------
(***************************************************************************)
(* The custody of a helper process: run_capture_command of the CLI and     *)
(* command_stdout_with_timeout of the daemon.                               *)
(*                                                                          *)
(* The helper leads a process group of its own and may leave a descendant  *)
(* in it that holds the output pipes.  Exit is observed without reaping, so *)
(* that the zombie keeps the group's number from being used again; then    *)
(* the group is killed, the capture workers are waited for, the child is   *)
(* reaped, and what could not be proved stopped ends the controller.       *)
(***************************************************************************)
EXTENDS Naturals

CONSTANT Callers  \* which of "cli", "daemon" and "wait" (no output) run a command

VARIABLES
  caller,     \* who runs this command
  bcPc,         \* where it stands
  leader,     \* the helper: "none", "running", "dying", "zombie" or "reaped"
  descendant, \* a process it forked into the group
  holds,      \* the streams whose write end the descendant inherited
  capture,    \* of each stream, the worker: "none", "reading" or what it sent
  received,   \* the streams whose result has been received in time
  cut,        \* history: streams whose writer was killed before it closed them
  failed,     \* is a failed SIGKILL of the group on record?
  timedOut,   \* did the deadline pass before the helper exited?
  stranger,   \* another process group that got the number: "none", "running", "killed"
  bcResult      \* "none", "output", "error", "timeout" or "fatal"

bcChildVars == <<leader, descendant, holds, capture, cut, stranger>>
bcVars == <<caller, bcPc, bcChildVars, received, failed, timedOut, bcResult>>

Streams == {"stdout", "stderr"}
\* run_capture_command, command_stdout_with_timeout and wait_grouped_child.
Captured == CASE caller = "cli" -> Streams [] caller = "daemon" -> {"stdout"} [] caller = "wait" -> {}
Alive == {"running", "dying"}

BcInit ==
  /\ caller \in Callers /\ bcPc = "spawn"
  /\ leader = "none" /\ descendant = "none" /\ holds = {} /\ stranger = "none"
  /\ capture = [s \in Streams |-> "none"] /\ cut = {} /\ received = {}
  /\ failed = FALSE /\ timedOut = FALSE /\ bcResult = "none"

BcGoto(next) == bcPc' = next /\ UNCHANGED <<caller, received, failed, timedOut, bcResult>>
Return(outcome) ==
  /\ bcPc' = "done" /\ bcResult' = outcome
  /\ UNCHANGED <<caller, received, failed, timedOut>>

\* ExitController and ExitDaemon: the process exits with status 125.
Fatal == Return("fatal")

(***************************************************************************)
(* The helper and its group.  A process that was killed dies later, or, in *)
(* an uninterruptible wait, not soon enough.                               *)
(***************************************************************************)
Forks ==
  /\ leader = "running" /\ descendant = "none" /\ bcPc # "pipes"
  /\ descendant' = "running" /\ holds' \in SUBSET Captured
  /\ UNCHANGED <<caller, bcPc, leader, capture, cut, stranger, received, failed, timedOut, bcResult>>

LeaderExits ==
  /\ leader \in Alive /\ leader' = "zombie"
  /\ UNCHANGED <<caller, bcPc, descendant, holds, capture, cut, stranger, received, failed, timedOut, bcResult>>

DescendantExits ==
  /\ descendant \in Alive /\ descendant' = "gone" /\ holds' = {}
  /\ UNCHANGED <<caller, bcPc, leader, capture, cut, stranger, received, failed, timedOut, bcResult>>

\* The number of the group is free once nobody is in it.
NumberReused ==
  /\ leader = "reaped" /\ descendant \notin Alive /\ stranger = "none"
  /\ stranger' = "running"
  /\ UNCHANGED <<caller, bcPc, leader, descendant, holds, capture, cut, received, failed, timedOut, bcResult>>

Writers(s) == leader \in Alive \/ s \in holds

\* CaptureWorker: end of file, or more than the limit or a read error at any time.
BcWorkerEnds(s) ==
  /\ capture[s] = "reading"
  /\ capture' \in {[capture EXCEPT ![s] = r] :
                     r \in {"failed"} \cup (IF Writers(s) THEN {} ELSE {"read"})}
  /\ UNCHANGED <<caller, bcPc, leader, descendant, holds, cut, stranger, received, failed, timedOut, bcResult>>

(***************************************************************************)
(* kill_process_group: it reaches everyone in the group, or fails, or      *)
(* finds nobody (ESRCH, which is no failure).                              *)
(***************************************************************************)

Signalled(p) == IF p = "running" THEN "dying" ELSE p
GroupKilled ==
  /\ leader' = Signalled(leader) /\ descendant' = Signalled(descendant)
  /\ stranger' = IF stranger = "running" THEN "killed" ELSE stranger
  /\ cut' = cut \cup {s \in Captured : capture[s] = "reading"
                                        /\ (leader = "running" \/ (s \in holds /\ descendant = "running"))}
  /\ UNCHANGED <<holds, capture>>

Unkilled == UNCHANGED bcChildVars

(***************************************************************************)
(* Spawning, and starting the capture workers.                              *)
(***************************************************************************)
Spawn ==
  /\ bcPc = "spawn"
  /\ \/ leader' = "running" /\ BcGoto("pipes")
     \/ UNCHANGED leader /\ Return("error")
  /\ UNCHANGED <<descendant, holds, capture, cut, stranger>>

\* A worker that cannot be started ends the command: the child is terminated,
\* the workers already started are accounted for.
StartCapture ==
  /\ bcPc = "pipes"
  /\ \E started \in SUBSET Captured :
       /\ "stderr" \in started => "stdout" \in started
       /\ capture' = [s \in Streams |-> IF s \in started THEN "reading" ELSE "none"]
       /\ BcGoto(IF started = Captured THEN "poll" ELSE "force")
  /\ UNCHANGED <<leader, descendant, holds, cut, stranger>>

(***************************************************************************)
(* The polling loop: waitid with WNOWAIT.                                   *)
(***************************************************************************)
\* Mutant: the exit status is collected when the exit is seen.
ExitReaped ==
  /\ bcPc = "poll" /\ leader = "zombie"
  /\ leader' = "reaped" /\ BcGoto("drain")
  /\ UNCHANGED <<descendant, holds, capture, cut, stranger>>

ExitObserved ==
  /\ bcPc = "poll" /\ leader = "zombie"
  /\ BcGoto("drain") /\ UNCHANGED bcChildVars

DeadlinePasses ==
  /\ bcPc = "poll" /\ leader # "zombie"
  /\ bcPc' = "force" /\ timedOut' = TRUE
  /\ UNCHANGED <<caller, received, failed, bcResult, bcChildVars>>

ObservationFails ==
  /\ bcPc = "poll" /\ Fatal /\ UNCHANGED bcChildVars

\* The workers get one grace period to send by themselves.
Done(s) == capture[s] \in {"read", "failed"}
BcDrain ==
  /\ bcPc = "drain"
  /\ received' = {s \in Captured : Done(s)}
  /\ bcPc' = "killResidual" /\ UNCHANGED <<caller, failed, timedOut, bcResult, bcChildVars>>

KillResidual ==
  /\ bcPc = "killResidual"
  /\ \/ GroupKilled /\ BcGoto("collect")
     \/ /\ bcPc' = "collect" /\ failed' = TRUE /\ Unkilled
        /\ UNCHANGED <<caller, received, timedOut, bcResult>>

(***************************************************************************)
(* force_exit_observed: kill the group (or else the child), wait for the   *)
(* exit for one grace period, kill the group again.                        *)
(***************************************************************************)
ForceKill ==
  /\ bcPc = "force"
  /\ \/ GroupKilled /\ BcGoto("forceWait")
     \/ /\ bcPc' = "forceWait" /\ failed' = TRUE
        /\ leader' = Signalled(leader)
        /\ cut' = IF leader = "running" THEN cut \cup {s \in Captured : capture[s] = "reading"} ELSE cut
        /\ UNCHANGED <<caller, received, timedOut, bcResult, descendant, holds, capture, stranger>>

ForceObserved ==
  /\ bcPc = "forceWait" /\ leader = "zombie"
  /\ BcGoto("forceAgain") /\ UNCHANGED bcChildVars

ForceUnobserved ==
  /\ bcPc = "forceWait" /\ Fatal /\ UNCHANGED bcChildVars

ForceAgain ==
  /\ bcPc = "forceAgain"
  /\ \/ GroupKilled /\ BcGoto("collect")
     \/ /\ bcPc' = "collect" /\ failed' = TRUE /\ Unkilled
        /\ UNCHANGED <<caller, received, timedOut, bcResult>>

(***************************************************************************)
(* collect_captures_before_reap: what has not been received yet gets a     *)
(* grace period (a timed-out command starts here), then one more kill and  *)
(* one more grace period.                                                  *)
(***************************************************************************)
Started == {s \in Captured : capture[s] # "none"}
Pending == Started \ received

BcCollect ==
  /\ bcPc = "collect"
  /\ \/ /\ (timedOut \/ Started # Captured) /\ \A s \in Started : Done(s)
        /\ received' = Started /\ bcPc' = "reap"
        /\ UNCHANGED <<caller, failed, timedOut, bcResult>>
     \/ /\ ~timedOut /\ Started = Captured /\ Pending = {} /\ BcGoto("reap")
     \/ Pending # {} /\ BcGoto("collectKill")
  /\ UNCHANGED bcChildVars

CollectKill ==
  /\ bcPc = "collectKill"
  /\ \/ GroupKilled /\ BcGoto("collectAgain")
     \/ Fatal /\ Unkilled

CollectAgain ==
  /\ bcPc = "collectAgain"
  /\ \/ (\A s \in Started : Done(s)) /\ BcGoto("reap")
     \/ Pending # {} /\ Fatal
  /\ UNCHANGED bcChildVars

(***************************************************************************)
(* reap_observed_target, and the result.                                   *)
(***************************************************************************)
Reap ==
  /\ bcPc = "reap" /\ leader = "zombie"
  /\ leader' = "reaped" /\ BcGoto("report")
  /\ UNCHANGED <<descendant, holds, capture, cut, stranger>>

ReapFails ==
  /\ bcPc = "reap" /\ Fatal /\ UNCHANGED bcChildVars

\* contain_group_errors, then the deadline, then the captured streams and the
\* exit status, which is an input.
Report ==
  /\ bcPc = "report"
  /\ \/ failed /\ Fatal
     \/ ~failed /\ timedOut /\ Return("timeout")
     \/ /\ ~failed /\ ~timedOut
        /\ \/ received = Captured /\ (\A s \in Captured : capture[s] = "read") /\ Return("output")
           \/ Return("error")
  /\ UNCHANGED bcChildVars

Controller ==
  \/ Spawn \/ StartCapture \/ ExitObserved \/ DeadlinePasses \/ BcDrain
  \/ KillResidual \/ ForceKill \/ ForceObserved \/ ForceUnobserved \/ ForceAgain
  \/ BcCollect \/ CollectKill \/ CollectAgain \/ Reap \/ ReapFails \/ Report

BcNext ==
  \/ Controller \/ ObservationFails \/ Forks \/ LeaderExits \/ DescendantExits \/ NumberReused
  \/ \E s \in Streams : BcWorkerEnds(s)

\* Every wait of the controller has a deadline.
BcSpec == BcInit /\ [][BcNext]_bcVars /\ WF_bcVars(Controller)

-----------------------------------------------------------------------------
\* The type invariant of the module.
BcTypeOK ==
  /\ leader \in {"none", "running", "dying", "zombie", "reaped"}
  /\ descendant \in {"none", "running", "dying", "gone"}
  /\ holds \subseteq Streams /\ received \subseteq Streams /\ cut \subseteq Streams
  /\ capture \in [Streams -> {"none", "reading", "read", "failed"}]
  /\ failed \in BOOLEAN /\ timedOut \in BOOLEAN
  /\ stranger \in {"none", "running", "killed"}
  /\ bcResult \in {"none", "output", "error", "timeout", "fatal"}

\* No signal reaches a group that got the number later ("the zombie leader pins
\* its PID/PGID until residual group members and capture workers are closed").
NeverKillsAnother == stranger # "killed"

\* A controller that goes on has reaped the helper, has killed whatever else was
\* in the group and waits for no capture worker ("Production cannot resume if
\* group SIGKILL fails or the direct child cannot be reaped").
ReturnsWithCustodyClosed ==
  bcPc = "done" /\ bcResult # "fatal" =>
    /\ leader \in {"none", "reaped"} /\ descendant # "running"
    /\ \A s \in Streams : capture[s] # "reading"

\* Output is returned only if every writer closed the pipe by itself: nothing of
\* it was cut off by a kill ("Only the former can produce trusted output").
OutputIsWhole == bcResult = "output" => cut = {} /\ ~timedOut

\* Whatever the helper, its descendants and the kernel do, the command returns or
\* ends the controller, once the helper has been started.
EveryCommandReturns == leader # "none" ~> bcPc = "done"

\* The promises together.
BcContract ==
  /\ [](BcTypeOK /\ NeverKillsAnother /\ ReturnsWithCustodyClosed /\ OutputIsWhole)
  /\ EveryCommandReturns
=============================================================================
