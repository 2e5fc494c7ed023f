---------------------------- MODULE AgentSession ----------------------------
(***************************************************************************)
(* One agent in detail: the main thread that owns the write side of the    *)
(* session, heartbeats, handles the broker's messages and watches for its  *)
(* silence; the execution thread that attaches and detaches slices one     *)
(* command after another and outlives every session; and the clean-up of a *)
(* session's end, which detaches from the main thread beside it.           *)
(* BrokerSystem.tla composes a simpler agent with the broker; here the     *)
(* broker is the messages it may send.                                     *)
(***************************************************************************)
EXTENDS Naturals, Sequences, FiniteSets, SequencesExt

CONSTANTS
  AgSlices,    \* slices the broker may grant this tenant
  MaxPending,  \* bound: commands and results of the agent
  Deadline,    \* the watchdog's deadline, in ticks
  MaxBackoff,  \* how often the reconnect delay doubles
  DropsAnyTime \* may a device lose its server while a command works on it?

ASSUME AgentSessionAssumption ==
  /\ IsFiniteSet(AgSlices) /\ MaxPending \in Nat \ {0}
  /\ Deadline \in Nat \ {0} /\ MaxBackoff \in Nat \ {0} /\ DropsAnyTime \in BOOLEAN

VARIABLES
  agMain,     \* the main thread: "sleep", "connect", "report", "receive", "check", "clean"
  agLink,     \* the session's socket: "none", "up", or "cut"
  agInbox,    \* messages on their way to handle_msg
  agActive,   \* the session's map of active slices
  agCmds,     \* the execution thread's queue: [op, slice, old]
  agExec,     \* the command in execution and its next step, or none: a set
  agResults,  \* results on their way back: [op, slice, ok, old]
  agDev,      \* the slice's device: "free", "attached" or "on"
  agCleaning, \* the slice the clean-up detaches and its next step: a set
  agSilence,  \* ticks since the broker was heard
  agDue,      \* a heartbeat is due
  agLong,     \* the session has run for PRODUCTIVE_SESSION
  agBackoff,  \* doublings of the reconnect delay
  agStray     \* history: slices whose device may be on without the session knowing

agVars == <<agMain, agLink, agInbox, agActive, agCmds, agExec, agResults, agDev, agCleaning,
            agSilence, agDue, agLong, agBackoff, agStray>>
agMainVars == <<agMain, agLink, agInbox, agActive, agCleaning, agSilence, agDue, agLong, agBackoff>>
execVars == <<agCmds, agExec, agResults, agDev>>

Commands == [op : {"on", "off"}, slice : AgSlices, old : BOOLEAN]
Outcomes == [op : {"on", "off"}, slice : AgSlices, ok : BOOLEAN, old : BOOLEAN]
Messages == [kind : {"SwapOn", "SwapOff"}, slice : AgSlices] \cup [kind : {"Ack", "DemoteAll", "Error"}]
Stages == {"nbd-client", "mkswap", "swapon", "swapoff", "disconnect"}

AgTypeOK ==
  /\ agMain \in {"sleep", "connect", "report", "receive", "check", "clean"}
  /\ agLink \in {"none", "up", "cut"}
  /\ agInbox \in Seq(Messages) /\ Len(agInbox) <= 1
  /\ agActive \subseteq AgSlices
  /\ agCmds \in Seq(Commands) /\ agResults \in Seq(Outcomes)
  /\ agExec \subseteq [cmd : Commands, stage : Stages] /\ Cardinality(agExec) <= 1
  /\ agDev \in [AgSlices -> {"free", "attached", "on"}]
  /\ agCleaning \subseteq [slice : AgSlices, stage : Stages] /\ Cardinality(agCleaning) <= 1
  /\ agSilence \in 0..Deadline /\ agDue \in BOOLEAN /\ agLong \in BOOLEAN
  /\ agBackoff \in 0..MaxBackoff /\ agStray \subseteq AgSlices

AgInit ==
  /\ agMain = "connect" /\ agLink = "none" /\ agInbox = << >> /\ agActive = {}
  /\ agCmds = << >> /\ agExec = {} /\ agResults = << >>
  /\ agDev = [s \in AgSlices |-> "free"] /\ agCleaning = {}
  /\ agSilence = 0 /\ agDue = TRUE /\ agLong = FALSE /\ agBackoff = 0 /\ agStray = {}

\* The commands not yet finished, oldest first.
PendingCmds == SetToSeq({e.cmd : e \in agExec}) \o agCmds
Concerns(s, seq) == \E i \in 1..Len(seq) : seq[i].slice = s
LastOp(s) ==
  LET own == SelectSeq(PendingCmds, LAMBDA c : c.slice = s)
  IN IF own = << >> THEN "none" ELSE own[Len(own)].op

(***************************************************************************)
(* Connecting.  The delay doubles after every session that was short and   *)
(* is back at its start after one that ran.                                *)
(***************************************************************************)
NextBackoff(cur) == IF cur < MaxBackoff THEN cur + 1 ELSE MaxBackoff

Slept ==
  /\ agMain = "sleep" /\ agMain' = "connect"
  /\ agBackoff' = IF agLong THEN 0 ELSE NextBackoff(agBackoff)
  /\ agLong' = FALSE
  /\ UNCHANGED <<agLink, agInbox, agActive, agCleaning, agSilence, agDue, execVars, agStray>>

Connects ==
  /\ agMain = "connect"
  /\ \/ /\ agMain' = "report" /\ agLink' = "up"
        /\ agSilence' = 0 /\ agDue' = TRUE
     \/ /\ agMain' = "sleep" /\ UNCHANGED <<agLink, agSilence, agDue>>
  /\ UNCHANGED <<agInbox, agActive, agCleaning, agLong, agBackoff, execVars, agStray>>

(***************************************************************************)
(* The session's loop.                                                     *)
(***************************************************************************)
OfOldSession(seq) == [i \in 1..Len(seq) |-> [seq[i] EXCEPT !.old = TRUE]]
Attaching == {s \in AgSlices : \E i \in 1..Len(PendingCmds) :
                                 PendingCmds[i].slice = s /\ PendingCmds[i].op = "on"}

\* The loop is left: commands and results stay with the execution thread.
Leaves(results) ==
  /\ agMain' = "clean" /\ agInbox' = << >>
  /\ agCmds' = OfOldSession(agCmds)
  /\ agExec' = {[e EXCEPT !.cmd.old = TRUE] : e \in agExec}
  /\ agResults' = OfOldSession(results)
  /\ UNCHANGED <<agLink, agCleaning, agLong, agBackoff, agDev>>

Goes(next) ==
  /\ agMain' = next
  /\ UNCHANGED <<agLink, agCleaning, agLong, agBackoff, agExec, agDev>>

\* A result of an earlier session may drop a slice this session is attaching.
OfEarlier(results) ==
  {s \in AgSlices : \E i \in 1..Len(results) : results[i].old /\ results[i].slice = s}

\* Mutant: every result takes its slice from the active ones.
DroppedAll(results) == {results[i].slice : i \in 1..Len(results)}

Dropped(results) ==
  {results[i].slice : i \in {j \in 1..Len(results) : results[j].op = "off" \/ ~results[j].ok}}

\* (1) and (2): the heartbeat if it is due, then the results that have come, until
\* a write fails on a socket that was cut.
AgReport ==
  /\ agMain = "report" /\ agDue' = FALSE
  /\ \E n \in 0..Len(agResults) :
       LET sent == SubSeq(agResults, 1, n) rest == SubSeq(agResults, n + 1, Len(agResults))
       IN /\ agActive' = agActive \ Dropped(sent)
          /\ \/ /\ n = Len(agResults) /\ Goes("receive")
                /\ agResults' = << >> /\ agStray' = agStray \cup OfEarlier(sent)
                /\ UNCHANGED <<agInbox, agCmds>>
             \/ /\ agLink = "cut" /\ (agDue \/ n > 0) /\ Leaves(rest)
                /\ agStray' = agStray \cup OfEarlier(sent) \cup Attaching
  /\ UNCHANGED agSilence

\* handle_msg, for the messages that change something.
Handles(m) ==
  \/ /\ m.kind = "SwapOn"
     /\ agActive' = agActive \cup {m.slice}
     /\ agCmds' = Append(agCmds, [op |-> "on", slice |-> m.slice, old |-> FALSE])
  \/ /\ m.kind = "SwapOff"
     /\ agActive' = agActive \ {m.slice}
     /\ agCmds' = Append(agCmds, [op |-> "off", slice |-> m.slice, old |-> FALSE])
  \/ /\ m.kind = "DemoteAll"
     /\ agActive' = {}
     /\ agCmds' = agCmds \o SetToSeq([op : {"off"}, slice : agActive, old : {FALSE}])
  \/ /\ m.kind = "Ack" /\ UNCHANGED <<agActive, agCmds>>

SilenceAfter(heard) == IF heard THEN 0 ELSE agSilence

\* (3): every message is a sign of life; the end of the reader is noticed once
\* what it had read is handled.
Receive ==
  /\ agMain = "receive"
  /\ \/ /\ agInbox # << >> /\ Handles(Head(agInbox)) /\ Goes("check")
        /\ agInbox' = Tail(agInbox) /\ agSilence' = SilenceAfter(TRUE) /\ UNCHANGED <<agStray, agResults>>
     \/ /\ agInbox = << >> /\ agLink = "up" /\ Goes("check")
        /\ agSilence' = SilenceAfter(FALSE)
        /\ UNCHANGED <<agInbox, agActive, agCmds, agResults, agStray>>
     \/ /\ IF agInbox = << >> THEN agLink = "cut" ELSE Head(agInbox).kind = "Error"
        /\ Leaves(agResults) /\ agStray' = agStray \cup Attaching
        /\ UNCHANGED <<agActive, agSilence>>
  /\ UNCHANGED agDue

Expired == agSilence >= Deadline

\* (4): a broker silent up to the deadline ends the session.
Check ==
  /\ agMain = "check"
  /\ IF Expired
     THEN Leaves(agResults) /\ agStray' = agStray \cup Attaching
     ELSE Goes("report") /\ UNCHANGED <<agInbox, agCmds, agResults, agStray>>
  /\ UNCHANGED <<agActive, agSilence, agDue>>

(***************************************************************************)
(* The commands.  An attach that fails half-way is not undone, and a       *)
(* detach whose swapoff fails does not disconnect.                         *)
(***************************************************************************)
Clears(s) == IF Concerns(s, PendingCmds) THEN agStray ELSE agStray \ {s}

\* attach_swap: what the step may do to the device, and whether it goes on.
AttachStep(stage, dev) ==
  {[dev |-> dev, ok |-> FALSE]} \cup
    CASE stage = "nbd-client" /\ dev = "free" -> {[dev |-> "attached", ok |-> TRUE]}
      [] stage = "mkswap" /\ dev = "attached" -> {[dev |-> dev, ok |-> TRUE]}
      [] stage = "swapon" /\ dev = "attached" -> {[dev |-> "on", ok |-> TRUE]}
      [] OTHER -> {}
AfterAttach == [s \in {"nbd-client", "mkswap"} |-> IF s = "mkswap" THEN "swapon" ELSE "mkswap"]

\* detach_swap: swapoff must succeed, the disconnect need not; it cuts the
\* device off whatever it is used for.
Swapoff(dev) ==
  {[dev |-> dev, ok |-> FALSE]}
    \cup (IF dev = "on" THEN {[dev |-> "attached", ok |-> TRUE]} ELSE {})
AgDisconnect(dev) == {dev, "free"}

ExecTakes ==
  /\ agExec = {} /\ agCmds # << >>
  /\ agExec' = {[cmd |-> Head(agCmds),
                 stage |-> IF Head(agCmds).op = "on" THEN "nbd-client" ELSE "swapoff"]}
  /\ agCmds' = Tail(agCmds)
  /\ UNCHANGED <<agMainVars, agResults, agDev, agStray>>

ExecAnswers(cmd, ok) ==
  /\ agExec' = {}
  /\ agResults' = Append(agResults, [op |-> cmd.op, slice |-> cmd.slice, ok |-> ok, old |-> cmd.old])

ExecGoesOn(e, stage) == agExec' = {[e EXCEPT !.stage = stage]} /\ UNCHANGED agResults

ExecAttaches ==
  /\ \E e \in agExec : \E r \in AttachStep(e.stage, agDev[e.cmd.slice]) :
       /\ e.cmd.op = "on"
       /\ agDev' = [agDev EXCEPT ![e.cmd.slice] = r.dev]
       /\ IF r.ok /\ e.stage # "swapon"
          THEN ExecGoesOn(e, AfterAttach[e.stage]) ELSE ExecAnswers(e.cmd, r.ok)
  /\ UNCHANGED <<agMainVars, agCmds, agStray>>

ExecDetaches ==
  /\ \E e \in agExec :
       \/ /\ e.stage = "swapoff"
          /\ \E r \in Swapoff(agDev[e.cmd.slice]) :
               /\ agDev' = [agDev EXCEPT ![e.cmd.slice] = r.dev]
               /\ IF r.ok
                  THEN ExecGoesOn(e, "disconnect") /\ UNCHANGED agStray
                  ELSE ExecAnswers(e.cmd, FALSE) /\ agStray' = agStray \cup {e.cmd.slice}
       \/ /\ e.stage = "disconnect"
          /\ \E d \in AgDisconnect(agDev[e.cmd.slice]) : agDev' = [agDev EXCEPT ![e.cmd.slice] = d]
          /\ ExecAnswers(e.cmd, TRUE)
          /\ UNCHANGED agStray
  /\ UNCHANGED <<agMainVars, agCmds>>

(***************************************************************************)
(* The end of a session: every slice still in the map is detached, then    *)
(* the socket is shut down and the reader joined.                          *)
(***************************************************************************)
CleanBegins ==
  /\ agMain = "clean" /\ agCleaning = {}
  /\ \E s \in agActive :
       /\ agCleaning' = {[slice |-> s, stage |-> "swapoff"]}
       /\ agActive' = agActive \ {s}
  /\ UNCHANGED <<agMain, agLink, agInbox, agSilence, agDue, agLong, agBackoff, execVars, agStray>>

CleanDetaches ==
  /\ \E c \in agCleaning :
       \/ /\ c.stage = "swapoff"
          /\ \E r \in Swapoff(agDev[c.slice]) :
               /\ agDev' = [agDev EXCEPT ![c.slice] = r.dev]
               /\ agCleaning' = IF r.ok THEN {[c EXCEPT !.stage = "disconnect"]} ELSE {}
               /\ agStray' = IF r.ok THEN Clears(c.slice) ELSE agStray \cup {c.slice}
       \/ /\ c.stage = "disconnect"
          /\ \E d \in AgDisconnect(agDev[c.slice]) : agDev' = [agDev EXCEPT ![c.slice] = d]
          /\ agCleaning' = {} /\ UNCHANGED agStray
  /\ UNCHANGED <<agMain, agLink, agInbox, agActive, agSilence, agDue, agLong, agBackoff,
                 agCmds, agExec, agResults>>

CleanEnds ==
  /\ agMain = "clean" /\ agCleaning = {} /\ agActive = {}
  /\ agMain' = "sleep" /\ agLink' = "none" /\ agSilence' = 0 /\ agDue' = TRUE
  /\ UNCHANGED <<agInbox, agActive, agCleaning, agLong, agBackoff, execVars, agStray>>

(***************************************************************************)
(* The broker, the network, the kernel and time.                           *)
(***************************************************************************)
InSession == agMain \in {"report", "receive", "check"}

\* The broker asks nothing about a slice before its last request is answered, and
\* grants no slice it has granted already.
Settled(s) == ~Concerns(s, PendingCmds) /\ ~Concerns(s, agResults)

BrokerSends ==
  /\ agLink = "up" /\ InSession /\ agInbox = << >>
  /\ Len(PendingCmds) + Len(agResults) < MaxPending
  /\ \E m \in Messages :
       /\ m.kind \in {"SwapOn", "SwapOff"} => Settled(m.slice)
       /\ m.kind = "SwapOn" => m.slice \notin agActive
       /\ agInbox' = <<m>>
  /\ UNCHANGED <<agMain, agLink, agActive, agCleaning, agSilence, agDue, agLong, agBackoff,
                 execVars, agStray>>

LinkCut ==
  /\ agLink = "up" /\ agLink' = "cut"
  /\ UNCHANGED <<agMain, agInbox, agActive, agCleaning, agSilence, agDue, agLong, agBackoff,
                 execVars, agStray>>

NbdDrops(s) ==
  /\ \/ DropsAnyTime
     \/ (\A e \in agExec : e.cmd.slice # s) /\ (\A c \in agCleaning : c.slice # s)
  /\ agDev[s] = "attached" /\ agDev' = [agDev EXCEPT ![s] = "free"]
  /\ UNCHANGED <<agMainVars, agCmds, agExec, agResults, agStray>>

AgTick ==
  /\ InSession /\ (agSilence < Deadline \/ ~agDue)
  /\ agSilence' = IF Expired THEN agSilence ELSE agSilence + 1
  /\ agDue' = TRUE /\ agLong' \in {agLong, TRUE}
  /\ UNCHANGED <<agMain, agLink, agInbox, agActive, agCleaning, agBackoff, execVars, agStray>>

AgMainSteps == Slept \/ Connects \/ AgReport \/ Receive \/ Check
CleanSteps == CleanBegins \/ CleanDetaches \/ CleanEnds
AgNext ==
  \/ AgMainSteps \/ CleanSteps
  \/ ExecTakes \/ ExecAttaches \/ ExecDetaches
  \/ BrokerSends \/ LinkCut \/ AgTick \/ \E s \in AgSlices : NbdDrops(s)

\* The main thread runs and its commands return; nothing is assumed of the
\* execution thread, whose commands may block for good.
AgSpec ==
  /\ AgInit /\ [][AgNext]_agVars
  /\ WF_agVars(AgMainSteps) /\ WF_agVars(CleanSteps) /\ WF_agVars(AgTick)

(***************************************************************************)
(* Properties.                                                             *)
(***************************************************************************)
\* A slice that is swapped on, or will be by a queued command, is in the
\* session's map or has its detach queued behind it, so that SwapOff, DemoteAll
\* and the clean-up reach it; the strays are the ones whose swapoff failed and
\* those whose attach or result was left over by an earlier session.
MountedIsAccounted ==
  \A s \in AgSlices \ agStray :
    (agDev[s] = "on" /\ LastOp(s) = "none") \/ LastOp(s) = "on" =>
      s \in agActive \/ \E c \in agCleaning : c.slice = s

\* nbd-client -d never cuts off a device that is swapped on, although the
\* execution thread and the clean-up work on devices side by side (detach_swap:
\* "what matters for integrity is that swapoff exited successfully").
DetachesOnlyUnused == [][\A s \in AgSlices : agDev[s] = "on" => agDev'[s] # "free"]_agVars

\* A session whose broker falls silent comes to its end and the agent tries again,
\* whatever the execution thread does.
SessionsGoOn == <>[](agInbox = << >>) => []<>(agMain = "connect")

\* The promises together.
AgContract == [](AgTypeOK /\ MountedIsAccounted) /\ DetachesOnlyUnused /\ SessionsGoOn
=============================================================================
