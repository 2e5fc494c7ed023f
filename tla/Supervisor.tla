----------------------------- MODULE Supervisor -----------------------------
(***************************************************************************)
(* `ramshared supervise`: once a second it samples memory pressure, decides *)
(* a control state with hysteresis, and acts on the managed systemd scopes: *)
(* close admission, freeze or thaw one discardable scope, terminate one and *)
(* kill it after a grace.  What it did is kept in two durable records, so   *)
(* that a restarted supervisor continues with the same scope.  systemctl   *)
(* and the file system may fail before or after their effect, and the      *)
(* process may be killed between any two steps.                             *)
(*                                                                          *)
(* One tick passes between two iterations; the actions of one iteration    *)
(* carry the time it began at, as in the code.                              *)
(***************************************************************************)
EXTENDS Naturals, Sequences, FiniteSets

CONSTANTS
  Units,           \* names of managed scopes
  Class, Memory,   \* of each unit: its discard_priority and reserved bytes
  Reserve, GiB,    \* control_reserve_bytes, and 1 GiB in the same unit
  SvAvailable, Psi,  \* the values MemAvailable and PSI full avg10 (%) take
  GuardedAt, CriticalAt, EmergencyAt, HealthyAt,   \* 3, 5, 5 and 60 samples
  Grace,           \* EMERGENCY_TERM_GRACE_MS, in ticks
  MaxInvocations,  \* bound: starts of one unit name
  RecycleRaces     \* may a unit name be reused between the identity query and the action?

ASSUME SupervisorAssumption ==
  /\ Class \in [Units -> 0..3] /\ Memory \in [Units -> Nat]
  /\ Reserve \in Nat /\ GiB \in Nat /\ SvAvailable \subseteq Nat /\ Psi \subseteq Nat
  /\ {GuardedAt, CriticalAt, EmergencyAt, HealthyAt, Grace} \subseteq Nat \ {0}
  /\ MaxInvocations \in Nat /\ RecycleRaces \in BOOLEAN

VARIABLES
  control,    \* Supervisor.state
  streaks,    \* the consecutive samples at each level, as far as they matter
  at,         \* where the loop stands
  todo,       \* the actions of the decision still to execute
  step,       \* the next step of the action at the head of todo
  target,     \* the scope that action is bound to, if any
  victim,     \* what select_victim returned when the iteration began
  closeFailed, \* did CloseAdmission fail in this iteration?
  frozenRec,  \* frozen-scope.json: {} or one record
  emergRec,   \* emergency-target.json: {} or one record
  ledger,     \* reservations.json, in the order of issued_ordinal
  scopes,     \* the invocation each unit runs (0 = none) and whether it is frozen
  started,    \* invocations of each unit so far
  termed      \* history: the SIGTERM sent to this invocation, how long ago it
              \* was and whether the pressure has recovered since

memory == <<control, streaks>>
iteration == <<at, todo, step, target, victim, closeFailed>>
records == <<frozenRec, emergRec>>
hostVars == <<ledger, scopes, started>>
svVars == <<memory, iteration, records, hostVars, termed>>

States == {"HEALTHY", "GUARDED", "CRITICAL", "EMERGENCY"}
ScopeActions == {"Freeze", "Thaw", "Term", "Kill"}
Actions == ScopeActions \cup {"CloseAdmission"}
Identities == [unit : Units, inv : 1..MaxInvocations]

Lesser(a, b) == IF a < b THEN a ELSE b

(***************************************************************************)
(* Supervisor::observe.  A streak is kept up to its threshold: the code    *)
(* only compares it with that.                                             *)
(***************************************************************************)

Streak(current, holds, cap) == IF holds THEN Lesser(current + 1, cap) ELSE 0

NextStreaks(s) ==
  [streaks EXCEPT !.guarded = Streak(@, s.psi >= 2, GuardedAt),
                  !.critical = Streak(@, s.psi >= 5, CriticalAt),
                  !.emergency = Streak(@, s.psi >= 10, EmergencyAt)]

Requested(s, k) ==
  CASE s.available < Reserve \div 2 \/ k.emergency >= EmergencyAt \/ s.late -> "EMERGENCY"
    [] s.available < (Reserve * 3) \div 4 \/ k.critical >= CriticalAt -> "CRITICAL"
    [] s.available < Reserve \/ k.guarded >= GuardedAt -> "GUARDED"
    [] OTHER -> "HEALTHY"

FullyHealthy(s) == s.available >= Reserve + GiB /\ s.psi < 1 /\ ~s.late

HealthySamples(s, requested) ==
  IF requested = "HEALTHY" THEN Streak(streaks.healthy, FullyHealthy(s), HealthyAt) ELSE 0

Hysteresis(requested, healthy) ==
  IF requested = "HEALTHY" /\ control # "HEALTHY" /\ healthy < HealthyAt
  THEN "GUARDED" ELSE requested

\* Mutant: only a confirmed freeze is thawed, not a pending one.
DecisionIgnoresPending(state, f) ==
  (IF f.frozen /\ state # "CRITICAL" THEN <<"Thaw">> ELSE <<>>)
  \o CASE state = "HEALTHY" -> <<>>
       [] state = "GUARDED" -> <<"CloseAdmission">>
       [] state = "CRITICAL" ->
            <<"CloseAdmission">> \o (IF f.frozen THEN <<>> ELSE <<"Freeze">>)
       [] state = "EMERGENCY" ->
            <<"CloseAdmission">>
            \o (IF f.eligible = {} THEN <<"Term">>
                ELSE IF f.eligible = {0} /\ ~f.sent THEN <<"Kill">> ELSE <<>>)

\* The actions of a decision, in order.  f holds the flags after the reset that
\* leaving the emergency causes; an eligibility of 0 ticks has been reached.
\* ReduceVramCache and RequestReclaim, which leave a request file for the daemon
\* and change nothing the supervisor reads, are not in the list.
Decision(state, f) ==
  (IF (f.frozen \/ f.pending) /\ state # "CRITICAL" THEN <<"Thaw">> ELSE <<>>)
  \o CASE state = "HEALTHY" -> <<>>
       [] state = "GUARDED" -> <<"CloseAdmission">>
       [] state = "CRITICAL" ->
            <<"CloseAdmission">> \o (IF f.frozen THEN <<>> ELSE <<"Freeze">>)
       [] state = "EMERGENCY" ->
            <<"CloseAdmission">>
            \o (IF f.eligible = {} THEN <<"Term">>
                ELSE IF f.eligible = {0} /\ ~f.sent THEN <<"Kill">> ELSE <<>>)

(***************************************************************************)
(* recover_action_state, run at the start of every iteration: the flags    *)
(* are what the durable records say.                                       *)
(***************************************************************************)
Recovered ==
  [frozen |-> \E r \in frozenRec : r.phase = "applied",
   pending |-> \E r \in frozenRec : r.phase = "pending",
   eligible |-> {Grace - r.age : r \in {e \in emergRec : e.phase = "termed"}}
                \cup {0 : r \in {e \in emergRec : e.phase = "killed"}},
   sent |-> \E r \in emergRec : r.phase = "killed"]

(***************************************************************************)
(* select_victim: of the reservations bound to an invocation, the one of   *)
(* the lowest class, then the largest, then the oldest.                    *)
(***************************************************************************)
Preferred(i, j) ==
  LET u == ledger[i].unit
      v == ledger[j].unit
  IN \/ Class[u] < Class[v]
     \/ Class[u] = Class[v] /\ Memory[u] > Memory[v]
     \/ Class[u] = Class[v] /\ Memory[u] = Memory[v] /\ i <= j

SelectVictim ==
  LET bound == {i \in DOMAIN ledger : ledger[i].inv # {}}
  IN UNION {[unit : {ledger[i].unit}, inv : ledger[i].inv] :
              i \in {b \in bound : \A c \in bound : Preferred(b, c)}}

NoStreaks == [guarded |-> 0, critical |-> 0, emergency |-> 0, healthy |-> 0]

SvInit ==
  /\ control = "HEALTHY" /\ streaks = NoStreaks
  /\ at = "sample" /\ todo = <<>> /\ step = "begin" /\ target = {}
  /\ victim = {} /\ closeFailed = FALSE
  /\ frozenRec = {} /\ emergRec = {}
  /\ ledger = <<>> /\ scopes = [u \in Units |-> [inv |-> 0, frozen |-> FALSE]]
  /\ started = [u \in Units |-> 0]
  /\ termed = [u \in Units |-> {}]

\* The actions that use the selection, made once when the iteration begins.
Picks(actions) == \E i \in DOMAIN actions : actions[i] \in {"Freeze", "Term"}

(***************************************************************************)
(* One iteration of run: sample, recover, observe and select_victim, which *)
(* fails when the ledger is locked or unreadable.                          *)
(***************************************************************************)
Sample ==
  /\ at = "sample"
  /\ \E s \in [available : SvAvailable, psi : Psi, late : BOOLEAN], readable \in BOOLEAN :
       LET k == NextStreaks(s)
           requested == Requested(s, k)
           healthy == HealthySamples(s, requested)
           state == Hysteresis(requested, healthy)
           f == IF requested = "EMERGENCY" THEN Recovered
                ELSE [Recovered EXCEPT !.eligible = {}, !.sent = FALSE]
       IN /\ control' = state
          /\ streaks' = [k EXCEPT !.healthy = healthy]
          /\ todo' = Decision(state, f)
          /\ victim' = IF readable /\ Picks(todo') THEN SelectVictim ELSE {}
  /\ at' = "act" /\ step' = "begin" /\ target' = {}
  /\ closeFailed' = FALSE
  /\ termed' = IF control' = "HEALTHY"
               THEN [u \in Units |-> {[t EXCEPT !.recovered = TRUE] : t \in termed[u]}]
               ELSE termed
  /\ UNCHANGED <<records, hostVars>>

(***************************************************************************)
(* execute_actions_with, an action at a time.  A file operation succeeds,  *)
(* fails without effect or reports a failure after it took effect (the     *)
(* directory sync after the rename); systemctl likewise, because of its    *)
(* one-second bound.                                                       *)
(***************************************************************************)
SvOutcomes == {"ok", "lost", "late"}
Applied(outcome) == outcome # "lost"

SvFinish(ok) ==
  /\ closeFailed' = (closeFailed \/ (Head(todo) = "CloseAdmission" /\ ~ok))
  /\ todo' = Tail(todo) /\ step' = "begin" /\ target' = {}
  /\ UNCHANGED <<at, victim>>

Continue(next, t) ==
  /\ step' = next /\ target' = t
  /\ UNCHANGED <<at, todo, victim, closeFailed>>

\* The next step on success; a failure ends the action.
Proceed(outcome, next, t) == IF outcome = "ok" THEN Continue(next, t) ELSE SvFinish(FALSE)

FrozenRecord(phase, v) == {[phase |-> phase, unit |-> v.unit, inv |-> v.inv]}
EmergencyRecord(phase, v, age) ==
  {[phase |-> phase, unit |-> v.unit, inv |-> v.inv, age |-> age]}
Victim(r) == [unit |-> r.unit, inv |-> r.inv]

Acting(action) == at = "act" /\ todo # <<>> /\ Head(todo) = action

CloseAdmission ==
  /\ Acting("CloseAdmission")
  /\ \E ok \in BOOLEAN : SvFinish(ok)
  /\ UNCHANGED <<memory, records, hostVars, termed>>

(***************************************************************************)
(* execute_freeze                                                          *)
(***************************************************************************)

FreezeBegin ==
  /\ Acting("Freeze") /\ step = "begin"
  /\ LET candidates == IF frozenRec = {} THEN victim ELSE {Victim(r) : r \in frozenRec}
     IN IF \E r \in frozenRec : r.phase = "applied"
        THEN SvFinish(TRUE) /\ UNCHANGED frozenRec
        ELSE IF candidates = {}
        THEN SvFinish(FALSE) /\ UNCHANGED frozenRec
        ELSE \E v \in candidates, o \in SvOutcomes :
               /\ frozenRec' = IF Applied(o) THEN FrozenRecord("pending", v) ELSE frozenRec
               /\ Proceed(o, "query", {v})
  /\ UNCHANGED <<memory, emergRec, hostVars, termed>>

FreezeRecord ==
  /\ Acting("Freeze") /\ step = "record"
  /\ \E v \in target, o \in SvOutcomes :
       /\ frozenRec' = IF Applied(o) THEN FrozenRecord("applied", v) ELSE frozenRec
       /\ SvFinish(o = "ok")
  /\ UNCHANGED <<memory, emergRec, hostVars, termed>>

(***************************************************************************)
(* execute_thaw                                                            *)
(***************************************************************************)
ThawBegin ==
  /\ Acting("Thaw") /\ step = "begin"
  /\ IF frozenRec = {} THEN SvFinish(FALSE)
     ELSE Continue("query", {Victim(r) : r \in frozenRec})
  /\ UNCHANGED <<memory, records, hostVars, termed>>

ThawRecord ==
  /\ Acting("Thaw") /\ step = "record"
  /\ \E o \in SvOutcomes :
       /\ frozenRec' = IF Applied(o) THEN {} ELSE frozenRec
       /\ SvFinish(o = "ok")
  /\ UNCHANGED <<memory, emergRec, hostVars, termed>>

(***************************************************************************)
(* execute_term                                                            *)
(***************************************************************************)

TermBegin ==
  /\ Acting("Term") /\ step = "begin"
  /\ LET candidates == IF emergRec = {} THEN victim ELSE {Victim(r) : r \in emergRec}
     IN IF \E r \in emergRec : r.phase = "termed"
        THEN SvFinish(TRUE) /\ UNCHANGED emergRec
        ELSE IF (\E r \in emergRec : r.phase = "killed") \/ candidates = {}
        THEN SvFinish(FALSE) /\ UNCHANGED emergRec
        ELSE \E v \in candidates, o \in SvOutcomes :
               /\ emergRec' = IF Applied(o) THEN EmergencyRecord("pending", v, 0) ELSE emergRec
               /\ Proceed(o, "query", {v})
  /\ UNCHANGED <<memory, frozenRec, hostVars, termed>>

TermRecord ==
  /\ Acting("Term") /\ step = "record"
  /\ \E v \in target, o \in SvOutcomes :
       /\ emergRec' = IF Applied(o) THEN EmergencyRecord("termed", v, 0) ELSE emergRec
       /\ SvFinish(o = "ok")
  /\ UNCHANGED <<memory, frozenRec, hostVars, termed>>

(***************************************************************************)
(* execute_kill                                                            *)
(***************************************************************************)
KillBegin ==
  /\ Acting("Kill") /\ step = "begin"
  /\ IF \E r \in emergRec : r.phase = "killed" THEN SvFinish(TRUE)
     ELSE IF \E r \in emergRec : r.phase = "termed" /\ r.age >= Grace
     THEN Continue("query", {Victim(r) : r \in emergRec})
     ELSE SvFinish(FALSE)
  /\ UNCHANGED <<memory, records, hostVars, termed>>

KillRecord ==
  /\ Acting("Kill") /\ step = "record"
  /\ \E v \in target, r \in emergRec, o \in SvOutcomes :
       /\ emergRec' = IF Applied(o) THEN EmergencyRecord("killed", v, r.age) ELSE emergRec
       /\ SvFinish(o = "ok")
  /\ UNCHANGED <<memory, frozenRec, hostVars, termed>>

(***************************************************************************)
(* run_identity_bound_action: systemctl show must name the same            *)
(* invocation, then systemctl acts on the unit's name.                     *)
(***************************************************************************)
Query ==
  /\ at = "act" /\ step = "query"
  /\ \E v \in target, answered \in BOOLEAN :
       IF answered /\ scopes[v.unit].inv = v.inv
       THEN Continue("run", target) ELSE SvFinish(FALSE)
  /\ UNCHANGED <<memory, records, hostVars, termed>>

\* What systemctl does to the unit u, which runs.
Effect(action, u) ==
  CASE action = "Freeze" ->
         /\ scopes' = [scopes EXCEPT ![u].frozen = TRUE]
         /\ UNCHANGED termed
    [] action = "Thaw" ->
         /\ scopes' = [scopes EXCEPT ![u].frozen = FALSE]
         /\ UNCHANGED termed
    [] action = "Term" ->
         /\ termed' = [termed EXCEPT ![u] = {[age |-> 0, recovered |-> FALSE]}]
         /\ UNCHANGED scopes
    [] action = "Kill" ->
         /\ scopes' = [scopes EXCEPT ![u] = [inv |-> 0, frozen |-> FALSE]]
         /\ termed' = [termed EXCEPT ![u] = {}]

Run(o) ==
  /\ at = "act" /\ step = "run"
  /\ \E v \in target :
       IF scopes[v.unit].inv # 0
       THEN /\ Proceed(o, "record", target)
            /\ IF Applied(o) THEN Effect(Head(todo), v.unit)
               ELSE UNCHANGED <<scopes, termed>>
       ELSE SvFinish(FALSE) /\ UNCHANGED <<scopes, termed>>
  /\ UNCHANGED <<memory, records, ledger, started>>

(***************************************************************************)
(* The end of apply_decision_with: supervisor-state.json, and in a healthy *)
(* decision admission-state.json after it (their readers are in the module *)
(* Admission).  commit_action_results only sets fields that the next       *)
(* recover_action_state overwrites.  An error, a refused CloseAdmission    *)
(* included, ends the process.                                             *)
(***************************************************************************)
Forget == /\ todo' = <<>> /\ step' = "begin" /\ target' = {} /\ victim' = {}
          /\ closeFailed' = FALSE
SvExit == at' = "down" /\ Forget /\ control' = "HEALTHY" /\ streaks' = NoStreaks

Publish ==
  /\ at = "act" /\ todo = <<>>
  /\ \/ SvExit
     \/ /\ ~closeFailed /\ Forget
        /\ at' = IF control = "HEALTHY" THEN "open" ELSE "sleep"
        /\ UNCHANGED memory
  /\ UNCHANGED <<records, hostVars, termed>>

OpenAdmission ==
  /\ at = "open"
  /\ \/ SvExit
     \/ at' = "sleep" /\ Forget /\ UNCHANGED memory
  /\ UNCHANGED <<records, hostVars, termed>>

\* A second passes; ages are kept up to the grace.
SvTick ==
  /\ emergRec' = {[r EXCEPT !.age = IF r.phase = "termed" THEN Lesser(@ + 1, Grace) ELSE @] :
                    r \in emergRec}
  /\ termed' = [u \in Units |-> {[t EXCEPT !.age = Lesser(@ + 1, Grace)] : t \in termed[u]}]

Sleep ==
  /\ at = "sleep" /\ at' = "sample"
  /\ Forget /\ SvTick
  /\ UNCHANGED <<memory, frozenRec, hostVars>>

\* The process is killed; systemd starts it again a second later.
Crash ==
  /\ at # "down" /\ SvExit
  /\ UNCHANGED <<records, hostVars, termed>>

Restart ==
  /\ at = "down" /\ at' = "sample"
  /\ Forget /\ SvTick
  /\ UNCHANGED <<memory, frozenRec, hostVars>>

(***************************************************************************)
(* The managed scopes.  `ramshared run` appends a reservation, bound to    *)
(* the invocation unless systemd's answer was lost, and removes it when    *)
(* the scope has ended, or leaves it behind.                               *)
(***************************************************************************)
Racing == at = "act" /\ step = "run" /\ ~RecycleRaces

ScopeStarts(u) ==
  /\ scopes[u].inv = 0 /\ started[u] < MaxInvocations /\ ~Racing
  /\ started' = [started EXCEPT ![u] = @ + 1]
  /\ scopes' = [scopes EXCEPT ![u] = [inv |-> started'[u], frozen |-> FALSE]]
  /\ termed' = [termed EXCEPT ![u] = {}]
  /\ \E inv \in {{}, {started'[u]}} : ledger' = Append(ledger, [unit |-> u, inv |-> inv])
  /\ UNCHANGED <<memory, iteration, records>>

\* A frozen scope runs nothing, so it does not end by itself.
ScopeEnds(u) ==
  /\ scopes[u].inv # 0 /\ ~scopes[u].frozen
  /\ scopes' = [scopes EXCEPT ![u].inv = 0]
  /\ termed' = [termed EXCEPT ![u] = {}]
  /\ UNCHANGED <<memory, iteration, records, ledger, started>>

ReservationRemoved(i) ==
  /\ scopes[ledger[i].unit].inv = 0
  /\ ledger' = [j \in 1..Len(ledger) - 1 |-> IF j < i THEN ledger[j] ELSE ledger[j + 1]]
  /\ UNCHANGED <<memory, iteration, records, scopes, started, termed>>

FreezeSteps == FreezeBegin \/ FreezeRecord
ThawSteps == ThawBegin \/ ThawRecord
TermSteps == TermBegin \/ TermRecord
KillSteps == KillBegin \/ KillRecord
Loop ==
  \/ Sample \/ CloseAdmission \/ Query
  \/ FreezeSteps \/ ThawSteps \/ TermSteps \/ KillSteps
  \/ \E o \in SvOutcomes : Run(o)
  \/ Publish \/ OpenAdmission \/ Sleep \/ Restart

Host ==
  \/ \E u \in Units : ScopeStarts(u) \/ ScopeEnds(u)
  \/ \E i \in DOMAIN ledger : ReservationRemoved(i)

SvNext == Loop \/ Crash \/ Host

SvSpec ==
  /\ SvInit /\ [][SvNext]_svVars
  /\ WF_svVars(Loop) /\ SF_svVars(Sample) /\ SF_svVars(ThawBegin)
  /\ SF_svVars(Acting("Thaw") /\ Query /\ step' = "run")
  /\ SF_svVars(Acting("Thaw") /\ Run("ok"))

SvTypeOK ==
  /\ control \in States
  /\ streaks \in [guarded : 0..GuardedAt, critical : 0..CriticalAt,
                  emergency : 0..EmergencyAt, healthy : 0..HealthyAt]
  /\ at \in {"sample", "act", "open", "sleep", "down"}
  /\ todo \in Seq(Actions) /\ step \in {"begin", "query", "run", "record"}
  /\ target \subseteq Identities /\ victim \subseteq Identities
  /\ closeFailed \in BOOLEAN
  /\ frozenRec \subseteq [phase : {"pending", "applied"}, unit : Units, inv : 1..MaxInvocations]
  /\ emergRec \subseteq [phase : {"pending", "termed", "killed"}, unit : Units,
                         inv : 1..MaxInvocations, age : 0..Grace]
  /\ Cardinality(frozenRec) <= 1 /\ Cardinality(emergRec) <= 1
  /\ ledger \in Seq([unit : Units, inv : SUBSET (1..MaxInvocations)])
  /\ scopes \in [Units -> [inv : 0..MaxInvocations, frozen : BOOLEAN]]
  /\ started \in [Units -> 0..MaxInvocations]
  /\ termed \in [Units -> SUBSET [age : 0..Grace, recovered : BOOLEAN]]

(***************************************************************************)
(* Properties                                                              *)
(***************************************************************************)
\* A scope the supervisor froze is the one frozen-scope.json names, at every
\* step of the freeze and of the thaw and across a restart: otherwise nobody
\* would ever thaw it (execute_freeze writes "pending" first, execute_thaw
\* removes the record last).
FrozenIsRecorded ==
  \A u \in Units : scopes[u].frozen =>
    \E r \in frozenRec : r.unit = u /\ r.inv = scopes[u].inv

\* SIGKILL reaches an invocation only after this same invocation was sent
\* SIGTERM and the grace has passed, whatever restarts and failures of
\* systemctl or of the record lie between (execute_term, recover_action_state,
\* execute_kill).
KillStep(u) ==
  Acting("Kill") /\ step = "run" /\ scopes[u].inv # 0 /\ scopes'[u].inv = 0 /\ step' # "run"
KillsOnlyTheTermed ==
  [][\A u \in Units : KillStep(u) => \E t \in termed[u] : t.age = Grace]_svVars

\* What the flow of the control-plane document says: SIGKILL follows a SIGTERM
\* "only if recovery has not occurred".  The termed record outlives the
\* emergency it was written in, and recover_action_state reads it again in the
\* next one, which then begins with SIGKILL.
KillsOnlyUnrecovered ==
  [][\A u \in Units : KillStep(u) => \A t \in termed[u] : ~t.recovered]_svVars

\* The escalation never changes its target and never goes back: a failed TERM,
\* a restart or another ledger does not retarget it (execute_term reuses the
\* victim of the pending record).
EscalationStep ==
  \A r \in emergRec : \E n \in emergRec' :
    /\ Victim(n) = Victim(r)
    /\ r.phase = "termed" => n.phase \in {"termed", "killed"}
    /\ r.phase = "killed" => n.phase = "killed"
EscalationKeepsTarget == [][EscalationStep]_emergRec

\* While the pressure is not critical any more, no scope stays frozen: the thaw
\* is tried in every iteration until it succeeds.
FrozenIsThawed ==
  <>[](control # "CRITICAL") => \A u \in Units : []<>~scopes[u].frozen

\* The promises together.
SvContract ==
  /\ [](SvTypeOK /\ FrozenIsRecorded)
  /\ KillsOnlyTheTermed /\ EscalationKeepsTarget
  /\ FrozenIsThawed
=============================================================================
