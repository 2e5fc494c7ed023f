----------------------------- MODULE Telemetry ------------------------------
(***************************************************************************)
(* What the programs report of themselves: the reconciliation samples of the *)
(* broker, and the log, the heartbeat and the dashboard of the monitor.  They *)
(* share no state.                                                         *)
(***************************************************************************)
EXTENDS Sequences, FiniteSets, FiniteSetsExt, Integers, SequencesExt

(***************************************************************************)
(* The broker's reconciliation telemetry: what a tick reports of the slices *)
(* lent, the swap the tenants say they occupy and the canary's demotions.   *)
(* The broker's tables are reduced to what emit_telemetry reads of them     *)
(* (module BrokerCore has them whole); a slice has the length 1.            *)
(***************************************************************************)

CONSTANTS
  TlTenants, TlSlices,
  TolPercent,      \* RECON_TOL_FRAC, in percent
  ReconStreak,     \* RECON_STREAK
  ZeroRetryError,  \* ZERO_RETRY_ERROR
  MaxDemotes       \* bound on the canary's demotions

ASSUME TelemetryAssumption ==
  /\ TolPercent \in Nat /\ MaxDemotes \in Nat
  /\ ReconStreak \in Nat \ {0} /\ ZeroRetryError \in Nat \ {0}

Flags == {"None", "Partial", "Eviction", "StuckSlice", "Unaccounted"}
TlNoTenant == "none"

VARIABLES
  tlPresent,  \* the tenants with a session
  tlState,    \* of each slice: "Free", "Active" or "Draining"
  tlOwner,    \* the tenant of an active slice
  tlCounted,  \* the slices whose use a tenant's last report counted: its occupied_bytes
  tlReconciled, \* the tenants whose session has adopted the slices it found mounted
  tlPending,  \* pending_zero: the slices whose zeroing has been asked for
  tlZero,     \* and the ticks it has been waited for, capped
  tlGauge,    \* has the worker published the size of the VRAM?
  tlTotal,    \* demotes_total
  tlSampled,  \* demotes_at_last_sample
  tlFlag, tlCount,  \* recon_flag and recon_count
  tlHistory,  \* the candidates of the last ReconStreak ticks (history)
  tlSample,   \* the flag and the demotions of the last sample
  tlSink,     \* is the telemetry file still written?
  tlLine      \* the last line of the file while it is written

tlSliceVars == <<tlState, tlOwner, tlPending, tlZero>>
tlTenantVars == <<tlPresent, tlCounted, tlReconciled>>
tableVars == <<tlSliceVars, tlTenantVars, tlGauge, tlTotal>>
sampleVars == <<tlSampled, tlFlag, tlCount, tlHistory, tlSample, tlSink, tlLine>>
tlVars == <<tableVars, sampleVars>>

NoSample == [flag |-> "None", demotes |-> 0, stale |-> FALSE]

\* BrokerCore::new starts with recon_flag None and both counters at 0.
TlInit ==
  /\ tlPresent = {} /\ tlReconciled = {} /\ tlPending = {} /\ tlGauge = FALSE
  /\ tlState = [s \in TlSlices |-> "Free"] /\ tlOwner = [s \in TlSlices |-> TlNoTenant]
  /\ tlCounted = [t \in TlTenants |-> {}] /\ tlZero = [s \in TlSlices |-> 0]
  /\ tlTotal = 0 /\ tlSampled = 0
  /\ tlFlag = "None" /\ tlCount = 0 /\ tlHistory = <<>>
  /\ tlSample = NoSample /\ tlLine = NoSample
  /\ tlSink \in BOOLEAN

(***************************************************************************)
(* What happens between the ticks.                                         *)
(***************************************************************************)
\* A new session starts with occupied_bytes 0; the slices stay the tenant's.
TlRegister(t) ==
  /\ t \notin tlPresent
  /\ tlPresent' = tlPresent \cup {t}
  /\ tlReconciled' = tlReconciled \ {t}
  /\ tlCounted' = [tlCounted EXCEPT ![t] = {}]
  /\ UNCHANGED <<tlSliceVars, tlGauge, tlTotal, sampleVars>>

\* A lost session keeps what its last report said.
TlDisconnect(t) ==
  /\ t \in tlPresent
  /\ tlPresent' = tlPresent \ {t}
  /\ UNCHANGED <<tlSliceVars, tlCounted, tlReconciled, tlGauge, tlTotal, sampleVars>>

\* The first report of a session adopts the free slices the tenant has mounted;
\* every report counts the tenant's own active slices, whatever else it swaps to.
Adopted(t, used) ==
  IF t \in tlReconciled THEN {} ELSE {s \in used : tlState[s] = "Free"}

OwnActive(t) == {s \in TlSlices : tlState[s] = "Active" /\ tlOwner[s] = t}

TlPsi(t, used) ==
  /\ t \in tlPresent
  /\ tlReconciled' = tlReconciled \cup {t}
  /\ tlState' = [s \in TlSlices |-> IF s \in Adopted(t, used) THEN "Active" ELSE tlState[s]]
  /\ tlOwner' = [s \in TlSlices |-> IF s \in Adopted(t, used) THEN t ELSE tlOwner[s]]
  /\ tlCounted' = [tlCounted EXCEPT ![t] = (used \cap OwnActive(t)) \cup Adopted(t, used)]
  /\ UNCHANGED <<tlPresent, tlPending, tlZero, tlGauge, tlTotal, sampleVars>>

\* The arbiter lends a free slice, and takes a slice back by draining it.
TlLend(s, t) ==
  /\ t \in tlPresent /\ tlState[s] = "Free"
  /\ tlState' = [tlState EXCEPT ![s] = "Active"]
  /\ tlOwner' = [tlOwner EXCEPT ![s] = t]
  /\ UNCHANGED <<tlPending, tlZero, tlTenantVars, tlGauge, tlTotal, sampleVars>>

TlDrain(s) ==
  /\ tlState[s] = "Active" /\ tlOwner[s] \in tlPresent
  /\ tlState' = [tlState EXCEPT ![s] = "Draining"]
  /\ UNCHANGED <<tlOwner, tlPending, tlZero, tlTenantVars, tlGauge, tlTotal, sampleVars>>

\* A failed swapon returns the slice without zeroing it; a confirmed swapoff
\* asks for the zeroing of the slice.
SwapOnFailed(s) ==
  /\ tlState[s] = "Active" /\ tlOwner[s] \in tlPresent
  /\ tlState' = [tlState EXCEPT ![s] = "Free"]
  /\ tlOwner' = [tlOwner EXCEPT ![s] = TlNoTenant]
  /\ UNCHANGED <<tlPending, tlZero, tlTenantVars, tlGauge, tlTotal, sampleVars>>

TlSwapOffDone(s) ==
  /\ tlState[s] = "Draining" /\ s \notin tlPending
  /\ tlPending' = tlPending \cup {s}
  /\ UNCHANGED <<tlState, tlOwner, tlZero, tlTenantVars, tlGauge, tlTotal, sampleVars>>

\* The zeroing worker's answer frees the slice, or gives it to the tenant it is
\* on its way to.
TlZeroed(s, dest) ==
  /\ s \in tlPending
  /\ tlPending' = tlPending \ {s}
  /\ tlState' = [tlState EXCEPT ![s] = IF dest = TlNoTenant THEN "Free" ELSE "Active"]
  /\ tlOwner' = [tlOwner EXCEPT ![s] = dest]
  /\ tlZero' = [tlZero EXCEPT ![s] = 0]
  /\ UNCHANGED <<tlTenantVars, tlGauge, tlTotal, sampleVars>>

TlDemote ==
  /\ tlTotal < MaxDemotes
  /\ tlTotal' = tlTotal + 1
  /\ UNCHANGED <<tlSliceVars, tlTenantVars, tlGauge, sampleVars>>

TlPublish ==
  /\ ~tlGauge /\ tlGauge' = TRUE
  /\ UNCHANGED <<tlSliceVars, tlTenantVars, tlTotal, sampleVars>>

(***************************************************************************)
(* The tick: retry_stuck_zeroing counts, then emit_telemetry reconciles.    *)
(***************************************************************************)
CountedWaits == [s \in TlSlices |->
  IF s \in tlPending /\ tlZero[s] < ZeroRetryError THEN tlZero[s] + 1 ELSE tlZero[s]]

Borrowed == Cardinality({s \in TlSlices : tlState[s] \in {"Active", "Draining"}})

Occupied == MapThenSumSet(LAMBDA t : Cardinality(tlCounted[t]), TlTenants)

\* reconcile's delta exceeds tol_frac; nothing borrowed makes it 0 or 1.
Exceeds(alloc, occupied) ==
  IF alloc = 0 THEN occupied > 0 /\ TolPercent < 100
  ELSE occupied * 100 > alloc * (100 + TolPercent)

\* Mutant: a stuck slice hides an eviction.
StuckFirst(missing, demotes, stuck, alloc, occupied) ==
  CASE missing -> "Partial"
    [] ~missing /\ stuck -> "StuckSlice"
    [] ~missing /\ ~stuck /\ demotes > 0 -> "Eviction"
    [] ~missing /\ demotes = 0 /\ ~stuck /\ Exceeds(alloc, occupied) -> "Unaccounted"
    [] OTHER -> "None"

Reconcile(missing, demotes, stuck, alloc, occupied) ==
  CASE missing -> "Partial"
    [] ~missing /\ demotes > 0 -> "Eviction"
    [] ~missing /\ demotes = 0 /\ stuck -> "StuckSlice"
    [] ~missing /\ demotes = 0 /\ ~stuck /\ Exceeds(alloc, occupied) -> "Unaccounted"
    [] OTHER -> "None"

\* The count of consecutive ticks with the same candidate, capped at the streak.
TlStreak(candidate) ==
  IF candidate # tlFlag THEN 1 ELSE IF tlCount < ReconStreak THEN tlCount + 1 ELSE tlCount

\* An eviction is confirmed at once, the lasting flags after a streak.
Confirm(candidate, count) ==
  IF candidate \in {"None", "Eviction"} \/ count >= ReconStreak THEN candidate ELSE "None"

\* The telemetry file: written until the first write that fails.
Emit(sample) ==
  IF ~tlSink THEN UNCHANGED <<tlSink, tlLine>>
  ELSE \E written \in BOOLEAN :
         IF written THEN tlLine' = sample /\ UNCHANGED tlSink
         ELSE tlSink' = FALSE /\ tlLine' = NoSample

Remembered(candidate) ==
  LET all == Append(tlHistory, candidate)
  IN  IF Len(all) > ReconStreak THEN Tail(all) ELSE all

\* Does some report count a slice that its tenant has given back since?
StaleReport == \E t \in TlTenants : \E s \in tlCounted[t] :
  tlState[s] = "Free" \/ tlOwner[s] # t

TakesSample == tlSampled' = tlTotal

EmitTelemetry ==
  LET missing == ~tlGauge \/ tlPresent = {}
      stuck == \E s \in TlSlices : CountedWaits[s] >= ZeroRetryError
      candidate == Reconcile(missing, tlTotal - tlSampled, stuck, Borrowed, Occupied)
      flag == Confirm(candidate, TlStreak(candidate))
  IN  /\ tlZero' = CountedWaits
      /\ TakesSample
      /\ tlFlag' = candidate /\ tlCount' = TlStreak(candidate)
      /\ tlHistory' = Remembered(candidate)
      /\ tlSample' = [flag |-> flag, demotes |-> tlTotal, stale |-> StaleReport]
      /\ Emit(tlSample')
      /\ UNCHANGED <<tlState, tlOwner, tlPending, tlTenantVars, tlGauge, tlTotal>>

TlNext ==
  \/ \E t \in TlTenants : TlRegister(t) \/ TlDisconnect(t) \/ (\E used \in SUBSET TlSlices : TlPsi(t, used))
  \/ \E s \in TlSlices, t \in TlTenants : TlLend(s, t)
  \/ \E s \in TlSlices : TlDrain(s) \/ SwapOnFailed(s) \/ TlSwapOffDone(s) \/ (\E dest \in TlTenants \cup {TlNoTenant} : TlZeroed(s, dest))
  \/ TlDemote \/ TlPublish \/ EmitTelemetry

TlSpec == TlInit /\ [][TlNext]_tlVars

(***************************************************************************)
(* Properties.                                                             *)
(***************************************************************************)
\* Every field of the broker's telemetry keeps its type, and the demotions of
\* the last sample are never ahead of the canary's counter.
TlTypeOK ==
  /\ tlPresent \subseteq TlTenants /\ tlReconciled \subseteq TlTenants
  /\ tlPending \subseteq TlSlices /\ tlGauge \in BOOLEAN /\ tlSink \in BOOLEAN
  /\ tlState \in [TlSlices -> {"Free", "Active", "Draining"}]
  /\ tlCounted \in [TlTenants -> SUBSET TlSlices]
  /\ tlZero \in [TlSlices -> 0..ZeroRetryError]
  /\ tlTotal \in 0..MaxDemotes /\ tlSampled \in 0..tlTotal
  /\ tlFlag \in Flags /\ tlCount \in 0..ReconStreak
  /\ tlSample.flag \in Flags /\ tlLine.flag \in Flags

\* Hysteresis (emit_telemetry): a lasting flag is reported exactly when the
\* last recon_streak ticks all had it as their candidate.
SustainedIsConfirmed ==
  tlSample.flag \in {"Partial", "StuckSlice", "Unaccounted"} =>
    Len(tlHistory) = ReconStreak /\ \A i \in DOMAIN tlHistory : tlHistory[i] = tlSample.flag

\* A tick with every source present reports an eviction exactly when the
\* canary demoted since the tick before: none is swallowed by the hysteresis
\* or by a slice stuck in its zeroing, and none is reported twice.
EvictionExactly ==
  [][tlHistory' # tlHistory \/ tlSample' # tlSample =>
       (tlGauge /\ tlPresent # {} => (tlSample'.flag = "Eviction" <=> tlTotal > tlSample.demotes))]_tlVars

\* A report never counts more than the tenant's own slices, and a draining
\* slice still counts as borrowed, so "unaccounted" swap is never real use: it
\* is reported only while some report is older than the slice's return.
UnaccountedMeansStale == tlSample.flag = "Unaccounted" => tlSample.stale

\* The telemetry file has no gaps: while the sink is open its last line is the
\* last sample (core_loop drops the sink after the first failed write).
LogHasNoGaps == tlSink => tlLine = tlSample

-----------------------------------------------------------------------------
(***************************************************************************)
(* `ramshared monitor`.  As the health service (--jsonl --output           *)
(* --heartbeat) it appends every observation to a log that is rotated      *)
(* once, then replaces a heartbeat file; the service manager restarts it   *)
(* when it dies.  As the terminal dashboard it turns the byte counters of  *)
(* a tier into speeds, a peak and the statistics of the active samples.    *)
(***************************************************************************)

CONSTANTS
  MnMax,       \* max_log_bytes, in lines
  MnSamples,   \* bound: observations of a behaviour
  MnRate,      \* what the tier can move in a tick
  MnFloor,     \* the speed from which a sample counts as active (5 MB/s)
  MnGap,       \* the longest gap over which a speed is computed (10 s), in ticks
  MnMoved,     \* bound: the tier's counter
  MnReadsFail  \* may the dashboard fail to read the status or the counters?

ASSUME MonitorAssumption ==
  /\ {MnMax, MnSamples, MnRate, MnGap, MnMoved} \subseteq Nat \ {0} /\ MnFloor \in Nat
  /\ MnReadsFail \in BOOLEAN

VARIABLES
  mnAt,      \* what the service does next
  mnLine,    \* the observation in hand
  mnTaken,   \* observations taken so far
  mnLog,     \* the log: the writes that reached it
  mnOld,     \* the rotated log
  mnBeat,    \* the heartbeat file: at most one line
  mnEmitted, \* history: the observations whose line was written whole, in order
  mnCounter, \* the tier's byte counter
  mnSeen,    \* the counter in the dashboard's observation
  mnLast,    \* the counter and the age of last_io_sample
  mnSpeed,   \* the speed shown
  mnPeak,    \* swap_peak_mbs
  mnAcc      \* the TierAccumulator

serviceVars == <<mnAt, mnLine, mnTaken, mnLog, mnOld, mnBeat, mnEmitted>>
dashboardVars == <<mnCounter, mnSeen, mnLast, mnSpeed, mnPeak, mnAcc>>
mnVars == <<serviceVars, dashboardVars>>

MnObservations == [n : 1..MnSamples, ok : BOOLEAN, gpu : BOOLEAN]
\* writeln! on an unbuffered file writes the text, then the line's end.
Writes == [line : MnObservations, ended : BOOLEAN]

MnTypeOK ==
  /\ mnAt \in {"collect", "append", "text", "end", "temporary", "replace", "sleep", "dead"}
  /\ mnLine \subseteq MnObservations /\ Cardinality(mnLine) <= 1 /\ mnTaken \in 0..MnSamples
  /\ ToSet(mnLog) \cup ToSet(mnOld) \subseteq Writes
  /\ mnBeat \subseteq MnObservations
  /\ mnCounter \in 0..MnMoved /\ mnSeen \in 0..MnMoved
  /\ mnLast \in [bytes : 0..MnMoved, age : 0..(MnGap + 1)]
  /\ mnSpeed \in Nat /\ mnPeak \in Nat /\ mnAcc.count \in 0..MnSamples

MnInit ==
  /\ mnAt = "collect" /\ mnLine = {} /\ mnTaken = 0 /\ mnLog = << >> /\ mnOld = << >>
  /\ mnBeat = {} /\ mnEmitted = << >>
  /\ mnCounter = 0 /\ mnSeen = 0 /\ mnLast = [bytes |-> 0, age |-> 0] /\ mnSpeed = 0 /\ mnPeak = 0
  /\ mnAcc = [min |-> 0, max |-> 0, total |-> 0, count |-> 0]

(***************************************************************************)
(* The health service.                                                     *)
(***************************************************************************)
\* query_gpu_bounded: the driver, else one of two commands.
QueryGpu(driver, commands) == driver \/ TRUE \in ToSet(commands)

\* apply_measurement_failure: without a sample the observation is not ok.
StatusAfter(ok, gpu) == ok /\ gpu

Collect ==
  /\ mnAt = "collect" /\ mnTaken < MnSamples
  /\ \/ /\ \E ok, driver \in BOOLEAN, commands \in [1..2 -> BOOLEAN] :
             LET gpu == QueryGpu(driver, commands)
             IN mnLine' = {[n |-> mnTaken + 1, ok |-> StatusAfter(ok, gpu), gpu |-> gpu]}
        /\ mnAt' = "append" /\ mnTaken' = mnTaken + 1
     \/ mnAt' = "dead" /\ UNCHANGED <<mnLine, mnTaken>>   \* the status cannot be made
  /\ UNCHANGED <<mnLog, mnOld, mnBeat, mnEmitted, dashboardVars>>

Full(log) == Len(log) >= MnMax

\* append_rotating up to the open file; the rename replaces the older rotated log.
Rotate ==
  /\ mnAt = "append"
  /\ \/ /\ mnAt' = "text"
        /\ IF Full(mnLog) THEN mnOld' = mnLog /\ mnLog' = << >> ELSE UNCHANGED <<mnOld, mnLog>>
     \/ mnAt' = "dead" /\ UNCHANGED <<mnOld, mnLog>>
  /\ UNCHANGED <<mnLine, mnTaken, mnBeat, mnEmitted, dashboardVars>>

WriteText ==
  /\ mnAt = "text"
  /\ \/ \E l \in mnLine : mnLog' = Append(mnLog, [line |-> l, ended |-> FALSE]) /\ mnAt' = "end"
     \/ mnAt' = "dead" /\ UNCHANGED mnLog
  /\ UNCHANGED <<mnLine, mnTaken, mnOld, mnBeat, mnEmitted, dashboardVars>>

WriteEnd ==
  /\ mnAt = "end"
  /\ \/ /\ mnLog' = [mnLog EXCEPT ![Len(mnLog)].ended = TRUE] /\ mnAt' = "temporary"
        /\ mnEmitted' = mnEmitted \o SetToSeq(mnLine)
     \/ mnAt' = "dead" /\ UNCHANGED <<mnLog, mnEmitted>>
  /\ UNCHANGED <<mnLine, mnTaken, mnOld, mnBeat, dashboardVars>>

\* write_atomic writes a temporary file, which the heartbeat does not notice, and
\* renames it; nobody reads the part a process that dies leaves behind.
Writing == mnBeat

WriteTemporary ==
  /\ mnAt = "temporary" /\ mnBeat' = Writing /\ mnAt' \in {"replace", "dead"}
  /\ UNCHANGED <<mnLine, mnTaken, mnLog, mnOld, mnEmitted, dashboardVars>>

Replace ==
  /\ mnAt = "replace"
  /\ \/ mnBeat' = mnLine /\ mnAt' = "sleep"
     \/ mnAt' = "dead" /\ UNCHANGED mnBeat
  /\ UNCHANGED <<mnLine, mnTaken, mnLog, mnOld, mnEmitted, dashboardVars>>

Sleep ==
  /\ mnAt = "sleep" /\ mnAt' = "collect" /\ mnLine' = {}
  /\ UNCHANGED <<mnTaken, mnLog, mnOld, mnBeat, mnEmitted, dashboardVars>>

MnKilled ==
  /\ mnAt # "dead" /\ mnAt' = "dead"
  /\ UNCHANGED <<mnLine, mnTaken, mnLog, mnOld, mnBeat, mnEmitted, dashboardVars>>

Restarted ==
  /\ mnAt = "dead" /\ mnAt' = "collect" /\ mnLine' = {}
  /\ UNCHANGED <<mnTaken, mnLog, mnOld, mnBeat, mnEmitted, dashboardVars>>

(***************************************************************************)
(* The dashboard (tui_loop), for one tier.  Ages and speeds are in ticks.  *)
(***************************************************************************)
\* The tier moves data; or its device is made anew and counts from zero.
MnMoves ==
  /\ mnLast.age <= MnGap
  /\ \E n \in 0..MnRate : mnCounter + n <= MnMoved /\ mnCounter' \in {mnCounter + n, 0}
  /\ mnLast' = [mnLast EXCEPT !.age = @ + 1]
  /\ UNCHANGED <<serviceVars, mnSeen, mnSpeed, mnPeak, mnAcc>>

\* saturating_sub
MnGrowth(now, before) == IF now >= before THEN now - before ELSE 0

\* TierAccumulator::record
MnRecord(acc, speed) ==
  IF speed < MnFloor THEN acc
  ELSE [min |-> IF acc.min = 0 THEN speed ELSE Min({acc.min, speed}), max |-> Max({acc.max, speed}),
        total |-> acc.total + speed, count |-> acc.count + 1]

\* What collect_observation brings: the counter, nothing (the earlier observation
\* stays), or zeros for a file that could not be read.
Read == {mnCounter} \cup (IF MnReadsFail THEN {mnSeen, 0} ELSE {})

Samples ==
  /\ mnLast.age > 0 /\ mnAcc.count < MnSamples
  /\ \E seen \in Read :
       LET speed == MnGrowth(seen, mnLast.bytes) \div mnLast.age
       IN /\ mnSeen' = seen /\ mnLast' = [bytes |-> seen, age |-> 0]
          /\ IF mnLast.age <= MnGap
             THEN /\ mnSpeed' = speed /\ mnPeak' = Max({mnPeak, speed})
                  /\ mnAcc' = MnRecord(mnAcc, speed)
             ELSE mnSpeed' = 0 /\ UNCHANGED <<mnPeak, mnAcc>>
  /\ UNCHANGED <<serviceVars, mnCounter>>

ServiceSteps ==
  \/ Collect \/ Rotate \/ WriteText \/ WriteEnd \/ WriteTemporary \/ Replace \/ Sleep
  \/ MnKilled \/ Restarted
MnNext == ServiceSteps \/ MnMoves \/ Samples

(***************************************************************************)
(* Properties.                                                             *)
(***************************************************************************)
Kept == mnOld \o mnLog

\* Through kills, failed writes and rotations the two log files stay within their
\* bound, hold observations in the order they were taken, and hold every one of the
\* last MnMax whose line was written (append_rotating).
LogIsRecent ==
  /\ Len(mnLog) <= MnMax /\ Len(mnOld) <= MnMax
  /\ \A i \in 1..(Len(Kept) - 1) : Kept[i].line.n < Kept[i + 1].line.n
  /\ \A i \in 1..Len(mnEmitted) :
       i > Len(mnEmitted) - MnMax => \E w \in ToSet(Kept) : w.line = mnEmitted[i]

\* A heartbeat, once there, is always a whole observation, never an older one, and
\* one the log holds (write_atomic after append_rotating).
Follows ==
  mnBeat' # mnBeat =>
    /\ mnBeat' # {} /\ \A b \in mnBeat, c \in mnBeat' : b.n < c.n
    /\ \A c \in mnBeat' : \E w \in ToSet(Kept) : w.ended /\ w.line = c
HeartbeatFollowsLog == [][Follows]_mnVars

\* No observation that reached the log or the heartbeat is ok without a measured
\* GPU (apply_measurement_failure).
GreenIsMeasured ==
  \A l \in {w.line : w \in ToSet(Kept)} \cup mnBeat : l.ok => l.gpu

\* Every line of the log is one observation.  It does not hold: a process that dies
\* between the two writes of writeln! leaves a line the next one continues.
LinesAreWhole ==
  \A i \in 1..(Len(mnLog) - 1) : mnLog[i].ended

\* A peak is a speed the tier reached: neither a device that starts counting anew nor
\* a long pause of the dashboard shows as one.
PeakIsReal == mnSpeed <= mnPeak /\ mnPeak <= MnRate

\* The statistics of the active samples agree: lowest, average and highest are in order.
StatisticsAgree ==
  mnAcc.count > 0 =>
    /\ MnFloor <= mnAcc.min /\ mnAcc.min * mnAcc.count <= mnAcc.total
    /\ mnAcc.total <= mnAcc.max * mnAcc.count /\ mnAcc.max <= mnPeak

-----------------------------------------------------------------------------
\* What the broker's telemetry line and the monitor show, together.
TelemetryContract ==
  /\ [](TlTypeOK /\ SustainedIsConfirmed /\ UnaccountedMeansStale /\ LogHasNoGaps)
  /\ [](MnTypeOK /\ LogIsRecent /\ GreenIsMeasured /\ PeakIsReal /\ StatisticsAgree)
  /\ EvictionExactly /\ HeartbeatFollowsLog
=============================================================================
