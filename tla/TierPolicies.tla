---------------------------- MODULE TierPolicies ----------------------------
(***************************************************************************)
(* The pure policies of the VRAM tier, each with the surroundings it       *)
(* judges: the residency detector of the daemons, the headroom policies    *)
(* (governor and autotier), the readiness policy of the WSL2 NBD product   *)
(* and the elastic cooperative cache.  They share no state.                *)
(***************************************************************************)
EXTENDS Naturals, FiniteSets, FiniteSetsExt

(***************************************************************************)
(* The eviction detector the daemon's workers run after every request      *)
(* (residency_check): a latency canary armed with the median of the first  *)
(* requests, and a probe of a dedicated VRAM region, every Interval        *)
(* requests, whose weak signals only count in a row.  What is done with    *)
(* the verdict is the caller's business (NbdDaemon, UblkDaemon,            *)
(* BrokerDaemon); a worker goes on serving, and checking, after it.        *)
(*                                                                         *)
(* Latencies are in units of the resolution of the clock, so a request can *)
(* take 0.  Two counters of consecutive samples stop at Consecutive: the   *)
(* code compares them only with it.                                        *)
(***************************************************************************)

CONSTANTS
  Latencies,   \* the latencies a request may have
  LatencyMult, \* latency_mult: how many times the baseline is too slow
  Consecutive, \* consecutive: bad samples in a row that demote
  Interval,    \* the cadence: requests from one probe to the next
  Baseline     \* the number of requests the baseline is the median of

ASSUME ResidencyAssumption ==
  /\ Latencies \subseteq Nat
  /\ {LatencyMult, Consecutive, Interval, Baseline} \subseteq Nat \ {0}

VARIABLES
  rsBaseline, \* latency -> how many baseline samples had it
  rsCanary,   \* the baseline of the armed canary: a set of at most one latency
  rsOver,     \* over_count of the canary
  rsBad,      \* bad_streak of the sampler
  rsCount,    \* count of the cadence
  rsVerdict,  \* what the last check returned
  rsRange,    \* the latencies seen so far
  rsTrouble,  \* requests in a row served with the VRAM in trouble and not reported
  rsProbes    \* degraded probes in a row, as an observer counts them

rsVars == <<rsBaseline, rsCanary, rsOver, rsBad, rsCount, rsVerdict, rsRange, rsTrouble, rsProbes>>

Verdicts == {"none", "Latency", "Corruption", "FreeFloor"}
\* What the probe finds: its own pattern, another one, or an error of the GPU.
ContentSamples == {"same", "other", "error"}
\* What the free-memory query finds, against free_floor_bytes.
FreeSamples == {"above", "below", "error"}

RsInit ==
  /\ rsBaseline = [l \in Latencies |-> 0]
  /\ rsCanary = {} /\ rsOver = 0 /\ rsBad = 0 /\ rsCount = 0
  /\ rsVerdict = "none" /\ rsRange = {} /\ rsTrouble = 0 /\ rsProbes = 0

Saturate(n) == IF n < Consecutive THEN n ELSE Consecutive

RsSamples(bag, S) == MapThenSumSet(LAMBDA l : bag[l], S)

\* The element at index len/2 of the sorted samples, and never 0.
MedianUnclamped(bag) ==
  CHOOSE l \in Latencies :
    /\ RsSamples(bag, {k \in Latencies : k < l}) <= RsSamples(bag, Latencies) \div 2
    /\ RsSamples(bag, {k \in Latencies : k <= l}) > RsSamples(bag, Latencies) \div 2
Median(bag) == IF MedianUnclamped(bag) = 0 THEN 1 ELSE MedianUnclamped(bag)

TooSlow(lat) == \E base \in rsCanary : lat > base * LatencyMult

\* Canary.sample for a request of latency lat, or the collection of the baseline.
ObserveLatency(lat) ==
  IF rsCanary = {}
  THEN LET bag == [rsBaseline EXCEPT ![lat] = @ + 1]
           full == RsSamples(bag, Latencies) >= Baseline
       IN /\ rsBaseline' = IF full THEN [l \in Latencies |-> 0] ELSE bag
          /\ rsCanary' = IF full THEN {Median(bag)} ELSE {}
          /\ UNCHANGED rsOver
  ELSE /\ rsOver' = IF TooSlow(lat) THEN Saturate(rsOver + 1) ELSE 0
       /\ UNCHANGED <<rsBaseline, rsCanary>>

LatencyReason(lat) ==
  IF TooSlow(lat) /\ rsOver + 1 >= Consecutive THEN "Latency" ELSE "none"

Due == rsCount + 1 >= Interval

Degraded(content, free) == content = "error" \/ free # "above"

\* ResidencySampler.sample: corruption speaks at once and leaves the streak alone.
BadStreak(content, free) ==
  CASE content = "other" -> rsBad
    [] content # "other" /\ Degraded(content, free) -> Saturate(rsBad + 1)
    [] OTHER -> 0

ProbeReason(content, free) ==
  CASE content = "other" -> "Corruption"
    [] content # "other" /\ Degraded(content, free) /\ rsBad + 1 >= Consecutive -> "FreeFloor"
    [] OTHER -> "none"

ChooseReason(latency, probe) == IF probe # "none" THEN probe ELSE latency

\* One request served in lat, with the VRAM answering a probe as given.
ResidencyCheck(lat, content, free) ==
  LET probe == IF Due THEN ProbeReason(content, free) ELSE "none"
      trouble == content = "other" \/ Degraded(content, free)
  IN /\ ObserveLatency(lat)
     /\ rsCount' = IF Due THEN 0 ELSE rsCount + 1
     /\ rsBad' = IF Due THEN BadStreak(content, free) ELSE rsBad
     /\ rsVerdict' = ChooseReason(LatencyReason(lat), probe)
     /\ rsRange' = rsRange \cup {lat}
     /\ rsTrouble' = IF trouble /\ rsVerdict' \notin {"Corruption", "FreeFloor"} THEN rsTrouble + 1 ELSE 0
     /\ rsProbes' = CASE ~Due -> rsProbes
                      [] Due /\ content = "other" -> rsProbes
                      [] Due /\ content # "other" /\ Degraded(content, free) -> Saturate(rsProbes + 1)
                      [] OTHER -> 0

RsNext ==
  \E lat \in Latencies, content \in ContentSamples, free \in FreeSamples :
    ResidencyCheck(lat, content, free)

RsSpec == RsInit /\ [][RsNext]_rsVars

-----------------------------------------------------------------------------

\* The detector's state: counters within the limits they are compared with.
RsTypeOK ==
  /\ rsBaseline \in [Latencies -> 0..Baseline]
  /\ rsCanary \subseteq (Latencies \cup {1}) /\ Cardinality(rsCanary) <= 1
  /\ rsOver \in 0..Consecutive /\ rsBad \in 0..Consecutive
  /\ rsCount \in 0..(Interval - 1)
  /\ rsVerdict \in Verdicts /\ rsRange \subseteq Latencies
  /\ rsTrouble \in Nat /\ rsProbes \in 0..Consecutive

\* VRAM that is corrupt, unreadable or nearly full at every request is reported
\* within Consecutive probes, and the report names the VRAM, not the latency
\* (cadence, hysteresis and the choice between two reasons put together).
TroubleIsReported == rsTrouble < Consecutive * Interval

\* A GPU whose latencies all lie within the factor LatencyMult of one another, or
\* of the clock's resolution, is never demoted for being slow, whatever the
\* baseline happened to be.
SteadyIsNotSlow ==
  rsVerdict = "Latency" =>
    \E slow, fast \in rsRange : slow > LatencyMult * (IF fast = 0 THEN 1 ELSE fast)

\* A weak signal demotes only after Consecutive degraded probes with no good one
\* among them ("good sample resets the streak (anti-false-positive)").
WeakSignalsInARow == rsVerdict = "FreeFloor" => rsProbes = Consecutive

-----------------------------------------------------------------------------
(***************************************************************************)
(* Two policies over the VRAM that is left: the governor with its three    *)
(* zones, which lets chunks be allocated again only after a settled stay   *)
(* above the high watermark, and the autotier policy, which admits a chunk *)
(* on a fresh WDDM budget sample and takes a constrained tier through      *)
(* Demoting, Parked and Recovering back to Available.  The daemon performs *)
(* the drain and the return; it reports them with the mark_ calls.         *)
(***************************************************************************)

CONSTANTS
  Settle,             \* settle_duration, in steps of the clock
  MaxBudget,          \* the largest budget, in chunks
  SafetyMargin,       \* safety_margin_bytes, in chunks
  ConstrainedSamples, \* constrained_samples
  RecoverySamples     \* recovery_samples

ASSUME HeadroomAssumption ==
  /\ {Settle, MaxBudget, SafetyMargin, ConstrainedSamples, RecoverySamples} \subseteq Nat \ {0}
  /\ SafetyMargin < MaxBudget

VARIABLES
  hrZone,      \* current_zone of the governor
  hrCandidate, \* age of last_green_candidate: a set of at most one number
  hrAbove,     \* how long ago the current run of samples above the high watermark began
  hrState,     \* state of the autotier policy
  hrConstrained, \* constrained_streak
  hrRecovery,  \* recovery_streak
  hrCommitted, \* chunks the tier holds
  hrUsed,      \* does a swapped page use the tier?
  hrAllowed,   \* what the last observation allowed: a set of at most one sample
  hrGood       \* admitting samples in a row since the tier was parked

hrGovernor == <<hrZone, hrCandidate, hrAbove>>
hrAutotier == <<hrState, hrConstrained, hrRecovery, hrCommitted, hrUsed, hrAllowed, hrGood>>
hrVars == <<hrZone, hrCandidate, hrAbove, hrState, hrConstrained, hrRecovery, hrCommitted, hrUsed,
            hrAllowed, hrGood>>

Zones == {"Green", "Yellow", "Red"}
TierStates == {"Available", "Constrained", "Demoting", "Parked", "Recovering"}
Least(a, b) == IF a < b THEN a ELSE b
Minus(a, b) == IF a > b THEN a - b ELSE 0

\* What one WDDM query returns; stale once it is older than max_sample_age.
BudgetSamples == [budget : 0..MaxBudget, usage : 0..MaxBudget, cuda : 0..MaxBudget, fresh : BOOLEAN]

HrInit ==
  /\ hrZone = "Green" /\ hrCandidate = {} /\ hrAbove = {}
  /\ hrState = "Available" /\ hrConstrained = 0 /\ hrRecovery = 0
  /\ hrCommitted = 0 /\ hrUsed = FALSE /\ hrAllowed = {} /\ hrGood = 0

(***************************************************************************)
(* DynamicHeadroomGovernor.sample: free memory in the range of the given   *)
(* zone, elapsed steps after the sample before.                            *)
(***************************************************************************)
Older(age, elapsed) == IF age = {} THEN 0 ELSE Least(Settle, elapsed + CHOOSE a \in age : TRUE)

Sample(free, elapsed) ==
  LET age == Older(hrCandidate, elapsed)
      settled == free = "Green" /\ (hrZone = "Green" \/ age >= Settle)
  IN /\ hrZone' = CASE free = "Red" -> "Red"
                    [] free = "Yellow" -> IF hrZone = "Green" THEN "Yellow" ELSE hrZone
                    [] free = "Green" -> IF settled THEN "Green" ELSE hrZone
     /\ hrCandidate' = IF free # "Green" \/ settled THEN {} ELSE {age}
     /\ hrAbove' = IF free = "Green" THEN {Older(hrAbove, elapsed)} ELSE {}
     /\ UNCHANGED hrAutotier

(***************************************************************************)
(* AutotierPolicy.                                                         *)
(***************************************************************************)
UsableBudget(s) == Minus(Minus(s.budget, Minus(s.usage, s.cuda)), SafetyMargin)

CommitAllowed(s, committed) == s.fresh /\ committed + 1 <= UsableBudget(s)

\* observe: the streaks stop at their limits, which is all they are compared with.
HrObserve(s) ==
  LET allowed == CommitAllowed(s, hrCommitted)
      constrained == Least(ConstrainedSamples, hrConstrained + 1)
      recovery == Least(RecoverySamples, hrRecovery + 1)
  IN /\ hrState' = CASE hrState = "Available" /\ ~allowed
                          /\ (hrCommitted > UsableBudget(s) \/ constrained >= ConstrainedSamples) -> "Constrained"
                     [] hrState = "Parked" /\ allowed /\ recovery >= RecoverySamples -> "Recovering"
                     [] OTHER -> hrState
     /\ hrConstrained' = IF hrState # "Available" THEN hrConstrained ELSE IF allowed THEN 0 ELSE constrained
     /\ hrRecovery' = IF hrState # "Parked" THEN hrRecovery ELSE IF allowed THEN recovery ELSE 0
     /\ hrAllowed' = IF allowed /\ hrState' = "Available" THEN {s} ELSE {}
     /\ hrGood' = IF hrState # "Parked" THEN hrGood ELSE IF allowed THEN Least(RecoverySamples, hrGood + 1) ELSE 0
     /\ UNCHANGED <<hrCommitted, hrUsed, hrGovernor>>

MarkDemoting ==
  /\ hrState = "Constrained"
  /\ hrState' = "Demoting" /\ hrAllowed' = {}
  /\ UNCHANGED <<hrConstrained, hrRecovery, hrCommitted, hrUsed, hrGood, hrGovernor>>

MarkParked ==
  /\ ~hrUsed /\ hrState \in {"Demoting", "Parked"}
  /\ hrState' = "Parked" /\ hrRecovery' = 0 /\ hrGood' = 0 /\ hrAllowed' = {}
  /\ UNCHANGED <<hrConstrained, hrCommitted, hrUsed, hrGovernor>>

MarkAvailable ==
  /\ ~hrUsed /\ hrState \in {"Recovering", "Available"}
  /\ hrState' = "Available" /\ hrConstrained' = 0 /\ hrAllowed' = {}
  /\ UNCHANGED <<hrRecovery, hrCommitted, hrUsed, hrGood, hrGovernor>>

(***************************************************************************)
(* The daemon around the policy: it takes the chunk the last observation   *)
(* allowed, frees a tier no page uses, and the kernel swaps pages to a     *)
(* tier that is not on its way out.                                        *)
(***************************************************************************)
TakesChunk ==
  /\ hrAllowed # {}
  /\ hrCommitted' = hrCommitted + 1 /\ hrAllowed' = {}
  /\ UNCHANGED <<hrState, hrConstrained, hrRecovery, hrUsed, hrGood, hrGovernor>>

FreesTier ==
  /\ hrState = "Parked" /\ ~hrUsed /\ hrCommitted > 0
  /\ hrCommitted' = 0
  /\ UNCHANGED <<hrState, hrConstrained, hrRecovery, hrUsed, hrAllowed, hrGood, hrGovernor>>

KernelUsesTier ==
  /\ hrUsed' \in {u \in BOOLEAN : u => hrCommitted > 0 /\ hrState \in {"Available", "Constrained"}}
  /\ UNCHANGED <<hrState, hrConstrained, hrRecovery, hrCommitted, hrAllowed, hrGood, hrGovernor>>

HrNext ==
  \/ \E free \in Zones, elapsed \in 0..Settle : Sample(free, elapsed)
  \/ \E s \in BudgetSamples : HrObserve(s)
  \/ MarkDemoting
  \/ MarkParked
  \/ MarkAvailable
  \/ TakesChunk
  \/ FreesTier
  \/ KernelUsesTier

HrSpec == HrInit /\ [][HrNext]_hrVars

-----------------------------------------------------------------------------

\* Zones, states and saturated counters; no sequence of admissions accumulates more
\* chunks than the largest budget leaves beside the margin, and a parked tier holds
\* no swapped page.
HrTypeOK ==
  /\ hrZone \in Zones /\ Cardinality(hrCandidate) <= 1 /\ hrCandidate \subseteq 0..Settle
  /\ hrAbove \subseteq 0..Settle
  /\ hrState \in TierStates
  /\ hrConstrained \in 0..ConstrainedSamples /\ hrRecovery \in 0..RecoverySamples
  /\ hrCommitted \in 0..(MaxBudget - SafetyMargin) /\ hrUsed \in BOOLEAN
  /\ hrState \in {"Parked", "Recovering"} => ~hrUsed
  /\ hrAllowed \subseteq BudgetSamples /\ hrGood \in 0..RecoverySamples

\* Once the governor left Green, allocation is allowed again only after the free
\* memory was at or above the high watermark at every sample of a whole settle
\* period ("settle damping"), however the samples fell before.
GreenIsSettled == [][hrZone # "Green" /\ hrZone' = "Green" => hrAbove' = {Settle}]_hrVars

\* A chunk is taken only where the sample that allowed it has room, beside what the
\* rest of the host uses, for the whole tier, the new chunk and the safety margin.
ChunksFitTheBudget ==
  [][\A s \in hrAllowed : hrCommitted' > hrCommitted => s.budget >= Minus(s.usage, s.cuda) + hrCommitted' + SafetyMargin]_hrVars

\* A tier that was drained comes back only empty and after RecoverySamples samples
\* in a row, since it was parked, that would have admitted a chunk.
ReturnsRecovered ==
  [][hrState # "Available" /\ hrState' = "Available" => ~hrUsed /\ hrGood = RecoverySamples]_hrVars

-----------------------------------------------------------------------------
(***************************************************************************)
(* The readiness policy of the WSL2 NBD product (evaluate_product), with   *)
(* the host it judges: gates that come and go, the daemon and the swap,    *)
(* and an operator whose operation is carried out exactly when the policy  *)
(* permits it.  Bytes are counted in small units and u64 ends at MaxU64.   *)
(***************************************************************************)

CONSTANTS
  MaxU64,    \* the largest u64
  MinMargin, \* MIN_LOWER_TIER_MARGIN_BYTES
  VramSizes, \* the configured tier sizes
  FreeSizes  \* the free capacities of the lower tier a sample may show

ASSUME NbdReadinessAssumption ==
  /\ {MaxU64, MinMargin} \subseteq Nat
  /\ VramSizes \subseteq 0..MaxU64 /\ FreeSizes \subseteq 0..MaxU64

VARIABLES
  nrHost,    \* what an observation of the host shows, see HostStates
  nrVram,    \* the configured size
  nrDecision \* the last decision: the reason, and whether a mutation is permitted

nrVars == <<nrHost, nrVram, nrDecision>>

Gates == {"Pass", "Fail", "Unknown", "NotApplicable"}
Operations == {"ReadOnly", "Install", "Activate", "Deactivate", "RetireLegacyUblk"}
\* A capacity sample: no sink, an old measurement, two candidates, a free size that
\* is not a multiple of the alignment, or the free size of the one sink.
Unmeasured == {"Unknown", "Stale", "Ambiguous", "Misaligned"}
CapacitySamples == [sink : Unmeasured, free : {0}] \cup [sink : {"Known"}, free : FreeSizes]

HostStates ==
  [transport : {"Nbd", "None"}, swap : BOOLEAN, daemon : BOOLEAN, legacy : BOOLEAN,
   release : Gates, relay : Gates, binary : Gates, capacity : CapacitySamples]

Refusals ==
  {"TransportMustBeNbd", "LegacyUblkProductActive", "NbdLifecycleIncomplete", "ReleaseGate",
   "RelayGate", "BinaryMatch", "InvalidVramSize", "CapacityOverflow", "LowerTierSink",
   "LowerTierAlignmentInvalid", "LowerTierShortfall", "ApprovalMissing", "RebootRequested"}

NrInit ==
  /\ nrHost \in {h \in HostStates : ~h.swap /\ ~h.daemon /\ h.transport = "None"
                                    /\ h.relay = "Pass" /\ h.release = "Pass" /\ h.binary = "NotApplicable"}
  /\ nrVram \in VramSizes
  /\ nrDecision = [reason |-> "NotEvaluated", permitted |-> FALSE]

(***************************************************************************)
(* minimum_lower_tier_bytes and validate_lower_tier_capacity: {} stands    *)
(* for the refusals that concern the arithmetic.                           *)
(***************************************************************************)
\* Mutant: the tenth is rounded down.
MinimumTruncated(vram) ==
  LET margin == IF vram \div 10 > MinMargin THEN vram \div 10 ELSE MinMargin
  IN IF vram = 0 \/ vram + margin > MaxU64 THEN {} ELSE {vram + margin}

MinimumLowerTier(vram) ==
  LET tenPercent == vram \div 10 + (IF vram % 10 = 0 THEN 0 ELSE 1)
      margin == IF tenPercent > MinMargin THEN tenPercent ELSE MinMargin
  IN IF vram = 0 \/ vram + margin > MaxU64 THEN {} ELSE {vram + margin}

CapacityRefusal(vram, sample) ==
  CASE vram = 0 -> {"InvalidVramSize"}
    [] vram # 0 /\ MinimumLowerTier(vram) = {} -> {"CapacityOverflow"}
    [] vram # 0 /\ MinimumLowerTier(vram) # {} /\ sample.sink \in {"Unknown", "Stale", "Ambiguous"} ->
         {"LowerTierSink"}
    [] vram # 0 /\ MinimumLowerTier(vram) # {} /\ sample.sink = "Misaligned" ->
         {"LowerTierAlignmentInvalid"}
    [] OTHER -> IF \E needed \in MinimumLowerTier(vram) : sample.free < needed
                THEN {"LowerTierShortfall"} ELSE {}

GateRefusal(gate, reason) == IF gate = "Pass" THEN {} ELSE {reason}

BinaryRefusal(gate, running) ==
  IF gate = "Pass" \/ (gate = "NotApplicable" /\ ~running) THEN {} ELSE {"BinaryMatch"}

\* The swap and the daemon are there together or not at all.
LifecycleRefusal(h) == IF h.swap # h.daemon THEN {"NbdLifecycleIncomplete"} ELSE {}

Blocked(reason) == [reason |-> reason, permitted |-> FALSE]
NrAccepted(reason, op) == [reason |-> reason, permitted |-> op # "ReadOnly"]

\* The refusals of evaluate_product in the order it tries them.
RefusalsInOrder(h, vram, op, approved, reboot) ==
  <<IF reboot THEN {"RebootRequested"} ELSE {},
    IF op # "ReadOnly" /\ ~approved THEN {"ApprovalMissing"} ELSE {},
    IF h.legacy THEN {"LegacyUblkProductActive"} ELSE {},
    LifecycleRefusal(h),
    IF h.swap /\ h.transport # "Nbd" THEN {"TransportMustBeNbd"} ELSE {},
    GateRefusal(h.release, "ReleaseGate"),
    CapacityRefusal(vram, h.capacity),
    GateRefusal(h.relay, "RelayGate"),
    BinaryRefusal(h.binary, h.daemon)>>

EvaluateProduct(h, vram, op, approved, reboot) ==
  LET refusals == RefusalsInOrder(h, vram, op, approved, reboot)
      refusing == {i \in DOMAIN refusals : refusals[i] # {}}
      first == CHOOSE i \in refusing : \A j \in refusing : i <= j
  IN IF refusing # {}
     THEN Blocked(CHOOSE r \in refusals[first] : TRUE)
     ELSE NrAccepted(IF h.swap THEN "AllGatesPass" ELSE "ProductOff", op)

\* What the outer lifecycle does with a permitted operation.
Applied(h, op) ==
  CASE op = "Activate" -> [h EXCEPT !.swap = TRUE, !.daemon = TRUE, !.transport = "Nbd", !.binary = "Pass"]
    [] op = "Deactivate" ->
         [h EXCEPT !.swap = FALSE, !.daemon = FALSE, !.transport = "None", !.binary = "NotApplicable"]
    [] op = "Install" -> [h EXCEPT !.release = "Pass", !.binary = IF h.daemon THEN "Fail" ELSE @]
    [] OTHER -> [h EXCEPT !.legacy = FALSE]

Operate(op, approved, reboot) ==
  LET decision == EvaluateProduct(nrHost, nrVram, op, approved, reboot)
  IN /\ nrDecision' = decision
     /\ nrHost' = IF decision.permitted THEN Applied(nrHost, op) ELSE nrHost
     /\ UNCHANGED nrVram

\* The host between two observations: one thing at a time changes.
HostChanges ==
  /\ \/ \E g \in Gates : nrHost' = [nrHost EXCEPT !.release = g]
     \/ \E g \in Gates : nrHost' = [nrHost EXCEPT !.relay = g]
     \/ \E g \in {"Fail", "Unknown"} : nrHost.daemon /\ nrHost' = [nrHost EXCEPT !.binary = g]
     \/ \E c \in CapacitySamples : nrHost' = [nrHost EXCEPT !.capacity = c]
     \/ nrHost' = [nrHost EXCEPT !.daemon = FALSE]
     \/ nrHost' = [nrHost EXCEPT !.swap = FALSE]
     \/ nrHost' = [nrHost EXCEPT !.legacy = TRUE]
  /\ nrDecision' = [reason |-> "NotEvaluated", permitted |-> FALSE]
  /\ UNCHANGED nrVram

NrNext ==
  \/ \E op \in Operations, approved, reboot \in BOOLEAN : Operate(op, approved, reboot)
  \/ HostChanges

NrSpec == NrInit /\ [][NrNext]_nrVars

-----------------------------------------------------------------------------

\* A decision names one reason, and a refusal permits nothing.
NrTypeOK ==
  /\ nrHost \in HostStates /\ nrVram \in VramSizes
  /\ nrDecision.reason \in Refusals \cup {"NotEvaluated", "AllGatesPass", "ProductOff"}
  /\ nrDecision.permitted => nrDecision.reason \in {"AllGatesPass", "ProductOff"}

\* An operation reaches the host only while one exact, current lower tier has room
\* for the whole tier and a tenth of it (or the fixed margin), computed without the
\* wrap-around of 64-bit addition: what is swapped to VRAM can always be drained.
MutatesOnlyDrainable ==
  [][nrDecision'.permitted => /\ nrHost.capacity.sink = "Known" /\ nrVram > 0
                              /\ 10 * nrHost.capacity.free >= 11 * nrVram
                              /\ nrHost.capacity.free >= nrVram + MinMargin]_nrVars

\* A half product (a swap without its daemon, or a daemon without its swap) is never
\* operated on: the policy waits for the host to be repaired by hand.
HalfProductIsLeftAlone ==
  [][nrHost.swap # nrHost.daemon /\ nrDecision'.reason # "NotEvaluated" => nrHost' = nrHost]_nrVars

-----------------------------------------------------------------------------
\* What each of the three policies promises, together.
ResidencySafe == RsTypeOK /\ TroubleIsReported /\ SteadyIsNotSlow /\ WeakSignalsInARow

PoliciesContract ==
  /\ [](ResidencySafe /\ HrTypeOK /\ NrTypeOK)
  /\ GreenIsSettled /\ ChunksFitTheBudget /\ ReturnsRecovered
  /\ MutatesOnlyDrainable /\ HalfProductIsLeftAlone

(***************************************************************************)
(* The elastic cooperative cache (ElasticVramCache): VRAM chunks allocated *)
(* on the first write, given up for good ("spilled") on eviction, on a DMA *)
(* error or timeout and when the budget is reached, and a watchdog that    *)
(* turns the whole cache off and on again.  The origin below it is         *)
(* authoritative; a caller writes the origin first, then the cache.        *)
(***************************************************************************)
CONSTANTS
  EcChunks,     \* chunk indices
  EcOffsets,    \* sectors of a chunk
  EcMaxChunks,  \* max_vram_bytes, in chunks
  EcMaxValue    \* bound: values written to a sector

ASSUME ElasticAssumption ==
  /\ IsFiniteSet(EcChunks) /\ IsFiniteSet(EcOffsets)
  /\ EcMaxChunks \in Nat /\ EcMaxValue \in Nat \ {0}

VARIABLES
  ecOrigin,   \* the origin's sectors
  ecMem,      \* per chunk, its VRAM: a set of at most one content
  ecSpilled,  \* chunks marked spilled_to_ssd
  ecOlder,    \* pairs <<c, d>>: c was last accessed before d
  ecState,    \* CacheState: "Active" or "Unavailable"
  ecTripped,  \* the watchdog
  ecKnown     \* history: sectors whose last origin write the cache accepted

ecVars == <<ecOrigin, ecMem, ecSpilled, ecOlder, ecState, ecTripped, ecKnown>>

EcSectors == EcChunks \X EcOffsets
Contents == [EcOffsets -> 0 .. EcMaxValue]

EcTypeOK ==
  /\ ecOrigin \in [EcSectors -> 0 .. EcMaxValue]
  /\ \A c \in EcChunks : ecMem[c] \subseteq Contents /\ Cardinality(ecMem[c]) <= 1
  /\ ecSpilled \subseteq EcChunks
  /\ ecOlder \subseteq EcChunks \X EcChunks /\ \A c \in EcChunks : <<c, c>> \notin ecOlder
  /\ ecState \in {"Active", "Unavailable"}
  /\ ecTripped \in BOOLEAN
  /\ ecKnown \subseteq EcSectors

EcInit ==
  /\ ecOrigin = [s \in EcSectors |-> EcMaxValue]
  /\ ecMem = [c \in EcChunks |-> {}]
  /\ ecSpilled = {} /\ ecOlder = {} /\ ecKnown = {}
  /\ ecState = "Active" /\ ecTripped = FALSE

Resident == {c \in EcChunks : ecMem[c] # {} /\ c \notin ecSpilled}
ServesHits == ecState = "Active" /\ ~ecTripped

\* The chunk becomes the most recently accessed one.
Touched(c) ==
  ecOlder' = {p \in ecOlder : p[1] # c} \cup {<<d, c>> : d \in EcChunks \ {c}}

(***************************************************************************)
(* read.  It hits on any offset of a resident chunk.                       *)
(***************************************************************************)
WouldHit(s) == ServesHits /\ s[1] \in Resident

EcReadHit(s) ==
  /\ WouldHit(s)
  /\ Touched(s[1])
  /\ UNCHANGED <<ecOrigin, ecMem, ecSpilled, ecState, ecTripped, ecKnown>>

\* The DMA fails or takes more than dma_timeout: a miss; the memory is kept.
EcReadFails(s) ==
  /\ WouldHit(s)
  /\ ecTripped' = TRUE /\ ecSpilled' = ecSpilled \cup {s[1]}
  /\ UNCHANGED <<ecOrigin, ecMem, ecOlder, ecState, ecKnown>>

(***************************************************************************)
(* update, after the origin took value v in sector s; promote is the same  *)
(* with the value the origin holds.                                        *)
(***************************************************************************)
OriginTakes(s, v) == ecOrigin' = [ecOrigin EXCEPT ![s] = v]

Admits == Cardinality(Resident) + 1 <= EcMaxChunks

\* The chunk's content before the write: a new chunk is zeroed, but an error of
\* that is ignored and leaves what the memory held.
Before(c) == IF ecMem[c] = {} THEN Contents ELSE ecMem[c]

\* Mutant: a new chunk is not given the data.
AcceptedUncopied(s, v) ==
  /\ ServesHits /\ s[1] \notin ecSpilled
  /\ ecMem[s[1]] # {} \/ Admits
  /\ OriginTakes(s, v)
  /\ \E m \in Before(s[1]) :
       ecMem' = [ecMem EXCEPT ![s[1]] = {IF @ = {} THEN m ELSE [m EXCEPT ![s[2]] = v]}]
  /\ Touched(s[1])
  /\ ecKnown' = ecKnown \cup {s}
  /\ UNCHANGED <<ecSpilled, ecState, ecTripped>>

EcAccepted(s, v) ==
  /\ ServesHits /\ s[1] \notin ecSpilled
  /\ ecMem[s[1]] # {} \/ Admits
  /\ OriginTakes(s, v)
  /\ \E m \in Before(s[1]) : ecMem' = [ecMem EXCEPT ![s[1]] = {[m EXCEPT ![s[2]] = v]}]
  /\ Touched(s[1])
  /\ ecKnown' = ecKnown \cup {s}
  /\ UNCHANGED <<ecSpilled, ecState, ecTripped>>

\* Off, tripped or spilled: the cache is not touched.
EcSkipped(s, v) ==
  /\ ~ServesHits \/ s[1] \in ecSpilled
  /\ OriginTakes(s, v)
  /\ ecKnown' = ecKnown \ {s}
  /\ UNCHANGED <<ecMem, ecSpilled, ecOlder, ecState, ecTripped>>

\* No budget for a new chunk, or no allocation: the chunk is spilled.
EcNoRoom(s, v) ==
  /\ ServesHits /\ s[1] \notin ecSpilled /\ ecMem[s[1]] = {}
  /\ OriginTakes(s, v)
  /\ ecSpilled' = ecSpilled \cup {s[1]}
  /\ ecKnown' = ecKnown \ {s}
  /\ UNCHANGED <<ecMem, ecOlder, ecState, ecTripped>>

\* The DMA fails or is late; whether the bytes arrived is not known.
EcWriteFails(s, v) ==
  /\ ServesHits /\ s[1] \notin ecSpilled
  /\ ecMem[s[1]] # {} \/ Admits
  /\ OriginTakes(s, v)
  /\ \E m \in Before(s[1]), arrived \in BOOLEAN :
       ecMem' = [ecMem EXCEPT ![s[1]] = {IF arrived THEN [m EXCEPT ![s[2]] = v] ELSE m}]
  /\ ecTripped' = TRUE /\ ecSpilled' = ecSpilled \cup {s[1]}
  /\ ecKnown' = ecKnown \ {s}
  /\ UNCHANGED <<ecOlder, ecState>>

EcUpdate(s, v) == EcAccepted(s, v) \/ EcSkipped(s, v) \/ EcNoRoom(s, v) \/ EcWriteFails(s, v)

EcPromote(s) == EcUpdate(s, ecOrigin[s])

(***************************************************************************)
(* evict_coldest_chunks: E is the coldest resident chunks.  EcChunks never   *)
(* compared are equally old.                                               *)
(***************************************************************************)
Coldest(E) == E \subseteq Resident /\ \A c \in E, d \in Resident \ E : <<d, c>> \notin ecOlder

EcEvict(E) ==
  /\ E # {} /\ Coldest(E)
  /\ ecMem' = [c \in EcChunks |-> IF c \in E THEN {} ELSE ecMem[c]]
  /\ ecSpilled' = ecSpilled \cup E
  /\ UNCHANGED <<ecOrigin, ecOlder, ecState, ecTripped, ecKnown>>

EcTrip ==
  /\ ecTripped' = TRUE
  /\ UNCHANGED <<ecOrigin, ecMem, ecSpilled, ecOlder, ecState, ecKnown>>

EcReset ==
  /\ ecTripped' = FALSE
  /\ UNCHANGED <<ecOrigin, ecMem, ecSpilled, ecOlder, ecState, ecKnown>>

EcDisable ==
  /\ ecState' = "Unavailable"
  /\ ecMem' = [c \in EcChunks |-> {}] /\ ecSpilled' = EcChunks
  /\ UNCHANGED <<ecOrigin, ecOlder, ecTripped, ecKnown>>

EcNext ==
  \/ \E s \in EcSectors :
       \/ EcReadHit(s) \/ EcReadFails(s) \/ EcPromote(s)
       \/ \E v \in 1 .. EcMaxValue : EcUpdate(s, v)
  \/ \E E \in SUBSET EcChunks : EcEvict(E)
  \/ EcTrip \/ EcReset \/ EcDisable

EcSpec == EcInit /\ [][EcNext]_ecVars

(***************************************************************************)
(* Properties.                                                             *)
(***************************************************************************)
\* The chunks the cache counts as resident never exceed its budget, whatever
\* mixture of allocations, evictions and watchdog resets (update's check).
CountedWithinMax == Cardinality(Resident) <= EcMaxChunks

\* A sector whose last origin write the cache accepted reads back that value for
\* as long as it hits: no later eviction, spill, reset or reallocation serves
\* another one (read, update, evict_coldest_chunks, reset_watchdog).
AcceptedReadsBack ==
  \A s \in ecKnown : WouldHit(s) => \A m \in ecMem[s[1]] : m[s[2]] = ecOrigin[s]

\* A chunk once given up is never served or filled again, also after the watchdog
\* is reset: its content may be older than the origin's (spilled_to_ssd).
SpilledIsFinal == [][ ecSpilled \subseteq ecSpilled' /\ \A c \in ecSpilled : ecMem'[c] \subseteq ecMem[c] ]_ecVars

\* What eviction takes away was not used more recently than what it leaves.
EvictionLeavesWarmer ==
  [][ \A c, d \in EcChunks :
        (ecMem[c] # {} /\ ecMem'[c] = {} /\ ecState' = ecState /\ d \in Resident') =>
          <<d, c>> \notin ecOlder ]_ecVars

\* Every hit returns the origin's value.  Not so: a hit needs only the chunk to be
\* resident, so a sector of it that was never written reads as zero or worse, and one whose
\* update was skipped while the watchdog was tripped reads as its old value.
HitsAreFresh ==
  \A s \in EcSectors : WouldHit(s) => \A m \in ecMem[s[1]] : m[s[2]] = ecOrigin[s]

\* The VRAM held never exceeds max_vram_bytes.  Not so: a chunk spilled by a DMA
\* error keeps its memory and is no longer counted.
HeldWithinMax == Cardinality({c \in EcChunks : ecMem[c] # {}}) <= EcMaxChunks

\* The promises that hold, together.
EcContract == [](EcTypeOK /\ CountedWithinMax /\ AcceptedReadsBack) /\ SpilledIsFinal /\ EvictionLeavesWarmer
=============================================================================
