---------------------------- MODULE GpuCachePolicy ----------------------------
(***************************************************************************)
(* How many VRAM chunks the clean cache holds: observe_gpu of              *)
(* WriteThroughCacheBackend with its sample streaks, growth interval and   *)
(* stuck timer (crates/ramshared-block/src/origin_cache.rs).  All amounts  *)
(* of memory are in chunks.  The data in the chunks is in OriginCache.     *)
(***************************************************************************)
EXTENDS Integers, Sequences, FiniteSets, SequencesExt

CONSTANTS GcChunks,
          GcSamples,          \* GPU readings: [budget, external, total]
          Pauses,           \* seconds that may pass between two readings
          MinReserve,       \* the 2 GiB floor of the headroom
          HealthyToGrow,    \* HEALTHY_SAMPLES_TO_GROW
          RestrictedToReclaim,
          GrowthInterval, StuckAfter

ASSUME PolicyAssumption ==
    /\ GcChunks \subseteq Nat /\ IsFiniteSet(GcChunks)
    /\ GcSamples \subseteq [budget : Nat, external : Nat, total : Nat]
    /\ Pauses \subseteq Nat
    /\ {MinReserve, HealthyToGrow, RestrictedToReclaim, GrowthInterval, StuckAfter} \subseteq Nat

VARIABLES
    lru,           \* the chunks with memory, the least recently used first
    gcTarget,        \* target_bytes
    cap,           \* physical_cap_bytes
    healthy,       \* healthy_samples, counted up to HealthyToGrow
    restricted,    \* restricted_samples
    sinceGrowth,   \* seconds since last_growth_at, up to GrowthInterval
    overFor,       \* seconds since over_target_since, NotOver when unset
    cacheState,
    sample,        \* the last reading, Missing when there was none
    overRun        \* readings in a row that left the cache above its target

streaks == <<healthy, restricted>>
timers == <<sinceGrowth, overFor>>
gcVars == <<lru, gcTarget, cap, streaks, timers, cacheState, sample, overRun>>

GcPool == INSTANCE ChunkPool WITH Chunks <- GcChunks, live <- ToSet(lru), target <- gcTarget

GcMissing == [budget |-> 0, external |-> 0, total |-> 0]
NotOver == -1

AtMost(a, b) == IF a <= b THEN a ELSE b
AtLeast(a, b) == IF a >= b THEN a ELSE b
SaturatingSub(a, b) == AtLeast(a - b, 0)

-----------------------------------------------------------------------------
\* The headroom kept for the desktop: a fifth of the VRAM, rounded up.
Reserve(g) == AtLeast((g.total + 4) \div 5, MinReserve)

\* Mutant: a missing reading leaves the target as it was.
TargetKeptWhenMissing(g) ==
    IF g = GcMissing THEN gcTarget
    ELSE AtMost(SaturatingSub(SaturatingSub(g.budget, g.external), Reserve(g)), cap)

\* physical_target_bytes: nothing at all without a reading.
PhysicalTarget(g) ==
    IF g = GcMissing THEN 0
    ELSE AtMost(SaturatingSub(SaturatingSub(g.budget, g.external), Reserve(g)), cap)

Restricted(g, t) == g = GcMissing \/ t < Len(lru) \/ t < 1

\* release_lru_to
ReleaseLruTo(t) == IF Len(lru) > t THEN SubSeq(lru, Len(lru) - t + 1, Len(lru)) ELSE lru

\* allocate_one_chunk: the first chunk without memory becomes the most recent.
AllocateOneChunk ==
    LET free == GcChunks \ ToSet(lru)
    IN IF free = {} THEN lru
       ELSE Append(lru, CHOOSE c \in free : \A k \in free : c <= k)

\* What observe_gpu does to the streaks; the reclaim streak restarts once used.
CountSample(isRestricted, reclaims) ==
    IF isRestricted
    THEN /\ healthy' = 0
         /\ restricted' = IF reclaims THEN 0 ELSE restricted + 1
    ELSE /\ healthy' = AtMost(healthy + 1, HealthyToGrow)
         /\ restricted' = 0

\* The stuck timer runs while the cache is more than a chunk above its target.
StuckTimer(pause, excess) ==
    overFor' = IF excess <= 1 THEN NotOver
               ELSE IF overFor = NotOver THEN 0
               ELSE AtMost(overFor + pause, StuckAfter + 1)

\* observe_gpu with the reading g, pause seconds after the one before;
\* allocates says whether the device would grant a chunk.
GcObserveGpu(g, pause, allocates) ==
    LET t == PhysicalTarget(g)
        isRestricted == Restricted(g, t)
        reclaims == isRestricted /\ restricted + 1 >= RestrictedToReclaim
        elapsed == AtMost(sinceGrowth + pause, GrowthInterval)
        grows == /\ ~isRestricted
                 /\ healthy + 1 >= HealthyToGrow
                 /\ Len(lru) + 1 <= t
                 /\ elapsed >= GrowthInterval
    IN /\ sample' = g
       /\ gcTarget' = t
       /\ CountSample(isRestricted, reclaims)
       /\ lru' = IF reclaims THEN ReleaseLruTo(t)
                 ELSE IF grows /\ allocates THEN AllocateOneChunk ELSE lru
       /\ sinceGrowth' = IF grows THEN 0 ELSE elapsed
       /\ StuckTimer(pause, SaturatingSub(Len(lru'), t))
       /\ cacheState' = IF overFor' > StuckAfter THEN "Stuck"
                        ELSE IF g = GcMissing \/ (grows /\ ~allocates) THEN "Unavailable"
                        ELSE IF isRestricted THEN "Restricted" ELSE "Active"
       /\ overRun' = IF Len(lru') > t THEN overRun + 1 ELSE 0
       /\ UNCHANGED cap

\* set_physical_cap_bytes: it counts from the next reading on.
SetPhysicalCap(bytes) ==
    /\ cap' = AtMost(bytes, Cardinality(GcChunks))
    /\ UNCHANGED <<lru, gcTarget, streaks, timers, cacheState, sample, overRun>>

\* cache_read and update_cached_chunks stamp the chunk with the access clock.
Touch(c) ==
    /\ c \in ToSet(lru)
    /\ lru' = Append(SelectSeq(lru, LAMBDA k : k # c), c)
    /\ UNCHANGED <<gcTarget, cap, streaks, timers, cacheState, sample, overRun>>

\* release_cache
GcReleaseCache ==
    /\ lru' = << >>
    /\ cacheState' = "Off"
    /\ overRun' = 0
    /\ UNCHANGED <<gcTarget, cap, streaks, timers, sample>>

GcInit ==
    /\ lru = << >> /\ gcTarget = 0 /\ cap = Cardinality(GcChunks)
    /\ healthy = 0 /\ restricted = 0
    /\ sinceGrowth = GrowthInterval /\ overFor = NotOver
    /\ cacheState = "Off"
    /\ sample = GcMissing /\ overRun = 0

GcObserve ==
    \E g \in GcSamples \cup {GcMissing}, pause \in Pauses, allocates \in BOOLEAN :
        GcObserveGpu(g, pause, allocates)

GcNext ==
    \/ GcObserve
    \/ \E c \in GcChunks : Touch(c)
    \/ \E bytes \in 0..(Cardinality(GcChunks) + 1) : SetPhysicalCap(bytes)
    \/ GcReleaseCache

\* The daemon samples the GPU for as long as it runs.
GcSpec == GcInit /\ [][GcNext]_gcVars /\ WF_gcVars(GcObserve)

-----------------------------------------------------------------------------
GcTypeOK ==
    /\ lru \in Seq(GcChunks) /\ IsInjective(lru)
    /\ gcTarget \in 0..Cardinality(GcChunks) /\ cap \in 0..Cardinality(GcChunks)
    /\ healthy \in 0..HealthyToGrow
    /\ restricted \in 0..(RestrictedToReclaim - 1)
    /\ sinceGrowth \in 0..GrowthInterval
    /\ overFor \in NotOver..(StuckAfter + 1)
    /\ cacheState \in {"Off", "Active", "Restricted", "Unavailable", "Stuck"}
    /\ sample \in GcSamples \cup {GcMissing}

\* The cache gives VRAM back in bounded time: there are never as many readings
\* in a row as RESTRICTED_SAMPLES_TO_RECLAIM after which it is above its target,
\* however the readings jump about and whatever is touched in between.
OvershootBounded == overRun < RestrictedToReclaim

\* Growth never eats into the headroom: the reading a chunk is added under
\* leaves room for the whole cache, the other users and the reserve.
GrowthKeepsHeadroom ==
    [][Len(lru') > Len(lru) =>
          Len(lru') + sample'.external + Reserve(sample') <= sample'.budget]_gcVars

\* When GPU readings stop coming, the cache is given up.
LostTelemetryEmptiesCache == <>[](sample = GcMissing) => <>[](lru = << >>)

\* The sampling policy only ever does to the chunks what the data path of
\* OriginCache is proved to stand.
ImplementsChunkPool == GcPool!Spec

\* What observe_gpu promises, together.
GcContract ==
    [](GcTypeOK /\ OvershootBounded) /\ GrowthKeepsHeadroom /\ LostTelemetryEmptiesCache /\ ImplementsChunkPool
=============================================================================
