----------------------------- MODULE OriginCache -----------------------------
(***************************************************************************)
(* WriteThroughCacheBackend: a clean, revocable VRAM cache over the        *)
(* authoritative SSD origin (crates/ramshared-block/src/origin_cache.rs).  *)
(*                                                                         *)
(* A request names a set of addresses; a sector is the finest unit a       *)
(* request may split, blocks are the units of validity and chunks the      *)
(* units of VRAM allocation.  The origin is a file behind a volatile       *)
(* buffer: origin[s] is what reading it returns, survivors[s] what may be  *)
(* left of s after a power loss (see BlockDevice).                         *)
(***************************************************************************)
EXTENDS Naturals, FiniteSets

CONSTANTS Sectors, Values, Ranges, Blocks, Chunks,
          Zero,               \* what a zeroed sector holds
          BlockOf,            \* the block a sector is in
          ChunkOf,            \* the chunk a block is in
          ProbesToReady,      \* good probes that end an origin outage (3)
          ProbeSyncMayLose    \* can the failed sync of a probe drop data?

ASSUME GeometryAssumption ==
    /\ BlockOf \in [Sectors -> Blocks]
    /\ ChunkOf \in [Blocks -> Chunks]
    /\ Chunks \subseteq Nat /\ IsFiniteSet(Chunks)
    /\ Zero \in Values
    /\ \A b \in Blocks : \E s \in Sectors : BlockOf[s] = b

ASSUME ProbesAssumption ==
    /\ ProbesToReady \in Nat
    /\ ProbesToReady >= 2
    /\ ProbeSyncMayLose \in BOOLEAN

VARIABLES
    origin, survivors,   \* the origin file and its write buffer
    live, target,        \* chunks with memory; the GPU target in chunks
    cached,              \* the VRAM contents, by sector
    valid,               \* blocks marked valid
    current,             \* chunks whose validity_generation = generation
    originState, probes, \* origin_state, origin_probe_successes
    dirty,               \* origin_dirty
    reply                \* what the last request returned

originVars == <<origin, survivors>>
cacheVars == <<live, target, cached, valid, current>>
healthVars == <<originState, probes>>
vars == <<originVars, cacheVars, healthVars, dirty, reply>>

Device == INSTANCE BlockDevice WITH contents <- origin
Pool == INSTANCE ChunkPool

-----------------------------------------------------------------------------
(* Geometry *)

Chunk(s) == ChunkOf[BlockOf[s]]

TouchedChunks(R) == {Chunk(s) : s \in R}

BlocksIn(C) == {b \in Blocks : ChunkOf[b] \in C}

\* Mutant: a block that the range only touches is marked as if covered.
CoveredInPart(R) == {BlockOf[s] : s \in R}

\* mark_fully_covered_blocks: the blocks that lie wholly inside the range.
FullyCovered(R) == {b \in Blocks : \A s \in Sectors : BlockOf[s] = b => s \in R}

\* range_is_cached, for one sector.
Readable(s) ==
    /\ Chunk(s) \in live
    /\ Chunk(s) \in current
    /\ BlockOf[s] \in valid

RangeIsCached(R) == \A s \in R : Readable(s)

CheckRange(R) == R \subseteq Sectors

-----------------------------------------------------------------------------
(* The cache side.  Each operator says what becomes of cached, valid and   *)
(* current, starting from the given valid blocks v and current chunks cur. *)

\* invalidate_chunk for every chunk of C.
Invalidate(C, v, cur) ==
    /\ valid' = v \ BlocksIn(C)
    /\ current' = cur \ C
    /\ UNCHANGED <<cached, live, target>>

\* update_cached_chunks: every live chunk of the range takes the data; a chunk
\* whose device write fails, perhaps half-way, is invalidated.  A chunk that
\* was not current loses its old validity first.
UpdateCachedChunks(R, d, v, cur) ==
    \E failed \in SUBSET (TouchedChunks(R) \cap live) :
    \E landed \in SUBSET {s \in R : Chunk(s) \in failed} :
        LET good == (TouchedChunks(R) \cap live) \ failed
        IN /\ cached' = [s \in Sectors |->
                           IF s \in R /\ (Chunk(s) \in good \/ s \in landed)
                           THEN d[s] ELSE cached[s]]
           /\ valid' = (v \ BlocksIn(failed \cup (good \ cur)))
                          \cup (FullyCovered(R) \cap BlocksIn(good))
           /\ current' = (cur \ failed) \cup good
           /\ UNCHANGED <<live, target>>

-----------------------------------------------------------------------------
(* The origin side *)

MarkOriginFailed == originState' = "Failed" /\ probes' = 0

AllDurable == \A s \in Sectors : survivors[s] = {origin[s]}

Refuse ==
    /\ reply' = Device!Refused
    /\ UNCHANGED <<originVars, cacheVars, healthVars, dirty>>

-----------------------------------------------------------------------------
(* The operations *)

\* check_range and require_ready_origin turn the request away.
Rejected(R) == ~CheckRange(R) \/ originState # "Ready"

RejectRequest(R) == Rejected(R) /\ Refuse

EmptyRequest(R) ==
    /\ ~Rejected(R)
    /\ R = {}
    /\ reply' = Device!Acknowledged
    /\ UNCHANGED <<originVars, cacheVars, healthVars, dirty>>

Accepted(R) == ~Rejected(R) /\ R # {}

\* read_at, every block of the range valid in the cache.
ReadCached(R) ==
    /\ Accepted(R)
    /\ RangeIsCached(R)
    /\ reply' = Device!Returned(R, cached)
    /\ UNCHANGED <<originVars, cacheVars, healthVars, dirty>>

\* The chunks read_at invalidates before it falls back to the origin: none
\* when the range is not cached, else the one whose device read failed.
Unreadable(R) ==
    IF RangeIsCached(R) THEN {{c} : c \in TouchedChunks(R)} ELSE {{}}

\* read_at from the origin; the data is promoted while the cache is within
\* its target.
ReadOrigin(R) ==
    /\ Accepted(R)
    /\ \E bad \in Unreadable(R) :
          IF Cardinality(live) <= target
          THEN UpdateCachedChunks(R, origin, valid \ BlocksIn(bad), current \ bad)
          ELSE Invalidate(bad, valid, current)
    /\ reply' = Device!Returned(R, origin)
    /\ UNCHANGED <<originVars, healthVars, dirty>>

ReadOriginFails(R) ==
    /\ Accepted(R)
    /\ \E bad \in Unreadable(R) : Invalidate(bad, valid, current)
    /\ MarkOriginFailed
    /\ reply' = Device!Refused
    /\ UNCHANGED <<originVars, dirty>>

\* write_at: the origin first, then the cache.
WriteAt(R, d) ==
    /\ Accepted(R)
    /\ origin' = Device!Written(R, d)
    /\ survivors' = Device!Candidates(R, d)
    /\ dirty' = TRUE
    /\ UpdateCachedChunks(R, d, valid, current)
    /\ reply' = Device!Acknowledged
    /\ UNCHANGED healthVars

\* write_origin fails with part of the range stored: every overlapping chunk
\* is invalidated.
WriteOriginFails(R, d) ==
    /\ Accepted(R)
    /\ \E part \in SUBSET R :
          /\ origin' = Device!Written(part, d)
          /\ survivors' = Device!Candidates(part, d)
    /\ Invalidate(TouchedChunks(R) \cap live, valid, current)
    /\ MarkOriginFailed
    /\ reply' = Device!Refused
    /\ UNCHANGED dirty

\* Mutant: the sync is left to the next flush.
WriteFuaUnsynced(R, d) ==
    /\ Accepted(R)
    /\ origin' = Device!Written(R, d)
    /\ survivors' = Device!Candidates(R, d)
    /\ dirty' = TRUE
    /\ UpdateCachedChunks(R, d, valid, current)
    /\ reply' = Device!Persisted
    /\ UNCHANGED healthVars

\* write_at_with_options, fua: write, sync, then the cache.
WriteFua(R, d) ==
    /\ Accepted(R)
    /\ origin' = Device!Written(R, d)
    /\ survivors' = Device!Durable(Device!Written(R, d))
    /\ dirty' = FALSE
    /\ UpdateCachedChunks(R, d, valid, current)
    /\ reply' = Device!Persisted
    /\ UNCHANGED healthVars

\* sync_dirty_origin fails after the write: the whole cache is invalidated.
WriteFuaSyncFails(R, d) ==
    /\ Accepted(R)
    /\ origin' \in Device!Remains(Device!Candidates(R, d))
    /\ survivors' = Device!Candidates(R, d)
    /\ dirty' = TRUE
    /\ Invalidate(live, valid, current)
    /\ MarkOriginFailed
    /\ reply' = Device!Refused

\* flush: nothing is synced unless something was written since the last sync.
Flush ==
    /\ originState = "Ready"
    /\ survivors' = IF dirty THEN Device!Durable(origin) ELSE survivors
    /\ dirty' = FALSE
    /\ reply' = Device!Persisted
    /\ UNCHANGED <<origin, cacheVars, healthVars>>

FlushSyncFails ==
    /\ originState = "Ready"
    /\ dirty
    /\ origin' \in Device!Remains(survivors)
    /\ Invalidate(live, valid, current)
    /\ MarkOriginFailed
    /\ reply' = Device!Refused
    /\ UNCHANGED <<survivors, dirty>>

FlushRefused == originState # "Ready" /\ Refuse

\* probe_origin: a good probe has synced; enough of them end an outage.
ProbeOk ==
    /\ survivors' = Device!Durable(origin)
    /\ dirty' = FALSE
    /\ reply' = Device!Persisted
    /\ IF originState = "Ready"
       THEN UNCHANGED healthVars
       ELSE IF probes + 1 >= ProbesToReady
            THEN originState' = "Ready" /\ probes' = 0
            ELSE originState' = "Degraded" /\ probes' = probes + 1
    /\ UNCHANGED <<origin, cacheVars>>

\* probe_origin fails in the read, or in the sync.
ProbeFails ==
    /\ origin' \in IF ProbeSyncMayLose THEN Device!Remains(survivors) ELSE {origin}
    /\ MarkOriginFailed
    /\ reply' = Device!Refused
    /\ UNCHANGED <<survivors, cacheVars, dirty>>

\* allocate_one_chunk zeroes the memory and marks the chunk current with no
\* valid block; release_lru_to invalidates the chunk before it drops its memory.
ResizeCache ==
    LET fresh == live' \ live
        gone == live \ live'
    IN /\ cached' = [s \in Sectors |-> IF Chunk(s) \in fresh \cup gone THEN Zero ELSE cached[s]]
       /\ valid' = valid \ BlocksIn(fresh \cup gone)
       /\ current' = (current \ gone) \cup fresh

\* observe_gpu: the cache may grow by one chunk or shrink to the new target.
ObserveGpu(t) ==
    /\ Pool!Observe(t)
    /\ ResizeCache
    /\ reply' = Device!Acknowledged
    /\ UNCHANGED <<originVars, healthVars, dirty>>

ReleaseCache ==
    /\ Pool!ReleaseAll
    /\ ResizeCache
    /\ reply' = Device!Acknowledged
    /\ UNCHANGED <<originVars, healthVars, dirty>>

\* The host loses power and the daemon is started again on the same origin:
\* with_chunk_bytes builds an empty cache and trusts the origin.
PowerLoss ==
    /\ origin' \in Device!Remains(survivors)
    /\ survivors' = Device!Durable(origin')
    /\ Pool!Restart
    /\ valid' = {} /\ current' = {} /\ cached' = [s \in Sectors |-> Zero]
    /\ originState' = "Ready" /\ probes' = 0
    /\ dirty' = FALSE
    /\ reply' = Device!Refused

-----------------------------------------------------------------------------
Init ==
    /\ origin \in [Sectors -> Values]
    /\ survivors = Device!Durable(origin)
    /\ Pool!Init
    /\ cached = [s \in Sectors |-> Zero]
    /\ valid = {} /\ current = {}
    /\ originState = "Ready" /\ probes = 0
    /\ dirty = FALSE
    /\ reply = Device!Acknowledged

ReadStep(R) ==
    RejectRequest(R) \/ EmptyRequest(R) \/ ReadCached(R) \/ ReadOrigin(R) \/ ReadOriginFails(R)

WriteStep(R, d) ==
    WriteAt(R, d) \/ WriteOriginFails(R, d) \/ WriteFua(R, d) \/ WriteFuaSyncFails(R, d)

Next ==
    \/ \E R \in Ranges : ReadStep(R)
    \/ \E R \in Ranges : \E d \in [R -> Values] : WriteStep(R, d)
    \/ Flush \/ FlushSyncFails \/ FlushRefused
    \/ ProbeOk \/ ProbeFails
    \/ \E t \in 0..Cardinality(Chunks) : ObserveGpu(t)
    \/ ReleaseCache
    \/ PowerLoss

Spec == Init /\ [][Next]_vars

-----------------------------------------------------------------------------
(* Properties *)

TypeOK ==
    /\ origin \in [Sectors -> Values]
    /\ survivors \in [Sectors -> SUBSET Values]
    /\ live \subseteq Chunks
    /\ target \in Nat
    /\ cached \in [Sectors -> Values]
    /\ valid \subseteq Blocks
    /\ current \subseteq Chunks
    /\ originState \in {"Ready", "Degraded", "Failed"}
    /\ probes \in Nat
    /\ dirty \in BOOLEAN

\* The clean-cache invariant behind "VRAM eviction affects performance, not
\* data integrity": whatever range_is_cached would let read_at serve from VRAM
\* equals the origin, through torn writes, failed syncs, failed device writes,
\* partial-block writes, growth and reclaim, in every origin state.
CacheIsClean == \A s \in Sectors : Readable(s) => cached[s] = origin[s]

\* flush may skip the sync when origin_dirty is false: whenever the backend
\* accepts requests and is not dirty, nothing can be lost by a power loss.
\* Failed writes do not set origin_dirty, so this rests on the probes.
CleanMeansDurable == originState = "Ready" /\ ~dirty => AllDurable

\* Degraded is only entered by a probe whose sync succeeded, and no write is
\* accepted until Ready.
DegradedMeansDurable == originState = "Degraded" => AllDurable

\* The current contents are always among those a power loss may leave.
ContentsSurvive == \A s \in Sectors : origin[s] \in survivors[s]

Inv == TypeOK /\ CacheIsClean /\ CleanMeansDurable /\ DegradedMeansDurable /\ ContentsSurvive

\* The cache is invisible: what requests return, and what a power loss leaves,
\* is what the origin without any cache would give.
ImplementsBlockDevice == Device!Spec
=============================================================================
