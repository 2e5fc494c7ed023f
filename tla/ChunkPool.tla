------------------------------ MODULE ChunkPool ------------------------------
(***************************************************************************)
(* The VRAM chunks of a clean cache, seen from the data path: which chunks *)
(* hold memory, and how many the last GPU sample allows.  When a chunk is  *)
(* added or taken away is left open; GpuCachePolicy has the sampling       *)
(* policy of observe_gpu in full and implements this specification.        *)
(***************************************************************************)
EXTENDS Naturals, FiniteSets

CONSTANT Chunks      \* the chunk indices

VARIABLES live,      \* the chunks with device memory
          target     \* target_bytes, in whole chunks

vars == <<live, target>>

Init == live = {} /\ target = 0

\* allocate_one_chunk: memory goes to the first chunk that has none.
FirstFree(c) ==
    /\ c \in Chunks \ live
    /\ \A k \in Chunks \ live : c <= k

\* Growing by one chunk may not pass the target.
Grow(t) ==
    /\ Cardinality(live) + 1 <= t
    /\ \E c \in Chunks : FirstFree(c) /\ live' = live \cup {c}

\* release_lru_to stops as soon as the cache is within its target.
Reclaim(t) ==
    \E gone \in SUBSET live :
        /\ Cardinality(live) > t
        /\ Cardinality(live \ gone) = t
        /\ live' = live \ gone

Observe(t) ==
    /\ target' = t
    /\ Grow(t) \/ Reclaim(t) \/ live' = live

\* release_cache: everything goes, the target of the last sample stays.
ReleaseAll == live' = {} /\ target' = target

\* The daemon restarts: with_chunk_bytes builds an empty cache.
Restart == live' = {} /\ target' = 0

Next == (\E t \in 0..Cardinality(Chunks) : Observe(t)) \/ ReleaseAll \/ Restart

Spec == Init /\ [][Next]_vars
=============================================================================
