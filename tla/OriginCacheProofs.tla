-------------------------- MODULE OriginCacheProofs --------------------------
(***************************************************************************)
(* Proofs about OriginCache, for every geometry, every set of sector       *)
(* values and every set of requests.                                       *)
(***************************************************************************)
EXTENDS OriginCache, FiniteSetTheorems, TLAPS

(* What the operators on the medium return. *)
LEMMA WrittenType ==
    ASSUME TypeOK, NEW W \in SUBSET Sectors, NEW d, \A s \in W : d[s] \in Values
    PROVE  /\ Device!Written(W, d) \in [Sectors -> Values]
           /\ \A s \in Sectors : s \notin W => Device!Written(W, d)[s] = origin[s]
           /\ \A s \in W : Device!Written(W, d)[s] = d[s]
BY DEF TypeOK, Device!Written

\* Of a sector written and not yet synced the old or the new value may survive.
LEMMA CandidatesType ==
    ASSUME TypeOK, NEW W \in SUBSET Sectors, NEW d, \A s \in W : d[s] \in Values
    PROVE  /\ Device!Candidates(W, d) \in [Sectors -> SUBSET Values]
           /\ \A s \in Sectors \ W : Device!Candidates(W, d)[s] = survivors[s]
           /\ \A s \in W : Device!Candidates(W, d)[s] = survivors[s] \cup {d[s]}
BY DEF TypeOK, Device!Candidates

(* A write changes the sectors it covers and no other. *)
LEMMA WrittenAt ==
    ASSUME NEW W, NEW d
    PROVE  \A s \in Sectors : Device!Written(W, d)[s] = IF s \in W THEN d[s] ELSE origin[s]
BY DEF Device!Written

(* What a write stores is among what a power loss may leave. *)
LEMMA WrittenSurvives ==
    ASSUME \A s \in Sectors : origin[s] \in survivors[s], NEW W, NEW d
    PROVE  \A s \in Sectors : Device!Written(W, d)[s] \in Device!Candidates(W, d)[s]
BY DEF Device!Written, Device!Candidates

\* After a sync exactly the written values survive.
LEMMA DurableType ==
    ASSUME NEW f \in [Sectors -> Values]
    PROVE  /\ Device!Durable(f) \in [Sectors -> SUBSET Values]
           /\ \A s \in Sectors : Device!Durable(f)[s] = {f[s]}
BY DEF Device!Durable

(* The cache side of a step keeps its types. *)
LEMMA InvalidateType ==
    ASSUME TypeOK, NEW C, NEW v \in SUBSET Blocks, NEW cur \in SUBSET Chunks,
           Invalidate(C, v, cur)
    PROVE  /\ cached' \in [Sectors -> Values] /\ valid' \subseteq Blocks
           /\ current' \subseteq Chunks /\ live' \subseteq Chunks /\ target' \in Nat
BY DEF TypeOK, Invalidate

\* update_cached_chunks marks blocks of the device.
LEMMA UpdateType ==
    ASSUME TypeOK, NEW R \in SUBSET Sectors, NEW d, \A s \in R : d[s] \in Values,
           NEW v \in SUBSET Blocks, NEW cur \in SUBSET Chunks,
           UpdateCachedChunks(R, d, v, cur)
    PROVE  /\ cached' \in [Sectors -> Values] /\ valid' \subseteq Blocks
           /\ current' \subseteq Chunks /\ live' \subseteq Chunks /\ target' \in Nat
BY GeometryAssumption, Zenon DEF TypeOK, UpdateCachedChunks, FullyCovered

\* resize_cache keeps to the chunks of the pool.
LEMMA ResizeType ==
    ASSUME TypeOK, ResizeCache, live' \subseteq Chunks
    PROVE  /\ cached' \in [Sectors -> Values] /\ valid' \subseteq Blocks
           /\ current' \subseteq Chunks
BY GeometryAssumption DEF TypeOK, ResizeCache

(* Every request the code accepts names sectors of the device only. *)
LEMMA AcceptedRange ==
    ASSUME NEW R, Accepted(R)
    PROVE  R \in SUBSET Sectors /\ R # {} /\ originState = "Ready"
BY DEF Accepted, Rejected, CheckRange

(* A step of the chunk pool keeps the live chunks and the target in range. *)
LEMMA PoolType ==
    ASSUME TypeOK, NEW t \in 0..Cardinality(Chunks), Pool!Observe(t)
    PROVE  live' \subseteq Chunks /\ target' \in Nat
<1>1. Cardinality(Chunks) \in Nat
  BY GeometryAssumption, FS_CardinalityType
<1>2. t \in Nat
  BY <1>1
<1>3. live' \subseteq Chunks
  <2>1. CASE Pool!Grow(t)
    <3>1. PICK c \in Chunks : live' = live \cup {c}
      BY <2>1 DEF Pool!Grow
    <3>. QED  BY <3>1 DEF TypeOK
  <2>2. CASE Pool!Reclaim(t)
    <3>1. PICK gone \in SUBSET live : live' = live \ gone
      BY <2>2 DEF Pool!Reclaim
    <3>. QED  BY <3>1 DEF TypeOK
  <2>. QED  BY <2>1, <2>2 DEF TypeOK, Pool!Observe
<1>. QED
  BY <1>2, <1>3 DEF Pool!Observe

(* Type correctness is inductive. *)
LEMMA TypeStep ==
    ASSUME TypeOK, [Next]_vars
    PROVE  TypeOK'
<1>. USE ProbesAssumption
<1>1. ASSUME NEW R \in Ranges, ReadStep(R)
      PROVE  TypeOK'
  <2>1. CASE RejectRequest(R) \/ EmptyRequest(R)
    BY <2>1 DEF TypeOK, RejectRequest, EmptyRequest, Refuse, originVars, cacheVars, healthVars
  <2>2. CASE ReadCached(R)
    BY <2>2 DEF TypeOK, ReadCached, originVars, cacheVars, healthVars
  <2>3. CASE ReadOrigin(R)
    <3>1. R \in SUBSET Sectors
      BY <2>3, AcceptedRange DEF ReadOrigin
    <3>2. PICK bad \in Unreadable(R) :
            \/ UpdateCachedChunks(R, origin, valid \ BlocksIn(bad), current \ bad)
            \/ Invalidate(bad, valid, current)
      BY <2>3, Zenon DEF ReadOrigin
    <3>3. /\ cached' \in [Sectors -> Values] /\ valid' \subseteq Blocks
          /\ current' \subseteq Chunks /\ live' \subseteq Chunks /\ target' \in Nat
      <4>1. CASE UpdateCachedChunks(R, origin, valid \ BlocksIn(bad), current \ bad)
        <5>1. \A s \in R : origin[s] \in Values
          BY <3>1 DEF TypeOK
        <5>2. valid \ BlocksIn(bad) \in SUBSET Blocks /\ current \ bad \in SUBSET Chunks
          BY DEF TypeOK
        <5>. QED  BY <4>1, <3>1, <5>1, <5>2, UpdateType, Zenon
      <4>2. CASE Invalidate(bad, valid, current)
        BY <4>2, InvalidateType DEF TypeOK
      <4>. QED  BY <3>2, <4>1, <4>2
    <3>. QED  BY <2>3, <3>3 DEF TypeOK, ReadOrigin, originVars, healthVars
  <2>4. CASE ReadOriginFails(R)
    <3>1. PICK bad \in Unreadable(R) : Invalidate(bad, valid, current)
      BY <2>4 DEF ReadOriginFails
    <3>2. /\ cached' \in [Sectors -> Values] /\ valid' \subseteq Blocks
          /\ current' \subseteq Chunks /\ live' \subseteq Chunks /\ target' \in Nat
      BY <3>1, InvalidateType DEF TypeOK
    <3>. QED  BY <2>4, <3>2 DEF TypeOK, ReadOriginFails, MarkOriginFailed, originVars
  <2>. QED  BY <1>1, <2>1, <2>2, <2>3, <2>4 DEF ReadStep
<1>2. ASSUME NEW R \in Ranges, NEW d \in [R -> Values], WriteStep(R, d)
      PROVE  TypeOK'
  <2>0. R \in SUBSET Sectors /\ \A s \in R : d[s] \in Values
    BY <1>2, AcceptedRange DEF WriteStep, WriteAt, WriteOriginFails, WriteFua, WriteFuaSyncFails
  <2>1. CASE WriteAt(R, d) \/ WriteFua(R, d)
    <3>1. UpdateCachedChunks(R, d, valid, current)
      BY <2>1 DEF WriteAt, WriteFua
    <3>2. /\ cached' \in [Sectors -> Values] /\ valid' \subseteq Blocks
          /\ current' \subseteq Chunks /\ live' \subseteq Chunks /\ target' \in Nat
      BY <2>0, <3>1, UpdateType, Zenon DEF TypeOK
    <3>3. origin' \in [Sectors -> Values]
      BY <2>0, <2>1, WrittenType DEF WriteAt, WriteFua
    <3>4. survivors' \in [Sectors -> SUBSET Values]
      <4>1. CASE WriteAt(R, d)
        BY <2>0, <4>1, CandidatesType DEF WriteAt
      <4>2. CASE WriteFua(R, d)
        <5>1. Device!Written(R, d) \in [Sectors -> Values]
          BY <2>0, WrittenType
        <5>. QED  BY <4>2, <5>1, DurableType DEF WriteFua
      <4>. QED  BY <2>1, <4>1, <4>2
    <3>. QED  BY <2>1, <3>2, <3>3, <3>4, Zenon DEF TypeOK, WriteAt, WriteFua, healthVars
  <2>2. CASE WriteOriginFails(R, d)
    <3>1. PICK part \in SUBSET R : /\ origin' = Device!Written(part, d)
                                  /\ survivors' = Device!Candidates(part, d)
      BY <2>2 DEF WriteOriginFails
    <3>2. part \in SUBSET Sectors /\ \A s \in part : d[s] \in Values
      BY <2>0
    <3>3. origin' \in [Sectors -> Values] /\ survivors' \in [Sectors -> SUBSET Values]
      BY <3>1, <3>2, WrittenType, CandidatesType
    <3>4. /\ cached' \in [Sectors -> Values] /\ valid' \subseteq Blocks
          /\ current' \subseteq Chunks /\ live' \subseteq Chunks /\ target' \in Nat
      BY <2>2, InvalidateType, Zenon DEF TypeOK, WriteOriginFails
    <3>. QED  BY <2>2, <3>3, <3>4 DEF TypeOK, WriteOriginFails, MarkOriginFailed
  <2>3. CASE WriteFuaSyncFails(R, d)
    <3>1. origin' \in [Sectors -> Values] /\ survivors' \in [Sectors -> SUBSET Values]
      BY <2>0, <2>3, CandidatesType DEF WriteFuaSyncFails, Device!Remains
    <3>2. /\ cached' \in [Sectors -> Values] /\ valid' \subseteq Blocks
          /\ current' \subseteq Chunks /\ live' \subseteq Chunks /\ target' \in Nat
      BY <2>3, InvalidateType DEF TypeOK, WriteFuaSyncFails
    <3>. QED  BY <2>3, <3>1, <3>2 DEF TypeOK, WriteFuaSyncFails, MarkOriginFailed
  <2>. QED  BY <1>2, <2>1, <2>2, <2>3 DEF WriteStep
<1>3. CASE Flush \/ FlushRefused
  BY <1>3, DurableType, Zenon
     DEF TypeOK, Flush, FlushRefused, Refuse, originVars, cacheVars, healthVars
<1>4. CASE FlushSyncFails
  <2>1. /\ cached' \in [Sectors -> Values] /\ valid' \subseteq Blocks
        /\ current' \subseteq Chunks /\ live' \subseteq Chunks /\ target' \in Nat
    BY <1>4, InvalidateType, Zenon DEF TypeOK, FlushSyncFails
  <2>. QED  BY <1>4, <2>1 DEF TypeOK, FlushSyncFails, MarkOriginFailed, Device!Remains
<1>5. CASE ProbeOk
  <2>1. survivors' \in [Sectors -> SUBSET Values]
    BY <1>5, DurableType DEF TypeOK, ProbeOk
  <2>2. originState' \in {"Ready", "Degraded", "Failed"} /\ probes' \in Nat
    BY <1>5 DEF TypeOK, ProbeOk, healthVars
  <2>. QED  BY <1>5, <2>1, <2>2, Zenon DEF TypeOK, ProbeOk, cacheVars
<1>6. CASE ProbeFails
  BY <1>6 DEF TypeOK, ProbeFails, MarkOriginFailed, cacheVars, Device!Remains
<1>7. ASSUME NEW t \in 0..Cardinality(Chunks), ObserveGpu(t)
      PROVE  TypeOK'
  BY <1>7, PoolType, ResizeType DEF TypeOK, ObserveGpu, originVars, healthVars
<1>8. CASE ReleaseCache
  BY <1>8, ResizeType DEF TypeOK, ReleaseCache, Pool!ReleaseAll, originVars, healthVars
<1>9. CASE PowerLoss
  <2>1. origin' \in [Sectors -> Values]
    BY <1>9 DEF PowerLoss, Device!Remains
  <2>2. survivors' \in [Sectors -> SUBSET Values]
    BY <1>9, <2>1, DurableType DEF PowerLoss
  <2>. QED
    BY <1>9, <2>1, <2>2, GeometryAssumption, Zenon DEF TypeOK, PowerLoss, Pool!Restart
<1>10. CASE UNCHANGED vars
  BY <1>10 DEF TypeOK, vars, originVars, cacheVars, healthVars
<1>. QED
  BY <1>1, <1>2, <1>3, <1>4, <1>5, <1>6, <1>7, <1>8, <1>9, <1>10 DEF Next

(* Every reachable state of the backend is well typed: in particular a     *)
(* write never stores anything but sector values, on the origin or in VRAM. *)
THEOREM TypeCorrect == Spec => []TypeOK
<1>1. Init => TypeOK
  <2>. SUFFICES ASSUME Init PROVE TypeOK
    OBVIOUS
  <2>1. survivors \in [Sectors -> SUBSET Values]
    BY DurableType DEF Init
  <2>. QED  BY <2>1, GeometryAssumption, Zenon DEF Init, TypeOK, Pool!Init
<1>. QED
  BY <1>1, TypeStep, PTL DEF Spec

-----------------------------------------------------------------------------
(* Durability *)

(* The strengthening of CleanMeansDurable that the steps preserve: a probe *)
(* that ends an outage has synced, and so has every probe before it.       *)
DurableInv == CleanMeansDurable /\ DegradedMeansDurable /\ ContentsSurvive

(* After a sync the power-loss candidates are the contents alone. *)
LEMMA SyncedDurable ==
    ASSUME TypeOK, origin' \in [Sectors -> Values], survivors' = Device!Durable(origin')
    PROVE  DurableInv'
BY DEF DurableInv, CleanMeansDurable, DegradedMeansDurable, ContentsSurvive, AllDurable,
       Device!Durable

(* A failed origin promises nothing but that its contents may survive. *)
LEMMA FailedDurable ==
    ASSUME MarkOriginFailed, \A s \in Sectors : origin'[s] \in survivors'[s]
    PROVE  DurableInv'
BY DEF DurableInv, CleanMeansDurable, DegradedMeansDurable, ContentsSurvive, MarkOriginFailed

(* A step that leaves the medium, origin_dirty and the origin state alone. *)
LEMMA UntouchedDurable ==
    ASSUME DurableInv, UNCHANGED <<originVars, dirty, originState>>
    PROVE  DurableInv'
BY DEF DurableInv, CleanMeansDurable, DegradedMeansDurable, ContentsSurvive, AllDurable,
       originVars

\* Every request, sync and probe keeps the facts about what is durable.
LEMMA DurableStep ==
    ASSUME TypeOK, TypeOK', DurableInv, [Next]_vars
    PROVE  DurableInv'
<1>0. \A s \in Sectors : origin[s] \in survivors[s]
  BY DEF DurableInv, ContentsSurvive
<1>1. ASSUME NEW R \in Ranges, ReadStep(R)
      PROVE  DurableInv'
  <2>1. CASE ReadOriginFails(R)
    BY <1>0, <2>1, FailedDurable DEF ReadOriginFails, originVars
  <2>2. CASE ~ReadOriginFails(R)
    BY <1>1, <2>2, UntouchedDurable
       DEF ReadStep, RejectRequest, EmptyRequest, Refuse, ReadCached, ReadOrigin, healthVars
  <2>. QED  BY <2>1, <2>2
<1>2. ASSUME NEW R \in Ranges, NEW d \in [R -> Values], WriteStep(R, d)
      PROVE  DurableInv'
  <2>0. R \in SUBSET Sectors /\ originState = "Ready" /\ \A s \in R : d[s] \in Values
    BY <1>2, AcceptedRange DEF WriteStep, WriteAt, WriteOriginFails, WriteFua, WriteFuaSyncFails
  <2>1. CASE WriteAt(R, d)
    <3>1. \A s \in Sectors : origin'[s] \in survivors'[s]
      BY <1>0, <2>1, WrittenSurvives DEF WriteAt
    <3>2. dirty' /\ originState' = "Ready"
      BY <2>0, <2>1 DEF WriteAt, healthVars
    <3>. QED
      BY <3>1, <3>2, Zenon DEF DurableInv, CleanMeansDurable, DegradedMeansDurable, ContentsSurvive
  <2>2. CASE WriteFua(R, d)
    BY <2>2, SyncedDurable, Zenon DEF WriteFua, TypeOK
  <2>3. CASE WriteOriginFails(R, d)
    <3>1. PICK part \in SUBSET R : /\ origin' = Device!Written(part, d)
                                  /\ survivors' = Device!Candidates(part, d)
      BY <2>3 DEF WriteOriginFails
    <3>2. \A s \in Sectors : origin'[s] \in survivors'[s]
      BY <1>0, <3>1, WrittenSurvives
    <3>. QED  BY <2>3, <3>2, FailedDurable DEF WriteOriginFails
  <2>4. CASE WriteFuaSyncFails(R, d)
    BY <2>4, FailedDurable DEF WriteFuaSyncFails, Device!Remains
  <2>. QED  BY <1>2, <2>1, <2>2, <2>3, <2>4 DEF WriteStep
<1>3. CASE Flush
  <2>1. CASE dirty
    BY <1>3, <2>1, SyncedDurable DEF Flush, TypeOK
  <2>2. CASE ~dirty
    BY <1>3, <2>2, UntouchedDurable DEF Flush, originVars, healthVars, TypeOK
  <2>. QED  BY <2>1, <2>2
<1>4. CASE FlushSyncFails
  BY <1>4, FailedDurable DEF FlushSyncFails, Device!Remains
<1>5. CASE FlushRefused
  BY <1>5, UntouchedDurable DEF FlushRefused, Refuse, healthVars
<1>6. CASE ProbeOk
  BY <1>6, SyncedDurable DEF ProbeOk, TypeOK
<1>7. CASE ProbeFails
  BY <1>0, <1>7, FailedDurable DEF ProbeFails, Device!Remains
<1>8. CASE (\E t \in 0..Cardinality(Chunks) : ObserveGpu(t)) \/ ReleaseCache
  BY <1>8, UntouchedDurable DEF ObserveGpu, ReleaseCache, healthVars
<1>9. CASE PowerLoss
  BY <1>9, SyncedDurable DEF PowerLoss, TypeOK
<1>10. CASE UNCHANGED vars
  BY <1>10, UntouchedDurable DEF vars, healthVars
<1>. QED
  BY <1>1, <1>2, <1>3, <1>4, <1>5, <1>6, <1>7, <1>8, <1>9, <1>10, Zenon DEF Next

(* flush may trust origin_dirty: a backend that accepts requests and is not *)
(* dirty has nothing to lose in a power cut, whatever failed before.        *)
THEOREM FlushIsDurable == Spec => []CleanMeansDurable
<1>1. Init => DurableInv
  BY DEF Init, DurableInv, CleanMeansDurable, DegradedMeansDurable, ContentsSurvive, AllDurable,
         Device!Durable
<1>2. DurableInv => CleanMeansDurable
  BY DEF DurableInv
<1>. QED
  BY <1>1, <1>2, DurableStep, TypeCorrect, PTL DEF Spec

-----------------------------------------------------------------------------
(* The clean cache *)

(* The cache is clean with respect to the valid blocks v and the current    *)
(* chunks cur a handler starts its cache update from.                       *)
CleanWith(v, cur) ==
    \A s \in Sectors :
        Chunk(s) \in live /\ Chunk(s) \in cur /\ BlockOf[s] \in v => cached[s] = origin[s]

(* update_cached_chunks with the data the origin now holds keeps the cache  *)
(* clean: a failed chunk is dropped, a block is marked valid only when all  *)
(* of it was written, and stale validity never comes back to life.          *)
LEMMA UpdateClean ==
    ASSUME TypeOK, NEW R \in SUBSET Sectors, NEW d,
           NEW v \in SUBSET Blocks, NEW cur \in SUBSET Chunks, CleanWith(v, cur),
           UpdateCachedChunks(R, d, v, cur),
           \A s \in R : origin'[s] = d[s],
           \A s \in Sectors \ R : origin'[s] = origin[s]
    PROVE  CacheIsClean'
<1>. SUFFICES ASSUME NEW s \in Sectors, Readable(s)'
              PROVE  cached'[s] = origin'[s]
  BY SMTT(30) DEF CacheIsClean
<1>1. PICK failed \in SUBSET (TouchedChunks(R) \cap live) :
        \E landed \in SUBSET {x \in R : Chunk(x) \in failed} :
          LET good == (TouchedChunks(R) \cap live) \ failed
          IN /\ cached' = [x \in Sectors |->
                             IF x \in R /\ (Chunk(x) \in good \/ x \in landed)
                             THEN d[x] ELSE cached[x]]
             /\ valid' = (v \ BlocksIn(failed \cup (good \ cur)))
                            \cup (FullyCovered(R) \cap BlocksIn(good))
             /\ current' = (cur \ failed) \cup good
             /\ UNCHANGED <<live, target>>
  BY Zenon DEF UpdateCachedChunks
<1>. DEFINE good == (TouchedChunks(R) \cap live) \ failed
<1>2. /\ valid' = (v \ BlocksIn(failed \cup (good \ cur))) \cup (FullyCovered(R) \cap BlocksIn(good))
      /\ current' = (cur \ failed) \cup good
      /\ live' = live
  BY <1>1, Zenon
<1>3. Chunk(s) \in live /\ Chunk(s) \in current' /\ BlockOf[s] \in valid'
  BY <1>2 DEF Readable, Chunk
<1>4. CASE s \in R
  <2>1. Chunk(s) \in good
    BY <1>2, <1>3, <1>4, Zenon DEF TouchedChunks
  <2>2. cached'[s] = d[s]
    BY <1>1, <1>4, <2>1, Zenon
  <2>. QED  BY <1>4, <2>2
<1>5. CASE s \notin R
  <2>1. cached'[s] = cached[s]
    BY <1>1, <1>5, Zenon
  <2>2. BlockOf[s] \notin FullyCovered(R)
    BY <1>5, Zenon DEF FullyCovered
  <2>3. BlockOf[s] \in v /\ Chunk(s) \notin failed \cup (good \ cur)
    BY <1>2, <1>3, <2>2, GeometryAssumption, Zenon DEF BlocksIn, Chunk
  <2>4. Chunk(s) \in cur
    BY <1>2, <1>3, <2>3
  <2>. QED  BY <1>3, <1>5, <2>1, <2>3, <2>4, Zenon DEF CleanWith
<1>. QED  BY <1>4, <1>5

(* Invalidating the chunks whose origin sectors may have changed is enough. *)
LEMMA InvalidateClean ==
    ASSUME TypeOK, CacheIsClean, NEW C, Invalidate(C, valid, current),
           \A s \in Sectors : Chunk(s) \in live \ C => origin'[s] = origin[s]
    PROVE  CacheIsClean'
BY GeometryAssumption DEF CacheIsClean, Readable, Invalidate, BlocksIn, Chunk

(* Growth starts with no valid block and reclaim leaves none behind. *)
LEMMA ResizeClean ==
    ASSUME TypeOK, CacheIsClean, ResizeCache, live' \subseteq Chunks, origin' = origin
    PROVE  CacheIsClean'
BY GeometryAssumption DEF CacheIsClean, Readable, ResizeCache, BlocksIn, Chunk

\* Every step keeps the readable cached blocks equal to the origin.
LEMMA CleanStep ==
    ASSUME ProbeSyncMayLose = FALSE, TypeOK, TypeOK', CacheIsClean, [Next]_vars
    PROVE  CacheIsClean'
<1>1. ASSUME NEW R \in Ranges, ReadStep(R)
      PROVE  CacheIsClean'
  <2>1. CASE RejectRequest(R) \/ EmptyRequest(R) \/ ReadCached(R)
    BY <2>1 DEF CacheIsClean, Readable, RejectRequest, EmptyRequest, Refuse, ReadCached,
                originVars, cacheVars
  <2>2. CASE ReadOrigin(R)
    <3>1. R \in SUBSET Sectors /\ origin' = origin
      BY <2>2, AcceptedRange DEF ReadOrigin, originVars
    <3>2. PICK bad \in Unreadable(R) :
            \/ UpdateCachedChunks(R, origin, valid \ BlocksIn(bad), current \ bad)
            \/ Invalidate(bad, valid, current)
      BY <2>2, Zenon DEF ReadOrigin
    <3>3. CASE UpdateCachedChunks(R, origin, valid \ BlocksIn(bad), current \ bad)
      <4>1. valid \ BlocksIn(bad) \in SUBSET Blocks /\ current \ bad \in SUBSET Chunks
        BY DEF TypeOK
      <4>2. CleanWith(valid \ BlocksIn(bad), current \ bad)
        BY DEF CleanWith, CacheIsClean, Readable
      <4>. QED  BY <3>1, <3>3, <4>1, <4>2, UpdateClean, Zenon
    <3>4. CASE Invalidate(bad, valid, current)
      BY <3>1, <3>4, InvalidateClean
    <3>. QED  BY <3>2, <3>3, <3>4, Zenon
  <2>3. CASE ReadOriginFails(R)
    BY <2>3, InvalidateClean DEF ReadOriginFails, originVars
  <2>. QED  BY <1>1, <2>1, <2>2, <2>3, Zenon DEF ReadStep
<1>2. ASSUME NEW R \in Ranges, NEW d \in [R -> Values], WriteStep(R, d)
      PROVE  CacheIsClean'
  <2>0. R \in SUBSET Sectors /\ \A s \in R : d[s] \in Values
    BY <1>2, AcceptedRange, Zenon DEF WriteStep, WriteAt, WriteOriginFails, WriteFua, WriteFuaSyncFails
  <2>1. CASE WriteAt(R, d) \/ WriteFua(R, d)
    <3>0. origin' = Device!Written(R, d)
      BY <2>1 DEF WriteAt, WriteFua
    <3>1. UpdateCachedChunks(R, d, valid, current)
      BY <2>1 DEF WriteAt, WriteFua
    <3>2. CleanWith(valid, current)
      BY DEF CleanWith, CacheIsClean, Readable
    <3>3. /\ \A s \in R : origin'[s] = d[s]
          /\ \A s \in Sectors \ R : origin'[s] = origin[s]
      BY <2>0, <3>0, WrittenAt
    <3>4. valid \in SUBSET Blocks /\ current \in SUBSET Chunks
      BY DEF TypeOK
    <3>. QED  BY <2>0, <3>1, <3>2, <3>3, <3>4, UpdateClean, Zenon
  <2>2. CASE WriteOriginFails(R, d)
    <3>1. PICK part \in SUBSET R : origin' = Device!Written(part, d)
      BY <2>2 DEF WriteOriginFails
    <3>2. \A s \in Sectors : s \notin R => origin'[s] = origin[s]
      BY <3>1, WrittenAt
    <3>3. \A s \in Sectors : Chunk(s) \in live \ (TouchedChunks(R) \cap live) => origin'[s] = origin[s]
      BY <3>2, Zenon DEF TouchedChunks
    <3>. QED  BY <2>2, <3>3, InvalidateClean DEF WriteOriginFails
  <2>3. CASE WriteFuaSyncFails(R, d)
    BY <2>3, InvalidateClean DEF WriteFuaSyncFails
  <2>. QED  BY <1>2, <2>1, <2>2, <2>3 DEF WriteStep
<1>3. CASE Flush \/ FlushRefused \/ ProbeOk \/ ProbeFails
  BY <1>3 DEF CacheIsClean, Readable, Flush, FlushRefused, Refuse, ProbeOk, ProbeFails,
              originVars, cacheVars
<1>4. CASE FlushSyncFails
  BY <1>4, InvalidateClean DEF FlushSyncFails
<1>5. ASSUME NEW t \in 0..Cardinality(Chunks), ObserveGpu(t)
      PROVE  CacheIsClean'
  BY <1>5, ResizeClean DEF ObserveGpu, TypeOK, originVars
<1>6. CASE ReleaseCache
  BY <1>6, ResizeClean, Zenon DEF ReleaseCache, TypeOK, originVars
<1>7. CASE PowerLoss
  BY <1>7 DEF PowerLoss, Pool!Restart, CacheIsClean, Readable
<1>8. CASE UNCHANGED vars
  BY <1>8 DEF vars, originVars, cacheVars, CacheIsClean, Readable
<1>. QED
  BY <1>1, <1>2, <1>3, <1>4, <1>5, <1>6, <1>7, <1>8, Zenon DEF Next

(* Whatever range_is_cached lets read_at serve from VRAM equals the origin, *)
(* for every geometry and every sequence of requests and device failures,   *)
(* as long as the failed sync of a probe drops nothing.                     *)
THEOREM CacheAlwaysClean == ProbeSyncMayLose = FALSE => (Spec => []CacheIsClean)
<1>. SUFFICES ASSUME ProbeSyncMayLose = FALSE
              PROVE  Spec => []CacheIsClean
  BY Zenon
<1>1. Init => CacheIsClean
  BY DEF Init, CacheIsClean, Readable, Pool!Init
<1>2. TypeOK /\ TypeOK' /\ CacheIsClean /\ [Next]_vars => CacheIsClean'
  BY CleanStep, Zenon
<1>. QED
  BY <1>1, <1>2, TypeCorrect, PTL DEF Spec

(* The whole invariant of the backend: the cache is clean, a clean or      *)
(* recovering backend has nothing to lose, and the contents may survive,    *)
(* as long as the failed sync of a probe drops nothing.                     *)
THEOREM BackendAlwaysSafe == ProbeSyncMayLose = FALSE => (Spec => []Inv)
<1>. SUFFICES ASSUME ProbeSyncMayLose = FALSE
              PROVE  Spec => []Inv
  BY Zenon
<1>1. Init => DurableInv
  BY DEF Init, DurableInv, CleanMeansDurable, DegradedMeansDurable, ContentsSurvive, AllDurable,
         Device!Durable
<1>2. Spec => []DurableInv
  BY <1>1, DurableStep, TypeCorrect, PTL DEF Spec
<1>3. Spec => []CacheIsClean
  BY CacheAlwaysClean
<1>4. TypeOK /\ DurableInv /\ CacheIsClean => Inv
  BY DEF Inv, DurableInv
<1>. QED
  BY <1>2, <1>3, <1>4, TypeCorrect, PTL

-----------------------------------------------------------------------------
(* The cache is invisible *)

\* Every step of the cached backend is a step of the plain block device.
LEMMA DeviceStep ==
    ASSUME ProbeSyncMayLose = FALSE, TypeOK, TypeOK', CacheIsClean, DurableInv, [Next]_vars
    PROVE  [Device!Next]_(Device!vars)
<1>1. ASSUME NEW R \in Ranges, ReadStep(R)
      PROVE  Device!Next
  <2>1. CASE RejectRequest(R) \/ EmptyRequest(R) \/ ReadOriginFails(R)
    BY <2>1 DEF RejectRequest, EmptyRequest, Refuse, ReadOriginFails, originVars,
                Device!Next, Device!NoEffect
  <2>2. CASE ReadCached(R)
    <3>1. R \in SUBSET Sectors
      BY <2>2, AcceptedRange DEF ReadCached
    <3>2. \A s \in R : cached[s] = origin[s]
      BY <2>2, <3>1 DEF ReadCached, RangeIsCached, CacheIsClean
    <3>3. Device!Returned(R, cached) = Device!Returned(R, origin)
      BY <3>2, Zenon DEF Device!Returned
    <3>4. Device!Read(R)
      BY <2>2, <3>1, <3>3 DEF ReadCached, originVars, Device!Read
    <3>. QED  BY <3>4 DEF Device!Next
  <2>3. CASE ReadOrigin(R)
    <3>1. Device!Read(R)
      BY <2>3, AcceptedRange DEF ReadOrigin, originVars, Device!Read
    <3>. QED  BY <3>1 DEF Device!Next
  <2>. QED  BY <1>1, <2>1, <2>2, <2>3 DEF ReadStep
<1>2. ASSUME NEW R \in Ranges, NEW d \in [R -> Values], WriteStep(R, d)
      PROVE  Device!Next
  <2>1. \/ Device!Write(R, d) \/ Device!TornWrite(R, d)
        \/ Device!WriteDurable(R, d) \/ Device!WriteNotDurable(R, d)
    BY <1>2, AcceptedRange
       DEF WriteStep, WriteAt, WriteOriginFails, WriteFua, WriteFuaSyncFails,
           Device!Write, Device!TornWrite, Device!WriteDurable, Device!WriteNotDurable
  <2>. QED  BY <2>1 DEF Device!Next
<1>3. CASE Flush
  <2>1. survivors' = Device!Durable(origin)
    BY <1>3, Zenon DEF Flush, DurableInv, CleanMeansDurable, AllDurable, Device!Durable, TypeOK
  <2>2. Device!Sync
    BY <1>3, <2>1 DEF Flush, Device!Sync
  <2>. QED  BY <2>2 DEF Device!Next
<1>4. CASE FlushSyncFails
  BY <1>4 DEF FlushSyncFails, Device!Next, Device!SyncFailed
<1>5. CASE ProbeOk
  BY <1>5 DEF ProbeOk, Device!Next, Device!Sync
<1>6. CASE PowerLoss
  BY <1>6 DEF PowerLoss, Device!Next, Device!PowerLoss
<1>7. CASE FlushRefused \/ ProbeFails \/ ReleaseCache \/ \E t \in 0..Cardinality(Chunks) : ObserveGpu(t)
  <2>1. Device!NoEffect
    BY <1>7 DEF FlushRefused, Refuse, ProbeFails, ReleaseCache, ObserveGpu, originVars,
                Device!NoEffect
  <2>. QED  BY <2>1, Zenon DEF Device!Next
<1>8. CASE UNCHANGED vars
  BY <1>8 DEF vars, originVars, Device!vars
<1>. QED
  BY <1>1, <1>2, <1>3, <1>4, <1>5, <1>6, <1>7, <1>8, Zenon DEF Next

(* The backend implements the cacheless device: a client cannot tell from   *)
(* any reply, nor from what a power loss leaves, that there is a cache.     *)
THEOREM CacheIsInvisible == ProbeSyncMayLose = FALSE => (Spec => ImplementsBlockDevice)
<1>. SUFFICES ASSUME ProbeSyncMayLose = FALSE
              PROVE  Spec => Device!Spec
  BY Zenon DEF ImplementsBlockDevice
<1>1. Init => Device!Init
  BY DEF Init, Device!Init
<1>2. TypeOK /\ TypeOK' /\ CacheIsClean /\ DurableInv /\ [Next]_vars => [Device!Next]_(Device!vars)
  BY DeviceStep, Zenon
<1>3. Init => DurableInv
  BY DEF Init, DurableInv, CleanMeansDurable, DegradedMeansDurable, ContentsSurvive, AllDurable,
         Device!Durable
<1>4. Spec => []DurableInv
  BY <1>3, DurableStep, TypeCorrect, PTL DEF Spec
<1>5. Spec => []CacheIsClean
  BY CacheAlwaysClean
<1>. QED
  BY <1>1, <1>2, <1>4, <1>5, TypeCorrect, PTL DEF Spec, Device!Spec

=============================================================================
