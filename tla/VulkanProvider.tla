--------------------------- MODULE VulkanProvider ---------------------------
(***************************************************************************)
(* The Vulkan provider: a chain of resources opened in order and unwound   *)
(* on any failure, and regions whose every access goes through one staging *)
(* buffer, one command buffer and one fence, chunk after chunk.  The GPU   *)
(* executes submitted commands in its own time.                            *)
(***************************************************************************)
EXTENDS Integers, Sequences, FiniteSets, FiniteSetsExt, SequencesExt

CONSTANTS
  VkRegions,
  VkMaxLen,    \* bound: units of a region
  VkStaging,   \* STAGING_BYTES, in units
  VkMaxTotal,  \* bound: units of all regions
  VkHeap,      \* the device-local heap, in units
  VkWaitFails  \* may vkWaitForFences or vkResetFences fail?

ASSUME VulkanAssumption ==
  /\ VkMaxLen \in Nat \ {0} /\ VkStaging \in 1..VkMaxLen /\ VkHeap \in Nat
  /\ VkWaitFails \in BOOLEAN

QueueBound == 2   \* bound: commands under way after failed waits
VkUnits == 0..(VkMaxLen - 1)
VkValues == {0, 1}

VARIABLES
  vkAt,        \* what the provider's thread is doing
  vkHeld,      \* the resources of the provider that exist
  vkLen,       \* the live regions' sizes, 0 for none
  vkBuffer,    \* the contents of the regions' buffers
  vkParts,     \* the region under construction and its parts: a set of ["region", "part"]
  vkStage,     \* the staging buffer
  vkQueue,     \* commands submitted and not executed
  vkFence,     \* the fence is signalled
  vkCall,      \* the call in progress: a set
  vkAllocated, \* the sum mem_info subtracts
  vkSeen,      \* history: the contents when the last call returned
  vkReply      \* the last answer

vkVars == <<vkAt, vkHeld, vkLen, vkBuffer, vkParts, vkStage, vkQueue, vkFence, vkCall,
            vkAllocated, vkSeen, vkReply>>
regionVars == <<vkLen, vkBuffer, vkParts, vkAllocated, vkSeen>>
gpuVars == <<vkStage, vkQueue, vkFence>>

\* In the order they are created; what each one lives in.
Chain == <<"instance", "device", "pool", "fence", "buffer", "memory", "mapping">>
LivesIn == [x \in {"device", "pool", "fence", "buffer", "memory", "mapping"} |->
              CASE x = "device" -> "instance" [] x = "mapping" -> "memory" [] OTHER -> "device"]

Calls == [op : {"read", "write", "zero"}, region : VkRegions, off : 0..VkMaxLen, n : 0..VkMaxLen,
          value : VkValues, done : 0..VkMaxLen, got : UNION {[S -> VkValues] : S \in SUBSET VkUnits}]

VkTypeOK ==
  /\ vkAt \in {"closed", "opening", "unwinding", "ready", "allocating", "chunk", "waiting", "signalled"}
  /\ vkHeld \subseteq ToSet(Chain)
  /\ vkLen \in [VkRegions -> 0..VkMaxLen]
  /\ vkBuffer \in [VkRegions -> [VkUnits -> VkValues]] /\ vkSeen \in [VkRegions -> [VkUnits -> VkValues]]
  /\ vkParts \subseteq [region : VkRegions, part : {"buffer", "memory"}]
  /\ vkStage \in [0..(VkStaging - 1) -> VkValues] /\ vkFence \in BOOLEAN
  /\ vkCall \subseteq Calls /\ Cardinality(vkCall) <= 1
  /\ vkAllocated \in 0..(VkMaxLen * Cardinality(VkRegions))

Says(kind) == [kind |-> kind, got |-> [u \in {} |-> 0]]

VkNothing == [u \in VkUnits |-> 1]   \* stands for the contents of no region

VkInit ==
  /\ vkAt = "closed" /\ vkHeld = {} /\ vkLen = [r \in VkRegions |-> 0] /\ vkParts = {}
  /\ vkBuffer = [r \in VkRegions |-> VkNothing] /\ vkSeen = vkBuffer
  /\ vkStage = [u \in 0..(VkStaging - 1) |-> 0] /\ vkQueue = << >> /\ vkFence = FALSE
  /\ vkCall = {} /\ vkAllocated = 0 /\ vkReply = Says("none")

(***************************************************************************)
(* open: each resource is created or the ones before it are unwound.       *)
(***************************************************************************)
Open ==
  /\ vkAt = "closed" /\ vkAt' = "opening" /\ vkQueue' = << >> /\ vkFence' = FALSE
  /\ UNCHANGED <<vkHeld, regionVars, vkStage, vkCall, vkReply>>

VkMissing == SelectSeq(Chain, LAMBDA x : x \notin vkHeld)

\* A step fails by itself, or what it needs (a device, a transfer queue, a
\* memory type) is not there.
Create ==
  /\ vkAt = "opening"
  /\ \/ /\ vkHeld' = vkHeld \cup {Head(VkMissing)}
        /\ vkAt' = IF Len(VkMissing) = 1 THEN "ready" ELSE "opening"
     \/ vkAt' = "unwinding" /\ UNCHANGED vkHeld
  /\ UNCHANGED <<regionVars, gpuVars, vkCall, vkReply>>

\* ResGuard's drop and the provider's, then the instance: last created, first
\* destroyed, of what is there.
UnwindOrder == <<"mapping", "memory", "buffer", "fence", "pool", "device", "instance">>

Unwind ==
  /\ vkAt = "unwinding"
  /\ LET left == SelectSeq(UnwindOrder, LAMBDA x : x \in vkHeld)
     IN IF left = << >>
        THEN vkAt' = "closed" /\ UNCHANGED vkHeld
        ELSE vkHeld' = vkHeld \ {Head(left)} /\ UNCHANGED vkAt
  /\ UNCHANGED <<regionVars, gpuVars, vkCall, vkReply>>

\* The provider is dropped once no region borrows it; it waits for the device.
Close ==
  /\ vkAt = "ready" /\ \A r \in VkRegions : vkLen[r] = 0
  /\ vkQueue = << >> \/ VkWaitFails
  /\ vkAt' = "unwinding"
  /\ UNCHANGED <<vkHeld, regionVars, gpuVars, vkCall, vkReply>>

(***************************************************************************)
(* alloc: buffer, memory, binding; what was made is destroyed on failure.  *)
(***************************************************************************)
Part(r, p) == [region |-> r, part |-> p]
Building == {x \in vkParts : vkLen[x.region] = 0}

AllocBegins ==
  /\ vkAt = "ready"
  /\ \E r \in VkRegions :
       /\ vkLen[r] = 0
       /\ \/ vkAt' = "allocating" /\ vkParts' = vkParts \cup {Part(r, "buffer")} /\ UNCHANGED vkReply
          \/ vkReply' = Says("failed") /\ UNCHANGED <<vkAt, vkParts>>
  /\ UNCHANGED <<vkHeld, vkLen, vkBuffer, vkAllocated, vkSeen, gpuVars, vkCall>>

AllocFails == vkParts \ Building

AllocMemory ==
  /\ vkAt = "allocating" /\ Cardinality(Building) = 1
  /\ \/ vkParts' = vkParts \cup {Part(x.region, "memory") : x \in Building} /\ UNCHANGED <<vkAt, vkReply>>
     \/ vkParts' = AllocFails /\ vkAt' = "ready" /\ vkReply' = Says("failed")
  /\ UNCHANGED <<vkHeld, vkLen, vkBuffer, vkAllocated, vkSeen, gpuVars, vkCall>>

AllocBinds ==
  /\ vkAt = "allocating" /\ Cardinality(Building) = 2 /\ vkAt' = "ready"
  /\ \/ \E x \in Building, n \in 1..VkMaxLen, old \in VkValues :
          /\ vkAllocated + n <= VkMaxTotal
          /\ vkLen' = [vkLen EXCEPT ![x.region] = n] /\ vkAllocated' = vkAllocated + n
          /\ vkBuffer' = [vkBuffer EXCEPT ![x.region] = [u \in VkUnits |-> old]]
          /\ vkSeen' = vkBuffer' /\ vkReply' = Says("ok") /\ UNCHANGED vkParts
     \/ /\ vkParts' = AllocFails /\ vkReply' = Says("failed")
        /\ UNCHANGED <<vkLen, vkBuffer, vkAllocated, vkSeen>>
  /\ UNCHANGED <<vkHeld, gpuVars, vkCall>>

Freed(r) == vkAllocated - vkLen[r]

\* Dropping a region; nothing waits for the device here.
Free ==
  /\ vkAt = "ready"
  /\ \E r \in VkRegions :
       /\ vkLen[r] # 0 /\ vkLen' = [vkLen EXCEPT ![r] = 0]
       /\ vkParts' = {x \in vkParts : x.region # r}
       /\ vkAllocated' = Freed(r)
       /\ vkBuffer' = [vkBuffer EXCEPT ![r] = VkNothing] /\ vkSeen' = vkBuffer'
  /\ vkReply' = Says("ok")
  /\ UNCHANGED <<vkHeld, vkAt, gpuVars, vkCall>>

\* mem_info, without VK_EXT_memory_budget.
MemInfo ==
  [free |-> IF vkAllocated <= VkHeap THEN VkHeap - vkAllocated ELSE 0, total |-> VkHeap]

(***************************************************************************)
(* write_at, read_at and zero, by chunks of the staging buffer.            *)
(***************************************************************************)
CheckBounds(r, off, n) == off + n <= vkLen[r]

Returns(kind, got) ==
  /\ vkAt' = "ready" /\ vkCall' = {}
  /\ vkReply' = [kind |-> kind, got |-> got] /\ vkSeen' = vkBuffer

Fails == Returns("failed", [u \in {} |-> 0])

Begin ==
  /\ vkAt = "ready"
  /\ \E c \in [op : {"read", "write"}, region : VkRegions, off : VkUnits, n : 0..VkMaxLen,
               value : VkValues, done : {0}, got : {[u \in {} |-> 0]}] :
       /\ vkLen[c.region] # 0 /\ (c.op = "read" => c.value = 0)
       /\ IF ~CheckBounds(c.region, c.off, c.n)
          THEN Fails
          ELSE vkCall' = {c} /\ vkAt' = "chunk" /\ UNCHANGED <<vkReply, vkSeen>>
  /\ UNCHANGED <<vkHeld, vkLen, vkBuffer, vkParts, vkAllocated, gpuVars>>

BeginZero ==
  /\ vkAt = "ready"
  /\ \E r \in VkRegions :
       /\ vkLen[r] # 0 /\ vkAt' = "chunk"
       /\ vkCall' = {[op |-> "zero", region |-> r, off |-> 0, n |-> vkLen[r], value |-> 0,
                      done |-> 0, got |-> [u \in {} |-> 0]]}
  /\ UNCHANGED <<vkHeld, regionVars, gpuVars, vkReply>>

\* zero fills the buffer whole; a copy moves at most the staging buffer.
VkChunk(c) == IF c.op = "zero" THEN c.n ELSE Min({c.n - c.done, VkStaging})

\* The caller's bytes: neighbours differ, so that a misplaced chunk shows.
Source(c, k) == (c.value + k) % 2

\* The first half of submit_wait, with the host's copy into the staging buffer.
Submit ==
  /\ vkAt = "chunk" /\ Len(vkQueue) < QueueBound
  /\ \E c \in vkCall :
       IF c.done = c.n
       THEN Returns(IF c.op = "read" THEN "read" ELSE "ok", c.got) /\ UNCHANGED gpuVars
       ELSE /\ vkStage' = IF c.op = "write"
                          THEN [u \in DOMAIN vkStage |-> IF u < VkChunk(c) THEN Source(c, c.done + u) ELSE vkStage[u]]
                          ELSE vkStage
            /\ \/ /\ vkQueue' = Append(vkQueue, [op |-> c.op, region |-> c.region,
                                                 off |-> c.off + c.done, n |-> VkChunk(c)])
                  /\ vkAt' = "waiting" /\ UNCHANGED <<vkCall, vkReply, vkSeen>>
               \/ Fails /\ UNCHANGED vkQueue
            /\ UNCHANGED vkFence
  /\ UNCHANGED <<vkHeld, vkLen, vkBuffer, vkParts, vkAllocated>>

Succeeds == IF VkWaitFails THEN BOOLEAN ELSE {TRUE}

\* Mutant: the wait does not look at the fence.
WaitUnfenced == TRUE

\* vkWaitForFences: the fence, or an error with the command still under way.
Wait == vkFence
Waits ==
  /\ vkAt = "waiting"
  /\ \E ok \in Succeeds :
       IF ok THEN Wait /\ vkAt' = "signalled" /\ UNCHANGED <<vkCall, vkReply, vkSeen>> ELSE Fails
  /\ UNCHANGED <<vkHeld, vkLen, vkBuffer, vkParts, vkAllocated, gpuVars>>

CopyOut(c) ==
  [u \in (c.off + c.done)..(c.off + c.done + VkChunk(c) - 1) |-> vkStage[u - c.off - c.done]]

\* vkResetFences, then the host's copy out of the staging buffer.
Reset ==
  /\ vkAt = "signalled"
  /\ \E c \in vkCall, ok \in Succeeds :
       IF ok
       THEN /\ vkFence' = FALSE /\ vkAt' = "chunk"
            /\ vkCall' = {[c EXCEPT !.done = @ + VkChunk(c),
                                    !.got = IF c.op = "read" THEN CopyOut(c) @@ @ ELSE @]}
            /\ UNCHANGED <<vkReply, vkSeen>>
       ELSE Fails /\ UNCHANGED vkFence
  /\ UNCHANGED <<vkHeld, vkLen, vkBuffer, vkParts, vkAllocated, vkStage, vkQueue>>

\* The GPU executes the oldest command and signals the fence.
GpuExecutes ==
  /\ vkQueue # << >>
  /\ LET c == Head(vkQueue) IN
       /\ vkStage' = IF c.op # "read" THEN vkStage ELSE
            [u \in DOMAIN vkStage |-> IF u < c.n THEN vkBuffer[c.region][c.off + u] ELSE vkStage[u]]
       /\ vkBuffer' = IF c.op = "read" THEN vkBuffer ELSE
            [vkBuffer EXCEPT ![c.region] = [u \in VkUnits |->
               IF u \notin c.off..(c.off + c.n - 1) THEN @[u]
               ELSE IF c.op = "zero" THEN 0 ELSE vkStage[u - c.off]]]
  /\ vkQueue' = Tail(vkQueue) /\ vkFence' = TRUE
  /\ UNCHANGED <<vkAt, vkHeld, vkLen, vkParts, vkAllocated, vkSeen, vkCall, vkReply>>

VkNext ==
  \/ Open \/ Create \/ Unwind \/ Close
  \/ AllocBegins \/ AllocMemory \/ AllocBinds \/ Free
  \/ Begin \/ BeginZero \/ Submit \/ Waits \/ Reset \/ GpuExecutes
VkSpec == VkInit /\ [][VkNext]_vkVars

(***************************************************************************)
(* Properties.                                                             *)
(***************************************************************************)
(***************************************************************************)
(* What a GPU provider promises (traits VramProvider and VramMemory), over *)
(* the sizes of its regions, their contents between two calls and its last *)
(* answer: regions that are allocated and released, whose writes, zeroing  *)
(* and reads are synchronous.  A write that fails may have stored any of   *)
(* its units; a read that succeeds returns what the region holds.          *)
(***************************************************************************)
promised == <<vkLen, vkSeen, vkReply>>
Span(off, n) == off..(off + n - 1)

VrInit ==
  /\ vkLen = [r \in VkRegions |-> 0] /\ vkSeen \in [VkRegions -> [VkUnits -> VkValues]]
  /\ vkReply = Says("none")

\* A new region holds whatever was there, and nobody can see what one that is gone holds.
VrSized(r, old, n) ==
  /\ vkReply' = Says("ok") /\ vkLen[r] = old /\ vkLen' = [vkLen EXCEPT ![r] = n]
  /\ \E c \in [VkUnits -> VkValues] : vkSeen' = [vkSeen EXCEPT ![r] = c]

VrAlloc == \E r \in VkRegions, n \in 1..VkMaxLen : VrSized(r, 0, n)
VrFree == \E r \in VkRegions, n \in 1..VkMaxLen : VrSized(r, n, 0)

\* Only units of the range change, each to the value given for it.
VrStore(r, data) ==
  \E some \in SUBSET DOMAIN data :
    /\ vkReply' = Says(IF some = DOMAIN data THEN "ok" ELSE "failed") \/ vkReply' = Says("failed")
    /\ vkSeen' = [vkSeen EXCEPT ![r] = [u \in VkUnits |-> IF u \in some THEN data[u] ELSE @[u]]]
    /\ UNCHANGED vkLen

VrWrite ==
  /\ vkReply' \in {Says("ok"), Says("failed")}
  /\ \E r \in VkRegions, off \in VkUnits : \E n \in 0..vkLen[r] :
       off + n <= vkLen[r] /\ \E data \in [Span(off, n) -> VkValues] : VrStore(r, data)

VrZero ==
  \E r \in VkRegions : vkLen[r] # 0 /\ VrStore(r, [u \in Span(0, vkLen[r]) |-> 0])

VrRead ==
  /\ UNCHANGED <<vkLen, vkSeen>>
  /\ \E r \in VkRegions, off \in VkUnits : \E n \in 0..vkLen[r] :
       /\ off + n <= vkLen[r]
       /\ vkReply' = [kind |-> "read", got |-> [u \in Span(off, n) |-> vkSeen[r][u]]]

\* A call that is refused, or fails without effect.
VrRefuse == vkReply' = Says("failed") /\ UNCHANGED <<vkLen, vkSeen>>

VrNext == VrAlloc \/ VrFree \/ VrWrite \/ VrZero \/ VrRead \/ VrRefuse

\* The provider keeps the promises of VramProvider and VramMemory: in particular a
\* read over several chunks returns what the writes before it stored.
ImplementsRegion == VrInit /\ [][VrNext]_promised

\* A provider that is closed or could not be opened leaves no resource behind, and
\* neither does an allocation that failed or a region that was dropped.
NothingLeft ==
  /\ vkAt = "closed" => vkHeld = {} /\ vkParts = {}
  /\ vkAt = "ready" => Building = {}

\* Nothing is destroyed before what lives in it, and no part of a region while a
\* submitted command uses it ("destroyed exactly once, in reverse order").
Outlived ==
  /\ \A x \in vkHeld \ vkHeld' : \A y \in vkHeld' \ {"instance"} : LivesIn[y] # x
  /\ "device" \in vkHeld \ vkHeld' => vkParts = {} /\ vkQueue = << >>
  /\ \A x \in vkParts \ vkParts' : \A i \in 1..Len(vkQueue) : vkQueue[i].region # x.region
ChildrenFirst == [][Outlived]_vkVars

\* The memory mem_info calls free is what is not in a live region, after any
\* sequence of allocations and releases, the failed ones included.
FreeIsTrue ==
  LET used == MapThenSumSet(LAMBDA r : vkLen[r], VkRegions)
  IN MemInfo.free = IF used <= VkHeap THEN VkHeap - used ELSE 0

\* All of it together, for any sequence of opens, allocations, transfers, releases
\* and failures of the provider.
VkContract == [](VkTypeOK /\ NothingLeft /\ FreeIsTrue) /\ ChildrenFirst /\ ImplementsRegion
=============================================================================
