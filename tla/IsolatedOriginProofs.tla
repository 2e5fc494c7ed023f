------------------------ MODULE IsolatedOriginProofs -------------------------
(***************************************************************************)
(* Proofs about IsolatedOrigin, for any blocks, values and queue capacity  *)
(* and for every delay, failure and exit of the cache worker.  IsoSafe is  *)
(* itself inductive: CacheChasesOrigin speaks of the requests still on     *)
(* their way, and OneReadAwaited says which of them may still be answered, *)
(* so that the answer to a read finds nothing left to apply.               *)
(***************************************************************************)
EXTENDS IsolatedOrigin, TLAPS

\* What a store sends and what a read sends are requests, and none is like "none".
LEMMA RequestType ==
    /\ \A b \in IsoBlocks : ReadRequest(b) \in IsoRequest
    /\ \A b \in IsoBlocks, v \in IsoValues : StoreRequest(b, v) \in IsoRequest
    /\ \A r \in IsoRequest : Abandoned(r) \in IsoRequest /\ ~Abandoned(r).wanted
    /\ NoRequest \in NoRequests
    /\ \A r \in NoRequests : Abandoned(r) \in NoRequests /\ r.kind = "none" /\ ~r.wanted
    /\ NoRequest.kind = "none" /\ ~NoRequest.wanted
  <1>1. \A b \in IsoBlocks : ReadRequest(b) \in IsoRequest BY DEF IsoRequest, ReadRequest
  <1>2. \A b \in IsoBlocks, v \in IsoValues : StoreRequest(b, v) \in IsoRequest
    BY DEF IsoRequest, StoreRequest
  <1>3. ASSUME NEW r \in IsoRequest PROVE Abandoned(r) \in IsoRequest /\ ~Abandoned(r).wanted
    BY Zenon DEF IsoRequest, Abandoned
  <1>4. NoRequest \in NoRequests BY DEF NoRequests, NoRequest
  <1>6. \A r \in NoRequests : Abandoned(r) \in NoRequests /\ r.kind = "none" /\ ~r.wanted
    BY Zenon DEF NoRequests, Abandoned
  <1>5. NoRequest.kind = "none" /\ ~NoRequest.wanted BY DEF NoRequest
  <1> QED BY <1>1, <1>2, <1>3, <1>4, <1>5, <1>6

\* A store at the end of the queue becomes the last store of its block and leaves
\* the last stores of the other blocks what they were.
LEMMA QueuedAppend ==
    ASSUME IsoTypeOK, NEW r \in IsoRequest, requests' = Append(requests, r)
    PROVE  /\ Len(requests') = Len(requests) + 1 /\ Len(requests) \in Nat
           /\ requests'[Len(requests) + 1] = r
           /\ \A i \in 1..Len(requests) : requests'[i] = requests[i]
           /\ \A b \in IsoBlocks : Stores(r, b) => Queued(b)' = Queued(b) \cup {Len(requests) + 1}
           /\ \A b \in IsoBlocks : ~Stores(r, b) => Queued(b)' = Queued(b)
  <1>1. requests \in Seq(IsoRequest) BY DEF IsoTypeOK
  <1>2. /\ Len(requests') = Len(requests) + 1 /\ Len(requests) \in Nat
        /\ requests'[Len(requests) + 1] = r
        /\ \A i \in 1..Len(requests) : requests'[i] = requests[i]
    BY <1>1
  <1>3. \A b \in IsoBlocks : Stores(r, b) => Queued(b)' = Queued(b) \cup {Len(requests) + 1}
    BY <1>2 DEF Queued
  <1>4. \A b \in IsoBlocks : ~Stores(r, b) => Queued(b)' = Queued(b)
    BY <1>2 DEF Queued
  <1> QED BY <1>2, <1>3, <1>4

\* The chase after a request has been queued: a store carries what the origin now
\* holds of its block, a read changes nothing.
LEMMA ChaseAppend ==
    ASSUME IsoTypeOK, CacheChasesOrigin, NEW r \in IsoRequest, requests' = Append(requests, r),
           client = "Active", isoOriginState = "Ready", hand' = hand, store' = store,
           \A b \in IsoBlocks : ~Stores(r, b) => isoOrigin'[b] = isoOrigin[b],
           \A b \in IsoBlocks : Stores(r, b) => r.value = isoOrigin'[b]
    PROVE  CacheChasesOrigin'
  <1> SUFFICES ASSUME NEW b \in IsoBlocks
               PROVE  /\ \A i \in Queued(b)' : (\A j \in Queued(b)' : j <= i) => requests'[i].value = isoOrigin'[b]
                      /\ Queued(b)' = {} /\ Stores(hand, b)' => hand'.value = isoOrigin'[b]
                      /\ Queued(b)' = {} /\ ~Stores(hand, b)' => store'[b] \in {IsoNothing, isoOrigin'[b]}
    BY Zenon DEF CacheChasesOrigin
  <1>1. /\ \A i \in Queued(b) : (\A j \in Queued(b) : j <= i) => requests[i].value = isoOrigin[b]
        /\ Queued(b) = {} /\ Stores(hand, b) => hand.value = isoOrigin[b]
        /\ Queued(b) = {} /\ ~Stores(hand, b) => store[b] \in {IsoNothing, isoOrigin[b]}
    BY DEF CacheChasesOrigin
  <1>2. /\ Len(requests) \in Nat
        /\ requests'[Len(requests) + 1] = r
        /\ \A i \in 1..Len(requests) : requests'[i] = requests[i]
        /\ Stores(r, b) => Queued(b)' = Queued(b) \cup {Len(requests) + 1}
        /\ ~Stores(r, b) => Queued(b)' = Queued(b)
    BY QueuedAppend
  <1>3. Queued(b) \subseteq 1..Len(requests) BY DEF Queued
  <1>4. Stores(hand, b)' <=> Stores(hand, b) BY DEF Stores
  <1>5. CASE Stores(r, b)
    <2>1. r.value = isoOrigin'[b] BY <1>5
    <2>2. \A i \in Queued(b)' : (\A j \in Queued(b)' : j <= i) => i = Len(requests) + 1
      BY <1>2, <1>3, <1>5
    <2> QED BY <1>2, <1>5, <2>1, <2>2, Zenon
  <1>6. CASE ~Stores(r, b)
    BY <1>1, <1>2, <1>3, <1>4, <1>6
  <1> QED BY <1>5, <1>6, Zenon

\* send_mutation with what the origin now holds of the block, by a thread that waits
\* for no read.
LEMMA SendKeeps ==
    ASSUME IsoSafe, NEW b \in IsoBlocks, NEW v \in IsoValues, SendMutation(b, v),
           pc \in {"idle", "fallback"}, UNCHANGED <<isoHealthVars, disablePending, block, workerVars>>,
           isoOrigin'[b] = v, \A c \in IsoBlocks : c # b => isoOrigin'[c] = isoOrigin[c]
    PROVE  /\ requests' \in Seq(IsoRequest) /\ Len(requests') <= Capacity
           /\ client' \in {"Active", "Unavailable", "Off", "Stuck"}
           /\ pc' \in {"idle", "revoke"} /\ after' \in {"idle", "fallback"}
           /\ OffMeansGone' /\ FailedOriginCutsCache' /\ CacheChasesOrigin' /\ OneReadAwaited'
  <1> USE DEF workerVars, isoHealthVars
  <1>1. StoreRequest(b, v) \in IsoRequest /\ ~StoreRequest(b, v).wanted
    BY RequestType DEF StoreRequest
  <1>2. IsoTypeOK /\ Capacity \in Nat BY IsolatedAssumption DEF IsoSafe
  <1>3. requests' \in Seq(IsoRequest) /\ Len(requests') <= Capacity
    BY <1>1, <1>2 DEF SendMutation, Sendable, IsoTypeOK
  <1>4. /\ client' \in {"Active", "Unavailable", "Off", "Stuck"}
        /\ pc' \in {"idle", "revoke"} /\ after' \in {"idle", "fallback"}
    BY <1>2 DEF SendMutation, IsoTypeOK
  <1>5. OffMeansGone' BY DEF IsoSafe, OffMeansGone, SendMutation
  <1>6. FailedOriginCutsCache'
    BY DEF IsoSafe, FailedOriginCutsCache, SendMutation
  <1>7. CacheChasesOrigin'
    <2>1. CASE client' # "Active" BY <2>1 DEF CacheChasesOrigin
    <2>2. CASE isoOriginState # "Ready" BY <2>2 DEF CacheChasesOrigin
    <2>3. CASE client' = "Active" /\ isoOriginState = "Ready"
      <3>1. requests' = Append(requests, StoreRequest(b, v)) /\ client = "Active"
        BY <2>3 DEF SendMutation
      <3>2. \A c \in IsoBlocks : Stores(StoreRequest(b, v), c) <=> c = b
        BY DEF Stores, StoreRequest
      <3>3. StoreRequest(b, v).value = v BY DEF StoreRequest
      <3> QED BY <1>1, <1>2, <2>3, <3>1, <3>2, <3>3, ChaseAppend DEF IsoSafe
    <2> QED BY <2>1, <2>2, <2>3
  <1>8. OneReadAwaited'
    <2>1. ~hand.wanted /\ \A i \in 1..Len(requests) : ~requests[i].wanted
      BY DEF IsoSafe, OneReadAwaited
    <2>2. \A i \in 1..Len(requests') : ~requests'[i].wanted
      <3>1. CASE requests' = requests BY <2>1, <3>1
      <3>2. CASE requests' = Append(requests, StoreRequest(b, v))
        BY <1>1, <1>2, <2>1, <3>2, QueuedAppend
      <3> QED BY <3>1, <3>2 DEF SendMutation
    <2> QED BY <1>4, <2>1, <2>2 DEF OneReadAwaited
  <1> QED BY <1>3, <1>4, <1>5, <1>6, <1>7, <1>8

\* mark_origin_failed: the origin is failed and a revocation is on its way, whatever
\* has become of the contents.
LEMMA FailedKeeps ==
    ASSUME IsoSafe, IsoMarkOriginFailed, pc \in {"idle", "fallback"},
           UNCHANGED <<client, queueVars, block, workerVars>>,
           isoOrigin' \in [IsoBlocks -> IsoValues], isoSurvivors' \in [IsoBlocks -> SUBSET IsoValues],
           isoDirty' \in BOOLEAN, \A b \in IsoBlocks : isoOrigin'[b] \in isoSurvivors'[b]
    PROVE  IsoSafe'
  <1> USE DEF IsoSafe, IsoMarkOriginFailed, queueVars, workerVars
  <1>1. IsoTypeOK' BY IsolatedAssumption DEF IsoTypeOK
  <1>2. OffMeansGone' BY DEF OffMeansGone
  <1>3. FailedOriginCutsCache' /\ CacheChasesOrigin' BY DEF FailedOriginCutsCache, CacheChasesOrigin
  <1>4. OneReadAwaited' BY DEF OneReadAwaited
  <1>5. IsoCleanMeansDurable' BY DEF IsoCleanMeansDurable
  <1> QED BY <1>1, <1>2, <1>3, <1>4, <1>5

\* A step of the thread that leaves the cache and the queues alone.
LEMMA QuietKeeps ==
    ASSUME IsoSafe, UNCHANGED <<isoOrigin, client, queueVars, threadVars, workerVars>>,
           isoSurvivors' \in [IsoBlocks -> SUBSET IsoValues], isoDirty' \in BOOLEAN,
           isoOriginState' \in {"Ready", "Degraded", "Failed"}, isoProbes' \in 0..IsoProbesToReady,
           isoOriginState' = isoOriginState \/ (isoOriginState # "Ready" /\ pc = "idle"),
           IsoCleanMeansDurable'
    PROVE  IsoSafe'
  <1> USE DEF IsoSafe, queueVars, workerVars, threadVars
  <1>1. IsoTypeOK' BY DEF IsoTypeOK
  <1>2. OffMeansGone' BY DEF OffMeansGone
  <1>3. FailedOriginCutsCache' BY DEF FailedOriginCutsCache
  <1>4. CacheChasesOrigin' BY DEF CacheChasesOrigin, FailedOriginCutsCache, Queued
  <1>5. OneReadAwaited' BY DEF OneReadAwaited
  <1> QED BY <1>1, <1>2, <1>3, <1>4, <1>5

\* A request starts, or is served, from the idle state.
LEMMA StartKeeps ==
    ASSUME IsoSafe, StartRequest
    PROVE  IsoSafe'
  <1> USE DEF Idle
  <1>0. IsoTypeOK /\ IsoCleanMeansDurable BY DEF IsoSafe
  <1>1. CASE IsoRefuse
    BY <1>0, <1>1, QuietKeeps DEF IsoRefuse, isoOriginVars, isoHealthVars, IsoTypeOK, IsoCleanMeansDurable
  <1>2. CASE IsoFlush
    <2>1. isoSurvivors' \in [IsoBlocks -> SUBSET IsoValues] /\ isoDirty' = FALSE
      BY <1>0, <1>2 DEF IsoFlush, IsoTypeOK, IsoDevice!Durable
    <2>2. IsoCleanMeansDurable'
      BY <1>0, <1>2 DEF IsoFlush, IsoCleanMeansDurable, IsoDevice!Durable, isoHealthVars, IsoTypeOK
    <2> QED BY <1>0, <1>2, <2>1, <2>2, QuietKeeps, Zenon DEF IsoFlush, isoHealthVars, IsoTypeOK
  <1>3. CASE IsoProbeOk
    <2>1. isoSurvivors' \in [IsoBlocks -> SUBSET IsoValues] /\ isoDirty' = FALSE
      BY <1>0, <1>3 DEF IsoProbeOk, IsoTypeOK, IsoDevice!Durable
    <2>2. IsoCleanMeansDurable'
      BY <1>0, <1>3 DEF IsoProbeOk, IsoCleanMeansDurable, IsoDevice!Durable, IsoTypeOK
    <2>3. /\ isoOriginState' \in {"Ready", "Degraded", "Failed"} /\ isoProbes' \in 0..IsoProbesToReady
          /\ isoOriginState' = isoOriginState \/ isoOriginState # "Ready"
      BY <1>0, <1>3, IsolatedAssumption DEF IsoProbeOk, isoHealthVars, IsoTypeOK
    <2> QED BY <1>3, <2>1, <2>2, <2>3, QuietKeeps, Zenon DEF IsoProbeOk
  <1>4. CASE FlushFails \/ IsoProbeFails
    BY <1>0, <1>4, FailedKeeps DEF FlushFails, IsoProbeFails, SyncFails, IsoDevice!Remains, IsoTypeOK
  <1>5. CASE IsoReleaseCache
    <2> USE <1>5 DEF IsoReleaseCache, isoOriginVars, isoHealthVars, queueVars, workerVars, IsoSafe
    <2>1. IsoTypeOK' BY DEF IsoTypeOK
    <2>2. OffMeansGone' /\ FailedOriginCutsCache' BY DEF OffMeansGone, FailedOriginCutsCache
    <2>3. CacheChasesOrigin' BY DEF CacheChasesOrigin, Queued
    <2>4. OneReadAwaited' BY DEF OneReadAwaited
    <2>5. IsoCleanMeansDurable' BY DEF IsoCleanMeansDurable
    <2> QED BY <2>1, <2>2, <2>3, <2>4, <2>5
  <1>6. ASSUME NEW b \in IsoBlocks, StartRead(b) PROVE IsoSafe'
    <2> USE DEF isoOriginVars, isoHealthVars, workerVars
    <2>1. ReadRequest(b) \in IsoRequest /\ ReadRequest(b).block = b /\ \A c : ~Stores(ReadRequest(b), c)
      BY RequestType DEF ReadRequest, Stores
    <2>2. IsoTypeOK'
      <3>1. requests' \in Seq(IsoRequest) /\ Len(requests') <= Capacity
        <4>1. requests \in Seq(IsoRequest) /\ Len(requests) <= Capacity /\ Capacity \in Nat
          BY <1>0, IsolatedAssumption DEF IsoTypeOK
        <4>2. requests' = requests \/ (Len(requests) < Capacity /\ requests' = Append(requests, ReadRequest(b)))
          BY <1>6 DEF StartRead, Sendable
        <4> QED BY <2>1, <4>1, <4>2
      <3>2. /\ client' \in {"Active", "Unavailable", "Off", "Stuck"}
            /\ pc' \in {"readWait", "fallback", "revoke"} /\ after' \in {"idle", "fallback"} /\ block' \in IsoBlocks
        BY <1>0, <1>6 DEF StartRead, IsoTypeOK
      <3> QED BY <1>0, <1>6, <3>1, <3>2 DEF StartRead, IsoTypeOK
    <2>3. OffMeansGone' /\ FailedOriginCutsCache' /\ IsoCleanMeansDurable'
      BY <1>6 DEF IsoSafe, StartRead, OffMeansGone, FailedOriginCutsCache, IsoCleanMeansDurable
    <2>4. CacheChasesOrigin'
      <3>1. CASE client' # "Active" BY <3>1 DEF CacheChasesOrigin
      <3>2. CASE client' = "Active"
        <4>1. requests' = Append(requests, ReadRequest(b)) /\ client = "Active" /\ isoOriginState = "Ready"
          BY <1>6, <3>2 DEF StartRead
        <4> QED BY <1>0, <1>6, <2>1, <4>1, ChaseAppend DEF IsoSafe, StartRead
      <3> QED BY <3>1, <3>2
    <2>5. OneReadAwaited'
      <3>1. ~hand.wanted /\ \A i \in 1..Len(requests) : ~requests[i].wanted
        BY <1>6 DEF IsoSafe, OneReadAwaited, StartRead
      <3>2. CASE requests' = requests /\ pc' # "readWait" BY <1>6, <3>1, <3>2 DEF OneReadAwaited, StartRead
      <3>3. CASE requests' = Append(requests, ReadRequest(b)) /\ pc' = "readWait" /\ client' = "Active"
        <4>1. /\ Len(requests') = Len(requests) + 1 /\ Len(requests) \in Nat
              /\ requests'[Len(requests) + 1] = ReadRequest(b)
              /\ \A i \in 1..Len(requests) : requests'[i] = requests[i]
          BY <1>0, <2>1, <3>3, QueuedAppend
        <4>2. \A i \in 1..Len(requests') : requests'[i].wanted => i = Len(requests')
          BY <3>1, <4>1
        <4> QED BY <1>6, <2>1, <3>1, <3>3, <4>1, <4>2 DEF OneReadAwaited, StartRead
      <3> QED BY <1>6, <3>2, <3>3 DEF StartRead
    <2> QED BY <2>2, <2>3, <2>4, <2>5 DEF IsoSafe
  <1>7. ASSUME NEW b \in IsoBlocks, NEW v \in IsoValues, NEW fua \in BOOLEAN, Write(b, v, fua)
        PROVE  IsoSafe'
    <2>1. /\ isoOrigin' \in [IsoBlocks -> IsoValues] /\ isoOrigin'[b] = v
          /\ \A c \in IsoBlocks : c # b => isoOrigin'[c] = isoOrigin[c]
      BY <1>0, <1>7 DEF Write, IsoTypeOK
    <2>2. isoSurvivors' \in [IsoBlocks -> SUBSET IsoValues] /\ isoDirty' \in BOOLEAN
      BY <1>0, <1>7, <2>1 DEF Write, IsoTypeOK, IsoDevice!Durable
    <2>3. /\ requests' \in Seq(IsoRequest) /\ Len(requests') <= Capacity
          /\ client' \in {"Active", "Unavailable", "Off", "Stuck"}
          /\ pc' \in {"idle", "revoke"} /\ after' \in {"idle", "fallback"}
          /\ OffMeansGone' /\ FailedOriginCutsCache' /\ CacheChasesOrigin' /\ OneReadAwaited'
      BY <1>7, <2>1, SendKeeps DEF Write
    <2>4. IsoTypeOK'
      BY <1>0, <1>7, <2>1, <2>2, <2>3, Zenon DEF Write, IsoTypeOK, isoHealthVars, workerVars
    <2>5. IsoCleanMeansDurable'
      <3>1. CASE fua
        BY <1>7, <2>1, <3>1 DEF Write, IsoCleanMeansDurable, IsoDevice!Durable
      <3>2. CASE ~fua
        BY <1>0, <1>7, <2>1, <3>2, Zenon DEF Write, IsoCleanMeansDurable, isoHealthVars, IsoTypeOK
      <3> QED BY <3>1, <3>2
    <2> QED BY <2>3, <2>4, <2>5 DEF IsoSafe
  <1>8. ASSUME NEW b \in IsoBlocks, NEW v \in IsoValues, NEW fua \in BOOLEAN, WriteFails(b, v, fua)
        PROVE  IsoSafe'
    <2>1. /\ isoOrigin' \in [IsoBlocks -> IsoValues] /\ isoSurvivors' \in [IsoBlocks -> SUBSET IsoValues]
          /\ isoDirty' \in BOOLEAN /\ \A c \in IsoBlocks : isoOrigin'[c] \in isoSurvivors'[c]
      <3>0. \A c \in IsoBlocks : isoOrigin[c] \in isoSurvivors[c] BY <1>0 DEF IsoCleanMeansDurable
      <3>1. [isoSurvivors EXCEPT ![b] = @ \cup {v}] \in [IsoBlocks -> SUBSET IsoValues]
        BY <1>0 DEF IsoTypeOK
      <3>2. CASE fua
        BY <1>8, <3>1, <3>2 DEF WriteFails, IsoDevice!Remains
      <3>3. CASE ~fua
        BY <1>0, <1>8, <3>0, <3>1, <3>3 DEF WriteFails, IsoTypeOK
      <3> QED BY <3>2, <3>3
    <2> QED BY <1>8, <2>1, FailedKeeps DEF WriteFails
  <1> QED BY <1>1, <1>2, <1>3, <1>4, <1>5, <1>6, <1>7, <1>8 DEF StartRequest

\* What the thread does on its own: it revokes, times out or falls back.
LEMMA ProceedKeeps ==
    ASSUME IsoSafe, Proceed
    PROVE  IsoSafe'
  <1>0. IsoTypeOK BY DEF IsoSafe
  <1>1. CASE Revoke \/ AckTimeout
    <2> USE <1>1 DEF Revoke, AckTimeout, isoOriginVars, isoHealthVars, queueVars, workerVars, IsoSafe
    <2>1. IsoTypeOK' BY Zenon DEF IsoTypeOK
    <2>2. OffMeansGone' BY DEF OffMeansGone
    <2>3. FailedOriginCutsCache' BY DEF FailedOriginCutsCache
    <2>4. CacheChasesOrigin' BY DEF CacheChasesOrigin, Queued
    <2>5. OneReadAwaited' BY <1>0, Zenon DEF OneReadAwaited, IsoTypeOK
    <2>6. IsoCleanMeansDurable' BY DEF IsoCleanMeansDurable
    <2> QED BY <2>1, <2>2, <2>3, <2>4, <2>5, <2>6
  <1>2. CASE ReadTimeout
    <2> USE <1>2 DEF ReadTimeout, isoOriginVars, isoHealthVars
    <2>1. /\ requests \in Seq(IsoRequest) /\ Len(requests) \in Nat
          /\ \A i \in 1..Len(requests) : requests[i] \in IsoRequest
      BY <1>0 DEF IsoTypeOK
    <2>2. \A i \in 1..Len(requests) : Abandoned(requests[i]) \in IsoRequest /\ ~Abandoned(requests[i]).wanted
      BY <2>1, RequestType
    <2>3. requests' \in Seq(IsoRequest) /\ Len(requests') = Len(requests)
      BY <2>1, <2>2
    <2>4. \A i \in 1..Len(requests') : ~requests'[i].wanted BY <2>1, <2>2, <2>3
    <2>5. hand' \in IsoRequest \cup NoRequests /\ ~hand'.wanted
      BY <1>0, RequestType DEF IsoTypeOK
    <2>6. IsoTypeOK' BY <1>0, <2>3, <2>5, Zenon DEF IsoTypeOK
    <2>7. OffMeansGone' /\ FailedOriginCutsCache' /\ CacheChasesOrigin' /\ IsoCleanMeansDurable'
      BY DEF IsoSafe, OffMeansGone, FailedOriginCutsCache, CacheChasesOrigin, IsoCleanMeansDurable
    <2>8. OneReadAwaited' BY <2>4, <2>5 DEF OneReadAwaited
    <2> QED BY <2>6, <2>7, <2>8 DEF IsoSafe
  <1>3. CASE Fallback
    <2>1. isoOrigin[block] \in IsoValues /\ block \in IsoBlocks BY <1>0 DEF IsoTypeOK
    <2>2. isoOrigin' = isoOrigin BY <1>3 DEF Fallback, isoOriginVars
    <2>3. /\ requests' \in Seq(IsoRequest) /\ Len(requests') <= Capacity
          /\ client' \in {"Active", "Unavailable", "Off", "Stuck"}
          /\ pc' \in {"idle", "revoke"} /\ after' \in {"idle", "fallback"}
          /\ OffMeansGone' /\ FailedOriginCutsCache' /\ CacheChasesOrigin' /\ OneReadAwaited'
      BY <1>3, <2>1, <2>2, SendKeeps, Zenon DEF Fallback
    <2>4. IsoTypeOK'
      BY <1>0, <1>3, <2>3 DEF Fallback, IsoTypeOK, isoOriginVars, isoHealthVars, workerVars
    <2>5. IsoCleanMeansDurable'
      BY <1>3, Zenon DEF Fallback, IsoSafe, IsoCleanMeansDurable, isoOriginVars, isoHealthVars
    <2> QED BY <2>3, <2>4, <2>5 DEF IsoSafe
  <1>4. CASE FallbackFails
    BY <1>0, <1>4, FailedKeeps DEF FallbackFails, isoOriginVars, IsoTypeOK, IsoSafe, IsoCleanMeansDurable
  <1> QED BY <1>1, <1>2, <1>3, <1>4 DEF Proceed

\* The worker takes the next request: a store that was the last one of its block in
\* the queue is now the one in its hand.
LEMMA TakesKeeps ==
    ASSUME IsoSafe, WorkerTakes
    PROVE  IsoSafe'
  <1> USE DEF WorkerTakes, isoOriginVars, isoHealthVars, threadVars
  <1>0. IsoTypeOK BY Zenon DEF IsoSafe
  <1>1. requests \in Seq(IsoRequest) /\ requests # << >> BY <1>0 DEF IsoTypeOK
  <1>2. /\ Len(requests) \in Nat \ {0} /\ Len(requests') = Len(requests) - 1
        /\ requests' \in Seq(IsoRequest) /\ requests[1] \in IsoRequest /\ hand' = requests[1]
        /\ \A i \in 1..Len(requests') : requests'[i] = requests[i + 1]
    BY <1>1
  <1>3. IsoTypeOK' BY <1>0, <1>2, IsolatedAssumption DEF IsoTypeOK
  <1>4. OffMeansGone' /\ FailedOriginCutsCache' /\ IsoCleanMeansDurable'
    BY DEF IsoSafe, OffMeansGone, FailedOriginCutsCache, IsoCleanMeansDurable
  <1>5. OneReadAwaited'
    <2>0. \A i \in 1..Len(requests) :
            requests[i].wanted => requests[i].block = block /\ i = Len(requests) /\ pc = "readWait"
      BY DEF IsoSafe, OneReadAwaited
    <2>1. ASSUME hand'.wanted PROVE requests' = << >> /\ hand'.block = block /\ pc = "readWait"
      <3>1. 1 \in 1..Len(requests) BY <1>2
      <3>2. requests[1].wanted BY <1>2, <2>1, Zenon
      <3>3. requests[1].block = block /\ 1 = Len(requests) /\ pc = "readWait"
        BY <2>0, <3>1, <3>2, Zenon
      <3> QED BY <1>2, <3>3
    <2>2. \A m, n, i \in Nat : m = n - 1 /\ i + 1 = n => i = m OBVIOUS
    <2>3. ASSUME NEW i \in 1..Len(requests'), requests'[i].wanted
          PROVE  requests'[i].block = block /\ i = Len(requests') /\ pc = "readWait"
      <3>1. i + 1 \in 1..Len(requests) /\ requests'[i] = requests[i + 1] BY <1>2
      <3>2. requests[i + 1].wanted BY <2>3, <3>1, Zenon
      <3>3. requests[i + 1].block = block /\ i + 1 = Len(requests) /\ pc = "readWait"
        BY <2>0, <3>1, <3>2, Zenon
      <3>4. requests'[i].block = block BY <3>1, <3>3, Zenon
      <3>5. i \in Nat /\ Len(requests') \in Nat /\ Len(requests) \in Nat BY <1>2
      <3>6. i = Len(requests') BY <1>2, <2>2, <3>3, <3>5, Zenon
      <3> QED BY <3>3, <3>4, <3>6
    <2> QED BY <2>1, <2>3 DEF IsoSafe, OneReadAwaited
  <1>6. CacheChasesOrigin'
    <2> SUFFICES ASSUME client = "Active", isoOriginState = "Ready", NEW b \in IsoBlocks
                 PROVE  /\ \A i \in Queued(b)' : (\A j \in Queued(b)' : j <= i) => requests'[i].value = isoOrigin[b]
                        /\ Queued(b)' = {} /\ Stores(hand, b)' => hand'.value = isoOrigin[b]
                        /\ Queued(b)' = {} /\ ~Stores(hand, b)' => store[b] \in {IsoNothing, isoOrigin[b]}
      BY Zenon DEF CacheChasesOrigin, workerVars
    <2>1. /\ \A i \in Queued(b) : (\A j \in Queued(b) : j <= i) => requests[i].value = isoOrigin[b]
          /\ Queued(b) = {} /\ ~Stores(hand, b) => store[b] \in {IsoNothing, isoOrigin[b]}
      BY DEF IsoSafe, CacheChasesOrigin
    <2>2. ~Stores(hand, b) BY RequestType DEF Stores
    <2>3. Queued(b)' = {i \in 1..(Len(requests) - 1) : i + 1 \in Queued(b)}
      BY <1>2 DEF Queued
    <2>4. Queued(b) \subseteq 1..Len(requests) BY DEF Queued
    <2>5. Stores(hand, b)' <=> 1 \in Queued(b) BY <1>2 DEF Queued, Stores
    <2>6. \A i \in Queued(b)' : (\A j \in Queued(b)' : j <= i) => requests'[i].value = isoOrigin[b]
      <3> SUFFICES ASSUME NEW i \in Queued(b)', \A j \in Queued(b)' : j <= i
                   PROVE  requests'[i].value = isoOrigin[b]
        BY Zenon
      <3>1. i + 1 \in Queued(b) /\ requests'[i] = requests[i + 1] BY <1>2, <2>3
      <3>2. ASSUME NEW j \in Queued(b) PROVE j <= i + 1
        <4>1. j \in 1..Len(requests) /\ i \in 1..Len(requests) - 1 BY <2>3, <2>4
        <4>2. CASE j = 1 BY <4>1, <4>2, <1>2
        <4>3. CASE j # 1
          <5>1. j - 1 \in Queued(b)' BY <4>1, <4>3, <1>2, <2>3
          <5>2. j - 1 <= i BY <5>1
          <5> QED BY <5>2, <4>1, <1>2
        <4> QED BY <4>2, <4>3
      <3> QED BY <2>1, <3>1, <3>2, Zenon
    <2>7. Queued(b)' = {} => Queued(b) \subseteq {1}
      <3> SUFFICES ASSUME NEW i \in Queued(b), i # 1 PROVE Queued(b)' # {} OBVIOUS
      <3>1. i \in 1..Len(requests) BY <2>4
      <3>2. i - 1 \in 1..(Len(requests) - 1) /\ (i - 1) + 1 = i BY <1>2, <3>1
      <3> QED BY <2>3, <3>2
    <2>8. Queued(b)' = {} /\ Stores(hand, b)' => hand'.value = isoOrigin[b]
      BY <1>2, <2>1, <2>5, <2>7, SMTT(30)
    <2>9. Queued(b)' = {} /\ ~Stores(hand, b)' => store[b] \in {IsoNothing, isoOrigin[b]}
      BY <2>1, <2>2, <2>5, <2>7
    <2> QED BY <2>6, <2>8, <2>9, Zenon
  <1> QED BY <1>3, <1>4, <1>5, <1>6 DEF IsoSafe

\* What else the worker does with the request in its hand, with a Disable, or on its
\* way out.
LEMMA WorkerKeeps ==
    ASSUME IsoSafe, Worker
    PROVE  IsoSafe'
  <1>0. IsoTypeOK BY DEF IsoSafe
  <1>1. CASE WorkerTakes BY <1>1, TakesKeeps
  <1>2. CASE WorkerStores
    <2> USE DEF isoOriginVars, isoHealthVars, queueVars, threadVars
    <2>1. PICK v \in {IsoNothing} \cup (IF workerOff THEN {} ELSE {hand.value}) :
            store' = [store EXCEPT ![hand.block] = v]
      BY <1>2, Zenon DEF WorkerStores
    <2>2. hand \in IsoRequest /\ hand.block \in IsoBlocks /\ hand.value \in IsoValues
      BY <1>0, <1>2, RequestType, Zenon DEF WorkerStores, IsoTypeOK, IsoRequest
    <2>3. store' \in [IsoBlocks -> IsoValues \cup {IsoNothing}] BY <1>0, <2>1, <2>2 DEF IsoTypeOK
    <2>4. hand' = NoRequest /\ NoRequest \in NoRequests /\ ~NoRequest.wanted
      BY <1>2, RequestType DEF WorkerStores
    <2>5. IsoTypeOK' BY <1>0, <1>2, <2>3, <2>4, Zenon DEF WorkerStores, IsoTypeOK
    <2>6. OffMeansGone' BY <1>0, <1>2, <2>1, <2>2 DEF IsoSafe, WorkerStores, OffMeansGone, IsoTypeOK
    <2>7. FailedOriginCutsCache' /\ IsoCleanMeansDurable'
      BY <1>2 DEF IsoSafe, WorkerStores, FailedOriginCutsCache, IsoCleanMeansDurable
    <2>8. OneReadAwaited' BY <1>2, <2>4 DEF IsoSafe, WorkerStores, OneReadAwaited
    <2>9. CacheChasesOrigin'
      <3> SUFFICES ASSUME client = "Active", isoOriginState = "Ready", NEW b \in IsoBlocks
                   PROVE  /\ \A i \in Queued(b) : (\A j \in Queued(b) : j <= i) => requests[i].value = isoOrigin[b]
                          /\ Queued(b) = {} => store'[b] \in {IsoNothing, isoOrigin[b]}
        BY <1>2, <2>4, RequestType, Zenon DEF CacheChasesOrigin, WorkerStores, Queued, Stores
      <3>1. /\ \A i \in Queued(b) : (\A j \in Queued(b) : j <= i) => requests[i].value = isoOrigin[b]
            /\ Queued(b) = {} /\ Stores(hand, b) => hand.value = isoOrigin[b]
            /\ Queued(b) = {} /\ ~Stores(hand, b) => store[b] \in {IsoNothing, isoOrigin[b]}
        BY DEF IsoSafe, CacheChasesOrigin
      <3>2. Stores(hand, b) <=> hand.block = b BY <1>2 DEF WorkerStores, Stores
      <3>3. store'[b] = IF hand.block = b THEN v ELSE store[b] BY <1>0, <2>1, <2>2 DEF IsoTypeOK
      <3> QED BY <2>1, <3>1, <3>2, <3>3, Zenon
    <2> QED BY <2>5, <2>6, <2>7, <2>8, <2>9 DEF IsoSafe
  <1>3. CASE WorkerAnswers
    <2> USE DEF isoOriginVars, isoHealthVars, queueVars
    <2>1. hand' = NoRequest /\ NoRequest \in NoRequests /\ ~NoRequest.wanted /\ NoRequest.kind = "none"
      BY <1>3, RequestType DEF WorkerAnswers
    <2>2. \A b : ~Stores(hand, b) /\ ~Stores(hand, b)' BY <1>3, <2>1 DEF WorkerAnswers, Stores
    <2>3. /\ client' \in {client, "Unavailable"} /\ pc' \in {pc, "idle", "fallback", "revoke"}
          /\ after' \in {after, "fallback"} /\ (hand.wanted \/ UNCHANGED <<client, pc, after>>)
      BY <1>3 DEF WorkerAnswers
    <2>4. hand.wanted => requests = << >> /\ pc = "readWait" BY DEF IsoSafe, OneReadAwaited
    <2>5. IsoTypeOK' BY <1>0, <1>3, <2>1, <2>3, Zenon DEF WorkerAnswers, IsoTypeOK
    <2>6. OffMeansGone' /\ IsoCleanMeansDurable'
      BY <1>3, <2>3, Zenon DEF IsoSafe, WorkerAnswers, OffMeansGone, IsoCleanMeansDurable
    <2>7. FailedOriginCutsCache'
      BY <1>3, <2>3, <2>4 DEF IsoSafe, WorkerAnswers, FailedOriginCutsCache
    <2>8. OneReadAwaited'
      <3>1. CASE hand.wanted
        <4>1. requests' = << >> /\ Len(requests') = 0 BY <1>3, <2>4, <3>1 DEF WorkerAnswers
        <4>2. pc' # "readWait" BY <1>3, <3>1 DEF WorkerAnswers
        <4> QED BY <2>1, <4>1, <4>2 DEF OneReadAwaited
      <3>2. CASE ~hand.wanted
        BY <1>3, <2>1, <2>3, <3>2, Zenon DEF IsoSafe, WorkerAnswers, OneReadAwaited
      <3> QED BY <3>1, <3>2
    <2>9. CacheChasesOrigin'
      BY <1>3, <2>2, <2>3, Zenon DEF IsoSafe, WorkerAnswers, CacheChasesOrigin, Queued
    <2> QED BY <2>5, <2>6, <2>7, <2>8, <2>9 DEF IsoSafe
  <1>4. CASE WorkerDisables \/ WorkerCannotDisable
    <2> USE <1>4 DEF WorkerDisables, WorkerCannotDisable, isoOriginVars, isoHealthVars, workerVars, IsoSafe
    <2>1. IsoTypeOK' BY Zenon DEF IsoTypeOK
    <2>2. OffMeansGone' BY DEF OffMeansGone
    <2>3. FailedOriginCutsCache' BY DEF FailedOriginCutsCache
    <2>4. CacheChasesOrigin'
      <3> SUFFICES ASSUME client = "Active", isoOriginState = "Ready", NEW b \in IsoBlocks
                   PROVE  /\ \A i \in Queued(b) : (\A j \in Queued(b) : j <= i) => requests[i].value = isoOrigin[b]
                          /\ Queued(b) = {} /\ Stores(hand, b) => hand.value = isoOrigin[b]
                          /\ Queued(b) = {} /\ ~Stores(hand, b) => store'[b] \in {IsoNothing, isoOrigin[b]}
        BY DEF CacheChasesOrigin, Queued
      <3> QED BY Zenon DEF CacheChasesOrigin
    <2>5. OneReadAwaited' BY <1>0, Zenon DEF OneReadAwaited, IsoTypeOK
    <2>6. IsoCleanMeansDurable' BY DEF IsoCleanMeansDurable
    <2> QED BY <2>1, <2>2, <2>3, <2>4, <2>5, <2>6
  <1>5. CASE WorkerExits
    <2> USE <1>5 DEF WorkerExits, isoOriginVars, isoHealthVars, threadVars
    <2>1. hand' \in NoRequests /\ ~hand'.wanted /\ \A b : ~Stores(hand, b)'
      BY RequestType DEF Stores
    <2>2. requests' \in Seq(IsoRequest) /\ Len(requests') = 0 /\ \A b : Queued(b)' = {}
      BY DEF Queued
    <2>3. IsoTypeOK'
      <3>1. Len(requests') <= Capacity BY <2>2, IsolatedAssumption
      <3>2. store' \in [IsoBlocks -> IsoValues \cup {IsoNothing}] OBVIOUS
      <3>3. {isoDirty, disablePending, workerUp, workerOff}' \subseteq BOOLEAN BY <1>0, Zenon DEF IsoTypeOK
      <3> QED BY <1>0, <2>1, <2>2, <3>1, <3>2, <3>3 DEF IsoTypeOK
    <2>4. OffMeansGone' /\ FailedOriginCutsCache' /\ IsoCleanMeansDurable'
      BY Zenon DEF IsoSafe, OffMeansGone, FailedOriginCutsCache, IsoCleanMeansDurable
    <2>5. CacheChasesOrigin' BY <2>1, <2>2 DEF CacheChasesOrigin
    <2>6. OneReadAwaited'
      <3>1. 1..Len(requests') = {} BY <2>2
      <3>2. (pc = "readWait" => client = "Active") /\ pc' = pc /\ client' = client BY Zenon DEF IsoSafe, OneReadAwaited
      <3> QED BY <2>1, <3>1, <3>2, Zenon DEF OneReadAwaited
    <2> QED BY <2>3, <2>4, <2>5, <2>6 DEF IsoSafe
  <1> QED BY <1>1, <1>2, <1>3, <1>4, <1>5 DEF Worker

\* The invariant holds when the backend starts, its queues empty.
LEMMA IsoSafeInit ==
    IsoInit => IsoSafe
  <1> SUFFICES ASSUME IsoInit PROVE IsoSafe BY Zenon
  <1> USE DEF IsoInit
  <1>1. hand \in NoRequests /\ ~hand.wanted /\ \A b : ~Stores(hand, b) BY RequestType DEF Stores
  <1>2. requests \in Seq(IsoRequest) /\ Len(requests) = 0 /\ \A b : Queued(b) = {} BY DEF Queued
  <1>3. isoSurvivors \in [IsoBlocks -> SUBSET IsoValues] BY DEF IsoDevice!Durable
  <1>4. Len(requests) <= Capacity /\ isoProbes \in 0..IsoProbesToReady BY <1>2, IsolatedAssumption
  <1>5. store \in [IsoBlocks -> IsoValues \cup {IsoNothing}] OBVIOUS
  <1>6. IsoTypeOK BY <1>1, <1>2, <1>3, <1>4, <1>5, Zenon DEF IsoTypeOK
  <1>7. OffMeansGone /\ FailedOriginCutsCache BY DEF OffMeansGone, FailedOriginCutsCache
  <1>8. CacheChasesOrigin BY <1>1, <1>2 DEF CacheChasesOrigin
  <1>9. OneReadAwaited BY <1>1, <1>2 DEF OneReadAwaited
  <1>10. IsoCleanMeansDurable BY DEF IsoCleanMeansDurable, IsoDevice!Durable
  <1> QED BY <1>6, <1>7, <1>8, <1>9, <1>10 DEF IsoSafe

\* Every step of the thread, of the client and of the worker keeps the invariant.
LEMMA IsoSafeStep ==
    IsoSafe /\ [IsoNext]_isoVars => IsoSafe'
  <1> SUFFICES ASSUME IsoSafe, [IsoNext]_isoVars PROVE IsoSafe' BY Zenon
  <1>1. CASE UNCHANGED isoVars
    <2> USE <1>1 DEF isoVars, isoOriginVars, isoHealthVars, queueVars, threadVars, workerVars, IsoSafe
    <2>1. IsoTypeOK' BY Zenon DEF IsoTypeOK
    <2>2. OffMeansGone' BY Zenon DEF OffMeansGone
    <2>3. FailedOriginCutsCache' BY Zenon DEF FailedOriginCutsCache
    <2>4. CacheChasesOrigin' BY Zenon DEF CacheChasesOrigin, Queued, Stores
    <2>5. OneReadAwaited' BY Zenon DEF OneReadAwaited
    <2>6. IsoCleanMeansDurable' BY Zenon DEF IsoCleanMeansDurable
    <2> QED BY <2>1, <2>2, <2>3, <2>4, <2>5, <2>6, Zenon
  <1> QED BY <1>1, ProceedKeeps, StartKeeps, WorkerKeeps DEF IsoNext

\* Whatever the worker does, a cache in use never gets ahead of the origin, only the
\* read still waited for can be answered, a client that reports Off has really let go,
\* and a clean backend has nothing to lose.
THEOREM CacheNeverMisleads == IsoSpec => []IsoSafe
  BY IsoSafeInit, IsoSafeStep, PTL DEF IsoSpec

\* A revoked client is never used again.
THEOREM RevocationIsFinal == IsoSpec => RevokedForGood
  <1>1. [IsoNext]_isoVars => (client # "Active" => client' # "Active")
    BY Zenon DEF IsoNext, Proceed, StartRequest, Worker, Revoke, AckTimeout, ReadTimeout, Fallback, FallbackFails,
           IsoRefuse, IsoFlush, FlushFails, IsoProbeOk, IsoProbeFails, SyncFails, IsoReleaseCache, StartRead,
           Write, WriteFails, SendMutation, WorkerTakes, WorkerStores, WorkerAnswers, WorkerDisables,
           WorkerCannotDisable, WorkerExits, isoVars
  <1> QED BY <1>1, PTL DEF IsoSpec, RevokedForGood

-----------------------------------------------------------------------------
(* The device without a cache *)

\* Every step is a step of the device, or one its client does not see.
LEMMA IsoDeviceStep ==
    IsoSafe /\ [IsoNext]_isoVars => [IsoDevice!Next]_(IsoDevice!vars)
  <1> SUFFICES ASSUME IsoSafe, [IsoNext]_isoVars PROVE [IsoDevice!Next]_(IsoDevice!vars) OBVIOUS
  <1>0. IsoTypeOK BY DEF IsoSafe
  <1>1. CASE UNCHANGED <<isoOrigin, isoSurvivors, isoReply>> BY <1>1 DEF IsoDevice!vars
  <1>2. CASE \/ IsoRefuse \/ IsoReleaseCache \/ FallbackFails
    BY <1>2 DEF IsoRefuse, IsoReleaseCache, FallbackFails, isoOriginVars, IsoDevice!NoEffect, IsoDevice!Next
  <1>3. CASE Fallback
    <2>1. block \in IsoBlocks BY <1>0 DEF IsoTypeOK
    <2>2. IsoDevice!Read({block})
      BY <1>3, <2>1 DEF Fallback, isoOriginVars, IsoDevice!Read
    <2> QED BY <2>1, <2>2 DEF IsoDevice!Next
  <1>4. CASE IsoFlush
    <2>1. isoSurvivors' = IsoDevice!Durable(isoOrigin)
      <3>1. CASE isoDirty BY <1>4, <3>1, Zenon DEF IsoFlush
      <3>2. CASE ~isoDirty
        BY <1>0, <1>4, <3>2 DEF IsoFlush, IsoSafe, IsoCleanMeansDurable, IsoTypeOK, IsoDevice!Durable
      <3> QED BY <3>1, <3>2
    <2> QED BY <1>4, <2>1 DEF IsoFlush, IsoDevice!Sync, IsoDevice!Next
  <1>5. CASE IsoProbeOk BY <1>5 DEF IsoProbeOk, IsoDevice!Sync, IsoDevice!Next
  <1>6. CASE FlushFails \/ IsoProbeFails
    BY <1>6 DEF FlushFails, IsoProbeFails, SyncFails, IsoDevice!SyncFailed, IsoDevice!Next
  <1>7. ASSUME NEW b \in IsoBlocks, NEW v \in IsoValues, NEW fua \in BOOLEAN,
               Write(b, v, fua) \/ WriteFails(b, v, fua)
        PROVE  IsoDevice!Next
    <2> DEFINE d == [c \in {b} |-> v]
    <2>1. {b} \in {{c} : c \in IsoBlocks} /\ d \in [{b} -> IsoValues] /\ {b} \subseteq IsoBlocks OBVIOUS
    <2>2. IsoDevice!Written({b}, d) = [isoOrigin EXCEPT ![b] = v]
      BY <1>0, Zenon DEF IsoTypeOK, IsoDevice!Written
    <2>3. IsoDevice!Candidates({b}, d) = [isoSurvivors EXCEPT ![b] = @ \cup {v}]
      BY <1>0, Zenon DEF IsoTypeOK, IsoDevice!Candidates
    <2>4. IsoDevice!Written({}, d) = isoOrigin /\ IsoDevice!Candidates({}, d) = isoSurvivors
      BY <1>0 DEF IsoTypeOK, IsoDevice!Written, IsoDevice!Candidates
    <2> HIDE DEF d
    <2>5. \/ IsoDevice!Write({b}, d) \/ IsoDevice!WriteDurable({b}, d)
          \/ IsoDevice!TornWrite({b}, d) \/ IsoDevice!WriteNotDurable({b}, d)
      <3>1. CASE Write(b, v, fua)
        BY <2>1, <2>2, <2>3, <3>1 DEF Write, IsoDevice!Write, IsoDevice!WriteDurable
      <3>2. CASE WriteFails(b, v, fua) /\ fua
        BY <2>1, <2>3, <3>2, Zenon DEF WriteFails, IsoDevice!WriteNotDurable
      <3>3. CASE WriteFails(b, v, fua) /\ ~fua
        <4>1. \E W \in SUBSET {b} : /\ isoOrigin' = IsoDevice!Written(W, d)
                                   /\ isoSurvivors' = IsoDevice!Candidates(W, d)
          BY <2>2, <2>3, <2>4, <3>3, Zenon DEF WriteFails
        <4> QED BY <2>1, <3>3, <4>1, Zenon DEF WriteFails, IsoDevice!TornWrite
      <3> QED BY <1>7, <3>1, <3>2, <3>3
    <2> QED BY <2>1, <2>5 DEF IsoDevice!Next
  <1>8. CASE WorkerAnswers
    <2>1. CASE isoReply' = isoReply
      BY <1>8, <2>1, <1>1, Zenon DEF WorkerAnswers, isoOriginVars
    <2>2. CASE isoReply' # isoReply
      <3>1. /\ hand.wanted /\ store[hand.block] # IsoNothing /\ hand.kind = "read"
            /\ isoReply' = IsoDevice!Returned({hand.block}, store)
            /\ UNCHANGED <<isoOrigin, isoSurvivors>>
        BY <1>8, <2>2 DEF WorkerAnswers, isoOriginVars
      <3>2. hand.block = block /\ requests = << >> /\ pc = "readWait" /\ client = "Active"
        BY <3>1 DEF IsoSafe, OneReadAwaited
      <3>3. isoOriginState = "Ready" BY <3>2 DEF IsoSafe, FailedOriginCutsCache
      <3>4. block \in IsoBlocks BY <1>0 DEF IsoTypeOK
      <3>5. Queued(block) = {} /\ ~Stores(hand, block) BY <3>1, <3>2 DEF Queued, Stores
      <3>6. store[block] = isoOrigin[block]
        BY <3>1, <3>2, <3>3, <3>4, <3>5 DEF IsoSafe, CacheChasesOrigin
      <3>7. IsoDevice!Returned({block}, store) = IsoDevice!Returned({block}, isoOrigin)
        BY <3>6, Zenon DEF IsoDevice!Returned
      <3>8. IsoDevice!Read({block})
        BY <3>1, <3>2, <3>4, <3>7 DEF IsoDevice!Read
      <3> QED BY <3>4, <3>8 DEF IsoDevice!Next
    <2> QED BY <2>1, <2>2, Zenon
  <1>9. CASE \/ Revoke \/ AckTimeout \/ ReadTimeout \/ WorkerTakes \/ WorkerStores
             \/ WorkerDisables \/ WorkerCannotDisable \/ WorkerExits \/ UNCHANGED isoVars
             \/ \E b \in IsoBlocks : StartRead(b)
    <2>1. UNCHANGED <<isoOrigin, isoSurvivors, isoReply>>
      BY <1>9, Zenon DEF Revoke, AckTimeout, ReadTimeout, WorkerTakes, WorkerStores, WorkerDisables,
                  WorkerCannotDisable, WorkerExits, StartRead, isoVars, isoOriginVars
    <2> QED BY <1>1, <2>1, Zenon
  <1> QED BY <1>2, <1>3, <1>4, <1>5, <1>6, <1>7, <1>8, <1>9 DEF IsoNext, Proceed, StartRequest, Worker

\* The asynchronous cache is invisible too: every reply, and what a power loss may
\* leave, is what the origin alone would give, although the worker may be behind,
\* hang or exit at any moment and a failing sync may lose data.
THEOREM IsolatedCacheIsInvisible == IsoSpec => IsoImplementsBlockDevice
  <1>1. IsoInit => IsoDevice!Init BY DEF IsoInit, IsoDevice!Init
  <1> QED BY <1>1, IsoDeviceStep, CacheNeverMisleads, PTL DEF IsoSpec, IsoImplementsBlockDevice, IsoDevice!Spec
=============================================================================
