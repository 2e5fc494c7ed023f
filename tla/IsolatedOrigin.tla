---------------------------- MODULE IsolatedOrigin ----------------------------
(***************************************************************************)
(* AuthoritativeOriginBackend over a BoundedCacheClient: the serving       *)
(* thread owns the origin and talks to a cache worker in another process   *)
(* through a bounded data queue and a control lane of capacity one         *)
(* (crates/ramshared-block/src/isolated_origin.rs).  The worker may be     *)
(* slow, hang, fail or exit at any point; it is code outside this          *)
(* repository, modelled from the messages it is sent.                      *)
(*                                                                         *)
(* reply is the result register of the request in progress; it is set when *)
(* the result is decided, which may be before the request returns.         *)
(***************************************************************************)
EXTENDS Naturals, Sequences, FiniteSets

CONSTANTS IsoBlocks, IsoValues,
          IsoNothing,         \* what the worker holds for a block it has not cached
          Capacity,        \* of the data queue
          IsoProbesToReady    \* good probes that end an origin outage (3)

ASSUME IsolatedAssumption == {Capacity, IsoProbesToReady} \subseteq Nat /\ IsoNothing \notin IsoValues

VARIABLES
    isoOrigin, isoSurvivors, isoDirty,  \* the origin file, as in OriginCache
    isoOriginState, isoProbes,
    client,                    \* the state of the BoundedCacheClient
    requests,                  \* the data queue
    disablePending,            \* the control lane holds a Disable
    pc, block, after,          \* the serving thread: where it is, the block it
                               \* reads, where it goes after a revocation
    workerUp, hand,            \* the worker lives; the request it works on
    store,                     \* what the worker has cached, by block
    workerOff,                 \* the worker has obeyed a Disable
    isoReply

isoOriginVars == <<isoOrigin, isoSurvivors, isoDirty>>
isoHealthVars == <<isoOriginState, isoProbes>>
threadVars == <<pc, block, after>>
queueVars == <<requests, disablePending>>
workerVars == <<workerUp, hand, store, workerOff>>
isoVars == <<isoOriginVars, isoHealthVars, client, queueVars, threadVars, workerVars, isoReply>>

IsoDevice ==
    INSTANCE BlockDevice
      WITH Sectors <- IsoBlocks, Values <- IsoValues, Ranges <- {{b} : b \in IsoBlocks},
           contents <- isoOrigin, survivors <- isoSurvivors, reply <- isoReply

NoRequest == [kind |-> "none", block |-> IsoNothing, value |-> IsoNothing, wanted |-> FALSE]

ReadRequest(b) == [kind |-> "read", block |-> b, value |-> IsoNothing, wanted |-> TRUE]
StoreRequest(b, v) == [kind |-> "store", block |-> b, value |-> v, wanted |-> FALSE]

-----------------------------------------------------------------------------
(* The client side of the cache *)

\* try_send fails when the queue is full or the worker has gone.
Sendable == workerUp /\ Len(requests) < Capacity

\* The thread gives up on the answer it waits for: the reply channel is dropped.
Abandoned(r) == [r EXCEPT !.wanted = FALSE]

\* Mutant: a mutation that does not fit the queue is dropped and the client kept.
SendMutationOrDrop(b, v) ==
    /\ requests' = IF client = "Active" /\ Sendable THEN Append(requests, StoreRequest(b, v)) ELSE requests
    /\ pc' = "idle"
    /\ UNCHANGED <<client, after>>

\* send_mutation, for update and promote alike: skipped unless the client is
\* active; a failure makes it unavailable and the backend revokes the cache.
SendMutation(b, v) ==
    \/ /\ client # "Active"
       /\ pc' = "idle"
       /\ UNCHANGED <<client, requests, after>>
    \/ /\ client = "Active" /\ Sendable
       /\ requests' = Append(requests, StoreRequest(b, v))
       /\ pc' = "idle"
       /\ UNCHANGED <<client, after>>
    \/ /\ client = "Active" /\ ~Sendable
       /\ client' = "Unavailable"
       /\ pc' = "revoke" /\ after' = "idle"
       /\ UNCHANGED requests

\* mark_origin_failed: fail closed, then revoke the cache.
IsoMarkOriginFailed ==
    /\ isoOriginState' = "Failed" /\ isoProbes' = 0
    /\ pc' = "revoke" /\ after' = "idle"

\* revoke_cache = disable: an already released client has nothing to do, a full
\* or dead control lane leaves the client stuck.
Revoke ==
    /\ pc = "revoke"
    /\ \/ /\ client = "Off"
          /\ pc' = after
          /\ UNCHANGED <<client, disablePending>>
       \/ /\ client # "Off" /\ (disablePending \/ ~workerUp)
          /\ client' = "Stuck"
          /\ pc' = after
          /\ UNCHANGED disablePending
       \/ /\ client # "Off" /\ ~disablePending /\ workerUp
          /\ disablePending' = TRUE
          /\ pc' = "ackWait"
          /\ UNCHANGED client
    /\ UNCHANGED <<isoOriginVars, isoHealthVars, requests, block, after, workerVars, isoReply>>

\* Mutant: a timeout counts as released.
AckTimeoutReleases ==
    /\ pc = "ackWait"
    /\ client' = "Off"
    /\ pc' = after
    /\ UNCHANGED <<isoOriginVars, isoHealthVars, queueVars, block, after, workerVars, isoReply>>

\* Mutant: the wait for the acknowledgement has no timeout.
AckWithoutTimeout ==
    /\ pc = "ackWait" /\ ~workerUp
    /\ client' = "Stuck"
    /\ pc' = after
    /\ UNCHANGED <<isoOriginVars, isoHealthVars, queueVars, block, after, workerVars, isoReply>>

\* The acknowledgement is not there in time, or the worker has exited.
AckTimeout ==
    /\ pc = "ackWait"
    /\ client' = "Stuck"
    /\ pc' = after
    /\ UNCHANGED <<isoOriginVars, isoHealthVars, queueVars, block, after, workerVars, isoReply>>

-----------------------------------------------------------------------------
(* The serving thread *)

Idle == pc = "idle"

IsoRefuse ==
    /\ Idle /\ isoOriginState # "Ready"
    /\ isoReply' = IsoDevice!Refused
    /\ UNCHANGED <<isoOriginVars, isoHealthVars, client, queueVars, threadVars, workerVars>>

\* read_at asks the cache first, and never waits for room in the queue.
StartRead(b) ==
    /\ Idle /\ isoOriginState = "Ready"
    /\ block' = b
    /\ \/ /\ client # "Active"
          /\ pc' = "fallback"
          /\ UNCHANGED <<client, requests, after>>
       \/ /\ client = "Active" /\ Sendable
          /\ requests' = Append(requests, ReadRequest(b))
          /\ pc' = "readWait"
          /\ UNCHANGED <<client, after>>
       \/ /\ client = "Active" /\ ~Sendable
          /\ client' = "Unavailable"
          /\ pc' = "revoke" /\ after' = "fallback"
          /\ UNCHANGED requests
    /\ UNCHANGED <<isoOriginVars, isoHealthVars, disablePending, workerVars, isoReply>>

\* No answer within read_timeout, or the worker is gone.
ReadTimeout ==
    /\ pc = "readWait"
    /\ client' = "Unavailable"
    /\ pc' = "revoke" /\ after' = "fallback"
    /\ requests' = [i \in 1..Len(requests) |-> Abandoned(requests[i])]
    /\ hand' = Abandoned(hand)
    /\ UNCHANGED <<isoOriginVars, isoHealthVars, disablePending, block, workerUp, store, workerOff, isoReply>>

\* A miss, or a failed cache: the origin answers, and its data is promoted.
Fallback ==
    /\ pc = "fallback"
    /\ isoReply' = IsoDevice!Returned({block}, isoOrigin)
    /\ SendMutation(block, isoOrigin[block])
    /\ UNCHANGED <<isoOriginVars, isoHealthVars, disablePending, block, workerVars>>

FallbackFails ==
    /\ pc = "fallback"
    /\ IsoMarkOriginFailed
    /\ isoReply' = IsoDevice!Refused
    /\ UNCHANGED <<isoOriginVars, client, queueVars, block, workerVars>>

\* write_at and write_at_with_options: the origin (and, for fua, its sync)
\* before the cache.
Write(b, v, fua) ==
    /\ Idle /\ isoOriginState = "Ready"
    /\ isoOrigin' = [isoOrigin EXCEPT ![b] = v]
    /\ isoSurvivors' = IF fua THEN IsoDevice!Durable(isoOrigin') ELSE [isoSurvivors EXCEPT ![b] = @ \cup {v}]
    /\ isoDirty' = ~fua
    /\ SendMutation(b, v)
    /\ isoReply' = IF fua THEN IsoDevice!Persisted ELSE IsoDevice!Acknowledged
    /\ UNCHANGED <<isoHealthVars, disablePending, block, workerVars>>

\* The write fails, with or without effect, or the sync after it fails and may
\* drop anything not yet durable.
WriteFails(b, v, fua) ==
    /\ Idle /\ isoOriginState = "Ready"
    /\ IF fua
       THEN /\ isoSurvivors' = [isoSurvivors EXCEPT ![b] = @ \cup {v}]
            /\ isoOrigin' \in IsoDevice!Remains(isoSurvivors')
            /\ isoDirty' = TRUE
       ELSE /\ \/ isoOrigin' = [isoOrigin EXCEPT ![b] = v] /\ isoSurvivors' = [isoSurvivors EXCEPT ![b] = @ \cup {v}]
               \/ UNCHANGED <<isoOrigin, isoSurvivors>>
            /\ isoDirty' = isoDirty
    /\ IsoMarkOriginFailed
    /\ isoReply' = IsoDevice!Refused
    /\ UNCHANGED <<client, queueVars, block, workerVars>>

IsoFlush ==
    /\ Idle /\ isoOriginState = "Ready"
    /\ isoSurvivors' = IF isoDirty THEN IsoDevice!Durable(isoOrigin) ELSE isoSurvivors
    /\ isoDirty' = FALSE
    /\ isoReply' = IsoDevice!Persisted
    /\ UNCHANGED <<isoOrigin, isoHealthVars, client, queueVars, threadVars, workerVars>>

\* flush, or probe_origin, meets a failing sync.
SyncFails ==
    /\ isoOrigin' \in IsoDevice!Remains(isoSurvivors)
    /\ IsoMarkOriginFailed
    /\ isoReply' = IsoDevice!Refused
    /\ UNCHANGED <<isoSurvivors, isoDirty, client, queueVars, block, workerVars>>

FlushFails == Idle /\ isoOriginState = "Ready" /\ isoDirty /\ SyncFails

IsoProbeFails == Idle /\ SyncFails

IsoProbeOk ==
    /\ Idle
    /\ isoSurvivors' = IsoDevice!Durable(isoOrigin)
    /\ isoDirty' = FALSE
    /\ IF isoOriginState = "Ready" THEN UNCHANGED isoHealthVars
       ELSE IF isoProbes + 1 >= IsoProbesToReady
            THEN isoOriginState' = "Ready" /\ isoProbes' = 0
            ELSE isoOriginState' = "Degraded" /\ isoProbes' = isoProbes + 1
    /\ isoReply' = IsoDevice!Persisted
    /\ UNCHANGED <<isoOrigin, client, queueVars, threadVars, workerVars>>

\* release_cache
IsoReleaseCache ==
    /\ Idle
    /\ pc' = "revoke" /\ after' = "idle"
    /\ isoReply' = IsoDevice!Acknowledged
    /\ UNCHANGED <<isoOriginVars, isoHealthVars, client, queueVars, block, workerVars>>

-----------------------------------------------------------------------------
(* The worker *)

WorkerTakes ==
    /\ workerUp /\ hand = NoRequest /\ requests # << >>
    /\ hand' = Head(requests)
    /\ requests' = Tail(requests)
    /\ UNCHANGED <<isoOriginVars, isoHealthVars, client, disablePending, threadVars, workerUp, store,
                   workerOff, isoReply>>

\* It stores what it is told, or drops the block; once disabled it keeps nothing.
WorkerStores ==
    /\ workerUp /\ hand.kind = "store"
    /\ \E v \in {IsoNothing} \cup (IF workerOff THEN {} ELSE {hand.value}) :
          store' = [store EXCEPT ![hand.block] = v]
    /\ hand' = NoRequest
    /\ UNCHANGED <<isoOriginVars, isoHealthVars, client, queueVars, threadVars, workerUp, workerOff, isoReply>>

\* Its answer to a read reaches the thread if that still waits for it: a hit, a
\* miss, or an error (a reply of the wrong length included).
WorkerAnswers ==
    /\ workerUp /\ hand.kind = "read"
    /\ hand' = NoRequest
    /\ \/ /\ ~hand.wanted
          /\ UNCHANGED <<client, pc, after, isoReply>>
       \/ /\ hand.wanted /\ store[hand.block] # IsoNothing
          /\ isoReply' = IsoDevice!Returned({hand.block}, store)
          /\ pc' = "idle"
          /\ UNCHANGED <<client, after>>
       \/ /\ hand.wanted
          /\ pc' = "fallback"
          /\ UNCHANGED <<client, after, isoReply>>
       \/ /\ hand.wanted
          /\ client' = "Unavailable"
          /\ pc' = "revoke" /\ after' = "fallback"
          /\ UNCHANGED isoReply
    /\ UNCHANGED <<isoOriginVars, isoHealthVars, queueVars, block, workerUp, store, workerOff>>

\* It acknowledges a Disable only after its cache resources are gone; an
\* acknowledgement nobody waits for any more is dropped.
WorkerDisables ==
    /\ workerUp /\ disablePending
    /\ disablePending' = FALSE
    /\ store' = [b \in IsoBlocks |-> IsoNothing]
    /\ workerOff' = TRUE
    /\ IF pc = "ackWait" THEN client' = "Off" /\ pc' = after ELSE UNCHANGED <<client, pc>>
    /\ UNCHANGED <<isoOriginVars, isoHealthVars, requests, block, after, workerUp, hand, isoReply>>

\* It answers that it could not let go: the client is stuck, and will try again
\* with the next revocation.
WorkerCannotDisable ==
    /\ workerUp /\ disablePending
    /\ disablePending' = FALSE
    /\ IF pc = "ackWait" THEN client' = "Stuck" /\ pc' = after ELSE UNCHANGED <<client, pc>>
    /\ UNCHANGED <<isoOriginVars, isoHealthVars, requests, block, after, workerVars, isoReply>>

WorkerExits ==
    /\ workerUp
    /\ workerUp' = FALSE
    /\ store' = [b \in IsoBlocks |-> IsoNothing]
    /\ hand' = NoRequest
    /\ requests' = << >> /\ disablePending' = FALSE
    /\ UNCHANGED <<isoOriginVars, isoHealthVars, client, threadVars, workerOff, isoReply>>

-----------------------------------------------------------------------------
IsoInit ==
    /\ isoOrigin \in [IsoBlocks -> IsoValues]
    /\ isoSurvivors = IsoDevice!Durable(isoOrigin)
    /\ isoDirty = FALSE /\ isoOriginState = "Ready" /\ isoProbes = 0
    /\ client = "Active" /\ requests = << >> /\ disablePending = FALSE
    /\ pc = "idle" /\ block \in IsoBlocks /\ after = "idle"
    /\ workerUp = TRUE /\ hand = NoRequest /\ workerOff = FALSE
    /\ store = [b \in IsoBlocks |-> IsoNothing]
    /\ isoReply = IsoDevice!Acknowledged

\* What the serving thread does on its own once a request has started.
Proceed == Revoke \/ AckTimeout \/ ReadTimeout \/ Fallback \/ FallbackFails

StartRequest ==
    \/ IsoRefuse \/ IsoFlush \/ FlushFails \/ IsoProbeOk \/ IsoProbeFails \/ IsoReleaseCache
    \/ \E b \in IsoBlocks : StartRead(b)
    \/ \E b \in IsoBlocks, v \in IsoValues, fua \in BOOLEAN : Write(b, v, fua) \/ WriteFails(b, v, fua)

Worker == WorkerTakes \/ WorkerStores \/ WorkerAnswers \/ WorkerDisables \/ WorkerCannotDisable \/ WorkerExits

IsoNext == Proceed \/ StartRequest \/ Worker

\* The thread runs and its timeouts expire; nothing is assumed of the worker.
IsoSpec == IsoInit /\ [][IsoNext]_isoVars /\ WF_isoVars(Proceed)

-----------------------------------------------------------------------------
IsoRequest ==
    [kind : {"read"}, block : IsoBlocks, value : {IsoNothing}, wanted : BOOLEAN]
      \cup [kind : {"store"}, block : IsoBlocks, value : IsoValues, wanted : {FALSE}]

NoRequests == [kind : {"none"}, block : {IsoNothing}, value : {IsoNothing}, wanted : {FALSE}]

IsoTypeOK ==
    /\ isoOrigin \in [IsoBlocks -> IsoValues]
    /\ isoSurvivors \in [IsoBlocks -> SUBSET IsoValues]
    /\ {isoDirty, disablePending, workerUp, workerOff} \subseteq BOOLEAN
    /\ isoOriginState \in {"Ready", "Degraded", "Failed"} /\ isoProbes \in 0..IsoProbesToReady
    /\ client \in {"Active", "Unavailable", "Off", "Stuck"}
    /\ requests \in Seq(IsoRequest) /\ Len(requests) <= Capacity
    /\ hand \in IsoRequest \cup NoRequests
    /\ pc \in {"idle", "readWait", "fallback", "revoke", "ackWait"}
    /\ block \in IsoBlocks /\ after \in {"idle", "fallback"}
    /\ store \in [IsoBlocks -> IsoValues \cup {IsoNothing}]

\* "Any queue, transport, protocol, or timeout fault permanently revokes that
\* client": it never serves from the cache again.
RevokedForGood == [][client # "Active" => client' # "Active"]_isoVars

\* A client that reports Off has had its acknowledgement: the worker holds no
\* block and takes none from requests that were still queued.
OffMeansGone ==
    /\ client = "Off" => workerOff
    /\ workerOff => \A b \in IsoBlocks : store[b] = IsoNothing

\* Once a request whose failure may have changed the origin has returned, no
\* later read is served from the cache: the client is no longer active.
FailedOriginCutsCache ==
    isoOriginState # "Ready" /\ client = "Active" => pc \in {"revoke", "ackWait"}

Stores(r, b) == r.kind = "store" /\ r.block = b

Queued(b) == {i \in 1..Len(requests) : Stores(requests[i], b)}

\* While the cache is in use the worker catches up with the origin, however far it
\* is behind: of every block, the last store on its way holds what the origin holds,
\* and with none on its way the worker has that or nothing.
CacheChasesOrigin ==
    client = "Active" /\ isoOriginState = "Ready" =>
        \A b \in IsoBlocks :
            /\ \A i \in Queued(b) : (\A j \in Queued(b) : j <= i) => requests[i].value = isoOrigin[b]
            /\ Queued(b) = {} /\ Stores(hand, b) => hand.value = isoOrigin[b]
            /\ Queued(b) = {} /\ ~Stores(hand, b) => store[b] \in {IsoNothing, isoOrigin[b]}

\* Only the read the thread waits for can still be answered, and nothing is queued
\* behind it: an answer that comes after the timeout reaches nobody.
OneReadAwaited ==
    /\ hand.wanted => hand.block = block /\ requests = << >> /\ pc = "readWait"
    /\ \A i \in 1..Len(requests) :
          requests[i].wanted => requests[i].block = block /\ i = Len(requests) /\ pc = "readWait"
    /\ pc = "readWait" => client = "Active"

\* A backend that accepts requests and is not dirty, or that is coming back, has
\* nothing to lose in a power cut.
IsoCleanMeansDurable ==
    /\ isoOriginState = "Degraded" \/ (isoOriginState = "Ready" /\ ~isoDirty)
         => \A b \in IsoBlocks : isoSurvivors[b] = {isoOrigin[b]}
    /\ \A b \in IsoBlocks : isoOrigin[b] \in isoSurvivors[b]

\* Every request returns although the worker may hang or exit at any moment.
RequestsReturn == pc # "idle" ~> pc = "idle"

\* With an asynchronous worker too, replies and power-loss contents are those
\* of the origin without a cache; here a probe may lose data in its sync.
IsoImplementsBlockDevice == IsoDevice!Spec

\* The promises about the cache and the origin that outlive a request, with what
\* they rest on while one is in progress.
IsoSafe ==
    /\ IsoTypeOK /\ OffMeansGone /\ FailedOriginCutsCache
    /\ CacheChasesOrigin /\ OneReadAwaited /\ IsoCleanMeansDurable

\* What it does in the end and never takes back: every request returns, and a revoked
\* cache is never used again.
IsoContract == RevokedForGood /\ RequestsReturn
=============================================================================
