------------------------------- MODULE IoRing -------------------------------
(***************************************************************************)
(* The submission and completion rings the service shares with the         *)
(* Windows driver, at the level of the words in their headers.  head and   *)
(* tail are 32-bit counters that run on and wrap; an index is their value  *)
(* modulo the queue depth.  The driver's submit path runs on any processor *)
(* under Q->Lock while the service pops without a lock, so the two meet    *)
(* only in the published words; the driver never looks whether the         *)
(* submission ring is full, it relies on its inflight table for that.      *)
(*                                                                         *)
(* The service allocates the rings, registers them, then alternates the    *)
(* COMMIT_AND_FETCH call, which drains completions in its own thread, with *)
(* draining submissions.  Teardown races are StorPortDriver's subject:     *)
(* here unregistering is one step.                                         *)
(***************************************************************************)
EXTENDS Integers, Sequences, FiniteSets

CONSTANTS
  Depth,      \* queue_depth
  Wrap,       \* the range of the header words, 2^32 in the code
  MaxSubmits, \* bound: the requests StorPort sends
  Window      \* LATENCY_WINDOW of the statistics

ASSUME IoRingAssumption ==
  /\ {Depth, Wrap, MaxSubmits, Window} \subseteq Nat \ {0}
  /\ Wrap % Depth = 0 /\ Wrap > Depth

Slots == 0..(Depth - 1)
NoReq == 0
Reqs == 1..MaxSubmits
Regions == {"handle", "event", "sq", "cq", "data"}

VARIABLES
  rqRegions,   \* the handles and VirtualAlloc regions the service owns
  rqRegistered,\* Q->Registered
  rqSq, rqCq,  \* the rings: head, tail and the entries
  rqIn,        \* Q->Inflight: the state and the request of each tag
  rqSubmit,    \* the tag a submit call has reserved and not yet published, or -1
  rqSvc,       \* where the service's thread is
  rqSeen,      \* the head and tail words it loaded last
  rqCur,       \* the entry it works on: tag and request, or what it completes
  rqStats,     \* LinkStats: requests recorded, latency_len, latency_next
  rqSent,      \* how many requests StorPort has sent
  rqDone       \* how each request was completed: "no", "own" or "other" answer

rings == <<rqSq, rqCq>>
rqVars == <<rqRegions, rqRegistered, rings, rqIn, rqSubmit, rqSvc, rqSeen, rqCur,
            rqStats, rqSent, rqDone>>

NoEntry == [tag |-> 0, req |-> NoReq]
Entries == [tag : Slots, req : 0..MaxSubmits]
Rings == [head : 0..(Wrap - 1), tail : 0..(Wrap - 1), ent : [Slots -> Entries]]

RqTypeOK ==
  /\ rqRegions \subseteq Regions /\ rqRegistered \in BOOLEAN
  /\ rqSq \in Rings /\ rqCq \in Rings
  /\ rqIn \in [Slots -> [state : {"free", "reserved", "submitted", "completing"},
                         srb : 0..MaxSubmits]]
  /\ rqSubmit \in Slots \cup {-1}
  /\ rqSvc \in {"handle", "event", "sq", "cq", "data", "register", "drain", "release", "pop", "snapshot",
                "store", "serve", "push", "publish", "drop", "failed", "over"}
  /\ rqSeen \in (0..(Wrap - 1)) \X (0..(Wrap - 1))
  /\ rqCur \in Entries
  /\ rqStats \in [recorded : 0..MaxSubmits, len : 0..Window, next : 0..(Window - 1)]
  /\ rqSent \in 0..MaxSubmits
  /\ rqDone \in [Reqs -> {"no", "own", "other"}]

\* wrapping_add and wrapping_sub on the header words, and the masked index
Inc(i) == (i + 1) % Wrap
Dist(head, tail) == (tail - head) % Wrap
Idx(i) == i % Depth

NoStats == [recorded |-> 0, len |-> 0, next |-> 0]

EmptyRing == [head |-> 0, tail |-> 0, ent |-> [i \in Slots |-> NoEntry]]

RqInit ==
  /\ rqRegions = {} /\ rqRegistered = FALSE
  /\ rqSq = EmptyRing /\ rqCq = EmptyRing
  /\ rqIn = [t \in Slots |-> [state |-> "free", srb |-> NoReq]]
  /\ rqSubmit = -1 /\ rqSvc = "handle" /\ rqSeen = <<0, 0>> /\ rqCur = NoEntry
  /\ rqStats = NoStats
  /\ rqSent = 0 /\ rqDone = [r \in Reqs |-> "no"]

RqGoto(from, to) == rqSvc = from /\ rqSvc' = to

(***************************************************************************)
(* WindowsDriverLink::open and WindowsMappedQueue::try_new: two handles,   *)
(* three regions; a failure gives back what was acquired before it.        *)
(***************************************************************************)
AfterAlloc(region) ==
  CASE region = "handle" -> "event" [] region = "event" -> "sq"
    [] region = "sq" -> "cq" [] region = "cq" -> "data" [] OTHER -> "register"

AllocRegion(region) ==
  /\ RqGoto(region, AfterAlloc(region))
  /\ rqRegions' = rqRegions \cup {region}
  /\ UNCHANGED <<rqRegistered, rings, rqIn, rqSubmit, rqSeen, rqCur, rqStats, rqSent, rqDone>>

AllocFails(region) ==
  /\ RqGoto(region, "over")
  /\ rqRegions' = {}
  /\ UNCHANGED <<rqRegistered, rings, rqIn, rqSubmit, rqSeen, rqCur, rqStats, rqSent, rqDone>>

\* REGISTER: the driver wants both rings at zero; or it refuses, and the queue
\* is dropped.
Register ==
  /\ \/ RqGoto("register", "drain") /\ rqRegistered' = TRUE
     \/ RqGoto("register", "drop") /\ UNCHANGED rqRegistered
  /\ rqSq' = EmptyRing /\ rqCq' = EmptyRing
  /\ UNCHANGED <<rqRegions, rqIn, rqSubmit, rqSeen, rqCur, rqStats, rqSent, rqDone>>

(***************************************************************************)
(* The driver's QSubmit under Q->Lock: the first free tag is reserved and  *)
(* the entry behind tail is filled; past the barrier tail is published.    *)
(***************************************************************************)
FreeSlots == {t \in Slots : rqIn[t].state = "free"}

FirstFree(t) == t \in FreeSlots /\ \A u \in FreeSlots : t <= u

ReserveInto(t, i) ==
  /\ rqSent' = rqSent + 1
  /\ rqIn' = [rqIn EXCEPT ![t] = [state |-> "reserved", srb |-> rqSent + 1]]
  /\ rqSq' = [rqSq EXCEPT !.ent[i] = [tag |-> t, req |-> rqSent + 1]]

Reserve ==
  /\ rqRegistered /\ rqSubmit = -1 /\ rqSent < MaxSubmits
  /\ \E t \in Slots : FirstFree(t) /\ ReserveInto(t, Idx(rqSq.tail)) /\ rqSubmit' = t
  /\ UNCHANGED <<rqRegions, rqRegistered, rqCq, rqSvc, rqSeen, rqCur, rqStats, rqDone>>

PublishSubmit ==
  /\ rqSubmit # -1
  /\ rqSq' = [rqSq EXCEPT !.tail = Inc(@)]
  /\ rqIn' = [rqIn EXCEPT ![rqSubmit].state = "submitted"]
  /\ rqSubmit' = -1
  /\ UNCHANGED <<rqRegions, rqRegistered, rqCq, rqSvc, rqSeen, rqCur, rqStats, rqSent, rqDone>>

(***************************************************************************)
(* QCommitAndFetch, in the service's thread and under the lock: the first  *)
(* completion; its tag is freed once its bytes are copied out.  An unknown *)
(* or duplicate tag would be skipped.                                      *)
(***************************************************************************)
TakeAnswer ==
  /\ rqSvc = "drain" /\ rqSubmit = -1 /\ rqCq.head # rqCq.tail
  /\ LET e == rqCq.ent[Idx(rqCq.head)] IN
       IF rqIn[e.tag].state = "submitted"
       THEN /\ rqIn' = [rqIn EXCEPT ![e.tag] = [state |-> "completing", srb |-> NoReq]]
            /\ rqDone' = [rqDone EXCEPT ![rqIn[e.tag].srb] =
                           IF e.req = rqIn[e.tag].srb THEN "own" ELSE "other"]
            /\ rqCur' = e /\ rqSvc' = "release"
       ELSE UNCHANGED <<rqIn, rqDone, rqCur, rqSvc>>
  /\ rqCq' = [rqCq EXCEPT !.head = Inc(@)]
  /\ UNCHANGED <<rqRegions, rqRegistered, rqSq, rqSubmit, rqSeen, rqStats, rqSent>>

ReleaseSlot ==
  /\ RqGoto("release", "drain") /\ rqSubmit = -1
  /\ rqIn' = [rqIn EXCEPT ![rqCur.tag].state = "free"]
  /\ rqCur' = NoEntry
  /\ UNCHANGED <<rqRegions, rqRegistered, rings, rqSubmit, rqSeen, rqStats, rqSent, rqDone>>

\* The fetch returns, at once or after it was pended, woken or timed out.
FetchReturned ==
  /\ rqCq.head = rqCq.tail /\ RqGoto("drain", "pop")
  /\ UNCHANGED <<rqRegions, rqRegistered, rings, rqIn, rqSubmit, rqSeen, rqCur, rqStats,
                 rqSent, rqDone>>

(***************************************************************************)
(* DriverLink::commit_and_fetch over the mapped queue.                     *)
(***************************************************************************)

\* pop_sqe_snapshot: both words, then the entry, then the new head
LoadWords ==
  /\ rqSvc = "pop"
  /\ LET d == Dist(rqSq.head, rqSq.tail) IN
       IF d = 0 \/ d > Depth
       THEN rqSvc' = "drain" /\ rqSeen' = <<0, 0>>
       ELSE rqSvc' = "snapshot" /\ rqSeen' = <<rqSq.head, rqSq.tail>>
  /\ UNCHANGED <<rqRegions, rqRegistered, rings, rqIn, rqSubmit, rqCur, rqStats, rqSent, rqDone>>

Snapshot ==
  /\ RqGoto("snapshot", "store")
  /\ rqCur' = rqSq.ent[Idx(rqSeen[1])]
  /\ UNCHANGED <<rqRegions, rqRegistered, rings, rqIn, rqSubmit, rqSeen, rqStats, rqSent, rqDone>>

\* Mutant: the service takes everything up to the tail it loaded.
StoreTail ==
  /\ RqGoto("store", "serve")
  /\ rqSq' = [rqSq EXCEPT !.head = rqSeen[2]]
  /\ rqSeen' = <<0, 0>>
  /\ UNCHANGED <<rqRegions, rqRegistered, rqCq, rqIn, rqSubmit, rqCur, rqStats, rqSent, rqDone>>

StoreHead ==
  /\ RqGoto("store", "serve")
  /\ rqSq' = [rqSq EXCEPT !.head = Inc(rqSeen[1])]
  /\ rqSeen' = <<0, 0>>
  /\ UNCHANGED <<rqRegions, rqRegistered, rqCq, rqIn, rqSubmit, rqCur, rqStats, rqSent, rqDone>>

\* LinkStats::record, whatever the status
Record(s) ==
  [recorded |-> s.recorded + 1, next |-> (s.next + 1) % Window,
   len |-> IF s.len < Window THEN s.len + 1 ELSE Window]

ServeOne ==
  /\ RqGoto("serve", "push")
  /\ rqStats' = Record(rqStats)
  /\ UNCHANGED <<rqRegions, rqRegistered, rings, rqIn, rqSubmit, rqSeen, rqCur, rqSent, rqDone>>

\* Mutant: only the tag of the entry is written.
PushTagOnly ==
  /\ RqGoto("push", "publish")
  /\ rqCq' = [rqCq EXCEPT !.ent[Idx(rqCq.tail)].tag = rqCur.tag]
  /\ UNCHANGED <<rqRegions, rqRegistered, rqSq, rqIn, rqSubmit, rqSeen, rqCur, rqStats,
                 rqSent, rqDone>>

\* push_cqe: the full check and the entry, then the new tail
PushAnswer ==
  /\ rqSvc = "push"
  /\ IF Dist(rqCq.head, Inc(rqCq.tail)) > Depth
     THEN rqSvc' = "failed" /\ UNCHANGED rqCq
     ELSE rqSvc' = "publish" /\ rqCq' = [rqCq EXCEPT !.ent[Idx(rqCq.tail)] = rqCur]
  /\ UNCHANGED <<rqRegions, rqRegistered, rqSq, rqIn, rqSubmit, rqSeen, rqCur, rqStats,
                 rqSent, rqDone>>

PublishAnswer ==
  /\ RqGoto("publish", "pop")
  /\ rqCq' = [rqCq EXCEPT !.tail = Inc(@)]
  /\ rqCur' = NoEntry
  /\ UNCHANGED <<rqRegions, rqRegistered, rqSq, rqIn, rqSubmit, rqSeen, rqStats, rqSent, rqDone>>

\* UNREGISTER between two cycles: the driver fails what is in flight, then the
\* service's queue is dropped.
Unregister ==
  /\ RqGoto("drain", "drop") /\ rqSubmit = -1
  /\ rqRegistered' = FALSE
  /\ rqIn' = [t \in Slots |-> [state |-> "free", srb |-> NoReq]]
  /\ rqSq' = EmptyRing /\ rqCq' = EmptyRing
  /\ UNCHANGED <<rqRegions, rqSubmit, rqSeen, rqCur, rqStats, rqSent, rqDone>>

DropQueue ==
  /\ RqGoto("drop", "over")
  /\ rqRegions' = {}
  /\ UNCHANGED <<rqRegistered, rings, rqIn, rqSubmit, rqSeen, rqCur, rqStats, rqSent, rqDone>>

-----------------------------------------------------------------------------
Submitting == Reserve \/ PublishSubmit

Serving ==
  \/ TakeAnswer \/ ReleaseSlot \/ FetchReturned
  \/ LoadWords \/ Snapshot \/ StoreHead \/ ServeOne \/ PushAnswer \/ PublishAnswer

RqNext ==
  \/ \E region \in Regions : AllocRegion(region) \/ AllocFails(region)
  \/ Register \/ Submitting \/ Serving \/ Unregister \/ DropQueue

RqSpec == RqInit /\ [][RqNext]_rqVars

-----------------------------------------------------------------------------
Held == rqSvc \in {"serve", "push", "publish"}

\* The published entries of a ring, counted from its head.
Pending(ring) == 0..(Dist(ring.head, ring.tail) - 1)
EntryAt(ring, i) == ring.ent[Idx(ring.head + i)]

\* Their tags, in order.
Between(ring) == [i \in 1..Dist(ring.head, ring.tail) |-> EntryAt(ring, i - 1).tag]

\* The tag the service works on, and the one the driver completes.
InHand == IF Held THEN <<rqCur.tag>> ELSE <<>>
Leaving == {t \in Slots : rqIn[t].state = "completing"}

Queues ==
  INSTANCE TagQueues WITH
    TqTags <- Slots,
    tqSent <- Between(rqSq),
    tqHeld <- InHand,
    tqAnswered <- Between(rqCq),
    tqLeaving <- Leaving

\* The rings are two queues of tags: through wrapping words, entries filled
\* before they are published and popped before they are answered, no entry is
\* lost, repeated, reordered or overwritten, and the driver, which never asks
\* whether the submission ring is full, never finds it so.
ImplementsQueues == Queues!TqSpec

\* What StorPort gets back for a request is what the service answered to that
\* request and not to an earlier one that had its tag.
AnswersItsOwn == \A r \in Reqs : rqDone[r] # "other"

RqServes == rqSvc \in {"drain", "release", "pop", "snapshot", "store", "serve", "push", "publish", "failed"}

Acquired ==
  CASE rqSvc = "handle" -> {} [] rqSvc = "event" -> {"handle"} [] rqSvc = "sq" -> {"handle", "event"}
    [] rqSvc = "cq" -> Regions \ {"cq", "data"} [] rqSvc = "data" -> Regions \ {"data"}
    [] rqSvc = "over" -> {} [] OTHER -> Regions

\* A queue is registered while the service serves it and has all its memory then;
\* without a queue nothing is in flight and nothing left open or allocated,
\* whichever of the five acquisitions failed.
MemoryIsOwned ==
  /\ rqRegions = Acquired
  /\ rqRegistered <=> RqServes
  /\ ~rqRegistered => /\ rqSq = EmptyRing /\ rqCq = EmptyRing /\ rqSubmit = -1
                      /\ \A t \in Slots : rqIn[t].state = "free"

Answered == {r \in Reqs : rqDone[r] # "no"}

One(b) == IF b THEN 1 ELSE 0

\* The statistics count every answer once, before StorPort gets it, and nothing
\* StorPort did not send; the latency window holds the latest Window of them: it
\* never runs past its array.
StatsFollowAnswers ==
  /\ rqStats.recorded >= Cardinality(Answered) + Dist(rqCq.head, rqCq.tail) + One(rqSvc \in {"push", "publish"})
  /\ rqStats.recorded + Dist(rqSq.head, rqSq.tail) + One(rqSvc = "serve") + One(rqSubmit # -1) <= rqSent
  /\ rqStats.len = IF rqStats.recorded < Window THEN rqStats.recorded ELSE Window
  /\ rqStats.next = rqStats.recorded % Window

IsLive(e) == rqIn[e.tag] = [state |-> "submitted", srb |-> e.req]

\* A published entry, and the one the service works on, is the request that has
\* its tag in the driver's table; so is the entry a submit call has filled, and the
\* one the service has filled is its answer.
EntriesAreInFlight ==
  /\ \A i \in Pending(rqSq) : IsLive(EntryAt(rqSq, i))
  /\ \A i \in Pending(rqCq) : IsLive(EntryAt(rqCq, i))
  /\ Held => IsLive(rqCur)
  /\ rqSubmit # -1 => rqSq.ent[Idx(rqSq.tail)] = [tag |-> rqSubmit, req |-> rqIn[rqSubmit].srb]
  /\ rqSvc = "publish" => rqCq.ent[Idx(rqCq.tail)] = rqCur

\* A tag is in one place: at one position of one ring, with the service, with the
\* submit call, or with the completion.  This, not a check, keeps the rings from
\* overflowing; the completion ring's own check never fires.
OnePlace ==
  /\ \A i, j \in Pending(rqSq) : EntryAt(rqSq, i).tag = EntryAt(rqSq, j).tag => i = j
  /\ \A i, j \in Pending(rqCq) : EntryAt(rqCq, i).tag = EntryAt(rqCq, j).tag => i = j
  /\ \A i \in Pending(rqSq), j \in Pending(rqCq) : EntryAt(rqSq, i).tag # EntryAt(rqCq, j).tag
  /\ Held => /\ \A i \in Pending(rqSq) : EntryAt(rqSq, i).tag # rqCur.tag
             /\ \A i \in Pending(rqCq) : EntryAt(rqCq, i).tag # rqCur.tag
  /\ \A t \in Slots : /\ rqIn[t].state = "reserved" <=> t = rqSubmit
                      /\ rqIn[t].state = "completing" <=> rqSvc = "release" /\ t = rqCur.tag
  /\ rqSvc # "failed"

\* What the service loaded is still so when it uses it: nobody else moves the head
\* of the submission ring or writes behind it.
SeenIsCurrent ==
  /\ rqSvc \in {"snapshot", "store"} => rqSq.head # rqSq.tail /\ rqSeen[1] = rqSq.head
  /\ rqSvc = "store" => rqCur = EntryAt(rqSq, 0)

\* The promises together.
RqSafe ==
  /\ RqTypeOK /\ AnswersItsOwn /\ MemoryIsOwned /\ StatsFollowAnswers
  /\ EntriesAreInFlight /\ OnePlace /\ SeenIsCurrent
=============================================================================
