----------------------------- MODULE LinuxBlock -----------------------------
(***************************************************************************)
(* The Linux block driver over a PCI aperture (drivers/block/ramshared):   *)
(* probe with its error labels, remove, the blk-mq request path and the    *)
(* synchronous rw_page path.  Sizes count in units of one page, of which a *)
(* bio carries one; the block layer hands out aligned requests only.  One  *)
(* hardware queue per CPU, so that the requests of two CPUs interleave bio *)
(* by bio.                                                                 *)
(***************************************************************************)
EXTENDS Naturals, FiniteSets

CONSTANTS
  Cpus,     \* the CPUs, each with its hardware queue
  CapLimit  \* the largest capacity_mb probe accepts

ASSUME LinuxBlockAssumption == CapLimit \in Nat \ {0}

VARIABLES
  lbCap,     \* the module parameter capacity_mb
  lbBar,     \* the length of BAR0
  lbDepth,   \* queue_depth, as a class: below, within or above [16, 1024]
  lbAt,      \* the next step of probe or remove; "unbound" and "bound" between them
  lbHeld,    \* what the driver has acquired
  lbReq,     \* the request of each CPU
  lbVram,    \* the content of the aperture
  lbExpect   \* what the completed writes and discards say it is

lbVars == <<lbCap, lbBar, lbDepth, lbAt, lbHeld, lbReq, lbVram, lbExpect>>
lbParams == <<lbCap, lbBar, lbDepth>>
lbData == <<lbReq, lbVram, lbExpect>>

Units == 0..(CapLimit - 1)
Zero == 0
Data == 1
Resources == {"enabled", "master", "regions", "map", "tags", "disk", "added"}
LbSteps == {"unbound", "enable", "mask", "regions", "map", "tags", "disk", "add", "bound",
            "del", "unmap", "disable"}

LbNoReq == [st |-> "none", op |-> "flush", page |-> FALSE, pos |-> 0, len |-> 0, at |-> 0, good |-> TRUE]
LbRequests ==
  [st : {"none", "queued", "busy", "done", "failed"}, op : {"read", "write", "flush", "discard", "other"},
   page : BOOLEAN, pos : 0..CapLimit, len : 0..2, at : 0..2, good : BOOLEAN]

LbTypeOK ==
  /\ lbAt \in LbSteps /\ lbHeld \subseteq Resources
  /\ lbReq \in [Cpus -> LbRequests]
  /\ lbVram \in [Units -> {Zero, Data}] /\ lbExpect \in [Units -> {Zero, Data}]
  /\ lbAt \in {"tags", "disk", "add", "bound"} => lbDepth = "within"

LbInit ==
  /\ lbCap \in 0..(CapLimit + 1) /\ lbBar \in 0..CapLimit /\ lbDepth \in {"below", "within", "above"}
  /\ lbAt = "unbound" /\ lbHeld = {}
  /\ lbReq = [c \in Cpus |-> LbNoReq]
  /\ lbVram = [u \in Units |-> Zero] /\ lbExpect = lbVram

(***************************************************************************)
(* Probe.  The capacity is checked against the parameter's range and BAR0  *)
(* before the device is touched; every later failure leaves through its    *)
(* error label, which gives back what was acquired before it.              *)
(***************************************************************************)
CapacityIsBacked == lbCap \in 1..CapLimit /\ lbBar >= lbCap

\* The warning is given and the depth kept.

LbProbe ==
  /\ lbAt = "unbound" /\ CapacityIsBacked
  /\ lbAt' = "enable" /\ lbDepth' = "within"
  /\ UNCHANGED <<lbCap, lbBar, lbHeld, lbData>>

\* A parameter out of range, or a BAR0 shorter than the capacity.
LbProbeRefused ==
  /\ lbAt = "unbound" /\ ~CapacityIsBacked
  /\ UNCHANGED lbVars

Acquires(what, next) ==
  /\ lbHeld' = lbHeld \cup what
  /\ lbAt' = next
  /\ UNCHANGED <<lbParams, lbData>>

\* The labels err_clear_master, err_release_regions and err_dma_cleanup.
ErrClearMaster == {"master", "enabled"}
ErrReleaseRegions == ErrClearMaster \cup {"regions"}
ErrDmaCleanup == ErrReleaseRegions \cup {"map"}

Unwinds(label) ==
  /\ lbHeld' = lbHeld \ label
  /\ lbAt' = "unbound"
  /\ UNCHANGED <<lbParams, lbData>>

\* pci_enable_device_mem and pci_set_master: a failure returns before any label.
LbEnable ==
  /\ lbAt = "enable"
  /\ Acquires({"enabled", "master"}, "mask") \/ Unwinds({})

\* A 64-bit DMA mask, else a 32-bit one.
LbMask ==
  /\ lbAt = "mask"
  /\ Acquires({}, "regions") \/ Unwinds(ErrClearMaster)

LbRegions ==
  /\ lbAt = "regions"
  /\ Acquires({"regions"}, "map") \/ Unwinds(ErrClearMaster)

\* ramshared_dma_init maps exactly the capacity; it repeats the check of BAR0.
LbMap ==
  /\ lbAt = "map"
  /\ (CapacityIsBacked /\ Acquires({"map"}, "tags")) \/ Unwinds(ErrReleaseRegions)

LbTags ==
  /\ lbAt = "tags"
  /\ Acquires({"tags"}, "disk") \/ Unwinds(ErrDmaCleanup)

\* A failing disk allocation frees the tag set in ramshared_queue_init itself.
LbDisk ==
  /\ lbAt = "disk"
  /\ Acquires({"disk"}, "add") \/ Unwinds(ErrDmaCleanup \cup {"tags"})

\* A disk that cannot be added is put, and its tag set freed, on the way to the label.

LbAdd ==
  /\ lbAt = "add"
  /\ Acquires({"added"}, "bound") \/ Unwinds(ErrDmaCleanup \cup {"disk", "tags"})

(***************************************************************************)
(* Remove: the disk first, which waits for the requests in flight and      *)
(* lets none in any more, then the mapping, then the device.               *)
(***************************************************************************)
LbInFlight(c) == lbReq[c].st \in {"queued", "busy"}

LbRemove ==
  /\ lbAt = "bound"
  /\ lbAt' = "del"
  /\ UNCHANGED <<lbParams, lbHeld, lbData>>

\* Mutant: the mapping goes before the requests that use it.
QueueCleanupLast ==
  /\ lbAt = "del"
  /\ lbHeld' = lbHeld \ IF \E c \in Cpus : LbInFlight(c) THEN {"map"} ELSE {"map", "added", "disk", "tags"}
  /\ lbAt' = IF \E c \in Cpus : LbInFlight(c) THEN "del" ELSE "unmap"
  /\ UNCHANGED <<lbParams, lbData>>

LbQueueCleanup ==
  /\ lbAt = "del" /\ \A c \in Cpus : ~LbInFlight(c)
  /\ lbHeld' = lbHeld \ {"added", "disk", "tags"}
  /\ lbAt' = "unmap"
  /\ UNCHANGED <<lbParams, lbData>>

LbDmaCleanup ==
  /\ lbAt = "unmap"
  /\ lbHeld' = lbHeld \ {"map"}
  /\ lbAt' = "disable"
  /\ UNCHANGED <<lbParams, lbData>>

LbDisable ==
  /\ lbAt = "disable"
  /\ lbHeld' = lbHeld \ ErrReleaseRegions
  /\ lbAt' = "unbound"
  /\ UNCHANGED <<lbParams, lbData>>

(***************************************************************************)
(* The block layer.  It keeps two requests for one unit apart if either    *)
(* changes it, and takes the answers.                                      *)
(***************************************************************************)
Covers(r) == {u \in Units : r.pos <= u /\ u < r.pos + r.len}
Changes(r) == r.op \in {"write", "discard"}
Conflict(r, s) == s.st # "none" /\ (Changes(r) \/ Changes(s)) /\ Covers(r) \cap Covers(s) # {}

Submit(c, op, page, pos, len) ==
  LET r == [LbNoReq EXCEPT !.st = "queued", !.op = op, !.page = page, !.pos = pos, !.len = len]
  IN /\ lbAt = "bound" /\ lbReq[c].st = "none"
     /\ (op = "flush") = (len = 0)
     /\ page => op \in {"read", "write"} /\ len = 1
     /\ \A d \in Cpus \ {c} : ~Conflict(r, lbReq[d])
     /\ lbReq' = [lbReq EXCEPT ![c] = r]
     /\ UNCHANGED <<lbParams, lbAt, lbHeld, lbVram, lbExpect>>

LbTaken(c) ==
  /\ lbReq[c].st \in {"done", "failed"}
  /\ lbReq' = [lbReq EXCEPT ![c] = LbNoReq]
  /\ UNCHANGED <<lbParams, lbAt, lbHeld, lbVram, lbExpect>>

(***************************************************************************)
(* ramshared_queue_rq: the checks, then one bio after the other; a discard *)
(* clears its whole range at once.                                         *)
(***************************************************************************)
WithinBounds(pos, len) == pos <= lbCap /\ len <= lbCap - pos

Untouched == UNCHANGED <<lbParams, lbAt, lbHeld>>

\* An operation that is not served falls out of the switch without an answer.

\* An error status, or BLK_STS_NOTSUPP for an operation that is not served.
LbRefuse(c) ==
  /\ lbReq[c].st = "queued"
  /\ "map" \notin lbHeld \/ ~WithinBounds(lbReq[c].pos, lbReq[c].len) \/ lbReq[c].op = "other"
  /\ lbReq' = [lbReq EXCEPT ![c].st = "failed"]
  /\ Untouched /\ UNCHANGED <<lbVram, lbExpect>>

LbStartRequest(c) ==
  /\ lbReq[c].st = "queued" /\ ~lbReq[c].page /\ lbReq[c].op # "other"
  /\ "map" \in lbHeld /\ WithinBounds(lbReq[c].pos, lbReq[c].len)
  /\ lbReq' = [lbReq EXCEPT ![c].st = IF lbReq[c].op = "flush" THEN "done" ELSE "busy"]
  /\ Untouched /\ UNCHANGED <<lbVram, lbExpect>>

\* pos is not moved on behind a bio.

BioAddress(r) == r.pos + r.at

\* What memcpy_fromio and memcpy_toio do with one unit at address a.
ReadsUnit(a) == lbVram[a]
WritesUnit(a) == lbVram' = [lbVram EXCEPT ![a] = Data]

LbProcessBio(c) ==
  LET r == lbReq[c] a == BioAddress(lbReq[c]) last == lbReq[c].at + 1 = lbReq[c].len
  IN /\ r.st = "busy" /\ r.op \in {"read", "write"}
     /\ lbReq' = [lbReq EXCEPT ![c].at = @ + 1, ![c].st = IF last THEN "done" ELSE "busy",
                               ![c].good = @ /\ (r.op = "read" => ReadsUnit(a) = lbExpect[r.pos + r.at])]
     /\ IF r.op = "write" THEN WritesUnit(a) ELSE UNCHANGED lbVram
     /\ lbExpect' = [u \in Units |-> IF r.op = "write" /\ last /\ u \in Covers(r) THEN Data ELSE lbExpect[u]]
     /\ Untouched

LbDiscard(c) ==
  LET r == lbReq[c]
  IN /\ r.st = "busy" /\ r.op = "discard"
     /\ lbReq' = [lbReq EXCEPT ![c].st = "done"]
     /\ lbVram' = [u \in Units |-> IF u \in Covers(r) THEN Zero ELSE lbVram[u]]
     /\ lbExpect' = [u \in Units |-> IF u \in Covers(r) THEN Zero ELSE lbExpect[u]]
     /\ Untouched

\* ramshared_bdev_rw_page, on kernels before 6.12: one page, without a request.
LbRwPage(c) ==
  LET r == lbReq[c]
  IN /\ r.st = "queued" /\ r.page /\ "map" \in lbHeld /\ WithinBounds(r.pos, r.len)
     /\ lbReq' = [lbReq EXCEPT ![c].st = "done", ![c].good = r.op = "read" => ReadsUnit(r.pos) = lbExpect[r.pos]]
     /\ IF r.op = "write" THEN WritesUnit(r.pos) ELSE UNCHANGED lbVram
     /\ lbExpect' = IF r.op = "write" THEN [lbExpect EXCEPT ![r.pos] = Data] ELSE lbExpect
     /\ Untouched

Submits ==
  \E c \in Cpus, op \in {"read", "write", "flush", "discard", "other"}, page \in BOOLEAN :
    \E pos \in 0..CapLimit, len \in 0..2 : Submit(c, op, page, pos, len)

Serves(c) == LbRefuse(c) \/ LbStartRequest(c) \/ LbProcessBio(c) \/ LbDiscard(c) \/ LbRwPage(c)
Probing == LbEnable \/ LbMask \/ LbRegions \/ LbMap \/ LbTags \/ LbDisk \/ LbAdd
Removing == LbQueueCleanup \/ LbDmaCleanup \/ LbDisable

LbNext ==
  \/ LbProbe \/ LbProbeRefused \/ Probing \/ LbRemove \/ Removing
  \/ Submits \/ (\E c \in Cpus : Serves(c) \/ LbTaken(c))

\* The kernel runs a dispatched request, and a thread inside probe or remove, to the end.
LbFairness == (\A c \in Cpus : WF_lbVars(Serves(c))) /\ WF_lbVars(Probing) /\ WF_lbVars(Removing)

LbSpec == LbInit /\ [][LbNext]_lbVars /\ LbFairness

(***************************************************************************)
(* Properties.                                                             *)
(***************************************************************************)
\* A device that is not bound holds nothing: every error label and the remove path give
\* back exactly what was acquired before them.
UnboundHoldsNothing == lbAt = "unbound" => lbHeld = {}

\* A request in the driver's hands always finds the aperture mapped and the device enabled,
\* also while the driver is being removed; the mapping covers every unit it touches.
TouchesMappedUnits ==
  \A c \in Cpus : lbReq[c].st = "busy" =>
    ErrDmaCleanup \subseteq lbHeld /\ lbReq[c].pos + lbReq[c].len <= lbCap /\ lbCap <= lbBar

\* A read answered with success returned, unit by unit, what the last completed write or
\* discard of that unit left there, through either path and on any CPU.
ReadsBack == \A c \in Cpus : lbReq[c].st = "done" => lbReq[c].good

\* A removal comes to its end, whatever it finds in flight, and leaves no request
\* unanswered behind.
RemovalEnds == lbAt = "del" ~> lbAt = "unbound" /\ \A c \in Cpus : ~LbInFlight(c)

\* The promises together.
LbContract ==
  /\ [](LbTypeOK /\ UnboundHoldsNothing /\ TouchesMappedUnits /\ ReadsBack)
  /\ RemovalEnds
=============================================================================
