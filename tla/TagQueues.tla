----------------------------- MODULE TagQueues -----------------------------
(***************************************************************************)
(* What the two shared rings of the Windows disk promise its driver and    *)
(* its service: two first-in first-out queues of tags, a tag being in at   *)
(* most one place at a time.  A request takes a free tag into the first    *)
(* queue, the service takes tags out in order and answers each into the    *)
(* second, and the driver completes the answers in order.  No queue has a  *)
(* capacity of its own: that the rings need none beyond the number of tags *)
(* is what their implementation has to show.                               *)
(***************************************************************************)
EXTENDS Naturals, Sequences, Functions

CONSTANT TqTags  \* the tags, that is the slots of the inflight table

VARIABLES
  tqSent,     \* submitted and not yet taken by the service
  tqHeld,     \* what the service works on: a sequence of at most one tag
  tqAnswered, \* answered and not yet completed
  tqLeaving   \* being completed by the driver

tqVars == <<tqSent, tqHeld, tqAnswered, tqLeaving>>

Placed == Range(tqSent) \cup Range(tqHeld) \cup Range(tqAnswered) \cup tqLeaving

TqInit == tqSent = <<>> /\ tqHeld = <<>> /\ tqAnswered = <<>> /\ tqLeaving = {}

TqSubmit ==
  /\ \E t \in TqTags \ Placed : tqSent' = Append(tqSent, t)
  /\ UNCHANGED <<tqHeld, tqAnswered, tqLeaving>>

TqTake ==
  /\ tqHeld = <<>> /\ tqSent # <<>>
  /\ tqHeld' = <<Head(tqSent)>> /\ tqSent' = Tail(tqSent)
  /\ UNCHANGED <<tqAnswered, tqLeaving>>

TqAnswer ==
  /\ tqHeld # <<>>
  /\ tqAnswered' = tqAnswered \o tqHeld /\ tqHeld' = <<>>
  /\ UNCHANGED <<tqSent, tqLeaving>>

TqComplete ==
  /\ tqAnswered # <<>> /\ tqLeaving = {}
  /\ tqLeaving' = {Head(tqAnswered)} /\ tqAnswered' = Tail(tqAnswered)
  /\ UNCHANGED <<tqSent, tqHeld>>

TqRelease == tqLeaving # {} /\ tqLeaving' = {} /\ UNCHANGED <<tqSent, tqHeld, tqAnswered>>

\* The queue is unregistered: everything that was in it is gone.
TqEnd == tqSent' = <<>> /\ tqHeld' = <<>> /\ tqAnswered' = <<>> /\ tqLeaving' = {}

TqNext == TqSubmit \/ TqTake \/ TqAnswer \/ TqComplete \/ TqRelease \/ TqEnd

TqSpec == TqInit /\ [][TqNext]_tqVars
=============================================================================
