----------------------------- MODULE BlockDevice -----------------------------
(***************************************************************************)
(* What a block backend of RamShared promises to its client, without any   *)
(* cache: the trait BlockBackend (crates/ramshared-block/src/request.rs)   *)
(* over a medium with a volatile write buffer.                             *)
(*                                                                         *)
(* contents[s]  is what a read of sector s returns now.                    *)
(* survivors[s] is the set of values sector s may hold after a power loss: *)
(* every value written since the last completed sync, and the value that   *)
(* sync made durable.                                                      *)
(***************************************************************************)
CONSTANTS Sectors,   \* the sectors of the device
          Values,    \* what one sector may hold
          Ranges     \* the sets of addresses a request may name

VARIABLES contents, survivors, reply

vars == <<contents, survivors, reply>>

NoData == [s \in {} |-> s]

Reply(ok, data, durable) == [ok |-> ok, data |-> data, durable |-> durable]

\* The answers to a request: data, done, done and durable, failed.
Returned(R, f) == Reply(TRUE, [s \in R |-> f[s]], FALSE)
Acknowledged == Reply(TRUE, NoData, FALSE)
Persisted == Reply(TRUE, NoData, TRUE)
Refused == Reply(FALSE, NoData, FALSE)

\* The values sector s may hold once the sectors of W were overwritten by d.
Candidates(W, d) ==
    [s \in Sectors |-> survivors[s] \cup (IF s \in W THEN {d[s]} ELSE {})]

Written(W, d) == [s \in Sectors |-> IF s \in W THEN d[s] ELSE contents[s]]

Durable(f) == [s \in Sectors |-> {f[s]}]

\* The contents a medium may be left with when its write buffer is lost.
Remains(cand) == {f \in [Sectors -> Values] : \A s \in Sectors : f[s] \in cand[s]}

Init ==
    /\ contents \in [Sectors -> Values]
    /\ survivors = Durable(contents)
    /\ reply = Acknowledged

\* A read returns the contents of every sector of the range.
Read(R) ==
    /\ R \subseteq Sectors
    /\ reply' = Returned(R, contents)
    /\ UNCHANGED <<contents, survivors>>

Write(R, d) ==
    /\ reply' = Acknowledged
    /\ R \subseteq Sectors
    /\ contents' = Written(R, d)
    /\ survivors' = Candidates(R, d)

\* A failed write may have stored any part of the range.
TornWrite(R, d) ==
    /\ reply' = Refused
    /\ R \subseteq Sectors
    /\ \E W \in SUBSET R :
          /\ contents' = Written(W, d)
          /\ survivors' = Candidates(W, d)

\* A forced-unit-access write is durable, with all that was written before.
WriteDurable(R, d) ==
    /\ reply' = Persisted
    /\ R \subseteq Sectors
    /\ contents' = Written(R, d)
    /\ survivors' = Durable(Written(R, d))

\* The data was written and the sync after it failed.
WriteNotDurable(R, d) ==
    /\ reply' = Refused
    /\ R \subseteq Sectors
    /\ contents' \in Remains(Candidates(R, d))
    /\ survivors' = Candidates(R, d)

\* Everything acknowledged so far becomes durable.
Sync ==
    /\ reply' = Persisted
    /\ survivors' = Durable(contents)
    /\ UNCHANGED contents

\* A failed sync may drop what was not durable.
SyncFailed ==
    /\ reply' = Refused
    /\ contents' \in Remains(survivors)
    /\ UNCHANGED survivors

PowerLoss ==
    /\ reply' = Refused
    /\ contents' \in Remains(survivors)
    /\ survivors' = Durable(contents')

\* A request that has no effect on the medium.
NoEffect ==
    /\ reply' \in {Acknowledged, Refused}
    /\ UNCHANGED <<contents, survivors>>

Next ==
    \/ NoEffect
    \/ Sync
    \/ SyncFailed
    \/ PowerLoss
    \/ \E R \in Ranges :
          \/ Read(R)
          \/ \E d \in [R -> Values] :
                Write(R, d) \/ TornWrite(R, d) \/ WriteDurable(R, d) \/ WriteNotDurable(R, d)

Spec == Init /\ [][Next]_vars
=============================================================================
