---------------------------- MODULE IoRingProofs ----------------------------
(***************************************************************************)
(* The rings between the Windows driver and its service keep their         *)
(* promises for every queue depth, word size and number of requests: an    *)
(* answer reaches the request it was made for, and neither ring overflows  *)
(* although the driver never looks whether there is room.                  *)
(***************************************************************************)
EXTENDS IoRing, FiniteSetTheorems, TLAPS

Word == 0..(Wrap - 1)

\* What the assumption says, constant by constant.
LEMMA Sizes ==
    /\ Depth \in Nat \ {0} /\ Wrap \in Nat \ {0} /\ MaxSubmits \in Nat \ {0} /\ Window \in Nat \ {0}
    /\ Wrap > Depth /\ Wrap % Depth = 0
  BY IoRingAssumption

-----------------------------------------------------------------------------
\* The remainder is the one in range.
LEMMA ModUnique == ASSUME NEW w \in Nat \ {0}, NEW q \in Int, NEW r \in 0..(w - 1) PROVE (w * q + r) % w = r
  OBVIOUS

\* Quotient and remainder.
LEMMA ModQuotient ==
    ASSUME NEW w \in Nat \ {0}, NEW n \in Int
    PROVE  n = w * (n \div w) + (n % w) /\ n \div w \in Int /\ n % w \in 0..(w - 1)
  OBVIOUS

\* Whole laps do not change a remainder.
LEMMA ModLaps == ASSUME NEW w \in Nat \ {0}, NEW n \in Int, NEW q \in Int PROVE (w * q + n) % w = n % w
  <1> DEFINE p == q + (n \div w)
             r == n % w
  <1>1. n = w * (n \div w) + r /\ n \div w \in Int /\ r \in 0..(w - 1)
    BY ModQuotient
  <1>2. w * q + n = w * p + r /\ p \in Int
    BY <1>1
  <1> HIDE DEF p, r
  <1>3. (w * p + r) % w = r
    BY <1>1, <1>2, ModUnique
  <1> QED BY <1>2, <1>3 DEF r

\* A counter kept modulo w follows the counter.
LEMMA ModNext ==
    ASSUME NEW w \in Nat \ {0}, NEW n \in Nat
    PROVE  ((n % w) + 1) % w = (n + 1) % w /\ (n + 1) % w \in 0..(w - 1)
  <1> DEFINE q == n \div w
             r == n % w
  <1>1. n = w * q + r /\ q \in Int /\ r \in Int
    BY ModQuotient
  <1>2. (n + 1) % w \in 0..(w - 1)
    BY ModQuotient
  <1> HIDE DEF q, r
  <1>3. n + 1 = w * q + (r + 1) /\ r + 1 \in Int
    BY <1>1
  <1> DEFINE s == r + 1
  <1> HIDE DEF s
  <1>4. (w * q + s) % w = s % w
    BY <1>1, <1>3, ModLaps, Zenon DEF s
  <1> QED BY <1>2, <1>3, <1>4 DEF r, s

\* The distance of two words, without remainders.
LEMMA DistCases ==
    ASSUME NEW h \in Word, NEW t \in Word
    PROVE  Dist(h, t) \in Word /\ Dist(h, t) = IF t >= h THEN t - h ELSE t - h + Wrap
  BY Sizes, ModUnique DEF Word, Dist

\* The next word, without remainders.
LEMMA IncCases == ASSUME NEW h \in Word PROVE Inc(h) \in Word /\ Inc(h) = IF h = Wrap - 1 THEN 0 ELSE h + 1
  BY Sizes DEF Word, Inc

\* Publishing an entry makes the distance one longer.
LEMMA DistTail ==
    ASSUME NEW h \in Word, NEW t \in Word, Dist(h, t) < Wrap - 1
    PROVE  Dist(h, Inc(t)) = Dist(h, t) + 1
  <1>1. Inc(t) \in Word /\ Inc(t) = IF t = Wrap - 1 THEN 0 ELSE t + 1 BY IncCases
  <1>2. Dist(h, Inc(t)) = IF Inc(t) >= h THEN Inc(t) - h ELSE Inc(t) - h + Wrap BY <1>1, DistCases
  <1>3. Dist(h, t) = IF t >= h THEN t - h ELSE t - h + Wrap BY DistCases
  <1> QED BY <1>1, <1>2, <1>3, Sizes DEF Word

\* Taking an entry makes it one shorter.
LEMMA DistHead ==
    ASSUME NEW h \in Word, NEW t \in Word, h # t
    PROVE  Dist(Inc(h), t) = Dist(h, t) - 1
  <1>1. Inc(h) \in Word /\ Inc(h) = IF h = Wrap - 1 THEN 0 ELSE h + 1 BY IncCases
  <1>2. Dist(Inc(h), t) = IF t >= Inc(h) THEN t - Inc(h) ELSE t - Inc(h) + Wrap BY <1>1, DistCases
  <1>3. Dist(h, t) = IF t >= h THEN t - h ELSE t - h + Wrap BY DistCases
  <1> QED BY <1>1, <1>2, <1>3, Sizes DEF Word

\* Two words are the same when nothing is between them.
LEMMA DistZero == ASSUME NEW h \in Word, NEW t \in Word PROVE Dist(h, t) = 0 <=> h = t
  <1>1. Dist(h, t) = IF t >= h THEN t - h ELSE t - h + Wrap BY DistCases
  <1> QED BY <1>1, Sizes DEF Word

\* An index is a slot.
LEMMA IdxRange == ASSUME NEW n \in Int PROVE Idx(n) \in Slots
  BY Sizes DEF Idx, Slots

\* A lap of the words is a number of whole laps of the ring.
LEMMA IdxLap == ASSUME NEW n \in Int PROVE Idx(Wrap + n) = Idx(n)
  <1>1. Wrap = Depth * (Wrap \div Depth) + (Wrap % Depth) /\ Wrap \div Depth \in Int
    BY ModQuotient, Sizes
  <1>2. Wrap = Depth * (Wrap \div Depth)
    BY <1>1, Sizes
  <1>3. (Depth * (Wrap \div Depth) + n) % Depth = n % Depth
    BY <1>1, ModLaps, Sizes, Zenon
  <1> QED BY <1>2, <1>3 DEF Idx

\* Counting on from the next word is counting one further from this one.
LEMMA IdxInc == ASSUME NEW h \in Word, NEW i \in Int PROVE Idx(Inc(h) + i) = Idx(h + (i + 1))
  <1>1. CASE h = Wrap - 1
    BY <1>1, IncCases, IdxLap, Sizes
  <1>2. CASE h # Wrap - 1
    BY <1>2, IncCases, Sizes DEF Word
  <1> QED BY <1>1, <1>2

\* The entry behind the last published one is the one at tail.
LEMMA IdxTail == ASSUME NEW h \in Word, NEW t \in Word PROVE Idx(h + Dist(h, t)) = Idx(t)
  <1>1. Dist(h, t) = IF t >= h THEN t - h ELSE t - h + Wrap BY DistCases
  <1>2. h + Dist(h, t) = t \/ h + Dist(h, t) = Wrap + t
    BY <1>1, Sizes DEF Word
  <1> QED BY <1>2, IdxLap, Sizes DEF Word

\* Entries less than a lap apart are in different slots.
LEMMA IdxApart ==
    ASSUME NEW h \in Int, NEW i \in 0..(Depth - 1), NEW j \in 0..(Depth - 1), Idx(h + i) = Idx(h + j)
    PROVE  i = j
  <1> DEFINE a == (h + i) \div Depth
             b == (h + j) \div Depth
  <1>1. h + i = Depth * a + Idx(h + i) /\ a \in Int /\ Idx(h + i) \in Int
    BY ModQuotient, Sizes DEF Idx
  <1>2. h + j = Depth * b + Idx(h + j) /\ b \in Int /\ Idx(h + j) \in Int
    BY ModQuotient, Sizes DEF Idx
  <1> HIDE DEF a, b
  <1>3. i - j = Depth * (a - b) /\ a - b \in Int
    BY <1>1, <1>2, Sizes
  <1>4. a - b < 1 /\ a - b > -1
    BY <1>3, Sizes
  <1> QED BY <1>3, <1>4, Sizes

-----------------------------------------------------------------------------
\* What is known of the words and entries of a ring.
LEMMA RingTypes ==
    ASSUME NEW ring \in Rings
    PROVE  /\ ring.head \in Word /\ ring.tail \in Word /\ ring.ent \in [Slots -> Entries]
           /\ Dist(ring.head, ring.tail) \in Word /\ Idx(ring.tail) \in Slots
           /\ Pending(ring) \subseteq Nat
           /\ \A i \in Nat : Idx(ring.head + i) \in Slots /\ EntryAt(ring, i) \in Entries
  <1>1. ring.head \in Word /\ ring.tail \in Word /\ ring.ent \in [Slots -> Entries]
    BY DEF Rings, Word
  <1>2. Dist(ring.head, ring.tail) \in Word
    BY <1>1, DistCases
  <1>3. Idx(ring.tail) \in Slots /\ \A i \in Nat : Idx(ring.head + i) \in Slots
    BY <1>1, IdxRange, Sizes DEF Word
  <1> QED BY <1>1, <1>2, <1>3, Sizes DEF EntryAt, Pending, Word

\* With one tag elsewhere, a ring of distinct tags has room.
LEMMA RingHasRoom ==
    ASSUME NEW ring \in Rings, NEW t \in Slots,
           \A i, j \in Pending(ring) : EntryAt(ring, i).tag = EntryAt(ring, j).tag => i = j,
           \A i \in Pending(ring) : EntryAt(ring, i).tag # t
    PROVE  Dist(ring.head, ring.tail) < Depth
  <1> DEFINE n == Dist(ring.head, ring.tail)
             f == [i \in 0..(n - 1) |-> EntryAt(ring, i).tag]
             others == Slots \ {t}
  <1>1. n \in Word
    BY RingTypes
  <1>2. n \in Nat
    <2> HIDE DEF n
    <2> QED BY <1>1, Sizes DEF Word
  <1>3. \A i \in 0..(n - 1) : EntryAt(ring, i).tag \in Slots
    BY <1>2, RingTypes DEF Entries
  <1>4. f \in [0..(n - 1) -> others]
    BY <1>3 DEF Pending
  <1>5. IsFiniteSet(others) /\ Cardinality(others) = Depth - 1
    <2>1. IsFiniteSet(Slots) /\ Cardinality(Slots) = Depth
      <3>1. 0 \in Int /\ Depth - 1 \in Int /\ ~(0 > Depth - 1) /\ (Depth - 1) - 0 + 1 = Depth
        BY Sizes
      <3> QED BY <3>1, FS_Interval DEF Slots
    <2> QED BY <2>1, FS_RemoveElement
  <1>6. IsFiniteSet(0..(n - 1)) /\ Cardinality(0..(n - 1)) = n
    <2> HIDE DEF n
    <2>1. 0 \in Int /\ n - 1 \in Int /\ (0 > n - 1 <=> n = 0) /\ (n - 1) - 0 + 1 = n
      BY <1>2
    <2> QED BY <2>1, FS_Interval
  <1>7. ASSUME n >= Depth PROVE FALSE
    <2>1. \E x, y \in 0..(n - 1) : x # y /\ f[x] = f[y]
      <3> HIDE DEF f, others, n
      <3> QED BY <1>2, <1>4, <1>5, <1>6, <1>7, FS_PigeonHole, Sizes
    <2> QED BY <2>1 DEF Pending
  <1> HIDE DEF n
  <1> QED BY <1>2, <1>7, Sizes DEF n

\* Filling the entry at tail of a ring with room disturbs no published entry.
LEMMA FillTail ==
    ASSUME NEW ring \in Rings, NEW e \in Entries, Dist(ring.head, ring.tail) < Depth
    PROVE  LET r == [ring EXCEPT !.ent[Idx(ring.tail)] = e]
           IN  /\ r \in Rings /\ r.head = ring.head /\ r.tail = ring.tail
               /\ Pending(r) = Pending(ring)
               /\ \A i \in Pending(ring) : EntryAt(r, i) = EntryAt(ring, i)
               /\ r.ent[Idx(r.tail)] = e
  <1> DEFINE r == [ring EXCEPT !.ent[Idx(ring.tail)] = e]
             n == Dist(ring.head, ring.tail)
  <1>1. ring.head \in Word /\ ring.tail \in Word /\ ring.ent \in [Slots -> Entries] /\ n \in Word
        /\ Idx(ring.tail) \in Slots
    BY RingTypes
  <1>2. r.head = ring.head /\ r.tail = ring.tail /\ r.ent = [ring.ent EXCEPT ![Idx(ring.tail)] = e]
    BY DEF Rings
  <1>3. r \in Rings
    BY <1>1, <1>2 DEF Rings
  <1>4. \A i \in Pending(ring) : Idx(ring.head + i) # Idx(ring.tail)
    <2> SUFFICES ASSUME NEW i \in Pending(ring), Idx(ring.head + i) = Idx(ring.head + n) PROVE FALSE
      BY <1>1, IdxTail
    <2>1. i \in 0..(Depth - 1) /\ n \in 0..(Depth - 1) /\ i # n
      BY <1>1, Sizes DEF Pending, Word
    <2>2. ring.head \in Int
      BY <1>1 DEF Word
    <2> HIDE DEF n
    <2> QED BY <2>1, <2>2, IdxApart
  <1>5. \A i \in Pending(ring) : EntryAt(r, i) = EntryAt(ring, i)
    BY <1>1, <1>2, <1>4, RingTypes DEF EntryAt
  <1>6. Pending(r) = Pending(ring) /\ r.ent[Idx(r.tail)] = e
    BY <1>1, <1>2 DEF Pending
  <1> QED BY <1>2, <1>3, <1>5, <1>6

\* Publishing it appends it to the pending entries.
LEMMA MoveTail ==
    ASSUME NEW ring \in Rings, Dist(ring.head, ring.tail) < Depth
    PROVE  LET r == [ring EXCEPT !.tail = Inc(ring.tail)]
               n == Dist(ring.head, ring.tail)
           IN  /\ r \in Rings /\ r.head = ring.head /\ r.ent = ring.ent
               /\ Dist(r.head, r.tail) = n + 1
               /\ Pending(r) = Pending(ring) \cup {n} /\ n \notin Pending(ring)
               /\ \A i \in Pending(ring) : EntryAt(r, i) = EntryAt(ring, i)
               /\ EntryAt(r, n) = ring.ent[Idx(ring.tail)]
  <1> DEFINE r == [ring EXCEPT !.tail = Inc(ring.tail)]
             n == Dist(ring.head, ring.tail)
  <1>1. ring.head \in Word /\ ring.tail \in Word /\ ring.ent \in [Slots -> Entries] /\ n \in Word
    BY RingTypes
  <1>2. r.head = ring.head /\ r.tail = Inc(ring.tail) /\ r.ent = ring.ent
    BY DEF Rings
  <1>3. r \in Rings
    BY <1>1, <1>2, IncCases DEF Rings, Word
  <1>4. Dist(r.head, r.tail) = n + 1
    BY <1>1, <1>2, DistTail, Sizes DEF Word
  <1>5. Pending(r) = Pending(ring) \cup {n} /\ n \notin Pending(ring)
    BY <1>1, <1>4, Sizes DEF Pending, Word
  <1>6. EntryAt(r, n) = ring.ent[Idx(ring.tail)]
    BY <1>1, <1>2, IdxTail DEF EntryAt
  <1>7. \A i \in Pending(ring) : EntryAt(r, i) = EntryAt(ring, i)
    BY <1>2 DEF EntryAt
  <1> QED BY <1>2, <1>3, <1>4, <1>5, <1>6, <1>7

\* Taking the first entry moves the others up.
LEMMA MoveHead ==
    ASSUME NEW ring \in Rings, ring.head # ring.tail
    PROVE  LET r == [ring EXCEPT !.head = Inc(ring.head)]
           IN  /\ r \in Rings /\ r.tail = ring.tail /\ r.ent = ring.ent
               /\ Dist(r.head, r.tail) = Dist(ring.head, ring.tail) - 1
               /\ 0 \in Pending(ring)
               /\ \A i \in Pending(r) : i \in Nat /\ i + 1 \in Pending(ring) /\ EntryAt(r, i) = EntryAt(ring, i + 1)
  <1> DEFINE r == [ring EXCEPT !.head = Inc(ring.head)]
             n == Dist(ring.head, ring.tail)
  <1>1. ring.head \in Word /\ ring.tail \in Word /\ ring.ent \in [Slots -> Entries] /\ n \in Word /\ n # 0
    BY RingTypes, DistZero
  <1>2. r.head = Inc(ring.head) /\ r.tail = ring.tail /\ r.ent = ring.ent
    BY DEF Rings
  <1>3. r \in Rings
    BY <1>1, <1>2, IncCases DEF Rings, Word
  <1>4. Dist(r.head, r.tail) = n - 1
    BY <1>1, <1>2, DistHead
  <1>5. 0 \in Pending(ring) /\ \A i \in Pending(r) : i \in Nat /\ i + 1 \in Pending(ring)
    BY <1>1, <1>4, Sizes DEF Pending, Word
  <1>6. \A i \in Pending(r) : EntryAt(r, i) = EntryAt(ring, i + 1)
    BY <1>1, <1>2, <1>5, IdxInc DEF EntryAt
  <1> QED BY <1>2, <1>3, <1>4, <1>5, <1>6

-----------------------------------------------------------------------------
\* A ring at zero has nothing in it.
LEMMA EmptyRingIsEmpty ==
    /\ EmptyRing \in Rings /\ EmptyRing.head = 0 /\ EmptyRing.tail = 0
    /\ Dist(EmptyRing.head, EmptyRing.tail) = 0 /\ Pending(EmptyRing) = {}
  <1>1. EmptyRing \in Rings /\ EmptyRing.head = 0 /\ EmptyRing.tail = 0
    BY Sizes DEF EmptyRing, Rings, Entries, NoEntry, NoReq, Slots
  <1>2. 0 \in Word
    BY Sizes DEF Word
  <1>3. Dist(0, 0) = 0
    BY <1>2, DistZero
  <1> QED BY <1>1, <1>3 DEF Pending

\* The invariant holds at the start.
LEMMA RqSafeInit == RqInit => RqSafe
  <1> SUFFICES ASSUME RqInit PROVE RqSafe OBVIOUS
  <1>1. RqTypeOK
    <2>1. rqSeen \in (0..(Wrap - 1)) \X (0..(Wrap - 1)) /\ rqCur \in Entries
      BY Sizes DEF RqInit, NoEntry, NoReq, Entries, Slots
    <2>2. rqStats \in [recorded : 0..MaxSubmits, len : 0..Window, next : 0..(Window - 1)] /\ rqSent \in 0..MaxSubmits
      BY Sizes DEF RqInit, NoStats
    <2> QED BY <2>1, <2>2, EmptyRingIsEmpty, Sizes, Zenon DEF RqInit, RqTypeOK, NoReq
  <1>2. AnswersItsOwn
    BY DEF RqInit, AnswersItsOwn
  <1>3. MemoryIsOwned
    BY DEF RqInit, MemoryIsOwned, Acquired, RqServes
  <1>4. StatsFollowAnswers
    <2>1. Cardinality(Answered) = 0
      BY FS_EmptySet, Zenon DEF RqInit, Answered
    <2>2. 0 % Window = 0
      BY Sizes
    <2> QED BY <2>1, <2>2, EmptyRingIsEmpty, Sizes DEF RqInit, StatsFollowAnswers, One, NoStats
  <1>5. EntriesAreInFlight
    BY EmptyRingIsEmpty DEF RqInit, EntriesAreInFlight, Held
  <1>6. OnePlace
    BY EmptyRingIsEmpty, Sizes DEF RqInit, OnePlace, Held, Slots
  <1>7. SeenIsCurrent
    BY DEF RqInit, SeenIsCurrent
  <1> QED BY <1>1, <1>2, <1>3, <1>4, <1>5, <1>6, <1>7 DEF RqSafe

\* What only concerns the rings and the tags does not change with the memory.
LEMMA SetupKeeps ==
    ASSUME RqSafe,
           (\E region \in Regions : AllocRegion(region) \/ AllocFails(region)) \/ Register \/ DropQueue
    PROVE  RqSafe'
  <1> DEFINE setup == {"handle", "event", "sq", "cq", "data", "register", "drop"}
  <1>1. /\ rqSvc \in setup /\ rqSvc' \notin {"release", "serve", "push", "publish", "snapshot", "store", "failed"}
        /\ UNCHANGED <<rqIn, rqSubmit, rqSeen, rqCur, rqStats, rqSent, rqDone>>
        /\ rqRegions' \subseteq Regions /\ rqRegistered' \in BOOLEAN
    BY Zenon DEF AllocRegion, AllocFails, Register, DropQueue, RqGoto, AfterAlloc, Regions, RqSafe, RqTypeOK
  <1>2. rqSq = EmptyRing /\ rqCq = EmptyRing /\ rqSubmit = -1 /\ ~rqRegistered
    BY <1>1 DEF RqSafe, MemoryIsOwned, RqServes
  <1>3. rqSq' = EmptyRing /\ rqCq' = EmptyRing
    BY <1>2 DEF AllocRegion, AllocFails, Register, DropQueue, rings
  <1>4. RqTypeOK'
    BY <1>1, <1>2, <1>3 DEF RqSafe, RqTypeOK, AllocRegion, AllocFails, Register, DropQueue, RqGoto, AfterAlloc, Regions
  <1>5. AnswersItsOwn'
    BY <1>1 DEF RqSafe, AnswersItsOwn
  <1>6. MemoryIsOwned'
    <2>1. /\ \A t \in Slots : rqIn'[t].state = "free"
          /\ rqRegions = Acquired
      BY <1>1, <1>2 DEF RqSafe, MemoryIsOwned
    <2>2. rqRegions' = Acquired' /\ (rqRegistered' <=> RqServes')
      BY <1>2, <2>1 DEF AllocRegion, AllocFails, Register, DropQueue, RqGoto, AfterAlloc, Regions, Acquired, RqServes
    <2> QED BY <1>1, <1>2, <1>3, <2>1, <2>2 DEF MemoryIsOwned
  <1>7. StatsFollowAnswers'
    <2>1. Answered' = Answered
      BY <1>1 DEF Answered
    <2>2. ~(rqSvc' \in {"push", "publish"}) /\ rqSvc' # "serve" /\ ~(rqSvc \in {"push", "publish"}) /\ rqSvc # "serve"
      BY <1>1
    <2> QED BY <1>1, <1>2, <1>3, <2>1, <2>2 DEF RqSafe, StatsFollowAnswers, One
  <1>8. EntriesAreInFlight'
    BY <1>1, <1>2, <1>3, EmptyRingIsEmpty, Zenon DEF EntriesAreInFlight, Held
  <1>9. OnePlace'
    BY <1>1, <1>2, <1>3, EmptyRingIsEmpty DEF RqSafe, OnePlace, Held
  <1>10. SeenIsCurrent'
    BY <1>1 DEF SeenIsCurrent
  <1> QED BY <1>4, <1>5, <1>6, <1>7, <1>8, <1>9, <1>10 DEF RqSafe

\* The tags in the rings and with the service are those of requests in flight.
LEMMA TagsInFlight ==
    ASSUME RqSafe
    PROVE  /\ \A i \in Pending(rqSq) :
                EntryAt(rqSq, i).tag \in Slots /\ rqIn[EntryAt(rqSq, i).tag].state = "submitted"
           /\ \A i \in Pending(rqCq) :
                EntryAt(rqCq, i).tag \in Slots /\ rqIn[EntryAt(rqCq, i).tag].state = "submitted"
           /\ rqCur.tag \in Slots /\ (Held => rqIn[rqCur.tag].state = "submitted")
  <1>1. rqSq \in Rings /\ rqCq \in Rings /\ rqCur.tag \in Slots
    BY DEF RqSafe, RqTypeOK, Entries
  <1>2. \A i \in Pending(rqSq) : i \in Nat /\ EntryAt(rqSq, i).tag \in Slots
    BY <1>1, RingTypes DEF Entries
  <1>3. \A i \in Pending(rqCq) : i \in Nat /\ EntryAt(rqCq, i).tag \in Slots
    BY <1>1, RingTypes DEF Entries
  <1>4. \A i \in Pending(rqSq) : rqIn[EntryAt(rqSq, i).tag].state = "submitted"
    <2>1. \A i \in Pending(rqSq) : IsLive(EntryAt(rqSq, i))
      BY DEF RqSafe, EntriesAreInFlight
    <2>2. ASSUME NEW e, IsLive(e) PROVE rqIn[e.tag].state = "submitted"
      BY <2>2 DEF IsLive
    <2> QED BY <2>1, <2>2
  <1>5. \A i \in Pending(rqCq) : rqIn[EntryAt(rqCq, i).tag].state = "submitted"
    <2>1. \A i \in Pending(rqCq) : IsLive(EntryAt(rqCq, i))
      BY DEF RqSafe, EntriesAreInFlight
    <2>2. ASSUME NEW e, IsLive(e) PROVE rqIn[e.tag].state = "submitted"
      BY <2>2 DEF IsLive
    <2> QED BY <2>1, <2>2
  <1>6. Held => rqIn[rqCur.tag].state = "submitted"
    BY DEF RqSafe, EntriesAreInFlight, IsLive
  <1> QED BY <1>1, <1>2, <1>3, <1>4, <1>5, <1>6, Zenon

\* Finitely many requests are answered.
LEMMA AnsweredFinite == IsFiniteSet(Answered) /\ Cardinality(Answered) \in Nat
  <1>1. IsFiniteSet(Reqs)
    BY FS_Interval, Sizes DEF Reqs
  <1>2. Answered \in SUBSET Reqs
    BY DEF Answered
  <1>3. IsFiniteSet(Answered)
    BY <1>1, <1>2, FS_Subset
  <1> QED BY <1>3, FS_CardinalityType

\* The entry a submit call fills is not one the service can see, for a free tag
\* means room.
LEMMA ReserveKeeps == ASSUME RqSafe, Reserve PROVE RqSafe'
  <1> DEFINE n == rqSent + 1
  <1>0. PICK t \in Slots : FirstFree(t) /\ ReserveInto(t, Idx(rqSq.tail)) /\ rqSubmit' = t
    BY DEF Reserve
  <1> DEFINE e == [tag |-> t, req |-> n]
  <1>1. /\ rqSent' = n /\ rqSent \in 0..MaxSubmits /\ n \in 1..MaxSubmits /\ e \in Entries
        /\ rqIn' = [rqIn EXCEPT ![t] = [state |-> "reserved", srb |-> n]]
        /\ rqSq' = [rqSq EXCEPT !.ent[Idx(rqSq.tail)] = e]
        /\ rqRegistered /\ rqSubmit = -1
        /\ UNCHANGED <<rqRegions, rqRegistered, rqCq, rqSvc, rqSeen, rqCur, rqStats, rqDone>>
    BY <1>0, Sizes DEF Reserve, ReserveInto, Entries, RqSafe, RqTypeOK
  <1>2. rqSq \in Rings /\ rqCq \in Rings /\ rqIn[t].state = "free"
    BY <1>0 DEF RqSafe, RqTypeOK, FirstFree, FreeSlots
  <1>3. \A i \in Pending(rqSq) : EntryAt(rqSq, i).tag # t /\ EntryAt(rqSq, i).tag \in Slots
    BY <1>2, TagsInFlight
  <1>4. \A i \in Pending(rqCq) : EntryAt(rqCq, i).tag # t /\ EntryAt(rqCq, i).tag \in Slots
    BY <1>2, TagsInFlight
  <1>5. Held => rqCur.tag # t /\ rqCur.tag \in Slots
    BY <1>2, TagsInFlight, Zenon
  <1>6. Dist(rqSq.head, rqSq.tail) < Depth
    BY <1>2, <1>3, RingHasRoom, Zenon DEF RqSafe, OnePlace
  <1> HIDE DEF e, n
  <1>7. /\ rqSq' \in Rings /\ rqSq'.head = rqSq.head /\ rqSq'.tail = rqSq.tail
        /\ Pending(rqSq') = Pending(rqSq)
        /\ \A i \in Pending(rqSq) : EntryAt(rqSq', i) = EntryAt(rqSq, i)
        /\ rqSq'.ent[Idx(rqSq'.tail)] = e
    BY <1>1, <1>2, <1>6, FillTail, Zenon
  <1>8. RqTypeOK'
    BY <1>0, <1>1, <1>7, Sizes DEF RqSafe, RqTypeOK
  <1>9. AnswersItsOwn' /\ MemoryIsOwned'
    BY <1>1 DEF RqSafe, AnswersItsOwn, MemoryIsOwned, Acquired, RqServes
  <1>10. StatsFollowAnswers'
    <2>1. Answered' = Answered
      BY <1>1 DEF Answered
    <2>2. t # -1
      BY <1>0, Sizes DEF Slots
    <2>3. Dist(rqSq.head, rqSq.tail) \in Nat
      BY <1>2, RingTypes, Sizes DEF Word
    <2>4. rqStats.recorded \in Nat /\ rqSent \in Nat
      BY DEF RqSafe, RqTypeOK
    <2> QED BY <1>0, <1>1, <1>7, <2>1, <2>2, <2>3, <2>4 DEF RqSafe, StatsFollowAnswers, One, n
  <1>11. EntriesAreInFlight'
    <2>1. \A u \in Slots : u # t => rqIn'[u] = rqIn[u]
      BY <1>1 DEF RqSafe, RqTypeOK
    <2>2. rqIn'[t].srb = n
      BY <1>1 DEF RqSafe, RqTypeOK
    <2> QED BY <1>0, <1>1, <1>3, <1>4, <1>5, <1>7, <2>1, <2>2 DEF RqSafe, EntriesAreInFlight, IsLive, Held, e
  <1>12. OnePlace'
    <2>1. \A u \in Slots : rqIn'[u].state = IF u = t THEN "reserved" ELSE rqIn[u].state
      BY <1>1 DEF RqSafe, RqTypeOK
    <2>2. \A u \in Slots : /\ rqIn'[u].state = "reserved" <=> u = rqSubmit'
                           /\ rqIn'[u].state = "completing" <=> rqSvc' = "release" /\ u = rqCur'.tag
      BY <1>0, <1>1, <1>2, <2>1, Sizes DEF RqSafe, OnePlace, Slots
    <2> QED BY <1>1, <1>7, <2>2 DEF RqSafe, OnePlace, Held
  <1>13. SeenIsCurrent'
    <2>1. rqSvc = "store" => 0 \in Pending(rqSq)
      BY <1>2, MoveHead, Zenon DEF RqSafe, SeenIsCurrent
    <2> QED BY <1>1, <1>7, <2>1 DEF RqSafe, SeenIsCurrent
  <1> QED BY <1>8, <1>9, <1>10, <1>11, <1>12, <1>13, Zenon DEF RqSafe

\* A published entry is the one filled before, behind all others.
LEMMA PublishSubmitKeeps == ASSUME RqSafe, PublishSubmit PROVE RqSafe'
  <1> DEFINE n == Dist(rqSq.head, rqSq.tail)
             t == rqSubmit
  <1>1. /\ rqSq' = [rqSq EXCEPT !.tail = Inc(rqSq.tail)]
        /\ rqIn' = [rqIn EXCEPT ![t].state = "submitted"]
        /\ t # -1 /\ rqSubmit' = -1 /\ t \in Slots
        /\ UNCHANGED <<rqRegions, rqRegistered, rqCq, rqSvc, rqSeen, rqCur, rqStats, rqSent, rqDone>>
    BY DEF PublishSubmit, RqSafe, RqTypeOK
  <1>2. rqSq \in Rings /\ rqCq \in Rings /\ rqIn[t].state = "reserved"
    BY <1>1 DEF RqSafe, RqTypeOK, OnePlace
  <1>3. \A i \in Pending(rqSq) : EntryAt(rqSq, i).tag # t /\ EntryAt(rqSq, i).tag \in Slots
    BY <1>2, TagsInFlight
  <1>4. \A i \in Pending(rqCq) : EntryAt(rqCq, i).tag # t /\ EntryAt(rqCq, i).tag \in Slots
    BY <1>2, TagsInFlight
  <1>5. Held => rqCur.tag # t /\ rqCur.tag \in Slots
    BY <1>2, TagsInFlight
  <1>6. n < Depth
    BY <1>1, <1>2, <1>3, RingHasRoom DEF RqSafe, OnePlace
  <1>e. rqSq.ent[Idx(rqSq.tail)] = [tag |-> t, req |-> rqIn[t].srb]
    BY <1>1 DEF RqSafe, EntriesAreInFlight
  <1> HIDE DEF n, t
  <1>7. /\ rqSq' \in Rings /\ rqSq'.head = rqSq.head
        /\ Dist(rqSq'.head, rqSq'.tail) = n + 1
        /\ Pending(rqSq') = Pending(rqSq) \cup {n} /\ n \notin Pending(rqSq)
        /\ \A i \in Pending(rqSq) : EntryAt(rqSq', i) = EntryAt(rqSq, i)
        /\ EntryAt(rqSq', n) = [tag |-> t, req |-> rqIn[t].srb]
    BY <1>1, <1>2, <1>6, <1>e, MoveTail DEF n
  <1>8. RqTypeOK'
    BY <1>1, <1>7 DEF RqSafe, RqTypeOK
  <1>9. AnswersItsOwn' /\ MemoryIsOwned'
    BY <1>1 DEF RqSafe, AnswersItsOwn, MemoryIsOwned, Acquired, RqServes, t
  <1>10. StatsFollowAnswers'
    <2>1. Answered' = Answered
      BY <1>1 DEF Answered
    <2>2. n \in Nat
      BY <1>2, RingTypes, Sizes DEF Word, n
    <2>3. rqStats.recorded \in Nat /\ rqSent \in Nat
      BY DEF RqSafe, RqTypeOK
    <2> QED BY <1>1, <1>7, <2>1, <2>2, <2>3 DEF RqSafe, StatsFollowAnswers, One, n, t
  <1>i. rqIn'[t] = [state |-> "submitted", srb |-> rqIn[t].srb] /\ \A u \in Slots : u # t => rqIn'[u] = rqIn[u]
    BY <1>1 DEF RqSafe, RqTypeOK
  <1>11. EntriesAreInFlight'
    BY <1>1, <1>3, <1>4, <1>5, <1>7, <1>i DEF RqSafe, EntriesAreInFlight, IsLive, Held
  <1>12. OnePlace'
    <2>1. \A u \in Slots : /\ rqIn'[u].state = "reserved" <=> u = rqSubmit'
                           /\ rqIn'[u].state = "completing" <=> rqSvc' = "release" /\ u = rqCur'.tag
      BY <1>1, <1>2, <1>i, Sizes DEF RqSafe, OnePlace, Slots, t
    <2> QED BY <1>1, <1>3, <1>4, <1>5, <1>7, <2>1 DEF RqSafe, OnePlace, Held
  <1>13. SeenIsCurrent'
    <2>1. rqSvc \in {"snapshot", "store"} => 0 \in Pending(rqSq)
      BY <1>2, MoveHead, Zenon DEF RqSafe, SeenIsCurrent
    <2>2. rqSvc \in {"snapshot", "store"} => rqSq'.head # rqSq'.tail
      <3>1. n \in Nat
        BY <1>2, RingTypes, Sizes DEF Word, n
      <3> QED BY <1>7, <3>1, RingTypes, DistZero, SMTT(30)
    <2> QED BY <1>1, <1>7, <2>1, <2>2 DEF RqSafe, SeenIsCurrent
  <1> QED BY <1>8, <1>9, <1>10, <1>11, <1>12, <1>13, Zenon DEF RqSafe

\* The driver takes the first answer: it finds the request under its tag, the one
\* the answer was made for, and no other entry has that tag.
LEMMA TakeAnswerKeeps == ASSUME RqSafe, TakeAnswer PROVE RqSafe'
  <1> DEFINE e == EntryAt(rqCq, 0)
             t == e.tag
             r == rqIn[t].srb
  <1>1. rqSq \in Rings /\ rqCq \in Rings /\ rqCq.head # rqCq.tail /\ rqSubmit = -1 /\ rqSvc = "drain"
    BY Zenon DEF RqSafe, RqTypeOK, TakeAnswer
  <1>2. rqCq.head \in Word /\ e = rqCq.ent[Idx(rqCq.head)] /\ e \in Entries /\ 0 \in Pending(rqCq)
    <2>1. rqCq.head \in Word /\ e \in Entries
      BY <1>1, RingTypes
    <2>2. rqCq.head + 0 = rqCq.head
      BY <2>1 DEF Word
    <2>3. 0 \in Pending(rqCq)
      BY <1>1, MoveHead, Zenon
    <2> QED BY <2>1, <2>2, <2>3 DEF EntryAt
  <1>3. t \in Slots /\ rqIn[t] = [state |-> "submitted", srb |-> e.req]
    BY <1>2, Zenon DEF RqSafe, EntriesAreInFlight, IsLive, Entries
  <1>4. /\ rqIn' = [rqIn EXCEPT ![t] = [state |-> "completing", srb |-> NoReq]]
        /\ rqDone' = [rqDone EXCEPT ![r] = "own"]
        /\ rqCur' = e /\ rqSvc' = "release"
        /\ rqCq' = [rqCq EXCEPT !.head = Inc(rqCq.head)]
        /\ UNCHANGED <<rqRegions, rqRegistered, rqSq, rqSubmit, rqSeen, rqStats, rqSent>>
    BY <1>1, <1>2, <1>3, SMTT(30) DEF TakeAnswer
  <1> DEFINE n == Dist(rqCq.head, rqCq.tail)
  <1> HIDE DEF e, n
  <1>5. /\ rqCq' \in Rings /\ Dist(rqCq'.head, rqCq'.tail) = n - 1 /\ 0 \in Pending(rqCq)
        /\ \A i \in Pending(rqCq') : /\ i \in Nat /\ i + 1 \in Pending(rqCq)
                                     /\ EntryAt(rqCq', i) = EntryAt(rqCq, i + 1)
    BY <1>1, <1>4, MoveHead, Zenon DEF n
  <1>6. \A i \in Pending(rqCq') : EntryAt(rqCq', i).tag # t /\ EntryAt(rqCq', i).tag \in Slots
    BY <1>5, TagsInFlight DEF RqSafe, OnePlace, e
  <1>7. \A i \in Pending(rqSq) : EntryAt(rqSq, i).tag # t /\ EntryAt(rqSq, i).tag \in Slots
    BY <1>5, TagsInFlight DEF RqSafe, OnePlace, e
  <1>i. /\ rqIn'[t] = [state |-> "completing", srb |-> NoReq]
        /\ \A u \in Slots : u # t => rqIn'[u] = rqIn[u]
    BY <1>3, <1>4 DEF RqSafe, RqTypeOK
  <1>8. RqTypeOK'
    <2>1. rqIn' \in [Slots -> [state : {"free", "reserved", "submitted", "completing"}, srb : 0..MaxSubmits]]
      BY <1>3, <1>4, Sizes DEF RqSafe, RqTypeOK, NoReq
    <2> QED BY <1>2, <1>4, <1>5, <2>1, Zenon DEF RqSafe, RqTypeOK
  <1>9. AnswersItsOwn' /\ MemoryIsOwned'
    <2>1. rqRegistered /\ rqRegions = Regions
      BY <1>1 DEF RqSafe, MemoryIsOwned, RqServes, Acquired
    <2> QED BY <1>4, <2>1 DEF RqSafe, RqTypeOK, AnswersItsOwn, MemoryIsOwned, Acquired, RqServes
  <1>10. StatsFollowAnswers'
    <2>1. IsFiniteSet(Answered) /\ Cardinality(Answered) \in Nat
      BY AnsweredFinite
    <2>2. Answered' \subseteq Answered \cup {r}
      BY <1>4 DEF Answered, RqSafe, RqTypeOK
    <2>3. /\ IsFiniteSet(Answered \cup {r}) /\ Cardinality(Answered \cup {r}) \in Nat
          /\ Cardinality(Answered \cup {r}) <= Cardinality(Answered) + 1
      <3>1. IsFiniteSet(Answered \cup {r}) /\ Cardinality(Answered \cup {r}) =
              IF r \in Answered THEN Cardinality(Answered) ELSE Cardinality(Answered) + 1
        BY <2>1, FS_AddElement, Zenon
      <3> QED BY <2>1, <3>1
    <2>4. Cardinality(Answered') <= Cardinality(Answered \cup {r}) /\ Cardinality(Answered') \in Nat
      BY <2>2, <2>3, FS_Subset, FS_CardinalityType
    <2>5. n \in Nat /\ rqStats.recorded \in Nat
      BY <1>1, RingTypes, Sizes DEF Word, n, RqSafe, RqTypeOK
    <2>6. rqStats.recorded >= Cardinality(Answered) + n
      BY <1>1, <2>1, <2>5 DEF RqSafe, StatsFollowAnswers, One, n
    <2>7. rqStats.recorded >= Cardinality(Answered') + (n - 1)
      BY <2>1, <2>3, <2>4, <2>5, <2>6
    <2>8. rqStats'.recorded >= Cardinality(Answered') + Dist(rqCq'.head, rqCq'.tail) + One(rqSvc' \in {"push", "publish"})
      BY <1>4, <1>5, <2>4, <2>5, <2>7 DEF One
    <2> QED BY <1>1, <1>4, <2>8 DEF RqSafe, StatsFollowAnswers, One
  <1>11. EntriesAreInFlight'
    BY <1>1, <1>4, <1>5, <1>6, <1>7, <1>i DEF RqSafe, EntriesAreInFlight, IsLive, Held
  <1>12. OnePlace'
    <2>1. \A u \in Slots : /\ rqIn'[u].state = "reserved" <=> u = rqSubmit'
                           /\ rqIn'[u].state = "completing" <=> rqSvc' = "release" /\ u = rqCur'.tag
      BY <1>1, <1>3, <1>4, <1>i, Sizes DEF RqSafe, OnePlace, Slots
    <2>2. \A i, j \in Pending(rqCq') : EntryAt(rqCq', i).tag = EntryAt(rqCq', j).tag => i = j
      BY <1>5 DEF RqSafe, OnePlace
    <2>3. \A i \in Pending(rqSq), j \in Pending(rqCq') : EntryAt(rqSq, i).tag # EntryAt(rqCq', j).tag
      BY <1>5 DEF RqSafe, OnePlace
    <2> QED BY <1>4, <2>1, <2>2, <2>3, Zenon DEF RqSafe, OnePlace, Held
  <1>13. SeenIsCurrent'
    BY <1>4 DEF SeenIsCurrent
  <1> QED BY <1>8, <1>9, <1>10, <1>11, <1>12, <1>13 DEF RqSafe

\* A tag is free again when its bytes are copied out.
LEMMA ReleaseSlotKeeps == ASSUME RqSafe, ReleaseSlot PROVE RqSafe'
  <1> DEFINE t == rqCur.tag
  <1>1. /\ rqSvc = "release" /\ rqSvc' = "drain" /\ rqSubmit = -1
        /\ rqIn' = [rqIn EXCEPT ![t].state = "free"] /\ rqCur' = NoEntry
        /\ UNCHANGED <<rqRegions, rqRegistered, rqSq, rqCq, rqSubmit, rqSeen, rqStats, rqSent, rqDone>>
    BY DEF ReleaseSlot, RqGoto, rings
  <1>2. t \in Slots /\ rqIn[t].state = "completing"
    BY <1>1 DEF RqSafe, RqTypeOK, OnePlace, Entries
  <1>3. rqIn'[t].state = "free" /\ \A u \in Slots : u # t => rqIn'[u] = rqIn[u]
    BY <1>1, <1>2 DEF RqSafe, RqTypeOK
  <1>4. RqTypeOK'
    <2>1. NoEntry \in Entries
      BY Sizes DEF NoEntry, NoReq, Entries, Slots
    <2> QED BY <1>1, <1>2, <2>1 DEF RqSafe, RqTypeOK
  <1>5. AnswersItsOwn' /\ MemoryIsOwned'
    <2>1. rqRegistered /\ rqRegions = Regions
      BY <1>1 DEF RqSafe, MemoryIsOwned, RqServes, Acquired
    <2> QED BY <1>1, <2>1 DEF RqSafe, AnswersItsOwn, MemoryIsOwned, Acquired, RqServes
  <1>6. StatsFollowAnswers'
    <2>1. Answered' = Answered
      BY <1>1 DEF Answered
    <2> QED BY <1>1, <2>1 DEF RqSafe, StatsFollowAnswers, One
  <1>7. EntriesAreInFlight'
    BY <1>1, <1>2, <1>3, TagsInFlight DEF RqSafe, EntriesAreInFlight, IsLive, Held
  <1>8. OnePlace'
    <2>1. \A u \in Slots : /\ rqIn'[u].state = "reserved" <=> u = rqSubmit'
                           /\ rqIn'[u].state = "completing" <=> rqSvc' = "release" /\ u = rqCur'.tag
      BY <1>1, <1>2, <1>3, Sizes DEF RqSafe, OnePlace, Slots
    <2> QED BY <1>1, <2>1 DEF RqSafe, OnePlace, Held
  <1>9. SeenIsCurrent'
    BY <1>1 DEF SeenIsCurrent
  <1> QED BY <1>4, <1>5, <1>6, <1>7, <1>8, <1>9 DEF RqSafe

\* The service's loads change nothing, and what it loaded is current.
LEMMA LoadKeeps == ASSUME RqSafe, FetchReturned \/ LoadWords \/ Snapshot PROVE RqSafe'
  <1>1. /\ rqSvc \in {"drain", "pop", "snapshot"} /\ rqSvc' \in {"drain", "pop", "snapshot", "store"}
        /\ UNCHANGED <<rqRegions, rqRegistered, rqSq, rqCq, rqIn, rqSubmit, rqStats, rqSent, rqDone>>
    BY DEF FetchReturned, LoadWords, Snapshot, RqGoto, rings
  <1>2. rqSq \in Rings
    BY DEF RqSafe, RqTypeOK
  <1>3. rqSq.head \in Word /\ rqSq.tail \in Word /\ EntryAt(rqSq, 0) \in Entries
    BY <1>2, RingTypes
  <1>4. SeenIsCurrent'
    <2>1. CASE FetchReturned
      BY <2>1 DEF SeenIsCurrent, FetchReturned, RqGoto
    <2>2. CASE LoadWords
      <3>1. rqSvc' = "snapshot" => Dist(rqSq.head, rqSq.tail) # 0 /\ rqSeen' = <<rqSq.head, rqSq.tail>>
        BY <2>2 DEF LoadWords
      <3>2. rqSvc' # "store"
        BY <2>2 DEF LoadWords
      <3> QED BY <1>1, <1>3, <3>1, <3>2, DistZero DEF SeenIsCurrent
    <2>3. CASE Snapshot
      <3>1. rqSq.head + 0 = rqSq.head
        BY <1>3 DEF Word
      <3>2. rqSeen[1] = rqSq.head /\ rqSq.head # rqSq.tail
        BY <2>3, Zenon DEF Snapshot, RqGoto, RqSafe, SeenIsCurrent
      <3> QED BY <1>1, <2>3, <3>1, <3>2 DEF SeenIsCurrent, Snapshot, EntryAt
    <2> QED BY <2>1, <2>2, <2>3
  <1>5. RqTypeOK'
    <2>1. CASE FetchReturned
      BY <2>1 DEF RqSafe, RqTypeOK, FetchReturned, RqGoto, rings
    <2>2. CASE LoadWords
      <3>1. rqSeen' \in (0..(Wrap - 1)) \X (0..(Wrap - 1))
        BY <2>2, <1>3, Sizes DEF LoadWords, Word
      <3> QED BY <1>1, <2>2, <3>1 DEF RqSafe, RqTypeOK, LoadWords
    <2>3. CASE Snapshot
      <3>1. rqSvc' = "store" /\ rqCur' = EntryAt(rqSq, 0)
        BY <1>1, <1>4, <2>3 DEF SeenIsCurrent, Snapshot, RqGoto
      <3> QED BY <1>1, <1>3, <2>3, <3>1, Zenon DEF RqSafe, RqTypeOK, Snapshot
    <2> QED BY <2>1, <2>2, <2>3
  <1>6. AnswersItsOwn' /\ MemoryIsOwned'
    <2>1. rqRegistered /\ rqRegions = Regions
      BY <1>1 DEF RqSafe, MemoryIsOwned, RqServes, Acquired
    <2> QED BY <1>1, <2>1 DEF RqSafe, AnswersItsOwn, MemoryIsOwned, Acquired, RqServes
  <1>7. StatsFollowAnswers'
    <2>1. Answered' = Answered
      BY <1>1 DEF Answered
    <2>2. rqSvc \notin {"push", "publish", "serve"} /\ rqSvc' \notin {"push", "publish", "serve"}
      BY <1>1, Zenon
    <2> QED BY <1>1, <2>1, <2>2 DEF RqSafe, StatsFollowAnswers, One
  <1>8. EntriesAreInFlight'
    BY <1>1, Zenon DEF RqSafe, EntriesAreInFlight, IsLive, Held
  <1>9. OnePlace'
    BY <1>1, Zenon DEF RqSafe, OnePlace, Held
  <1> QED BY <1>4, <1>5, <1>6, <1>7, <1>8, <1>9, Zenon DEF RqSafe

\* The service takes the entry it copied out of the ring.
LEMMA StoreHeadKeeps == ASSUME RqSafe, StoreHead PROVE RqSafe'
  <1> DEFINE n == Dist(rqSq.head, rqSq.tail)
  <1>1. /\ rqSvc = "store" /\ rqSvc' = "serve" /\ rqSeen' = <<0, 0>>
        /\ rqSeen[1] = rqSq.head /\ rqSq.head # rqSq.tail /\ rqCur = EntryAt(rqSq, 0)
        /\ rqSq' = [rqSq EXCEPT !.head = Inc(rqSq.head)]
        /\ UNCHANGED <<rqRegions, rqRegistered, rqCq, rqIn, rqSubmit, rqCur, rqStats, rqSent, rqDone>>
    BY DEF StoreHead, RqGoto, RqSafe, SeenIsCurrent
  <1>2. rqSq \in Rings /\ rqCq \in Rings
    BY DEF RqSafe, RqTypeOK
  <1>3. /\ rqSq' \in Rings /\ rqSq'.tail = rqSq.tail /\ rqSq'.ent = rqSq.ent
        /\ Dist(rqSq'.head, rqSq'.tail) = n - 1 /\ 0 \in Pending(rqSq)
        /\ \A i \in Pending(rqSq') : /\ i \in Nat /\ i + 1 \in Pending(rqSq)
                                     /\ EntryAt(rqSq', i) = EntryAt(rqSq, i + 1)
    BY <1>1, <1>2, MoveHead
  <1> HIDE DEF n
  <1>4. RqTypeOK'
    BY <1>1, <1>3, Sizes DEF RqSafe, RqTypeOK
  <1>5. AnswersItsOwn' /\ MemoryIsOwned'
    <2>1. rqRegistered /\ rqRegions = Regions
      BY <1>1 DEF RqSafe, MemoryIsOwned, RqServes, Acquired
    <2> QED BY <1>1, <2>1 DEF RqSafe, AnswersItsOwn, MemoryIsOwned, Acquired, RqServes
  <1>6. StatsFollowAnswers'
    <2>1. Answered' = Answered
      BY <1>1 DEF Answered
    <2>2. n \in Nat /\ rqStats.recorded \in Nat /\ rqSent \in Nat
      BY <1>2, RingTypes, Sizes DEF Word, n, RqSafe, RqTypeOK
    <2>3. rqStats.recorded + n + One(rqSubmit # -1) <= rqSent
      BY <1>1, <2>2 DEF RqSafe, StatsFollowAnswers, One, n
    <2>4. rqStats.recorded + (n - 1) + 1 + One(rqSubmit # -1) <= rqSent
      BY <2>2, <2>3 DEF One
    <2> QED BY <1>1, <1>3, <2>1, <2>4 DEF RqSafe, StatsFollowAnswers, One
  <1>7. EntriesAreInFlight'
    BY <1>1, <1>3 DEF RqSafe, EntriesAreInFlight, IsLive, Held
  <1>8. OnePlace'
    <2>1. \A i, j \in Pending(rqSq') : EntryAt(rqSq', i).tag = EntryAt(rqSq', j).tag => i = j
      BY <1>3 DEF RqSafe, OnePlace
    <2>2. \A i \in Pending(rqSq'), j \in Pending(rqCq) : EntryAt(rqSq', i).tag # EntryAt(rqCq, j).tag
      BY <1>3 DEF RqSafe, OnePlace
    <2>3. \A i \in Pending(rqSq') : EntryAt(rqSq', i).tag # rqCur.tag
      BY <1>1, <1>3 DEF RqSafe, OnePlace
    <2>4. \A i \in Pending(rqCq) : EntryAt(rqCq, i).tag # rqCur.tag
      BY <1>1, <1>3 DEF RqSafe, OnePlace
    <2> QED BY <1>1, <2>1, <2>2, <2>3, <2>4, Zenon DEF RqSafe, OnePlace
  <1>9. SeenIsCurrent'
    BY <1>1, Zenon DEF SeenIsCurrent
  <1> QED BY <1>4, <1>5, <1>6, <1>7, <1>8, <1>9 DEF RqSafe

\* A request is recorded once, in the next place of the window.
LEMMA ServeOneKeeps == ASSUME RqSafe, ServeOne PROVE RqSafe'
  <1> DEFINE k == rqStats.recorded
  <1>1. /\ rqSvc = "serve" /\ rqSvc' = "push" /\ rqStats' = Record(rqStats)
        /\ UNCHANGED <<rqRegions, rqRegistered, rqSq, rqCq, rqIn, rqSubmit, rqSeen, rqCur, rqSent, rqDone>>
    BY DEF ServeOne, RqGoto, rings
  <1>2. k \in Nat /\ rqSent \in 0..MaxSubmits /\ Dist(rqSq.head, rqSq.tail) \in Nat /\ Dist(rqCq.head, rqCq.tail) \in Nat
    BY RingTypes, Sizes DEF RqSafe, RqTypeOK, Word
  <1>3. k + 1 <= rqSent /\ k + 1 + Dist(rqSq.head, rqSq.tail) + One(rqSubmit # -1) <= rqSent
    BY <1>1, <1>2, SMTT(30) DEF RqSafe, StatsFollowAnswers, One
  <1>4. rqStats.next = k % Window /\ rqStats.len = IF k < Window THEN k ELSE Window
    BY DEF RqSafe, StatsFollowAnswers
  <1>5. /\ rqStats'.recorded = k + 1 /\ rqStats'.next = ((k % Window) + 1) % Window
        /\ rqStats'.len = IF k + 1 < Window THEN k + 1 ELSE Window
    BY <1>1, <1>2, <1>4, Sizes DEF Record
  <1>6. ((k % Window) + 1) % Window = (k + 1) % Window /\ (k + 1) % Window \in 0..(Window - 1)
    <2> HIDE DEF k
    <2> QED BY <1>2, ModNext, Sizes, Zenon
  <1>7. RqTypeOK'
    <2>1. rqStats' = [recorded |-> k + 1, next |-> ((k % Window) + 1) % Window,
                      len |-> IF k + 1 < Window THEN k + 1 ELSE Window]
      BY <1>1, <1>2, <1>4, Sizes DEF Record
    <2> HIDE DEF k
    <2>2. rqStats' \in [recorded : 0..MaxSubmits, len : 0..Window, next : 0..(Window - 1)]
      BY <1>2, <1>3, <1>6, <2>1, Sizes
    <2> QED BY <1>1, <2>2 DEF RqSafe, RqTypeOK
  <1>8. AnswersItsOwn' /\ MemoryIsOwned'
    <2>1. rqRegistered /\ rqRegions = Regions
      BY <1>1 DEF RqSafe, MemoryIsOwned, RqServes, Acquired
    <2> QED BY <1>1, <2>1 DEF RqSafe, AnswersItsOwn, MemoryIsOwned, Acquired, RqServes
  <1>9. StatsFollowAnswers'
    <2>1. Answered' = Answered /\ Cardinality(Answered) \in Nat
      BY <1>1, AnsweredFinite DEF Answered
    <2>2. k >= Cardinality(Answered) + Dist(rqCq.head, rqCq.tail)
      BY <1>1, <1>2, <2>1 DEF RqSafe, StatsFollowAnswers, One
    <2>3. k + 1 >= Cardinality(Answered) + Dist(rqCq.head, rqCq.tail) + 1
      BY <1>2, <2>1, <2>2
    <2> HIDE DEF k
    <2> QED BY <1>1, <1>2, <1>3, <1>5, <1>6, <2>1, <2>3 DEF StatsFollowAnswers, One
  <1>10. EntriesAreInFlight'
    BY <1>1, Zenon DEF RqSafe, EntriesAreInFlight, IsLive, Held
  <1>11. OnePlace'
    BY <1>1, Zenon DEF RqSafe, OnePlace, Held
  <1>12. SeenIsCurrent'
    BY <1>1 DEF SeenIsCurrent
  <1> QED BY <1>7, <1>8, <1>9, <1>10, <1>11, <1>12 DEF RqSafe

\* While the service holds a tag the completion ring has room: push_cqe's check for
\* a full ring passes.
LEMMA AnswerHasRoom ==
    ASSUME RqSafe, Held
    PROVE  /\ Dist(rqCq.head, rqCq.tail) < Depth
           /\ ~(Dist(rqCq.head, Inc(rqCq.tail)) > Depth)
  <1>1. rqCq \in Rings /\ rqCur.tag \in Slots
    BY TagsInFlight, Zenon DEF RqSafe, RqTypeOK
  <1>2. Dist(rqCq.head, rqCq.tail) < Depth
    BY <1>1, RingHasRoom DEF RqSafe, OnePlace
  <1>3. rqCq.head \in Word /\ rqCq.tail \in Word /\ Dist(rqCq.head, rqCq.tail) \in Nat
    BY <1>1, RingTypes, Sizes DEF Word
  <1>4. Dist(rqCq.head, Inc(rqCq.tail)) = Dist(rqCq.head, rqCq.tail) + 1
    BY <1>2, <1>3, DistTail, Sizes
  <1> QED BY <1>2, <1>3, <1>4, Sizes

\* The entry of an answer is filled where nobody reads yet.
LEMMA PushAnswerKeeps == ASSUME RqSafe, PushAnswer PROVE RqSafe'
  <1>1. rqSvc = "push" /\ Held /\ rqCq \in Rings /\ rqCur \in Entries
    BY DEF PushAnswer, Held, RqSafe, RqTypeOK
  <1>2. /\ rqSvc' = "publish" /\ rqCq' = [rqCq EXCEPT !.ent[Idx(rqCq.tail)] = rqCur]
        /\ UNCHANGED <<rqRegions, rqRegistered, rqSq, rqIn, rqSubmit, rqSeen, rqCur, rqStats, rqSent, rqDone>>
    BY <1>1, AnswerHasRoom DEF PushAnswer
  <1>3. /\ rqCq' \in Rings /\ rqCq'.head = rqCq.head /\ rqCq'.tail = rqCq.tail
        /\ Pending(rqCq') = Pending(rqCq)
        /\ \A i \in Pending(rqCq) : EntryAt(rqCq', i) = EntryAt(rqCq, i)
        /\ rqCq'.ent[Idx(rqCq'.tail)] = rqCur
    BY <1>1, <1>2, AnswerHasRoom, FillTail
  <1>4. RqTypeOK'
    BY <1>2, <1>3 DEF RqSafe, RqTypeOK
  <1>5. AnswersItsOwn' /\ MemoryIsOwned'
    <2>1. rqRegistered /\ rqRegions = Regions
      BY <1>1 DEF RqSafe, MemoryIsOwned, RqServes, Acquired
    <2> QED BY <1>2, <2>1 DEF RqSafe, AnswersItsOwn, MemoryIsOwned, Acquired, RqServes
  <1>6. StatsFollowAnswers'
    <2>1. Answered' = Answered
      BY <1>2 DEF Answered
    <2> QED BY <1>1, <1>2, <1>3, <2>1 DEF RqSafe, StatsFollowAnswers, One
  <1>7. EntriesAreInFlight'
    BY <1>1, <1>2, <1>3, Zenon DEF RqSafe, EntriesAreInFlight, IsLive, Held
  <1>8. OnePlace'
    BY <1>1, <1>2, <1>3 DEF RqSafe, OnePlace, Held
  <1>9. SeenIsCurrent'
    BY <1>2 DEF SeenIsCurrent
  <1> QED BY <1>4, <1>5, <1>6, <1>7, <1>8, <1>9 DEF RqSafe

\* The answer passes from the service to the ring.
LEMMA PublishAnswerKeeps == ASSUME RqSafe, PublishAnswer PROVE RqSafe'
  <1> DEFINE n == Dist(rqCq.head, rqCq.tail)
  <1>1. rqSvc = "publish" /\ Held /\ rqCq \in Rings /\ rqSq \in Rings
    BY DEF PublishAnswer, RqGoto, Held, RqSafe, RqTypeOK
  <1>e. rqCq.ent[Idx(rqCq.tail)] = rqCur
    BY <1>1 DEF RqSafe, EntriesAreInFlight
  <1>2. /\ rqSvc' = "pop" /\ rqCq' = [rqCq EXCEPT !.tail = Inc(rqCq.tail)] /\ rqCur' = NoEntry
        /\ UNCHANGED <<rqRegions, rqRegistered, rqSq, rqIn, rqSubmit, rqSeen, rqStats, rqSent, rqDone>>
    BY DEF PublishAnswer, RqGoto
  <1>3. /\ rqCq' \in Rings
        /\ Dist(rqCq'.head, rqCq'.tail) = n + 1
        /\ Pending(rqCq') = Pending(rqCq) \cup {n} /\ n \notin Pending(rqCq)
        /\ \A i \in Pending(rqCq) : EntryAt(rqCq', i) = EntryAt(rqCq, i)
        /\ EntryAt(rqCq', n) = rqCur
    BY <1>1, <1>2, <1>e, AnswerHasRoom, MoveTail
  <1> HIDE DEF n
  <1>4. RqTypeOK'
    <2>1. NoEntry \in Entries
      BY Sizes DEF NoEntry, NoReq, Entries, Slots
    <2> QED BY <1>2, <1>3, <2>1 DEF RqSafe, RqTypeOK
  <1>5. AnswersItsOwn' /\ MemoryIsOwned'
    <2>1. rqRegistered /\ rqRegions = Regions
      BY <1>1 DEF RqSafe, MemoryIsOwned, RqServes, Acquired
    <2> QED BY <1>2, <2>1 DEF RqSafe, AnswersItsOwn, MemoryIsOwned, Acquired, RqServes
  <1>6. StatsFollowAnswers'
    <2>1. Answered' = Answered /\ Cardinality(Answered) \in Nat
      BY <1>2, AnsweredFinite DEF Answered
    <2>2. n \in Nat /\ rqStats.recorded \in Nat
      BY <1>1, RingTypes, Sizes DEF Word, n, RqSafe, RqTypeOK
    <2>3. rqStats.recorded >= Cardinality(Answered) + n + 1
      BY <1>1 DEF RqSafe, StatsFollowAnswers, One, n
    <2>4. rqStats.recorded >= Cardinality(Answered) + (n + 1) + 0
      BY <2>1, <2>2, <2>3
    <2> QED BY <1>1, <1>2, <1>3, <2>1, <2>4 DEF RqSafe, StatsFollowAnswers, One
  <1>7. EntriesAreInFlight'
    <2>1. IsLive(rqCur) /\ \A i \in Pending(rqCq) : IsLive(EntryAt(rqCq, i))
      BY <1>1 DEF RqSafe, EntriesAreInFlight
    <2>2. \A i \in Pending(rqCq') : IsLive(EntryAt(rqCq', i))
      BY <1>3, <2>1
    <2> QED BY <1>2, <2>2, Zenon DEF RqSafe, EntriesAreInFlight, IsLive, Held
  <1>8. OnePlace'
    <2>1. \A i \in Pending(rqCq) : EntryAt(rqCq, i).tag # rqCur.tag
      BY <1>1 DEF RqSafe, OnePlace
    <2>2. \A i \in Pending(rqSq) : EntryAt(rqSq, i).tag # rqCur.tag
      BY <1>1, Zenon DEF RqSafe, OnePlace
    <2>3. \A i, j \in Pending(rqCq') : EntryAt(rqCq', i).tag = EntryAt(rqCq', j).tag => i = j
      BY <1>3, <2>1, Zenon DEF RqSafe, OnePlace
    <2>4. \A i \in Pending(rqSq), j \in Pending(rqCq') : EntryAt(rqSq, i).tag # EntryAt(rqCq', j).tag
      BY <1>3, <2>2 DEF RqSafe, OnePlace
    <2>5. \A u \in Slots : /\ rqIn'[u].state = "reserved" <=> u = rqSubmit'
                           /\ rqIn'[u].state = "completing" <=> rqSvc' = "release" /\ u = rqCur'.tag
      BY <1>1, <1>2 DEF RqSafe, OnePlace
    <2> QED BY <1>2, <2>3, <2>4, <2>5, Zenon DEF RqSafe, OnePlace, Held
  <1>9. SeenIsCurrent'
    BY <1>2, Zenon DEF SeenIsCurrent
  <1> QED BY <1>4, <1>5, <1>6, <1>7, <1>8, <1>9 DEF RqSafe

\* Unregistering leaves nothing behind.
LEMMA UnregisterKeeps == ASSUME RqSafe, Unregister PROVE RqSafe'
  <1>1. /\ rqSvc = "drain" /\ rqSvc' = "drop" /\ rqSubmit = -1 /\ rqRegistered' = FALSE
        /\ rqIn' = [t \in Slots |-> [state |-> "free", srb |-> NoReq]]
        /\ rqSq' = EmptyRing /\ rqCq' = EmptyRing
        /\ UNCHANGED <<rqRegions, rqSubmit, rqSeen, rqCur, rqStats, rqSent, rqDone>>
    BY DEF Unregister, RqGoto
  <1>2. RqTypeOK'
    <2>1. rqIn' \in [Slots -> [state : {"free", "reserved", "submitted", "completing"}, srb : 0..MaxSubmits]]
      BY <1>1, Sizes DEF NoReq
    <2> QED BY <1>1, <2>1, EmptyRingIsEmpty, Zenon DEF RqSafe, RqTypeOK
  <1>3. AnswersItsOwn' /\ MemoryIsOwned'
    <2>1. rqRegions = Regions
      BY <1>1, Zenon DEF RqSafe, MemoryIsOwned, Acquired
    <2> QED BY <1>1, <2>1 DEF RqSafe, AnswersItsOwn, MemoryIsOwned, Acquired, RqServes
  <1>4. StatsFollowAnswers'
    <2>1. Answered' = Answered /\ Cardinality(Answered) \in Nat
      BY <1>1, AnsweredFinite, Zenon DEF Answered
    <2>2. /\ Dist(rqSq.head, rqSq.tail) \in Nat /\ Dist(rqCq.head, rqCq.tail) \in Nat
          /\ rqStats.recorded \in Nat /\ rqSent \in Nat
      BY RingTypes, Sizes, SMTT(30) DEF Word, RqSafe, RqTypeOK
    <2>3. rqStats.recorded >= Cardinality(Answered) /\ rqStats.recorded <= rqSent
      BY <1>1, <2>1, <2>2 DEF RqSafe, StatsFollowAnswers, One
    <2>4. /\ rqStats.recorded >= Cardinality(Answered) + 0 + 0
          /\ rqStats.recorded + 0 + 0 + 0 <= rqSent
      BY <2>1, <2>2, <2>3
    <2> QED BY <1>1, <2>1, <2>4, EmptyRingIsEmpty, Zenon DEF RqSafe, StatsFollowAnswers, One
  <1>5. EntriesAreInFlight'
    BY <1>1, EmptyRingIsEmpty, Zenon DEF EntriesAreInFlight, Held
  <1>6. OnePlace'
    BY <1>1, EmptyRingIsEmpty, Sizes DEF OnePlace, Held, Slots
  <1>7. SeenIsCurrent'
    BY <1>1 DEF SeenIsCurrent
  <1> QED BY <1>2, <1>3, <1>4, <1>5, <1>6, <1>7 DEF RqSafe

\* Every step keeps the invariant.
LEMMA RqSafeStep == RqSafe /\ [RqNext]_rqVars => RqSafe'
  <1> SUFFICES ASSUME RqSafe, [RqNext]_rqVars PROVE RqSafe' OBVIOUS
  <1>1. CASE (\E region \in Regions : AllocRegion(region) \/ AllocFails(region)) \/ Register \/ DropQueue
    BY <1>1, SetupKeeps
  <1>2. CASE Reserve
    BY <1>2, ReserveKeeps
  <1>3. CASE PublishSubmit
    BY <1>3, PublishSubmitKeeps
  <1>4. CASE TakeAnswer
    BY <1>4, TakeAnswerKeeps
  <1>5. CASE ReleaseSlot
    BY <1>5, ReleaseSlotKeeps
  <1>6. CASE FetchReturned \/ LoadWords \/ Snapshot
    BY <1>6, LoadKeeps, Zenon
  <1>7. CASE StoreHead
    BY <1>7, StoreHeadKeeps
  <1>8. CASE ServeOne
    BY <1>8, ServeOneKeeps
  <1>9. CASE PushAnswer
    BY <1>9, PushAnswerKeeps
  <1>10. CASE PublishAnswer
    BY <1>10, PublishAnswerKeeps
  <1>11. CASE Unregister
    BY <1>11, UnregisterKeeps
  <1>12. CASE UNCHANGED rqVars
    BY <1>12 DEF rqVars, rings, RqSafe, RqTypeOK, AnswersItsOwn, MemoryIsOwned, Acquired, RqServes, StatsFollowAnswers,
              Answered, EntriesAreInFlight, IsLive, Held, OnePlace, SeenIsCurrent
  <1> QED BY <1>1, <1>2, <1>3, <1>4, <1>5, <1>6, <1>7, <1>8, <1>9, <1>10, <1>11, <1>12, Zenon DEF RqNext, Submitting, Serving

\* For every depth of the queue, size of the words and number of requests: an
\* answer reaches the request it was made for, a tag is in one place, no entry is
\* overwritten before it is taken, neither ring overflows although the driver never
\* looks, and memory is mapped while the rings are in use.
THEOREM RingsAlwaysSafe == RqSpec => []RqSafe
  BY RqSafeInit, RqSafeStep, PTL DEF RqSpec

-----------------------------------------------------------------------------
\* Sequences with the same length and the same elements are the same.
LEMMA SameSequence ==
    ASSUME NEW S, NEW s \in Seq(S), NEW u \in Seq(S), Len(s) = Len(u), \A i \in 1..Len(s) : s[i] = u[i]
    PROVE  s = u
  OBVIOUS

\* Appending one element is concatenating the sequence of it.
LEMMA AppendOne ==
    ASSUME NEW S, NEW s \in Seq(S), NEW e \in S
    PROVE  Append(s, e) = s \o <<e>>
  OBVIOUS

\* The tags between the words of a ring, as a sequence.
LEMMA BetweenTypes ==
    ASSUME NEW ring \in Rings
    PROVE  /\ Between(ring) \in Seq(Slots)
           /\ Len(Between(ring)) = Dist(ring.head, ring.tail) /\ Len(Between(ring)) \in Nat
           /\ DOMAIN Between(ring) = 1..Dist(ring.head, ring.tail)
           /\ \A i \in 1..Dist(ring.head, ring.tail) :
                Between(ring)[i] = EntryAt(ring, i - 1).tag /\ i - 1 \in Pending(ring)
  <1> DEFINE n == Dist(ring.head, ring.tail)
  <1>1. n \in Nat
    BY RingTypes, Sizes DEF Word
  <1>2. \A i \in 1..n : i - 1 \in Nat /\ i - 1 \in Pending(ring)
    BY <1>1 DEF Pending
  <1>3. \A i \in 1..n : EntryAt(ring, i - 1).tag \in Slots
    BY <1>2, RingTypes DEF Entries
  <1> HIDE DEF n
  <1>4. Between(ring) = [i \in 1..n |-> EntryAt(ring, i - 1).tag]
    BY DEF Between, n
  <1>5. Between(ring) \in Seq(Slots) /\ Len(Between(ring)) = n
    BY <1>1, <1>3, <1>4
  <1> QED BY <1>1, <1>2, <1>4, <1>5 DEF n

\* A ring whose published entries are the same is the same queue.
LEMMA BetweenSame ==
    ASSUME NEW ring \in Rings, NEW r \in Rings, Dist(r.head, r.tail) = Dist(ring.head, ring.tail),
           \A i \in Pending(ring) : EntryAt(r, i) = EntryAt(ring, i)
    PROVE  Between(r) = Between(ring)
  <1>1. \A i \in 1..Dist(ring.head, ring.tail) : Between(r)[i] = Between(ring)[i]
    BY BetweenTypes
  <1> QED BY <1>1, BetweenTypes, SameSequence, Zenon

\* A published entry is appended to the queue.
LEMMA BetweenAppend ==
    ASSUME NEW ring \in Rings, NEW r \in Rings, NEW t \in Slots,
           Dist(r.head, r.tail) = Dist(ring.head, ring.tail) + 1,
           \A i \in Pending(ring) : EntryAt(r, i) = EntryAt(ring, i),
           EntryAt(r, Dist(ring.head, ring.tail)).tag = t
    PROVE  Between(r) = Append(Between(ring), t)
  <1> DEFINE n == Dist(ring.head, ring.tail)
             s == Between(ring)
             u == Between(r)
  <1>1. s \in Seq(Slots) /\ Len(s) = n /\ n \in Nat /\ u \in Seq(Slots) /\ Len(u) = n + 1
    BY BetweenTypes, Zenon
  <1>2. \A i \in 1..n : u[i] = s[i]
    <2> SUFFICES ASSUME NEW i \in 1..n PROVE u[i] = s[i] OBVIOUS
    <2>1. i \in 1..(n + 1) /\ i \in 1..n
      BY <1>1
    <2>2. u[i] = EntryAt(r, i - 1).tag /\ s[i] = EntryAt(ring, i - 1).tag /\ i - 1 \in Pending(ring)
      BY <2>1, BetweenTypes, Zenon
    <2> QED BY <2>2
  <1>3. u[n + 1] = t
    <2>1. n + 1 \in 1..(n + 1) /\ (n + 1) - 1 = n
      BY <1>1
    <2>2. u[n + 1] = EntryAt(r, (n + 1) - 1).tag
      BY <2>1, BetweenTypes
    <2> QED BY <2>1, <2>2
  <1> HIDE DEF n, s, u
  <1>4. /\ Append(s, t) \in Seq(Slots) /\ Len(Append(s, t)) = n + 1
        /\ \A i \in 1..n : Append(s, t)[i] = s[i]
        /\ Append(s, t)[n + 1] = t
    BY <1>1
  <1>5. \A i \in 1..(n + 1) : u[i] = Append(s, t)[i]
    BY <1>1, <1>2, <1>3, <1>4
  <1>6. u = Append(s, t)
    BY <1>1, <1>4, <1>5, SameSequence, Zenon
  <1> QED BY <1>6, Zenon DEF s, u

\* The entry that is taken was the first of the queue.
LEMMA BetweenTail ==
    ASSUME NEW ring \in Rings, NEW r \in Rings, ring.head # ring.tail,
           Dist(r.head, r.tail) = Dist(ring.head, ring.tail) - 1,
           \A i \in Pending(r) : EntryAt(r, i) = EntryAt(ring, i + 1)
    PROVE  /\ Between(ring) # <<>> /\ Head(Between(ring)) = EntryAt(ring, 0).tag
           /\ Between(r) = Tail(Between(ring))
  <1> DEFINE n == Dist(ring.head, ring.tail)
             s == Between(ring)
             u == Between(r)
  <1>1. s \in Seq(Slots) /\ Len(s) = n /\ n \in Nat /\ u \in Seq(Slots) /\ Len(u) = n - 1
    BY BetweenTypes, Zenon
  <1>2. n # 0
    BY RingTypes, DistZero, Zenon
  <1>3. \A i \in 1..(n - 1) : u[i] = s[i + 1]
    <2> SUFFICES ASSUME NEW i \in 1..(n - 1) PROVE u[i] = s[i + 1] BY Zenon
    <2>1. i + 1 \in 1..n /\ (i + 1) - 1 = (i - 1) + 1
      BY <1>1
    <2>2. u[i] = EntryAt(r, i - 1).tag /\ i - 1 \in Pending(r)
      BY BetweenTypes, Zenon
    <2>3. s[i + 1] = EntryAt(ring, (i + 1) - 1).tag
      BY <2>1, BetweenTypes, Zenon
    <2> QED BY <2>1, <2>2, <2>3, Zenon
  <1>4. s[1] = EntryAt(ring, 0).tag
    <2>1. 1 \in 1..n /\ 1 - 1 = 0
      BY <1>1, <1>2
    <2>2. s[1] = EntryAt(ring, 1 - 1).tag
      BY <2>1, BetweenTypes
    <2> QED BY <2>1, <2>2, Zenon
  <1> HIDE DEF n, s, u
  <1>5. /\ s # <<>> /\ Head(s) = s[1]
        /\ Tail(s) \in Seq(Slots) /\ Len(Tail(s)) = n - 1
        /\ \A i \in 1..(n - 1) : Tail(s)[i] = s[i + 1]
    BY <1>1, <1>2
  <1>6. u = Tail(s)
    BY <1>1, <1>3, <1>5, SameSequence
  <1> QED BY <1>4, <1>5, <1>6, Zenon DEF s, u

\* The tag the driver completes is the one in its hand, if there is one.
LEMMA LeavingIs ==
    ASSUME RqSafe
    PROVE  Leaving = IF rqSvc = "release" THEN {rqCur.tag} ELSE {}
  <1>1. rqCur.tag \in Slots
    BY TagsInFlight, Zenon
  <1>2. \A t \in Slots : rqIn[t].state = "completing" <=> rqSvc = "release" /\ t = rqCur.tag
    BY DEF RqSafe, OnePlace
  <1> QED BY <1>1, <1>2 DEF Leaving

\* A tag that is not submitted is in neither queue, nor with the service.
LEMMA NotPlaced ==
    ASSUME RqSafe, NEW t \in Slots, rqIn[t].state = "reserved"
    PROVE  t \notin Queues!Placed
  <1>1. rqSq \in Rings /\ rqCq \in Rings
    BY Zenon DEF RqSafe, RqTypeOK
  <1>2. t \notin Queues!Range(Between(rqSq))
    BY <1>1, BetweenTypes, TagsInFlight DEF Queues!Range
  <1>3. t \notin Queues!Range(Between(rqCq))
    BY <1>1, BetweenTypes, TagsInFlight DEF Queues!Range
  <1>4. t \notin Queues!Range(InHand)
    <2>1. CASE Held
      <3>1. InHand = <<rqCur.tag>> /\ rqCur.tag # t
        BY <2>1, TagsInFlight, Zenon DEF InHand
      <3> QED BY <3>1 DEF Queues!Range
    <2>2. CASE ~Held
      <3>1. InHand = <<>>
        BY <2>2 DEF InHand
      <3> QED BY <3>1 DEF Queues!Range
    <2> QED BY <2>1, <2>2
  <1>5. t \notin Leaving
    BY DEF Leaving
  <1> QED BY <1>2, <1>3, <1>4, <1>5, Zenon DEF Queues!Placed

\* Steps that leave the words, the table and the entry in hand alone are none of
\* the queues' steps.
LEMMA QueuesRest ==
    ASSUME RqSafe, RqSafe',
           \/ \E region \in Regions : AllocRegion(region) \/ AllocFails(region)
           \/ Register \/ DropQueue \/ FetchReturned \/ LoadWords \/ Snapshot \/ ServeOne
    PROVE  UNCHANGED Queues!tqVars
  <1>1. rqSq' = rqSq /\ rqCq' = rqCq
    <2>1. CASE Register
      <3>1. rqSvc = "register"
        BY <2>1 DEF Register, RqGoto
      <3>2. rqSq = EmptyRing /\ rqCq = EmptyRing
        BY <3>1, Zenon DEF RqSafe, MemoryIsOwned, RqServes
      <3> QED BY <2>1, <3>2 DEF Register
    <2>2. CASE ~Register
      BY <2>2, Zenon DEF AllocRegion, AllocFails, DropQueue, FetchReturned, LoadWords, Snapshot, ServeOne, rings
    <2> QED BY <2>1, <2>2
  <1>2. rqIn' = rqIn
    BY DEF AllocRegion, AllocFails, Register, DropQueue, FetchReturned, LoadWords, Snapshot, ServeOne
  <1>3. InHand' = InHand
    <2>1. CASE ServeOne
      BY <2>1 DEF ServeOne, RqGoto, InHand, Held
    <2>2. CASE ~ServeOne
      <3>1. ~Held /\ ~Held'
        BY <2>2 DEF Held, AllocRegion, AllocFails, AfterAlloc, Regions, Register, DropQueue, FetchReturned,
                    LoadWords, Snapshot, RqGoto
      <3> QED BY <3>1 DEF InHand
    <2> QED BY <2>1, <2>2
  <1>4. Leaving' = Leaving
    BY <1>2 DEF Leaving
  <1> QED BY <1>1, <1>3, <1>4 DEF Queues!tqVars

\* Reserving a tag fills an entry nobody sees yet.
LEMMA QueuesReserve == ASSUME RqSafe, RqSafe', Reserve PROVE UNCHANGED Queues!tqVars
  <1>0. PICK t \in Slots : FirstFree(t) /\ ReserveInto(t, Idx(rqSq.tail)) /\ rqSubmit' = t
    BY DEF Reserve
  <1> DEFINE e == [tag |-> t, req |-> rqSent + 1]
  <1>1. /\ rqSq' = [rqSq EXCEPT !.ent[Idx(rqSq.tail)] = e] /\ e \in Entries
        /\ rqSq \in Rings /\ rqSq' \in Rings /\ rqIn[t].state = "free"
    BY <1>0 DEF Reserve, ReserveInto, RqSafe, RqTypeOK, Entries, FirstFree, FreeSlots
  <1>2. Dist(rqSq.head, rqSq.tail) < Depth
    <2>1. \A i \in Pending(rqSq) : EntryAt(rqSq, i).tag # t
      BY <1>1, TagsInFlight
    <2> QED BY <1>1, <2>1, RingHasRoom, Zenon DEF RqSafe, OnePlace
  <1> HIDE DEF e
  <1>3. Between(rqSq') = Between(rqSq)
    <2>1. /\ rqSq'.head = rqSq.head /\ rqSq'.tail = rqSq.tail
          /\ \A i \in Pending(rqSq) : EntryAt(rqSq', i) = EntryAt(rqSq, i)
      BY <1>1, <1>2, FillTail
    <2> QED BY <1>1, <2>1, BetweenSame, Zenon
  <1>4. rqCq' = rqCq /\ rqSvc' = rqSvc /\ rqCur' = rqCur
    BY DEF Reserve
  <1>5. InHand' = InHand
    BY <1>4 DEF InHand, Held
  <1>6. Leaving' = Leaving
    <2>1. \A u \in Slots : rqIn'[u].state = "completing" <=> rqIn[u].state = "completing"
      BY <1>0, <1>1, Zenon DEF ReserveInto, RqSafe, RqTypeOK
    <2> QED BY <2>1 DEF Leaving
  <1> QED BY <1>3, <1>4, <1>5, <1>6, Zenon DEF Queues!tqVars

\* Publishing the tail word appends the tag to the first queue; it was in none.
LEMMA QueuesSubmit == ASSUME RqSafe, RqSafe', PublishSubmit PROVE Queues!TqSubmit
  <1> DEFINE t == rqSubmit
  <1>1. /\ rqSq' = [rqSq EXCEPT !.tail = Inc(rqSq.tail)]
        /\ rqIn' = [rqIn EXCEPT ![t].state = "submitted"] /\ t # -1 /\ t \in Slots
        /\ rqCq' = rqCq /\ rqSvc' = rqSvc /\ rqCur' = rqCur /\ rqSq \in Rings /\ rqSq' \in Rings
    BY DEF PublishSubmit, RqSafe, RqTypeOK
  <1>2. rqIn[t].state = "reserved" /\ rqSq.ent[Idx(rqSq.tail)].tag = t
    BY <1>1 DEF RqSafe, OnePlace, EntriesAreInFlight
  <1>3. Dist(rqSq.head, rqSq.tail) < Depth
    <2>1. \A i \in Pending(rqSq) : EntryAt(rqSq, i).tag # t
      BY <1>2, TagsInFlight
    <2> QED BY <1>1, <2>1, RingHasRoom, Zenon DEF RqSafe, OnePlace
  <1>4. Between(rqSq') = Append(Between(rqSq), t)
    <2>1. /\ Dist(rqSq'.head, rqSq'.tail) = Dist(rqSq.head, rqSq.tail) + 1
          /\ \A i \in Pending(rqSq) : EntryAt(rqSq', i) = EntryAt(rqSq, i)
          /\ EntryAt(rqSq', Dist(rqSq.head, rqSq.tail)).tag = t
      BY <1>1, <1>2, <1>3, MoveTail
    <2> QED BY <1>1, <2>1, BetweenAppend, Zenon
  <1>5. t \in Slots \ Queues!Placed
    BY <1>1, <1>2, NotPlaced
  <1>6. InHand' = InHand
    BY <1>1 DEF InHand, Held
  <1>7. Leaving' = Leaving
    <2>1. \A u \in Slots : rqIn'[u].state = "completing" <=> rqIn[u].state = "completing"
      BY <1>1, <1>2 DEF RqSafe, RqTypeOK
    <2> QED BY <2>1 DEF Leaving
  <1> QED BY <1>1, <1>4, <1>5, <1>6, <1>7, Zenon DEF Queues!TqSubmit

\* Storing the head word takes the first tag out of the first queue.
LEMMA QueuesTake == ASSUME RqSafe, RqSafe', StoreHead PROVE Queues!TqTake
  <1>1. /\ rqSvc = "store" /\ rqSvc' = "serve"
        /\ rqSq.head # rqSq.tail /\ rqCur = EntryAt(rqSq, 0)
        /\ rqSq' = [rqSq EXCEPT !.head = Inc(rqSq.head)]
        /\ rqCq' = rqCq /\ rqIn' = rqIn /\ rqCur' = rqCur /\ rqSq \in Rings /\ rqSq' \in Rings
    BY DEF StoreHead, RqGoto, RqSafe, RqTypeOK, SeenIsCurrent
  <1>2. /\ Between(rqSq) # <<>> /\ Head(Between(rqSq)) = rqCur.tag
        /\ Between(rqSq') = Tail(Between(rqSq))
    <2>1. /\ Dist(rqSq'.head, rqSq'.tail) = Dist(rqSq.head, rqSq.tail) - 1
          /\ \A i \in Pending(rqSq') : EntryAt(rqSq', i) = EntryAt(rqSq, i + 1)
      BY <1>1, MoveHead
    <2> QED BY <1>1, <2>1, BetweenTail, Zenon
  <1>3. InHand = <<>> /\ InHand' = <<rqCur.tag>>
    BY <1>1 DEF InHand, Held
  <1>4. Leaving' = Leaving
    BY <1>1 DEF Leaving
  <1> QED BY <1>1, <1>2, <1>3, <1>4, Zenon DEF Queues!TqTake

\* Filling the entry behind the completion ring's tail shows nothing yet.
LEMMA QueuesPush == ASSUME RqSafe, RqSafe', PushAnswer PROVE UNCHANGED Queues!tqVars
  <1>1. rqSvc = "push" /\ Held /\ rqCq \in Rings /\ rqCq' \in Rings /\ rqCur \in Entries
    BY DEF PushAnswer, Held, RqSafe, RqTypeOK
  <1>2. /\ rqSvc' = "publish" /\ rqCq' = [rqCq EXCEPT !.ent[Idx(rqCq.tail)] = rqCur]
        /\ rqSq' = rqSq /\ rqIn' = rqIn /\ rqCur' = rqCur
    BY <1>1, AnswerHasRoom, Zenon DEF PushAnswer
  <1>3. Between(rqCq') = Between(rqCq)
    <2>1. /\ rqCq'.head = rqCq.head /\ rqCq'.tail = rqCq.tail
          /\ \A i \in Pending(rqCq) : EntryAt(rqCq', i) = EntryAt(rqCq, i)
      BY <1>1, <1>2, AnswerHasRoom, FillTail
    <2> QED BY <1>1, <2>1, BetweenSame
  <1>4. InHand' = InHand
    BY <1>1, <1>2 DEF InHand, Held
  <1>5. Leaving' = Leaving
    BY <1>2 DEF Leaving
  <1> QED BY <1>2, <1>3, <1>4, <1>5, Zenon DEF Queues!tqVars

\* Publishing its tail word moves the tag from the service to the second queue.
LEMMA QueuesAnswer == ASSUME RqSafe, RqSafe', PublishAnswer PROVE Queues!TqAnswer
  <1> DEFINE s == Between(rqCq)
             t == rqCur.tag
  <1>1. rqSvc = "publish" /\ Held /\ rqCq \in Rings /\ rqCq' \in Rings /\ t \in Slots
    BY DEF PublishAnswer, RqGoto, Held, RqSafe, RqTypeOK, Entries
  <1>2. /\ rqSvc' = "pop" /\ rqCq' = [rqCq EXCEPT !.tail = Inc(rqCq.tail)]
        /\ rqSq' = rqSq /\ rqIn' = rqIn /\ rqCq.ent[Idx(rqCq.tail)] = rqCur
    BY <1>1 DEF PublishAnswer, RqGoto, RqSafe, EntriesAreInFlight
  <1>3. Between(rqCq') = Append(s, t)
    <2>1. /\ Dist(rqCq'.head, rqCq'.tail) = Dist(rqCq.head, rqCq.tail) + 1
          /\ \A i \in Pending(rqCq) : EntryAt(rqCq', i) = EntryAt(rqCq, i)
          /\ EntryAt(rqCq', Dist(rqCq.head, rqCq.tail)).tag = t
      BY <1>1, <1>2, AnswerHasRoom, MoveTail
    <2> QED BY <1>1, <2>1, BetweenAppend, Zenon
  <1>4. InHand = <<t>> /\ InHand' = <<>>
    BY <1>1, <1>2 DEF InHand, Held
  <1>5. Append(s, t) = s \o <<t>>
    <2>1. s \in Seq(Slots)
      BY <1>1, BetweenTypes
    <2> HIDE DEF s, t
    <2> QED BY <1>1, <2>1, AppendOne, Zenon
  <1>6. Leaving' = Leaving
    BY <1>2 DEF Leaving
  <1>7. InHand # <<>>
    BY <1>4
  <1> QED BY <1>2, <1>3, <1>4, <1>5, <1>6, <1>7, Zenon DEF Queues!TqAnswer

\* The fetch takes the first tag out of the second queue: its entry is known, so it
\* is never skipped.
LEMMA QueuesComplete == ASSUME RqSafe, RqSafe', TakeAnswer PROVE Queues!TqComplete
  <1> DEFINE e == EntryAt(rqCq, 0)
  <1>1. /\ rqCq \in Rings /\ rqCq' \in Rings /\ rqCq.head # rqCq.tail /\ rqSvc = "drain"
        /\ rqCq' = [rqCq EXCEPT !.head = Inc(rqCq.head)] /\ rqSq' = rqSq
    BY Zenon DEF RqSafe, RqTypeOK, TakeAnswer
  <1>2. /\ 0 \in Pending(rqCq)
        /\ Dist(rqCq'.head, rqCq'.tail) = Dist(rqCq.head, rqCq.tail) - 1
        /\ \A i \in Pending(rqCq') : EntryAt(rqCq', i) = EntryAt(rqCq, i + 1)
    BY <1>1, MoveHead, Zenon
  <1>3. rqCq.ent[Idx(rqCq.head)] = e /\ rqIn[e.tag].state = "submitted"
    <2>1. rqCq.head \in Word
      BY <1>1, RingTypes
    <2>2. rqCq.head + 0 = rqCq.head
      BY <2>1, Sizes DEF Word
    <2> QED BY <1>2, <2>2, TagsInFlight DEF EntryAt
  <1>4. rqCur' = e /\ rqSvc' = "release"
    <2> HIDE DEF e
    <2> QED BY <1>3 DEF TakeAnswer
  <1>5. /\ Between(rqCq) # <<>> /\ Head(Between(rqCq)) = e.tag
        /\ Between(rqCq') = Tail(Between(rqCq))
    BY <1>1, <1>2, BetweenTail, Zenon
  <1>6. InHand = <<>> /\ InHand' = <<>>
    BY <1>1, <1>4 DEF InHand, Held
  <1>7. Leaving = {}
    BY <1>1, LeavingIs, Zenon
  <1>8. Leaving' = {e.tag}
    <2>1. e.tag \in Slots
      BY <1>2, TagsInFlight, Zenon
    <2>2. \A t \in Slots : rqIn'[t].state = "completing" <=> t = e.tag
      BY <1>4 DEF RqSafe, OnePlace
    <2> QED BY <2>1, <2>2, Zenon DEF Leaving
  <1> QED BY <1>1, <1>5, <1>6, <1>7, <1>8, Zenon DEF Queues!TqComplete

\* Freeing the tag ends its completion.
LEMMA QueuesRelease == ASSUME RqSafe, RqSafe', ReleaseSlot PROVE Queues!TqRelease
  <1>1. rqSvc = "release" /\ rqSvc' = "drain" /\ rqSq' = rqSq /\ rqCq' = rqCq
    BY DEF ReleaseSlot, RqGoto, rings
  <1>2. Leaving # {}
    BY <1>1, LeavingIs
  <1>3. Leaving' = {}
    <2>1. \A t \in Slots : rqIn'[t].state # "completing"
      BY <1>1 DEF RqSafe, OnePlace
    <2> QED BY <2>1, Zenon DEF Leaving
  <1>4. InHand = <<>> /\ InHand' = <<>>
    BY <1>1 DEF InHand, Held
  <1> QED BY <1>1, <1>2, <1>3, <1>4 DEF Queues!TqRelease

\* Empty rings are empty queues.
LEMMA EmptyBetween == Between(EmptyRing) = <<>>
  <1>1. Between(EmptyRing) \in Seq(Slots) /\ Len(Between(EmptyRing)) = 0
    BY EmptyRingIsEmpty, BetweenTypes
  <1> QED BY <1>1

\* Unregistering empties everything.
LEMMA QueuesEnd == ASSUME RqSafe, RqSafe', Unregister PROVE Queues!TqEnd
  <1>1. /\ rqSvc' = "drop" /\ rqSq' = EmptyRing /\ rqCq' = EmptyRing
        /\ rqIn' = [t \in Slots |-> [state |-> "free", srb |-> NoReq]]
    BY DEF Unregister, RqGoto
  <1>2. InHand' = <<>>
    BY <1>1, Zenon DEF InHand, Held
  <1>3. Leaving' = {}
    BY <1>1 DEF Leaving
  <1> QED BY <1>1, <1>2, <1>3, EmptyBetween, Zenon DEF Queues!TqEnd

\* The initial state is empty.
LEMMA QueuesInit == RqInit => Queues!TqInit
  <1> SUFFICES ASSUME RqInit PROVE Queues!TqInit OBVIOUS
  <1>1. rqSq = EmptyRing /\ rqCq = EmptyRing
    BY DEF RqInit
  <1>2. InHand = <<>>
    BY DEF RqInit, InHand, Held
  <1>3. Leaving = {}
    BY DEF RqInit, Leaving
  <1> QED BY <1>1, <1>2, <1>3, EmptyBetween, Zenon DEF Queues!TqInit

\* Every step of the rings is a step of the queues or none.
LEMMA QueuesStep == RqSafe /\ RqSafe' /\ [RqNext]_rqVars => [Queues!TqNext]_(Queues!tqVars)
  <1> SUFFICES ASSUME RqSafe, RqSafe', [RqNext]_rqVars
               PROVE  Queues!TqNext \/ UNCHANGED Queues!tqVars
    OBVIOUS
  <1>1. CASE \/ \E region \in Regions : AllocRegion(region) \/ AllocFails(region)
             \/ Register \/ DropQueue \/ FetchReturned \/ LoadWords \/ Snapshot \/ ServeOne
    BY <1>1, QueuesRest, Zenon
  <1>2. CASE Reserve
    BY <1>2, QueuesReserve
  <1>3. CASE PublishSubmit
    BY <1>3, QueuesSubmit DEF Queues!TqNext
  <1>4. CASE StoreHead
    BY <1>4, QueuesTake, Zenon DEF Queues!TqNext
  <1>5. CASE PushAnswer
    BY <1>5, QueuesPush
  <1>6. CASE PublishAnswer
    BY <1>6, QueuesAnswer DEF Queues!TqNext
  <1>7. CASE TakeAnswer
    BY <1>7, QueuesComplete, Zenon DEF Queues!TqNext
  <1>8. CASE ReleaseSlot
    BY <1>8, QueuesRelease, Zenon DEF Queues!TqNext
  <1>9. CASE Unregister
    BY <1>9, QueuesEnd, Zenon DEF Queues!TqNext
  <1>10. CASE UNCHANGED rqVars
    <2>1. rqSq' = rqSq /\ rqCq' = rqCq /\ rqIn' = rqIn /\ rqSvc' = rqSvc /\ rqCur' = rqCur
      BY <1>10, Zenon DEF rqVars, rings
    <2>2. InHand' = InHand /\ Leaving' = Leaving
      BY <2>1 DEF InHand, Held, Leaving
    <2> QED BY <2>1, <2>2 DEF Queues!tqVars
  <1> QED BY <1>1, <1>2, <1>3, <1>4, <1>5, <1>6, <1>7, <1>8, <1>9, <1>10, Zenon
          DEF RqNext, Submitting, Serving

\* The two shared rings of wrapping words implement two first-in first-out queues
\* of tags, for every depth and every word size that is a larger multiple of it: an
\* entry is seen once, in order and as it was published, and neither side can run
\* over the other although the submit path never asks whether its ring is full.
THEOREM RingsAreQueues == RqSpec => ImplementsQueues
  <1>1. RqSpec => []RqSafe
    BY RingsAlwaysSafe
  <1> QED BY <1>1, QueuesInit, QueuesStep, PTL DEF RqSpec, ImplementsQueues, Queues!TqSpec
=============================================================================
