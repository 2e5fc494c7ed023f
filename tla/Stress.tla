------------------------------- MODULE Stress -------------------------------
(***************************************************************************)
(* `ramshared stress`: a main thread that ramps memory up step by step     *)
(* behind four interlocks (the RAM floor, the buddy allocator, PSI and the *)
(* allocation latency), holds the peak, and gives it back; a watchdog      *)
(* thread that gives it back when the main thread's heartbeat stops; and   *)
(* the kernel, whose kswapd moves held pages to the swap tiers meanwhile.  *)
(*                                                                         *)
(* Amounts are MB and the allocation sizes are the code's; the counts of   *)
(* its polling loops are constants.  term_signal is set only at the end of *)
(* the run, so the loops' tests of it never succeed and are left out.      *)
(***************************************************************************)
EXTENDS Naturals, Sequences, FiniteSetsExt, SequencesExt

CONSTANTS
  StCommands,      \* the option lists the command is called with
  StAvailable,       \* MemAvailable at the start
  OnePct,          \* one step's share of the RAM
  UpperTiers,      \* what the ZRAM and VRAM tiers hold
  Tier3,           \* what the SSD tier holds
  SwapStep,        \* how much kswapd moves at a time
  MaxIdle,         \* polls without swap growth before the floor counts as reached
  MaxDamp,         \* PSI polls before the pressure counts as sustained
  MaxRecover,      \* polls for headroom after a refused step
  LevelCap,        \* bound: ramp levels
  StallsTouching   \* may the main thread stall while it holds the chunks' lock?

ASSUME StressAssumption ==
  /\ {StAvailable, OnePct, UpperTiers, Tier3, LevelCap} \subseteq Nat
  /\ {SwapStep, MaxIdle, MaxDamp, MaxRecover} \subseteq Nat \ {0} /\ StallsTouching \in BOOLEAN

VARIABLES
  stOpt,      \* the parsed options
  stAt,       \* where the main thread is
  stSeen,     \* the iteration's sample: avail, psi and latency above their limits
  stCount,    \* the polls of the loop it is in
  stLevel,    \* ramp levels done
  stTotal,    \* total_allocated_mb
  stHeld,     \* MB in chunks
  stSlice,    \* MB being dirtied, not yet in chunks
  stSwap,     \* MB of the chunks in the swap tiers
  stBeat,     \* is the heartbeat younger than the watchdog's limit?
  stStalled,  \* is the main thread stalled?
  stDog       \* the watchdog thread: "watching", "tripped" or "ended"

stMain == <<stOpt, stAt, stSeen, stCount, stLevel, stTotal>>
stMemory == <<stHeld, stSlice, stSwap>>
stDogVars == <<stBeat, stStalled, stDog>>
stVars == <<stMain, stMemory, stDogVars>>

\* parse_stress_args, for the options that change the course of the run.
Defaults == [start |-> 1, target |-> 90, explicit |-> FALSE, step |-> 1, hold |-> TRUE, tier3 |-> {}, cascade |-> FALSE]
Multi(o) ==
  [o EXCEPT !.cascade = TRUE, !.target = IF o.explicit THEN @ ELSE 100, !.step = IF @ = 1 THEN 5 ELSE @]
ParseOption(option, o) ==
  CASE option[1] = "--start" -> [o EXCEPT !.start = option[2]]
    [] option[1] = "--target" -> [o EXCEPT !.target = option[2], !.explicit = TRUE]
    [] option[1] = "--step" -> [o EXCEPT !.step = option[2]]
    [] option[1] = "--hold-sec" -> [o EXCEPT !.hold = option[2] > 0]
    [] option[1] = "--cascade" -> [Multi(o) EXCEPT !.tier3 = IF @ = {} THEN {15} ELSE @]
    [] option[1] = "--tier3-target-pct" -> [Multi(o) EXCEPT !.tier3 = {Min({Max({1, option[2]}), 100})}]
ClampOptions(o) ==
  LET start == Min({Max({1, o.start}), 200})
  IN [o EXCEPT !.start = start, !.target = Min({Max({start, @}), 200}), !.step = Min({Max({1, @}), 25})]
ParseStressArgs(options) ==
  ClampOptions(FoldFunction(ParseOption, Defaults, Reverse(options)))

MultiTier == stOpt.cascade \/ stOpt.tier3 # {}

\* The levels of the ramp: a target of 100 is no limit for a multi-tier run.
RampLevels ==
  LET target == IF MultiTier /\ stOpt.target = 100 THEN IF stOpt.tier3 # {} THEN 6000 ELSE 1000 ELSE stOpt.target
  IN Min({LevelCap, (target - stOpt.start) \div stOpt.step + 1})

\* MemAvailable while nobody else allocates, and the floor the ramp keeps: what the
\* 600 MB of headroom leave above the kernel's reserve, at least 100 or 200 MB.
Free == StAvailable + stSwap - stHeld - stSlice
HardFloor == IF MultiTier THEN 100 ELSE 200

\* The tiers fill in the order of their priorities.
Tier3Used == IF stSwap > UpperTiers THEN stSwap - UpperTiers ELSE 0
Qualified ==
  /\ stSwap * 100 >= UpperTiers * 95
  /\ \E t \in stOpt.tier3 : Tier3Used * 100 >= Tier3 * t

SafeAllocation(avail) ==
  IF ~MultiTier THEN Min({OnePct, IF avail > HardFloor THEN avail - HardFloor ELSE 0, 128})
  ELSE IF Tier3Used > 0
  THEN CASE avail > HardFloor + 48 -> Min({OnePct, avail - HardFloor - 16, 32})
         [] avail > HardFloor + 16 /\ avail <= HardFloor + 48 -> 16
         [] OTHER -> 0
  ELSE CASE avail > HardFloor + 200 -> Min({OnePct, avail - HardFloor - 50, 128})
         [] avail > HardFloor + 20 /\ avail <= HardFloor + 200 -> 32
         [] avail > HardFloor /\ avail <= HardFloor + 20 -> 16
         [] OTHER -> 0

NoSample == [avail |-> 0, psi |-> FALSE, slow |-> FALSE, swap |-> 0]

StInit ==
  /\ stOpt \in {ParseStressArgs(c) : c \in StCommands}
  /\ stAt = "ramp" /\ stSeen = NoSample /\ stCount = 0 /\ stLevel = 0 /\ stTotal = 0
  /\ stHeld = 0 /\ stSlice = 0 /\ stSwap = 0
  /\ stBeat = TRUE /\ stStalled = FALSE /\ stDog = "watching"

(***************************************************************************)
(* The ramp.                                                               *)
(***************************************************************************)
StGoto(at) == stAt' = at /\ stCount' = 0
Halt == IF stOpt.hold THEN "hold" ELSE "reclaim"
Heartbeat == stBeat' = TRUE /\ UNCHANGED <<stStalled, stDog>>
Keep == UNCHANGED <<stOpt, stLevel, stTotal, stMemory>>

StSample ==
  /\ stAt = "ramp" /\ stLevel < RampLevels
  /\ \E psi, slow \in BOOLEAN :
       stSeen' = [avail |-> Free, psi |-> psi, slow |-> slow, swap |-> stSwap]
  /\ StGoto(IF Free > HardFloor THEN "buddy" ELSE IF MultiTier THEN "drain" ELSE Halt)
  /\ Heartbeat /\ Keep

RampEnds ==
  /\ stAt = "ramp" /\ stLevel >= RampLevels
  /\ StGoto(Halt)
  /\ UNCHANGED <<stSeen, stDogVars>> /\ Keep

\* At the floor a multi-tier run waits as long as the swap tiers grow.
StDrain ==
  /\ stAt = "drain"
  /\ LET idle == IF stSwap > stSeen.swap THEN 0 ELSE stCount + 1
         at == CASE Free > HardFloor -> "buddy"
                 [] Free <= HardFloor /\ idle >= MaxIdle -> Halt
                 [] OTHER -> "drain"
     IN /\ stSeen' = [stSeen EXCEPT !.avail = Free, !.swap = Max({@, stSwap})]
        /\ stAt' = at /\ stCount' = IF at = "drain" THEN idle ELSE 0
  /\ Heartbeat /\ Keep

\* decide_buddyinfo_action: by the free order-7 chunks, with those of higher orders.
BuddyDecision(chunks) ==
  IF chunks < 8 THEN "halt" ELSE IF chunks < 16 THEN "compact" ELSE "continue"

\* The last reading counts, the fourth when the ones before it said halt; then PSI and
\* the latency of the sample decide.
Buddy ==
  /\ stAt = "buddy"
  /\ \E chunks \in {7, 8, 16} :
       StGoto(CASE BuddyDecision(chunks) = "halt" -> Halt
                [] BuddyDecision(chunks) # "halt" /\ stSeen.psi /\ MultiTier -> "damp"
                [] BuddyDecision(chunks) # "halt" /\ ~(stSeen.psi /\ MultiTier) ->
                     IF stSeen.psi \/ stSeen.slow THEN Halt ELSE "size")
  /\ UNCHANGED <<stSeen, stDogVars>> /\ Keep

\* A multi-tier run waits for the pressure to calm down, without a heartbeat.
Damp ==
  /\ stAt = "damp"
  /\ \/ StGoto(IF stSeen.slow THEN Halt ELSE "size")
     \/ stCount + 1 < MaxDamp /\ stAt' = "damp" /\ stCount' = stCount + 1
     \/ stCount + 1 >= MaxDamp /\ StGoto(Halt)
  /\ UNCHANGED <<stSeen, stDogVars>> /\ Keep

\* The tiers' use is read again, the headroom and the pressure are the sample's.
Size ==
  /\ stAt = "size"
  /\ LET mb == SafeAllocation(stSeen.avail)
     IN IF Qualified \/ (mb = 0 /\ (stSeen.psi \/ ~MultiTier))
        THEN StGoto(Halt) /\ UNCHANGED stSlice
        ELSE StGoto(IF mb = 0 THEN "recover" ELSE "dirty") /\ stSlice' = mb
  /\ UNCHANGED <<stOpt, stSeen, stLevel, stTotal, stHeld, stSwap, stDogVars>>

Recover ==
  /\ stAt = "recover"
  /\ CASE Free > HardFloor + 16 -> StGoto("ramp")
       [] Free <= HardFloor + 16 /\ stCount + 1 < MaxRecover -> stAt' = "recover" /\ stCount' = stCount + 1
       [] OTHER -> StGoto(Halt)
  /\ UNCHANGED stSeen /\ Heartbeat /\ Keep

\* The dirtied slice joins the chunks, and the step's interval passes.
Push ==
  /\ stAt = "dirty"
  /\ stHeld' = stHeld + stSlice /\ stTotal' = stTotal + stSlice /\ stSlice' = 0
  /\ stLevel' = stLevel + 1 /\ stSeen' = NoSample /\ StGoto("ramp")
  /\ UNCHANGED <<stOpt, stSwap, stDogVars>>

(***************************************************************************)
(* The hold cycles touch the chunks under their lock; the time is up after *)
(* any of them.                                                            *)
(***************************************************************************)
HoldCycle ==
  /\ stAt = "hold" /\ stAt' = IF stHeld > 0 THEN "touching" ELSE "hold"
  /\ stSeen' = NoSample /\ UNCHANGED stCount /\ Heartbeat /\ Keep

Touched ==
  /\ stAt = "touching" /\ stAt' = "hold"
  /\ UNCHANGED <<stSeen, stCount, stDogVars>> /\ Keep

HoldEnds ==
  /\ stAt = "hold" /\ StGoto("reclaim") /\ stSeen' = NoSample
  /\ UNCHANGED stDogVars /\ Keep

Reclaim ==
  /\ stAt = "reclaim" /\ StGoto("join") /\ stSeen' = NoSample
  /\ stHeld' = 0 /\ stSwap' = 0
  /\ UNCHANGED <<stOpt, stLevel, stTotal, stSlice, stDogVars>>

\* The watchdog sees term_signal; the main thread joins it and reports.
StJoin ==
  /\ stAt = "join" /\ stAt' = "done"
  /\ stDog' = IF stDog = "watching" THEN "ended" ELSE stDog
  /\ UNCHANGED <<stOpt, stSeen, stCount, stLevel, stTotal, stMemory, stBeat, stStalled>>

(***************************************************************************)
(* The watchdog, the kernel and time.                                      *)
(***************************************************************************)
\* Mutant: the watchdog trips and frees nothing.
WatchdogGivesUp ==
  /\ stDog = "watching" /\ ~stBeat
  /\ stDog' = "tripped"
  /\ UNCHANGED <<stMain, stMemory, stBeat, stStalled>>

Watchdog ==
  /\ stDog = "watching" /\ ~stBeat /\ stAt # "touching"
  /\ stHeld' = 0 /\ stSwap' = 0 /\ stDog' = "tripped"
  /\ UNCHANGED <<stMain, stSlice, stBeat, stStalled>>

Kswapd ==
  /\ stSwap + SwapStep <= Min({stHeld, UpperTiers + Tier3})
  /\ stSwap' = stSwap + SwapStep
  /\ UNCHANGED <<stMain, stHeld, stSlice, stDogVars>>

Stall ==
  /\ ~stStalled /\ stDog = "watching" /\ stAt \notin {"join", "done"}
  /\ stAt = "touching" => StallsTouching
  /\ stStalled' = TRUE
  /\ UNCHANGED <<stMain, stMemory, stBeat, stDog>>

Unstall ==
  /\ stStalled /\ stStalled' = FALSE
  /\ UNCHANGED <<stMain, stMemory, stBeat, stDog>>

\* The heartbeat gets old when the main thread stalls, and in a damping loop.
BeatAges ==
  /\ stBeat /\ stDog = "watching"
  /\ stStalled \/ (stAt = "damp" /\ stCount + 1 = MaxDamp)
  /\ stBeat' = FALSE
  /\ UNCHANGED <<stMain, stMemory, stStalled, stDog>>

StMainStep ==
  /\ ~stStalled
  /\ \/ StSample \/ RampEnds \/ StDrain \/ Buddy \/ Damp \/ Size \/ Recover \/ Push
     \/ HoldCycle \/ Touched \/ HoldEnds \/ Reclaim \/ StJoin

StNext == StMainStep \/ Watchdog \/ Kswapd \/ Stall \/ Unstall \/ BeatAges

\* The main thread runs unless it is stalled, the watchdog polls and clocks advance;
\* nothing makes kswapd run or a stall end.
StSpec ==
  /\ StInit /\ [][StNext]_stVars
  /\ WF_stVars(StMainStep) /\ WF_stVars(Watchdog) /\ WF_stVars(stStalled /\ BeatAges)

-----------------------------------------------------------------------------

\* kswapd moves only held pages, and the main thread ends after the watchdog.
StTypeOK ==
  /\ {stHeld, stSlice, stTotal, stSwap, stLevel, stCount} \subseteq Nat /\ stSwap <= stHeld
  /\ stSeen \in [avail : Nat, psi : BOOLEAN, slow : BOOLEAN, swap : Nat]
  /\ {stBeat, stStalled} \subseteq BOOLEAN /\ stDog \in {"watching", "tripped", "ended"}
  /\ stAt = "done" => stDog # "watching" /\ stHeld = 0
  /\ stSlice > 0 => stAt = "dirty"

\* The closed-loop safety floor: as long as nobody else allocates, a single-tier ramp
\* never takes MemAvailable below its floor, and a multi-tier ramp, which steps by 16 MB
\* above the floor, undershoots it by less than such a step.
FloorHolds == IF MultiTier THEN Free + 16 > HardFloor ELSE Free >= HardFloor

\* "PHASE 4: ATOMIC MEMORY RECLAIM": what the run says it allocated is what it holds,
\* unless the watchdog took it.
TotalIsHeld == stDog = "watching" /\ stAt \notin {"join", "done"} => stTotal = stHeld

\* The watchdog of the module's header: when the main thread stalls, the memory it has
\* pushed is given back.
StalledIsReleased == stStalled /\ stDog = "watching" ~> ~stStalled \/ stHeld = 0

\* "fail-closed Hyper-V / WSL2 anti-hang protection": once the watchdog has had to give
\* the memory back, the run allocates no more.
NothingAfterTrip == [][stDog = "tripped" => stSlice' <= stSlice]_stVars

\* The promises together.
StContract == [](StTypeOK /\ FloorHolds /\ TotalIsHeld) /\ StalledIsReleased
=============================================================================
