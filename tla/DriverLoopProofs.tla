-------------------------- MODULE DriverLoopProofs --------------------------
(***************************************************************************)
(* The loop of a driver for every ceiling, floor, cadence and deadline: it *)
(* is of its types, gives the event loop its turns, answers a ping within  *)
(* the floor, paces its looks and keeps its registry row fresh.  None of   *)
(* this assumes fairness.                                                  *)
(***************************************************************************)
EXTENDS DriverLoop, TLAPS

Ticking == {"claiming", "launching", "reading", "answered"}

\* Ticks without a turn are counted by the code's own counter, or by one less.
TurnsAreCounted ==
  /\ turnless <= chainedTicks + 1 /\ chainedTicks < YieldAfter
  /\ pc = "new" => turnless = 0

\* What a tick answered: a tick under way found out whether there was something, and one
\* that failed, or none, plans nothing.
LooksAreRead ==
  /\ pc \in {"launching", "reading"} => result.look \in {"found", "empty"}
  /\ result.look \notin {"found", "empty"} => ~result.backlog /\ result.untilWake = None

\* A ping is remembered until the next tick starts, and it has ended the park it came in.
PingsAreHeld ==
  /\ running /\ pinged => wakeRequested
  /\ pc = "parked" /\ running => (interrupted <=> wakeRequested)
  /\ pc = "flooring" => wakeRequested \/ ~running

\* A sleep ends when the planned look is due, or the floor is over.
SleepsAreBounded ==
  /\ pc = "parked" => sleepLeft = plannedLeft
  /\ pc = "flooring" => /\ sleepLeft <= plannedLeft /\ sleepLeft + sinceTick <= WakeFloor
                        /\ sleepLeft = plannedLeft \/ sleepLeft + sinceTick = WakeFloor

PaceInv ==
  /\ TypeOK
  /\ pc \in {"new", "stopped"} => ~running
  /\ TurnsAreCounted /\ LooksAreRead /\ PingsAreHeld /\ SleepsAreBounded

\* A tick starts with a confirmed beat that is due at the latest when the call that could
\* not confirm it sooner has ended.
BeatDue == RegistryInterval + CallTime
TickTime == CallTime + LaunchTimeout

\* The age of the last beat while a tick is under way and no beat is in flight.
TickIsShort ==
  /\ lastBeat <= BeatDue + TickTime
  /\ sinceTick < CallTime => lastBeat <= BeatDue + sinceTick
  /\ pc = "claiming" => lastBeat <= BeatDue + CallTime
  /\ pc = "launching" /\ launch >= 0 => lastBeat + launch <= BeatDue + TickTime

\* The age of the last beat while no beat is in flight.
RestIsShort ==
  /\ pc = "yielding" => lastBeat # None /\ lastBeat < RegistryInterval
  /\ pc \in {"parked", "flooring"} => lastBeat # None /\ lastBeat + sleepLeft <= BeatDue
  /\ pc \in Ticking => TickIsShort

\* The age of the last beat, and of the one in flight.
FlightIsShort ==
  /\ lastBeat <= BeatDue + TickTime + beat
  /\ pc \in {"parked", "flooring"} => beat + sleepLeft <= BeatDue

BeatInv ==
  /\ pc = "new" => beat = None /\ lastBeat = None
  /\ beat = Hung => beatLost
  /\ running /\ ~beatLost => IF beat = None THEN RestIsShort ELSE FlightIsShort

-----------------------------------------------------------------------------
(* The arithmetic of the timers *)

LEMMA ConstantsAreTimes ==
  /\ BusyCeiling \in Nat /\ IdleCeiling \in Nat /\ WakeFloor \in Nat /\ IdleAfter \in Nat
  /\ YieldAfter \in Nat /\ RegistryInterval \in Nat /\ LaunchTimeout \in Nat /\ CallTime \in Nat
  /\ 0 < BusyCeiling /\ BusyCeiling <= IdleCeiling /\ 0 < WakeFloor /\ 0 < IdleAfter
  /\ 0 < YieldAfter /\ 0 < RegistryInterval /\ 0 < LaunchTimeout /\ 0 < CallTime
  /\ 3 * CallTime + LaunchTimeout < RegistryInterval
  /\ Waits \subseteq Nat
  BY LoopAssumption, CadenceAssumption

LEMMA LeastOfTwo ==
  ASSUME NEW a \in Int, NEW b \in Int
  PROVE  Least({a, b}) \in {a, b} /\ Least({a, b}) <= a /\ Least({a, b}) <= b
<1>1. \E x \in {a, b} : \A y \in {a, b} : x <= y
  <2>1. CASE a <= b
    BY <2>1
  <2>2. CASE b <= a
    BY <2>2
  <2>3. QED
    BY <2>1, <2>2
<1>2. QED
  BY <1>1 DEF Least

LEMMA LeastOfThree ==
  ASSUME NEW a \in Int, NEW b \in Int, NEW c \in Int
  PROVE  /\ Least({a, b, c}) \in {a, b, c}
         /\ Least({a, b, c}) <= a /\ Least({a, b, c}) <= b /\ Least({a, b, c}) <= c
<1>1. \E x \in {a, b, c} : \A y \in {a, b, c} : x <= y
  <2>1. PICK m \in {a, b} : m <= a /\ m <= b
    BY LeastOfTwo
  <2>2. PICK n \in {m, c} : n <= m /\ n <= c
    BY LeastOfTwo
  <2>3. QED
    BY <2>1, <2>2
<1>2. QED
  BY <1>1 DEF Least

\* The age of a tick is counted far enough for its calls, the floor and the busy ceiling.
LEMMA TickHorizonIsFar ==
  TickHorizon \in Nat /\ WakeFloor <= TickHorizon /\ CallTime <= TickHorizon
<1> DEFINE S == {WakeFloor, BusyCeiling, CallTime}
<1>1. \E x \in S : \A y \in S : x >= y
  <2>1. PICK m \in {WakeFloor, BusyCeiling} : m >= WakeFloor /\ m >= BusyCeiling
    BY ConstantsAreTimes
  <2>2. PICK n \in {m, CallTime} : n >= m /\ n >= CallTime
    BY <2>1, ConstantsAreTimes
  <2>3. QED
    BY <2>1, <2>2, ConstantsAreTimes
<1>2. Most(S) \in S /\ \A y \in S : Most(S) >= y
  BY <1>1 DEF Most
<1>3. QED
  BY <1>2, ConstantsAreTimes DEF TickHorizon

\* The planned park: never none, never past the ceiling or the beat that is due.
LEMMA SleepIsShort ==
  ASSUME TypeOK, NEW idle
  PROVE  /\ SleepMs(idle) \in 1 .. IdleCeiling
         /\ SleepMs(idle) <= RegistryInterval
         /\ lastBeat # None /\ lastBeat < RegistryInterval =>
              lastBeat + SleepMs(idle) <= RegistryInterval
<1> DEFINE ceiling == IF result.look = "failed" \/ idle >= IdleAfter THEN IdleCeiling ELSE BusyCeiling
<1>1. ceiling \in 1 .. IdleCeiling
  BY ConstantsAreTimes
<1>2. lastBeat = None \/ lastBeat \in Nat
  BY ConstantsAreTimes DEF TypeOK, BeatHorizon
<1>3. /\ MsUntilBeatDue \in 1 .. RegistryInterval
      /\ lastBeat # None /\ lastBeat < RegistryInterval => lastBeat + MsUntilBeatDue <= RegistryInterval
  BY <1>2, ConstantsAreTimes DEF MsUntilBeatDue, None
<1> DEFINE untilBeat == MsUntilBeatDue
<1> HIDE DEF ceiling, untilBeat
<1>4. untilBeat \in Int /\ ceiling \in Int
  BY <1>1, <1>3, ConstantsAreTimes DEF untilBeat
<1>5. SleepMs(idle) \in 1 .. IdleCeiling /\ SleepMs(idle) <= untilBeat
  <2>1. CASE result.untilWake = None \/ DueNow
    <3>1. SleepMs(idle) = Least({ceiling, untilBeat})
      <4>1. {} \cup {ceiling, untilBeat} = {ceiling, untilBeat}
        OBVIOUS
      <4>2. QED
        BY <4>1, <2>1 DEF SleepMs, ceiling, untilBeat
    <3> DEFINE least == Least({ceiling, untilBeat})
    <3>2. least \in {ceiling, untilBeat} /\ least <= ceiling /\ least <= untilBeat
      BY <1>4, LeastOfTwo
    <3> HIDE DEF least
    <3>3. least \in 1 .. IdleCeiling /\ least <= untilBeat
      BY <3>2, <1>1, <1>3, ConstantsAreTimes DEF untilBeat
    <3>4. QED
      BY <3>1, <3>3 DEF least
  <2>2. CASE ~(result.untilWake = None \/ DueNow)
    <3> DEFINE wait == result.untilWake
    <3>1. wait \in Nat /\ wait > 0
      <4>1. result \in [look : Looks \cup {"none"}, backlog : BOOLEAN, untilWake : Waits \cup {None}]
        BY DEF TypeOK
      <4>2. result.untilWake \in Waits \cup {None}
        BY <4>1, Zenon
      <4>3. result.untilWake \in Waits
        BY <4>2, <2>2
      <4>4. result.untilWake \in Nat
        BY <4>3, ConstantsAreTimes
      <4>5. result.untilWake # 0
        BY <2>2 DEF DueNow
      <4>6. QED
        BY <4>4, <4>5
    <3>2. SleepMs(idle) = Least({wait, ceiling, untilBeat})
      <4>1. {wait} \cup {ceiling, untilBeat} = {wait, ceiling, untilBeat}
        OBVIOUS
      <4>2. QED
        BY <4>1, <2>2 DEF SleepMs, ceiling, untilBeat
    <3> HIDE DEF wait
    <3> DEFINE least == Least({wait, ceiling, untilBeat})
    <3>3. least \in {wait, ceiling, untilBeat} /\ least <= ceiling /\ least <= untilBeat
      <4>1. wait \in Int /\ ceiling \in Int /\ untilBeat \in Int
        BY <1>4, <3>1
      <4>2. QED
        BY <4>1, LeastOfThree
    <3> HIDE DEF least
    <3>4. least \in 1 .. IdleCeiling /\ least <= untilBeat
      BY <3>1, <3>3, <1>1, <1>3, ConstantsAreTimes DEF untilBeat
    <3>5. QED
      BY <3>2, <3>4 DEF least
  <2>3. QED
    BY <2>1, <2>2
<1>6. QED
  BY <1>2, <1>3, <1>5, ConstantsAreTimes DEF untilBeat

-----------------------------------------------------------------------------
(* Every step keeps the pace *)

BeatTypes == (0 .. CallTime) \cup {None, Hung}

LEMMA CountersAreBounded ==
  ASSUME TypeOK
  PROVE  /\ Least({hot + 1, HotBound}) \in 0 .. HotBound
         /\ Least({idleTicks + 1, IdleAfter}) \in 0 .. IdleAfter
<1>1. hot \in 0 .. HotBound /\ idleTicks \in 0 .. IdleAfter
  BY DEF TypeOK
<1>2. HotBound \in Nat /\ IdleAfter \in Nat
  BY ConstantsAreTimes DEF HotBound
<1>3. hot + 1 \in Int /\ idleTicks + 1 \in Int /\ hot + 1 > 0 /\ idleTicks + 1 > 0
  BY <1>1, <1>2
<1>4. Least({hot + 1, HotBound}) \in {hot + 1, HotBound} /\ Least({hot + 1, HotBound}) <= HotBound
  BY <1>2, <1>3, LeastOfTwo
<1>5. /\ Least({idleTicks + 1, IdleAfter}) \in {idleTicks + 1, IdleAfter}
      /\ Least({idleTicks + 1, IdleAfter}) <= IdleAfter
  BY <1>2, <1>3, LeastOfTwo
<1>6. QED
  BY <1>2, <1>3, <1>4, <1>5

\* What a pass of the loop may choose for what it decides itself.
Decided ==
  /\ running = TRUE /\ UNCHANGED <<running, result>>
  /\ wakeRequested' \in BOOLEAN /\ interrupted' \in BOOLEAN
  /\ idleTicks' \in 0 .. IdleAfter /\ beat' \in BeatTypes

\* A new tick: whatever it follows, the turns are counted.
LEMMA TickKeepsPace ==
  ASSUME PaceInv, Decided, TickStarts,
         NEW chained \in 0 .. (YieldAfter - 1), chainedTicks' = chained,
         sleepLeft' \in 0 .. IdleCeiling, plannedLeft' \in 0 .. IdleCeiling,
         pc \in {"parked", "flooring", "yielding"} \/ turnless <= chained
  PROVE  PaceInv'
<1>1. turnless \in Nat
  BY ConstantsAreTimes DEF PaceInv, TypeOK
<1>2. turnless' \in 0 .. (chained + 1)
  <2>1. turnless' = IF pc \in {"parked", "flooring", "yielding"} THEN 1 ELSE turnless + 1
    BY Zenon DEF TickStarts
  <2>2. chained \in Nat
    BY ConstantsAreTimes
  <2>3. CASE pc \in {"parked", "flooring", "yielding"}
    BY <2>1, <2>2, <2>3
  <2>4. CASE turnless <= chained
    BY <1>1, <2>1, <2>2, <2>4
  <2>5. QED
    BY <2>3, <2>4
<1>3. hot' \in 0 .. HotBound
  <2>1. hot' \in {0, Least({hot + 1, HotBound})}
    BY Zenon DEF TickStarts
  <2>2. Least({hot + 1, HotBound}) \in 0 .. HotBound
    BY CountersAreBounded DEF PaceInv
  <2>3. QED
    BY <2>1, <2>2 DEF HotBound
<1>4. TurnsAreCounted'
  <2>1. pc' = "claiming"
    BY DEF TickStarts
  <2>2. QED
    BY <1>2, <2>1, ConstantsAreTimes DEF TurnsAreCounted
<1>5. TypeOK'
  <2>1. /\ pc' = "claiming" /\ sinceTick' = 0 /\ pinged' = FALSE
        /\ UNCHANGED <<running, result, lastBeat, launch, beatLost>>
    BY Zenon DEF TickStarts, Decided
  <2>2. chained \in 0 .. YieldAfter /\ turnless' \in 0 .. (YieldAfter + 1)
    BY <1>2, ConstantsAreTimes
  <2>3. 0 \in 0 .. TickHorizon
    BY TickHorizonIsFar
  <2>4. QED
    BY <1>3, <2>1, <2>2, <2>3 DEF PaceInv, TypeOK, Decided, BeatTypes
<1>6. LooksAreRead' /\ PingsAreHeld' /\ SleepsAreBounded' /\ (pc \in {"new", "stopped"} => ~running)'
  <2>1. pc' = "claiming" /\ pinged' = FALSE /\ result' = result
    BY Zenon DEF TickStarts, Decided
  <2>2. LooksAreRead'
    BY <2>1 DEF PaceInv, LooksAreRead
  <2>3. PingsAreHeld' /\ SleepsAreBounded' /\ (pc \in {"new", "stopped"} => ~running)'
    BY <2>1 DEF PingsAreHeld, SleepsAreBounded
  <2>4. QED
    BY <2>2, <2>3
<1>7. QED
  BY <1>4, <1>5, <1>6 DEF PaceInv

\* A wait for the floor.
LEMMA LookForWakeKeepsPace ==
  ASSUME PaceInv, Decided, wakeRequested = TRUE,
         NEW planned \in 0 .. IdleCeiling, NEW chained \in 0 .. (YieldAfter - 1),
         pc \in {"parked", "flooring", "yielding"} \/ turnless <= chained,
         LookForWake(planned, chained)
  PROVE  PaceInv'
<1> DEFINE remaining == Least({WakeFloor - sinceTick, planned})
<1>1. sinceTick \in Nat /\ planned \in Nat
  BY TickHorizonIsFar, ConstantsAreTimes DEF PaceInv, TypeOK
<1>2. /\ remaining \in {WakeFloor - sinceTick, planned}
      /\ remaining <= WakeFloor - sinceTick /\ remaining <= planned
  <2>1. WakeFloor - sinceTick \in Int /\ planned \in Int
    BY <1>1, ConstantsAreTimes
  <2>2. QED
    BY <2>1, LeastOfTwo
<1>3. plannedLeft' = planned
  BY DEF LookForWake
<1>4. CASE /\ remaining > 0
           /\ pc' = "flooring" /\ sleepLeft' = remaining /\ chainedTicks' = 0
           /\ turnless' = 0
           /\ UNCHANGED <<wakeRequested, sinceTick, lastBeat, launch, pinged, beatLost, hot>>
  <2> HIDE DEF remaining
  <2>1. remaining \in 0 .. IdleCeiling
    BY <1>1, <1>2, <1>4, ConstantsAreTimes
  <2>2. TypeOK'
    BY <1>3, <1>4, <2>1, ConstantsAreTimes DEF PaceInv, TypeOK, Decided, BeatTypes
  <2>3. TurnsAreCounted'
    BY <1>4, ConstantsAreTimes DEF TurnsAreCounted
  <2>4. SleepsAreBounded'
    BY <1>1, <1>2, <1>3, <1>4, <2>1, ConstantsAreTimes DEF SleepsAreBounded
  <2>5. LooksAreRead' /\ PingsAreHeld' /\ (pc \in {"new", "stopped"} => ~running)'
    BY <1>4 DEF PaceInv, LooksAreRead, PingsAreHeld, Decided
  <2>6. QED
    BY <2>2, <2>3, <2>4, <2>5 DEF PaceInv
<1>5. CASE /\ remaining <= 0
           /\ wakeRequested' = FALSE /\ sleepLeft' = 0 /\ chainedTicks' = chained
           /\ TickStarts
  BY <1>3, <1>5, TickKeepsPace, ConstantsAreTimes
<1>6. QED
  BY <1>4, <1>5 DEF LookForWake

\* What the loop decides after its mandatory yield.
LEMMA DecideKeepsPace ==
  ASSUME PaceInv, Decided, pc \in {"answered", "yielding"},
         NEW idle \in 0 .. IdleAfter, NEW chained \in 0 .. (YieldAfter - 1),
         pc = "yielding" \/ turnless <= chained,
         Decide(idle, chained)
  PROVE  PaceInv'
<1>1. SleepMs(idle) \in 0 .. IdleCeiling
  BY SleepIsShort, ConstantsAreTimes DEF PaceInv
<1>2. CASE /\ LookAgain
           /\ TickStarts
           /\ chainedTicks' = chained
           /\ UNCHANGED <<wakeRequested, interrupted, sleepLeft, plannedLeft>>
  <2>1. sleepLeft' \in 0 .. IdleCeiling /\ plannedLeft' \in 0 .. IdleCeiling
    BY <1>2 DEF PaceInv, TypeOK
  <2>2. QED
    BY <1>2, <2>1, TickKeepsPace
<1>3. CASE /\ ~LookAgain /\ ~wakeRequested
           /\ pc' = "parked" /\ interrupted' = FALSE
           /\ sleepLeft' = SleepMs(idle) /\ plannedLeft' = SleepMs(idle)
           /\ chainedTicks' = 0 /\ turnless' = 0
           /\ UNCHANGED <<wakeRequested, sinceTick, lastBeat, launch, pinged, beatLost, hot>>
  <2>1. TypeOK'
    BY <1>1, <1>3, ConstantsAreTimes DEF PaceInv, TypeOK, Decided, BeatTypes
  <2>2. TurnsAreCounted' /\ SleepsAreBounded'
    BY <1>3, ConstantsAreTimes DEF TurnsAreCounted, SleepsAreBounded
  <2>3. LooksAreRead' /\ PingsAreHeld' /\ (pc \in {"new", "stopped"} => ~running)'
    BY <1>3 DEF PaceInv, LooksAreRead, PingsAreHeld, Decided
  <2>4. QED
    BY <2>1, <2>2, <2>3 DEF PaceInv
<1>4. CASE /\ ~LookAgain /\ wakeRequested
           /\ LookForWake(SleepMs(idle), chained)
           /\ UNCHANGED interrupted
  <2>1. wakeRequested = TRUE
    BY <1>4 DEF PaceInv, TypeOK
  <2>2. QED
    BY <1>1, <1>4, <2>1, LookForWakeKeepsPace
<1>5. QED
  BY <1>2, <1>3, <1>4 DEF Decide

\* The loop's own steps: the tick, and what follows it.
LEMMA TicksKeepPace ==
  ASSUME PaceInv, Claimed \/ LaunchSettles \/ LaunchEnds \/ NextWakeRead \/ TickFails
  PROVE  PaceInv'
<1> USE DEF PaceInv, TurnsAreCounted, PingsAreHeld, SleepsAreBounded, history, timers, control
<1>1. CASE Claimed
  <2>1. PICK look \in {"found", "empty"}, claimed \in BOOLEAN, backlog \in BOOLEAN :
          /\ result' = [look |-> look, backlog |-> backlog, untilWake |-> None]
          /\ pc' = IF claimed THEN "launching" ELSE "reading"
          /\ launch' = IF claimed THEN LaunchTimeout ELSE None
    BY <1>1 DEF Claimed
  <2>2. pc' \in {"launching", "reading"} /\ launch' \in (0 .. LaunchTimeout) \cup {None, Settled}
    BY <2>1, ConstantsAreTimes
  <2>3. /\ result' \in [look : Looks \cup {"none"}, backlog : BOOLEAN, untilWake : Waits \cup {None}]
        /\ LooksAreRead'
    BY <2>1 DEF LooksAreRead, Looks
  <2>4. QED
    BY <1>1, <2>2, <2>3 DEF Claimed, TypeOK
<1>2. CASE LaunchSettles
  BY <1>2 DEF LaunchSettles, TypeOK, LooksAreRead
<1>3. CASE LaunchEnds
  BY <1>3 DEF LaunchEnds, TypeOK, LooksAreRead
<1>4. CASE NextWakeRead
  <2>1. PICK wait \in Waits \cup {None} : result' = [result EXCEPT !.untilWake = wait]
    BY <1>4 DEF NextWakeRead
  <2>2. /\ result' \in [look : Looks \cup {"none"}, backlog : BOOLEAN, untilWake : Waits \cup {None}]
        /\ result'.look = result.look
    BY <2>1 DEF TypeOK
  <2>3. LooksAreRead'
    BY <1>4, <2>2 DEF NextWakeRead, LooksAreRead
  <2>4. QED
    BY <1>4, <2>2, <2>3 DEF NextWakeRead, TypeOK
<1>5. CASE TickFails
  <2>1. result' = [look |-> "failed", backlog |-> FALSE, untilWake |-> None]
    BY <1>5 DEF TickFails, NoResult
  <2>2. /\ result' \in [look : Looks \cup {"none"}, backlog : BOOLEAN, untilWake : Waits \cup {None}]
        /\ result'.look = "failed" /\ ~result'.backlog /\ result'.untilWake = None
    BY <2>1 DEF Looks
  <2>3. pc' = "answered"
    BY <1>5 DEF TickFails
  <2>4. LooksAreRead'
    BY <2>2, <2>3 DEF LooksAreRead
  <2>5. QED
    BY <1>5, <2>2, <2>3, <2>4 DEF TickFails, TypeOK
<1>6. QED
  BY <1>1, <1>2, <1>3, <1>4, <1>5

\* The loop is left.
LEMMA EndKeepsPace ==
  ASSUME PaceInv, Ends, ~running, UNCHANGED <<running, result, interrupted, idleTicks, chainedTicks>>,
         wakeRequested' \in BOOLEAN, beat' \in BeatTypes, UNCHANGED <<sleepLeft, plannedLeft>>
  PROVE  PaceInv'
  BY DEF PaceInv, TypeOK, Ends, BeatTypes, TurnsAreCounted, LooksAreRead, PingsAreHeld, SleepsAreBounded

LEMMA BeatRegistryIsTyped ==
  ASSUME TypeOK, BeatRegistry
  PROVE  beat' \in BeatTypes
  BY ConstantsAreTimes DEF TypeOK, BeatRegistry, BeatTypes

\* The loop's own steps: the beat, the counts, the yield, the park and the floor.
LEMMA PassesKeepPace ==
  ASSUME PaceInv, PassEnds \/ Yielded \/ ParkEnds \/ FloorEnds
  PROVE  PaceInv'
<1>0. /\ running \in BOOLEAN /\ wakeRequested \in BOOLEAN /\ interrupted \in BOOLEAN
      /\ idleTicks \in 0 .. IdleAfter /\ beat \in BeatTypes
      /\ chainedTicks \in 0 .. (YieldAfter - 1) /\ turnless \in Nat
      /\ turnless <= chainedTicks + 1
      /\ sleepLeft \in 0 .. IdleCeiling /\ plannedLeft \in 0 .. IdleCeiling
  BY ConstantsAreTimes DEF PaceInv, TypeOK, TurnsAreCounted, BeatTypes
<1>1. CASE PassEnds
  <2>1. beat' \in BeatTypes
    BY <1>1, BeatRegistryIsTyped DEF PassEnds, PaceInv
  <2>2. CASE ~running
    BY <1>0, <1>1, <2>1, <2>2, EndKeepsPace DEF PassEnds
  <2>3. CASE running
    <3>1. idleTicks' \in 0 .. IdleAfter
      <4>1. idleTicks' \in {0, Least({idleTicks + 1, IdleAfter})}
        BY <1>1, <2>3, Zenon DEF PassEnds
      <4>2. Least({idleTicks + 1, IdleAfter}) \in 0 .. IdleAfter
        BY CountersAreBounded DEF PaceInv
      <4>3. QED
        BY <4>1, <4>2, ConstantsAreTimes
    <3>2. CASE YieldIsDue(chainedTicks + 1)
      <4>1. /\ pc' = "yielding" /\ chainedTicks' = 0 /\ turnless' = 0
            /\ UNCHANGED <<running, result, wakeRequested, interrupted, sinceTick, sleepLeft, lastBeat,
                           launch, pinged, plannedLeft, beatLost, hot>>
        BY <1>1, <2>3, <3>2 DEF PassEnds
      <4>2. TypeOK' /\ TurnsAreCounted'
        BY <4>1, <3>1, <2>1, ConstantsAreTimes DEF PaceInv, TypeOK, TurnsAreCounted, BeatTypes
      <4>3. LooksAreRead' /\ PingsAreHeld' /\ SleepsAreBounded'
            /\ (pc \in {"new", "stopped"} => ~running)'
        BY <4>1 DEF PaceInv, LooksAreRead, PingsAreHeld, SleepsAreBounded
      <4>4. QED
        BY <4>2, <4>3 DEF PaceInv
    <3>3. CASE ~YieldIsDue(chainedTicks + 1)
      <4>1. pc = "answered" /\ UNCHANGED <<running, result>> /\ Decide(idleTicks', chainedTicks + 1)
        BY <1>1, <2>3, <3>3 DEF PassEnds
      <4>2. chainedTicks + 1 \in 0 .. (YieldAfter - 1)
        BY <1>0, <3>3, ConstantsAreTimes DEF YieldIsDue
      <4>3. wakeRequested' \in BOOLEAN /\ interrupted' \in BOOLEAN
        BY <1>0, <4>1 DEF Decide, LookForWake
      <4>4. Decided
        BY <1>0, <2>1, <2>3, <3>1, <4>1, <4>3 DEF Decided
      <4>5. QED
        BY <1>0, <3>1, <4>1, <4>2, <4>4, DecideKeepsPace
    <3>4. QED
      BY <3>2, <3>3
  <2>4. QED
    BY <2>2, <2>3
<1>2. CASE Yielded
  <2>1. CASE ~running
    BY <1>0, <1>2, <2>1, EndKeepsPace DEF Yielded
  <2>2. CASE running
    <3>1. pc = "yielding" /\ UNCHANGED <<running, result, idleTicks, beat>> /\ Decide(idleTicks, 0)
      BY <1>2, <2>2 DEF Yielded
    <3>2. wakeRequested' \in BOOLEAN /\ interrupted' \in BOOLEAN
      BY <1>0, <3>1 DEF Decide, LookForWake
    <3>3. Decided
      BY <1>0, <2>2, <3>1, <3>2 DEF Decided
    <3>4. 0 \in 0 .. (YieldAfter - 1)
      BY ConstantsAreTimes
    <3>5. QED
      BY <1>0, <3>1, <3>3, <3>4, DecideKeepsPace
  <2>3. QED
    BY <2>1, <2>2
<1>3. CASE ParkEnds
  <2>1. pc = "parked" /\ UNCHANGED <<running, result, idleTicks, beat, interrupted>>
    BY <1>3 DEF ParkEnds
  <2>2. CASE running /\ wakeRequested
    <3>1. LookForWake(plannedLeft, chainedTicks)
      BY <1>3, <2>2 DEF ParkEnds
    <3>2. wakeRequested' \in BOOLEAN
      BY <1>0, <3>1 DEF LookForWake
    <3>3. Decided /\ wakeRequested = TRUE
      BY <1>0, <2>1, <2>2, <3>2 DEF Decided
    <3>4. QED
      BY <1>0, <2>1, <3>1, <3>3, LookForWakeKeepsPace
  <2>3. CASE running /\ ~wakeRequested
    <3>1. TickStarts /\ UNCHANGED <<wakeRequested, chainedTicks, sleepLeft, plannedLeft>>
      BY <1>3, <2>3 DEF ParkEnds
    <3>2. Decided
      BY <1>0, <2>1, <2>3, <3>1 DEF Decided
    <3>3. QED
      BY <1>0, <2>1, <3>1, <3>2, TickKeepsPace
  <2>4. CASE ~running
    BY <1>0, <1>3, <2>1, <2>4, EndKeepsPace DEF ParkEnds
  <2>5. QED
    BY <2>2, <2>3, <2>4
<1>4. CASE FloorEnds
  <2>1. /\ pc = "flooring" /\ wakeRequested' = FALSE
        /\ UNCHANGED <<running, result, interrupted, idleTicks, chainedTicks, sleepLeft, beat, plannedLeft>>
    BY <1>4 DEF FloorEnds
  <2>2. CASE running
    <3>1. TickStarts
      BY <1>4, <2>2 DEF FloorEnds
    <3>2. Decided
      BY <1>0, <2>1, <2>2 DEF Decided
    <3>3. QED
      BY <1>0, <2>1, <3>1, <3>2, TickKeepsPace
  <2>3. CASE ~running
    BY <1>0, <1>4, <2>1, <2>3, EndKeepsPace DEF FloorEnds
  <2>4. QED
    BY <2>2, <2>3
<1>5. QED
  BY <1>1, <1>2, <1>3, <1>4

\* What happens beside the loop, and time.
LEMMA WorldKeepsPace ==
  ASSUME PaceInv, Run \/ Wake \/ Stop \/ BeatConfirmed \/ BeatLost
  PROVE  PaceInv'
<1> USE DEF PaceInv, TurnsAreCounted, PingsAreHeld, SleepsAreBounded, LooksAreRead,
            history, timers, control
<1>1. CASE Run
  <2>1. /\ pc = "new" /\ running' = TRUE /\ pc' = "claiming" /\ sinceTick' = 0 /\ pinged' = FALSE
        /\ turnless' = turnless + 1
        /\ UNCHANGED <<result, wakeRequested, interrupted, idleTicks, chainedTicks, sleepLeft,
                       beat, plannedLeft, lastBeat, launch, beatLost>>
    BY <1>1 DEF Run, TickStarts
  <2>2. hot' \in {0, Least({hot + 1, HotBound})}
    BY <1>1, Zenon DEF Run, TickStarts
  <2>3. hot' \in 0 .. HotBound
    BY <2>2, CountersAreBounded DEF HotBound
  <2>4. turnless = 0 /\ turnless' = 1
    BY <2>1
  <2>5. TypeOK'
    <3>1. 0 \in 0 .. TickHorizon /\ 1 \in 0 .. (YieldAfter + 1)
      BY TickHorizonIsFar, ConstantsAreTimes
    <3>2. TypeOK
      OBVIOUS
    <3>3. QED
      BY <2>1, <2>3, <2>4, <3>1, <3>2 DEF TypeOK
  <2>6. TurnsAreCounted'
    BY <2>1, <2>4, ConstantsAreTimes DEF TypeOK
  <2>7. LooksAreRead' /\ PingsAreHeld' /\ SleepsAreBounded' /\ (pc \in {"new", "stopped"} => ~running)'
    BY <2>1
  <2>8. QED
    BY <2>5, <2>6, <2>7
<1>2. CASE Wake
  BY <1>2 DEF Wake, TypeOK
<1>3. CASE Stop
  <2>1. /\ running' \in BOOLEAN /\ ~running' /\ interrupted' \in BOOLEAN
        /\ UNCHANGED <<pc, result, wakeRequested, idleTicks, chainedTicks, timers, history>>
    BY <1>3 DEF Stop, TypeOK
  <2>2. TypeOK'
    BY <2>1 DEF TypeOK
  <2>3. TurnsAreCounted' /\ LooksAreRead' /\ SleepsAreBounded'
    BY <2>1
  <2>4. PingsAreHeld' /\ (pc \in {"new", "stopped"} => ~running)'
    BY <2>1
  <2>5. QED
    BY <2>2, <2>3, <2>4
<1>4. CASE BeatConfirmed
  BY <1>4, ConstantsAreTimes DEF BeatConfirmed, TypeOK, BeatHorizon
<1>5. CASE BeatLost
  BY <1>5 DEF BeatLost, TypeOK
<1>6. QED
  BY <1>1, <1>2, <1>3, <1>4, <1>5

LEMMA TimeKeepsPace ==
  ASSUME PaceInv, Elapse
  PROVE  PaceInv'
<1>1. /\ sinceTick \in 0 .. TickHorizon /\ sleepLeft \in 0 .. IdleCeiling /\ plannedLeft \in 0 .. IdleCeiling
      /\ lastBeat \in (0 .. BeatHorizon) \cup {None} /\ beat \in (0 .. CallTime) \cup {None, Hung}
      /\ launch \in (0 .. LaunchTimeout) \cup {None, Settled}
  BY DEF PaceInv, TypeOK
<1>2. sinceTick' \in 0 .. TickHorizon /\ sinceTick' <= sinceTick + 1
  <2>1. sinceTick' = Least({sinceTick + 1, TickHorizon})
    BY DEF Elapse
  <2>2. sinceTick + 1 \in Int /\ TickHorizon \in Int
    BY <1>1, TickHorizonIsFar
  <2> DEFINE least == Least({sinceTick + 1, TickHorizon})
  <2>3. least \in {sinceTick + 1, TickHorizon} /\ least <= sinceTick + 1 /\ least <= TickHorizon
    BY <2>2, LeastOfTwo
  <2> HIDE DEF least
  <2>4. least \in 0 .. TickHorizon /\ least <= sinceTick + 1
    BY <1>1, <2>3, TickHorizonIsFar
  <2>5. QED
    BY <2>1, <2>4 DEF least
<1>3. lastBeat' \in (0 .. BeatHorizon) \cup {None}
  <2>1. BeatHorizon \in Nat
    BY ConstantsAreTimes DEF BeatHorizon
  <2>2. CASE lastBeat = None
    BY <2>2 DEF Elapse
  <2>3. CASE lastBeat # None
    <3>1. lastBeat' = Least({lastBeat + 1, BeatHorizon})
      BY <2>3 DEF Elapse
    <3>2. lastBeat + 1 \in Int /\ BeatHorizon \in Int /\ lastBeat \in Nat
      BY <1>1, <2>1, <2>3
    <3>3. QED
      BY <2>1, <3>1, <3>2, LeastOfTwo
  <2>4. QED
    BY <2>2, <2>3
<1>4. beat' \in (0 .. CallTime) \cup {None, Hung}
  BY <1>1, ConstantsAreTimes DEF Elapse
<1>5. launch' \in (0 .. LaunchTimeout) \cup {None, Settled}
  BY <1>1, ConstantsAreTimes DEF Elapse
<1>6. sleepLeft' \in 0 .. IdleCeiling /\ plannedLeft' \in 0 .. IdleCeiling
  BY <1>1, ConstantsAreTimes DEF Elapse, CountDown
<1>7. UNCHANGED <<control, pinged, turnless, beatLost, hot>>
  BY DEF Elapse
<1>8. TypeOK'
  BY <1>2, <1>3, <1>4, <1>5, <1>6, <1>7 DEF PaceInv, TypeOK, control
<1>9. SleepsAreBounded'
  <2>1. pc' = pc
    BY <1>7 DEF control
  <2>2. CASE pc = "parked"
    <3>1. sleepLeft = plannedLeft
      BY <2>2 DEF PaceInv, SleepsAreBounded
    <3>2. sleepLeft' = plannedLeft'
      BY <3>1, <2>2 DEF Elapse
    <3>3. QED
      BY <2>1, <2>2, <3>2 DEF SleepsAreBounded
  <2>3. CASE pc = "flooring"
    <3>1. /\ sleepLeft <= plannedLeft /\ sleepLeft + sinceTick <= WakeFloor
          /\ sleepLeft = plannedLeft \/ sleepLeft + sinceTick = WakeFloor
          /\ sleepLeft > 0
      BY <2>3 DEF PaceInv, SleepsAreBounded, Elapse, Waiting
    <3>2. sleepLeft' = sleepLeft - 1 /\ plannedLeft' = plannedLeft - 1
      BY <1>1, <2>3, <3>1, ConstantsAreTimes DEF Elapse, CountDown
    <3>3. sinceTick' = sinceTick + 1
      <4>1. sinceTick' = Least({sinceTick + 1, TickHorizon})
        BY DEF Elapse
      <4>2. sinceTick + 1 \in Int /\ TickHorizon \in Int /\ sinceTick + 1 <= TickHorizon
        BY <1>1, <3>1, TickHorizonIsFar, ConstantsAreTimes
      <4>3. /\ Least({sinceTick + 1, TickHorizon}) \in {sinceTick + 1, TickHorizon}
            /\ Least({sinceTick + 1, TickHorizon}) <= sinceTick + 1
        BY <4>2, LeastOfTwo
      <4>4. QED
        BY <4>1, <4>2, <4>3
    <3>4. QED
      BY <1>1, <2>1, <2>3, <3>1, <3>2, <3>3, ConstantsAreTimes DEF SleepsAreBounded
  <2>4. CASE pc \notin {"parked", "flooring"}
    BY <2>1, <2>4 DEF SleepsAreBounded
  <2>5. QED
    BY <2>2, <2>3, <2>4
<1>10. TurnsAreCounted' /\ LooksAreRead' /\ PingsAreHeld' /\ (pc \in {"new", "stopped"} => ~running)'
  BY <1>7 DEF PaceInv, TurnsAreCounted, LooksAreRead, PingsAreHeld, control
<1>11. QED
  BY <1>8, <1>9, <1>10 DEF PaceInv

\* The invariant of the loop, which the theorems below rest on.
THEOREM LoopKeepsPace == Spec => []PaceInv
<1>1. Init => PaceInv
  <2>1. SUFFICES ASSUME Init PROVE PaceInv
    OBVIOUS
  <2>2. /\ NoResult \in [look : Looks \cup {"none"}, backlog : BOOLEAN, untilWake : Waits \cup {None}]
        /\ ~NoResult.backlog /\ NoResult.untilWake = None
    BY DEF NoResult, Looks
  <2>3. TypeOK
    <3>1. /\ 0 \in 0 .. IdleAfter /\ 0 \in 0 .. YieldAfter /\ TickHorizon \in 0 .. TickHorizon
          /\ 0 \in 0 .. IdleCeiling /\ 0 \in 0 .. (YieldAfter + 1) /\ 0 \in 0 .. HotBound
      BY TickHorizonIsFar, ConstantsAreTimes DEF HotBound
    <3>2. QED
      BY <2>1, <2>2, <3>1 DEF Init, TypeOK
  <2>4. TurnsAreCounted /\ LooksAreRead /\ PingsAreHeld /\ SleepsAreBounded
    BY <2>1, <2>2, ConstantsAreTimes
       DEF Init, TurnsAreCounted, LooksAreRead, PingsAreHeld, SleepsAreBounded
  <2>5. QED
    BY <2>1, <2>3, <2>4 DEF Init, PaceInv
<1>2. PaceInv /\ [Next]_vars => PaceInv'
  <2>1. SUFFICES ASSUME PaceInv, [Next]_vars PROVE PaceInv'
    OBVIOUS
  <2>2. CASE Next
    BY <2>1, <2>2, TicksKeepPace, PassesKeepPace, WorldKeepsPace, TimeKeepsPace DEF Next, LoopStep
  <2>3. CASE UNCHANGED vars
    BY <2>1, <2>3 DEF vars, control, timers, history, PaceInv, TypeOK, TurnsAreCounted,
                      LooksAreRead, PingsAreHeld, SleepsAreBounded
  <2>4. QED
    BY <2>1, <2>2, <2>3
<1>3. QED
  BY <1>1, <1>2, PTL DEF Spec

\* The event loop gets its turn: the code's counter is the number of ticks without one.
THEOREM TurnsGiven == Spec => []TurnsAreGiven
<1>1. PaceInv => TurnsAreGiven
  BY ConstantsAreTimes DEF PaceInv, TypeOK, TurnsAreCounted, TurnsAreGiven
<1>2. QED
  BY <1>1, LoopKeepsPace, PTL

\* No ping is slept through, wherever in a pass of the loop it comes.
THEOREM WakesArePrompt == Spec => []WakeIsPrompt
<1>1. PaceInv => WakeIsPrompt
  BY DEF PaceInv, PingsAreHeld, SleepsAreBounded, WakeIsPrompt
<1>2. QED
  BY <1>1, LoopKeepsPace, PTL

-----------------------------------------------------------------------------
(* The loop does not spin *)

\* What a look must have waited for, unless there is more to do at once.
MoreToDo == result.backlog \/ (result.look = "found" /\ DueNow)
IsPaced ==
  \/ pc \in {"parked", "flooring"} /\ plannedLeft = 0
  \/ wakeRequested /\ sinceTick >= WakeFloor

LEMMA WokenLookIsPaced ==
  ASSUME PaceInv, NEW planned \in 0 .. IdleCeiling, NEW chained,
         LookForWake(planned, chained), pc' = "claiming"
  PROVE  sinceTick >= WakeFloor \/ planned = 0
<1> DEFINE remaining == Least({WakeFloor - sinceTick, planned})
<1>1. WakeFloor - sinceTick \in Int /\ planned \in Nat /\ sinceTick \in Nat
  BY TickHorizonIsFar, ConstantsAreTimes DEF PaceInv, TypeOK
<1>2. remaining \in {WakeFloor - sinceTick, planned}
  <2>1. WakeFloor - sinceTick \in Int /\ planned \in Int
    BY <1>1
  <2>2. QED
    BY <2>1, LeastOfTwo
<1>3. remaining <= 0
  BY DEF LookForWake
<1> HIDE DEF remaining
<1>4. QED
  BY <1>1, <1>2, <1>3, ConstantsAreTimes

LEMMA DecideIsPaced ==
  ASSUME PaceInv, pc \in {"answered", "yielding"}, NEW idle \in 0 .. IdleAfter, NEW chained,
         Decide(idle, chained), pc' = "claiming", ~MoreToDo
  PROVE  IsPaced
<1>1. ~LookAgain
  <2>1. result.look \in {"found", "empty"} \/ ~DueNow
    BY DEF PaceInv, LooksAreRead, DueNow, None
  <2>2. QED
    BY <2>1 DEF LookAgain, MoreToDo
<1>2. wakeRequested /\ LookForWake(SleepMs(idle), chained)
  BY <1>1 DEF Decide
<1>3. SleepMs(idle) \in 1 .. IdleCeiling
  BY SleepIsShort DEF PaceInv
<1>4. SleepMs(idle) \in 0 .. IdleCeiling /\ SleepMs(idle) # 0
  BY <1>3, ConstantsAreTimes
<1>5. sinceTick >= WakeFloor
  BY <1>2, <1>4, WokenLookIsPaced
<1>6. QED
  BY <1>2, <1>5 DEF IsPaced

\* A step that starts a tick either has more to do, or waited.
LEMMA StepIsPaced ==
  ASSUME PaceInv, Next, NewTick, pc # "new", ~MoreToDo
  PROVE  IsPaced
<1>0. /\ idleTicks \in 0 .. IdleAfter /\ chainedTicks \in 0 .. YieldAfter
      /\ plannedLeft \in 0 .. IdleCeiling /\ sleepLeft \in 0 .. IdleCeiling
      /\ sinceTick \in Nat
  BY TickHorizonIsFar, ConstantsAreTimes DEF PaceInv, TypeOK
<1>1. CASE PassEnds
  <2>1. pc = "answered" /\ Decide(idleTicks', chainedTicks + 1)
    BY <1>1 DEF PassEnds, NewTick, Ends
  <2>2. idleTicks' \in 0 .. IdleAfter
    BY <1>1, PassesKeepPace DEF PaceInv, TypeOK
  <2>3. QED
    BY <2>1, <2>2, DecideIsPaced DEF NewTick
<1>2. CASE Yielded
  <2>1. pc = "yielding" /\ Decide(idleTicks, 0)
    BY <1>2 DEF Yielded, NewTick, Ends
  <2>2. QED
    BY <1>0, <2>1, DecideIsPaced DEF NewTick
<1>3. CASE ParkEnds
  <2>1. pc = "parked" /\ running /\ (interrupted \/ sleepLeft = 0)
    BY <1>3 DEF ParkEnds, NewTick, Ends
  <2>2. CASE wakeRequested
    <3>1. LookForWake(plannedLeft, chainedTicks)
      BY <1>3, <2>1, <2>2 DEF ParkEnds
    <3>2. sinceTick >= WakeFloor \/ plannedLeft = 0
      BY <1>0, <3>1, WokenLookIsPaced DEF NewTick
    <3>3. QED
      BY <2>1, <2>2, <3>2 DEF IsPaced
  <2>3. CASE ~wakeRequested
    <3>1. sleepLeft = 0
      BY <2>1, <2>3 DEF PaceInv, PingsAreHeld
    <3>2. QED
      BY <2>1, <3>1 DEF PaceInv, SleepsAreBounded, IsPaced
  <2>4. QED
    BY <2>2, <2>3
<1>4. CASE FloorEnds
  <2>1. pc = "flooring" /\ running /\ sleepLeft = 0
    BY <1>4 DEF FloorEnds, NewTick, Ends
  <2>2. wakeRequested /\ (sleepLeft = plannedLeft \/ sleepLeft + sinceTick = WakeFloor)
    BY <2>1 DEF PaceInv, PingsAreHeld, SleepsAreBounded
  <2>3. QED
    BY <1>0, <2>1, <2>2, ConstantsAreTimes DEF IsPaced
<1>5. CASE Run \/ Claimed \/ LaunchEnds \/ NextWakeRead \/ TickFails
  BY <1>5 DEF Run, Claimed, LaunchEnds, NextWakeRead, TickFails, NewTick
<1>6. CASE LaunchSettles \/ Wake \/ Stop \/ BeatConfirmed \/ BeatLost \/ Elapse
  BY <1>6 DEF LaunchSettles, Wake, Stop, BeatConfirmed, BeatLost, Elapse, NewTick, control
<1>7. QED
  BY <1>1, <1>2, <1>3, <1>4, <1>5, <1>6 DEF Next, LoopStep

\* However pings, due wakes and failures come, the loop does not spin.
THEOREM LooksPaced == Spec => LooksArePaced
<1>1. PaceInv /\ [Next]_vars
      => [ NewTick /\ pc # "new" /\ ~(result.backlog \/ (result.look = "found" /\ DueNow))
           => \/ pc \in {"parked", "flooring"} /\ plannedLeft = 0
              \/ wakeRequested /\ sinceTick >= WakeFloor ]_vars
  BY StepIsPaced DEF MoreToDo, IsPaced
<1>2. QED
  BY <1>1, LoopKeepsPace, PTL DEF Spec, LooksArePaced

-----------------------------------------------------------------------------
(* The registry row *)

LEMMA BeatsAreTimes ==
  ASSUME PaceInv
  PROVE  /\ lastBeat \in Nat \/ lastBeat = None
         /\ beat \in Nat \/ beat \in {None, Hung}
         /\ sleepLeft \in Nat /\ plannedLeft \in Nat /\ sinceTick \in Nat
         /\ launch \in Nat \/ launch \in {None, Settled}
         /\ BeatDue \in Nat /\ TickTime \in Nat
  BY TickHorizonIsFar, ConstantsAreTimes DEF PaceInv, TypeOK, BeatHorizon, BeatDue, TickTime

\* The beats when a tick starts, and when the loop sleeps for `planned`.
ReadyToTick(flight) ==
  /\ flight = Hung => beatLost
  /\ ~beatLost => IF flight = None THEN lastBeat <= BeatDue
                  ELSE lastBeat <= BeatDue + TickTime + flight

ReadyToSleep(flight, planned) ==
  /\ flight = Hung => beatLost
  /\ ~beatLost => IF flight = None THEN lastBeat # None /\ lastBeat + planned <= BeatDue
                  ELSE lastBeat <= BeatDue + TickTime + flight /\ flight + planned <= BeatDue

LEMMA TickKeepsBeats ==
  ASSUME PaceInv, TickStarts, NEW flight \in BeatTypes, beat' = flight, ReadyToTick(flight)
  PROVE  BeatInv'
<1>1. pc' = "claiming" /\ sinceTick' = 0 /\ UNCHANGED <<lastBeat, launch, beatLost>>
  BY Zenon DEF TickStarts
<1>2. CASE beatLost
  BY <1>1, <1>2 DEF BeatInv
<1>3. CASE ~beatLost /\ flight = None
  <2>1. lastBeat <= BeatDue
    BY <1>3 DEF ReadyToTick
  <2>2. TickIsShort'
    BY <1>1, <2>1, BeatsAreTimes, ConstantsAreTimes DEF TickIsShort, BeatDue, TickTime, None
  <2>3. QED
    BY <1>1, <1>3, <2>2 DEF BeatInv, RestIsShort, None, Hung
<1>4. CASE ~beatLost /\ flight # None
  BY <1>1, <1>4, BeatsAreTimes DEF ReadyToTick, BeatInv, FlightIsShort, BeatDue, TickTime
<1>5. QED
  BY <1>2, <1>3, <1>4 DEF PaceInv, TypeOK

LEMMA SleepKeepsBeats ==
  ASSUME PaceInv, NEW flight \in BeatTypes, beat' = flight, UNCHANGED <<lastBeat, beatLost>>,
         NEW planned \in Nat, NEW slept \in Nat, slept <= planned,
         pc' \in {"parked", "flooring"}, sleepLeft' = slept, ReadyToSleep(flight, planned)
  PROVE  BeatInv'
<1>1. CASE beatLost
  BY <1>1 DEF BeatInv
<1>2. CASE ~beatLost /\ flight = None
  <2>1. lastBeat \in Nat /\ lastBeat # None /\ lastBeat + slept <= BeatDue
    BY <1>2, BeatsAreTimes DEF ReadyToSleep
  <2>2. RestIsShort'
    BY <2>1, BeatsAreTimes DEF RestIsShort, BeatDue, Ticking
  <2>3. QED
    BY <1>2, <2>2 DEF BeatInv, None, Hung
<1>3. CASE ~beatLost /\ flight # None
  <2>1. flight \in Nat /\ flight # Hung
    BY <1>3, ConstantsAreTimes DEF ReadyToSleep, BeatTypes
  <2>2. lastBeat <= BeatDue + TickTime + flight /\ flight + slept <= BeatDue
    BY <1>3, <2>1, BeatsAreTimes DEF ReadyToSleep
  <2>3. FlightIsShort'
    BY <2>2, <2>1 DEF FlightIsShort, BeatDue, TickTime
  <2>4. QED
    BY <1>3, <2>1, <2>3 DEF BeatInv
<1>4. QED
  BY <1>1, <1>2, <1>3 DEF PaceInv, TypeOK

LEMMA LookForWakeKeepsBeats ==
  ASSUME PaceInv, NEW flight \in BeatTypes, beat' = flight, NEW planned \in 0 .. IdleCeiling,
         NEW chained, LookForWake(planned, chained), ReadyToSleep(flight, planned)
  PROVE  BeatInv'
<1> DEFINE remaining == Least({WakeFloor - sinceTick, planned})
<1>1. WakeFloor - sinceTick \in Int /\ planned \in Int /\ planned \in Nat
  BY BeatsAreTimes, ConstantsAreTimes
<1>2. remaining \in {WakeFloor - sinceTick, planned} /\ remaining <= planned
  BY <1>1, LeastOfTwo
<1>3. CASE TickStarts
  <2>1. ReadyToTick(flight)
    BY <1>1, BeatsAreTimes, ConstantsAreTimes DEF ReadyToSleep, ReadyToTick
  <2>2. QED
    BY <1>3, <2>1, TickKeepsBeats
<1>4. CASE remaining > 0 /\ pc' = "flooring" /\ sleepLeft' = remaining /\ UNCHANGED <<lastBeat, beatLost>>
  <2> HIDE DEF remaining
  <2>1. remaining \in Nat
    BY <1>1, <1>2, <1>4
  <2>2. QED
    BY <1>1, <1>2, <1>4, <2>1, SleepKeepsBeats
<1>5. QED
  BY <1>3, <1>4 DEF LookForWake

LEMMA DecideKeepsBeats ==
  ASSUME PaceInv, pc \in {"answered", "yielding"}, NEW flight \in BeatTypes, beat' = flight,
         NEW idle \in 0 .. IdleAfter, NEW chained, Decide(idle, chained),
         flight = Hung => beatLost,
         ~beatLost => IF flight = None THEN lastBeat # None /\ lastBeat < RegistryInterval
                      ELSE lastBeat <= BeatDue + TickTime + flight
  PROVE  BeatInv'
<1> DEFINE planned == SleepMs(idle)
<1>1. /\ planned \in Nat /\ planned \in 0 .. IdleCeiling /\ planned <= RegistryInterval
      /\ lastBeat # None /\ lastBeat < RegistryInterval => lastBeat + planned <= RegistryInterval
  BY SleepIsShort, ConstantsAreTimes DEF PaceInv
<1> HIDE DEF planned
<1>2. flight \in {None, Hung} \/ (flight \in Nat /\ flight <= CallTime)
  BY ConstantsAreTimes DEF BeatTypes
<1>3. ReadyToSleep(flight, planned)
  BY <1>1, <1>2, BeatsAreTimes, ConstantsAreTimes DEF ReadyToSleep, BeatDue
<1>4. ReadyToTick(flight)
  BY <1>3, <1>1, BeatsAreTimes, ConstantsAreTimes DEF ReadyToSleep, ReadyToTick
<1>5. CASE TickStarts
  BY <1>4, <1>5, TickKeepsBeats
<1>6. CASE pc' = "parked" /\ sleepLeft' = planned /\ UNCHANGED <<lastBeat, beatLost>>
  BY <1>1, <1>3, <1>6, SleepKeepsBeats
<1>7. CASE LookForWake(planned, chained)
  BY <1>1, <1>3, <1>7, LookForWakeKeepsBeats
<1>8. QED
  BY <1>5, <1>6, <1>7 DEF Decide, planned

\* The registry is beaten as a pass ends, where the last beat is due.
LEMMA BeatRegistryIsPrompt ==
  ASSUME PaceInv, BeatInv, BeatRegistry, running, pc = "answered"
  PROVE  /\ beat' \in BeatTypes
         /\ beat' = Hung => beatLost
         /\ ~beatLost => IF beat' = None THEN lastBeat # None /\ lastBeat < RegistryInterval
                         ELSE lastBeat <= BeatDue + TickTime + beat'
<1>1. beat \in BeatTypes /\ (lastBeat \in Nat \/ lastBeat = None)
  BY BeatsAreTimes DEF PaceInv, TypeOK, BeatTypes
<1>2. CASE BeatStarts
  <2>1. beat = None /\ beat' = 0
    BY <1>2 DEF BeatStarts, BeatRegistry
  <2>2. ~beatLost => lastBeat <= BeatDue + TickTime
    BY <2>1 DEF BeatInv, RestIsShort, TickIsShort, Ticking
  <2>3. 0 # None /\ 0 # Hung /\ 0 \in BeatTypes
    BY ConstantsAreTimes DEF None, Hung, BeatTypes
  <2>4. BeatDue + TickTime + 0 = BeatDue + TickTime
    BY BeatsAreTimes
  <2>5. QED
    BY <2>1, <2>2, <2>3, <2>4
<1>3. CASE ~BeatStarts
  <2>1. beat' = beat
    BY <1>3 DEF BeatRegistry
  <2>2. beat = None => lastBeat # None /\ lastBeat < RegistryInterval
    BY <1>1, <1>3, ConstantsAreTimes DEF BeatStarts
  <2>3. ~beatLost /\ beat # None => lastBeat <= BeatDue + TickTime + beat
    BY DEF BeatInv, FlightIsShort
  <2>4. QED
    BY <1>1, <2>1, <2>2, <2>3 DEF BeatInv
<1>4. QED
  BY <1>2, <1>3

LEMMA PassesKeepBeats ==
  ASSUME PaceInv, BeatInv, PassEnds \/ Yielded \/ ParkEnds \/ FloorEnds
  PROVE  BeatInv'
<1>0. /\ idleTicks \in 0 .. IdleAfter /\ beat \in BeatTypes /\ plannedLeft \in 0 .. IdleCeiling
      /\ running \in BOOLEAN
  BY DEF PaceInv, TypeOK, BeatTypes
<1>1. CASE PassEnds
  <2>1. CASE running
    <3>1. pc = "answered" /\ BeatRegistry
      BY <1>1 DEF PassEnds
    <3>2. PICK flight \in BeatTypes :
            /\ beat' = flight
            /\ flight = Hung => beatLost
            /\ ~beatLost => IF flight = None THEN lastBeat # None /\ lastBeat < RegistryInterval
                            ELSE lastBeat <= BeatDue + TickTime + flight
      BY <2>1, <3>1, BeatRegistryIsPrompt
    <3>3. CASE YieldIsDue(chainedTicks + 1)
      <4>1. pc' = "yielding" /\ UNCHANGED <<running, lastBeat, beatLost>>
        BY <1>1, <2>1, <3>3 DEF PassEnds
      <4>2. QED
        BY <3>2, <4>1 DEF BeatInv, RestIsShort, FlightIsShort, Ticking, BeatDue, TickTime
    <3>4. CASE ~YieldIsDue(chainedTicks + 1)
      <4>1. Decide(idleTicks', chainedTicks + 1)
        BY <1>1, <2>1, <3>4 DEF PassEnds
      <4>2. idleTicks' \in 0 .. IdleAfter
        BY <1>1, PassesKeepPace DEF PaceInv, TypeOK
      <4>3. QED
        BY <3>1, <3>2, <4>1, <4>2, DecideKeepsBeats
    <3>5. QED
      BY <3>3, <3>4
  <2>2. CASE ~running
    <3>1. ~running' /\ beatLost' = beatLost /\ pc' = "stopped"
      BY <1>1, <2>2 DEF PassEnds, Ends
    <3>2. beat' = Hung => beatLost
      BY <1>1 DEF PassEnds, BeatRegistry, BeatInv, Hung
    <3>3. QED
      BY <3>1, <3>2 DEF BeatInv
  <2>3. QED
    BY <2>1, <2>2
<1>2. CASE ~running /\ (Yielded \/ ParkEnds \/ FloorEnds)
  BY <1>2 DEF Yielded, ParkEnds, FloorEnds, Ends, BeatInv
<1>3. CASE running /\ Yielded
  <2>1. pc = "yielding" /\ beat' = beat /\ Decide(idleTicks, 0)
    BY <1>3 DEF Yielded
  <2>2. /\ beat = Hung => beatLost
        /\ ~beatLost => IF beat = None THEN lastBeat # None /\ lastBeat < RegistryInterval
                        ELSE lastBeat <= BeatDue + TickTime + beat
    BY <1>3, <2>1 DEF BeatInv, RestIsShort, FlightIsShort
  <2>3. QED
    BY <1>0, <2>1, <2>2, DecideKeepsBeats
<1>4. CASE running /\ (ParkEnds \/ FloorEnds)
  <2>1. pc \in {"parked", "flooring"} /\ beat' = beat
    BY <1>4 DEF ParkEnds, FloorEnds
  <2>2. ReadyToSleep(beat, sleepLeft)
    BY <1>4, <2>1 DEF BeatInv, RestIsShort, FlightIsShort, ReadyToSleep
  <2>3. CASE TickStarts
    <3>1. ReadyToTick(beat)
      BY <2>2, BeatsAreTimes DEF ReadyToSleep, ReadyToTick
    <3>2. QED
      BY <1>0, <2>1, <2>3, <3>1, TickKeepsBeats
  <2>4. CASE pc = "parked" /\ LookForWake(plannedLeft, chainedTicks)
    <3>1. sleepLeft = plannedLeft
      BY <2>4 DEF PaceInv, SleepsAreBounded
    <3>2. ReadyToSleep(beat, plannedLeft)
      BY <2>2, <3>1
    <3>3. QED
      BY <1>0, <2>1, <2>4, <3>2, LookForWakeKeepsBeats
  <2>5. QED
    BY <1>4, <2>3, <2>4 DEF ParkEnds, FloorEnds
<1>5. QED
  BY <1>0, <1>1, <1>2, <1>3, <1>4

\* The tick's own steps take no time.
LEMMA TicksKeepBeats ==
  ASSUME PaceInv, BeatInv, Claimed \/ LaunchSettles \/ LaunchEnds \/ NextWakeRead \/ TickFails
  PROVE  BeatInv'
<1>1. /\ pc \in Ticking /\ pc' \in Ticking \ {"claiming"}
      /\ UNCHANGED <<running, beat, lastBeat, beatLost, sinceTick>>
      /\ pc' = "launching" => launch' < 0 \/ (pc = "claiming" /\ launch' = LaunchTimeout)
  BY ConstantsAreTimes
     DEF Claimed, LaunchSettles, LaunchEnds, NextWakeRead, TickFails, Ticking, Settled,
         control, timers, history
<1>2. TickIsShort => TickIsShort'
  <2>1. SUFFICES ASSUME TickIsShort PROVE TickIsShort'
    OBVIOUS
  <2>2. UNCHANGED <<lastBeat, sinceTick>> /\ pc' # "claiming"
    BY <1>1
  <2>3. lastBeat' <= BeatDue + TickTime /\ (sinceTick' < CallTime => lastBeat' <= BeatDue + sinceTick')
    BY <2>1, <2>2 DEF TickIsShort
  <2>4. CASE pc' # "launching" \/ launch' < 0
    <3>1. ~(pc' = "launching" /\ launch' >= 0)
      <4>1. launch' < 0 => ~(launch' >= 0)
        <5>1. launch' \in Nat \/ launch' \in {None, Settled}
          <6>1. TypeOK'
            BY TicksKeepPace DEF PaceInv
          <6>2. QED
            BY <6>1, ConstantsAreTimes DEF TypeOK
        <5>2. QED
          BY <5>1 DEF None, Settled
      <4>2. QED
        BY <2>4, <4>1
    <3>2. QED
      BY <2>2, <2>3, <3>1 DEF TickIsShort, BeatDue, TickTime
  <2>5. CASE pc = "claiming" /\ launch' = LaunchTimeout
    <3>1. lastBeat <= BeatDue + CallTime
      BY <2>1, <2>5 DEF TickIsShort
    <3>2. lastBeat + LaunchTimeout <= BeatDue + TickTime
      BY <3>1, BeatsAreTimes, ConstantsAreTimes DEF TickTime, None
    <3>3. QED
      BY <2>2, <2>3, <2>5, <3>2 DEF TickIsShort, BeatDue, TickTime
  <2>6. QED
    BY <1>1, <2>4, <2>5
<1>3. QED
  BY <1>1, <1>2 DEF BeatInv, RestIsShort, FlightIsShort, Ticking, BeatDue, TickTime

\* A beat that is confirmed counts from when it was sent.
LEMMA WorldKeepsBeats ==
  ASSUME PaceInv, BeatInv, Run \/ Wake \/ Stop \/ BeatConfirmed \/ BeatLost
  PROVE  BeatInv'
<1>1. CASE Run
  <2>1. pc = "new" /\ beat = None /\ lastBeat = None /\ TickStarts /\ beat' = None
    BY <1>1 DEF Run, BeatInv
  <2>2. ReadyToTick(None) /\ None \in BeatTypes
    BY <2>1, BeatsAreTimes DEF ReadyToTick, None, Hung, BeatTypes
  <2>3. QED
    BY <2>1, <2>2, TickKeepsBeats
<1>2. CASE Wake \/ Stop
  <2>1. /\ UNCHANGED <<pc, sinceTick, sleepLeft, lastBeat, beat, launch, beatLost>>
        /\ running' => running
    BY <1>2 DEF Wake, Stop, timers, history
  <2>2. QED
    BY <2>1 DEF BeatInv, RestIsShort, FlightIsShort, TickIsShort
<1>3. CASE BeatConfirmed
  <2>1. /\ beat \in Nat /\ beat <= CallTime /\ lastBeat' = beat /\ beat' = None
        /\ UNCHANGED <<pc, running, sinceTick, sleepLeft, launch, beatLost>>
    BY <1>3, ConstantsAreTimes DEF BeatConfirmed, control, history
  <2>2. beat # None /\ None # Hung
    BY <2>1 DEF None, Hung
  <2>3. running /\ ~beatLost => FlightIsShort
    BY <2>2 DEF BeatInv
  <2>4. TickIsShort'
    <3>1. (launch \in Nat /\ launch <= LaunchTimeout) \/ launch \in {None, Settled}
      BY ConstantsAreTimes DEF PaceInv, TypeOK
    <3>2. /\ beat <= BeatDue + TickTime /\ beat <= BeatDue + CallTime
          /\ beat <= BeatDue + sinceTick
      BY <2>1, BeatsAreTimes, ConstantsAreTimes DEF BeatDue, TickTime
    <3>3. launch >= 0 => beat + launch <= BeatDue + TickTime
      BY <2>1, <3>1, ConstantsAreTimes DEF BeatDue, TickTime, None, Settled
    <3>4. QED
      BY <2>1, <3>2, <3>3 DEF TickIsShort, BeatDue, TickTime
  <2>5. FlightIsShort => RestIsShort'
    BY <2>1, <2>2, <2>4, ConstantsAreTimes DEF RestIsShort, FlightIsShort, BeatDue, TickTime, Ticking
  <2>6. QED
    BY <2>1, <2>2, <2>3, <2>5 DEF BeatInv
<1>4. CASE BeatLost
  <2>1. /\ beat \in 0 .. CallTime /\ beat' \in {None, Hung} /\ beatLost'
        /\ UNCHANGED pc
    BY <1>4, Zenon DEF BeatLost, control
  <2>2. beat # None
    BY <2>1, ConstantsAreTimes DEF None
  <2>3. QED
    BY <2>1, <2>2 DEF BeatInv
<1>5. QED
  BY <1>1, <1>2, <1>3, <1>4

\* What one unit of time makes of the ages and of what is left.
LEMMA TimePasses ==
  ASSUME PaceInv, Elapse
  PROVE  /\ pc \in {"claiming", "launching", "reading", "parked", "flooring"}
         /\ UNCHANGED <<pc, running, beatLost>>
         /\ \E last \in Nat \cup {None} :
              lastBeat' = last /\ last <= lastBeat + 1 /\ (lastBeat # None => last # None)
         /\ \E since \in Nat :
              /\ sinceTick' = since /\ since >= sinceTick
              /\ since < CallTime => since = sinceTick + 1
<1>1. BeatHorizon \in Nat /\ None = -1
  BY ConstantsAreTimes DEF BeatHorizon, None
<1>2. pc \in {"claiming", "launching", "reading", "parked", "flooring"}
  BY DEF Elapse, Waiting
<1>3. UNCHANGED <<pc, running, beatLost>>
  BY DEF Elapse, control
<1>4. \E last \in Nat \cup {None} :
        lastBeat' = last /\ last <= lastBeat + 1 /\ (lastBeat # None => last # None)
  <2>1. CASE lastBeat = None
    <3>1. lastBeat' = None
      BY <2>1 DEF Elapse
    <3>2. QED
      BY <1>1, <2>1, <3>1
  <2>2. CASE lastBeat # None
    <3>1. lastBeat' = Least({lastBeat + 1, BeatHorizon})
      BY <2>2 DEF Elapse
    <3>2. lastBeat \in Nat
      BY <2>2, BeatsAreTimes
    <3>3. lastBeat + 1 \in Int /\ BeatHorizon \in Int
      BY <1>1, <3>2
    <3> DEFINE last == Least({lastBeat + 1, BeatHorizon})
    <3>4. last \in {lastBeat + 1, BeatHorizon} /\ last <= lastBeat + 1
      BY <3>3, LeastOfTwo
    <3> HIDE DEF last
    <3>5. last \in Nat /\ last # None
      BY <1>1, <3>2, <3>4
    <3>6. QED
      BY <3>1, <3>4, <3>5 DEF last
  <2>3. QED
    BY <2>1, <2>2
<1>5. \E since \in Nat :
        /\ sinceTick' = since /\ since >= sinceTick
        /\ since < CallTime => since = sinceTick + 1
  <2>1. sinceTick' = Least({sinceTick + 1, TickHorizon})
    BY DEF Elapse
  <2>2. sinceTick \in Nat /\ sinceTick <= TickHorizon
    BY TickHorizonIsFar DEF PaceInv, TypeOK
  <2>3. sinceTick + 1 \in Int /\ TickHorizon \in Int
    BY <2>2, TickHorizonIsFar
  <2> DEFINE since == Least({sinceTick + 1, TickHorizon})
  <2>4. since \in {sinceTick + 1, TickHorizon}
    BY <2>3, LeastOfTwo
  <2> HIDE DEF since
  <2>5. since \in Nat /\ since >= sinceTick /\ (since < CallTime => since = sinceTick + 1)
    BY <2>2, <2>4, TickHorizonIsFar, ConstantsAreTimes
  <2>6. QED
    BY <2>1, <2>5 DEF since
<1>6. QED
  BY <1>2, <1>3, <1>4, <1>5

\* Time passes: each timer ages by no more than what its deadline loses.
LEMMA TimeKeepsBeats ==
  ASSUME PaceInv, BeatInv, Elapse
  PROVE  BeatInv'
<1>1. /\ pc \in {"claiming", "launching", "reading", "parked", "flooring"}
      /\ UNCHANGED <<pc, running, beatLost>>
  BY TimePasses
<1>2. PICK last \in Nat \cup {None} :
        lastBeat' = last /\ last <= lastBeat + 1 /\ (lastBeat # None => last # None)
  BY TimePasses
<1>3. PICK since \in Nat :
        /\ sinceTick' = since /\ since >= sinceTick
        /\ since < CallTime => since = sinceTick + 1
  BY TimePasses
<1>4. pc \in {"parked", "flooring"} => sleepLeft > 0 /\ sleepLeft' = sleepLeft - 1
  BY BeatsAreTimes DEF Elapse, Waiting, CountDown
<1>5. CASE ~(running /\ ~beatLost) \/ beat = Hung
  <2>1. beat' = Hung => beat = Hung
    <3>1. beat \in 0 .. CallTime => beat \in Nat /\ beat' = beat + 1
      BY ConstantsAreTimes DEF Elapse
    <3>2. beat \notin 0 .. CallTime => beat' = beat
      BY DEF Elapse
    <3>3. QED
      BY <3>1, <3>2 DEF Hung
  <2>2. QED
    BY <1>1, <1>5, <2>1 DEF BeatInv
<1>6. CASE running /\ ~beatLost /\ beat = None
  <2>1. beat' = None /\ RestIsShort
    BY <1>6, ConstantsAreTimes DEF Elapse, BeatInv, None
  <2>2. CASE pc \in {"parked", "flooring"}
    <3>1. lastBeat \in Nat /\ sleepLeft \in Nat /\ BeatDue \in Nat
      BY <2>1, <2>2, BeatsAreTimes DEF RestIsShort
    <3>2. last + (sleepLeft - 1) <= BeatDue /\ last # None
      BY <1>2, <1>4, <2>1, <2>2, <3>1 DEF RestIsShort, None
    <3>3. RestIsShort'
      BY <1>1, <1>2, <1>4, <2>2, <3>2 DEF RestIsShort, Ticking, BeatDue
    <3>4. QED
      BY <1>1, <2>1, <2>2, <3>3 DEF BeatInv, None, Hung
  <2>3. CASE pc \in {"claiming", "reading"}
    <3>1. sinceTick < CallTime /\ TickIsShort
      BY <2>1, <2>3 DEF Elapse, Waiting, RestIsShort, Ticking
    <3>2. lastBeat <= BeatDue + sinceTick
      BY <3>1 DEF TickIsShort
    <3>3. lastBeat \in Nat \/ lastBeat = -1
      BY BeatsAreTimes DEF None
    <3>4. last <= BeatDue + sinceTick + 1 /\ last \in Int
      BY <1>2, <3>2, <3>3, BeatsAreTimes DEF None
    <3>5. /\ last <= BeatDue + TickTime /\ last <= BeatDue + CallTime
          /\ since < CallTime => last <= BeatDue + since
      BY <1>3, <3>1, <3>4, BeatsAreTimes, ConstantsAreTimes DEF TickTime
    <3>6. TickIsShort'
      BY <1>1, <1>2, <1>3, <2>3, <3>5 DEF TickIsShort, BeatDue, TickTime
    <3>7. QED
      BY <1>1, <2>1, <2>3, <3>6 DEF BeatInv, RestIsShort, None, Hung
  <2>4. CASE pc = "launching"
    <3>1. launch \in 1 .. LaunchTimeout /\ TickIsShort
      BY <2>1, <2>4 DEF Elapse, Waiting, RestIsShort, Ticking
    <3>2. launch \in Nat /\ launch >= 1 /\ launch' = launch - 1
      BY <3>1, ConstantsAreTimes DEF Elapse
    <3>3. lastBeat + launch <= BeatDue + TickTime
      BY <2>4, <3>1, <3>2 DEF TickIsShort
    <3>4. lastBeat \in Nat \/ lastBeat = -1
      BY BeatsAreTimes DEF None
    <3>5. last + (launch - 1) <= BeatDue + TickTime /\ last <= BeatDue + TickTime
      BY <1>2, <3>2, <3>3, <3>4, BeatsAreTimes DEF None
    <3>6. since < CallTime => last <= BeatDue + since
      BY <1>2, <1>3, <3>1, <3>4, BeatsAreTimes, ConstantsAreTimes DEF TickIsShort, None
    <3>7. TickIsShort'
      BY <1>1, <1>2, <1>3, <2>4, <3>2, <3>5, <3>6 DEF TickIsShort, BeatDue, TickTime
    <3>8. QED
      BY <1>1, <2>1, <2>4, <3>7 DEF BeatInv, RestIsShort, None, Hung
  <2>5. QED
    BY <1>1, <2>2, <2>3, <2>4
<1>7. CASE running /\ ~beatLost /\ beat \in 0 .. CallTime
  <2>1. beat \in Nat /\ beat # None
    BY <1>7, ConstantsAreTimes DEF None
  <2>2. beat' = beat + 1 /\ FlightIsShort
    BY <1>7, <2>1 DEF Elapse, BeatInv
  <2>3. PICK flight \in Nat : flight = beat + 1
    BY <2>1
  <2>4. beat' = flight /\ flight # None /\ flight # Hung
    BY <2>2, <2>3 DEF None, Hung
  <2>5. last <= BeatDue + TickTime + flight
    <3>1. lastBeat \in Nat \/ lastBeat = -1
      BY BeatsAreTimes DEF None
    <3>2. QED
      BY <1>2, <2>1, <2>2, <2>3, <3>1, BeatsAreTimes DEF FlightIsShort, None
  <2>6. pc \in {"parked", "flooring"} => flight + (sleepLeft - 1) <= BeatDue
    BY <2>1, <2>2, <2>3, BeatsAreTimes DEF FlightIsShort
  <2>7. FlightIsShort'
    BY <1>1, <1>2, <1>4, <2>4, <2>5, <2>6 DEF FlightIsShort, BeatDue, TickTime
  <2>8. QED
    BY <1>1, <2>4, <2>7 DEF BeatInv
<1>8. QED
  BY <1>5, <1>6, <1>7 DEF PaceInv, TypeOK

\* The row of a driver that runs, and whose beats are answered, never outlives its ttl of two
\* intervals: whatever the loop parks for, and while the longest tick is under way.
THEOREM RegistryStaysFresh == Spec => []LoopInv
<1>1. Init => BeatInv
  BY DEF Init, BeatInv, None, Hung
<1>2. PaceInv /\ BeatInv /\ [Next]_vars => BeatInv'
  <2>1. SUFFICES ASSUME PaceInv, BeatInv, [Next]_vars PROVE BeatInv'
    OBVIOUS
  <2>2. CASE Next
    BY <2>1, <2>2, TicksKeepBeats, PassesKeepBeats, WorldKeepsBeats, TimeKeepsBeats
       DEF Next, LoopStep
  <2>3. CASE UNCHANGED vars
    BY <2>1, <2>3 DEF vars, control, timers, history, BeatInv, RestIsShort, TickIsShort, FlightIsShort
  <2>4. QED
    BY <2>1, <2>2, <2>3
<1>3. PaceInv /\ BeatInv => LoopInv
  <2>1. SUFFICES ASSUME PaceInv, BeatInv, running, ~beatLost, lastBeat # None
                 PROVE  lastBeat < 2 * RegistryInterval
    BY DEF LoopInv, RegistryRowStaysFresh, PaceInv
  <2>2. pc \in Ticking \cup {"yielding", "parked", "flooring"}
    BY <2>1 DEF PaceInv, TypeOK, Ticking
  <2>3. CASE beat = None
    BY <2>1, <2>2, <2>3, BeatsAreTimes, ConstantsAreTimes
       DEF BeatInv, RestIsShort, TickIsShort, BeatDue, TickTime
  <2>4. CASE beat # None
    <3>1. beat \in Nat /\ beat <= CallTime
      BY <2>1, <2>4, ConstantsAreTimes DEF BeatInv, PaceInv, TypeOK
    <3>2. QED
      BY <2>1, <2>4, <3>1, BeatsAreTimes, ConstantsAreTimes
         DEF BeatInv, FlightIsShort, BeatDue, TickTime
  <2>5. QED
    BY <2>3, <2>4
<1>4. QED
  BY <1>1, <1>2, <1>3, LoopKeepsPace, PTL DEF Spec

=============================================================================
