----------------------------- MODULE DriverLoop -----------------------------
(***************************************************************************)
(* The resident driver (driver/src/loop.ts): the loop that ticks, decides  *)
(* how long to park, is woken by pings, beats its registry row and stops.  *)
(* A tick is three awaits (the sweep and claim, the launch, the read of    *)
(* the next wake), each of which may fail; what it finds is up to the      *)
(* store and is chosen freely.  Time is counted in units of the shortest   *)
(* park (1 ms): every timer of the module is a countdown or an age.        *)
(***************************************************************************)
EXTENDS Integers

CONSTANTS
  BusyCeiling, IdleCeiling,  \* the two poll ceilings (loop.ts:125-126)
  WakeFloor,                 \* least time from a tick's start to the look a ping asks for
  IdleAfter,                 \* empty ticks before the idle ceiling applies
  YieldAfter,                \* sleepless ticks before a mandatory turn (32 in the code)
  RegistryInterval,          \* the cadence of the registry beat; its ttl is twice that
  LaunchTimeout,             \* the deadline of one launch
  CallTime,                  \* bound: what the store calls of one tick, or of one beat, may take
  Waits                      \* how far away the next wake may be by the local clock; 0 is due

ASSUME LoopAssumption ==
  /\ {BusyCeiling, IdleCeiling, WakeFloor, IdleAfter, YieldAfter, RegistryInterval,
      LaunchTimeout, CallTime} \subseteq Nat \ {0}
  /\ BusyCeiling <= IdleCeiling
  /\ Waits \subseteq Nat

\* A driver that keeps its row fresh spends less on calls than on waiting.
ASSUME CadenceAssumption == 3 * CallTime + LaunchTimeout < RegistryInterval

None == -1      \* no time: none is known, none is running
Hung == -2      \* a beat that never settles
Settled == -2   \* a launch that was answered

VARIABLES
  pc,            \* where run() is: every value is an await, or "answered" (the tick has settled)
  running,       \* this.running
  result,        \* what the tick answered: look, backlog, untilWake
  wakeRequested, \* this.wakeRequested
  interrupted,   \* the signal of the current park has fired
  idleTicks,     \* this.idleTicks, counted up to IdleAfter
  chainedTicks,  \* this.chainedTicks
  sinceTick,     \* age of the last tick's start, counted up to TickHorizon
  sleepLeft,     \* what the current sleep has left
  lastBeat,      \* age of the last confirmed beat's start, counted up to BeatHorizon
  beat,          \* the beat in flight: its age, Hung, or None
  launch,        \* the launch of this tick: what its deadline has left, Settled, or None
  \* History: what the properties are about and the code does not keep.
  pinged,        \* a ping has come since the last tick started
  plannedLeft,   \* time to the look the current park planned
  turnless,      \* ticks since the event loop last had a turn
  beatLost,      \* some beat failed or hung
  hot            \* failed looks in a row, each less than the busy ceiling after the one before

control == <<pc, running, result, wakeRequested, interrupted, idleTicks, chainedTicks>>
timers == <<sinceTick, sleepLeft, lastBeat, beat, launch>>
history == <<pinged, plannedLeft, turnless, beatLost, hot>>
vars == <<control, timers, history>>

HotBound == 3   \* bound: `hot` is counted up to here
Least(S) == CHOOSE x \in S : \A y \in S : x <= y
Most(S) == CHOOSE x \in S : \A y \in S : x >= y
TickHorizon == Most({WakeFloor, BusyCeiling, CallTime})  \* bound: ages past these are all alike
BeatHorizon == 2 * RegistryInterval

Looks == {"found", "empty", "failed"}
NoResult == [look |-> "none", backlog |-> FALSE, untilWake |-> None]

TypeOK ==
  /\ pc \in {"new", "claiming", "launching", "reading", "answered", "yielding",
             "parked", "flooring", "stopped"}
  /\ running \in BOOLEAN /\ wakeRequested \in BOOLEAN /\ interrupted \in BOOLEAN
  /\ pinged \in BOOLEAN /\ beatLost \in BOOLEAN
  /\ result \in [look : Looks \cup {"none"}, backlog : BOOLEAN, untilWake : Waits \cup {None}]
  /\ idleTicks \in 0..IdleAfter
  /\ chainedTicks \in 0..YieldAfter
  /\ sinceTick \in 0..TickHorizon
  /\ sleepLeft \in 0..IdleCeiling /\ plannedLeft \in 0..IdleCeiling
  /\ lastBeat \in (0..BeatHorizon) \cup {None}
  /\ beat \in (0..CallTime) \cup {None, Hung}
  /\ launch \in (0..LaunchTimeout) \cup {None, Settled}
  /\ turnless \in 0..(YieldAfter + 1)
  /\ hot \in 0..HotBound

Init ==
  /\ pc = "new" /\ running = FALSE /\ result = NoResult
  /\ wakeRequested = FALSE /\ interrupted = FALSE
  /\ idleTicks = 0 /\ chainedTicks = 0
  /\ sinceTick = TickHorizon /\ sleepLeft = 0 /\ lastBeat = None /\ beat = None /\ launch = None
  /\ pinged = FALSE /\ plannedLeft = 0 /\ turnless = 0 /\ beatLost = FALSE /\ hot = 0

-----------------------------------------------------------------------------
(* One pass of run().  A pass starts with a tick (line 188) ...            *)

TickStarts ==
  /\ pc' = "claiming"
  /\ sinceTick' = 0
  /\ pinged' = FALSE
  /\ turnless' = IF pc \in {"parked", "flooring", "yielding"} THEN 1 ELSE turnless + 1
  /\ hot' = IF result.look # "failed" \/ sinceTick >= BusyCeiling \/ pinged THEN 0
            ELSE Least({hot + 1, HotBound})
  /\ UNCHANGED <<lastBeat, launch, beatLost>>

\* The loop is left: `running` is false where the code looks at it.
Ends ==
  /\ pc' = "stopped"
  /\ UNCHANGED <<sinceTick, lastBeat, launch, pinged, turnless, beatLost, hot>>

Run ==
  /\ pc = "new"
  /\ running' = TRUE
  /\ TickStarts
  /\ UNCHANGED <<result, wakeRequested, interrupted, idleTicks, chainedTicks,
                 sleepLeft, beat, plannedLeft>>

\* The sweep and the claim answer: something was swept or claimed, or nothing.  A run that
\* was claimed is launched; a full budget is a backlog.
Claimed ==
  /\ pc = "claiming"
  /\ \E look \in {"found", "empty"}, claimed, backlog \in BOOLEAN :
       /\ look = "empty" => ~claimed /\ ~backlog
       /\ result' = [look |-> look, backlog |-> backlog, untilWake |-> None]
       /\ pc' = IF claimed THEN "launching" ELSE "reading"
       /\ launch' = IF claimed THEN LaunchTimeout ELSE None
  /\ UNCHANGED <<running, wakeRequested, interrupted, idleTicks, chainedTicks,
                 sinceTick, sleepLeft, lastBeat, beat, history>>

\* The transport answers a launch inside its deadline (it may also never answer).
LaunchSettles ==
  /\ pc = "launching" /\ launch # Settled
  /\ launch' = Settled
  /\ UNCHANGED <<control, sinceTick, sleepLeft, lastBeat, beat, history>>

\* withLaunchTimeout: the race is over when the launch answered or its deadline has passed.
LaunchOver == launch \in {Settled, 0}

\* The launch is reconciled; a failed one with a store call.
LaunchEnds ==
  /\ pc = "launching" /\ LaunchOver
  /\ pc' = "reading"
  /\ launch' = None
  /\ UNCHANGED <<running, result, wakeRequested, interrupted, idleTicks, chainedTicks,
                 sinceTick, sleepLeft, lastBeat, beat, history>>

\* The read of the next wake answers, and with it the tick.
NextWakeRead ==
  /\ pc = "reading"
  /\ \E wait \in Waits \cup {None} : result' = [result EXCEPT !.untilWake = wait]
  /\ pc' = "answered"
  /\ UNCHANGED <<running, wakeRequested, interrupted, idleTicks, chainedTicks, timers, history>>

\* A store call of the tick throws: the catch of line 199.
TickFails ==
  /\ pc \in {"claiming", "launching", "reading"}
  /\ pc = "launching" => LaunchOver
  /\ result' = [NoResult EXCEPT !.look = "failed"]
  /\ pc' = "answered"
  /\ launch' = None
  /\ UNCHANGED <<running, wakeRequested, interrupted, idleTicks, chainedTicks,
                 sinceTick, sleepLeft, lastBeat, beat, history>>

-----------------------------------------------------------------------------
(* ... and ends with what the loop makes of the tick's answer.             *)

\* beatRegistry: at most one beat is in flight, and a confirmed one holds for the interval.
BeatStarts == beat = None /\ (lastBeat # None => lastBeat >= RegistryInterval)
FaultyBeatRegistry ==  \* seeded bug: the next beat waits for the one in flight
  beat = None /\ beat' = IF BeatStarts THEN 0 ELSE beat
BeatRegistry == beat' = IF BeatStarts THEN 0 ELSE beat

MsUntilBeatDue ==
  IF lastBeat = None THEN RegistryInterval
  ELSE IF RegistryInterval - lastBeat > 1 THEN RegistryInterval - lastBeat ELSE 1

DueNow == result.untilWake = 0
FaultyLookAgain == result.backlog \/ DueNow  \* seeded bug: an empty look with a due wake looks again
LookAgain == result.backlog \/ (DueNow /\ result.look # "empty")

FaultySleepMs(idle) ==  \* seeded bug: the park ignores the registry beat
  LET ceiling == IF result.look = "failed" \/ idle >= IdleAfter THEN IdleCeiling ELSE BusyCeiling
      untilWake == IF result.untilWake = None \/ DueNow THEN {} ELSE {result.untilWake}
  IN  Least(untilWake \cup {ceiling})

SleepMs(idle) ==
  LET ceiling == IF result.look = "failed" \/ idle >= IdleAfter THEN IdleCeiling ELSE BusyCeiling
      untilWake == IF result.untilWake = None \/ DueNow THEN {} ELSE {result.untilWake}
  IN  Least(untilWake \cup {ceiling, MsUntilBeatDue})

\* A wake looks again, no sooner than the floor and no later than the planned look (249-266).
LookForWake(planned, chained) ==
  LET remaining == Least({WakeFloor - sinceTick, planned})
  IN  /\ plannedLeft' = planned
      /\ \/ /\ remaining > 0
            /\ pc' = "flooring" /\ sleepLeft' = remaining /\ chainedTicks' = 0
            /\ turnless' = 0
            /\ UNCHANGED <<wakeRequested, sinceTick, lastBeat, launch, pinged, beatLost, hot>>
         \/ /\ remaining <= 0
            /\ wakeRequested' = FALSE /\ sleepLeft' = 0 /\ chainedTicks' = chained
            /\ TickStarts

\* The rest of a pass after its mandatory yield (lines 220-266), without an await in between.
Decide(idle, chained) ==
  \/ /\ LookAgain
     /\ TickStarts
     /\ chainedTicks' = chained
     /\ UNCHANGED <<wakeRequested, interrupted, sleepLeft, plannedLeft>>
  \/ /\ ~LookAgain /\ ~wakeRequested
     /\ pc' = "parked" /\ interrupted' = FALSE
     /\ sleepLeft' = SleepMs(idle) /\ plannedLeft' = SleepMs(idle)
     /\ chainedTicks' = 0 /\ turnless' = 0
     /\ UNCHANGED <<wakeRequested, sinceTick, lastBeat, launch, pinged, beatLost, hot>>
  \/ /\ ~LookAgain /\ wakeRequested
     /\ LookForWake(SleepMs(idle), chained)
     /\ UNCHANGED interrupted

FaultyYieldIsDue(chained) == chained > YieldAfter  \* seeded bug: one tick late
YieldIsDue(chained) == chained >= YieldAfter

\* The tick has settled: beat, count, yield when the chain is long, decide.
PassEnds ==
  /\ pc = "answered"
  /\ BeatRegistry
  /\ UNCHANGED <<running, result>>
  /\ \/ /\ ~running
        /\ Ends
        /\ UNCHANGED <<wakeRequested, interrupted, idleTicks, chainedTicks, sleepLeft, plannedLeft>>
     \/ /\ running
        /\ idleTicks' = IF result.look = "empty" THEN Least({idleTicks + 1, IdleAfter}) ELSE 0
        /\ \/ /\ YieldIsDue(chainedTicks + 1)
              /\ pc' = "yielding" /\ chainedTicks' = 0 /\ turnless' = 0
              /\ UNCHANGED <<wakeRequested, interrupted, sinceTick, sleepLeft, lastBeat, launch,
                             pinged, plannedLeft, beatLost, hot>>
           \/ /\ ~YieldIsDue(chainedTicks + 1)
              /\ Decide(idleTicks', chainedTicks + 1)

Yielded ==
  /\ pc = "yielding"
  /\ UNCHANGED <<running, result, idleTicks, beat>>
  /\ \/ /\ ~running
        /\ Ends
        /\ UNCHANGED <<wakeRequested, interrupted, chainedTicks, sleepLeft, plannedLeft>>
     \/ /\ running
        /\ Decide(idleTicks, 0)

\* The park is over: its timer fired, a wake or a stop interrupted it.
ParkEnds ==
  /\ pc = "parked" /\ (interrupted \/ sleepLeft = 0)
  /\ UNCHANGED <<running, result, idleTicks, beat, interrupted>>
  /\ \/ /\ running /\ wakeRequested
        /\ LookForWake(plannedLeft, chainedTicks)
     \/ /\ running /\ ~wakeRequested
        /\ TickStarts
        /\ UNCHANGED <<wakeRequested, chainedTicks, sleepLeft, plannedLeft>>
     \/ /\ ~running
        /\ wakeRequested' = FALSE
        /\ Ends
        /\ UNCHANGED <<chainedTicks, sleepLeft, plannedLeft>>

\* The wait for the floor is over: only its timer or a stop ends it.
FloorEnds ==
  /\ pc = "flooring" /\ (sleepLeft = 0 \/ ~running)
  /\ wakeRequested' = FALSE
  /\ (IF running THEN TickStarts ELSE Ends)
  /\ UNCHANGED <<running, result, interrupted, idleTicks, chainedTicks, sleepLeft, beat, plannedLeft>>

-----------------------------------------------------------------------------
(* What happens beside the loop.                                           *)

FaultyWake ==  \* seeded bug: a ping does not end the park
  /\ pc \notin {"new", "stopped"}
  /\ wakeRequested' = TRUE /\ pinged' = TRUE
  /\ UNCHANGED <<pc, running, result, interrupted, idleTicks, chainedTicks, timers,
                 plannedLeft, turnless, beatLost, hot>>

\* wake(): the ping of an enqueue or an emit.
Wake ==
  /\ pc \notin {"new", "stopped"}
  /\ wakeRequested' = TRUE
  /\ interrupted' = (interrupted \/ pc = "parked")
  /\ pinged' = TRUE
  /\ UNCHANGED <<pc, running, result, idleTicks, chainedTicks, timers,
                 plannedLeft, turnless, beatLost, hot>>

\* stop(): the caller awaits the end of run().
Stop ==
  /\ pc \notin {"new", "stopped"} /\ running
  /\ running' = FALSE
  /\ interrupted' = (interrupted \/ pc = "parked")
  /\ UNCHANGED <<pc, result, wakeRequested, idleTicks, chainedTicks, timers, history>>

\* The beat in flight is confirmed: it counts from the moment it was sent.
BeatConfirmed ==
  /\ beat \in 0..CallTime
  /\ lastBeat' = beat /\ beat' = None
  /\ UNCHANGED <<control, sinceTick, sleepLeft, launch, history>>

\* The beat fails, or its call never settles.
BeatLost ==
  /\ beat \in 0..CallTime
  /\ beat' \in {None, Hung}
  /\ beatLost' = TRUE
  /\ UNCHANGED <<control, sinceTick, sleepLeft, lastBeat, launch, pinged, plannedLeft, turnless, hot>>

Waiting ==
  \/ pc \in {"claiming", "reading"} /\ sinceTick < CallTime
  \/ pc = "launching" /\ launch \in 1..LaunchTimeout
  \/ pc = "parked" /\ sleepLeft > 0 /\ ~interrupted
  \/ pc = "flooring" /\ sleepLeft > 0 /\ running

CountDown(n) == IF n > 0 THEN n - 1 ELSE 0

\* Elapsed time passes where the loop awaits something that takes time.
Elapse ==
  /\ Waiting
  /\ beat \in 0..CallTime => beat < CallTime
  /\ sinceTick' = Least({sinceTick + 1, TickHorizon})
  /\ lastBeat' = IF lastBeat = None THEN None ELSE Least({lastBeat + 1, BeatHorizon})
  /\ beat' = IF beat \in 0..CallTime THEN beat + 1 ELSE beat
  /\ sleepLeft' = IF pc \in {"parked", "flooring"} THEN CountDown(sleepLeft) ELSE sleepLeft
  /\ plannedLeft' = CountDown(plannedLeft)
  /\ launch' = IF launch \in 1..LaunchTimeout THEN launch - 1 ELSE launch
  /\ UNCHANGED <<control, pinged, turnless, beatLost, hot>>

LoopStep ==
  \/ Claimed \/ LaunchEnds \/ NextWakeRead \/ TickFails
  \/ PassEnds \/ Yielded \/ ParkEnds \/ FloorEnds

Next ==
  \/ Run \/ LoopStep
  \/ LaunchSettles \/ Wake \/ Stop \/ BeatConfirmed \/ BeatLost \/ Elapse

Spec == Init /\ [][Next]_vars

\* Time passes and the loop takes its steps.  A launch may hang, and so may a beat: what is
\* fair is only that one not confirmed within CallTime is counted as lost.
Fairness ==
  /\ WF_vars(LoopStep) /\ WF_vars(Elapse)
  /\ WF_vars(BeatConfirmed \/ BeatLost)
FairSpec == Spec /\ Fairness

-----------------------------------------------------------------------------
(* Properties.                                                             *)

NewTick == pc' = "claiming" /\ pc # "claiming"

\* A ping is never slept through: whenever it came, while the tick ran, during the yield or in
\* the park, the loop is not parked on it, and what it still waits out is no more than the
\* floor and no more than the park it cut short (loop.ts:243-265).
WakeIsPrompt ==
  running /\ pinged =>
    /\ pc = "parked" => interrupted
    /\ pc = "flooring" => sleepLeft <= plannedLeft /\ sleepLeft + sinceTick <= WakeFloor

\* The loop does not spin: a tick that neither filled a budget nor found work with more of it
\* due is followed by another only when the park planned after it is over, or for a ping and
\* a floor after it started.  A due wake with an empty look (a clock ahead of the
\* database's) and a flood of pings are the two ways it could (loop.ts:227-265).
LooksArePaced ==
  [][ NewTick /\ pc # "new" /\ ~(result.backlog \/ (result.look = "found" /\ DueNow))
      => \/ pc \in {"parked", "flooring"} /\ plannedLeft = 0
         \/ wakeRequested /\ sinceTick >= WakeFloor ]_vars

\* However long a backlog drains, and however often a ping replaces the park, the event loop
\* gets a turn within YieldAfter ticks, so that a stop and a timer can come (loop.ts:209-219).
TurnsAreGiven == turnless <= YieldAfter

\* While every beat is answered, the registry row of a running driver never outlives its ttl
\* of two intervals, whatever the loop parks for (loop.ts:240, 295-321).
RegistryRowStaysFresh ==
  running /\ ~beatLost /\ lastBeat # None => lastBeat < 2 * RegistryInterval

\* With the loop's types, the bounds of its two counters among them.
LoopInv == TypeOK /\ RegistryRowStaysFresh

\* A driver that was started ticks for ever or, from a stop on, ends, though a launch or a
\* beat may never be answered and every store call may fail: what the store's liveness
\* relies on, and what a caller of stop() awaits (loop.ts:281-286).
LooksOrEnds == [](pc = "new") \/ []<><<NewTick>>_vars \/ <>(pc = "stopped")

\* "A tick that cannot reach the store must not hot-loop; back off to the idle ceiling"
\* (loop.ts:200-201): no HotBound failed ticks in a row without a ping between them each start
\* less than even the busy ceiling after the one before.
OutageBacksOff == hot < HotBound
=============================================================================
