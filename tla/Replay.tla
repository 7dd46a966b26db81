------------------------------- MODULE Replay -------------------------------
(* The passes of one task whose flows make durable calls side by side          *)
(* (sdk/src/context.ts), each flow an await of its own and then a spawn under  *)
(* a task name that all flows share.  The spawns are numbered in the order     *)
(* they are made, so the order in which awaits are answered decides which      *)
(* checkpoint a flow gets.  A step is the event loop's: what a result sets off *)
(* in the task runs to its next durable call before the loop does anything.    *)
EXTENDS DeliveryOrder, FiniteSetsExt

CONSTANTS
  Flows,      \* the flows, as 1 .. N, in the order the task starts them
  Settings,   \* the tasks, and what the world does to them
  MaxPasses   \* bound: passes of a run

ASSUME ReplayAssumption ==
  /\ Flows \subseteq Nat \ {0}
  /\ IsFiniteSet(Flows)
  /\ MaxPasses \in Nat \ {0}
  /\ \A g \in Settings :
       /\ g.late \cup g.sleeps \cup g.carried \cup g.refused \subseteq Flows
       /\ g.carried \cap g.sleeps = {}
       /\ {g.mayDiffer, g.storeMayFail, g.heartbeatMayFail} \subseteq BOOLEAN
       /\ g.passes \in 1 .. MaxPasses

VARIABLE given   \* which of the settings this is; it never changes

Late == given.late              \* flows that first wait on a timer of the task's own
Sleeps == given.sleeps          \* flows whose own call is a sleep
Carried == given.carried        \* flows whose await a claim's carried wake may answer
Refused == given.refused        \* flows whose spawn's result the store refuses for good
MayDiffer == given.mayDiffer    \* a later pass may run fewer flows
StoreMayFail == given.storeMayFail      \* the store may be out when a call meets it
HeartbeatMayFail == given.heartbeatMayFail  \* a heartbeat call may throw

\* A pass numbers at most two results of a flow.
MaxSeq == 2 * MaxPasses * Cardinality(Flows)

Own(f) == <<"own", f>>
Spawn(k) == <<"spawn", k>>
Keys == {Own(f) : f \in Flows} \cup {Spawn(k) : k \in 1 .. Cardinality(Flows)}
NoKey == <<"none", 0>>

VARIABLES
  marker,    \* the checkpoint $order:n, by its number: the key it holds, or NoKey
  stored,    \* the keys whose result has a checkpoint
  child,     \* the flow whose spawn created the child of each spawn key, or 0
  written,   \* history: the number each stored result was recorded under, or 0
  cut,       \* history: a beat of an earlier pass gave a number up
  pass,      \* the pass that runs
  wake,      \* the flow whose await the claim's wake answers, or 0
  used,      \* how often the shared name was used in this pass
  order,     \* the DeliveryOrder of this pass
  call       \* where each flow is

disk == <<marker, stored, child, written>>
vars == <<given, disk, cut, pass, wake, used, order, call>>

(* A flow's call, `stage` says which.  Its phases are                          *)
(*   timer     waits on something of the task's own before its first call      *)
(*   ready     runs the task's code, which makes the next call                 *)
(*   held      waits for the turn of its number;  due: that wait was answered  *)
(*   asking    the operation's own store call                                  *)
(*   marking, storing, joining   #commitOrdered's store calls, in their order  *)
(*   reserving a sleep's marker;  leaving: it threw;  parking: suspendRun runs *)
(*   handed, failing   the call ended and its finally is to run                *)
(*   done      the flow makes no further call                                  *)
Store == {"asking", "marking", "storing", "joining", "reserving"}
Microtask == {"ready", "due", "handed", "failing", "leaving"}
Calls == [stage : {"own", "spawn"}, use : 0 .. Cardinality(Flows), num : 0 .. MaxSeq,
          marked : BOOLEAN, beside : BOOLEAN,
          phase : Store \cup Microtask \cup {"timer", "held", "parking", "done"}]

Call(stage, phase) ==
  [stage |-> stage, use |-> 0, num |-> 0, marked |-> FALSE, beside |-> FALSE, phase |-> phase]

Key(f) == IF call[f].stage = "own" THEN Own(f) ELSE Spawn(call[f].use)

\* A flow of the synchronous start has not made its first call.
Starting == \E f \in Flows : call[f].phase = "ready" /\ call[f].stage = "own"

\* #callsPending counts the call.
Pending(f) == call[f].phase \notin {"timer", "ready", "parking", "done"}

\* The event loop goes on: no promise turn is left to run.
Quiet == \A f \in Flows : call[f].phase \notin Microtask

IsRefused(f) == call[f].stage = "spawn" /\ f \in Refused
-----------------------------------------------------------------------------
\* #readOrder: a stored key has the highest of its markers.
FaultyNumberOf(m, s, key) ==  \* seeded bug: its lowest marker
  LET numbers == {n \in DOMAIN m : m[n] = key}
  IN IF key \in s /\ numbers # {} THEN Min(numbers) ELSE 0

NumberOf(m, s, key) ==
  LET numbers == {n \in DOMAIN m : m[n] = key}
  IN IF key \in s /\ numbers # {} THEN Max(numbers) ELSE 0

RecordedNumbers(m, s) == {NumberOf(m, s, key) : key \in Keys} \ {0}

\* trustedSortNumbers.
Ascending(S) ==
  CHOOSE q \in [1 .. Cardinality(S) -> S] : \A i, j \in DOMAIN q : i < j => q[i] < q[j]

ReadOrder(m, s) ==
  NewOrder(Ascending(RecordedNumbers(m, s)),
           Max({n \in DOMAIN m : m[n] # NoKey} \cup {0}))

StartCall(f, runs) ==
  CASE f \notin runs -> Call("own", "done")
    [] f \in runs \cap Late -> Call("own", "timer")
    [] OTHER -> Call("own", "ready")

Init ==
  /\ given \in Settings
  /\ marker = [n \in 1 .. MaxSeq |-> NoKey]
  /\ stored = {}
  /\ child = [k \in 1 .. Cardinality(Flows) |-> 0]
  /\ written = [key \in Keys |-> 0]
  /\ cut = FALSE
  /\ pass = 1
  /\ wake = 0
  /\ used = 0
  /\ order = NewOrder(<<>>, 0)
  /\ call = [f \in Flows |-> StartCall(f, Flows)]

\* What the store calls of the flows in `landing` write.  A child is created once
\* for a key, whoever asks (the idempotency key is built from the key).
Lands(landing) ==
  LET Of(phases) == {f \in landing : call[f].phase \in phases}
      Marks == Of({"marking", "joining", "reserving"})
      Results == {f \in Of({"storing", "parking"}) : ~IsRefused(f)}
      Asked == {f \in Of({"asking"}) : call[f].stage = "spawn" /\ child[call[f].use] = 0}
      Numbered == Of({"joining"}) \cup {f \in Results : call[f].marked}
  IN /\ marker' = [n \in 1 .. MaxSeq |->
                     IF \E f \in Marks : call[f].num = n
                     THEN Key(CHOOSE f \in Marks : call[f].num = n) ELSE marker[n]]
     /\ stored' = stored \cup {Key(f) : f \in Results}
     /\ child' = [k \in DOMAIN child |->
                    IF \E f \in Asked : call[f].use = k
                    THEN CHOOSE f \in Asked : call[f].use = k ELSE child[k]]
     /\ written' = [key \in Keys |->
                      IF \E f \in Numbered : Key(f) = key
                      THEN call[CHOOSE f \in Numbered : Key(f) = key].num ELSE written[key]]

\* Flow f's call becomes c and the order o; a call no longer in the order's
\* waiting list was woken.
Woken(calls, o) ==
  [g \in Flows |-> IF calls[g].phase = "held" /\ calls[g].num \notin o.waiting
                   THEN [calls[g] EXCEPT !.phase = "due"] ELSE calls[g]]

Step(calls, f, c, o) == order' = o /\ call' = [Woken(calls, order') EXCEPT ![f] = c]

\* #storeCall begins, unless the pass has ended, which throws into #commitOrdered.
StoreNext(calls, f, c, o, phase) ==
  IF o.ended THEN Step(calls, f, [c EXCEPT !.phase = "failing"], Abandon(o, c.num))
  ELSE Step(calls, f, [c EXCEPT !.phase = phase], o)

\* #commitOrdered, from its start and from the moment it is its number's turn.
FaultyCommitOrdered(calls, f, c) ==  \* seeded bug: no marker before the result
  StoreNext(calls, f, [c EXCEPT !.num = order.next], Assign(order), "storing")

CommitOrdered(calls, f, c) ==
  StoreNext(calls, f, [c EXCEPT !.num = order.next], Assign(order),
            IF c.beside THEN "marking" ELSE "storing")

Deliver(f, o) ==
  IF call[f].beside /\ ~call[f].marked
  THEN StoreNext(call, f, call[f], o, "joining")
  ELSE Step(call, f, [call[f] EXCEPT !.phase = "handed"], Release(o, call[f].num, call[f].marked))
-----------------------------------------------------------------------------
(* A flow makes a call.                                                        *)

NextKey(f) == IF call[f].stage = "own" THEN Own(f) ELSE Spawn(used + 1)

MayCall(f) ==
  \/ call[f].phase = "timer" /\ Quiet
  \/ /\ call[f].phase = "ready"
     /\ Starting => /\ call[f].stage = "own"
                    /\ \A g \in Flows : g < f => call[g].phase # "ready"

\* storageName and #beginCall: the call as it begins, and the calls it joins.
Begun(f) ==
  [call[f] EXCEPT !.use = IF call[f].stage = "own" THEN 0 ELSE used + 1,
                  !.beside = \E g \in Flows \ {f} : Pending(g)]
Joined(f) ==
  [g \in Flows |-> IF g # f /\ Pending(g) THEN [call[g] EXCEPT !.beside = TRUE] ELSE call[g]]

BeginCall(f) ==
  /\ MayCall(f)
  /\ used' = IF call[f].stage = "own" THEN used ELSE used + 1
  /\ UNCHANGED <<disk, cut, pass>>

\* A memoized result.  One that was recorded waits for its turn (#turnOf), and any
\* other reaches the task at once; a memo retires the wake of its await.
CallReplays(f) ==
  LET num == NumberOf(marker, stored, NextKey(f))
      c == [Begun(f) EXCEPT !.num = num]
  IN /\ BeginCall(f)
     /\ NextKey(f) \in stored
     /\ wake' = IF wake = f THEN 0 ELSE wake
     /\ CASE num = 0 -> Step(Joined(f), f, [c EXCEPT !.phase = "handed"], order)
          [] num # 0 /\ Goes(order, num) ->
               Step(Joined(f), f, [c EXCEPT !.phase = "handed"],
                    Release(Wait(order, num), num, TRUE))
          [] OTHER -> Step(Joined(f), f, [c EXCEPT !.phase = "held"], Wait(order, num))

\* An await whose wake the claim carries has its result at once.
CallTakesWake(f) ==
  /\ BeginCall(f)
  /\ call[f].stage = "own" /\ wake = f /\ Own(f) \notin stored
  /\ wake' = 0
  /\ CommitOrdered(Joined(f), f, Begun(f))

\* An await or a spawn asks the store.
CallAsks(f) ==
  /\ BeginCall(f)
  /\ NextKey(f) \notin stored
  /\ call[f].stage = "own" => f \notin Sleeps /\ wake # f
  /\ Step(Joined(f), f,
          [Begun(f) EXCEPT !.phase = IF order.ended THEN "failing" ELSE "asking"], order)
  /\ UNCHANGED wake

\* #suspendAt: a sleep made beside another call has its number stored first.
CallSleeps(f) ==
  /\ BeginCall(f)
  /\ call[f].stage = "own" /\ f \in Sleeps /\ Own(f) \notin stored
  /\ IF ~Begun(f).beside
     THEN Step(Joined(f), f, [Begun(f) EXCEPT !.phase = "leaving"], order)
     ELSE Step(Joined(f), f,
               [Begun(f) EXCEPT !.num = order.next,
                                !.phase = IF order.ended THEN "failing" ELSE "reserving"],
               Reserve(order))
  /\ UNCHANGED wake
-----------------------------------------------------------------------------
(* A store call answers.                                                       *)

Answered(f, phase) ==
  /\ Quiet
  /\ call[f].phase = phase
  /\ Lands({f})
  /\ UNCHANGED <<cut, pass, wake, used>>

\* The event was emitted, or the child exists.
AskAnswers(f) == Answered(f, "asking") /\ CommitOrdered(call, f, call[f])

MarkAnswers(f) ==
  /\ Answered(f, "marking")
  /\ StoreNext(call, f, [call[f] EXCEPT !.marked = TRUE], order, "storing")

\* The result is stored, and waits for its turn.
StoreAnswers(f) ==
  /\ Answered(f, "storing")
  /\ ~IsRefused(f)
  /\ IF Goes(order, call[f].num)
     THEN Deliver(f, Wait(order, call[f].num))
     ELSE Step(call, f, [call[f] EXCEPT !.phase = "held"], Wait(order, call[f].num))

\* A permanent answer reaches the task, which stops that flow.
StoreRefuses(f) ==
  /\ Answered(f, "storing")
  /\ IsRefused(f)
  /\ Step(call, f, [call[f] EXCEPT !.phase = "failing"], Abandon(order, call[f].num))

JoinAnswers(f) ==
  /\ Answered(f, "joining")
  /\ Step(call, f, [call[f] EXCEPT !.marked = TRUE, !.phase = "handed"],
          Release(order, call[f].num, TRUE))

ReserveAnswers(f) ==
  /\ Answered(f, "reserving")
  /\ Step(call, f, [call[f] EXCEPT !.marked = TRUE, !.phase = "leaving"], order)

\* An outage, before or after the write landed, ends the pass for every flow.
StoreFails(f) ==
  /\ Quiet /\ StoreMayFail
  /\ call[f].phase \in Store
  /\ \E landing \in SUBSET {f} : Lands(landing)
  /\ Step(call, f, [call[f] EXCEPT !.phase = "failing"],
          IF call[f].phase \in {"asking", "reserving"} THEN End(order)
          ELSE Abandon(End(order), call[f].num))
  /\ UNCHANGED <<cut, pass, wake, used>>
-----------------------------------------------------------------------------
(* The promise turns of a call, the event loop, the heartbeat and the run.     *)

\* A call whose wait was answered: a replayed one (#turnOf) or one that stored.
Continue(f) ==
  /\ call[f].phase = "due" /\ ~Starting
  /\ IF call[f].num < order.firstLive
     THEN Step(call, f, [call[f] EXCEPT !.phase = "handed"], Release(order, call[f].num, TRUE))
     ELSE Deliver(f, order)
  /\ UNCHANGED <<disk, cut, pass, wake, used>>

\* The finally of a call, and the task's code behind it.  A flow that meets an
\* error stops or goes on; a sleep's signal ends the pass with one park.
EndCall(f) ==
  /\ call[f].phase \in {"handed", "failing", "leaving"} /\ ~Starting
  /\ \E c \in {Call("spawn", "ready"), [call[f] EXCEPT !.phase = "parking"], Call("spawn", "done")} :
       /\ c.phase = "ready" => call[f].stage = "own" /\ call[f].phase # "leaving"
       /\ c.phase = "parking" => /\ call[f].phase = "leaving"
                                 /\ \A g \in Flows : call[g].phase # "parking"
       /\ c.phase = "done" => ~(call[f].phase = "handed" /\ call[f].stage = "own")
       /\ Step(call, f, c, order)
  /\ UNCHANGED <<disk, cut, pass, wake, used>>

\* The event loop turned after a recorded result (settleAfter).
Turn ==
  /\ Quiet /\ order.turns > 0
  /\ order' = EndTurn(order)
  /\ call' = Woken(call, order')
  /\ UNCHANGED <<disk, cut, pass, wake, used>>

\* A beat is half a lease after the last, and a turn that is owed comes long before.
\* With no call waiting it only clears `moved`, as the next wait does.
PumpBeats ==
  /\ Quiet /\ order.turns = 0 /\ order.waiting # {}
  /\ order' = Beat(order)
  /\ order' # order
  /\ call' = Woken(call, order')
  /\ UNCHANGED <<disk, cut, pass, wake, used>>

\* The heartbeat call throws: the pump stops and opens the order (run-worker.ts).
HeartbeatFails ==
  /\ Quiet /\ HeartbeatMayFail /\ ~order.open
  /\ order' = Open(order)
  /\ call' = Woken(call, order')
  /\ UNCHANGED <<disk, cut, pass, wake, used>>

\* The pass is over: it died, lost its lease, met an error, or parked, after any of
\* the calls in flight landed; nothing of it lands later.  The next claim replays.
NewPass ==
  /\ Quiet /\ pass < given.passes
  /\ \E landing \in SUBSET {f \in Flows : call[f].phase \in Store \cup {"parking"}} : Lands(landing)
  /\ cut' = (cut \/ order.skipped # {})
  /\ pass' = pass + 1
  /\ used' = 0
  /\ wake' \in {0} \cup {f \in Carried : Own(f) \notin stored'}
  /\ order' = ReadOrder(marker', stored')
  /\ \E runs \in IF MayDiffer THEN SUBSET Flows ELSE {Flows} :
       call' = [f \in Flows |-> StartCall(f, runs)]

CallStep(f) ==
  \/ CallReplays(f) \/ CallTakesWake(f) \/ CallAsks(f) \/ CallSleeps(f)
  \/ Continue(f) \/ EndCall(f)

StoreStep(f) ==
  \/ AskAnswers(f) \/ MarkAnswers(f) \/ StoreAnswers(f) \/ StoreRefuses(f)
  \/ JoinAnswers(f) \/ ReserveAnswers(f) \/ StoreFails(f)

Next ==
  /\ \/ \E f \in Flows : CallStep(f) \/ StoreStep(f)
     \/ Turn \/ PumpBeats \/ HeartbeatFails \/ NewPass
  /\ UNCHANGED given

Spec == Init /\ [][Next]_vars
-----------------------------------------------------------------------------
\* Types: every number a pass takes stays below the bound that its checkpoints and
\* those of earlier passes leave (DeliveryOrder.assign, reserve).
TypeOK ==
  /\ given \in Settings
  /\ marker \in [1 .. MaxSeq -> Keys \cup {NoKey}]
  /\ stored \subseteq Keys
  /\ child \in [1 .. Cardinality(Flows) -> Flows \cup {0}]
  /\ written \in [Keys -> 0 .. MaxSeq]
  /\ cut \in BOOLEAN
  /\ pass \in 1 .. MaxPasses
  /\ wake \in Flows \cup {0}
  /\ used \in 0 .. Cardinality(Flows)
  /\ order \in Orders(MaxSeq)
  /\ call \in [Flows -> Calls]

\* A task that makes the same calls in every pass, at once, whose awaits all ask the
\* store, and whose order nothing opens but an error that ends the pass.
Steady == Late \cup Sleeps \cup Carried = {} /\ ~MayDiffer /\ ~HeartbeatMayFail

\* A flow is handed the child that it spawned, in whatever pass it asks and
\* whatever pass first created it: a replay makes the calls under the shared name
\* in the order the first pass made them.  Not claimed of a pass that an error
\* ended, which completes nothing, nor once a beat gave a number up, which is the
\* price delivery-order.ts names (beat).
EachFlowGetsItsOwn ==
  \A f \in Flows :
    Steady /\ call[f].stage = "spawn" /\ call[f].phase = "handed"
    /\ ~order.ended /\ ~cut /\ order.skipped = {}
      => child[call[f].use] = f

\* A replay finds a stored result under the number of the pass that stored it, and
\* under none if that pass recorded none: a marker a pass left behind when it died
\* names nothing (#readOrder).
AsWritten == \A key \in stored : NumberOf(marker, stored, key) = written[key]
MarkersNameTheirResults == Steady /\ Refused = {} => AsWritten

\* A task that makes every call again is never held by a number that nobody asks
\* for, so no beat gives a recorded number up (DeliveryOrder.beat).
NothingRecordedIsGivenUp == Steady => order.skipped = {}

\* No lost wakeup: a call waits for a turn of the event loop or for a number
\* before its own that is not done, never at the head of a queue at rest (wake).
NoWaiterAtTheHead ==
  \A f \in Flows :
    call[f].phase = "held" /\ ~order.settling
      => LET a == Advance(order) IN HasHead(a) /\ HeadOf(a) # call[f].num

-----------------------------------------------------------------------------
(* The inductive invariant: what a pass of any task keeps to.                  *)

Count == Cardinality(Flows)

\* Phases whose number is in the queue.
InQueue == {"held", "due", "marking", "storing", "joining"}

\* The keys that this pass may still ask for.
ToCome ==
  {Own(f) : f \in {g \in Flows : call[g].stage = "own" /\ call[g].phase \in {"timer", "ready"}}}
  \cup {Spawn(k) : k \in used + 1 .. Count}

Recorded(key) == NumberOf(marker, stored, key)

\* What a flow's call is, by its phase.
CallHolds(f) ==
  LET c == call[f]
  IN /\ c.stage = "own" \/ c.phase \in {"ready", "done"} => c.use = 0
     /\ c.stage = "spawn" /\ c.phase \notin {"ready", "done"} => c.use \in 1 .. used
     /\ c.phase \in {"timer", "reserving", "leaving", "parking"} => c.stage = "own"
     /\ c.phase \in {"timer", "ready", "done", "asking"} => c.num = 0
     /\ c.phase \in {"marking", "storing", "joining", "reserving"} => c.num >= order.firstLive
     /\ c.phase \in InQueue => c.num \in Undone(order)
     /\ c.num < order.next
     /\ c.num \in 1 .. order.firstLive - 1 =>
          c.phase \in {"held", "due", "handed"} /\ marker[c.num] = Key(f)
     /\ c.phase \in {"due", "joining"} /\ ~order.open =>
          IsNext(order, c.num) /\ (order.skipped = {} => ~order.settling)

\* No two calls have a number or a key in common.
CallsDiffer ==
  \A f, g \in Flows :
    f # g => /\ call[f].num # 0 => call[f].num # call[g].num
             /\ call[f].use # 0 => call[f].use # call[g].use

CallsHold ==
  /\ \A f \in Flows : CallHolds(f)
  /\ CallsDiffer
  /\ order.waiting = {call[f].num : f \in {g \in Flows : call[g].phase = "held"}}

\* A marker of this pass is of a key that was asked for, and a recorded result that may
\* still be asked for is in the queue.
MarkersHold ==
  /\ \A n \in 1 .. MaxSeq :
       marker[n] # NoKey => n < order.next /\ (n >= order.firstLive => marker[n] \notin ToCome)
  /\ \A key \in ToCome :
       Recorded(key) # 0 => /\ Recorded(key) < order.firstLive
                            /\ Recorded(key) \in Undone(order) \cup order.skipped

\* Each flow took a number for its own call at most, and one for its spawn.
Taken ==
  {<<f, 1>> : f \in {g \in Flows : call[g].stage = "spawn" \/ call[g].num >= order.firstLive}}
  \cup
  {<<f, 2>> : f \in {g \in Flows : /\ call[g].stage = "spawn"
                                   /\ call[g].phase = "done" \/ call[g].num >= order.firstLive}}

NumbersLast ==
  /\ order.firstLive <= 2 * Count * (pass - 1) + 1
  /\ order.next - order.firstLive <= Cardinality(Taken)
  /\ used <= Cardinality({f \in Flows : call[f].stage = "spawn" /\ call[f].phase # "ready"})

-----------------------------------------------------------------------------
(* What a steady task's passes agree on: the order of its own calls' results. *)

Alone == \A f, g \in Flows : f = g

OwnNum(f) == Recorded(Own(f))
Before(f) == {g \in Flows : Own(g) \in stored /\ OwnNum(g) <= OwnNum(f)}

\* Flow f's own result is the k-th, whatever is stored from here on.
Ranked(f, k) ==
  /\ Own(f) \in stored
  /\ Cardinality(Before(f)) = k
  /\ \A g \in Flows : call[g].stage = "own" /\ call[g].phase \in {"marking", "storing"} =>
       OwnNum(f) < call[g].num

\* The flow has its own result; is about to spawn; or has a result it does not know yet.
Through(f) == call[f].stage = "spawn" \/ call[f].phase = "handed"
Between(f) == <<call[f].stage, call[f].phase>> \in {<<"own", "handed">>, <<"spawn", "ready">>}
Fresh(f) == call[f].phase = "handed" \/ Between(f)

\* The flow's call asked the store in this pass, or has a number of this pass.
Live(f) == call[f].phase \in Store \/ call[f].num >= order.firstLive

Spawning(f) == call[f].stage = "spawn" /\ call[f].phase # "ready"
HasSpawned(g) == call[g].stage = "spawn" /\ call[g].phase = "done"
OthersHaveSpawned(f) == \A g \in Flows \ {f} : HasSpawned(g)

\* The result of the j-th spawn is handed over after every flow's own.
SpawnLater(j) ==
  \A f \in Flows :
    /\ Own(f) \in stored
    /\ Spawn(j) \in stored => OwnNum(f) < Recorded(Spawn(j))
    /\ \A g \in Flows : call[g].use = j /\ call[g].phase \in {"marking", "storing"} =>
         OwnNum(f) < call[g].num
Crowded == \E j \in 1 .. Count - 1 : SpawnLater(j)

SteadyDisk ==
  /\ Alone => \A n \in 1 .. MaxSeq : marker[n] = NoKey
  /\ \A f \in Flows : Own(f) \in stored => Alone \/ OwnNum(f) # 0
  /\ \A k \in 1 .. Count :
       /\ child[k] # 0 => Ranked(child[k], k)
       /\ Spawn(k) \in stored => child[k] # 0 /\ (k < Count => Recorded(Spawn(k)) # 0)
       /\ \A n \in 1 .. MaxSeq : marker[n] = Spawn(k) =>
            k <= Cardinality({g \in Flows : Own(g) \in stored /\ OwnNum(g) < n})

\* Where a call may be, and whether another runs beside it.
SteadyPhase(f) ==
  LET c == call[f]
  IN /\ c.stage = "own" =>
          c.phase \in {"ready", "asking", "marking", "storing", "held", "due", "handed", "failing"}
     /\ c.stage = "own" /\ c.phase = "failing" => order.ended
     /\ c.phase # "joining"
     /\ Starting => /\ c.stage = "own" /\ c.phase \in {"ready", "asking", "held", "handed"}
                    /\ c.num < order.firstLive
     /\ c.stage = "own" /\ ~Starting /\ ~Alone => c.beside
     /\ Alone => ~c.beside
     /\ c.phase = "marking" => c.beside
     /\ \A g \in Flows \ {f} : Pending(f) /\ Pending(g) => c.beside

\* What of the call's result is on the disk.
SteadyResult(f) ==
  LET c == call[f]
  IN /\ c.phase \in {"ready", "asking", "marking"} => ~c.marked
     /\ c.phase = "marking" => marker[c.num] = NoKey
     /\ c.phase \in {"asking", "marking", "storing"} =>
          /\ Key(f) \notin stored
          /\ \A n \in order.firstLive .. MaxSeq : marker[n] = Key(f) => n = c.num
     /\ c.phase \in {"storing", "held", "due", "handed"} /\ c.num >= order.firstLive =>
          c.marked = c.beside /\ (c.marked => marker[c.num] = Key(f))
     /\ c.phase \in {"held", "due", "handed"} =>
          /\ Key(f) \in stored
          /\ c.num < order.firstLive \/ c.marked => Recorded(Key(f)) = c.num

\* Which spawn it is.
SteadySpawn(f) ==
  LET c == call[f]
  IN c.use # 0 =>
       /\ c.phase \in Store \/ ~order.ended =>
            Ranked(f, c.use) /\ (c.num >= order.firstLive => OwnNum(f) < c.num)
       /\ c.phase \notin {"asking", "failing"} => child[c.use] # 0
       /\ ~c.beside /\ Live(f) => c.use = Count /\ OthersHaveSpawned(f)
       /\ c.use = Count /\ Live(f) =>
            \A g \in Flows \ {f} : Spawning(g)

\* The pass itself, until an error ends it.
SteadyPass ==
  /\ \A f \in Flows : Through(f) =>
       Own(f) \in stored /\ \A n \in Undone(order) : OwnNum(f) < n
  /\ \A f \in Flows : ~Alone /\ Fresh(f) =>
       /\ \A g \in Flows \ {f} : ~Fresh(g)
       /\ order.settling \/ OthersHaveSpawned(f)
       /\ Between(f) => order.settling /\ \A g \in Flows : Through(g) => OwnNum(g) <= OwnNum(f)
  /\ used = Cardinality({f \in Flows : Spawning(f)})

\* A number of an earlier pass that is in the queue is one that this pass asks for.
Awaited ==
  \A n \in Undone(order) : n < order.firstLive =>
    \/ \E key \in ToCome : Recorded(key) = n
    \/ \E f \in Flows : call[f].phase \in {"held", "due"} /\ call[f].num = n

\* Where no result is refused, a key that has a marker is always stored with one.
SteadyMarkers ==
  /\ \A key \in Keys : IF key \in stored THEN Recorded(key) = written[key] ELSE written[key] = 0
  /\ \A f \in Flows :
       /\ call[f].phase = "failing" => order.ended
       /\ call[f].use # 0 /\ ~call[f].beside /\ Live(f) => \A n \in 1 .. MaxSeq : marker[n] # Key(f)
       /\ call[f].use = Count /\ call[f].beside /\ call[f].phase \in Store => Crowded
  /\ (\E n \in 1 .. MaxSeq : marker[n] = Spawn(Count)) => Crowded
  /\ ~order.ended /\ ~Alone => \A j \in 1 .. used :
       \/ \E g \in Flows : /\ call[g].use = j
                           /\ call[g].phase \in {"asking", "marking", "storing", "held", "due"}
       \/ /\ Spawn(j) \in stored
          /\ \A n \in Undone(order) : Recorded(Spawn(j)) < n
          /\ \A f \in Flows : Between(f) => Recorded(Spawn(j)) < OwnNum(f)

SteadyInv ==
  /\ order.skipped = {} /\ ~cut /\ wake = 0
  /\ order.open = order.ended /\ (Starting => ~order.ended)
  /\ SteadyDisk
  /\ \A f \in Flows : SteadyPhase(f) /\ SteadyResult(f) /\ SteadySpawn(f)
  /\ Awaited
  /\ ~order.ended => SteadyPass
  /\ Refused = {} => SteadyMarkers

ReplayInv ==
  /\ TypeOK /\ IsOrder(order, MaxSeq)
  /\ CallsHold /\ MarkersHold /\ NumbersLast
  /\ NoWaiterAtTheHead
  /\ Steady => SteadyInv

\* While the order holds, a numbered result reaches the task when every lower
\* number of the queue has, or failed, and the event loop turned since the last.
HandedInTurn ==
  [][\A f \in Flows :
       /\ ~order.open /\ order.skipped = {}
       /\ call[f].phase # "handed" /\ call'[f].phase = "handed" /\ call'[f].num # 0
       => /\ ~order.settling
          /\ \A i \in DOMAIN order.queue :
               order.queue[i] < call'[f].num => IsDone(order, order.queue[i])]_vars

\* A wait for a turn ends, also when the number before it is never asked for.
WaitEnds == \A f \in Flows : []<>(call[f].phase # "held")
-----------------------------------------------------------------------------
\* While a promise turn or a turn of the event loop is to run, a store call is in
\* flight, or a beat would change the order, something happens.  No single step is
\* assumed to be next, and nothing is assumed of a task's timers or of a pass's end.
LeftToDo ==
  \/ ~Quiet
  \/ \E f \in Flows : call[f].phase \in Store
  \/ order.turns > 0
  \/ order.waiting # {} /\ Beat(order) # order

FairSpec == Spec /\ (<>[]LeftToDo => []<><<TRUE>>_vars)
=============================================================================
