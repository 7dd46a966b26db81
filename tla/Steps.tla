-------------------------------- MODULE Steps --------------------------------
(***************************************************************************)
(* The passes of one task whose function calls steps (sdk/src/context.ts,  *)
(* sdk/src/run-worker.ts): bodies that run, throw and have effects, start  *)
(* markers, the rollback pass that replays the function and undoes what    *)
(* started, and passes that die, lose their lease and linger beside their  *)
(* successor.  The store is reduced to what a pass asks of it: the claim   *)
(* its writes are fenced on, the phase, and the counters of attempts.      *)
(*                                                                         *)
(* The task function runs its flows together (Promise.all) and ends with   *)
(* the first error.  The order in which a replay hands results over is     *)
(* Replay's subject; here a step's key does not depend on it.  Heartbeats  *)
(* are left out: a pass is told of its lost lease by its next write.       *)
(***************************************************************************)
EXTENDS Integers, Sequences, FiniteSets, FiniteSetsExt

CONSTANTS
  Flows,            \* the flows of the task function
  Late,             \* the flows that first wait on a timer of the task's own
  Program,          \* Program[f]: the steps and sleeps flow f calls, in order
  Registered,       \* the steps that register a rollback
  Sleeps,           \* the calls that are sleeps
  Catches,          \* Catches[s]: the errors of s its caller catches, to go on
  MaxAttempts,      \* the task's attempt budget
  RollbackAttempts, \* the budget of each rollback (rollbackConfig.maxAttempts)
  InfraCap,         \* INFRA_RETRY_CAP
  Workers           \* bound: how many passes, the last one included, are still around

Calls == UNION {{Program[f][i] : i \in DOMAIN Program[f]} : f \in Flows}
Errors == {"user", "fatal", "infra", "signal", "sleep"}
NoWorker == "none"

ASSUME StepsAssumption ==
  /\ Late \subseteq Flows /\ Cardinality(Flows \ Late) <= 1
  /\ \A f \in Flows : Program[f] \in Seq(Calls) \ {<<>>}
  /\ IsFiniteSet(Calls)
  /\ NoWorker \notin Workers
  /\ Registered \subseteq Calls /\ Sleeps \subseteq Calls \ Registered
  /\ Catches \in [Calls -> SUBSET (Errors \ {"sleep"})]
  /\ MaxAttempts \in Nat \ {0} /\ RollbackAttempts \in Nat \ {0} /\ InfraCap \in Nat

VARIABLES
  state,     \* the task: live, completed or failed
  attempt,   \* the ordinal of its run
  infra,     \* its infrastructure retries so far
  owner,     \* the worker that holds the run's claim, or NoWorker
  started,   \* $started:<step>: the start index, or 0
  done,      \* the steps and sleeps with a checkpoint
  phase,     \* $rolling-back: "forward" or "rolling"
  back,      \* $rollback:<step>
  tries,     \* $rollback-tries:<step>: failed attempts
  worker,    \* the pass each worker runs, or Gone
  \* History.
  effect,    \* what each registered step may have left in the world: none, there or gone
  failedAs   \* the attempt of the run whose failure began the rolling-back phase

saga == <<started, phase, back, tries>>
store == <<state, attempt, infra, owner, saga, done>>
history == <<effect, failedAs>>
vars == <<store, worker, history>>

Gone == [mode |-> "gone"]
NoStep == "none"
FlowPhases == {"timer", "ready", "marking", "marked", "body", "storing", "stopped"}

(* The pass of a worker: what it read when it was claimed, and what it did since.        *)
(*   mode  handler: the task function runs;  failing, completing, parking: the call that *)
(*         ends the pass;  deciding, undoing, recording, counting, ending: rollBack;     *)
(*         over: its outcome was returned, flows of the task may still go on             *)
FaultyPassAttempt ==  \* seeded bug: one pass assumed
  attempt - infra - (IF phase = "forward" THEN 0 ELSE 1)

\* The failed rollback attempts on record, over all steps; each was followed by a pass.
FailedTries == {x \in Calls \X (1..RollbackAttempts) : x[2] <= tries[x[1]]}

\* ctx.attempt: a rollback pass replays as the run that failed.
PassAttempt ==
  attempt - infra - (IF phase = "forward" THEN 0 ELSE 1 + Cardinality(FailedTries))

NewPass ==
  [mode |-> "handler", attempt |-> PassAttempt,
   seen |-> done, index |-> started, back |-> back, tries |-> tries, phase |-> phase,
   registered |-> {}, inStep |-> FALSE, ended |-> FALSE, step |-> NoStep, retry |-> FALSE,
   flow |-> [f \in Flows |-> [at |-> 1, phase |-> IF f \in Late THEN "timer" ELSE "ready"]]]

Modes == {"handler", "failing", "completing", "parking",
          "deciding", "undoing", "recording", "counting", "ending", "over"}
Pass ==
  [mode : Modes, attempt : Int, seen : SUBSET Calls, index : [Calls -> Nat],
   back : SUBSET Calls, tries : [Calls -> Nat], phase : {"forward", "rolling"},
   registered : SUBSET Registered, inStep : BOOLEAN, ended : BOOLEAN,
   step : Calls \cup {NoStep}, retry : BOOLEAN, flow : [Flows -> [at : Nat, phase : FlowPhases]]]

TypeOK ==
  /\ state \in {"live", "completed", "failed"}
  /\ attempt \in Nat /\ infra \in 0..InfraCap
  /\ owner \in Workers \cup {NoWorker}
  /\ started \in [Calls -> 0..Cardinality(Registered)]
  /\ done \subseteq Calls /\ back \subseteq Registered
  /\ phase \in {"forward", "rolling"}
  /\ tries \in [Calls -> 0..RollbackAttempts]
  /\ effect \in [Registered -> {"none", "there", "gone"}] /\ failedAs \in Int
  /\ worker \in [Workers -> Pass \cup {Gone}]
  /\ \A p \in Workers : worker[p] # Gone =>
       \A f \in Flows : worker[p].flow[f].at \in 1..Len(Program[f])

Init ==
  /\ state = "live" /\ attempt = 1 /\ infra = 0 /\ owner = NoWorker
  /\ started = [s \in Calls |-> 0] /\ done = {}
  /\ phase = "forward" /\ back = {} /\ tries = [s \in Calls |-> 0]
  /\ worker = [p \in Workers |-> Gone]
  /\ effect = [s \in Registered |-> "none"] /\ failedAs = 0

-----------------------------------------------------------------------------
(* The store.                                                              *)

\* The run is lost to its worker, and the next one waits for a claim.
Successor == attempt' = attempt + 1 /\ owner' = NoWorker /\ UNCHANGED state

\* The failure of a task with a started step, not yet rolling back, begins the saga.
EntersSaga == phase = "forward" /\ \E s \in Calls : started[s] > 0

\* A terminal decision: a rollback pass follows, or the task ends.
TerminalDecision ==
  \/ /\ EntersSaga
     /\ Successor
     /\ phase' = "rolling" /\ failedAs' = attempt - infra
  \/ /\ ~EntersSaga
     /\ state' = "failed" /\ owner' = NoWorker
     /\ UNCHANGED <<attempt, phase, failedAs>>

\* The sweep takes the run of a worker whose lease ran out: the worker died, or is slow.
Sweep ==
  /\ owner # NoWorker
  /\ \/ /\ infra < InfraCap
        /\ infra' = infra + 1
        /\ Successor
        /\ UNCHANGED <<phase, failedAs>>
     \/ /\ infra = InfraCap
        /\ TerminalDecision
        /\ UNCHANGED infra
  /\ UNCHANGED <<started, back, tries, done, worker, effect>>

\* Any idle worker does: all are alike.
Idle(p) == worker[p] = Gone /\ p = CHOOSE q \in Workers : worker[q] = Gone

\* The run is claimed and activated, and the checkpoints are read.
Claim(p) ==
  /\ state = "live" /\ owner = NoWorker /\ Idle(p)
  /\ owner' = p
  /\ worker' = [worker EXCEPT ![p] = NewPass]
  /\ UNCHANGED <<state, attempt, infra, saga, done, history>>

-----------------------------------------------------------------------------
(* A worker and the flows of its pass.                                     *)

\* What is left of a pass whose outcome was returned: its flows, until they stop.
Lingers(w) ==
  IF \A f \in Flows : w.flow[f].phase = "stopped" THEN Gone
  ELSE [w EXCEPT !.step = NoStep, !.retry = FALSE, !.attempt = 0, !.back = {}, !.registered = {},
                 !.tries = [s \in Calls |-> 0]]

Set(p, w) == worker' = [worker EXCEPT ![p] = IF w.mode = "over" THEN Lingers(w) ELSE w]

Flow(w, f, ph) == [w EXCEPT !.flow[f].phase = ph]
Current(w, f) == Program[f][w.flow[f].at]

\* The task function runs to its next call before the event loop does anything else.
Quiet(p) == worker[p] # Gone /\ \A f \in Flows : worker[p].flow[f].phase # "ready"
In(p, f, ph) == worker[p] # Gone /\ worker[p].flow[f].phase = ph

\* How a pass ends after the task function threw e: recordUserFailure, rollBack, a park.
EndedBy(w, f, e) ==
  CASE e = "infra" -> [w EXCEPT !.mode = "over"]
    [] e # "infra" /\ w.phase = "rolling" -> [w EXCEPT !.mode = "deciding"]
    [] e = "sleep" /\ w.phase = "forward" ->
         [w EXCEPT !.mode = "parking", !.step = Current(w, f)]
    [] OTHER -> [w EXCEPT !.mode = "failing", !.retry = e = "user" /\ w.attempt < MaxAttempts]

\* What it returned counts only when no error ended the pass before.
Returned(w) ==
  IF w.mode # "handler" \/ \E f \in Flows : w.flow[f].phase # "stopped" THEN w
  ELSE [w EXCEPT !.mode = CASE w.phase = "rolling" -> "deciding"
                            [] w.phase = "forward" /\ w.ended -> "over"
                            [] OTHER -> "completing"]

\* The flow goes on after its call, to the next one or to its end.
Proceed(w, f) ==
  IF w.flow[f].at < Len(Program[f])
  THEN [w EXCEPT !.flow[f] = [at |-> @.at + 1, phase |-> "ready"]]
  ELSE Returned(Flow(w, f, "stopped"))

\* The call throws: its caller catches that, or the flow stops and the function with it.
Throw(w, f, e) ==
  IF e \in Catches[Current(w, f)] THEN Proceed(w, f)
  ELSE IF w.mode = "handler" THEN EndedBy(Flow(w, f, "stopped"), f, e)
  ELSE Flow(w, f, "stopped")

Register(w, s) == IF s \in Registered THEN [w EXCEPT !.registered = @ \cup {s}] ELSE w

\* A store call of the pass: none is made after an error that ended it (#storeCall).
Calling(w, f, ph) == IF w.ended THEN Throw([w EXCEPT !.inStep = FALSE], f, "infra") ELSE Flow(w, f, ph)

FaultyTopIndex(w) ==  \* seeded bug: of the steps this pass has seen start
  Max({0} \cup {w.index[s] : s \in w.registered})
TopIndex(w) == Max({w.index[s] : s \in Calls})

\* The body begins: what it does to the world is not known until it returns.
Effect(s, what) == effect' = IF s \in Registered THEN [effect EXCEPT ![s] = what] ELSE effect
BodyBegins(s) == Effect(s, "there")

\* The flow's timer fires.
TimerFires(p, f) ==
  /\ Quiet(p) /\ In(p, f, "timer")
  /\ Set(p, Flow(worker[p], f, "ready"))
  /\ UNCHANGED <<store, history>>

\* ctx.step and ctx.sleepFor, up to the first await (enterDurableOp, #runStep, #suspendAt).
CallInsideAStep(p, f) ==
  /\ In(p, f, "ready") /\ worker[p].inStep
  /\ Set(p, Throw(worker[p], f, "fatal"))
  /\ UNCHANGED <<store, history>>

CallReplays(p, f) ==
  /\ In(p, f, "ready") /\ ~worker[p].inStep
  /\ LET w == worker[p]
         s == Current(w, f)
     IN  /\ s \in w.seen
         /\ Set(p, Proceed(Register(w, s), f))
  /\ UNCHANGED <<store, history>>

\* The forward phase is frozen: a step that started is still owed its rollback.
CallIsFrozen(p, f) ==
  /\ In(p, f, "ready") /\ ~worker[p].inStep
  /\ LET w == worker[p]
         s == Current(w, f)
     IN  /\ s \notin w.seen /\ w.phase = "rolling"
         /\ Set(p, Throw(IF w.index[s] > 0 THEN Register(w, s) ELSE w, f, "signal"))
  /\ UNCHANGED <<store, history>>

CallSleeps(p, f) ==
  /\ In(p, f, "ready") /\ ~worker[p].inStep
  /\ LET w == worker[p]
         s == Current(w, f)
     IN  /\ s \in Sleeps \ w.seen /\ w.phase = "forward"
         /\ Set(p, Throw(w, f, "sleep"))
  /\ UNCHANGED <<store, history>>

\* A registered step has its start marker stored before its body runs.
NeedsMarker(w, s) == s \in Registered /\ w.index[s] = 0

CallRuns(p, f) ==
  /\ In(p, f, "ready") /\ ~worker[p].inStep
  /\ LET w == worker[p]
         s == Current(w, f)
         in == [w EXCEPT !.inStep = TRUE]
     IN  /\ s \notin w.seen \cup Sleeps /\ w.phase = "forward"
         /\ \/ /\ NeedsMarker(w, s)
               /\ Set(p, Calling(in, f, "marking"))
               /\ UNCHANGED history
            \/ /\ ~NeedsMarker(w, s)
               /\ Set(p, Flow(Register(in, s), f, "body"))
               /\ BodyBegins(s)
               /\ UNCHANGED failedAs
  /\ UNCHANGED store

-----------------------------------------------------------------------------
(* The task's code, and the answers of the store.                          *)

BodyReturns(p, f) ==
  /\ Quiet(p) /\ In(p, f, "body")
  /\ Effect(Current(worker[p], f), "there")
  /\ Set(p, Calling([worker[p] EXCEPT !.inStep = FALSE], f, "storing"))
  /\ UNCHANGED <<store, failedAs>>

BodyThrows(p, f) ==
  /\ Quiet(p) /\ In(p, f, "body")
  /\ \E e \in {"user", "fatal"} : Set(p, Throw([worker[p] EXCEPT !.inStep = FALSE], f, e))
  /\ UNCHANGED <<store, history>>

\* A checkpoint is written by the holder of the claim, in the phase its name belongs to.
Admitted(p) == owner = p /\ worker[p].phase = phase

MarkerLands(p, f) ==
  /\ Admitted(p)
  /\ started' = [started EXCEPT ![Current(worker[p], f)] = TopIndex(worker[p]) + 1]
  /\ UNCHANGED <<state, attempt, infra, owner, phase, back, tries, done>>

ResultLands(p, f) ==
  /\ Admitted(p)
  /\ done' = done \cup {Current(worker[p], f)}
  /\ UNCHANGED <<state, attempt, infra, owner, saga>>

MarkerAnswers(p, f) ==
  /\ Quiet(p) /\ In(p, f, "marking")
  /\ MarkerLands(p, f)
  /\ LET w == worker[p]
     IN  Set(p, Flow([w EXCEPT !.index[Current(w, f)] = TopIndex(w) + 1], f, "marked"))
  /\ UNCHANGED history

\* The answer reaches the pass, whatever happened to its claim meanwhile.
BodyStarts(p, f) ==
  /\ Quiet(p) /\ In(p, f, "marked")
  /\ Set(p, Flow(Register(worker[p], Current(worker[p], f)), f, "body"))
  /\ BodyBegins(Current(worker[p], f))
  /\ UNCHANGED <<store, failedAs>>

ResultAnswers(p, f) ==
  /\ Quiet(p) /\ In(p, f, "storing")
  /\ ResultLands(p, f)
  /\ LET w == worker[p] IN Set(p, Proceed([w EXCEPT !.seen = @ \cup {Current(w, f)}], f))
  /\ UNCHANGED history

\* The write is refused, or its answer is an outage, before or after it landed.
WriteFails(p, f) ==
  /\ Quiet(p)
  /\ \/ /\ In(p, f, "marking")
        /\ MarkerLands(p, f) \/ UNCHANGED store
        /\ Set(p, Throw([worker[p] EXCEPT !.ended = TRUE, !.inStep = FALSE], f, "infra"))
     \/ /\ In(p, f, "storing")
        /\ ResultLands(p, f) \/ UNCHANGED store
        /\ Set(p, Throw([worker[p] EXCEPT !.ended = TRUE], f, "infra"))
  /\ UNCHANGED history

-----------------------------------------------------------------------------
(* The end of a pass, and the rollbacks (rollBack, nextRollback, runRollback). *)

InMode(p, m) == Quiet(p) /\ worker[p].mode = m

\* A failed rollback is counted in the write that ends its pass.
RollbackCounted(w) ==
  /\ tries' = [tries EXCEPT ![w.step] = @ + 1]
  /\ IF w.retry THEN Successor
     ELSE state' = "failed" /\ owner' = NoWorker /\ UNCHANGED attempt
  /\ UNCHANGED <<infra, started, phase, back, done, failedAs>>

FaultyParkLands(w) == owner' = NoWorker /\ UNCHANGED done  \* seeded bug: a park without its marker
ParkLands(w) == owner' = NoWorker /\ done' = done \cup {w.step}

PassLands(p) ==
  LET w == worker[p]
  IN  /\ Admitted(p)
      /\ \/ /\ w.mode \in {"completing", "ending"}
            /\ state' = IF w.mode = "completing" THEN "completed" ELSE "failed"
            /\ owner' = NoWorker
            /\ UNCHANGED <<attempt, infra, saga, done, failedAs>>
         \/ /\ w.mode = "parking"
            /\ ParkLands(w)
            /\ UNCHANGED <<state, attempt, infra, saga, failedAs>>
         \/ /\ w.mode = "failing" /\ w.retry
            /\ Successor
            /\ UNCHANGED <<infra, saga, done, failedAs>>
         \/ /\ w.mode = "failing" /\ ~w.retry
            /\ TerminalDecision
            /\ UNCHANGED <<infra, started, back, tries, done>>
         \/ w.mode = "counting" /\ RollbackCounted(w)

\* The one write that ends the pass lands, or it does not; either way the pass is over.
PassEnds(p) ==
  /\ Quiet(p) /\ worker[p].mode \in {"completing", "failing", "parking", "counting", "ending"}
  /\ PassLands(p) \/ UNCHANGED <<store, failedAs>>
  /\ Set(p, [worker[p] EXCEPT !.mode = "over"])
  /\ UNCHANGED effect

FaultyOwed(w) ==  \* seeded bug: what the replay missed is not owed
  {s \in w.registered : w.index[s] > 0} \ w.back
Owed(w) == {s \in Calls : w.index[s] > 0} \ w.back
StartedLast(w) == CHOOSE s \in Owed(w) : \A t \in Owed(w) : w.index[t] <= w.index[s]

\* The replay has settled: the step that started last is undone next, if the replay
\* registered its rollback; if it did not, the saga halts.
NextRollback(p) ==
  /\ InMode(p, "deciding")
  /\ LET w == worker[p]
     IN  Set(p, CASE Owed(w) = {} -> [w EXCEPT !.mode = "ending"]
                  [] Owed(w) # {} /\ StartedLast(w) \in w.registered ->
                       [w EXCEPT !.mode = "undoing", !.step = StartedLast(w), !.inStep = TRUE]
                  [] OTHER ->
                       [w EXCEPT !.mode = "counting", !.step = StartedLast(w), !.retry = FALSE])
  /\ UNCHANGED <<store, history>>

UndoReturns(p) ==
  /\ InMode(p, "undoing")
  /\ Effect(worker[p].step, "gone")
  /\ Set(p, [worker[p] EXCEPT !.mode = "recording", !.inStep = FALSE])
  /\ UNCHANGED <<store, failedAs>>

MayRetry(w) == w.tries[w.step] + 1 < RollbackAttempts

UndoThrows(p) ==
  /\ InMode(p, "undoing")
  /\ LET w == worker[p]
     IN  \E e \in {"user", "fatal"} :
           Set(p, [w EXCEPT !.mode = "counting", !.inStep = FALSE,
                            !.retry = e = "user" /\ MayRetry(w)])
  /\ UNCHANGED <<store, history>>

RollbackLands(p) ==
  /\ Admitted(p)
  /\ back' = back \cup {worker[p].step}
  /\ UNCHANGED <<state, attempt, infra, owner, started, phase, tries, done>>

RollbackRecorded(p) ==
  /\ InMode(p, "recording")
  /\ RollbackLands(p)
  /\ LET w == worker[p]
     IN  Set(p, [w EXCEPT !.mode = "deciding", !.step = NoStep, !.back = @ \cup {w.step}])
  /\ UNCHANGED history

RecordFails(p) ==
  /\ InMode(p, "recording")
  /\ RollbackLands(p) \/ UNCHANGED store
  /\ Set(p, [worker[p] EXCEPT !.mode = "over", !.ended = TRUE])
  /\ UNCHANGED history

\* The process of the worker ends, in the middle of whatever it does.
Dies(p) ==
  /\ worker[p] # Gone
  /\ worker' = [worker EXCEPT ![p] = Gone]
  /\ UNCHANGED <<store, history>>

FlowStep(p, f) ==
  \/ TimerFires(p, f)
  \/ CallInsideAStep(p, f) \/ CallReplays(p, f) \/ CallIsFrozen(p, f)
  \/ CallSleeps(p, f) \/ CallRuns(p, f)
  \/ BodyStarts(p, f) \/ BodyReturns(p, f) \/ BodyThrows(p, f)
  \/ MarkerAnswers(p, f) \/ ResultAnswers(p, f) \/ WriteFails(p, f)

PassStep(p) ==
  \/ PassEnds(p)
  \/ NextRollback(p) \/ UndoReturns(p) \/ UndoThrows(p)
  \/ RollbackRecorded(p) \/ RecordFails(p)

Abandoned == owner # NoWorker /\ (worker[owner] = Gone \/ worker[owner].mode = "over")

\* What goes on by itself: a due run is claimed, the run of a worker that beats no more is
\* swept, bodies and rollbacks end, every call is answered.
Progress ==
  \/ \E p \in Workers : Claim(p) \/ PassStep(p)
  \/ \E p \in Workers, f \in Flows : FlowStep(p, f)
  \/ Abandoned /\ Sweep

Next ==
  \/ Progress
  \/ \E p \in Workers : Dies(p)
  \/ Sweep

Spec == Init /\ [][Next]_vars

\* Of all this something happens, as long as something can: WF_vars(Progress), with its guard
\* spelled out, which is cheaper to check than ENABLED.
CanProgress == state = "live" \/ \E p \in Workers : worker[p] # Gone
Fairness == <>[]CanProgress => []<><<Progress>>_vars
FairSpec == Spec /\ Fairness

-----------------------------------------------------------------------------
(* Properties.                                                             *)

Undoing(p, s) == worker[p] # Gone /\ worker[p].mode = "undoing" /\ worker[p].step = s

\* A rollback runs only when every step that started after its own has been undone for good,
\* whichever pass runs it, one that has lost its claim included: start indexes handed out by
\* several passes are one order, and it is the reverse of that order (context.ts:780-818).
UndoneInReverse ==
  [][\A p \in Workers, s \in Registered :
       ~Undoing(p, s) /\ Undoing(p, s)' =>
         \A t \in Registered \ {s} : started[t] > 0 /\ started[t] >= started[s] => t \in back]_vars

\* Every rollback pass replays as the run that failed, though its ordinal counts the passes
\* and the infrastructure retries since (context.ts:341-348): a step named after the
\* attempt finds its memo.
RollsBackAsTheRunThatFailed ==
  \A p \in Workers :
    worker[p] # Gone /\ worker[p].phase = "rolling" /\ worker[p].mode # "over"
      => worker[p].attempt = failedAs

\* A failed task owes nothing that is not accounted for: the rollback of every registered
\* step whose body ever began, in any pass, is on record, or a later one is the reason it is
\* not: the infrastructure budget is spent, or the step the saga stopped at has a failed
\* attempt on record, the one the task's result reports (context.ts:780-818).
\* It does not say that a body ran before its rollback: one whose answer comes late, in a
\* pass that has lost its claim, may run after it.
EveryStepIsAccountedFor ==
  LET begun == {s \in Registered : effect[s] # "none"}
      left == {s \in Registered : (started[s] > 0 \/ s \in begun) /\ s \notin back}
  IN  state = "failed" /\ left # {} =>
        \/ phase = "rolling" /\ infra = InfraCap
        \/ \E s \in left : tries[s] > 0 /\ \A t \in left : started[t] \in 1..started[s]

\* Why, in each pass and in the records: one flow at a time is inside a step, and its marker
\* is on record before the body begins (enterDurableOp, context.ts:593-602).
Inside(w, f) == w.flow[f].phase \in {"marking", "marked", "body"}
OneStep(w, f) ==
  LET ph == w.flow[f].phase
      s == Current(w, f)
  IN  /\ Inside(w, f) => w.inStep /\ \A g \in Flows \ {f} : ~Inside(w, g)
      /\ Inside(w, f) \/ ph = "storing" => w.phase = "forward"
      /\ ph = "marking" => s \in Registered /\ w.index[s] = 0
      /\ ph \in {"marked", "body"} /\ s \in Registered => w.index[s] > 0

\* The call that ends a pass belongs to the phase it runs in; a rollback pass is at the step
\* that started last among those it owes.
EndsAsItsPhaseAsks(w) ==
  /\ w.mode \in {"failing", "completing", "parking"} => w.phase = "forward"
  /\ w.mode \in {"deciding", "undoing", "recording", "counting", "ending"} => w.phase = "rolling"
  /\ w.mode = "parking" => w.step \in Calls
  /\ w.mode \in {"undoing", "recording", "counting"} =>
       w.step \in Owed(w) /\ \A s \in Owed(w) : w.index[s] <= w.index[w.step]
  /\ w.mode = "ending" => Owed(w) = {}
  /\ w.mode = "counting" /\ w.retry => MayRetry(w)

\* What a pass knows of the saga is true, and a rollback pass knows every step that started.
KnowsTheSaga(w) ==
  /\ \A s \in Calls : w.index[s] > 0 => w.index[s] = started[s]
  /\ w.back \subseteq back
  /\ w.phase = "rolling" =>
       /\ phase = "rolling" /\ w.index = started
       /\ w.mode # "over" => w.attempt = failedAs

\* The holder of the claim knows all of it, until a write of its own fails.
HolderIsCurrent(w) ==
  /\ w.phase = phase
  /\ ~w.ended \/ (\E f \in Flows : w.flow[f].phase = "marking") => w.index = started
  /\ w.mode # "over" => w.back = back /\ w.tries = tries

PassesInv ==
  \A p \in Workers : worker[p] # Gone =>
    /\ \A f \in Flows : OneStep(worker[p], f)
    /\ EndsAsItsPhaseAsks(worker[p]) /\ KnowsTheSaga(worker[p])
    /\ owner = p => HolderIsCurrent(worker[p])

\* The records of the saga: start indexes are one order, and at most as many as the steps
\* that started; what a rollback costs is counted against the run that failed.
SagaInv ==
  /\ state # "live" => owner = NoWorker
  /\ phase = "forward" => back = {} /\ \A s \in Calls : tries[s] = 0
  /\ state = "live" => \A s \in Calls : tries[s] < RollbackAttempts
  /\ state = "live" /\ phase = "rolling" => PassAttempt = failedAs
  /\ \A s \in Calls : started[s] > 0 =>
       s \in Registered /\ started[s] <= Cardinality({t \in Calls : started[t] > 0})
  /\ \A s, t \in Calls : started[s] > 0 /\ started[s] = started[t] => s = t
  /\ \A s \in Registered : effect[s] # "none" => started[s] > 0

\* With its types, the bound on a rollback's failed attempts among them, and the invariants of
\* the passes and of the records it rests on: an inductive invariant (StepsProofs).
StepsInv == TypeOK /\ PassesInv /\ SagaInv /\ EveryStepIsAccountedFor

\* Every task ends, in its saga or before it: no error, park, death or lost answer in a pass
\* makes its successors repeat it for ever, and a rolling-back task gets to its end.
TaskEnds == <>(state # "live")
=============================================================================
