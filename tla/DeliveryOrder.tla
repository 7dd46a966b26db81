--------------------------- MODULE DeliveryOrder ---------------------------
(* The order in which a pass hands the results of durable calls to the task    *)
(* function (sdk/src/delivery-order.ts): a queue of numbers, as a record and   *)
(* the functions on it that the methods of the class are.                      *)
EXTENDS Integers, Sequences, FiniteSets

\* COMPACT_AT: how far the head moves before the queue is rebuilt.
CONSTANT CompactAt
ASSUME CompactAtAssumption == CompactAt \in Nat \ {0}

\* The fields of the class.  `waiting` are the numbers whose call waits and was
\* not woken; `moved` says that #progress is past #beatProgress; `turns` counts the
\* settleAfter calls that still run, of which the first to end clears `settling`;
\* `skipped` is history: the numbers a beat gave up, which the class knows as done.
Orders(maxSeq) ==
  [queue : Seq(1 .. maxSeq), head : Nat, floor : 0 .. maxSeq + 1, done : SUBSET (1 .. maxSeq),
   waiting : SUBSET (1 .. maxSeq), next : 1 .. maxSeq + 1, firstLive : 1 .. maxSeq + 1,
   open : BOOLEAN, draining : BOOLEAN, settling : BOOLEAN, moved : BOOLEAN, ended : BOOLEAN,
   turns : Nat, skipped : SUBSET (1 .. maxSeq)]

NewOrder(recorded, highest) ==
  [queue |-> recorded, head |-> 1, floor |-> 0, done |-> {}, waiting |-> {},
   next |-> highest + 1, firstLive |-> highest + 1, open |-> FALSE, draining |-> FALSE,
   settling |-> FALSE, moved |-> FALSE, ended |-> FALSE, turns |-> 0,
   skipped |-> {}]

Assign(o) == [o EXCEPT !.next = @ + 1, !.queue = Append(@, o.next)]

\* The number of a sleep, which is never queued.
Reserve(o) == [o EXCEPT !.next = @ + 1]

\* The first place from the head on whose number is not in `gone`.
FirstPlace(o, gone) ==
  CHOOSE i \in o.head .. Len(o.queue) + 1 :
    /\ i <= Len(o.queue) => o.queue[i] \notin gone
    /\ \A j \in o.head .. i - 1 : o.queue[j] \in gone

Advance(o) ==
  LET i == FirstPlace(o, o.done)
      passed == {o.queue[j] : j \in o.head .. i - 1}
      moved == [o EXCEPT !.head = i, !.done = @ \ passed,
                         !.floor = IF i = o.head THEN @ ELSE o.queue[i - 1] + 1]
  IN IF i > CompactAt
     THEN [moved EXCEPT !.queue = SubSeq(@, i, Len(@)), !.head = 1]
     ELSE moved

HasHead(o) == o.head <= Len(o.queue)
HeadOf(o) == o.queue[o.head]

IsDone(o, seq) == seq < o.floor \/ seq \in o.done

\* Seeded bug: the turn of the event loop that is owed is forgotten.
FaultyIsTurn(o, seq) == HasHead(Advance(o)) /\ HeadOf(Advance(o)) = seq

IsTurn(o, seq) == HasHead(Advance(o)) /\ HeadOf(Advance(o)) = seq /\ ~o.settling

\* wait() answers undefined: the call goes on at once.
Goes(o, seq) == o.open \/ IsDone(o, seq) \/ IsTurn(o, seq)

Wait(o, seq) ==
  LET a == IF o.open \/ IsDone(o, seq) THEN o ELSE Advance(o)
  IN IF Goes(o, seq) THEN a
     ELSE [a EXCEPT !.moved = @ /\ o.waiting # {}, !.waiting = @ \cup {seq}]

\* The loop of wake(): the recorded numbers a drain gives up before it meets a
\* call that waits or a number this pass gave, and then the call at the head.
FaultyDrained(o) ==  \* seeded bug: a number this pass gave is given up too
  {seq \in 1 .. o.next - 1 : o.draining /\ seq \notin o.waiting}
Drained(o) == {seq \in 1 .. o.firstLive - 1 : o.draining /\ seq \notin o.waiting}

Wake(o) ==
  LET a == Advance(o)
      i == FirstPlace(a, a.done \cup Drained(a))
      given == {a.queue[j] : j \in a.head .. i - 1} \ a.done
      b == Advance([a EXCEPT !.done = @ \cup given, !.skipped = @ \cup given])
  IN CASE a.settling -> a
       [] ~a.settling /\ a.waiting = {} -> [a EXCEPT !.draining = FALSE]
       [] OTHER -> IF HasHead(b) THEN [b EXCEPT !.waiting = @ \ {HeadOf(b)}] ELSE b

\* `seq` is handed over; with `settle` a turn of the event loop is owed.
Release(o, seq, settle) ==
  LET r == [o EXCEPT !.done = @ \cup {seq}, !.moved = TRUE]
  IN IF settle THEN [r EXCEPT !.settling = TRUE, !.turns = @ + 1] ELSE Wake(r)

\* Seeded bug: nobody is woken after the turn.
FaultyEndTurn(o) == [o EXCEPT !.settling = FALSE, !.turns = @ - 1]

\* settleAfter, once the turn was taken.
EndTurn(o) == Wake([o EXCEPT !.settling = FALSE, !.turns = @ - 1])

Abandon(o, seq) == Wake([o EXCEPT !.done = @ \cup {seq}])

Open(o) == [o EXCEPT !.open = TRUE, !.waiting = {}]

End(o) == Open([o EXCEPT !.ended = TRUE])

\* Seeded bug: the stuck queue drains at the next wake, which never comes.
FaultyBeat(o) ==
  IF o.waiting # {} /\ ~o.moved THEN [o EXCEPT !.draining = TRUE]
  ELSE [o EXCEPT !.moved = FALSE]

Beat(o) ==
  IF o.waiting # {} /\ ~o.moved
  THEN Wake([o EXCEPT !.draining = TRUE])
  ELSE [o EXCEPT !.moved = FALSE]
-----------------------------------------------------------------------------
\* The numbers of the queue that were neither handed over nor given up.
Undone(o) == {o.queue[i] : i \in o.head .. Len(o.queue)} \ o.done

IsNext(o, seq) == seq \in Undone(o) /\ \A n \in Undone(o) : seq <= n

\* The queue ascends, the floor parts what the head has passed from the rest, and
\* the next number is new.
IsOrder(o, maxSeq) ==
  /\ o \in Orders(maxSeq)
  /\ o.head \in 1 .. Len(o.queue) + 1
  /\ \A i, j \in DOMAIN o.queue : i < j => o.queue[i] < o.queue[j]
  /\ \A i \in DOMAIN o.queue : o.queue[i] < o.next /\ (i < o.head <=> o.queue[i] < o.floor)
  /\ o.floor <= o.next /\ o.firstLive <= o.next
  /\ o.done \subseteq 1 .. o.next - 1 /\ o.waiting \subseteq 1 .. o.next - 1
  /\ o.ended => o.open
  /\ o.open => o.waiting = {}
  /\ o.settling => o.turns > 0
  /\ \A seq \in o.skipped : IsDone(o, seq)
=============================================================================
