---------------------------- MODULE ReplayProofs -----------------------------
(* Replay's theorems, for any number of flows and of passes, whatever fails and  *)
(* lands late.  PassInv, what a pass keeps to, holds of every task; SteadyInv,   *)
(* what the passes of a steady task agree on, rests on it, since the order in    *)
(* which results are handed over is the order in which the spawns are numbered.  *)
EXTENDS Replay, FiniteSetTheorems, SequenceTheorems, WellFoundedInduction, TLAPS

-----------------------------------------------------------------------------
(* Numbers *)

\* A set of numbers has a least one.
LEMMA LeastNumber ==
  ASSUME NEW Z \in SUBSET Nat, Z # {}
  PROVE  \E x \in Z : \A y \in Z : x <= y
<1> DEFINE R == OpToRel(<, Nat)
<1>1. IsWellFoundedOn(R, Nat)
  BY NatLessThanWellFounded
<1>2. PICK x \in Z : \A y \in Z : <<y, x>> \notin R
  <2> HIDE DEF R
  <2> QED BY <1>1, WFMin
<1>3. \A y \in Z : ~(y < x)
  BY <1>2 DEF OpToRel
<1> QED BY <1>3

\* A bounded set of numbers has a greatest one.
LEMMA GreatestNumber ==
  ASSUME NEW n \in Nat, NEW Z \in SUBSET (0 .. n), Z # {}
  PROVE  \E x \in Z : \A y \in Z : y <= x
<1> DEFINE D == {n - z : z \in Z}
<1>1. D \in SUBSET Nat /\ D # {}
  OBVIOUS
<1> HIDE DEF D
<1>2. PICK d \in D : \A e \in D : d <= e
  BY <1>1, LeastNumber
<1>3. PICK x \in Z : d = n - x
  BY DEF D
<1>4. \A y \in Z : d <= n - y
  BY <1>2 DEF D
<1> QED BY <1>3, <1>4

\* What FiniteSetsExt says of a maximum, for a bounded set of numbers.
LEMMA MaxIs ==
  ASSUME NEW n \in Nat, NEW Z \in SUBSET (0 .. n), Z # {}
  PROVE  Max(Z) \in Z /\ \A y \in Z : y <= Max(Z)
<1>1. \E x \in Z : \A y \in Z : x >= y
  BY GreatestNumber
<1> QED BY <1>1 DEF Max

-----------------------------------------------------------------------------
(* The operations of the queue *)

\* The head skips the numbers that are gone, and no other.
LEMMA FirstPlaceIs ==
  ASSUME NEW m \in Nat, NEW o, IsOrder(o, m), NEW gone
  PROVE  LET i == FirstPlace(o, gone)
         IN  /\ i \in o.head .. Len(o.queue) + 1
             /\ i <= Len(o.queue) => o.queue[i] \notin gone
             /\ \A j \in o.head .. i - 1 : o.queue[j] \in gone
<1> DEFINE Z == {i \in o.head .. Len(o.queue) + 1 : i <= Len(o.queue) => o.queue[i] \notin gone}
<1>1. o.head \in Nat /\ Len(o.queue) \in Nat /\ o.head <= Len(o.queue) + 1
  BY DEF IsOrder, Orders
<1>2. Z \in SUBSET Nat /\ Len(o.queue) + 1 \in Z
  BY <1>1
<1>3. PICK i \in Z : \A j \in Z : i <= j
  <2> HIDE DEF Z
  <2> QED BY <1>2, LeastNumber
<1>4. \A j \in o.head .. i - 1 : o.queue[j] \in gone
  BY <1>1, <1>3
<1>5. \E k \in o.head .. Len(o.queue) + 1 :
        /\ k <= Len(o.queue) => o.queue[k] \notin gone
        /\ \A j \in o.head .. k - 1 : o.queue[j] \in gone
  BY <1>3, <1>4
<1> QED BY <1>5 DEF FirstPlace

\* The part of the queue that a rebuild keeps.
LEMMA TailIs ==
  ASSUME NEW m \in Nat, NEW q \in Seq(1 .. m), NEW h \in 1 .. Len(q) + 1
  PROVE  LET t == SubSeq(q, h, Len(q))
         IN  /\ t \in Seq(1 .. m) /\ Len(t) = Len(q) - h + 1
             /\ \A j \in 1 .. Len(t) : t[j] = q[j + h - 1] /\ j + h - 1 \in h .. Len(q)
<1>1. Len(q) \in Nat /\ DOMAIN q = 1 .. Len(q) /\ \A j \in 1 .. Len(q) : q[j] \in 1 .. m
  OBVIOUS
<1>2. CASE h <= Len(q)
  <2>1. \A j \in 1 .. Len(q) - h + 1 : j + h - 1 \in h .. Len(q)
    BY <1>1
  <2>2. /\ Len(SubSeq(q, h, Len(q))) = Len(q) - h + 1
        /\ \A j \in 1 .. Len(q) - h + 1 : SubSeq(q, h, Len(q))[j] = q[h + j - 1]
    BY <1>1, <1>2, SubSeqProperties
  <2> QED BY <1>1, <1>2, <2>1, <2>2, SubSeqProperties
<1>3. CASE h = Len(q) + 1
  <2>1. SubSeq(q, h, Len(q)) = << >>
    BY <1>1, <1>3, SubSeqProperties
  <2> QED BY <1>1, <1>3, <2>1
<1> QED BY <1>1, <1>2, <1>3

\* The floor goes with the head: it still parts what was passed from what is to come.
LEMMA FloorIs ==
  ASSUME NEW m \in Nat, NEW q \in Seq(1 .. m), NEW h \in 1 .. Len(q) + 1,
         NEW fl \in 0 .. m + 1, NEW next \in 1 .. m + 1, fl <= next,
         \A i, j \in DOMAIN q : i < j => q[i] < q[j],
         \A j \in DOMAIN q : q[j] < next /\ (j < h <=> q[j] < fl),
         NEW i \in h .. Len(q) + 1
  PROVE  LET f == IF i = h THEN fl ELSE q[i - 1] + 1
         IN  /\ f \in 0 .. m + 1 /\ f <= next
             /\ \A j \in DOMAIN q : q[j] < next /\ (j < i <=> q[j] < f)
<1>1. Len(q) \in Nat /\ DOMAIN q = 1 .. Len(q) /\ \A j \in 1 .. Len(q) : q[j] \in 1 .. m
  OBVIOUS
<1>4. \A a, b \in 1 .. Len(q) : a < b => q[a] < q[b]
  BY <1>1
<1>2. CASE i = h
  BY <1>2
<1>3. CASE i # h
  <2>0. i - 1 \in 1 .. Len(q) /\ i \in Nat /\ i - 1 < i
    BY <1>1, <1>3
  <2> DEFINE k == i - 1
  <2> HIDE DEF k
  <2>1. k \in 1 .. Len(q) /\ q[k] \in 1 .. m /\ q[k] < next
    BY <1>1, <2>0 DEF k
  <2>2. \A j \in 1 .. Len(q) : j < i <=> q[j] <= q[k]
    <3> TAKE j \in 1 .. Len(q)
    <3>1. q[j] \in 1 .. m
      BY <1>1
    <3>2. CASE j < k
      <4>1. q[j] < q[k] /\ j < i
        BY <3>2, <2>0, <2>1, <1>1, <1>4 DEF k
      <4> QED BY <4>1, <3>1, <2>1
    <3>3. CASE j = k
      BY <3>1, <3>3, <2>0, <2>1 DEF k
    <3>4. CASE j > k
      <4>1. q[k] < q[j] /\ ~(j < i)
        BY <3>4, <2>0, <2>1, <1>1, <1>4 DEF k
      <4> QED BY <4>1, <3>1, <2>1
    <3> QED BY <3>2, <3>3, <3>4, <2>1, <1>1
  <2>3. \A j \in 1 .. Len(q) : j < i <=> q[j] < q[k] + 1
    <3> TAKE j \in 1 .. Len(q)
    <3>1. q[j] \in 1 .. m /\ (j < i <=> q[j] <= q[k])
      BY <1>1, <2>2
    <3> QED BY <3>1, <2>1
  <2> QED BY <2>1, <2>3, <1>1, <1>3 DEF k
<1> QED BY <1>2, <1>3

\* What an order consists of, with the types the steps below need.
LEMMA OrderIs ==
  ASSUME NEW m \in Nat, NEW o, IsOrder(o, m)
  PROVE  /\ o.queue \in Seq(1 .. m) /\ o.head \in 1 .. Len(o.queue) + 1 /\ o.head \in Nat
         /\ o.floor \in 0 .. m + 1 /\ o.next \in 1 .. m + 1 /\ o.firstLive \in 1 .. m + 1
         /\ o.floor <= o.next /\ o.firstLive <= o.next
         /\ Len(o.queue) \in Nat /\ DOMAIN o.queue = 1 .. Len(o.queue)
         /\ \A i \in DOMAIN o.queue : o.queue[i] \in 1 .. m /\ o.queue[i] < o.next
         /\ \A i, j \in DOMAIN o.queue : i < j => o.queue[i] < o.queue[j]
         /\ \A i \in DOMAIN o.queue : o.queue[i] < o.next /\ (i < o.head <=> o.queue[i] < o.floor)
         /\ o.done \subseteq 1 .. o.next - 1 /\ o.done \in SUBSET (1 .. m)
         /\ o.waiting \subseteq 1 .. o.next - 1 /\ o.waiting \in SUBSET (1 .. m) /\ o.skipped \in SUBSET (1 .. m)
         /\ {o.open, o.draining, o.settling, o.moved, o.ended} \subseteq BOOLEAN
         /\ o.turns \in Nat
BY DEF IsOrder, Orders

\* The numbers of an order, and how they compare.
LEMMA OrderNumbersAre ==
  ASSUME NEW m \in Nat, NEW o, IsOrder(o, m)
  PROVE  /\ o.head \in Nat /\ Len(o.queue) \in Nat /\ 1 <= o.head /\ o.head <= Len(o.queue) + 1
         /\ o.floor \in Nat /\ o.next \in Nat /\ o.firstLive \in Nat /\ 1 <= o.next
         /\ o.floor <= o.next /\ o.firstLive <= o.next
BY OrderIs

\* Fields that the queue's own housekeeping leaves alone.
SameCalls(a, o) ==
  /\ a.waiting = o.waiting /\ a.next = o.next /\ a.firstLive = o.firstLive /\ a.open = o.open
  /\ a.settling = o.settling /\ a.ended = o.ended /\ a.turns = o.turns
\* The two orders agree on all but the place of the head.
Same(a, o) ==
  SameCalls(a, o) /\ a.draining = o.draining /\ a.moved = o.moved /\ a.skipped = o.skipped

\* The head moves to the first number that is not done.
HeadAt(o, i) ==
  [o EXCEPT !.head = i, !.done = @ \ {o.queue[j] : j \in o.head .. i - 1},
            !.floor = IF i = o.head THEN @ ELSE o.queue[i - 1] + 1]
\* The queue without what the head passed.
Rebuilt(o) == [o EXCEPT !.queue = SubSeq(@, o.head, Len(@)), !.head = 1]

\* A head that passes numbers which are done leaves the same numbers to come.
LEMMA HeadMoves ==
  ASSUME NEW m \in Nat, NEW o, IsOrder(o, m), NEW i \in o.head .. Len(o.queue) + 1,
         \A j \in o.head .. i - 1 : o.queue[j] \in o.done
  PROVE  LET a == HeadAt(o, i)
         IN  /\ IsOrder(a, m) /\ Undone(a) = Undone(o) /\ Same(a, o)
             /\ a.queue = o.queue /\ a.head = i
<1> DEFINE passed == {o.queue[j] : j \in o.head .. i - 1}
           done == o.done \ passed
           floor == IF i = o.head THEN o.floor ELSE o.queue[i - 1] + 1
           a == [o EXCEPT !.head = i, !.done = done, !.floor = floor]
<1>0. /\ o.queue \in Seq(1 .. m) /\ o.head \in 1 .. Len(o.queue) + 1
      /\ o.floor \in 0 .. m + 1 /\ o.next \in 1 .. m + 1 /\ o.floor <= o.next
      /\ \A j, k \in DOMAIN o.queue : j < k => o.queue[j] < o.queue[k]
      /\ \A j \in DOMAIN o.queue : o.queue[j] < o.next /\ (j < o.head <=> o.queue[j] < o.floor)
  BY OrderIs
<1>1. floor \in 0 .. m + 1 /\ floor <= o.next
      /\ \A j \in DOMAIN o.queue : o.queue[j] < o.next /\ (j < i <=> o.queue[j] < floor)
  BY <1>0, FloorIs
<1>2. Undone(o) = {o.queue[j] : j \in i .. Len(o.queue)} \ done
  <2>1. {o.queue[j] : j \in o.head .. Len(o.queue)} \ o.done
          = {o.queue[j] : j \in i .. Len(o.queue)} \ (o.done \ {o.queue[j] : j \in o.head .. i - 1})
    <3>1. /\ \A j \in o.head .. Len(o.queue) : j \in o.head .. i - 1 \/ j \in i .. Len(o.queue)
          /\ \A j \in i .. Len(o.queue) : j \in o.head .. Len(o.queue)
      BY OrderIs
    <3>2. \A j \in i .. Len(o.queue), k \in o.head .. i - 1 : o.queue[k] # o.queue[j]
      <4> TAKE j \in i .. Len(o.queue), k \in o.head .. i - 1
      <4>1. j \in 1 .. Len(o.queue) /\ k \in 1 .. Len(o.queue) /\ k < j
        BY <1>0, OrderIs
      <4>2. o.queue[k] \in Nat /\ o.queue[j] \in Nat
        BY <4>1, OrderIs
      <4>3. o.queue[k] < o.queue[j]
        BY <4>1, OrderIs
      <4> QED BY <4>2, <4>3
    <3> QED BY <3>1, <3>2
  <2> QED BY <2>1 DEF Undone
<1>3. i \in 1 .. Len(o.queue) + 1 /\ i \in Nat
  BY OrderIs
<1>4. o.floor <= floor /\ \A n \in passed : n < floor
  <2>1. CASE i = o.head
    BY <2>1, OrderIs
  <2>2. CASE i # o.head
    <3>1. \A j \in o.head .. i - 1 : j \in 1 .. Len(o.queue) /\ j < i
      BY <1>3, OrderIs
    <3>2. \A n \in passed : n < floor
      BY <3>1, <1>1, OrderIs
    <3>3. o.head \in 1 .. Len(o.queue) /\ o.head < i
      BY <2>2, <1>3, OrderIs
    <3>8. o.head \in DOMAIN o.queue /\ ~(o.head < o.head)
      BY <3>3, OrderIs
    <3>4. ~(o.queue[o.head] < o.floor) /\ o.queue[o.head] < floor
      BY <3>3, <3>8, <1>0, <1>1
    <3>5. o.queue[o.head] \in Nat
      BY <3>3, OrderIs
    <3>6. o.floor \in Nat /\ floor \in Nat
      BY <1>0, <1>1
    <3>7. o.floor <= floor
      BY <3>4, <3>5, <3>6
    <3> QED BY <3>2, <3>7
  <2> QED BY <2>1, <2>2
<1>5. done \subseteq 1 .. o.next - 1 /\ done \in SUBSET (1 .. m)
  BY OrderIs
<1> HIDE DEF floor, done
<1>6. o \in Orders(m)
  BY DEF IsOrder
<1>7. /\ a.queue = o.queue /\ a.head = i /\ a.done = done /\ a.floor = floor
      /\ Same(a, o) /\ a \in Orders(m)
  BY <1>1, <1>3, <1>5, <1>6 DEF Orders, Same, SameCalls
<1> HIDE DEF a
<1>8. \A seq \in o.skipped : IsDone(a, seq)
  <2>1. \A seq \in o.skipped : IsDone(o, seq) /\ seq \in Nat
    BY OrderIs DEF IsOrder
  <2> QED BY <2>1, <1>1, <1>4, <1>7, OrderIs DEF IsDone, done
<1>9. IsOrder(a, m)
  BY <1>1, <1>3, <1>5, <1>7, <1>8 DEF IsOrder, Same, SameCalls
<1>10. Undone(a) = Undone(o)
  BY <1>2, <1>7 DEF Undone
<1> QED BY <1>7, <1>9, <1>10 DEF a, floor, done, HeadAt

\* What the head has passed is dropped.
LEMMA QueueIsRebuilt ==
  ASSUME NEW m \in Nat, NEW o, IsOrder(o, m)
  PROVE  LET a == Rebuilt(o)
         IN  /\ IsOrder(a, m) /\ Undone(a) = Undone(o) /\ Same(a, o)
             /\ HasHead(a) <=> HasHead(o)
             /\ HasHead(o) => HeadOf(a) = HeadOf(o)
<1> DEFINE q == SubSeq(o.queue, o.head, Len(o.queue))
           a == [o EXCEPT !.queue = q, !.head = 1]
<1>0. /\ o.queue \in Seq(1 .. m) /\ o.head \in 1 .. Len(o.queue) + 1 /\ o.head \in Nat
      /\ Len(o.queue) \in Nat
  BY OrderIs
<1>1. /\ q \in Seq(1 .. m) /\ Len(q) = Len(o.queue) - o.head + 1
  BY <1>0, TailIs
<1>13. \A j \in 1 .. Len(q) : q[j] = o.queue[j + o.head - 1] /\ j + o.head - 1 \in o.head .. Len(o.queue)
  BY <1>0, TailIs
<1> HIDE DEF q
<1>2. DOMAIN q = 1 .. Len(q) /\ Len(q) \in Nat
  BY <1>1
<1>3. o \in Orders(m)
  BY DEF IsOrder
<1>4. a.queue = q /\ a.head = 1 /\ a.done = o.done /\ a.floor = o.floor /\ Same(a, o) /\ a \in Orders(m)
  BY <1>1, <1>3 DEF Orders, Same, SameCalls
<1> HIDE DEF a
<1>5. 1 \in 1 .. Len(q) + 1
  BY <1>2
<1>6. \A j, k \in DOMAIN q : j < k => q[j] < q[k]
  <2> SUFFICES ASSUME NEW j \in 1 .. Len(q), NEW k \in 1 .. Len(q), j < k
               PROVE  q[j] < q[k]
    BY <1>2
  <2>1. /\ j + o.head - 1 \in 1 .. Len(o.queue) /\ k + o.head - 1 \in 1 .. Len(o.queue)
        /\ j + o.head - 1 < k + o.head - 1
    <3>1. j + o.head - 1 \in o.head .. Len(o.queue) /\ k + o.head - 1 \in o.head .. Len(o.queue)
      BY <1>13
    <3> QED BY <1>0, <1>2, <3>1
  <2>2. o.queue[j + o.head - 1] < o.queue[k + o.head - 1]
    BY <2>1, OrderIs
  <2> QED BY <2>2, <1>13
<1>7. \A j \in DOMAIN q : q[j] < o.next /\ (j < 1 <=> q[j] < o.floor)
  <2> SUFFICES ASSUME NEW j \in 1 .. Len(q)
               PROVE  q[j] < o.next /\ ~(q[j] < o.floor)
    BY <1>2
  <2>1. j + o.head - 1 \in 1 .. Len(o.queue) /\ ~(j + o.head - 1 < o.head)
    BY <1>0, <1>13
  <2> QED BY <2>1, <1>13, OrderIs
<1>8. \A seq \in o.skipped : IsDone(a, seq)
  BY <1>4 DEF IsOrder, IsDone
<1>9. IsOrder(a, m)
  BY <1>4, <1>5, <1>6, <1>7, <1>8 DEF IsOrder, Same, SameCalls
<1>10. {q[j] : j \in 1 .. Len(q)} = {o.queue[j] : j \in o.head .. Len(o.queue)}
  <2>1. \A j \in o.head .. Len(o.queue) : \E k \in 1 .. Len(q) : q[k] = o.queue[j]
    <3> TAKE j \in o.head .. Len(o.queue)
    <3> DEFINE k == j - o.head + 1
    <3>1. k \in 1 .. Len(o.queue) - o.head + 1 /\ k + o.head - 1 = j
      <4>1. o.head \in Nat /\ Len(o.queue) \in Nat
        BY <1>0
      <4> QED BY <4>1
    <3> HIDE DEF k
    <3>2. k \in 1 .. Len(q)
      BY <3>1, <1>1
    <3>3. q[k] = o.queue[k + o.head - 1]
      BY <3>2, <1>13
    <3>4. q[k] = o.queue[j]
      BY <3>1, <3>3
    <3> QED BY <3>2, <3>4
  <2>2. \A j \in 1 .. Len(q) : \E k \in o.head .. Len(o.queue) : q[j] = o.queue[k]
    BY <1>13
  <2>3. ASSUME NEW n \in {o.queue[j] : j \in o.head .. Len(o.queue)}
        PROVE  n \in {q[j] : j \in 1 .. Len(q)}
    <3>1. PICK j \in o.head .. Len(o.queue) : n = o.queue[j]
      OBVIOUS
    <3>2. PICK k \in 1 .. Len(q) : q[k] = o.queue[j]
      BY <2>1
    <3> QED BY <3>1, <3>2
  <2>4. ASSUME NEW n \in {q[j] : j \in 1 .. Len(q)}
        PROVE  n \in {o.queue[j] : j \in o.head .. Len(o.queue)}
    <3>1. PICK j \in 1 .. Len(q) : n = q[j]
      OBVIOUS
    <3>2. PICK k \in o.head .. Len(o.queue) : q[j] = o.queue[k]
      BY <2>2
    <3> QED BY <3>1, <3>2
  <2> QED BY <2>3, <2>4
<1>11. Undone(a) = Undone(o)
  BY <1>4, <1>10 DEF Undone
<1>12. (HasHead(a) <=> HasHead(o)) /\ (HasHead(o) => HeadOf(a) = HeadOf(o))
  <2>1. HasHead(a) <=> HasHead(o)
    BY <1>0, <1>1, <1>4 DEF HasHead
  <2>2. ASSUME HasHead(o) PROVE q[1] = o.queue[o.head]
    <3>1. 1 \in 1 .. Len(q) /\ 1 + o.head - 1 = o.head
      BY <1>0, <1>1, <2>2 DEF HasHead
    <3> QED BY <3>1, <1>13
  <2> QED BY <2>1, <2>2, <1>4 DEF HeadOf
<1> QED BY <1>4, <1>9, <1>11, <1>12 DEF a, q, Rebuilt

\* advance() drops what is done from the front; what is then at the head is the
\* least number that is not done, if there is one.
LEMMA AdvanceIs ==
  ASSUME NEW m \in Nat, NEW o, IsOrder(o, m)
  PROVE  LET a == Advance(o)
         IN  /\ IsOrder(a, m) /\ Undone(a) = Undone(o) /\ Same(a, o)
             /\ HasHead(a) <=> Undone(o) # {}
             /\ HasHead(a) => IsNext(o, HeadOf(a))
             /\ HasHead(a) => HeadOf(a) = a.queue[a.head] /\ a.head \in 1 .. Len(a.queue)
<1> DEFINE i == FirstPlace(o, o.done)
           b == HeadAt(o, i)
           c == Rebuilt(b)
<1>1. /\ i \in o.head .. Len(o.queue) + 1
      /\ i <= Len(o.queue) => o.queue[i] \notin o.done
      /\ \A j \in o.head .. i - 1 : o.queue[j] \in o.done
  BY FirstPlaceIs
<1>2. /\ IsOrder(b, m) /\ Undone(b) = Undone(o) /\ Same(b, o)
      /\ b.queue = o.queue /\ b.head = i
  <2> HIDE DEF i
  <2> QED BY <1>1, HeadMoves
<1>3. Advance(o) = IF i > CompactAt THEN c ELSE b
  BY <1>2 DEF Advance, HeadAt, Rebuilt
<1>4. i \in 1 .. Len(o.queue) + 1 /\ i \in Nat
  BY <1>1, OrderIs
<1> HIDE DEF i, b, c
<1>5. HasHead(b) <=> Undone(b) # {}
  <2>1. CASE i <= Len(o.queue)
    <3>1. o.queue[i] \in Undone(b)
      BY <2>1, <1>1, <1>4, <1>2, OrderIs DEF Undone
    <3> QED BY <2>1, <3>1, <1>2 DEF HasHead
  <2>2. CASE i > Len(o.queue)
    <3>1. i .. Len(o.queue) = {}
      BY <2>2, <1>4, OrderIs
    <3>2. Undone(b) = {}
      BY <3>1, <1>2 DEF Undone
    <3> QED BY <2>2, <3>2, <1>2, <1>4, OrderIs DEF HasHead
  <2> QED BY <2>1, <2>2, <1>4, OrderIs
<1>6. HasHead(b) => IsNext(o, HeadOf(b))
  <2> SUFFICES ASSUME i <= Len(o.queue)
               PROVE  IsNext(o, o.queue[i])
    BY <1>2 DEF HasHead, HeadOf
  <2>1. o.queue[i] \in Undone(o)
    BY <1>1, <1>4, OrderIs DEF Undone
  <2>2. \A j \in i .. Len(o.queue) : o.queue[i] <= o.queue[j]
    <3> TAKE j \in i .. Len(o.queue)
    <3>1. i \in 1 .. Len(o.queue) /\ j \in 1 .. Len(o.queue) /\ (i = j \/ i < j)
      BY <1>4, OrderIs
    <3>2. o.queue[i] \in Nat /\ o.queue[j] \in Nat /\ (i < j => o.queue[i] < o.queue[j])
      <4>1. DOMAIN o.queue = 1 .. Len(o.queue)
        BY OrderIs
      <4>2. o.queue[i] \in 1 .. m /\ o.queue[j] \in 1 .. m
        BY <3>1, <4>1, OrderIs
      <4>3. i < j => o.queue[i] < o.queue[j]
        BY <3>1, <4>1, OrderIs
      <4> QED BY <4>2, <4>3
    <3> QED BY <3>1, <3>2
  <2>3. \A n \in Undone(b) : o.queue[i] <= n
    BY <2>2, <1>2 DEF Undone
  <2> QED BY <2>1, <2>3, <1>2 DEF IsNext
<1>7. /\ IsOrder(c, m) /\ Undone(c) = Undone(b) /\ Same(c, b)
      /\ HasHead(c) <=> HasHead(b)
      /\ HasHead(b) => HeadOf(c) = HeadOf(b)
  BY <1>2, QueueIsRebuilt DEF c
<1>8. \/ Advance(o) = b
      \/ Advance(o) = c
  BY <1>3
<1>9. /\ IsOrder(Advance(o), m) /\ Undone(Advance(o)) = Undone(o) /\ Same(Advance(o), o)
      /\ HasHead(Advance(o)) <=> Undone(o) # {}
      /\ HasHead(Advance(o)) => IsNext(o, HeadOf(Advance(o)))
  <2>1. CASE Advance(o) = b
    BY <2>1, <1>2, <1>5, <1>6
  <2>2. Same(c, o)
    BY <1>2, <1>7 DEF Same, SameCalls
  <2>3. CASE Advance(o) = c
    BY <2>2, <2>3, <1>2, <1>5, <1>6, <1>7
  <2> QED BY <2>1, <2>3, <1>8
<1>10. HasHead(Advance(o)) =>
         /\ HeadOf(Advance(o)) = Advance(o).queue[Advance(o).head]
         /\ Advance(o).head \in 1 .. Len(Advance(o).queue)
  BY <1>9, OrderIs DEF HasHead, HeadOf
<1> QED BY <1>9, <1>10

-----------------------------------------------------------------------------
(* The operations of the queue, continued: waking and numbering            *)

\* A change that lets the queue be, and only adds numbers that are done.
LEMMA OrderStays ==
  ASSUME NEW m \in Nat, NEW o, IsOrder(o, m), NEW p \in Orders(m),
         p.queue = o.queue, p.head = o.head, p.floor = o.floor, p.firstLive = o.firstLive,
         p.next = o.next \/ p.next = o.next + 1, o.done \subseteq p.done, p.done \subseteq 1 .. p.next - 1,
         p.waiting \subseteq 1 .. p.next - 1,
         p.ended => p.open, p.open => p.waiting = {}, p.settling => p.turns > 0,
         p.skipped \subseteq o.skipped \cup p.done
  PROVE  IsOrder(p, m) /\ Undone(p) = Undone(o) \ p.done
<1>1. \A seq \in p.skipped : IsDone(p, seq)
  BY DEF IsOrder, IsDone
<1>2. o.next \in Nat /\ p.next \in Nat /\ o.next <= p.next
  BY OrderIs DEF Orders
<1>3. \A i \in DOMAIN p.queue : p.queue[i] < p.next /\ (i < p.head <=> p.queue[i] < p.floor)
  BY <1>2, OrderIs
<1>4. p.floor <= p.next /\ p.firstLive <= p.next
  BY <1>2, OrderIs
<1>5. IsOrder(p, m)
  BY <1>1, <1>3, <1>4 DEF IsOrder
<1>6. Undone(p) = Undone(o) \ p.done
  BY DEF Undone
<1> QED BY <1>5, <1>6

\* A number that is still to come was assigned, and is neither done nor given up.
LEMMA UndoneIs ==
  ASSUME NEW m \in Nat, NEW o, IsOrder(o, m), NEW n \in Undone(o)
  PROVE  n \in 1 .. m /\ n < o.next /\ ~IsDone(o, n) /\ n \notin o.skipped
<1>1. PICK i \in o.head .. Len(o.queue) : n = o.queue[i] /\ n \notin o.done
  BY DEF Undone
<1>2. i \in 1 .. Len(o.queue) /\ ~(i < o.head)
  BY <1>1, OrderIs
<1>3. ~(n < o.floor) /\ n \in 1 .. m /\ n < o.next
  BY <1>1, <1>2, OrderIs
<1>4. ~IsDone(o, n)
  BY <1>1, <1>3 DEF IsDone
<1> QED BY <1>3, <1>4 DEF IsOrder

\* One number is the next, and there is one as long as any is left.
LEMMA NextIs ==
  ASSUME NEW m \in Nat, NEW o, IsOrder(o, m)
  PROVE  /\ \A n, k : IsNext(o, n) /\ IsNext(o, k) => n = k
         /\ Undone(o) # {} => \E n : IsNext(o, n)
<1>1. Undone(o) \in SUBSET Nat
  BY UndoneIs
<1>2. ASSUME NEW n, NEW k, IsNext(o, n), IsNext(o, k) PROVE n = k
  <2>1. n \in Nat /\ k \in Nat /\ n <= k /\ k <= n
    BY <1>1, <1>2 DEF IsNext
  <2> QED BY <2>1
<1>3. ASSUME Undone(o) # {} PROVE \E n : IsNext(o, n)
  BY <1>1, <1>3, LeastNumber DEF IsNext
<1> QED BY <1>2, <1>3

\* A call goes on where its number is done, or is the next and no turn is owed.
LEMMA GoesIs ==
  ASSUME NEW m \in Nat, NEW o, IsOrder(o, m), NEW n
  PROVE  /\ IsTurn(o, n) <=> IsNext(o, n) /\ ~o.settling
         /\ Goes(o, n) <=> o.open \/ IsDone(o, n) \/ (IsNext(o, n) /\ ~o.settling)
<1> DEFINE a == Advance(o)
<1>1. /\ HasHead(a) <=> Undone(o) # {}
      /\ HasHead(a) => IsNext(o, HeadOf(a))
  BY AdvanceIs
<1>2. HasHead(a) /\ HeadOf(a) = n <=> IsNext(o, n)
  <2>1. IsNext(o, n) => HasHead(a)
    BY <1>1 DEF IsNext
  <2> QED BY <2>1, <1>1, NextIs
<1> QED BY <1>2 DEF IsTurn, Goes

\* What a wake does: p is the order r after it.
Wakes(r, p) ==
  /\ p.next = r.next /\ p.firstLive = r.firstLive /\ p.open = r.open
  /\ p.settling = r.settling /\ p.ended = r.ended /\ p.turns = r.turns
  /\ Undone(p) \subseteq Undone(r)
  /\ p.skipped = r.skipped \cup (Undone(r) \ Undone(p))
  /\ \A n \in Undone(r) \ Undone(p) :
       /\ r.draining /\ ~r.settling /\ r.waiting # {}
       /\ n < r.firstLive /\ n \notin r.waiting
       /\ \A k \in Undone(p) : n < k
  /\ p.waiting \subseteq r.waiting
  /\ \A n \in r.waiting \ p.waiting : IsNext(p, n) /\ ~p.settling
  /\ ~p.settling => \A n : IsNext(p, n) => n \notin p.waiting

\* Waking leaves an order, and takes from its waiting list only.
LEMMA WakeIs ==
  ASSUME NEW m \in Nat, NEW o, IsOrder(o, m)
  PROVE  IsOrder(Wake(o), m) /\ Wakes(o, Wake(o))
<1> DEFINE a == Advance(o)
           i == FirstPlace(a, a.done \cup Drained(a))
           given2 == {a.queue[j] : j \in a.head .. i - 1} \ a.done
           c == [a EXCEPT !.done = @ \cup given2, !.skipped = @ \cup given2]
           b == Advance(c)
<1>1. IsOrder(a, m) /\ Undone(a) = Undone(o) /\ Same(a, o)
  BY AdvanceIs
<1>2. Wake(o) = CASE a.settling -> a
                  [] ~a.settling /\ a.waiting = {} -> [a EXCEPT !.draining = FALSE]
                  [] OTHER -> IF HasHead(b) THEN [b EXCEPT !.waiting = @ \ {HeadOf(b)}] ELSE b
  BY DEF Wake
<1> HIDE DEF a
<1>3. CASE a.settling
  BY <1>1, <1>2, <1>3 DEF Wakes, Same, SameCalls
<1>4. CASE ~a.settling /\ a.waiting = {}
  <2> DEFINE p == [a EXCEPT !.draining = FALSE]
  <2>1. Wake(o) = p
    BY <1>2, <1>4
  <2>2. /\ p \in Orders(m)
        /\ p.queue = a.queue /\ p.head = a.head /\ p.floor = a.floor /\ p.firstLive = a.firstLive
        /\ p.next = a.next /\ p.done = a.done /\ p.ended = a.ended /\ p.open = a.open
        /\ p.settling = a.settling /\ p.turns = a.turns /\ p.skipped = a.skipped /\ p.waiting = a.waiting
    BY <1>1 DEF IsOrder, Orders
  <2> HIDE DEF p
  <2>3. IsOrder(p, m) /\ Undone(p) = Undone(a)
    BY <1>1, <2>2 DEF IsOrder, Undone, IsDone
  <2> QED BY <1>1, <1>4, <2>1, <2>2, <2>3 DEF Wakes, Same, SameCalls
<1>5. CASE ~a.settling /\ a.waiting # {}
  <2>1. Wake(o) = IF HasHead(b) THEN [b EXCEPT !.waiting = @ \ {HeadOf(b)}] ELSE b
    BY <1>2, <1>5
  <2>2. /\ i \in a.head .. Len(a.queue) + 1
        /\ i <= Len(a.queue) => a.queue[i] \notin a.done \cup Drained(a)
        /\ \A j \in a.head .. i - 1 : a.queue[j] \in a.done \cup Drained(a)
    BY <1>1, FirstPlaceIs
  <2> HIDE DEF i
  <2>3. given2 \subseteq Undone(a) /\ given2 \subseteq Drained(a)
    <3>1. \A j \in a.head .. i - 1 : j \in a.head .. Len(a.queue)
      BY <2>2, <1>1, OrderIs
    <3> QED BY <3>1, <2>2 DEF Undone
  <2>4. \A n \in given2, k \in Undone(a) \ given2 : n < k
    <3> TAKE n \in given2, k \in Undone(a) \ given2
    <3>1. PICK j \in a.head .. i - 1 : n = a.queue[j]
      OBVIOUS
    <3>2. PICK l \in a.head .. Len(a.queue) : k = a.queue[l] /\ k \notin a.done
      BY DEF Undone
    <3>3. ~(l \in a.head .. i - 1)
      BY <3>2
    <3>4. j \in 1 .. Len(a.queue) /\ l \in 1 .. Len(a.queue) /\ j < l
      BY <3>3, <2>2, <1>1, OrderIs
    <3> QED BY <3>1, <3>2, <3>4, <1>1, OrderIs
  <2> HIDE DEF given2
  <2>5. given2 \subseteq 1 .. a.next - 1 /\ given2 \in SUBSET (1 .. m)
    BY <2>3, <1>1, UndoneIs, OrderIs
  <2>6. /\ c \in Orders(m)
        /\ c.queue = a.queue /\ c.head = a.head /\ c.floor = a.floor /\ c.firstLive = a.firstLive
        /\ c.next = a.next /\ c.done = a.done \cup given2 /\ c.ended = a.ended /\ c.open = a.open
        /\ c.settling = a.settling /\ c.turns = a.turns /\ c.skipped = a.skipped \cup given2
        /\ c.waiting = a.waiting
    <3>1. a \in Orders(m)
      BY <1>1 DEF IsOrder
    <3> QED BY <3>1, <2>5 DEF Orders
  <2> HIDE DEF c
  <2>7. c.done \subseteq 1 .. c.next - 1 /\ c.skipped \subseteq a.skipped \cup c.done
    BY <2>5, <2>6, <1>1, OrderIs
  <2>23. c.waiting \subseteq 1 .. c.next - 1
    BY <2>6, <1>1 DEF IsOrder
  <2>8. (c.ended => c.open) /\ (c.open => c.waiting = {}) /\ (c.settling => c.turns > 0)
    BY <2>6, <1>1 DEF IsOrder
  <2>9. IsOrder(c, m) /\ Undone(c) = Undone(a) \ c.done
    BY <2>6, <2>7, <2>8, <2>23, <1>1, OrderStays
  <2>10. Undone(c) = Undone(a) \ given2
    BY <2>6, <2>9 DEF Undone
  <2>11. /\ IsOrder(b, m) /\ Undone(b) = Undone(c) /\ Same(b, c)
         /\ HasHead(b) <=> Undone(c) # {}
         /\ HasHead(b) => IsNext(c, HeadOf(b))
    BY <2>9, AdvanceIs
  <2> HIDE DEF b
  <2> DEFINE p == [b EXCEPT !.waiting = @ \ {HeadOf(b)}]
  <2>12. /\ p \in Orders(m)
         /\ p.queue = b.queue /\ p.head = b.head /\ p.floor = b.floor /\ p.firstLive = b.firstLive
         /\ p.next = b.next /\ p.done = b.done /\ p.ended = b.ended /\ p.open = b.open
         /\ p.settling = b.settling /\ p.turns = b.turns /\ p.skipped = b.skipped
         /\ p.waiting = b.waiting \ {HeadOf(b)}
    <3>1. b \in Orders(m)
      BY <2>11 DEF IsOrder
    <3> QED BY <3>1 DEF Orders
  <2> HIDE DEF p
  <2>13. IsOrder(p, m) /\ Undone(p) = Undone(b)
    BY <2>11, <2>12 DEF IsOrder, Undone, IsDone
  <2>14. ASSUME NEW q, q = Wake(o)
         PROVE /\ IsOrder(q, m) /\ Undone(q) = Undone(o) \ given2
               /\ q.next = o.next /\ q.firstLive = o.firstLive /\ q.open = o.open
               /\ q.settling = o.settling /\ q.ended = o.ended /\ q.turns = o.turns
               /\ q.skipped = o.skipped \cup given2 /\ q.waiting \subseteq o.waiting
               /\ \A n \in o.waiting \ q.waiting : IsNext(q, n)
               /\ \A n : IsNext(q, n) => n \notin q.waiting
    <3>1. CASE HasHead(b)
      <4>1. IsNext(p, HeadOf(b))
        BY <3>1, <2>11, <2>13 DEF IsNext
      <4>2. q = p
        BY <3>1, <2>1, <2>14 DEF p
      <4>3. /\ q.next = o.next /\ q.firstLive = o.firstLive /\ q.open = o.open
            /\ q.settling = o.settling /\ q.ended = o.ended /\ q.turns = o.turns
            /\ q.skipped = o.skipped \cup given2 /\ q.waiting = o.waiting \ {HeadOf(b)}
        BY <4>2, <2>12, <2>11, <2>6, <1>1 DEF Same, SameCalls
      <4> QED BY <4>1, <4>2, <4>3, <2>10, <2>11, <2>13, <1>1, NextIs
    <3>2. CASE ~HasHead(b)
      <4>1. q = b /\ \A n : ~IsNext(q, n)
        BY <3>2, <2>1, <2>11, <2>14 DEF IsNext
      <4>2. /\ q.next = o.next /\ q.firstLive = o.firstLive /\ q.open = o.open
            /\ q.settling = o.settling /\ q.ended = o.ended /\ q.turns = o.turns
            /\ q.skipped = o.skipped \cup given2 /\ q.waiting = o.waiting
        BY <4>1, <2>11, <2>6, <1>1 DEF Same, SameCalls
      <4> QED BY <4>1, <4>2, <2>10, <2>11, <1>1
    <3> QED BY <3>1, <3>2
  <2>15. \A n \in given2 : o.draining /\ ~o.settling /\ o.waiting # {} /\ n < o.firstLive /\ n \notin o.waiting
    <3>1. Drained(a) = {n \in 1 .. o.firstLive - 1 : o.draining /\ n \notin o.waiting}
      BY <1>1 DEF Drained, Same, SameCalls
    <3>2. \A n \in Drained(a) : o.draining /\ n < o.firstLive /\ n \notin o.waiting
      BY <3>1, OrderIs
    <3> QED BY <3>2, <2>3, <1>1, <1>5 DEF Same, SameCalls
  <2>16. given2 = Undone(o) \ Undone(Wake(o))
    BY <2>3, <2>14, <1>1
  <2>17. ~o.settling
    BY <1>1, <1>5 DEF Same, SameCalls
  <2>18. Undone(Wake(o)) = Undone(a) \ given2 /\ Undone(Wake(o)) = Undone(o) \ given2
    BY <2>14, <1>1
  <2>19. \A n \in Undone(o) \ Undone(Wake(o)) :
           /\ o.draining /\ ~o.settling /\ o.waiting # {}
           /\ n < o.firstLive /\ n \notin o.waiting
           /\ \A k \in Undone(Wake(o)) : n < k
    BY <2>4, <2>15, <2>16, <2>18
  <2> DEFINE q == Wake(o)
  <2>20. /\ IsOrder(q, m) /\ Undone(q) = Undone(o) \ given2
         /\ q.next = o.next /\ q.firstLive = o.firstLive /\ q.open = o.open
         /\ q.settling = o.settling /\ q.ended = o.ended /\ q.turns = o.turns
         /\ q.skipped = o.skipped \cup given2 /\ q.waiting \subseteq o.waiting
         /\ \A n \in o.waiting \ q.waiting : IsNext(q, n)
         /\ \A n : IsNext(q, n) => n \notin q.waiting
    BY <2>14
  <2> HIDE DEF q
  <2> SUFFICES IsOrder(q, m) /\ Wakes(o, q)
    BY DEF q
  <2>21. \A n \in Undone(o) \ Undone(q) :
           /\ o.draining /\ ~o.settling /\ o.waiting # {}
           /\ n < o.firstLive /\ n \notin o.waiting
           /\ \A k \in Undone(q) : n < k
    BY <2>19 DEF q
  <2>22. given2 = Undone(o) \ Undone(q)
    BY <2>16 DEF q
  <2> QED BY <2>17, <2>20, <2>21, <2>22 DEF Wakes
<1> QED BY <1>3, <1>4, <1>5

\* No call waits at the head while no turn is owed.
NoneAtHead(o) == ~o.settling => \A n : IsNext(o, n) => n \notin o.waiting

\* A step of the order o to p which hands over or abandons n, if n # 0, and makes w
\* wait, if w # 0.
Moves(o, p, n, w) ==
  /\ p.firstLive = o.firstLive /\ o.next <= p.next
  /\ o.open => p.open
  /\ o.ended => p.ended
  /\ \A k \in Undone(p) \ Undone(o) : o.next <= k
  /\ n \notin Undone(p)
  /\ p.skipped = o.skipped \cup ((Undone(o) \ {n}) \ Undone(p))
  /\ \A k \in (Undone(o) \ {n}) \ Undone(p) :
       /\ k < o.firstLive /\ k \notin o.waiting /\ o.waiting # {} /\ ~p.open
       /\ \A l \in Undone(p) : k < l
  /\ p.waiting \subseteq o.waiting \cup {w}
  /\ w # 0 => w \in p.waiting
  /\ \A k \in o.waiting \ p.waiting : p.open \/ (IsNext(p, k) /\ ~p.settling)
  /\ NoneAtHead(o) => NoneAtHead(p)
  /\ p.settling => o.settling \/ n # 0

\* The parts of the state that most steps leave alone.
Keeps(o, p) ==
  /\ p.next = o.next /\ p.firstLive = o.firstLive /\ p.open = o.open /\ p.ended = o.ended

\* assign: the next number joins the queue.
LEMMA AssignIs ==
  ASSUME NEW m \in Nat, NEW o, IsOrder(o, m), o.next <= m
  PROVE  LET p == Assign(o)
         IN  /\ IsOrder(p, m) /\ Moves(o, p, 0, 0)
             /\ p.next = o.next + 1 /\ p.firstLive = o.firstLive /\ Undone(p) = Undone(o) \cup {o.next}
             /\ p.open = o.open /\ p.ended = o.ended /\ p.settling = o.settling
             /\ p.skipped = o.skipped /\ p.waiting = o.waiting
<1> DEFINE q == Append(o.queue, o.next)
           p == [o EXCEPT !.next = @ + 1, !.queue = q]
<1>1. o.next \in 1 .. m
  BY OrderIs
<1>2. /\ q \in Seq(1 .. m) /\ Len(q) = Len(o.queue) + 1 /\ DOMAIN q = 1 .. Len(o.queue) + 1
      /\ \A i \in 1 .. Len(o.queue) : q[i] = o.queue[i]
      /\ q[Len(o.queue) + 1] = o.next
  BY <1>1, OrderIs
<1> HIDE DEF q
<1>3. /\ p \in Orders(m) /\ p.queue = q /\ p.next = o.next + 1
      /\ p.head = o.head /\ p.floor = o.floor /\ p.firstLive = o.firstLive
      /\ p.done = o.done /\ p.ended = o.ended /\ p.open = o.open
      /\ p.settling = o.settling /\ p.turns = o.turns /\ p.skipped = o.skipped
      /\ p.waiting = o.waiting
  <2>1. o \in Orders(m)
    BY DEF IsOrder
  <2>2. o.next + 1 \in 1 .. m + 1
    BY <1>1
  <2>3. q \in Seq(1 .. m)
    BY <1>2
  <2> QED BY <2>1, <2>2, <2>3 DEF Orders
<1> HIDE DEF p
<1>4. \A i \in 1 .. Len(o.queue) : q[i] \in 1 .. m /\ q[i] < o.next /\ (i < o.head <=> q[i] < o.floor)
  BY <1>2, OrderIs
<1>5. \A i, j \in DOMAIN q : i < j => q[i] < q[j]
  <2> SUFFICES ASSUME NEW i \in DOMAIN q, NEW j \in DOMAIN q, i < j
               PROVE  q[i] < q[j]
    OBVIOUS
  <2>0. i \in Nat /\ j \in Nat /\ 1 <= i /\ 1 <= j /\ j <= Len(o.queue) + 1 /\ Len(o.queue) \in Nat
    <3>1. Len(q) = Len(o.queue) + 1 /\ Len(o.queue) \in Nat
      BY <1>2, OrderNumbersAre
    <3>2. i \in 1 .. Len(o.queue) + 1 /\ j \in 1 .. Len(o.queue) + 1
      BY <1>2, <3>1
    <3> QED BY <3>1, <3>2
  <2>1. i \in 1 .. Len(o.queue) /\ (j \in 1 .. Len(o.queue) \/ j = Len(o.queue) + 1)
    BY <2>0
  <2>2. CASE j \in 1 .. Len(o.queue)
    <3>1. o.queue[i] < o.queue[j]
      BY <2>1, <2>2, OrderIs
    <3> QED BY <2>1, <2>2, <3>1, <1>2
  <2>3. CASE j = Len(o.queue) + 1
    BY <2>1, <2>3, <1>2, <1>4
  <2> QED BY <2>1, <2>2, <2>3
<1>6. \A i \in DOMAIN q : q[i] < o.next + 1 /\ (i < o.head <=> q[i] < o.floor)
  <2> SUFFICES ASSUME NEW i \in DOMAIN q
               PROVE  q[i] < o.next + 1 /\ (i < o.head <=> q[i] < o.floor)
    OBVIOUS
  <2>1. CASE i \in 1 .. Len(o.queue)
    <3>1. q[i] \in 1 .. m /\ q[i] < o.next /\ (i < o.head <=> q[i] < o.floor)
      BY <2>1, <1>4
    <3> QED BY <3>1, <1>1
  <2>2. CASE i = Len(o.queue) + 1
    <3>1. ~(i < o.head) /\ ~(o.next < o.floor)
      BY <2>2, <1>1, OrderNumbersAre
    <3> QED BY <3>1, <2>2, <1>1, <1>2
  <2> QED BY <2>1, <2>2, <1>2
<1>7. o.head \in 1 .. Len(q) + 1
  BY <1>2, OrderIs
<1>8. /\ p.floor <= p.next /\ p.firstLive <= p.next
      /\ p.done \subseteq 1 .. p.next - 1 /\ p.waiting \subseteq 1 .. p.next - 1
  BY <1>1, <1>3, OrderIs
<1>9. IsOrder(p, m)
  BY <1>3, <1>5, <1>6, <1>7, <1>8 DEF IsOrder, IsDone
<1>10. Undone(p) = Undone(o) \cup {o.next}
  <2>1. o.next \notin o.done
    BY <1>1, OrderIs
  <2>2. \A i : i \in o.head .. Len(o.queue) + 1
          <=> i \in o.head .. Len(o.queue) \/ i = Len(o.queue) + 1
    BY OrderNumbersAre
  <2>3. \A i \in o.head .. Len(o.queue) : i \in 1 .. Len(o.queue)
    BY OrderIs
  <2>4. ASSUME NEW n \in Undone(p) PROVE n \in Undone(o) \cup {o.next}
    <3>1. PICK i \in o.head .. Len(q) : n = q[i] /\ n \notin o.done
      BY <1>3 DEF Undone
    <3>2. i \in o.head .. Len(o.queue) \/ i = Len(o.queue) + 1
      BY <1>2, <2>2
    <3> QED BY <3>1, <3>2, <1>2, <2>3 DEF Undone
  <2>5. ASSUME NEW n \in Undone(o) PROVE n \in Undone(p)
    <3>1. PICK i \in o.head .. Len(o.queue) : n = o.queue[i] /\ n \notin o.done
      BY DEF Undone
    <3>2. i \in o.head .. Len(q) /\ q[i] = o.queue[i]
      BY <1>2, <2>2, <2>3
    <3> QED BY <3>1, <3>2, <1>3 DEF Undone
  <2>6. o.next \in Undone(p)
    <3>1. Len(o.queue) + 1 \in o.head .. Len(q)
      BY <1>2, <2>2, OrderNumbersAre
    <3> QED BY <3>1, <2>1, <1>2, <1>3 DEF Undone
  <2> QED BY <2>4, <2>5, <2>6
<1>11. \A n \in Undone(o) : n < o.next /\ n \in Nat
  BY UndoneIs
<1>12. NoneAtHead(o) => NoneAtHead(p)
  <2>1. \A n \in o.waiting : IsNext(p, n) => IsNext(o, n) \/ n = o.next
    BY <1>10 DEF IsNext
  <2>3. o.next \notin o.waiting
    BY <1>1, OrderIs
  <2> QED BY <2>1, <2>3, <1>3 DEF NoneAtHead
<1>13. o.next <= p.next
  BY <1>1, <1>3
<1>14. 0 \notin Undone(p) /\ 0 \notin Undone(o)
  <2>1. \A n \in Undone(p) \cup Undone(o) : n \in 1 .. m
    BY <1>9, UndoneIs
  <2> QED BY <2>1
<1>15. Moves(o, p, 0, 0)
  <2>1. (Undone(o) \ {0}) \ Undone(p) = {} /\ \A k \in Undone(p) \ Undone(o) : o.next <= k
    BY <1>1, <1>10
  <2> QED BY <2>1, <1>3, <1>12, <1>13, <1>14 DEF Moves
<1> QED BY <1>3, <1>9, <1>10, <1>15 DEF p, q, Assign

\* A step of the order and then a wake is a step of the order.
LEMMA MovesOn ==
  ASSUME NEW m \in Nat, NEW o, NEW r, NEW p, IsOrder(o, m), IsOrder(p, m), NEW n,
         r.firstLive = o.firstLive, r.next = o.next, r.open = o.open, o.ended => r.ended,
         Undone(r) = Undone(o) \ {n}, r.skipped = o.skipped, r.waiting = o.waiting,
         r.settling => o.settling,
         Wakes(r, p)
  PROVE  Moves(o, p, n, 0)
<1>1. (Undone(o) \ {n}) \ Undone(p) = Undone(r) \ Undone(p)
  OBVIOUS
<1>2. \A k \in Undone(p) \ Undone(o) : o.next <= k
  BY DEF Wakes
<1>3. \A k \in Undone(r) \ Undone(p) :
       /\ k < o.firstLive /\ k \notin o.waiting /\ o.waiting # {} /\ ~p.open
       /\ \A l \in Undone(p) : k < l
  BY DEF Wakes, IsOrder
<1>4. o.next <= p.next
  BY OrderIs DEF Wakes
<1>5. NoneAtHead(o) => NoneAtHead(p)
  BY DEF NoneAtHead, Wakes
<1> QED BY <1>1, <1>2, <1>3, <1>4, <1>5 DEF Moves, Wakes

\* reserve: a number is taken that nobody waits for.
LEMMA ReserveIs ==
  ASSUME NEW m \in Nat, NEW o, IsOrder(o, m), o.next <= m
  PROVE  LET p == Reserve(o)
         IN  /\ IsOrder(p, m) /\ Moves(o, p, 0, 0)
             /\ p.next = o.next + 1 /\ p.firstLive = o.firstLive /\ Undone(p) = Undone(o)
             /\ p.open = o.open /\ p.ended = o.ended /\ p.settling = o.settling
             /\ p.skipped = o.skipped /\ p.waiting = o.waiting
<1> DEFINE p == Reserve(o)
<1>1. /\ p \in Orders(m) /\ p.queue = o.queue /\ p.next = o.next + 1
      /\ p.head = o.head /\ p.floor = o.floor /\ p.firstLive = o.firstLive
      /\ p.done = o.done /\ p.ended = o.ended /\ p.open = o.open
      /\ p.settling = o.settling /\ p.turns = o.turns /\ p.skipped = o.skipped
      /\ p.waiting = o.waiting
  <2>1. o.next + 1 \in 1 .. m + 1
    BY OrderIs
  <2> QED BY <2>1 DEF IsOrder, Orders, Reserve
<1> HIDE DEF p
<1>2. p.done \subseteq 1 .. p.next - 1 /\ p.waiting \subseteq 1 .. p.next - 1
  BY <1>1, OrderIs
<1>3. (p.ended => p.open) /\ (p.open => p.waiting = {}) /\ (p.settling => p.turns > 0)
  BY <1>1 DEF IsOrder
<1>4. IsOrder(p, m) /\ Undone(p) = Undone(o) \ p.done
  BY <1>1, <1>2, <1>3, OrderStays
<1>5. Undone(p) = Undone(o)
  BY <1>1, <1>4 DEF Undone
<1>6. \A n \in Undone(o) : n \in 1 .. m
  BY UndoneIs
<1>7. o.next <= p.next /\ 0 \notin Undone(p)
  BY <1>1, <1>5, <1>6, OrderNumbersAre
<1>8. Moves(o, p, 0, 0)
  BY <1>1, <1>5, <1>7 DEF Moves, NoneAtHead, IsNext
<1> QED BY <1>1, <1>4, <1>5, <1>8 DEF p

\* wait() of a number whose turn it is, and of one that is to wait.
LEMMA WaitGoesIs ==
  ASSUME NEW m \in Nat, NEW o, IsOrder(o, m), NEW n, Goes(o, n)
  PROVE  /\ IsOrder(Wait(o, n), m)
         /\ Undone(Wait(o, n)) = Undone(o)
         /\ Same(Wait(o, n), o)
<1>1. Wait(o, n) = o \/ Wait(o, n) = Advance(o)
  BY DEF Wait
<1> QED BY <1>1, AdvanceIs DEF Same, SameCalls

\* A wait that is not answered at once puts its number on the list.
LEMMA WaitHoldsIs ==
  ASSUME NEW m \in Nat, NEW o, IsOrder(o, m), NEW n \in 1 .. o.next - 1, ~Goes(o, n)
  PROVE  LET p == Wait(o, n)
         IN  /\ IsOrder(p, m) /\ Moves(o, p, 0, n)
             /\ p.next = o.next /\ p.firstLive = o.firstLive /\ Undone(p) = Undone(o)
             /\ ~p.open /\ ~o.open /\ p.ended = o.ended /\ p.settling = o.settling
             /\ p.skipped = o.skipped /\ p.waiting = o.waiting \cup {n}
<1> DEFINE a == Advance(o)
           p == [a EXCEPT !.moved = @ /\ o.waiting # {}, !.waiting = @ \cup {n}]
<1>1. ~o.open /\ ~IsDone(o, n) /\ ~(IsNext(o, n) /\ ~o.settling)
  BY GoesIs
<1>2. Wait(o, n) = p
  BY <1>1 DEF Wait
<1>3. IsOrder(a, m) /\ Undone(a) = Undone(o) /\ Same(a, o)
  BY AdvanceIs
<1> HIDE DEF a
<1>4. n \in 1 .. m /\ n # 0
  BY OrderIs
<1>5. /\ p \in Orders(m) /\ p.queue = a.queue /\ p.next = a.next
      /\ p.head = a.head /\ p.floor = a.floor /\ p.firstLive = a.firstLive
      /\ p.done = a.done /\ p.ended = a.ended /\ p.open = a.open
      /\ p.settling = a.settling /\ p.turns = a.turns /\ p.skipped = a.skipped
      /\ p.waiting = a.waiting \cup {n}
  BY <1>3, <1>4 DEF IsOrder, Orders
<1> HIDE DEF p
<1>6. p.done \subseteq 1 .. p.next - 1 /\ p.waiting \subseteq 1 .. p.next - 1
  BY <1>3, <1>5, OrderIs DEF Same, SameCalls
<1>7. (p.ended => p.open) /\ ~p.open /\ (p.settling => p.turns > 0)
  BY <1>1, <1>3, <1>5 DEF IsOrder, Same, SameCalls
<1>8. IsOrder(p, m) /\ Undone(p) = Undone(a) \ p.done
  BY <1>3, <1>5, <1>6, <1>7, OrderStays
<1>9. Undone(p) = Undone(o)
  BY <1>3, <1>5, <1>8 DEF Undone
<1>10. o.next <= p.next /\ 0 \notin Undone(p)
  <2>1. \A k \in Undone(o) : k \in 1 .. m
    BY UndoneIs
  <2> QED BY <2>1, <1>3, <1>5, <1>9, OrderNumbersAre DEF Same, SameCalls
<1>11. NoneAtHead(o) => NoneAtHead(p)
  BY <1>1, <1>3, <1>5, <1>9 DEF NoneAtHead, IsNext, Same, SameCalls
<1>12. Moves(o, p, 0, n)
  BY <1>3, <1>4, <1>5, <1>9, <1>10, <1>11 DEF Moves, Same, SameCalls
<1> QED BY <1>1, <1>2, <1>3, <1>5, <1>8, <1>9, <1>12 DEF Same, SameCalls

\* The queue looks the same, whatever was dropped from its front.
LEMMA MovesAfterWait ==
  ASSUME NEW m \in Nat, NEW o, NEW a, NEW p, IsOrder(o, m), IsOrder(a, m), NEW n,
         Undone(a) = Undone(o), Same(a, o), Moves(a, p, n, 0)
  PROVE  Moves(o, p, n, 0)
BY DEF Moves, Same, SameCalls, NoneAtHead, IsNext

\* Two steps of an order that is open after the first.
LEMMA MovesTwice ==
  ASSUME NEW m \in Nat, NEW o, NEW a, NEW p, NEW n,
         IsOrder(o, m), IsOrder(a, m), IsOrder(p, m),
         Moves(o, a, 0, 0), Moves(a, p, n, 0), a.open
  PROVE  Moves(o, p, n, 0)
<1>1. p.open /\ a.waiting = {} /\ p.waiting = {}
  BY DEF Moves, IsOrder
<1>2. Undone(a) \ {n} \subseteq Undone(p) /\ Undone(o) \ {0} \subseteq Undone(a)
  BY <1>1 DEF Moves
<1>3. 0 \notin Undone(o)
  <2>1. \A k \in Undone(o) : k \in 1 .. m
    BY UndoneIs
  <2> QED BY <2>1
<1>4. (Undone(o) \ {n}) \ Undone(p) = {}
  BY <1>2, <1>3
<1>5. p.skipped = o.skipped
  BY <1>2, <1>3 DEF Moves
<1>6. o.next <= p.next /\ o.next <= a.next /\ a.next \in Nat /\ o.next \in Nat
  BY OrderNumbersAre DEF Moves
<1>7. \A k \in Undone(p) \ Undone(o) : o.next <= k
  <2> SUFFICES ASSUME NEW k \in Undone(p) \ Undone(o) PROVE o.next <= k
    OBVIOUS
  <2>1. k \in Nat
    BY UndoneIs
  <2>2. CASE k \in Undone(a)
    BY <2>2 DEF Moves
  <2>3. CASE k \notin Undone(a)
    BY <2>1, <2>3, <1>6 DEF Moves
  <2> QED BY <2>2, <2>3
<1>8. NoneAtHead(p)
  BY <1>1 DEF NoneAtHead
<1> QED BY <1>1, <1>4, <1>5, <1>6, <1>7, <1>8 DEF Moves

\* A number is handed over, and a turn is owed.
LEMMA SettledReleaseIs ==
  ASSUME NEW m \in Nat, NEW o, IsOrder(o, m), NEW n \in 1 .. o.next - 1
  PROVE  LET p == Release(o, n, TRUE)
         IN  /\ IsOrder(p, m) /\ Moves(o, p, n, 0) /\ Keeps(o, p)
             /\ p.settling /\ Undone(p) = Undone(o) \ {n}
             /\ p.skipped = o.skipped /\ p.waiting = o.waiting
<1> DEFINE p == [o EXCEPT !.done = @ \cup {n}, !.moved = TRUE, !.settling = TRUE, !.turns = @ + 1]
<1>1. /\ p \in Orders(m) /\ p.queue = o.queue /\ p.next = o.next
      /\ p.head = o.head /\ p.floor = o.floor /\ p.firstLive = o.firstLive
      /\ p.done = o.done \cup {n} /\ p.ended = o.ended /\ p.open = o.open
      /\ p.settling /\ p.turns = o.turns + 1 /\ p.skipped = o.skipped
      /\ p.waiting = o.waiting
  <2>1. n \in 1 .. m /\ o.turns + 1 \in Nat
    BY OrderIs
  <2> QED BY <2>1 DEF IsOrder, Orders
<1>2. Release(o, n, TRUE) = p
  <2>1. o \in Orders(m)
    BY DEF IsOrder
  <2> QED BY <2>1 DEF Release, Orders
<1> HIDE DEF p
<1>3. p.done \subseteq 1 .. p.next - 1 /\ p.waiting \subseteq 1 .. p.next - 1
  BY <1>1, OrderIs
<1>4. (p.ended => p.open) /\ (p.open => p.waiting = {}) /\ (p.settling => p.turns > 0)
  <2>1. o.turns + 1 > 0
    BY OrderIs
  <2> QED BY <2>1, <1>1 DEF IsOrder
<1>5. IsOrder(p, m) /\ Undone(p) = Undone(o) \ p.done
  BY <1>1, <1>3, <1>4, OrderStays
<1>6. Undone(p) = Undone(o) \ {n}
  BY <1>1, <1>5 DEF Undone
<1>7. o.next <= p.next /\ n # 0
  BY <1>1, OrderNumbersAre
<1>8. Moves(o, p, n, 0)
  BY <1>1, <1>6, <1>7 DEF Moves, NoneAtHead
<1> QED BY <1>1, <1>2, <1>5, <1>6, <1>8 DEF Keeps

\* A number is handed over or abandoned, and the next call is woken.
LEMMA ReleaseIs ==
  ASSUME NEW m \in Nat, NEW o, IsOrder(o, m), NEW n \in 1 .. o.next - 1,
         NEW p, p \in {Release(o, n, FALSE), Abandon(o, n)}
  PROVE  IsOrder(p, m) /\ Moves(o, p, n, 0) /\ Keeps(o, p) /\ p.settling = o.settling
<1> DEFINE r == [o EXCEPT !.done = @ \cup {n}, !.moved = TRUE]
           s == [o EXCEPT !.done = @ \cup {n}]
<1>1. p \in {Wake(r), Wake(s)}
  BY DEF Release, Abandon
<1>2. ASSUME NEW q \in {r, s}
      PROVE  /\ q \in Orders(m) /\ q.queue = o.queue /\ q.next = o.next
             /\ q.head = o.head /\ q.floor = o.floor /\ q.firstLive = o.firstLive
             /\ q.done = o.done \cup {n} /\ q.ended = o.ended /\ q.open = o.open
             /\ q.settling = o.settling /\ q.turns = o.turns /\ q.skipped = o.skipped
             /\ q.waiting = o.waiting
  <2>1. n \in 1 .. m
    BY OrderIs
  <2>2. o \in Orders(m)
    BY DEF IsOrder
  <2>3. CASE q = r
    BY <2>1, <2>2, <2>3 DEF Orders
  <2>4. CASE q = s
    BY <2>1, <2>2, <2>4 DEF Orders
  <2> QED BY <2>3, <2>4
<1> HIDE DEF r, s
<1>3. PICK q \in {r, s} : p = Wake(q)
  BY <1>1
<1>4. q.done \subseteq 1 .. q.next - 1 /\ q.waiting \subseteq 1 .. q.next - 1
  BY <1>2, OrderIs
<1>5. (q.ended => q.open) /\ (q.open => q.waiting = {}) /\ (q.settling => q.turns > 0)
  BY <1>2 DEF IsOrder
<1>6. IsOrder(q, m) /\ Undone(q) = Undone(o) \ q.done
  BY <1>2, <1>4, <1>5, OrderStays
<1>7. Undone(q) = Undone(o) \ {n}
  BY <1>2, <1>6 DEF Undone
<1>8. IsOrder(p, m) /\ Wakes(q, p)
  BY <1>3, <1>6, WakeIs
<1>9. Moves(o, p, n, 0)
  BY <1>2, <1>7, <1>8, MovesOn
<1> QED BY <1>2, <1>8, <1>9 DEF Keeps, Wakes

\* A turn of the event loop ends the settling of the last result.
LEMMA EndTurnIs ==
  ASSUME NEW m \in Nat, NEW o, IsOrder(o, m), o.turns > 0
  PROVE  LET p == EndTurn(o)
         IN  /\ IsOrder(p, m) /\ Moves(o, p, 0, 0) /\ Keeps(o, p) /\ ~p.settling
<1> DEFINE r == [o EXCEPT !.settling = FALSE, !.turns = @ - 1]
           p == Wake(r)
<1>1. /\ r \in Orders(m) /\ r.queue = o.queue /\ r.next = o.next
      /\ r.head = o.head /\ r.floor = o.floor /\ r.firstLive = o.firstLive
      /\ r.done = o.done /\ r.ended = o.ended /\ r.open = o.open
      /\ ~r.settling /\ r.skipped = o.skipped
      /\ r.waiting = o.waiting
  <2>1. o.turns - 1 \in Nat
    BY OrderIs
  <2> QED BY <2>1 DEF IsOrder, Orders
<1> HIDE DEF r
<1>2. IsOrder(r, m)
  BY <1>1 DEF IsOrder, IsDone
<1>3. Undone(r) = Undone(o)
  BY <1>1 DEF Undone
<1>4. IsOrder(p, m) /\ Wakes(r, p)
  BY <1>2, WakeIs
<1>5. 0 \notin Undone(o)
  <2>1. \A k \in Undone(o) : k \in 1 .. m
    BY UndoneIs
  <2> QED BY <2>1
<1> HIDE DEF p
<1>6. Undone(r) = Undone(o) \ {0}
  BY <1>3, <1>5
<1>7. Moves(o, p, 0, 0)
  BY <1>1, <1>4, <1>6, MovesOn
<1> QED BY <1>1, <1>4, <1>7 DEF p, r, EndTurn, Keeps, Wakes

\* The heartbeat that throws and the error that ends the pass open the order.
LEMMA OpenIs ==
  ASSUME NEW m \in Nat, NEW o, IsOrder(o, m), NEW p, p \in {Open(o), End(o)}
  PROVE  /\ IsOrder(p, m) /\ Moves(o, p, 0, 0)
         /\ p.next = o.next /\ p.open /\ p.settling = o.settling /\ p.firstLive = o.firstLive
         /\ Undone(p) = Undone(o) /\ p.skipped = o.skipped
         /\ p.ended = (o.ended \/ p = End(o))
<1>1. /\ p \in Orders(m) /\ p.queue = o.queue /\ p.next = o.next
      /\ p.head = o.head /\ p.floor = o.floor /\ p.firstLive = o.firstLive
      /\ p.done = o.done /\ (o.ended => p.ended) /\ p.open
      /\ p.settling = o.settling /\ p.turns = o.turns /\ p.skipped = o.skipped
      /\ p.waiting = {} /\ p.ended = (o.ended \/ p = End(o))
  <2>1. CASE p = Open(o)
    <3>1. /\ p \in Orders(m) /\ p.queue = o.queue /\ p.next = o.next
          /\ p.head = o.head /\ p.floor = o.floor /\ p.firstLive = o.firstLive
          /\ p.done = o.done /\ p.ended = o.ended /\ p.open
          /\ p.settling = o.settling /\ p.turns = o.turns /\ p.skipped = o.skipped
          /\ p.waiting = {}
      BY <2>1 DEF IsOrder, Orders, Open
    <3>2. End(o).ended /\ p.ended \in BOOLEAN
      BY <3>1 DEF IsOrder, Orders, Open, End
    <3> QED BY <3>1, <3>2
  <2>2. CASE p = End(o)
    BY <2>2 DEF IsOrder, Orders, Open, End
  <2> QED BY <2>1, <2>2
<1>2. IsOrder(p, m)
  BY <1>1 DEF IsOrder, IsDone
<1>3. Undone(p) = Undone(o)
  BY <1>1 DEF Undone
<1>4. o.next <= p.next /\ 0 \notin Undone(p)
  <2>1. \A k \in Undone(p) : k \in 1 .. m
    BY <1>2, UndoneIs
  <2> QED BY <2>1, <1>1, OrderNumbersAre
<1>5. Moves(o, p, 0, 0)
  BY <1>1, <1>3, <1>4 DEF Moves, NoneAtHead, IsNext
<1> QED BY <1>1, <1>2, <1>3, <1>5

\* A beat may give the head up, and answers nobody out of turn.
LEMMA BeatIs ==
  ASSUME NEW m \in Nat, NEW o, IsOrder(o, m)
  PROVE  LET p == Beat(o)
         IN  /\ IsOrder(p, m) /\ Moves(o, p, 0, 0) /\ Keeps(o, p) /\ p.settling = o.settling
             /\ \A n \in o.waiting \ p.waiting : IsNext(p, n)
<1> DEFINE r == [o EXCEPT !.draining = TRUE]
           s == [o EXCEPT !.moved = FALSE]
<1>1. ASSUME NEW q \in {r, s}
      PROVE  /\ q \in Orders(m) /\ q.queue = o.queue /\ q.next = o.next
             /\ q.head = o.head /\ q.floor = o.floor /\ q.firstLive = o.firstLive
             /\ q.done = o.done /\ q.ended = o.ended /\ q.open = o.open
             /\ q.settling = o.settling /\ q.turns = o.turns /\ q.skipped = o.skipped
             /\ q.waiting = o.waiting
  <2>2. o \in Orders(m)
    BY DEF IsOrder
  <2>3. CASE q = r
    BY <2>2, <2>3 DEF Orders
  <2>4. CASE q = s
    BY <2>2, <2>4 DEF Orders
  <2> QED BY <2>3, <2>4
<1> HIDE DEF r, s
<1>2. Beat(o) \in {Wake(r), s}
  BY DEF Beat, r, s
<1>3. ASSUME NEW q \in {r, s} PROVE IsOrder(q, m) /\ Undone(q) = Undone(o)
  BY <1>1 DEF IsOrder, IsDone, Undone
<1>4. 0 \notin Undone(o)
  <2>1. \A k \in Undone(o) : k \in 1 .. m
    BY UndoneIs
  <2> QED BY <2>1
<1>5. CASE Beat(o) = s
  <2>1. o.next <= s.next
    BY <1>1, OrderNumbersAre
  <2>2. Moves(o, s, 0, 0)
    BY <2>1, <1>1, <1>3, <1>4 DEF Moves, NoneAtHead, IsNext
  <2>3. Keeps(o, s) /\ s.settling = o.settling /\ s.waiting = o.waiting
    BY <1>1 DEF Keeps
  <2> QED BY <1>3, <1>5, <2>2, <2>3
<1>6. CASE Beat(o) = Wake(r)
  <2> DEFINE p == Wake(r)
  <2>1. IsOrder(p, m) /\ Wakes(r, p)
    BY <1>3, WakeIs
  <2> HIDE DEF p
  <2>2. /\ r.firstLive = o.firstLive /\ r.next = o.next /\ r.open = o.open /\ r.ended = o.ended
        /\ r.skipped = o.skipped /\ r.waiting = o.waiting /\ r.settling = o.settling
        /\ Undone(r) = Undone(o) \ {0}
    BY <1>1, <1>3, <1>4
  <2>3. Moves(o, p, 0, 0)
    BY <2>1, <2>2, MovesOn
  <2>4. Keeps(o, p) /\ p.settling = o.settling /\ \A n \in o.waiting \ p.waiting : IsNext(p, n)
    BY <2>1, <2>2 DEF Keeps, Wakes
  <2> QED BY <1>6, <2>1, <2>3, <2>4 DEF p
<1> QED BY <1>2, <1>5, <1>6

\* q lists n members of S, each above the one before it.
Ascends(q, S, n) == q \in [1 .. n -> S] /\ \A i, j \in 1 .. n : i < j => q[i] < q[j]

\* A finite set of numbers can be listed in ascending order.
LEMMA AscendingExists ==
  ASSUME NEW m \in Nat, NEW S \in SUBSET (1 .. m)
  PROVE  IsFiniteSet(S) /\ Cardinality(S) \in Nat /\ \E q : Ascends(q, S, Cardinality(S))
<1> DEFINE Bad == {n \in Nat : \E T \in SUBSET (1 .. m) :
                                 Cardinality(T) = n /\ ~\E q : Ascends(q, T, n)}
<1>1. ASSUME NEW T \in SUBSET (1 .. m) PROVE IsFiniteSet(T) /\ Cardinality(T) \in Nat
  <2>1. IsFiniteSet(1 .. m)
    BY FS_Interval
  <2> QED BY <2>1, FS_Subset, FS_CardinalityType
<1>2. Bad = {}
  <2> SUFFICES ASSUME Bad # {} PROVE FALSE
    OBVIOUS
  <2>1. PICK n \in Bad : \A k \in Bad : n <= k
    <3>1. Bad \in SUBSET Nat
      OBVIOUS
    <3> HIDE DEF Bad
    <3> QED BY <3>1, LeastNumber
  <2>2. PICK T \in SUBSET (1 .. m) : Cardinality(T) = n /\ ~\E q : Ascends(q, T, n)
    OBVIOUS
  <2>3. n \in Nat
    OBVIOUS
  <2>4. T # {}
    <3> SUFFICES ASSUME T = {} PROVE FALSE
      OBVIOUS
    <3>1. n = 0
      BY <2>2, FS_EmptySet
    <3>2. 1 .. n = {}
      BY <3>1
    <3>3. Ascends([i \in 1 .. n |-> 0], T, n)
      BY <3>2 DEF Ascends
    <3> QED BY <3>3, <2>2
  <2>5. PICK x \in T : \A y \in T : y <= x
    <3>1. T \in SUBSET (0 .. m)
      OBVIOUS
    <3> QED BY <3>1, <2>4, GreatestNumber
  <2> DEFINE R == T \ {x}
             k == Cardinality(R)
  <2>6. k = n - 1 /\ k \in Nat
    BY <1>1, <2>2, FS_RemoveElement
  <2>7. k \notin Bad
    BY <2>1, <2>3, <2>6
  <2>8. R \in SUBSET (1 .. m)
    OBVIOUS
  <2>9. PICK q : Ascends(q, R, k)
    BY <2>6, <2>7, <2>8
  <2> HIDE DEF k, R, Bad
  <2> DEFINE p == [i \in 1 .. n |-> IF i = n THEN x ELSE q[i]]
  <2>10. \A i \in 1 .. n : i = n \/ i \in 1 .. k
    BY <2>3, <2>6
  <2>11. q \in [1 .. k -> R] /\ \A i, j \in 1 .. k : i < j => q[i] < q[j]
    BY <2>9 DEF Ascends
  <2>12. p \in [1 .. n -> T]
    BY <2>10, <2>11 DEF R
  <2>13. ASSUME NEW i \in 1 .. n, NEW j \in 1 .. n, i < j PROVE p[i] < p[j]
    <3>1. i \in 1 .. k
      BY <2>13, <2>3, <2>6
    <3>2. CASE j = n
      <4>1. q[i] \in T /\ q[i] # x
        BY <3>1, <2>11 DEF R
      <4>2. q[i] <= x /\ q[i] \in Nat /\ x \in Nat
        <5>1. x \in 1 .. m /\ q[i] \in 1 .. m
          BY <4>1
        <5> QED BY <5>1, <4>1, <2>5
      <4> QED BY <4>1, <4>2, <3>1, <3>2, <2>6, <2>3
    <3>3. CASE j \in 1 .. k
      BY <3>1, <3>3, <2>11, <2>13, <2>6, <2>3
    <3> QED BY <3>2, <3>3, <2>10
  <2>14. Ascends(p, T, n)
    BY <2>12, <2>13 DEF Ascends
  <2> QED BY <2>2, <2>14
<1>3. Cardinality(S) \in Nat /\ Cardinality(S) \notin Bad
  <2> HIDE DEF Bad
  <2> QED BY <1>1, <1>2
<1> QED BY <1>1, <1>3

\* trustedSortNumbers lists the numbers, in ascending order.
LEMMA AscendingIs ==
  ASSUME NEW m \in Nat, NEW S \in SUBSET (1 .. m)
  PROVE  LET q == Ascending(S)
         IN  /\ q \in Seq(1 .. m)
             /\ \A i, j \in DOMAIN q : i < j => q[i] < q[j]
             /\ {q[i] : i \in 1 .. Len(q)} = S
<1> DEFINE n == Cardinality(S)
           q == Ascending(S)
<1>1. IsFiniteSet(S) /\ n \in Nat /\ \E p : Ascends(p, S, n)
  BY AscendingExists
<1>2. \E p \in [1 .. n -> S] : \A i, j \in DOMAIN p : i < j => p[i] < p[j]
  BY <1>1 DEF Ascends
<1>3. q \in [1 .. n -> S] /\ \A i, j \in DOMAIN q : i < j => q[i] < q[j]
  BY <1>2 DEF Ascending
<1> HIDE DEF q
<1>4. q \in Injection(1 .. n, S)
  <2>1. ASSUME NEW i \in 1 .. n, NEW j \in 1 .. n, q[i] = q[j] PROVE i = j
    <3>1. q[i] \in Nat /\ q[j] \in Nat
      <4>1. q[i] \in S /\ q[j] \in S
        BY <1>3
      <4>2. \A x \in S : x \in Nat
        OBVIOUS
      <4> QED BY <4>1, <4>2
    <3>2. ~(i < j) /\ ~(j < i)
      BY <3>1, <2>1, <1>3
    <3> QED BY <3>2, <1>1
  <2> QED BY <2>1, <1>3 DEF Injection, IsInjective
<1>5. Cardinality(1 .. n) = n
  BY <1>1, FS_Interval
<1>6. q \in Surjection(1 .. n, S)
  BY <1>1, <1>4, <1>5, FS_Injection
<1>7. \A x \in S : \E i \in 1 .. n : q[i] = x
  BY <1>6 DEF Surjection
<1>8. q \in Seq(1 .. m) /\ Len(q) = n
  <2>1. q \in [1 .. n -> 1 .. m]
    BY <1>3
  <2>2. q \in Seq(1 .. m)
    BY <2>1, <1>1, SeqDef
  <2>3. Len(q) = n
    BY <2>1, <2>2, <1>1, LenProperties
  <2> QED BY <2>2, <2>3
<1>9. {q[i] : i \in 1 .. n} = S
  BY <1>3, <1>7
<1> QED BY <1>3, <1>8, <1>9 DEF q

\* The order of a new pass: the recorded numbers are to come, and nothing else was done.
LEMMA NewOrderIs ==
  ASSUME NEW m \in Nat, NEW S \in SUBSET (1 .. m), NEW h \in 0 .. m, \A n \in S : n <= h
  PROVE  LET p == NewOrder(Ascending(S), h)
         IN  /\ IsOrder(p, m) /\ Undone(p) = S /\ NoneAtHead(p)
             /\ p.next = h + 1 /\ p.firstLive = h + 1 /\ ~p.open /\ ~p.ended /\ ~p.settling
             /\ p.skipped = {} /\ p.waiting = {}
<1> DEFINE q == Ascending(S)
           p == NewOrder(q, h)
<1>1. /\ q \in Seq(1 .. m)
      /\ \A i, j \in DOMAIN q : i < j => q[i] < q[j]
      /\ {q[i] : i \in 1 .. Len(q)} = S
  BY AscendingIs
<1> HIDE DEF q
<1>2. /\ p \in Orders(m) /\ p.queue = q /\ p.head = 1 /\ p.floor = 0 /\ p.done = {}
      /\ p.next = h + 1 /\ p.firstLive = h + 1 /\ ~p.open /\ ~p.ended /\ ~p.settling
      /\ p.skipped = {} /\ p.waiting = {}
  <2>1. h + 1 \in 1 .. m + 1
    OBVIOUS
  <2>2. 0 \in 0 .. m + 1 /\ 1 \in Nat /\ 0 \in Nat
    OBVIOUS
  <2> QED BY <2>1, <2>2, <1>1 DEF NewOrder, Orders
<1> HIDE DEF p
<1>3. Undone(p) = S
  BY <1>1, <1>2 DEF Undone
<1>4. \A i \in DOMAIN q : q[i] \in S /\ ~(i < 1)
  BY <1>1
<1>5. \A i \in DOMAIN q : q[i] < h + 1 /\ (i < 1 <=> q[i] < 0)
  <2>1. \A n \in S : n < h + 1 /\ ~(n < 0)
    <3> TAKE n \in S
    <3>1. n \in 1 .. m /\ n <= h
      OBVIOUS
    <3> QED BY <3>1
  <2> QED BY <2>1, <1>4
<1>6. 1 \in 1 .. Len(q) + 1
  BY <1>1
<1>7. IsOrder(p, m)
  BY <1>1, <1>2, <1>5, <1>6 DEF IsOrder
<1> QED BY <1>2, <1>3, <1>7 DEF NoneAtHead, p, q

-----------------------------------------------------------------------------
(* What the calls of a pass keep, and the conjuncts that a step leaves alone *)

\* The constants: finitely many flows, and as many spawn keys as there are flows.
LEMMA Counts ==
  /\ IsFiniteSet(Flows) /\ Count \in Nat /\ MaxSeq \in Nat /\ 0 \notin Flows
  /\ \A S \in SUBSET Flows : IsFiniteSet(S) /\ Cardinality(S) \in 0 .. Count
  /\ MaxPasses \in Nat \ {0}
<1>1. IsFiniteSet(Flows) /\ Flows \subseteq Nat \ {0} /\ MaxPasses \in Nat \ {0}
  BY ReplayAssumption
<1>2. Cardinality(Flows) \in Nat
  BY <1>1, FS_CardinalityType
<1>3. \A S \in SUBSET Flows : IsFiniteSet(S) /\ Cardinality(S) \in Nat /\ Cardinality(S) <= Cardinality(Flows)
  BY <1>1, FS_Subset, FS_CardinalityType
<1>4. MaxSeq \in Nat
  BY <1>1, <1>2 DEF MaxSeq
<1> QED BY <1>1, <1>2, <1>3, <1>4 DEF Count

\* Own and spawn keys never clash.
LEMMA KeysDiffer ==
  /\ \A f, g : Own(f) = Own(g) => f = g
  /\ \A j, k : Spawn(j) = Spawn(k) => j = k
  /\ \A f, k : Own(f) # Spawn(k) /\ Own(f) # NoKey /\ Spawn(k) # NoKey
  /\ NoKey \notin Keys
  /\ \A f \in Flows : Own(f) \in Keys
  /\ \A k \in 1 .. Count : Spawn(k) \in Keys
BY DEF Own, Spawn, NoKey, Keys, Count

\* Every call but flow f's stays what it is, apart from the calls that are woken.
OthersStay(f) ==
  \A g \in Flows \ {f} :
    /\ call'[g].stage = call[g].stage /\ call'[g].use = call[g].use
    /\ call'[g].num = call[g].num /\ call'[g].marked = call[g].marked
    /\ call[g].beside => call'[g].beside
    /\ call'[g].phase = IF call[g].phase = "held" /\ call[g].num \notin order'.waiting
                        THEN "due" ELSE call[g].phase

\* The fields of a call.
LEMMA CallIs ==
  ASSUME TypeOK, NEW f \in Flows
  PROVE  /\ call[f] \in Calls
         /\ call[f].stage \in {"own", "spawn"} /\ call[f].use \in 0 .. Count
         /\ call[f].num \in 0 .. MaxSeq
         /\ call[f].marked \in BOOLEAN /\ call[f].beside \in BOOLEAN
         /\ call[f].phase \in Store \cup Microtask \cup {"timer", "held", "parking", "done"}
BY DEF TypeOK, Calls, Count

\* What a wake does to the calls that a step is not about.
LEMMA WokenStays ==
  ASSUME TypeOK, NEW calls \in [Flows -> Calls], NEW f \in Flows \cup {0},
         \A g \in Flows \ {f} :
           \/ calls[g] = call[g]
           \/ calls[g] = [call[g] EXCEPT !.beside = TRUE],
         \A g \in Flows \ {f} : call'[g] = Woken(calls, order')[g]
  PROVE  OthersStay(f) /\ \A g \in Flows \ {f} : call'[g] \in Calls
<1> SUFFICES ASSUME NEW g \in Flows \ {f}
             PROVE  /\ call'[g].stage = call[g].stage /\ call'[g].use = call[g].use
                    /\ call'[g].num = call[g].num /\ call'[g].marked = call[g].marked
                    /\ call[g].beside => call'[g].beside
                    /\ call'[g].phase = IF call[g].phase = "held" /\ call[g].num \notin order'.waiting
                                        THEN "due" ELSE call[g].phase
                    /\ call'[g] \in Calls
  BY DEF OthersStay
<1>1. call[g] \in Calls
  BY CallIs
<1>2. /\ calls[g] \in Calls
      /\ calls[g].stage = call[g].stage /\ calls[g].use = call[g].use
      /\ calls[g].num = call[g].num /\ calls[g].marked = call[g].marked
      /\ calls[g].phase = call[g].phase
      /\ call[g].beside => calls[g].beside
  BY <1>1 DEF Calls
<1>3. call'[g] = IF calls[g].phase = "held" /\ calls[g].num \notin order'.waiting
                 THEN [calls[g] EXCEPT !.phase = "due"] ELSE calls[g]
  BY DEF Woken
<1>4. CASE calls[g].phase = "held" /\ calls[g].num \notin order'.waiting
  <2>1. "due" \in Microtask
    BY DEF Microtask
  <2>2. call'[g] = [calls[g] EXCEPT !.phase = "due"]
    BY <1>3, <1>4
  <2> DEFINE c == call[g]
             d == calls[g]
             e == call'[g]
  <2>3. /\ e \in Calls /\ e.stage = d.stage /\ e.use = d.use /\ e.num = d.num /\ e.marked = d.marked
        /\ e.beside = d.beside /\ e.phase = "due"
    BY <2>1, <2>2, <1>2 DEF Calls
  <2> QED BY <2>3, <1>2, <1>4
<1>5. CASE ~(calls[g].phase = "held" /\ calls[g].num \notin order'.waiting)
  BY <1>2, <1>3, <1>5
<1> QED BY <1>4, <1>5

\* What a step of flow f does to the calls.
LEMMA StepGives ==
  ASSUME TypeOK, NEW f \in Flows, NEW calls, calls = call \/ calls = Joined(f),
         NEW c, NEW o, Step(calls, f, c, o)
  PROVE  /\ order' = o /\ call'[f] = c /\ OthersStay(f) /\ \A g \in Flows \ {f} : call'[g] \in Calls
         /\ \E W : call' = [g \in Flows |-> IF g = f THEN c ELSE W[g]]
<1>1. calls \in [Flows -> Calls]
  <2>1. \A g \in Flows : [call[g] EXCEPT !.beside = TRUE] \in Calls
    BY DEF TypeOK, Calls
  <2> QED BY <2>1 DEF TypeOK, Joined
<1>2. \A g \in Flows \ {f} : calls[g] = call[g] \/ calls[g] = [call[g] EXCEPT !.beside = TRUE]
  BY DEF Joined
<1>3. order' = o /\ call' = [Woken(calls, order') EXCEPT ![f] = c]
  BY DEF Step
<1>4. Woken(calls, order') = [g \in Flows |-> Woken(calls, order')[g]]
  BY DEF Woken
<1> DEFINE W == Woken(calls, order')
<1> HIDE DEF W
<1>5. call' = [g \in Flows |-> IF g = f THEN c ELSE W[g]]
  BY <1>3, <1>4 DEF W
<1>6. call'[f] = c /\ \A g \in Flows \ {f} : call'[g] = Woken(calls, order')[g]
  BY <1>5 DEF W
<1>7. OthersStay(f) /\ \A g \in Flows \ {f} : call'[g] \in Calls
  BY <1>1, <1>2, <1>6, WokenStays
<1> QED BY <1>3, <1>5, <1>6, <1>7

\* What a step of one call does to it and to the others.
LEMMA StepIs ==
  ASSUME TypeOK, NEW f \in Flows, NEW calls, calls = call \/ calls = Joined(f),
         NEW c \in Calls, NEW o, Step(calls, f, c, o)
  PROVE  order' = o /\ call' \in [Flows -> Calls] /\ call'[f] = c /\ OthersStay(f)
<1>1. /\ order' = o /\ call'[f] = c /\ OthersStay(f) /\ \A g \in Flows \ {f} : call'[g] \in Calls
  BY StepGives
<1>2. PICK W : call' = [g \in Flows |-> IF g = f THEN c ELSE W[g]]
  BY StepGives
<1>3. \A g \in Flows : call'[g] \in Calls
  BY <1>1
<1>4. call' = [g \in Flows |-> call'[g]]
  BY <1>2
<1> QED BY <1>1, <1>3, <1>4

\* Steps of no flow.
LEMMA AllStay ==
  ASSUME TypeOK, call' = Woken(call, order')
  PROVE  OthersStay(0) /\ call' \in [Flows -> Calls]
<1>1. call \in [Flows -> Calls] /\ 0 \notin Flows
  BY Counts DEF TypeOK
<1>2. \A g \in Flows \ {0} : call'[g] = Woken(call, order')[g]
  OBVIOUS
<1>3. OthersStay(0) /\ \A g \in Flows \ {0} : call'[g] \in Calls
  BY <1>1, <1>2, WokenStays
<1>4. call' = [g \in Flows |-> call'[g]]
  BY DEF Woken
<1> QED BY <1>1, <1>3, <1>4

\* The call is on its way to hand a result over.
Owed(f) == call[f].phase \in {"due", "joining"}

\* The other calls keep what they hold in a step in which flow f (if any) hands over
\* or abandons n (if any).
LEMMA OthersHold ==
  ASSUME TypeOK, IsOrder(order, MaxSeq), IsOrder(order', MaxSeq), CallsHold,
         NEW f \in Flows \cup {0}, NEW n, NEW w, Moves(order, order', n, w), OthersStay(f),
         used <= used', used \in Nat, used' \in Nat,
         \A k \in 1 .. order.firstLive - 1 : marker'[k] = marker[k],
         \A g \in Flows \ {f} : n # 0 => n # call[g].num,
         \/ (Undone(order) \ {n}) \ Undone(order') = {}
         \/ \A g \in Flows \ {f} : call[g].phase # "due",
         order'.settling => \/ order.settling \/ order'.open \/ order'.skipped # {}
                            \/ \A g \in Flows \ {f} : ~Owed(g)
  PROVE  \A g \in Flows \ {f} : CallHolds(g)'
<1> SUFFICES ASSUME NEW g \in Flows, g # f PROVE CallHolds(g)'
  OBVIOUS
<1> DEFINE c == call[g]
           d == call'[g]
<1>1. CallHolds(g)
  BY DEF CallsHold
<1>2. /\ d.stage = c.stage /\ d.use = c.use /\ d.num = c.num
      /\ d.phase = IF c.phase = "held" /\ c.num \notin order'.waiting THEN "due" ELSE c.phase
  BY DEF OthersStay
<1>3. /\ c.stage \in {"own", "spawn"} /\ c.use \in 0 .. Count /\ c.num \in 0 .. MaxSeq
      /\ c.phase \in Store \cup Microtask \cup {"timer", "held", "parking", "done"}
  BY CallIs
<1>4. Key(g)' = Key(g)
  BY <1>2 DEF Key
<1>5. c.phase = "held" => c.num \in order.waiting
  BY DEF CallsHold
<1>6. /\ c.stage = "own" \/ c.phase \in {"ready", "done"} => c.use = 0
      /\ c.stage = "spawn" /\ c.phase \notin {"ready", "done"} => c.use \in 1 .. used
      /\ c.phase \in {"timer", "reserving", "leaving", "parking"} => c.stage = "own"
      /\ c.phase \in {"timer", "ready", "done", "asking"} => c.num = 0
      /\ c.phase \in {"marking", "storing", "joining", "reserving"} => c.num >= order.firstLive
      /\ c.phase \in InQueue => c.num \in Undone(order)
      /\ c.num < order.next
      /\ c.num \in 1 .. order.firstLive - 1 =>
           c.phase \in {"held", "due", "handed"} /\ marker[c.num] = Key(g)
      /\ c.phase \in {"due", "joining"} /\ ~order.open =>
           IsNext(order, c.num) /\ (order.skipped = {} => ~order.settling)
  BY <1>1 DEF CallHolds
<1>7. order'.firstLive = order.firstLive /\ order.next <= order'.next /\ (order.open => order'.open)
  BY DEF Moves
<1>8. order.next \in Nat /\ order'.next \in Nat /\ order.firstLive \in Nat
  BY OrderNumbersAre, Counts
<1>9. c.phase \in InQueue => c.num \in Undone(order')
  <2> SUFFICES ASSUME c.phase \in InQueue, c.num \notin Undone(order') PROVE FALSE
    OBVIOUS
  <2>1. c.num \in Undone(order)
    BY <1>6
  <2>2. c.num \in 1 .. MaxSeq
    BY <2>1, UndoneIs, Counts
  <2>3. c.num # n
    BY <2>2
  <2>4. /\ c.num < order.firstLive /\ c.num \notin order.waiting
        /\ \A g2 \in Flows \ {f} : call[g2].phase # "due"
    BY <2>1, <2>3 DEF Moves
  <2>5. c.phase \in {"marking", "storing", "joining"}
    BY <2>4, <1>5 DEF InQueue
  <2> QED BY <2>4, <2>5, <1>3, <1>6, <1>8
<1>10. d.phase \in InQueue => d.num \in Undone(order')
  BY <1>2, <1>9 DEF InQueue
<1>11. d.phase \in {"due", "joining"} /\ ~order'.open =>
         IsNext(order', d.num) /\ (order'.skipped = {} => ~order'.settling)
  <2> SUFFICES ASSUME d.phase \in {"due", "joining"}, ~order'.open
               PROVE  IsNext(order', d.num) /\ (order'.skipped = {} => ~order'.settling)
    OBVIOUS
  <2>1. CASE c.phase = "held"
    BY <2>1, <1>2, <1>5 DEF Moves
  <2>2. CASE c.phase # "held"
    <3>1. c.phase \in {"due", "joining"} /\ ~order.open
      BY <2>2, <1>2, <1>7
    <3>2. IsNext(order, c.num) /\ (order.skipped = {} => ~order.settling)
      BY <3>1, <1>6
    <3>3. IsNext(order', c.num)
      <4>1. c.num \in Undone(order')
        BY <3>1, <1>9 DEF InQueue
      <4>2. \A k \in Undone(order') : c.num <= k
        <5> SUFFICES ASSUME NEW k \in Undone(order') PROVE c.num <= k
          OBVIOUS
        <5>1. CASE k \in Undone(order)
          BY <5>1, <3>2 DEF IsNext
        <5>2. CASE k \notin Undone(order)
          <6>1. order.next <= k
            BY <5>2 DEF Moves
          <6>2. k \in Nat
            BY UndoneIs, Counts
          <6> QED BY <6>1, <6>2, <1>3, <1>6, <1>8
        <5> QED BY <5>1, <5>2
      <4> QED BY <4>1, <4>2 DEF IsNext
    <3>4. order'.skipped = {} => ~order'.settling
      <4> SUFFICES ASSUME order'.skipped = {}, order'.settling PROVE FALSE
        OBVIOUS
      <4>1. order.skipped = {}
        BY DEF Moves
      <4>2. \A h \in Flows \ {f} : ~Owed(h)
        BY <4>1, <3>2
      <4> QED BY <4>2, <3>1 DEF Owed
    <3> QED BY <3>3, <3>4, <1>2
  <2> QED BY <2>1, <2>2
<1>12. d.use = 0 \/ ~(d.stage = "own" \/ d.phase \in {"ready", "done"})
  BY <1>2, <1>6
<1>13. d.stage = "spawn" /\ d.phase \notin {"ready", "done"} => d.use \in 1 .. used'
  BY <1>2, <1>3, <1>6
<1>14. /\ d.phase \in {"timer", "reserving", "leaving", "parking"} => d.stage = "own"
       /\ d.phase \in {"timer", "ready", "done", "asking"} => d.num = 0
       /\ d.phase \in {"marking", "storing", "joining", "reserving"} => d.num >= order'.firstLive
  BY <1>2, <1>6, <1>7
<1>15. d.num < order'.next
  BY <1>2, <1>3, <1>6, <1>7, <1>8
<1>16. d.num \in 1 .. order'.firstLive - 1 =>
           d.phase \in {"held", "due", "handed"} /\ marker'[d.num] = Key(g)'
  BY <1>2, <1>4, <1>6, <1>7
<1> QED BY <1>10, <1>11, <1>12, <1>13, <1>14, <1>15, <1>16 DEF CallHolds

\* So do all calls, if flow f's holds what it should.
LEMMA CallsStillHold ==
  ASSUME TypeOK, IsOrder(order, MaxSeq), IsOrder(order', MaxSeq), CallsHold,
         NEW f \in Flows, NEW n, NEW w, Moves(order, order', n, w), OthersStay(f),
         used <= used', used \in Nat, used' \in Nat,
         \A k \in 1 .. order.firstLive - 1 : marker'[k] = marker[k],
         \A g \in Flows \ {f} : n # 0 => n # call[g].num,
         \/ (Undone(order) \ {n}) \ Undone(order') = {}
         \/ \A g \in Flows \ {f} : call[g].phase # "due",
         order'.settling => \/ order.settling \/ order'.open \/ order'.skipped # {}
                            \/ \A g \in Flows \ {f} : ~Owed(g),
         call[f].phase # "held",
         CallHolds(f)',
         \A g \in Flows \ {f} : /\ call'[f].num # 0 => call'[f].num # call[g].num
                                /\ call'[f].use # 0 => call'[f].use # call[g].use,
         IF call'[f].phase = "held" THEN w = call'[f].num ELSE w = 0
  PROVE  CallsHold'
<1>1. \A g \in Flows : CallHolds(g)'
  BY OthersHold
<1>2. CallsDiffer'
  BY DEF CallsHold, CallsDiffer, OthersStay
<1>3. ASSUME NEW g \in Flows, call'[g].phase = "held" PROVE call'[g].num \in order'.waiting
  <2>1. CASE g = f
    <3>1. call'[f].num \in Undone(order')
      BY <2>1, <1>1, <1>3 DEF CallHolds, InQueue
    <3>2. call'[f].num # 0
      BY <3>1, UndoneIs, Counts
    <3> QED BY <3>2, <2>1, <1>3 DEF Moves
  <2>2. CASE g # f
    BY <2>2, <1>3 DEF OthersStay
  <2> QED BY <2>1, <2>2
<1>4. ASSUME NEW k \in order'.waiting PROVE \E g \in Flows : call'[g].phase = "held" /\ call'[g].num = k
  <2>1. k # 0
    BY OrderIs, Counts
  <2>2. CASE k = w
    BY <2>1, <2>2
  <2>3. CASE k # w
    <3>1. k \in order.waiting
      BY <2>3 DEF Moves
    <3>2. PICK g \in Flows : call[g].phase = "held" /\ call[g].num = k
      BY <3>1 DEF CallsHold
    <3>3. g # f
      BY <3>2
    <3> QED BY <3>2, <3>3 DEF OthersStay
  <2> QED BY <2>2, <2>3
<1>5. order'.waiting = {call'[g].num : g \in {h \in Flows : call'[h].phase = "held"}}
  BY <1>3, <1>4
<1> QED BY <1>1, <1>2, <1>5 DEF CallsHold

\* A step of no flow: the turn of the event loop, a beat, a heartbeat.
LEMMA CallsAllHold ==
  ASSUME TypeOK, IsOrder(order, MaxSeq), IsOrder(order', MaxSeq), CallsHold,
         Moves(order, order', 0, 0), OthersStay(0), used' = used, marker' = marker,
         \A g \in Flows : call[g].phase # "due",
         order'.settling => order.settling
  PROVE  CallsHold'
<1>1. used \in Nat /\ 0 \notin Flows
  BY Counts DEF TypeOK, Count
<1>2. \A g \in Flows : CallHolds(g)'
  BY <1>1, OthersHold
<1>3. CallsDiffer'
  BY <1>1 DEF CallsHold, CallsDiffer, OthersStay
<1>4. ASSUME NEW g \in Flows, call'[g].phase = "held" PROVE call'[g].num \in order'.waiting
  BY <1>1, <1>4 DEF OthersStay
<1>5. ASSUME NEW k \in order'.waiting PROVE \E g \in Flows : call'[g].phase = "held" /\ call'[g].num = k
  <2>1. k # 0
    BY OrderIs, Counts
  <2>2. k \in order.waiting
    BY <2>1 DEF Moves
  <2>3. PICK g \in Flows : call[g].phase = "held" /\ call[g].num = k
    BY <2>2 DEF CallsHold
  <2> QED BY <1>1, <2>3 DEF OthersStay
<1>6. order'.waiting = {call'[g].num : g \in {h \in Flows : call'[h].phase = "held"}}
  BY <1>4, <1>5
<1> QED BY <1>2, <1>3, <1>6 DEF CallsHold

\* The keys that may still be asked for, and what was recorded of them.
LEMMA ToComeStays ==
  ASSUME NEW f \in Flows \cup {0}, OthersStay(f), used <= used', used \in Nat, used' \in Nat,
         f # 0 /\ call'[f].stage = "own" /\ call'[f].phase \in {"timer", "ready"}
           => call[f].stage = "own" /\ call[f].phase \in {"timer", "ready"}
  PROVE  ToCome' \subseteq ToCome
<1>1. ASSUME NEW g \in Flows, call'[g].stage = "own", call'[g].phase \in {"timer", "ready"}
      PROVE  call[g].stage = "own" /\ call[g].phase \in {"timer", "ready"}
  <2>1. CASE g = f
    BY <1>1, <2>1, Counts
  <2>2. CASE g # f
    BY <1>1, <2>2 DEF OthersStay
  <2> QED BY <2>1, <2>2
<1>2. \A k \in used' + 1 .. Count : k \in used + 1 .. Count
  <2>1. Count \in Nat
    BY Counts
  <2>2. \A u, v, c \in Nat : u <= v => \A k \in v + 1 .. c : k \in u + 1 .. c
    OBVIOUS
  <2> QED BY <2>1, <2>2
<1> QED BY <1>1, <1>2 DEF ToCome

\* A key whose markers and result stay keeps its number.
LEMMA RecordedStays ==
  ASSUME TypeOK, NEW key, stored \subseteq stored', key \in stored' => key \in stored,
         marker' \in [1 .. MaxSeq -> Keys \cup {NoKey}],
         \A k \in 1 .. MaxSeq : marker[k] = key <=> marker'[k] = key
  PROVE  Recorded(key)' = Recorded(key)
<1>1. DOMAIN marker = 1 .. MaxSeq /\ DOMAIN marker' = 1 .. MaxSeq
  BY DEF TypeOK
<1>2. {n \in DOMAIN marker' : marker'[n] = key} = {n \in DOMAIN marker : marker[n] = key}
  BY <1>1
<1>3. key \in stored' <=> key \in stored
  OBVIOUS
<1> QED BY <1>2, <1>3 DEF Recorded, NumberOf

\* MarkersHold survives a step that takes numbers and writes markers of this pass.
LEMMA MarkersStillHold ==
  ASSUME TypeOK, IsOrder(order, MaxSeq), IsOrder(order', MaxSeq), MarkersHold,
         NEW n, NEW w, Moves(order, order', n, w),
         ToCome' \subseteq ToCome,
         marker' \in [1 .. MaxSeq -> Keys \cup {NoKey}],
         \A k \in 1 .. MaxSeq : \/ marker'[k] = marker[k]
                                \/ order.firstLive <= k /\ k < order'.next /\ marker'[k] \notin ToCome',
         stored \subseteq stored',
         \A key \in stored' \ stored : key \notin ToCome',
         n # 0 => \A key \in ToCome' : Recorded(key) # n
  PROVE  MarkersHold'
<1>1. order'.firstLive = order.firstLive /\ order.next <= order'.next
      /\ order.next \in Nat /\ order'.next \in Nat
  BY OrderNumbersAre, Counts DEF Moves
<1>2. ASSUME NEW k \in 1 .. MaxSeq, marker'[k] # NoKey
      PROVE  k < order'.next /\ (k >= order'.firstLive => marker'[k] \notin ToCome')
  <2>1. CASE marker'[k] = marker[k]
    BY <2>1, <1>1, <1>2 DEF MarkersHold
  <2>2. CASE marker'[k] # marker[k]
    BY <2>2, <1>1, <1>2
  <2> QED BY <2>1, <2>2
<1>3. ASSUME NEW key \in ToCome'
      PROVE  Recorded(key)' = Recorded(key)
  <2>1. \A k \in 1 .. MaxSeq : marker[k] = key => ~(k >= order.firstLive)
    BY KeysDiffer DEF MarkersHold, ToCome
  <2>2. \A k \in 1 .. MaxSeq : marker[k] = key <=> marker'[k] = key
    <3>1. \A k \in 1 .. MaxSeq : order.firstLive <= k => k >= order.firstLive
      BY OrderNumbersAre, Counts
    <3> QED BY <2>1, <3>1
  <2>3. key \in stored' => key \in stored
    OBVIOUS
  <2> QED BY <2>2, <2>3, RecordedStays
<1>4. ASSUME NEW key \in ToCome', Recorded(key) # 0
      PROVE  Recorded(key) < order'.firstLive /\ Recorded(key) \in Undone(order') \cup order'.skipped
  <2>1. Recorded(key) < order.firstLive /\ Recorded(key) \in Undone(order) \cup order.skipped
    BY <1>4 DEF MarkersHold
  <2> QED BY <2>1, <1>1, <1>4 DEF Moves
<1> QED BY <1>2, <1>3, <1>4 DEF MarkersHold

\* The slots in which flows may take numbers, and those they took.
Slots == Flows \X {1, 2}
\* Flow f took its i-th number.
IsTaken(f, i) ==
  \/ i = 1 /\ (call[f].stage = "spawn" \/ call[f].num >= order.firstLive)
  \/ i = 2 /\ call[f].stage = "spawn" /\ (call[f].phase = "done" \/ call[f].num >= order.firstLive)

\* Taken, slot by slot.
LEMMA TakenIs ==
  /\ Taken \subseteq Slots
  /\ \A f \in Flows, i \in {1, 2} : <<f, i>> \in Taken <=> IsTaken(f, i)
BY DEF Taken, IsTaken, Slots

\* A pass has two slots for a flow.
LEMMA SlotsAre ==
  IsFiniteSet(Slots) /\ Cardinality(Slots) = 2 * Count
<1>1. IsFiniteSet(Flows) /\ Count \in Nat
  BY Counts
<1>2. IsFiniteSet({1}) /\ IsFiniteSet({1, 2}) /\ Cardinality({1, 2}) = 2
  <2>1. IsFiniteSet({1}) /\ Cardinality({1}) = 1
    BY FS_Singleton
  <2>2. {1, 2} = {1} \cup {2} /\ 2 \notin {1}
    OBVIOUS
  <2> QED BY <2>1, <2>2, FS_AddElement
<1>3. Cardinality(Flows \X {1, 2}) = Count * 2 /\ IsFiniteSet(Flows \X {1, 2})
  BY <1>1, <1>2, FS_Product DEF Count
<1> QED BY <1>1, <1>3 DEF Slots

\* No more slots are taken than there are.
LEMMA TakenCounts ==
  ASSUME TypeOK
  PROVE  IsFiniteSet(Taken) /\ Cardinality(Taken) \in Nat /\ Cardinality(Taken) <= 2 * Count
<1>1. Taken \subseteq Slots /\ IsFiniteSet(Slots) /\ Cardinality(Slots) = 2 * Count
  BY TakenIs, SlotsAre
<1> QED BY <1>1, FS_Subset, FS_CardinalityType

\* A flow that did not take its slot finds a number that is left.
LEMMA RoomIsLeft ==
  ASSUME TypeOK, IsOrder(order, MaxSeq), NumbersLast, NEW f \in Flows, NEW i \in {1, 2},
         <<f, i>> \notin Taken
  PROVE  order.next <= MaxSeq /\ order.next \in 1 .. MaxSeq
<1>1. IsFiniteSet(Taken) /\ Cardinality(Taken) \in Nat
  BY TakenCounts
<1>2. Cardinality(Taken \cup {<<f, i>>}) = Cardinality(Taken) + 1
  BY <1>1, FS_AddElement
<1>3. Taken \cup {<<f, i>>} \subseteq Slots
  BY TakenIs DEF Slots
<1>4. Cardinality(Taken) + 1 <= 2 * Count
  BY <1>2, <1>3, SlotsAre, FS_Subset
<1>5. /\ order.firstLive <= 2 * Count * (pass - 1) + 1
      /\ order.next - order.firstLive <= Cardinality(Taken)
  BY DEF NumbersLast
<1>6. order.next \in Nat /\ order.firstLive \in Nat /\ 1 <= order.next
  BY OrderNumbersAre, Counts
<1>7. pass \in 1 .. MaxPasses /\ Count \in Nat /\ MaxPasses \in Nat
  BY Counts DEF TypeOK
<1>8. 2 * Count * (pass - 1) + 2 * Count <= MaxSeq
  <2>1. MaxSeq = 2 * MaxPasses * Count
    BY DEF MaxSeq, Count
  <2>2. pass - 1 \in Nat /\ pass - 1 + 1 <= MaxPasses
    BY <1>7
  <2>3. \A c, p, q \in Nat : p + 1 <= q => 2 * c * p + 2 * c <= 2 * q * c
    OBVIOUS
  <2> QED BY <2>1, <2>2, <2>3, <1>7
<1>9. 2 * Count * (pass - 1) \in Nat
  BY <1>7
<1>10. MaxSeq \in Nat
  BY Counts
<1> QED BY <1>1, <1>4, <1>5, <1>6, <1>8, <1>9, <1>10, <1>7

\* No more numbers are taken than there are slots.
LEMMA NumbersStillLast ==
  ASSUME TypeOK, IsOrder(order, MaxSeq), NumbersLast, NEW f \in Flows \cup {0}, OthersStay(f),
         pass' = pass, order'.firstLive = order.firstLive, order.next \in Nat,
         used \in Nat,
         f # 0 => \A i \in {1, 2} : IsTaken(f, i) => IsTaken(f, i)',
         \/ order'.next = order.next
         \/ /\ order'.next = order.next + 1
            /\ f # 0 /\ \E i \in {1, 2} : ~IsTaken(f, i) /\ IsTaken(f, i)',
         f # 0 /\ call[f].stage = "spawn" /\ call[f].phase # "ready"
           => call'[f].stage = "spawn" /\ call'[f].phase # "ready",
         \/ used' = used
         \/ /\ used' = used + 1 /\ f # 0
            /\ ~(call[f].stage = "spawn" /\ call[f].phase # "ready")
            /\ call'[f].stage = "spawn" /\ call'[f].phase # "ready"
  PROVE  NumbersLast'
<1>1. \A g \in Flows \ {f}, i \in {1, 2} : IsTaken(g, i) <=> IsTaken(g, i)'
  BY DEF OthersStay, IsTaken
<1>2. \A g \in Flows, i \in {1, 2} : <<g, i>> \in Taken' <=> IsTaken(g, i)'
  BY DEF Taken, IsTaken
<1>3. Taken' \subseteq Slots
  BY DEF Taken, Slots
<1>4. Taken \subseteq Taken'
  <2> SUFFICES ASSUME NEW g \in Flows, NEW i \in {1, 2}, <<g, i>> \in Taken
               PROVE  <<g, i>> \in Taken'
    <3>1. \A x \in Taken : \E g \in Flows, i \in {1, 2} : x = <<g, i>>
      BY DEF Taken
    <3> QED BY <3>1
  <2>1. IsTaken(g, i)
    BY TakenIs
  <2>2. IsTaken(g, i)'
    BY <2>1, <1>1, Counts
  <2> QED BY <2>2, <1>2
<1>5. IsFiniteSet(Taken') /\ Cardinality(Taken') \in Nat
  BY <1>3, SlotsAre, FS_Subset, FS_CardinalityType
<1>6. Cardinality(Taken) <= Cardinality(Taken') /\ Cardinality(Taken) \in Nat
  BY <1>4, <1>5, FS_Subset, TakenCounts
<1>7. order.next - order.firstLive <= Cardinality(Taken) /\ order.firstLive \in Nat
  BY OrderNumbersAre, Counts DEF NumbersLast
<1>8. order'.next - order'.firstLive <= Cardinality(Taken')
  <2>1. CASE order'.next = order.next
    BY <2>1, <1>5, <1>6, <1>7
  <2>2. CASE order'.next = order.next + 1 /\ f # 0 /\ \E i \in {1, 2} : ~IsTaken(f, i) /\ IsTaken(f, i)'
    <3>1. f \in Flows
      BY <2>2
    <3>2. PICK i \in {1, 2} : ~IsTaken(f, i) /\ IsTaken(f, i)'
      BY <2>2
    <3>3. <<f, i>> \notin Taken /\ <<f, i>> \in Taken'
      BY <3>1, <3>2, <1>2, TakenIs
    <3>4. Taken # Taken'
      BY <3>3
    <3>5. Cardinality(Taken) # Cardinality(Taken')
      BY <3>4, <1>4, <1>5, FS_Subset
    <3> QED BY <2>2, <3>5, <1>5, <1>6, <1>7
  <2> QED BY <2>1, <2>2
<1> DEFINE S == {g \in Flows : call[g].stage = "spawn" /\ call[g].phase # "ready"}
           T == {g \in Flows : call'[g].stage = "spawn" /\ call'[g].phase # "ready"}
<1>9. S \subseteq T
  BY Counts DEF OthersStay
<1>10. S \in SUBSET Flows /\ T \in SUBSET Flows
  OBVIOUS
<1> HIDE DEF S, T
<1>11. /\ IsFiniteSet(T) /\ Cardinality(T) \in Nat /\ Cardinality(S) \in Nat
       /\ Cardinality(S) <= Cardinality(T) /\ (Cardinality(S) = Cardinality(T) => S = T)
  <2>1. IsFiniteSet(T)
    BY <1>10, Counts
  <2> QED BY <1>9, <2>1, FS_Subset, FS_CardinalityType
<1>12. used <= Cardinality(S)
  BY DEF NumbersLast, S
<1>13. used' <= Cardinality(T)
  <2>1. CASE used' = used
    BY <2>1, <1>11, <1>12
  <2>2. CASE used' = used + 1 /\ f # 0 /\ ~(call[f].stage = "spawn" /\ call[f].phase # "ready")
             /\ call'[f].stage = "spawn" /\ call'[f].phase # "ready"
    <3>1. S # T
      BY <2>2 DEF S, T
    <3> QED BY <2>2, <3>1, <1>11, <1>12
  <2> QED BY <2>1, <2>2
<1>14. order'.firstLive <= 2 * Count * (pass' - 1) + 1
  BY DEF NumbersLast, Count
<1> QED BY <1>8, <1>13, <1>14 DEF NumbersLast, T

\* A flow that is to spawn finds a key of the shared name that is left.
LEMMA UseIsLeft ==
  ASSUME TypeOK, NumbersLast, NEW f \in Flows, call[f].stage = "own" \/ call[f].phase = "ready"
  PROVE  used + 1 \in 1 .. Count
<1> DEFINE S == {g \in Flows : call[g].stage = "spawn" /\ call[g].phase # "ready"}
<1>1. f \notin S /\ S \in SUBSET Flows
  OBVIOUS
<1>2. used <= Cardinality(S) /\ used \in Nat
  BY Counts DEF NumbersLast, TypeOK, Count
<1> HIDE DEF S
<1>3. /\ IsFiniteSet(Flows) /\ Cardinality(S) \in Nat /\ Cardinality(S) <= Count /\ Count \in Nat
      /\ Cardinality(S) = Count => S = Flows
  <2>1. IsFiniteSet(Flows)
    BY Counts
  <2> QED BY <1>1, <2>1, FS_Subset, FS_CardinalityType DEF Count
<1> QED BY <1>1, <1>2, <1>3

\* The number of a key is its highest marker, if it has a result.
LEMMA RecordedIs ==
  ASSUME TypeOK, NEW key
  PROVE  /\ Recorded(key) \in 0 .. MaxSeq
         /\ Recorded(key) # 0 =>
              /\ key \in stored /\ Recorded(key) \in 1 .. MaxSeq /\ marker[Recorded(key)] = key
         /\ key \in stored => \A n \in 1 .. MaxSeq : marker[n] = key =>
              Recorded(key) # 0 /\ n <= Recorded(key)
<1> DEFINE N == {n \in DOMAIN marker : marker[n] = key}
<1>1. DOMAIN marker = 1 .. MaxSeq /\ MaxSeq \in Nat
  BY Counts DEF TypeOK
<1>2. N \in SUBSET (0 .. MaxSeq)
  BY <1>1
<1>3. N # {} => Max(N) \in N /\ \A n \in N : n <= Max(N)
  <2> HIDE DEF N
  <2> QED BY <1>1, <1>2, MaxIs
<1>4. Recorded(key) = IF key \in stored /\ N # {} THEN Max(N) ELSE 0
  BY DEF Recorded, NumberOf
<1>5. CASE key \in stored /\ N # {}
  <2>1. Recorded(key) = Max(N)
    BY <1>4, <1>5
  <2>2. Max(N) \in N /\ \A n \in N : n <= Max(N)
    BY <1>3, <1>5
  <2>3. \A n \in N : n \in 1 .. MaxSeq /\ marker[n] = key
    BY <1>1
  <2>4. \A n \in 1 .. MaxSeq : marker[n] = key => n \in N
    BY <1>1
  <2> HIDE DEF N
  <2>5. Recorded(key) \in 1 .. MaxSeq /\ marker[Recorded(key)] = key
    BY <2>1, <2>2, <2>3
  <2>6. Recorded(key) # 0 /\ Recorded(key) \in 0 .. MaxSeq
    BY <2>5, <1>1
  <2> QED BY <1>5, <2>1, <2>2, <2>4, <2>5, <2>6
<1>6. CASE ~(key \in stored /\ N # {})
  <2>1. Recorded(key) = 0
    BY <1>4, <1>6
  <2>2. key \in stored => \A n \in 1 .. MaxSeq : marker[n] # key
    BY <1>1, <1>6
  <2> QED BY <2>1, <2>2, <1>1
<1> QED BY <1>5, <1>6

\* A call that began has a key, which is its own, and which no one will ask for.
LEMMA KeyIs ==
  ASSUME TypeOK, CallsHold, NEW f \in Flows, call[f].phase \notin {"timer", "ready", "done"}
  PROVE  /\ Key(f) \in Keys /\ Key(f) \notin ToCome
         /\ call[f].stage = "spawn" => call[f].use \in 1 .. used /\ call[f].use \in 1 .. Count
         /\ \A g \in Flows : g # f /\ call[g].phase \notin {"timer", "ready", "done"} => Key(g) # Key(f)
<1>1. \A g \in Flows : call[g].stage \in {"own", "spawn"} /\ CallHolds(g)
  BY CallIs DEF CallsHold
<1>2. used \in 0 .. Count /\ Count \in Nat
  BY Counts DEF TypeOK, Count
<1>3. ASSUME NEW g \in Flows, call[g].phase \notin {"timer", "ready", "done"}, call[g].stage = "spawn"
      PROVE  call[g].use \in 1 .. used /\ call[g].use \in 1 .. Count
  <2>1. call[g].use \in 1 .. used
    BY <1>1, <1>3 DEF CallHolds
  <2> QED BY <2>1, <1>2
<1>4. Key(f) \in Keys
  BY <1>1, <1>3, KeysDiffer DEF Key
<1>5. Key(f) \notin ToCome
  <2>1. CASE call[f].stage = "own"
    BY <2>1, KeysDiffer DEF Key, ToCome
  <2>2. CASE call[f].stage = "spawn"
    <3>1. ~(call[f].use \in used + 1 .. Count)
      BY <2>2, <1>2, <1>3
    <3> QED BY <3>1, <2>2, KeysDiffer DEF Key, ToCome
  <2> QED BY <2>1, <2>2, <1>1
<1>6. ASSUME NEW g \in Flows, g # f, call[g].phase \notin {"timer", "ready", "done"}, Key(g) = Key(f)
      PROVE  FALSE
  <2>1. CASE call[f].stage = "own"
    <3>1. call[g].stage = "own"
      BY <2>1, <1>1, <1>6, KeysDiffer DEF Key
    <3> QED BY <3>1, <2>1, <1>6, KeysDiffer DEF Key
  <2>2. CASE call[f].stage = "spawn"
    <3>1. call[g].stage = "spawn"
      BY <2>2, <1>1, <1>6, KeysDiffer DEF Key
    <3>2. call[g].use = call[f].use /\ call[g].use # 0
      BY <3>1, <2>2, <1>2, <1>3, <1>6, KeysDiffer DEF Key
    <3> QED BY <3>2, <1>6 DEF CallsHold, CallsDiffer
  <2> QED BY <2>1, <2>2, <1>1
<1> QED BY <1>3, <1>4, <1>5, <1>6

\* The part of the invariant that holds of every task.
PassInv ==
  /\ TypeOK /\ IsOrder(order, MaxSeq) /\ NoneAtHead(order)
  /\ CallsHold /\ MarkersHold /\ NumbersLast

\* A step of flow f that hands over or abandons n, or starts to wait for w.
LEMMA StepHolds ==
  ASSUME PassInv, NEW f \in Flows, OthersStay(f), call' \in [Flows -> Calls],
         NEW n, NEW w, IsOrder(order', MaxSeq), Moves(order, order', n, w),
         n = 0 \/ n = call'[f].num,
         IF call'[f].phase = "held" THEN w = call'[f].num ELSE w = 0,
         call[f].phase # "held",
         \/ (Undone(order) \ {n}) \ Undone(order') = {}
         \/ \A g \in Flows \ {f} : call[g].phase # "due",
         order'.settling => \/ order.settling \/ order'.open \/ order'.skipped # {}
                            \/ \A g \in Flows \ {f} : ~Owed(g),
         CallHolds(f)',
         \A g \in Flows \ {f} : /\ call'[f].num # 0 => call'[f].num # call[g].num
                                /\ call'[f].use # 0 => call'[f].use # call[g].use,
         UNCHANGED <<given, cut, pass>>, wake' \in Flows \cup {0},
         marker' \in [1 .. MaxSeq -> Keys \cup {NoKey}],
         child' \in [1 .. Count -> Flows \cup {0}], written' \in [Keys -> 0 .. MaxSeq],
         \A k \in 1 .. MaxSeq : \/ marker'[k] = marker[k]
                                \/ order.firstLive <= k /\ k < order'.next /\ marker'[k] \notin ToCome',
         stored \subseteq stored', stored' \subseteq Keys,
         \A key \in stored' \ stored : key \notin ToCome',
         call'[f].stage = "own" /\ call'[f].phase \in {"timer", "ready"}
           => call[f].stage = "own" /\ call[f].phase \in {"timer", "ready"},
         \A i \in {1, 2} : IsTaken(f, i) => IsTaken(f, i)',
         \/ order'.next = order.next
         \/ order'.next = order.next + 1 /\ \E i \in {1, 2} : ~IsTaken(f, i) /\ IsTaken(f, i)',
         call[f].stage = "spawn" /\ call[f].phase # "ready"
           => call'[f].stage = "spawn" /\ call'[f].phase # "ready",
         \/ used' = used
         \/ /\ used' = used + 1
            /\ call[f].stage = "spawn" /\ call[f].phase = "ready"
            /\ call'[f].stage = "spawn" /\ call'[f].phase # "ready"
  PROVE  PassInv'
<1>1. TypeOK /\ IsOrder(order, MaxSeq) /\ NoneAtHead(order) /\ CallsHold /\ MarkersHold /\ NumbersLast
  BY DEF PassInv
<1>2. /\ f \in Flows \cup {0} /\ f # 0 /\ used \in Nat /\ Count \in Nat
      /\ order.next \in Nat /\ order.firstLive \in Nat
      /\ order'.firstLive = order.firstLive
  BY <1>1, Counts, OrderNumbersAre DEF TypeOK, Count, Moves
<1>3. used' \in 0 .. Count
  <2>1. used' = used + 1 => used + 1 \in 1 .. Count
    BY <1>1, <1>2, UseIsLeft
  <2> QED BY <2>1, <1>1, <1>2 DEF TypeOK, Count
<1>4. used <= used' /\ used' \in Nat
  BY <1>2, <1>3
<1>5. TypeOK'
  <2>1. order' \in Orders(MaxSeq)
    BY DEF IsOrder
  <2>2. MaxSeq' = MaxSeq /\ Keys' = Keys /\ Flows' = Flows
    OBVIOUS
  <2> QED BY <1>1, <1>3, <2>1, <2>2 DEF TypeOK, Count
<1>6. \A k \in 1 .. order.firstLive - 1 : marker'[k] = marker[k]
  <2> TAKE k \in 1 .. order.firstLive - 1
  <2>1. k \in 1 .. MaxSeq /\ ~(order.firstLive <= k)
    BY <1>1, OrderIs, Counts
  <2> QED BY <2>1
<1>7. \A g \in Flows \ {f} : n # 0 => n # call[g].num
  OBVIOUS
<1>8. CallsHold'
  BY <1>1, <1>2, <1>4, <1>6, <1>7, CallsStillHold
<1>9. ToCome' \subseteq ToCome
  BY <1>2, <1>4, ToComeStays
<1>10. n # 0 => \A key \in ToCome' : Recorded(key) # n
  <2> SUFFICES ASSUME n # 0, NEW key \in ToCome', Recorded(key) = n PROVE FALSE
    OBVIOUS
  <2>1. Recorded(key) < order.firstLive /\ Recorded(key) \in 1 .. MaxSeq /\ marker[n] = key
    BY <1>1, <1>9, RecordedIs DEF MarkersHold
  <2>2. n \in 1 .. order.firstLive - 1 /\ n = call'[f].num
    BY <2>1, <1>2
  <2>3. call'[f].phase \in {"held", "due", "handed"} /\ marker'[n] = Key(f)'
    BY <2>2, <1>2 DEF CallHolds
  <2>4. Key(f)' \notin ToCome'
    <3>1. CASE call'[f].stage = "own"
      BY <2>3, <3>1, KeysDiffer DEF Key, ToCome
    <3>2. CASE call'[f].stage # "own"
      <4>1. call'[f].stage = "spawn"
        BY <3>2 DEF Calls
      <4>2. call'[f].use \in 1 .. used'
        BY <4>1, <2>3 DEF CallHolds
      <4>3. ~(call'[f].use \in used' + 1 .. Count)
        BY <4>2, <1>2, <1>4
      <4> QED BY <4>1, <4>3, KeysDiffer DEF Key, ToCome
    <3> QED BY <3>1, <3>2
  <2> QED BY <2>1, <2>2, <2>3, <2>4, <1>6
<1>11. MarkersHold'
  BY <1>1, <1>9, <1>10, MarkersStillHold
<1>12. NumbersLast'
  BY <1>1, <1>2, NumbersStillLast
<1>13. NoneAtHead(order')
  BY <1>1 DEF Moves
<1> QED BY <1>5, <1>8, <1>11, <1>12, <1>13 DEF PassInv

\* The call is writing a marker; a result; its number; or asks for a child that is not there.
Marks(f) == call[f].phase \in {"marking", "joining", "reserving"}
Results(f) == call[f].phase \in {"storing", "parking"} /\ ~IsRefused(f)
Numbers(f) == call[f].phase = "joining" \/ (Results(f) /\ call[f].marked)
Asks(f) == call[f].phase = "asking" /\ call[f].stage = "spawn" /\ child[call[f].use] = 0

\* What the store calls that land write, and what they leave.
LEMMA LandsIs ==
  ASSUME PassInv, NEW landing \in SUBSET Flows,
         \A f \in landing : call[f].phase \in Store \cup {"parking"},
         Lands(landing)
  PROVE  /\ marker' \in [1 .. MaxSeq -> Keys \cup {NoKey}]
         /\ \A n \in 1 .. MaxSeq :
              \/ marker'[n] = marker[n]
              \/ \E f \in landing : Marks(f) /\ call[f].num = n /\ marker'[n] = Key(f)
         /\ \A f \in landing : Marks(f) => marker'[call[f].num] = Key(f)
         /\ stored' = stored \cup {Key(f) : f \in {g \in landing : Results(g)}}
         /\ stored' \subseteq Keys
         /\ child' \in [1 .. Count -> Flows \cup {0}]
         /\ \A k \in 1 .. Count :
              \/ child'[k] = child[k]
              \/ child[k] = 0 /\ \E f \in landing : Asks(f) /\ call[f].use = k /\ child'[k] = f
         /\ \A f \in landing : Asks(f) => child'[call[f].use] = f
         /\ written' \in [Keys -> 0 .. MaxSeq]
         /\ \A key \in Keys :
              \/ written'[key] = written[key] /\ ~\E f \in landing : Numbers(f) /\ Key(f) = key
              \/ \E f \in landing : Numbers(f) /\ Key(f) = key /\ written'[key] = call[f].num
<1>1. TypeOK /\ CallsHold /\ CallsDiffer /\ IsOrder(order, MaxSeq)
  BY DEF PassInv, CallsHold
<1>2. \A f \in landing : call[f].phase \notin {"timer", "ready", "done"}
  BY DEF Store
<1>3. \A f \in landing : /\ Key(f) \in Keys
                         /\ \A g \in landing : Key(g) = Key(f) => g = f
                         /\ call[f].stage = "spawn" => call[f].use \in 1 .. Count
  BY <1>1, <1>2, KeyIs
<1>4. \A f \in landing : Marks(f) => call[f].num # 0 /\ call[f].num \in 1 .. MaxSeq
  <2> SUFFICES ASSUME NEW f \in landing, Marks(f) PROVE call[f].num # 0 /\ call[f].num \in 1 .. MaxSeq
    OBVIOUS
  <2>1. call[f].num >= order.firstLive
    BY <1>1 DEF CallsHold, CallHolds, Marks
  <2>2. order.firstLive \in Nat /\ order.firstLive >= 1 /\ call[f].num \in 0 .. MaxSeq
    BY <1>1, OrderIs, CallIs, Counts
  <2> QED BY <2>1, <2>2
<1>5. \A f, g \in landing : Marks(f) /\ call[g].num = call[f].num => g = f
  BY <1>1, <1>4 DEF CallsDiffer
<1> DEFINE M == {f \in landing : Marks(f)}
           R == {f \in landing : Results(f)}
           A == {f \in landing : Asks(f)}
           N == {f \in landing : Numbers(f)}
<1>6. /\ {f \in landing : call[f].phase \in {"marking", "joining", "reserving"}} = M
      /\ {f \in {g \in landing : call[g].phase \in {"storing", "parking"}} : ~IsRefused(f)} = R
      /\ {f \in {g \in landing : call[g].phase \in {"asking"}} : call[f].stage = "spawn" /\ child[call[f].use] = 0} = A
      /\ {f \in landing : call[f].phase \in {"joining"}} \cup {f \in R : call[f].marked} = N
  BY DEF Marks, Results, Asks, Numbers
<1> HIDE DEF M, R, A, N
<1>7. /\ marker' = [n \in 1 .. MaxSeq |->
                     IF \E f \in M : call[f].num = n
                     THEN Key(CHOOSE f \in M : call[f].num = n) ELSE marker[n]]
      /\ stored' = stored \cup {Key(f) : f \in R}
      /\ child' = [k \in DOMAIN child |->
                    IF \E f \in A : call[f].use = k
                    THEN CHOOSE f \in A : call[f].use = k ELSE child[k]]
      /\ written' = [key \in Keys |->
                      IF \E f \in N : Key(f) = key
                      THEN call[CHOOSE f \in N : Key(f) = key].num ELSE written[key]]
  BY <1>6 DEF Lands
<1>8. \A f \in M : f \in landing /\ Marks(f)
  BY DEF M
<1>9. ASSUME NEW n \in 1 .. MaxSeq
      PROVE  \/ marker'[n] = marker[n] /\ ~\E f \in M : call[f].num = n
             \/ \E f \in M : call[f].num = n /\ marker'[n] = Key(f)
  BY <1>7
<1>10. marker' \in [1 .. MaxSeq -> Keys \cup {NoKey}]
  <2>1. \A n \in 1 .. MaxSeq : marker'[n] \in Keys \cup {NoKey}
    BY <1>1, <1>3, <1>8, <1>9 DEF TypeOK
  <2> QED BY <2>1, <1>7
<1>11. \A f \in landing : Marks(f) => marker'[call[f].num] = Key(f)
  <2> SUFFICES ASSUME NEW f \in landing, Marks(f) PROVE marker'[call[f].num] = Key(f)
    OBVIOUS
  <2>1. f \in M /\ call[f].num \in 1 .. MaxSeq
    BY <1>4 DEF M
  <2> QED BY <2>1, <1>5, <1>8, <1>9
<1>12. \A n \in 1 .. MaxSeq :
         \/ marker'[n] = marker[n]
         \/ \E f \in landing : Marks(f) /\ call[f].num = n /\ marker'[n] = Key(f)
  BY <1>8, <1>9
<1>13. stored' = stored \cup {Key(f) : f \in {g \in landing : Results(g)}} /\ stored' \subseteq Keys
  BY <1>1, <1>3, <1>7 DEF R, TypeOK
<1>14. \A f \in A : f \in landing /\ Asks(f)
  BY DEF A
<1>15. DOMAIN child = 1 .. Count
  BY <1>1 DEF TypeOK, Count
<1>16. ASSUME NEW k \in 1 .. Count
       PROVE  \/ child'[k] = child[k] /\ ~\E f \in A : call[f].use = k
              \/ \E f \in A : call[f].use = k /\ child'[k] = f
  BY <1>7, <1>15
<1>17. child' \in [1 .. Count -> Flows \cup {0}]
  <2>1. \A k \in 1 .. Count : child'[k] \in Flows \cup {0}
    BY <1>1, <1>14, <1>16 DEF TypeOK, Count
  <2> QED BY <2>1, <1>7, <1>15
<1>18. \A k \in 1 .. Count :
         \/ child'[k] = child[k]
         \/ child[k] = 0 /\ \E f \in landing : Asks(f) /\ call[f].use = k /\ child'[k] = f
  BY <1>14, <1>16 DEF Asks
<1>19. \A f \in landing : Asks(f) => child'[call[f].use] = f
  <2> SUFFICES ASSUME NEW f \in landing, Asks(f) PROVE child'[call[f].use] = f
    OBVIOUS
  <2>1. f \in A /\ call[f].use \in 1 .. Count /\ call[f].use # 0
    BY <1>3 DEF A, Asks
  <2>2. PICK g \in A : call[g].use = call[f].use /\ child'[call[f].use] = g
    BY <2>1, <1>16
  <2>3. g = f
    BY <2>1, <2>2, <1>1, <1>14 DEF CallsDiffer
  <2> QED BY <2>2, <2>3
<1>20. \A f \in N : f \in landing /\ Numbers(f)
  BY DEF N
<1>21. ASSUME NEW key \in Keys
       PROVE  \/ written'[key] = written[key] /\ ~\E f \in N : Key(f) = key
              \/ \E f \in N : Key(f) = key /\ written'[key] = call[f].num
  BY <1>7
<1>22. written' \in [Keys -> 0 .. MaxSeq]
  <2>1. \A key \in Keys : written'[key] \in 0 .. MaxSeq
    BY <1>1, <1>20, <1>21, CallIs DEF TypeOK
  <2> QED BY <2>1, <1>7
<1>23. \A key \in Keys :
         \/ written'[key] = written[key] /\ ~\E f \in landing : Numbers(f) /\ Key(f) = key
         \/ \E f \in landing : Numbers(f) /\ Key(f) = key /\ written'[key] = call[f].num
  BY <1>20, <1>21 DEF N
<1> QED BY <1>10, <1>11, <1>12, <1>13, <1>17, <1>18, <1>19, <1>22, <1>23

-----------------------------------------------------------------------------
(* A flow begins a call                                                    *)

\* An order that stays as it is, is a step of an order.
LEMMA MovesNot ==
  ASSUME NEW m \in Nat, NEW o, IsOrder(o, m)
  PROVE  Moves(o, o, 0, 0)
<1>1. 0 \notin Undone(o)
  <2>1. \A k \in Undone(o) : k \in 1 .. m
    BY UndoneIs
  <2> QED BY <2>1
<1> QED BY <1>1, OrderNumbersAre DEF Moves

\* No call has a spawn key beyond those used.
LEMMA UseIs ==
  ASSUME PassInv, NEW g \in Flows
  PROVE  call[g].use <= used /\ call[g].use \in Nat /\ used \in Nat /\ Count \in Nat
<1>1. call[g].stage \in {"own", "spawn"} /\ call[g].use \in 0 .. Count
  BY CallIs DEF PassInv
<1>2. used \in 0 .. Count /\ Count \in Nat
  BY Counts DEF PassInv, TypeOK, Count
<1>3. call[g].use = 0 \/ call[g].use \in 1 .. used
  BY <1>1 DEF PassInv, CallsHold, CallHolds
<1> QED BY <1>1, <1>2, <1>3

\* A call as it begins: a new key, no number, and a number left to take.
LEMMA BegunIs ==
  ASSUME PassInv, NEW f \in Flows, MayCall(f)
  PROVE  /\ call[f].phase \in {"timer", "ready"} /\ call[f].num = 0
         /\ call[f].stage \in {"own", "spawn"} /\ (call[f].stage = "spawn" => call[f].phase = "ready")
         /\ Begun(f) \in Calls /\ Begun(f).stage = call[f].stage /\ Begun(f).num = 0
         /\ Begun(f).phase = call[f].phase
         /\ Begun(f).use = (IF call[f].stage = "own" THEN 0 ELSE used + 1)
         /\ Begun(f).marked = call[f].marked
         /\ Begun(f).beside = (\E g \in Flows \ {f} : Pending(g))
         /\ NextKey(f) \in ToCome
         /\ \E i \in {1, 2} : ~IsTaken(f, i) /\ (i = 2 <=> call[f].stage = "spawn")
         /\ order.next \in 1 .. MaxSeq
<1>1. TypeOK /\ CallHolds(f) /\ IsOrder(order, MaxSeq) /\ NumbersLast
  BY DEF PassInv, CallsHold
<1>2. call[f] \in Calls /\ call[f].stage \in {"own", "spawn"}
  BY <1>1, CallIs
<1>3. call[f].phase \in {"timer", "ready"}
  BY DEF MayCall
<1>4. call[f].num = 0 /\ (call[f].stage = "spawn" => call[f].phase = "ready")
  BY <1>1, <1>3 DEF CallHolds
<1>5. call[f].stage = "spawn" => used + 1 \in 1 .. Count
  BY <1>1, <1>4, UseIsLeft
<1>6. (IF call[f].stage = "own" THEN 0 ELSE used + 1) \in 0 .. Count /\ used \in Nat
  <2>1. used \in 0 .. Count /\ Count \in Nat
    BY <1>1, Counts DEF TypeOK, Count
  <2> QED BY <2>1, <1>2, <1>5
<1>7. /\ Begun(f) \in Calls /\ Begun(f).stage = call[f].stage /\ Begun(f).num = 0
      /\ Begun(f).phase = call[f].phase
      /\ Begun(f).use = (IF call[f].stage = "own" THEN 0 ELSE used + 1)
      /\ Begun(f).marked = call[f].marked
      /\ Begun(f).beside = (\E g \in Flows \ {f} : Pending(g))
  BY <1>2, <1>4, <1>6 DEF Begun, Calls, Count
<1>8. NextKey(f) \in ToCome
  <2>1. CASE call[f].stage = "own"
    BY <2>1, <1>3 DEF NextKey, ToCome
  <2>2. CASE call[f].stage = "spawn"
    <3>1. used + 1 \in used + 1 .. Count
      BY <2>2, <1>5, <1>6
    <3> QED BY <2>2, <3>1 DEF NextKey, ToCome
  <2> QED BY <2>1, <2>2, <1>2
<1>9. \E i \in {1, 2} : ~IsTaken(f, i) /\ (i = 2 <=> call[f].stage = "spawn")
  <2>1. ~(0 >= order.firstLive)
    <3>1. order.firstLive \in 1 .. MaxSeq + 1
      BY <1>1, OrderIs, Counts
    <3> QED BY <3>1
  <2>2. CASE call[f].stage = "own"
    <3>1. ~IsTaken(f, 1)
      BY <2>1, <2>2, <1>4 DEF IsTaken
    <3> QED BY <3>1, <2>2
  <2>3. CASE call[f].stage = "spawn"
    <3>1. ~IsTaken(f, 2)
      BY <2>1, <2>3, <1>4 DEF IsTaken
    <3> QED BY <3>1, <2>3
  <2> QED BY <2>2, <2>3, <1>2
<1>10. order.next \in 1 .. MaxSeq
  <2>1. PICK i \in {1, 2} : ~IsTaken(f, i)
    BY <1>9
  <2>2. <<f, i>> \notin Taken
    BY <2>1, TakenIs
  <2> QED BY <1>1, <2>2, RoomIsLeft
<1> QED BY <1>2, <1>3, <1>4, <1>7, <1>8, <1>9, <1>10

\* A call begins.
LEMMA BeginHolds ==
  ASSUME PassInv, NEW f \in Flows, BeginCall(f), UNCHANGED given, wake' \in Flows \cup {0},
         NEW c \in Calls, NEW o, Step(Joined(f), f, c, o),
         c.stage = call[f].stage, c.use = Begun(f).use,
         c.phase \in {"asking", "marking", "storing", "reserving", "held", "handed", "failing", "leaving"},
         NEW n, NEW w, IsOrder(o, MaxSeq), Moves(order, o, n, w),
         n = 0 \/ n = c.num,
         IF c.phase = "held" THEN w = c.num ELSE w = 0,
         (Undone(order) \ {n}) \ Undone(o) = {},
         o.settling => \/ order.settling \/ o.open \/ o.skipped # {}
                       \/ \A g \in Flows \ {f} : ~Owed(g),
         c.phase \in {"reserving", "leaving"} => c.stage = "own",
         c.phase = "asking" => c.num = 0,
         c.phase \in {"marking", "storing", "reserving"} => c.num >= order.firstLive,
         c.phase \in InQueue => c.num \in Undone(o),
         c.num < o.next,
         c.num \in 1 .. order.firstLive - 1 => c.phase \in {"held", "handed"} /\ marker[c.num] = NextKey(f),
         c.num # 0 => \A g \in Flows \ {f} : c.num # call[g].num,
         o.next = order.next \/ (o.next = order.next + 1 /\ c.num >= order.firstLive)
  PROVE  PassInv'
<1>1. /\ TypeOK /\ IsOrder(order, MaxSeq)
      /\ MayCall(f) /\ UNCHANGED <<marker, stored, child, written, cut, pass>>
      /\ used' = IF call[f].stage = "own" THEN used ELSE used + 1
  BY DEF PassInv, BeginCall, disk
<1>2. order' = o /\ call' \in [Flows -> Calls] /\ call'[f] = c /\ OthersStay(f)
  BY <1>1, StepIs
<1>3. /\ call[f].phase \in {"timer", "ready"} /\ call[f].num = 0
      /\ call[f].stage \in {"own", "spawn"} /\ (call[f].stage = "spawn" => call[f].phase = "ready")
      /\ c.use = (IF call[f].stage = "own" THEN 0 ELSE used + 1)
      /\ NextKey(f) \in ToCome
  BY <1>1, BegunIs
<1>4. \A g \in Flows : call[g].use <= used /\ call[g].use \in Nat /\ used \in Nat /\ Count \in Nat
  BY UseIs
<1>5. c.use # 0 => \A g \in Flows \ {f} : c.use # call[g].use
  BY <1>3, <1>4
<1>6. used \in Nat /\ o.firstLive = order.firstLive
  BY <1>4 DEF Moves
<1>7. Key(f)' = NextKey(f)
  BY <1>2, <1>3 DEF Key, NextKey
<1>8. CallHolds(f)'
  <2>1. c.stage = "spawn" => c.use \in 1 .. used'
    BY <1>1, <1>3, <1>6
  <2>2. c.phase \notin {"timer", "ready", "done", "parking", "joining", "due"}
    OBVIOUS
  <2>3. c.stage = "own" \/ c.phase \in {"ready", "done"} => c.use = 0
    BY <1>3
  <2> QED BY <1>1, <1>2, <1>6, <1>7, <2>1, <2>2, <2>3 DEF CallHolds
<1>9. \A i \in {1, 2} : IsTaken(f, i) => IsTaken(f, i)'
  <2>1. order.firstLive \in Nat /\ 1 <= order.firstLive
    BY <1>1, OrderIs, Counts
  <2>2. ~(0 >= order.firstLive)
    BY <2>1
  <2> QED BY <1>2, <1>3, <1>6, <2>2 DEF IsTaken
<1>10. \/ order'.next = order.next
       \/ order'.next = order.next + 1 /\ \E i \in {1, 2} : ~IsTaken(f, i) /\ IsTaken(f, i)'
  <2> SUFFICES ASSUME c.num >= order.firstLive
               PROVE  \E i \in {1, 2} : ~IsTaken(f, i) /\ IsTaken(f, i)'
    BY <1>2
  <2>1. PICK i \in {1, 2} : ~IsTaken(f, i) /\ (i = 2 <=> call[f].stage = "spawn")
    BY <1>1, BegunIs
  <2>2. IsTaken(f, i)'
    BY <2>1, <1>2, <1>3, <1>6 DEF IsTaken
  <2> QED BY <2>1, <2>2
<1>11. used' = used \/ (used' = used + 1 /\ call[f].stage = "spawn" /\ call[f].phase = "ready"
                        /\ call'[f].stage = "spawn" /\ call'[f].phase # "ready")
  BY <1>1, <1>2, <1>3
<1>12. /\ marker' \in [1 .. MaxSeq -> Keys \cup {NoKey}]
       /\ child' \in [1 .. Count -> Flows \cup {0}] /\ written' \in [Keys -> 0 .. MaxSeq]
       /\ stored' \subseteq Keys
  BY <1>1 DEF TypeOK, Count
<1>13. UNCHANGED <<given, cut, pass>> /\ stored' = stored /\ marker' = marker
  BY <1>1
<1>14. /\ call'[f].stage = "own" /\ call'[f].phase \in {"timer", "ready"}
            => call[f].stage = "own" /\ call[f].phase \in {"timer", "ready"}
       /\ call[f].stage = "spawn" /\ call[f].phase # "ready"
            => call'[f].stage = "spawn" /\ call'[f].phase # "ready"
       /\ call[f].phase # "held"
  BY <1>2, <1>3
<1>15. \A g \in Flows \ {f} : /\ call'[f].num # 0 => call'[f].num # call[g].num
                              /\ call'[f].use # 0 => call'[f].use # call[g].use
  BY <1>2, <1>5
<1> QED BY <1>2, <1>8, <1>9, <1>10, <1>11, <1>12, <1>13, <1>14, <1>15, StepHolds

\* A recorded result that may be asked for is not yet handed over.
LEMMA ReplayedIs ==
  ASSUME PassInv, NEW f \in Flows, MayCall(f), NextKey(f) \in stored,
         NEW num, num = NumberOf(marker, stored, NextKey(f)), num # 0
  PROVE  /\ num \in 1 .. order.firstLive - 1 /\ num \in 1 .. order.next - 1 /\ num \in 1 .. MaxSeq
         /\ marker[num] = NextKey(f)
         /\ num \in Undone(order) \/ IsDone(order, num)
         /\ \A g \in Flows \ {f} : num # call[g].num
<1>1. TypeOK /\ IsOrder(order, MaxSeq) /\ MarkersHold /\ CallsHold
  BY DEF PassInv
<1>2. num = Recorded(NextKey(f)) /\ NextKey(f) \in ToCome
  BY BegunIs DEF Recorded
<1>3. num \in 1 .. MaxSeq /\ marker[num] = NextKey(f)
  BY <1>1, <1>2, RecordedIs
<1>4. num < order.firstLive /\ num \in Undone(order) \cup order.skipped
  BY <1>1, <1>2 DEF MarkersHold
<1>5. num \in 1 .. order.firstLive - 1 /\ num \in 1 .. order.next - 1
  <2>1. order.firstLive \in Nat /\ order.next \in Nat /\ order.firstLive <= order.next
    BY <1>1, OrderNumbersAre, Counts
  <2> QED BY <2>1, <1>3, <1>4
<1>6. num \in Undone(order) \/ IsDone(order, num)
  BY <1>1, <1>4 DEF IsOrder
<1>7. ASSUME NEW g \in Flows \ {f}, num = call[g].num PROVE FALSE
  <2>1. call[g].phase \in {"held", "due", "handed"} /\ marker[num] = Key(g)
    BY <1>1, <1>5, <1>7 DEF CallsHold, CallHolds
  <2>2. Key(g) \notin ToCome
    BY <1>1, <2>1, KeyIs
  <2> QED BY <2>1, <2>2, <1>2, <1>3
<1> QED BY <1>3, <1>5, <1>6, <1>7

\* Only one call may be owed its number, and it is the next.
LEMMA NoneIsOwed ==
  ASSUME PassInv, NEW f \in Flows, NEW num, ~order.open,
         IsNext(order, num), \A g \in Flows \ {f} : num # call[g].num
  PROVE  \A g \in Flows \ {f} : ~Owed(g)
<1> SUFFICES ASSUME NEW g \in Flows \ {f}, Owed(g) PROVE FALSE
  OBVIOUS
<1>1. IsNext(order, call[g].num)
  BY DEF PassInv, CallsHold, CallHolds, Owed
<1>2. call[g].num = num
  BY <1>1, NextIs, Counts DEF PassInv
<1> QED BY <1>2

\* A memoized result keeps the invariant of a pass.
LEMMA ReplayHolds ==
  ASSUME PassInv, UNCHANGED given, NEW f \in Flows, CallReplays(f)
  PROVE  PassInv'
<1> DEFINE num == NumberOf(marker, stored, NextKey(f))
           c == [Begun(f) EXCEPT !.num = num]
           h == [c EXCEPT !.phase = "handed"]
           d == [c EXCEPT !.phase = "held"]
<1>1. /\ BeginCall(f) /\ MayCall(f) /\ NextKey(f) \in stored
      /\ wake' = IF wake = f THEN 0 ELSE wake
      /\ CASE num = 0 -> Step(Joined(f), f, h, order)
           [] num # 0 /\ Goes(order, num) ->
                Step(Joined(f), f, h, Release(Wait(order, num), num, TRUE))
           [] OTHER -> Step(Joined(f), f, d, Wait(order, num))
  BY DEF CallReplays, BeginCall
<1>2. TypeOK /\ IsOrder(order, MaxSeq) /\ MaxSeq \in Nat
  BY Counts DEF PassInv
<1>3. wake' \in Flows \cup {0}
  BY <1>1, <1>2 DEF TypeOK
<1>4. num \in 0 .. MaxSeq
  <2>1. num = Recorded(NextKey(f))
    BY DEF Recorded
  <2> QED BY <2>1, <1>2, RecordedIs
<1> HIDE DEF num
<1>5. /\ h \in Calls /\ h.stage = call[f].stage /\ h.use = Begun(f).use /\ h.num = num /\ h.phase = "handed"
      /\ d \in Calls /\ d.stage = call[f].stage /\ d.use = Begun(f).use /\ d.num = num /\ d.phase = "held"
  <2>1. Begun(f) \in Calls /\ Begun(f).stage = call[f].stage
    BY <1>1, BegunIs
  <2> QED BY <2>1, <1>4 DEF Calls, Microtask
<1> HIDE DEF h, d
<1>6. num # 0 => /\ num \in 1 .. order.firstLive - 1 /\ num \in 1 .. order.next - 1 /\ num \in 1 .. MaxSeq
                 /\ marker[num] = NextKey(f)
                 /\ num \in Undone(order) \/ IsDone(order, num)
                 /\ \A g \in Flows \ {f} : num # call[g].num
  BY <1>1, ReplayedIs DEF num
<1>7. order.next \in Nat /\ order.firstLive \in Nat /\ order.firstLive <= order.next /\ 1 <= order.next
  BY <1>2, OrderNumbersAre
<1>8. CASE num = 0
  <2>1. Step(Joined(f), f, h, order)
    BY <1>1, <1>8
  <2>2. Moves(order, order, 0, 0) /\ (Undone(order) \ {0}) \ Undone(order) = {}
    BY <1>2, MovesNot
  <2> QED BY <1>1, <1>2, <1>3, <1>5, <1>7, <1>8, <2>1, <2>2, BeginHolds DEF InQueue
<1>9. CASE num # 0 /\ Goes(order, num)
  <2> DEFINE a == Wait(order, num)
             o == Release(a, num, TRUE)
  <2>1. Step(Joined(f), f, h, o)
    BY <1>1, <1>9
  <2>2. IsOrder(a, MaxSeq) /\ Undone(a) = Undone(order) /\ Same(a, order)
    BY <1>2, <1>9, WaitGoesIs
  <2> HIDE DEF a
  <2>3. num \in 1 .. a.next - 1
    BY <2>2, <1>6, <1>9 DEF Same, SameCalls
  <2>4. /\ IsOrder(o, MaxSeq) /\ Moves(a, o, num, 0) /\ Keeps(a, o)
        /\ o.settling /\ Undone(o) = Undone(a) \ {num}
        /\ o.skipped = a.skipped /\ o.waiting = a.waiting
    BY <1>2, <2>2, <2>3, SettledReleaseIs
  <2> HIDE DEF o
  <2>5. Moves(order, o, num, 0)
    BY <1>2, <2>2, <2>4, MovesAfterWait
  <2>6. (Undone(order) \ {num}) \ Undone(o) = {}
    BY <2>2, <2>4
  <2>7. o.next = order.next /\ o.open = order.open
    BY <2>2, <2>4 DEF Same, SameCalls, Keeps
  <2>8. order.settling \/ o.open \/ o.skipped # {} \/ \A g \in Flows \ {f} : ~Owed(g)
    <3> SUFFICES ASSUME ~order.settling, ~order.open, order.skipped = {}
                 PROVE  \A g \in Flows \ {f} : ~Owed(g)
      BY <2>2, <2>4, <2>7 DEF Same
    <3>1. num \in Undone(order)
      <4>1. num = NumberOf(marker, stored, NextKey(f)) /\ NextKey(f) \in ToCome
        BY <1>1, BegunIs DEF num
      <4> QED BY <4>1, <1>9 DEF PassInv, MarkersHold, Recorded
    <3>2. ~IsDone(order, num)
      BY <3>1, <1>2, UndoneIs
    <3>3. IsNext(order, num)
      BY <3>2, <1>2, <1>9, GoesIs
    <3> QED BY <3>3, <1>6, <1>9, NoneIsOwed
  <2>9. num < o.next
    BY <2>7, <1>6, <1>7, <1>9
  <2> QED BY <1>1, <1>2, <1>3, <1>5, <1>6, <1>9, <2>1, <2>4, <2>5, <2>6, <2>7, <2>8, <2>9, BeginHolds DEF InQueue
<1>10. CASE num # 0 /\ ~Goes(order, num)
  <2> DEFINE o == Wait(order, num)
  <2>1. Step(Joined(f), f, d, o)
    BY <1>1, <1>10
  <2>2. /\ IsOrder(o, MaxSeq) /\ Moves(order, o, 0, num)
        /\ o.next = order.next /\ o.firstLive = order.firstLive /\ Undone(o) = Undone(order)
        /\ ~o.open /\ ~order.open /\ o.ended = order.ended /\ o.settling = order.settling
        /\ o.skipped = order.skipped /\ o.waiting = order.waiting \cup {num}
    BY <1>2, <1>6, <1>10, WaitHoldsIs
  <2> HIDE DEF o
  <2>3. ~IsDone(order, num)
    BY <1>2, <1>10, GoesIs
  <2>4. num \in Undone(o)
    BY <2>2, <2>3, <1>6, <1>10
  <2>5. (Undone(order) \ {0}) \ Undone(o) = {}
    BY <2>2
  <2>6. num < o.next
    BY <2>2, <1>6, <1>7, <1>10
  <2> QED BY <1>1, <1>2, <1>3, <1>5, <1>6, <1>10, <2>1, <2>2, <2>4, <2>5, <2>6, BeginHolds DEF InQueue
<1> QED BY <1>8, <1>9, <1>10

\* Where the next call's number is taken: what #commitOrdered begins with.
LEMMA CommitIs ==
  ASSUME TypeOK, IsOrder(order, MaxSeq), order.next \in 1 .. MaxSeq,
         NEW f \in Flows, NEW calls, NEW b \in Calls, CommitOrdered(calls, f, b)
  PROVE  \E c \in Calls : \E o, n :
           /\ Step(calls, f, c, o)
           /\ c.stage = b.stage /\ c.use = b.use /\ c.num = order.next /\ c.beside = b.beside
           /\ c.marked = b.marked
           /\ c.phase = IF order.ended THEN "failing" ELSE IF b.beside THEN "marking" ELSE "storing"
           /\ IsOrder(o, MaxSeq) /\ Moves(order, o, n, 0) /\ n \in {0, c.num}
           /\ o.next = order.next + 1 /\ o.open = order.open /\ o.ended = order.ended
           /\ o.settling = order.settling
           /\ Undone(order) \subseteq Undone(o) /\ Undone(o) \subseteq Undone(order) \cup {order.next}
           /\ ~order.ended => order.next \in Undone(o)
           /\ o.skipped = order.skipped /\ o.waiting = order.waiting
<1> DEFINE s == order.next
           a == Assign(order)
           p == Abandon(a, s)
           e == [b EXCEPT !.num = s]
           t == IF b.beside THEN "marking" ELSE "storing"
           ef == [e EXCEPT !.phase = "failing"]
           et == [e EXCEPT !.phase = t]
<1>1. IF a.ended THEN Step(calls, f, ef, p)
                 ELSE Step(calls, f, et, a)
  BY DEF CommitOrdered, StoreNext
<1>2. /\ ef \in Calls /\ ef.stage = b.stage /\ ef.use = b.use /\ ef.num = s /\ ef.beside = b.beside
      /\ ef.marked = b.marked /\ ef.phase = "failing"
      /\ et \in Calls /\ et.stage = b.stage /\ et.use = b.use /\ et.num = s /\ et.beside = b.beside
      /\ et.marked = b.marked /\ et.phase = t
  <2>1. s \in 0 .. MaxSeq
    BY Counts
  <2>2. /\ e \in Calls /\ e.stage = b.stage /\ e.use = b.use /\ e.num = s /\ e.beside = b.beside
        /\ e.marked = b.marked
    BY <2>1 DEF Calls
  <2>3. t \in Store
    BY DEF Store
  <2> HIDE DEF t, e
  <2>4. /\ ef \in Calls /\ ef.stage = e.stage /\ ef.use = e.use /\ ef.num = e.num
        /\ ef.beside = e.beside /\ ef.marked = e.marked /\ ef.phase = "failing"
    BY <2>2 DEF Calls, Microtask
  <2>5. /\ et \in Calls /\ et.stage = e.stage /\ et.use = e.use /\ et.num = e.num
        /\ et.beside = e.beside /\ et.marked = e.marked /\ et.phase = t
    BY <2>2, <2>3 DEF Calls
  <2> QED BY <2>2, <2>4, <2>5
<1>3. /\ IsOrder(a, MaxSeq) /\ Moves(order, a, 0, 0)
      /\ a.next = s + 1 /\ a.firstLive = order.firstLive /\ Undone(a) = Undone(order) \cup {s}
      /\ a.open = order.open /\ a.ended = order.ended /\ a.settling = order.settling
      /\ a.skipped = order.skipped /\ a.waiting = order.waiting
  BY Counts, AssignIs
<1> HIDE DEF a, ef, et
<1>4. CASE ~order.ended
  <2>1. Step(calls, f, et, a)
    BY <1>1, <1>3, <1>4
  <2>2. /\ IsOrder(a, MaxSeq) /\ Moves(order, a, 0, 0) /\ 0 \in {0, et.num}
        /\ a.next = order.next + 1 /\ a.open = order.open /\ a.ended = order.ended
        /\ a.settling = order.settling
        /\ Undone(order) \subseteq Undone(a) /\ Undone(a) \subseteq Undone(order) \cup {order.next}
        /\ ~order.ended => order.next \in Undone(a)
        /\ a.skipped = order.skipped /\ a.waiting = order.waiting
    BY <1>3
  <2> QED BY <1>2, <1>4, <2>1, <2>2
<1>5. CASE order.ended
  <2>1. Step(calls, f, ef, p)
    BY <1>1, <1>3, <1>5
  <2>2. s \in 1 .. a.next - 1 /\ MaxSeq \in Nat
    BY <1>3, Counts
  <2>3. IsOrder(p, MaxSeq) /\ Moves(a, p, s, 0) /\ Keeps(a, p) /\ p.settling = a.settling
    BY <1>3, <2>2, ReleaseIs
  <2> HIDE DEF p
  <2>4. a.open /\ order.open
    BY <1>3, <1>5 DEF IsOrder
  <2>5. Moves(order, p, s, 0)
    BY <1>3, <2>2, <2>3, <2>4, MovesTwice
  <2>6. s \notin Undone(order)
    <3>1. \A k \in Undone(order) : k < order.next /\ k \in Nat
      BY <2>2, UndoneIs
    <3> QED BY <3>1, OrderNumbersAre, Counts
  <2>7. p.waiting = {} /\ order.waiting = {} /\ p.open
    BY <2>3, <2>4 DEF IsOrder, Keeps
  <2>8. Undone(order) \subseteq Undone(p) /\ p.skipped = order.skipped
    BY <2>5, <2>6, <2>7 DEF Moves
  <2>9. Undone(p) \subseteq Undone(order) \cup {s}
    <3> SUFFICES ASSUME NEW k \in Undone(p), k \notin Undone(order) PROVE k = s
      OBVIOUS
    <3>1. s <= k /\ k \in Nat /\ k < p.next /\ p.next = s + 1
      BY <2>2, <2>3, <2>5, <1>3, UndoneIs DEF Moves, Keeps
    <3> QED BY <3>1
  <2>10. p.next = order.next + 1 /\ p.open = order.open /\ p.ended = order.ended /\ p.settling = order.settling
    BY <2>3, <1>3 DEF Keeps
  <2>11. s \in {0, ef.num}
    BY <1>2
  <2> QED BY <1>2, <1>5, <2>1, <2>3, <2>5, <2>7, <2>8, <2>9, <2>10, <2>11
<1> QED BY <1>4, <1>5

\* The next number is nobody's yet.
LEMMA NextIsNew ==
  ASSUME PassInv
  PROVE  /\ order.next \in Nat /\ order.firstLive \in Nat /\ order.firstLive <= order.next
         /\ order.next # 0 /\ order.next \notin 1 .. order.firstLive - 1
         /\ \A g \in Flows : order.next # call[g].num /\ call[g].num \in Nat
<1>1. IsOrder(order, MaxSeq) /\ MaxSeq \in Nat /\ TypeOK
  BY Counts DEF PassInv
<1>2. order.next \in Nat /\ order.firstLive \in Nat /\ order.firstLive <= order.next /\ 1 <= order.next
  BY <1>1, OrderNumbersAre
<1>3. ASSUME NEW g \in Flows PROVE call[g].num < order.next /\ call[g].num \in Nat
  <2>1. call[g].num < order.next
    BY DEF PassInv, CallsHold, CallHolds
  <2> QED BY <2>1, <1>1, CallIs
<1> QED BY <1>2, <1>3

\* So does an await that the claim answers,
LEMMA TakesWakeHolds ==
  ASSUME PassInv, UNCHANGED given, NEW f \in Flows, CallTakesWake(f)
  PROVE  PassInv'
<1> DEFINE b == Begun(f)
<1>1. BeginCall(f) /\ MayCall(f) /\ wake' = 0 /\ CommitOrdered(Joined(f), f, b)
  BY DEF CallTakesWake, BeginCall
<1>2. TypeOK /\ IsOrder(order, MaxSeq)
  BY DEF PassInv
<1>3. b \in Calls /\ b.stage = call[f].stage /\ order.next \in 1 .. MaxSeq
  BY <1>1, BegunIs
<1>4. PICK c \in Calls : \E o, n :
           /\ Step(Joined(f), f, c, o)
           /\ c.stage = b.stage /\ c.use = b.use /\ c.num = order.next /\ c.beside = b.beside
           /\ c.marked = b.marked
           /\ c.phase = IF order.ended THEN "failing" ELSE IF b.beside THEN "marking" ELSE "storing"
           /\ IsOrder(o, MaxSeq) /\ Moves(order, o, n, 0) /\ n \in {0, c.num}
           /\ o.next = order.next + 1 /\ o.open = order.open /\ o.ended = order.ended
           /\ o.settling = order.settling
           /\ Undone(order) \subseteq Undone(o) /\ Undone(o) \subseteq Undone(order) \cup {order.next}
           /\ ~order.ended => order.next \in Undone(o)
           /\ o.skipped = order.skipped /\ o.waiting = order.waiting
  <2> HIDE DEF b
  <2> QED BY <1>1, <1>2, <1>3, CommitIs
<1>5. PICK o, n :
           /\ Step(Joined(f), f, c, o)
           /\ c.stage = b.stage /\ c.use = b.use /\ c.num = order.next
           /\ c.phase = IF order.ended THEN "failing" ELSE IF b.beside THEN "marking" ELSE "storing"
           /\ IsOrder(o, MaxSeq) /\ Moves(order, o, n, 0) /\ n \in {0, c.num}
           /\ o.next = order.next + 1
           /\ o.settling = order.settling
           /\ Undone(order) \subseteq Undone(o)
           /\ ~order.ended => order.next \in Undone(o)
  BY <1>4
<1>6. c.phase \in {"marking", "storing", "failing"} /\ (order.ended <=> c.phase = "failing")
  BY <1>5
<1>7. /\ order.next \in Nat /\ order.firstLive \in Nat /\ order.firstLive <= order.next
      /\ order.next # 0 /\ order.next \notin 1 .. order.firstLive - 1
      /\ \A g \in Flows : order.next # call[g].num
  BY NextIsNew
<1>8. (Undone(order) \ {n}) \ Undone(o) = {}
  BY <1>5
<1>9. c.num < o.next /\ c.num >= order.firstLive
  BY <1>5, <1>7
<1>10. c.phase \in InQueue => c.num \in Undone(o)
  BY <1>5, <1>6 DEF InQueue
<1>11. wake' \in Flows \cup {0}
  BY <1>1
<1> HIDE DEF b
<1> QED BY <1>1, <1>3, <1>5, <1>6, <1>7, <1>8, <1>9, <1>10, <1>11, BeginHolds DEF b

\* a call that asks the store,
LEMMA AsksHolds ==
  ASSUME PassInv, UNCHANGED given, NEW f \in Flows, CallAsks(f)
  PROVE  PassInv'
<1> DEFINE ph == IF order.ended THEN "failing" ELSE "asking"
           c == [Begun(f) EXCEPT !.phase = ph]
<1>1. BeginCall(f) /\ MayCall(f) /\ wake' = wake /\ Step(Joined(f), f, c, order)
  BY DEF CallAsks, BeginCall
<1>2. TypeOK /\ IsOrder(order, MaxSeq) /\ MaxSeq \in Nat
  BY Counts DEF PassInv
<1>3. Begun(f) \in Calls /\ Begun(f).stage = call[f].stage /\ Begun(f).num = 0
  BY <1>1, BegunIs
<1>4. c \in Calls /\ c.stage = call[f].stage /\ c.use = Begun(f).use /\ c.num = 0 /\ c.phase = ph
  BY <1>3 DEF Calls, Microtask, Store
<1>5. ph \in {"failing", "asking"}
  OBVIOUS
<1> HIDE DEF c, ph
<1>6. Moves(order, order, 0, 0) /\ (Undone(order) \ {0}) \ Undone(order) = {}
  BY <1>2, MovesNot
<1>7. wake' \in Flows \cup {0}
  BY <1>1, <1>2 DEF TypeOK
<1>8. order.next \in Nat /\ 1 <= order.next
  BY <1>2, OrderNumbersAre
<1> QED BY <1>1, <1>2, <1>4, <1>5, <1>6, <1>7, <1>8, BeginHolds DEF InQueue

\* and a sleep.
LEMMA SleepsHolds ==
  ASSUME PassInv, UNCHANGED given, NEW f \in Flows, CallSleeps(f)
  PROVE  PassInv'
<1> DEFINE b == Begun(f)
           ph == IF order.ended THEN "failing" ELSE "reserving"
           l == [b EXCEPT !.phase = "leaving"]
           c == [b EXCEPT !.num = order.next, !.phase = ph]
           o == Reserve(order)
<1>1. /\ BeginCall(f) /\ MayCall(f) /\ wake' = wake /\ call[f].stage = "own"
      /\ IF ~b.beside THEN Step(Joined(f), f, l, order) ELSE Step(Joined(f), f, c, o)
  BY DEF CallSleeps, BeginCall
<1>2. TypeOK /\ IsOrder(order, MaxSeq) /\ MaxSeq \in Nat
  BY Counts DEF PassInv
<1>3. b \in Calls /\ b.stage = "own" /\ b.num = 0 /\ order.next \in 1 .. MaxSeq
  BY <1>1, BegunIs
<1> HIDE DEF b
<1>4. l \in Calls /\ l.stage = "own" /\ l.use = b.use /\ l.num = 0 /\ l.phase = "leaving"
  BY <1>3 DEF Calls, Microtask
<1>5. ph \in {"failing", "reserving"}
  OBVIOUS
<1> HIDE DEF l, ph
<1>6. c \in Calls /\ c.stage = "own" /\ c.use = b.use /\ c.num = order.next /\ c.phase = ph
  <2>1. order.next \in 0 .. MaxSeq /\ ph \in Store \cup Microtask
    BY <1>2, <1>3, <1>5 DEF Microtask, Store
  <2> QED BY <1>3, <2>1 DEF Calls
<1> HIDE DEF c
<1>7. wake' \in Flows \cup {0}
  BY <1>1, <1>2 DEF TypeOK
<1>8. /\ order.next \in Nat /\ order.firstLive \in Nat /\ order.firstLive <= order.next
      /\ order.next # 0 /\ order.next \notin 1 .. order.firstLive - 1
      /\ \A g \in Flows : order.next # call[g].num
  BY NextIsNew
<1>9. CASE ~b.beside
  <2>1. Moves(order, order, 0, 0) /\ (Undone(order) \ {0}) \ Undone(order) = {}
    BY <1>2, MovesNot
  <2>2. 0 < order.next
    BY <1>8
  <2>3. l.use = Begun(f).use /\ l.stage = call[f].stage
    BY <1>1, <1>4 DEF b
  <2>4. Step(Joined(f), f, l, order)
    BY <1>1, <1>9
  <2> QED BY <1>1, <1>2, <1>4, <1>7, <2>1, <2>2, <2>3, <2>4, BeginHolds DEF InQueue
<1>10. CASE b.beside
  <2>1. /\ IsOrder(o, MaxSeq) /\ Moves(order, o, 0, 0)
        /\ o.next = order.next + 1 /\ Undone(o) = Undone(order) /\ o.settling = order.settling
    BY <1>2, <1>3, ReserveIs
  <2> HIDE DEF o
  <2>2. (Undone(order) \ {0}) \ Undone(o) = {}
    BY <2>1
  <2>3. c.num < o.next /\ c.num >= order.firstLive
    BY <2>1, <1>6, <1>8
  <2>4. c.use = Begun(f).use /\ c.stage = call[f].stage
    BY <1>1, <1>6 DEF b
  <2>5. Step(Joined(f), f, c, o)
    BY <1>1, <1>10
  <2> QED BY <1>1, <1>5, <1>6, <1>7, <1>8, <2>1, <2>2, <2>3, <2>4, <2>5, BeginHolds DEF InQueue
<1> QED BY <1>9, <1>10

-----------------------------------------------------------------------------
(* A store call answers                                                    *)

\* A store call has a number of this pass, or none yet.
LEMMA StoreCallIs ==
  ASSUME PassInv, NEW f \in Flows, call[f].phase \in Store
  PROVE  /\ call[f].phase = "asking" => call[f].num = 0
         /\ call[f].phase # "asking" => call[f].num >= order.firstLive /\ call[f].num \in 1 .. order.next - 1
         /\ call[f].num \notin 1 .. order.firstLive - 1
         /\ call[f].phase \in {"marking", "storing", "joining"} => call[f].num \in Undone(order)
         /\ call[f].num \in Nat /\ order.firstLive \in Nat /\ order.next \in Nat
         /\ 1 <= order.firstLive /\ order.firstLive <= order.next
<1>1. TypeOK /\ IsOrder(order, MaxSeq) /\ MaxSeq \in Nat /\ CallHolds(f)
  BY Counts DEF PassInv, CallsHold
<1>2. call[f].num \in Nat /\ call[f].num < order.next
  BY <1>1, CallIs DEF CallHolds
<1>3. order.firstLive \in Nat /\ order.next \in Nat /\ 1 <= order.firstLive /\ order.firstLive <= order.next
  BY <1>1, OrderIs
<1>4. call[f].phase = "asking" => call[f].num = 0
  BY <1>1 DEF CallHolds
<1>5. call[f].phase # "asking" => call[f].num >= order.firstLive
  BY <1>1 DEF CallHolds, Store
<1>6. call[f].phase \in {"marking", "storing", "joining"} => call[f].num \in Undone(order)
  BY <1>1 DEF CallHolds, InQueue
<1> QED BY <1>2, <1>3, <1>4, <1>5, <1>6

\* The invariant of a pass survives an answer from the store, given what the call and the order become.
LEMMA AnswerHolds ==
  ASSUME PassInv, UNCHANGED <<given, cut, pass, wake, used>>, Quiet,
         NEW f \in Flows, call[f].phase \in Store,
         NEW landing \in SUBSET {f}, Lands(landing),
         NEW c \in Calls, NEW o, Step(call, f, c, o), c.stage = call[f].stage, c.use = call[f].use,
         c.phase \in {"marking", "storing", "joining", "held", "handed", "failing", "leaving"},
         NEW n, NEW w, IsOrder(o, MaxSeq), Moves(order, o, n, w), n \in {0, c.num},
         IF c.phase = "held" THEN w = c.num ELSE w = 0,
         o.settling => \/ order.settling \/ o.open \/ o.skipped # {}
                       \/ \A g \in Flows \ {f} : ~Owed(g),
         \/ c.num = call[f].num /\ o.next = order.next
         \/ call[f].phase = "asking" /\ c.num = order.next /\ o.next = order.next + 1,
         c.phase = "leaving" => c.stage = "own",
         c.phase \in {"marking", "storing", "joining"} => c.num # 0,
         c.phase \in InQueue => c.num \in Undone(o),
         c.phase = "joining" /\ ~o.open => IsNext(o, c.num) /\ (o.skipped = {} => ~o.settling)
  PROVE  PassInv'
<1>1. TypeOK /\ IsOrder(order, MaxSeq) /\ MaxSeq \in Nat /\ CallsHold
  BY Counts DEF PassInv
<1>2. order' = o /\ call' \in [Flows -> Calls] /\ call'[f] = c /\ OthersStay(f)
  BY <1>1, StepIs
<1>3. /\ call[f].phase = "asking" => call[f].num = 0
      /\ call[f].phase # "asking" => call[f].num >= order.firstLive /\ call[f].num \in 1 .. order.next - 1
      /\ call[f].num \notin 1 .. order.firstLive - 1
      /\ call[f].num \in Nat /\ order.firstLive \in Nat /\ order.next \in Nat
      /\ 1 <= order.firstLive /\ order.firstLive <= order.next
  BY StoreCallIs
<1>4. /\ order.next # 0 /\ order.next \notin 1 .. order.firstLive - 1
      /\ \A g \in Flows : order.next # call[g].num /\ call[g].num \in Nat
  BY NextIsNew
<1>5. landing \in SUBSET Flows /\ \A g \in landing : call[g].phase \in Store \cup {"parking"}
  OBVIOUS
<1>6. /\ marker' \in [1 .. MaxSeq -> Keys \cup {NoKey}]
      /\ \A k \in 1 .. MaxSeq :
           \/ marker'[k] = marker[k]
           \/ \E g \in landing : Marks(g) /\ call[g].num = k /\ marker'[k] = Key(g)
      /\ stored' = stored \cup {Key(g) : g \in {h \in landing : Results(h)}}
      /\ stored' \subseteq Keys
      /\ child' \in [1 .. Count -> Flows \cup {0}]
      /\ written' \in [Keys -> 0 .. MaxSeq]
  BY <1>5, LandsIs
<1>7. call[f].phase \notin {"timer", "ready", "done", "held"}
  BY DEF Store
<1>8. Key(f) \notin ToCome
  BY <1>1, <1>7, KeyIs
<1>9. used \in Nat /\ used <= used'
  BY <1>1, Counts DEF TypeOK, Count
<1>10. c.phase \notin {"timer", "ready", "done", "asking", "reserving", "parking", "due"}
  OBVIOUS
<1>11. ToCome' \subseteq ToCome
  BY <1>2, <1>9, <1>10, ToComeStays
<1>12. \A k \in 1 .. MaxSeq :
         \/ marker'[k] = marker[k]
         \/ order.firstLive <= k /\ k < order'.next /\ marker'[k] \notin ToCome'
  <2> SUFFICES ASSUME NEW k \in 1 .. MaxSeq, marker'[k] # marker[k]
               PROVE  order.firstLive <= k /\ k < order'.next /\ marker'[k] \notin ToCome'
    OBVIOUS
  <2>1. Marks(f) /\ call[f].num = k /\ marker'[k] = Key(f)
    BY <1>6
  <2>2. call[f].phase # "asking"
    BY <2>1 DEF Marks
  <2>3. order.firstLive <= k /\ k < order.next
    BY <2>1, <2>2, <1>3
  <2>4. order.next <= order'.next
    BY <1>2 DEF Moves
  <2>5. order'.next \in Nat
    BY <1>1, <1>2, OrderNumbersAre
  <2> QED BY <2>1, <2>3, <2>4, <2>5, <1>3, <1>8, <1>11
<1>13. stored \subseteq stored' /\ \A key \in stored' \ stored : key \notin ToCome'
  BY <1>6, <1>8, <1>11
<1>14. c.num < o.next /\ c.num \notin 1 .. order.firstLive - 1
  <2>1. call[f].num < order.next
    BY <1>3
  <2> QED BY <2>1, <1>3, <1>4
<1>15. c.phase \in {"marking", "storing", "joining"} => c.num >= order.firstLive
  BY <1>3
<1>16. o.firstLive = order.firstLive
  BY DEF Moves
<1>17. CallHolds(f)'
  <2>1. /\ call[f].stage = "own" => call[f].use = 0
        /\ call[f].stage = "spawn" => call[f].use \in 1 .. used
    BY <1>1, <1>7 DEF CallsHold, CallHolds
  <2>2. c.phase \in {"due", "joining"} /\ ~o.open => IsNext(o, c.num) /\ (o.skipped = {} => ~o.settling)
    BY <1>10
  <2> QED BY <2>1, <2>2, <1>2, <1>10, <1>14, <1>15, <1>16 DEF CallHolds
<1>18. \A g \in Flows \ {f} : /\ call'[f].num # 0 => call'[f].num # call[g].num
                              /\ call'[f].use # 0 => call'[f].use # call[g].use
  BY <1>1, <1>2, <1>4 DEF CallsHold, CallsDiffer
<1>19. \A i \in {1, 2} : IsTaken(f, i) => IsTaken(f, i)'
  <2>1. call[f].num >= order.firstLive => c.num >= order.firstLive
    BY <1>3
  <2> QED BY <2>1, <1>2, <1>7, <1>16 DEF IsTaken
<1>20. \/ order'.next = order.next
       \/ order'.next = order.next + 1 /\ \E i \in {1, 2} : ~IsTaken(f, i) /\ IsTaken(f, i)'
  <2> SUFFICES ASSUME call[f].phase = "asking", c.num = order.next, o.next = order.next + 1
               PROVE  \E i \in {1, 2} : ~IsTaken(f, i) /\ IsTaken(f, i)'
    BY <1>2
  <2>1. ~(call[f].num >= order.firstLive) /\ c.num >= order.firstLive
    BY <1>3
  <2>2. call[f].stage \in {"own", "spawn"}
    BY <1>1, CallIs
  <2>3. CASE call[f].stage = "own"
    <3>1. ~IsTaken(f, 1) /\ IsTaken(f, 1)'
      BY <2>1, <2>3, <1>2, <1>16 DEF IsTaken
    <3> QED BY <3>1
  <2>4. CASE call[f].stage = "spawn"
    <3>1. ~IsTaken(f, 2) /\ IsTaken(f, 2)'
      BY <2>1, <2>4, <1>2, <1>16 DEF IsTaken
    <3> QED BY <3>1
  <2> QED BY <2>2, <2>3, <2>4
<1>21. \A g \in Flows \ {f} : call[g].phase # "due"
  BY DEF Quiet, Microtask
<1>22. wake' \in Flows \cup {0}
  BY <1>1 DEF TypeOK
<1> QED BY <1>2, <1>6, <1>7, <1>10, <1>12, <1>13, <1>17, <1>18, <1>19, <1>20, <1>21, <1>22, StepHolds

\* A call that changes its phase only.
LEMMA PhaseIs ==
  ASSUME NEW b \in Calls, NEW ph \in Store \cup Microtask \cup {"timer", "held", "parking", "done"}
  PROVE  LET c == [b EXCEPT !.phase = ph]
         IN  /\ c \in Calls /\ c.stage = b.stage /\ c.use = b.use /\ c.num = b.num
             /\ c.marked = b.marked /\ c.beside = b.beside /\ c.phase = ph
BY DEF Calls

\* A call that was marked and changes its phase.
LEMMA MarkedIs ==
  ASSUME NEW b \in Calls, NEW ph \in Store \cup Microtask \cup {"timer", "held", "parking", "done"}
  PROVE  LET c == [[b EXCEPT !.marked = TRUE] EXCEPT !.phase = ph]
         IN  /\ c \in Calls /\ c.stage = b.stage /\ c.use = b.use /\ c.num = b.num
             /\ c.marked /\ c.beside = b.beside /\ c.phase = ph
BY DEF Calls

\* Handing a result over: the number is done, or is marked first when another call came beside it.
LEMMA DeliverIs ==
  ASSUME PassInv, NEW f \in Flows, call[f].num \in Undone(order),
         order.open \/ (IsNext(order, call[f].num) /\ (order.skipped = {} => ~order.settling)),
         NEW a, IsOrder(a, MaxSeq), Undone(a) = Undone(order), Same(a, order),
         Deliver(f, a)
  PROVE  \E c \in Calls : \E o, n :
           /\ Step(call, f, c, o)
           /\ c.stage = call[f].stage /\ c.use = call[f].use /\ c.num = call[f].num
           /\ c.beside = call[f].beside /\ c.marked = call[f].marked
           /\ c.phase \in {"joining", "handed", "failing"}
           /\ c.phase = "failing" <=> (call[f].beside /\ ~call[f].marked /\ order.ended)
           /\ c.phase = "joining" <=> (call[f].beside /\ ~call[f].marked /\ ~order.ended)
           /\ IsOrder(o, MaxSeq) /\ Moves(order, o, n, 0) /\ n \in {0, c.num}
           /\ Keeps(order, o)
           /\ o.settling => \/ order.settling \/ o.open \/ o.skipped # {}
                            \/ \A g \in Flows \ {f} : ~Owed(g)
           /\ c.phase = "joining" =>
                /\ c.num \in Undone(o)
                /\ ~o.open => IsNext(o, c.num) /\ (o.skipped = {} => ~o.settling)
           /\ c.phase # "joining" => n = c.num
<1> DEFINE num == call[f].num
           r == Release(a, num, call[f].marked)
           p == Abandon(a, num)
           h == [call[f] EXCEPT !.phase = "handed"]
           e == [call[f] EXCEPT !.phase = "failing"]
           j == [call[f] EXCEPT !.phase = "joining"]
<1>1. TypeOK /\ IsOrder(order, MaxSeq) /\ MaxSeq \in Nat /\ CallsDiffer
  BY Counts DEF PassInv, CallsHold
<1>2. /\ h \in Calls /\ h.stage = call[f].stage /\ h.use = call[f].use /\ h.num = num /\ h.phase = "handed"
      /\ h.beside = call[f].beside /\ h.marked = call[f].marked
      /\ e \in Calls /\ e.stage = call[f].stage /\ e.use = call[f].use /\ e.num = num /\ e.phase = "failing"
      /\ e.beside = call[f].beside /\ e.marked = call[f].marked
      /\ j \in Calls /\ j.stage = call[f].stage /\ j.use = call[f].use /\ j.num = num /\ j.phase = "joining"
      /\ j.beside = call[f].beside /\ j.marked = call[f].marked
  <2>1. {"handed", "failing", "joining"} \subseteq Store \cup Microtask \cup {"timer", "held", "parking", "done"}
    BY DEF Store, Microtask
  <2>2. call[f] \in Calls
    BY <1>1, CallIs
  <2> QED BY <2>1, <2>2, PhaseIs
<1>3. IF call[f].beside /\ ~call[f].marked
      THEN IF a.ended THEN Step(call, f, e, p) ELSE Step(call, f, j, a)
      ELSE Step(call, f, h, r)
  BY DEF Deliver, StoreNext
<1> HIDE DEF h, e, j
<1>4. /\ a.next = order.next /\ a.open = order.open /\ a.ended = order.ended /\ a.settling = order.settling
      /\ a.skipped = order.skipped /\ a.waiting = order.waiting /\ a.firstLive = order.firstLive
  BY DEF Same, SameCalls
<1>5. num \in 1 .. a.next - 1 /\ num # 0
  <2>1. num \in 1 .. MaxSeq /\ num < a.next
    BY <1>1, <1>4, UndoneIs
  <2>2. a.next \in Nat
    BY <1>1, OrderNumbersAre
  <2> QED BY <2>1, <2>2
<1>6. call[f].marked \in BOOLEAN
  BY <1>1, CallIs
<1>7. order.open \/ \A g \in Flows \ {f} : ~Owed(g)
  <2> SUFFICES ASSUME ~order.open PROVE \A g \in Flows \ {f} : ~Owed(g)
    OBVIOUS
  <2>1. \A g \in Flows \ {f} : num # call[g].num
    BY <1>1, <1>5 DEF CallsDiffer
  <2> QED BY <2>1, NoneIsOwed
<1>8. CASE call[f].beside /\ ~call[f].marked /\ a.ended
  <2>1. IsOrder(p, MaxSeq) /\ Moves(a, p, num, 0) /\ Keeps(a, p) /\ p.settling = a.settling
    BY <1>1, <1>5, ReleaseIs
  <2> HIDE DEF p
  <2>2. Moves(order, p, num, 0)
    BY <1>1, <2>1, MovesAfterWait
  <2>3. Keeps(order, p) /\ (p.settling => order.settling)
    BY <2>1, <1>4 DEF Keeps
  <2> QED BY <1>2, <1>3, <1>4, <1>8, <2>1, <2>2, <2>3
<1>9. CASE call[f].beside /\ ~call[f].marked /\ ~a.ended
  <2>1. Moves(a, a, 0, 0)
    BY <1>1, MovesNot
  <2>2. Moves(order, a, 0, 0) /\ Keeps(order, a)
    BY <1>1, <1>4, <2>1, MovesAfterWait DEF Keeps
  <2>3. num \in Undone(a) /\ (~a.open => IsNext(a, num) /\ (a.skipped = {} => ~a.settling))
    BY <1>4 DEF IsNext
  <2> QED BY <1>2, <1>3, <1>4, <1>9, <2>2, <2>3
<1>10. CASE ~(call[f].beside /\ ~call[f].marked)
  <2>1. IsOrder(r, MaxSeq) /\ Moves(a, r, num, 0) /\ Keeps(a, r)
    BY <1>1, <1>5, <1>6, ReleaseIs, SettledReleaseIs
  <2> HIDE DEF r
  <2>2. Moves(order, r, num, 0)
    BY <1>1, <2>1, MovesAfterWait
  <2>3. Keeps(order, r)
    BY <2>1, <1>4 DEF Keeps
  <2>4. r.settling => r.open \/ \A g \in Flows \ {f} : ~Owed(g)
    BY <2>3, <1>7 DEF Keeps
  <2> QED BY <1>2, <1>3, <1>4, <1>10, <2>1, <2>2, <2>3, <2>4
<1> QED BY <1>8, <1>9, <1>10

\* The answer to an await or a spawn keeps the invariant of a pass.
LEMMA AskAnswersHolds ==
  ASSUME PassInv, UNCHANGED given, NEW f \in Flows, AskAnswers(f)
  PROVE  PassInv'
<1>1. /\ Quiet /\ call[f].phase = "asking" /\ Lands({f}) /\ UNCHANGED <<cut, pass, wake, used>>
      /\ CommitOrdered(call, f, call[f])
  BY DEF AskAnswers, Answered
<1>2. TypeOK /\ IsOrder(order, MaxSeq) /\ NumbersLast /\ call[f] \in Calls
  BY CallIs DEF PassInv
<1>3. call[f].phase \in Store /\ call[f].num = 0
  BY <1>1, StoreCallIs DEF Store
<1>4. order.next \in 1 .. MaxSeq
  <2>1. \E i \in {1, 2} : ~IsTaken(f, i)
    <3>1. 1 <= order.firstLive /\ order.firstLive \in Nat
      BY <1>1, <1>3, StoreCallIs
    <3>2. ~(call[f].num >= order.firstLive)
      BY <1>3, <3>1
    <3>3. call[f].stage = "spawn" => ~IsTaken(f, 2)
      BY <1>1, <3>2 DEF IsTaken
    <3>4. call[f].stage # "spawn" => ~IsTaken(f, 1)
      BY <3>2 DEF IsTaken
    <3> QED BY <3>3, <3>4
  <2>2. PICK i \in {1, 2} : <<f, i>> \notin Taken
    BY <2>1, TakenIs
  <2> QED BY <1>2, <2>2, RoomIsLeft
<1>5. PICK c \in Calls : \E o, n :
           /\ Step(call, f, c, o)
           /\ c.stage = call[f].stage /\ c.use = call[f].use /\ c.num = order.next /\ c.beside = call[f].beside
           /\ c.marked = call[f].marked
           /\ c.phase = IF order.ended THEN "failing" ELSE IF call[f].beside THEN "marking" ELSE "storing"
           /\ IsOrder(o, MaxSeq) /\ Moves(order, o, n, 0) /\ n \in {0, c.num}
           /\ o.next = order.next + 1 /\ o.open = order.open /\ o.ended = order.ended
           /\ o.settling = order.settling
           /\ Undone(order) \subseteq Undone(o) /\ Undone(o) \subseteq Undone(order) \cup {order.next}
           /\ ~order.ended => order.next \in Undone(o)
           /\ o.skipped = order.skipped /\ o.waiting = order.waiting
  BY <1>1, <1>2, <1>4, CommitIs
<1>6. PICK o, n :
           /\ Step(call, f, c, o)
           /\ c.stage = call[f].stage /\ c.use = call[f].use /\ c.num = order.next
           /\ c.phase = IF order.ended THEN "failing" ELSE IF call[f].beside THEN "marking" ELSE "storing"
           /\ IsOrder(o, MaxSeq) /\ Moves(order, o, n, 0) /\ n \in {0, c.num}
           /\ o.next = order.next + 1
           /\ o.settling = order.settling
           /\ ~order.ended => order.next \in Undone(o)
  BY <1>5
<1>7. c.phase \in {"marking", "storing", "failing"} /\ (order.ended <=> c.phase = "failing")
  BY <1>6
<1>8. c.num # 0 /\ (c.phase \in InQueue => c.num \in Undone(o))
  BY <1>6, <1>7, NextIsNew DEF InQueue
<1>9. UNCHANGED <<given, cut, pass, wake, used>>
  BY <1>1
<1> QED BY <1>1, <1>3, <1>6, <1>7, <1>8, <1>9, AnswerHolds

\* So does the answer to a marker,
LEMMA MarkAnswersHolds ==
  ASSUME PassInv, UNCHANGED given, NEW f \in Flows, MarkAnswers(f)
  PROVE  PassInv'
<1> DEFINE m == [call[f] EXCEPT !.marked = TRUE]
           e == [m EXCEPT !.phase = "failing"]
           s == [m EXCEPT !.phase = "storing"]
           p == Abandon(order, call[f].num)
<1>1. /\ Quiet /\ call[f].phase = "marking" /\ Lands({f}) /\ UNCHANGED <<cut, pass, wake, used>>
      /\ IF order.ended THEN Step(call, f, e, Abandon(order, m.num)) ELSE Step(call, f, s, order)
  BY DEF MarkAnswers, Answered, StoreNext
<1>2. TypeOK /\ IsOrder(order, MaxSeq) /\ MaxSeq \in Nat /\ call[f] \in Calls
  BY CallIs, Counts DEF PassInv
<1>3. /\ e \in Calls /\ e.stage = call[f].stage /\ e.use = call[f].use /\ e.num = call[f].num /\ e.phase = "failing"
      /\ s \in Calls /\ s.stage = call[f].stage /\ s.use = call[f].use /\ s.num = call[f].num /\ s.phase = "storing"
  <2>1. {"failing", "storing"} \subseteq Store \cup Microtask \cup {"timer", "held", "parking", "done"}
    BY DEF Store, Microtask
  <2> QED BY <1>2, <2>1, MarkedIs
<1>4. m.num = call[f].num
  BY <1>2 DEF Calls
<1> HIDE DEF m, e, s
<1>5. call[f].phase \in Store /\ call[f].num \in Undone(order) /\ call[f].num \in 1 .. order.next - 1
  BY <1>1, StoreCallIs DEF Store
<1>6. call[f].num # 0
  BY <1>2, <1>5, UndoneIs
<1>7. UNCHANGED <<given, cut, pass, wake, used>>
  BY <1>1
<1>8. CASE order.ended
  <2>1. Step(call, f, e, p)
    BY <1>1, <1>4, <1>8
  <2>2. IsOrder(p, MaxSeq) /\ Moves(order, p, call[f].num, 0) /\ Keeps(order, p) /\ p.settling = order.settling
    BY <1>2, <1>5, ReleaseIs
  <2> HIDE DEF p
  <2> QED BY <1>1, <1>3, <1>5, <1>7, <2>1, <2>2, AnswerHolds DEF Keeps, InQueue
<1>9. CASE ~order.ended
  <2>1. Step(call, f, s, order) /\ Moves(order, order, 0, 0)
    BY <1>1, <1>2, <1>9, MovesNot
  <2> QED BY <1>1, <1>2, <1>3, <1>5, <1>6, <1>7, <2>1, AnswerHolds
<1> QED BY <1>8, <1>9

\* to a result,
LEMMA StoreAnswersHolds ==
  ASSUME PassInv, UNCHANGED given, NEW f \in Flows, StoreAnswers(f)
  PROVE  PassInv'
<1> DEFINE num == call[f].num
           d == [call[f] EXCEPT !.phase = "held"]
           a == Wait(order, num)
<1>1. /\ Quiet /\ call[f].phase = "storing" /\ Lands({f}) /\ UNCHANGED <<cut, pass, wake, used>>
      /\ IF Goes(order, num) THEN Deliver(f, a) ELSE Step(call, f, d, a)
  BY DEF StoreAnswers, Answered
<1>2. TypeOK /\ IsOrder(order, MaxSeq) /\ MaxSeq \in Nat /\ call[f] \in Calls
  BY CallIs, Counts DEF PassInv
<1>3. call[f].phase \in Store /\ num \in Undone(order) /\ num \in 1 .. order.next - 1
  BY <1>1, StoreCallIs DEF Store
<1>4. num # 0 /\ ~IsDone(order, num)
  BY <1>2, <1>3, UndoneIs
<1>5. UNCHANGED <<given, cut, pass, wake, used>>
  BY <1>1
<1>6. CASE Goes(order, num)
  <2>1. order.open \/ (IsNext(order, num) /\ (order.skipped = {} => ~order.settling))
    BY <1>2, <1>4, <1>6, GoesIs
  <2>2. IsOrder(a, MaxSeq) /\ Undone(a) = Undone(order) /\ Same(a, order)
    BY <1>2, <1>6, WaitGoesIs
  <2>3. Deliver(f, a)
    BY <1>1, <1>6
  <2> HIDE DEF a
  <2>4. PICK c \in Calls : \E o, n :
           /\ Step(call, f, c, o)
           /\ c.stage = call[f].stage /\ c.use = call[f].use /\ c.num = call[f].num
           /\ c.beside = call[f].beside /\ c.marked = call[f].marked
           /\ c.phase \in {"joining", "handed", "failing"}
           /\ c.phase = "failing" <=> (call[f].beside /\ ~call[f].marked /\ order.ended)
           /\ c.phase = "joining" <=> (call[f].beside /\ ~call[f].marked /\ ~order.ended)
           /\ IsOrder(o, MaxSeq) /\ Moves(order, o, n, 0) /\ n \in {0, c.num}
           /\ Keeps(order, o)
           /\ o.settling => \/ order.settling \/ o.open \/ o.skipped # {}
                            \/ \A g \in Flows \ {f} : ~Owed(g)
           /\ c.phase = "joining" =>
                /\ c.num \in Undone(o)
                /\ ~o.open => IsNext(o, c.num) /\ (o.skipped = {} => ~o.settling)
           /\ c.phase # "joining" => n = c.num
    BY <1>3, <2>1, <2>2, <2>3, DeliverIs
  <2>5. PICK o, n :
           /\ Step(call, f, c, o)
           /\ c.stage = call[f].stage /\ c.use = call[f].use /\ c.num = call[f].num
           /\ c.phase \in {"joining", "handed", "failing"}
           /\ IsOrder(o, MaxSeq) /\ Moves(order, o, n, 0) /\ n \in {0, c.num}
           /\ Keeps(order, o)
           /\ o.settling => \/ order.settling \/ o.open \/ o.skipped # {}
                            \/ \A g \in Flows \ {f} : ~Owed(g)
           /\ c.phase = "joining" =>
                /\ c.num \in Undone(o)
                /\ ~o.open => IsNext(o, c.num) /\ (o.skipped = {} => ~o.settling)
    BY <2>4
  <2>6. c.phase \in InQueue => c.num \in Undone(o)
    BY <2>5 DEF InQueue
  <2>7. o.next = order.next
    BY <2>5 DEF Keeps
  <2> QED BY <1>1, <1>3, <1>4, <1>5, <2>5, <2>6, <2>7, AnswerHolds
<1>7. CASE ~Goes(order, num)
  <2>1. d \in Calls /\ d.stage = call[f].stage /\ d.use = call[f].use /\ d.num = num /\ d.phase = "held"
    BY <1>2, PhaseIs
  <2>2. /\ IsOrder(a, MaxSeq) /\ Moves(order, a, 0, num)
        /\ a.next = order.next /\ Undone(a) = Undone(order) /\ a.settling = order.settling
    BY <1>2, <1>3, <1>7, WaitHoldsIs
  <2>3. Step(call, f, d, a)
    BY <1>1, <1>7
  <2> HIDE DEF a, d
  <2> QED BY <1>1, <1>3, <1>4, <1>5, <2>1, <2>2, <2>3, AnswerHolds
<1> QED BY <1>6, <1>7

\* a refusal,
LEMMA StoreRefusesHolds ==
  ASSUME PassInv, UNCHANGED given, NEW f \in Flows, StoreRefuses(f)
  PROVE  PassInv'
<1> DEFINE e == [call[f] EXCEPT !.phase = "failing"]
           p == Abandon(order, call[f].num)
<1>1. /\ Quiet /\ call[f].phase = "storing" /\ Lands({f}) /\ UNCHANGED <<cut, pass, wake, used>>
      /\ Step(call, f, e, p)
  BY DEF StoreRefuses, Answered
<1>2. TypeOK /\ IsOrder(order, MaxSeq) /\ MaxSeq \in Nat /\ call[f] \in Calls
  BY CallIs, Counts DEF PassInv
<1>3. call[f].phase \in Store /\ call[f].num \in 1 .. order.next - 1
  BY <1>1, StoreCallIs DEF Store
<1>4. e \in Calls /\ e.stage = call[f].stage /\ e.use = call[f].use /\ e.num = call[f].num /\ e.phase = "failing"
  BY <1>2, PhaseIs DEF Microtask
<1>5. IsOrder(p, MaxSeq) /\ Moves(order, p, call[f].num, 0) /\ Keeps(order, p) /\ p.settling = order.settling
  BY <1>2, <1>3, ReleaseIs
<1>6. UNCHANGED <<given, cut, pass, wake, used>>
  BY <1>1
<1> HIDE DEF e, p
<1> QED BY <1>1, <1>3, <1>4, <1>5, <1>6, AnswerHolds DEF Keeps, InQueue

\* the answer to a marker that was written after its result,
LEMMA JoinAnswersHolds ==
  ASSUME PassInv, UNCHANGED given, NEW f \in Flows, JoinAnswers(f)
  PROVE  PassInv'
<1> DEFINE num == call[f].num
           h == [call[f] EXCEPT !.marked = TRUE, !.phase = "handed"]
           p == Release(order, num, TRUE)
<1>1. /\ Quiet /\ call[f].phase = "joining" /\ Lands({f}) /\ UNCHANGED <<cut, pass, wake, used>>
      /\ Step(call, f, h, p)
  BY DEF JoinAnswers, Answered
<1>2. TypeOK /\ IsOrder(order, MaxSeq) /\ MaxSeq \in Nat /\ call[f] \in Calls /\ CallHolds(f) /\ CallsDiffer
  BY CallIs, Counts DEF PassInv, CallsHold
<1>3. call[f].phase \in Store /\ num \in 1 .. order.next - 1 /\ num \in Undone(order)
  BY <1>1, StoreCallIs DEF Store
<1>4. h \in Calls /\ h.stage = call[f].stage /\ h.use = call[f].use /\ h.num = num /\ h.phase = "handed"
  BY <1>2, MarkedIs DEF Microtask
<1>5. IsOrder(p, MaxSeq) /\ Moves(order, p, num, 0) /\ Keeps(order, p)
  BY <1>2, <1>3, SettledReleaseIs
<1>6. UNCHANGED <<given, cut, pass, wake, used>>
  BY <1>1
<1>7. p.open \/ \A g \in Flows \ {f} : ~Owed(g)
  <2> SUFFICES ASSUME ~order.open PROVE \A g \in Flows \ {f} : ~Owed(g)
    BY <1>5 DEF Keeps
  <2>1. num # 0
    BY <1>2, <1>3, UndoneIs
  <2>2. \A g \in Flows \ {f} : num # call[g].num
    BY <1>2, <2>1 DEF CallsDiffer
  <2>3. IsNext(order, num)
    BY <1>1, <1>2 DEF CallHolds
  <2> QED BY <2>2, <2>3, NoneIsOwed
<1> HIDE DEF h, p
<1> QED BY <1>1, <1>3, <1>4, <1>5, <1>6, <1>7, AnswerHolds DEF Keeps, InQueue

\* the answer to a sleep's marker,
LEMMA ReserveAnswersHolds ==
  ASSUME PassInv, UNCHANGED given, NEW f \in Flows, ReserveAnswers(f)
  PROVE  PassInv'
<1> DEFINE l == [call[f] EXCEPT !.marked = TRUE, !.phase = "leaving"]
<1>1. /\ Quiet /\ call[f].phase = "reserving" /\ Lands({f}) /\ UNCHANGED <<cut, pass, wake, used>>
      /\ Step(call, f, l, order)
  BY DEF ReserveAnswers, Answered
<1>2. TypeOK /\ IsOrder(order, MaxSeq) /\ MaxSeq \in Nat /\ call[f] \in Calls /\ CallHolds(f)
  BY CallIs, Counts DEF PassInv, CallsHold
<1>3. call[f].phase \in Store /\ call[f].stage = "own"
  BY <1>1, <1>2 DEF Store, CallHolds
<1>4. l \in Calls /\ l.stage = call[f].stage /\ l.use = call[f].use /\ l.num = call[f].num /\ l.phase = "leaving"
  BY <1>2, MarkedIs DEF Microtask
<1>5. UNCHANGED <<given, cut, pass, wake, used>>
  BY <1>1
<1>6. Moves(order, order, 0, 0)
  BY <1>2, MovesNot
<1> HIDE DEF l
<1> QED BY <1>1, <1>2, <1>3, <1>4, <1>5, <1>6, AnswerHolds DEF InQueue

\* and an outage.
LEMMA StoreFailsHolds ==
  ASSUME PassInv, UNCHANGED given, NEW f \in Flows, StoreFails(f)
  PROVE  PassInv'
<1> DEFINE num == call[f].num
           e == [call[f] EXCEPT !.phase = "failing"]
           q == End(order)
           p == Abandon(q, num)
<1>1. /\ Quiet /\ call[f].phase \in Store /\ UNCHANGED <<cut, pass, wake, used>>
      /\ \E landing \in SUBSET {f} : Lands(landing)
      /\ Step(call, f, e, IF call[f].phase \in {"asking", "reserving"} THEN q ELSE p)
  BY DEF StoreFails
<1>2. TypeOK /\ IsOrder(order, MaxSeq) /\ MaxSeq \in Nat /\ call[f] \in Calls
  BY CallIs, Counts DEF PassInv
<1>3. PICK landing \in SUBSET {f} : Lands(landing)
  BY <1>1
<1>4. e \in Calls /\ e.stage = call[f].stage /\ e.use = call[f].use /\ e.num = num /\ e.phase = "failing"
  BY <1>2, PhaseIs DEF Microtask
<1>5. UNCHANGED <<given, cut, pass, wake, used>>
  BY <1>1
<1>6. /\ IsOrder(q, MaxSeq) /\ Moves(order, q, 0, 0) /\ q.next = order.next /\ q.open
      /\ q.settling = order.settling /\ q.firstLive = order.firstLive
  BY <1>2, OpenIs
<1> HIDE DEF e, q
<1>7. CASE call[f].phase \in {"asking", "reserving"}
  <2>1. Step(call, f, e, q)
    BY <1>1, <1>7
  <2> QED BY <1>1, <1>3, <1>4, <1>5, <1>6, <2>1, AnswerHolds DEF InQueue
<1>8. CASE call[f].phase \notin {"asking", "reserving"}
  <2>1. Step(call, f, e, p)
    BY <1>1, <1>8
  <2>2. num \in 1 .. q.next - 1
    BY <1>1, <1>6, <1>8, StoreCallIs
  <2>3. IsOrder(p, MaxSeq) /\ Moves(q, p, num, 0) /\ Keeps(q, p) /\ p.settling = q.settling
    BY <1>2, <1>6, <2>2, ReleaseIs
  <2> HIDE DEF p
  <2>4. Moves(order, p, num, 0)
    BY <1>2, <1>6, <2>3, MovesTwice
  <2>5. p.next = order.next /\ p.open
    BY <1>6, <2>3 DEF Keeps
  <2> QED BY <1>1, <1>3, <1>4, <1>5, <1>6, <2>1, <2>3, <2>4, <2>5, AnswerHolds DEF InQueue
<1> QED BY <1>7, <1>8

-----------------------------------------------------------------------------
(* Promise turns, the event loop, the heartbeat and the end of a pass      *)

\* A call whose turn has come keeps the invariant of a pass.
LEMMA ContinueHolds ==
  ASSUME PassInv, UNCHANGED given, NEW f \in Flows, Continue(f)
  PROVE  PassInv'
<1> DEFINE num == call[f].num
           h == [call[f] EXCEPT !.phase = "handed"]
           r == Release(order, num, TRUE)
<1>1. /\ call[f].phase = "due" /\ UNCHANGED <<disk, cut, pass, wake, used>>
      /\ IF num < order.firstLive THEN Step(call, f, h, r) ELSE Deliver(f, order)
  BY DEF Continue
<1>2. TypeOK /\ IsOrder(order, MaxSeq) /\ MaxSeq \in Nat /\ call[f] \in Calls /\ CallHolds(f) /\ CallsDiffer
  BY CallIs, Counts DEF PassInv, CallsHold
<1>3. /\ num \in Undone(order) /\ num < order.next
      /\ order.open \/ (IsNext(order, num) /\ (order.skipped = {} => ~order.settling))
  BY <1>1, <1>2 DEF CallHolds, InQueue
<1>4. num \in 1 .. order.next - 1 /\ num # 0 /\ num \in Nat /\ order.next \in Nat /\ order.firstLive \in Nat
  <2>1. num \in 1 .. MaxSeq
    BY <1>2, <1>3, UndoneIs
  <2>2. order.next \in Nat /\ order.firstLive \in Nat
    BY <1>2, OrderNumbersAre
  <2> QED BY <2>1, <2>2, <1>3
<1>5. /\ h \in Calls /\ h.stage = call[f].stage /\ h.use = call[f].use /\ h.num = num /\ h.phase = "handed"
  BY <1>2, PhaseIs DEF Microtask
<1>6. Same(order, order)
  BY DEF Same, SameCalls
<1>7. order.open \/ \A g \in Flows \ {f} : ~Owed(g)
  <2> SUFFICES ASSUME ~order.open PROVE \A g \in Flows \ {f} : ~Owed(g)
    OBVIOUS
  <2>1. \A g \in Flows \ {f} : num # call[g].num
    BY <1>2, <1>4 DEF CallsDiffer
  <2> QED BY <1>3, <2>1, NoneIsOwed
<1> HIDE DEF h
<1>8. \E c \in Calls : \E o, n :
        /\ Step(call, f, c, o)
        /\ c.stage = call[f].stage /\ c.use = call[f].use /\ c.num = num
        /\ c.phase \in {"joining", "handed", "failing"}
        /\ c.phase # "handed" => ~(num < order.firstLive)
        /\ IsOrder(o, MaxSeq) /\ Moves(order, o, n, 0) /\ n \in {0, c.num} /\ Keeps(order, o)
        /\ o.settling => \/ order.settling \/ o.open \/ o.skipped # {}
                         \/ \A g \in Flows \ {f} : ~Owed(g)
        /\ c.phase = "joining" => /\ c.num \in Undone(o)
                                  /\ ~o.open => IsNext(o, c.num) /\ (o.skipped = {} => ~o.settling)
  <2>1. CASE num < order.firstLive
    <3>1. Step(call, f, h, r)
      BY <1>1, <2>1
    <3>2. IsOrder(r, MaxSeq) /\ Moves(order, r, num, 0) /\ Keeps(order, r)
      BY <1>2, <1>4, SettledReleaseIs
    <3> HIDE DEF r
    <3>3. r.settling => \/ order.settling \/ r.open \/ r.skipped # {}
                        \/ \A g \in Flows \ {f} : ~Owed(g)
      BY <3>2, <1>7 DEF Keeps
    <3> QED BY <1>5, <3>1, <3>2, <3>3
  <2>2. CASE ~(num < order.firstLive)
    <3>1. Deliver(f, order)
      BY <1>1, <2>2
    <3>2. PICK c \in Calls : \E o, n :
           /\ Step(call, f, c, o)
           /\ c.stage = call[f].stage /\ c.use = call[f].use /\ c.num = call[f].num
           /\ c.beside = call[f].beside /\ c.marked = call[f].marked
           /\ c.phase \in {"joining", "handed", "failing"}
           /\ c.phase = "failing" <=> (call[f].beside /\ ~call[f].marked /\ order.ended)
           /\ c.phase = "joining" <=> (call[f].beside /\ ~call[f].marked /\ ~order.ended)
           /\ IsOrder(o, MaxSeq) /\ Moves(order, o, n, 0) /\ n \in {0, c.num}
           /\ Keeps(order, o)
           /\ o.settling => \/ order.settling \/ o.open \/ o.skipped # {}
                            \/ \A g \in Flows \ {f} : ~Owed(g)
           /\ c.phase = "joining" =>
                /\ c.num \in Undone(o)
                /\ ~o.open => IsNext(o, c.num) /\ (o.skipped = {} => ~o.settling)
           /\ c.phase # "joining" => n = c.num
      BY <1>2, <1>3, <1>6, <3>1, DeliverIs
    <3>3. PICK o, n :
           /\ Step(call, f, c, o)
           /\ IsOrder(o, MaxSeq) /\ Moves(order, o, n, 0) /\ n \in {0, c.num}
           /\ Keeps(order, o)
           /\ o.settling => \/ order.settling \/ o.open \/ o.skipped # {}
                            \/ \A g \in Flows \ {f} : ~Owed(g)
           /\ c.phase = "joining" =>
                /\ c.num \in Undone(o)
                /\ ~o.open => IsNext(o, c.num) /\ (o.skipped = {} => ~o.settling)
      BY <3>2
    <3>4. c.stage = call[f].stage /\ c.use = call[f].use /\ c.num = num /\ c.phase \in {"joining", "handed", "failing"}
      BY <3>2
    <3> QED BY <2>2, <3>3, <3>4
  <2> QED BY <2>1, <2>2
<1>9. PICK c \in Calls : \E o, n :
        /\ Step(call, f, c, o)
        /\ c.stage = call[f].stage /\ c.use = call[f].use /\ c.num = num
        /\ c.phase \in {"joining", "handed", "failing"}
        /\ c.phase # "handed" => ~(num < order.firstLive)
        /\ IsOrder(o, MaxSeq) /\ Moves(order, o, n, 0) /\ n \in {0, c.num} /\ Keeps(order, o)
        /\ o.settling => \/ order.settling \/ o.open \/ o.skipped # {}
                         \/ \A g \in Flows \ {f} : ~Owed(g)
        /\ c.phase = "joining" => /\ c.num \in Undone(o)
                                  /\ ~o.open => IsNext(o, c.num) /\ (o.skipped = {} => ~o.settling)
  BY <1>8
<1>10. PICK o, n :
        /\ Step(call, f, c, o)
        /\ IsOrder(o, MaxSeq) /\ Moves(order, o, n, 0) /\ n \in {0, c.num} /\ Keeps(order, o)
        /\ o.settling => \/ order.settling \/ o.open \/ o.skipped # {}
                         \/ \A g \in Flows \ {f} : ~Owed(g)
        /\ c.phase = "joining" => /\ c.num \in Undone(o)
                                  /\ ~o.open => IsNext(o, c.num) /\ (o.skipped = {} => ~o.settling)
  BY <1>9
<1>11. /\ c.stage = call[f].stage /\ c.use = call[f].use /\ c.num = num
       /\ c.phase \in {"joining", "handed", "failing"}
       /\ c.phase # "handed" => ~(num < order.firstLive)
  BY <1>9
<1>12. order' = o /\ call' \in [Flows -> Calls] /\ call'[f] = c /\ OthersStay(f)
  BY <1>2, <1>10, StepIs
<1>13. o.firstLive = order.firstLive /\ o.next = order.next
  BY <1>10 DEF Keeps
<1>14. \/ (Undone(order) \ {n}) \ Undone(order') = {}
       \/ \A g \in Flows \ {f} : call[g].phase # "due"
  <2>1. CASE order.open
    BY <2>1, <1>10, <1>12 DEF Moves
  <2>2. CASE ~order.open
    BY <2>2, <1>7 DEF Owed
  <2> QED BY <2>1, <2>2
<1>15. /\ UNCHANGED <<marker, stored, child, written>>
       /\ UNCHANGED <<given, cut, pass>> /\ wake' \in Flows \cup {0} /\ used' = used
  BY <1>1, <1>2 DEF disk, TypeOK
<1>16. CallHolds(f)'
  <2>1. /\ call[f].stage = "own" => call[f].use = 0
        /\ call[f].stage = "spawn" => call[f].use \in 1 .. used
        /\ num \in 1 .. order.firstLive - 1 => marker[num] = Key(f)
    BY <1>1, <1>2 DEF CallHolds
  <2>2. Key(f)' = Key(f)
    BY <1>11, <1>12 DEF Key
  <2>3. num \in 1 .. order.firstLive - 1 => num < order.firstLive
    BY <1>4
  <2>4. ~(num < order.firstLive) => num >= order.firstLive
    BY <1>4
  <2> QED BY <2>1, <2>2, <2>3, <2>4, <1>3, <1>10, <1>11, <1>12, <1>13, <1>15 DEF CallHolds, InQueue
<1>17. \A g \in Flows \ {f} : /\ call'[f].num # 0 => call'[f].num # call[g].num
                              /\ call'[f].use # 0 => call'[f].use # call[g].use
  BY <1>2, <1>11, <1>12 DEF CallsDiffer
<1>18. \A i \in {1, 2} : IsTaken(f, i) => IsTaken(f, i)'
  BY <1>1, <1>11, <1>12, <1>13 DEF IsTaken
<1>19. \A k \in 1 .. MaxSeq : marker'[k] = marker[k]
  BY <1>15
<1>20. stored' = stored /\ stored' \subseteq Keys
  BY <1>2, <1>15 DEF TypeOK
<1>21. /\ marker' \in [1 .. MaxSeq -> Keys \cup {NoKey}]
       /\ child' \in [1 .. Count -> Flows \cup {0}] /\ written' \in [Keys -> 0 .. MaxSeq]
  BY <1>2, <1>15 DEF TypeOK, Count
<1>22. n = 0 \/ n = call'[f].num
  BY <1>10, <1>12
<1>23. IF call'[f].phase = "held" THEN 0 = call'[f].num ELSE 0 = 0
  BY <1>11, <1>12
<1>24. call[f].phase # "held" /\ call'[f].phase # "ready" /\ call'[f].phase # "timer"
  BY <1>1, <1>11, <1>12
<1> QED BY <1>10, <1>11, <1>12, <1>13, <1>14, <1>15, <1>16, <1>17, <1>18, <1>19, <1>20, <1>21, <1>22, <1>23, <1>24, StepHolds

\* So does the end of a call and the task's code behind it,
LEMMA EndCallHolds ==
  ASSUME PassInv, UNCHANGED given, NEW f \in Flows, EndCall(f)
  PROVE  PassInv'
<1> DEFINE k == [call[f] EXCEPT !.phase = "parking"]
           r == Call("spawn", "ready")
           d == Call("spawn", "done")
<1>1. call[f].phase \in {"handed", "failing", "leaving"} /\ UNCHANGED <<disk, cut, pass, wake, used>>
  BY DEF EndCall
<1>2. PICK c \in {r, k, d} :
        /\ c.phase = "ready" => call[f].stage = "own" /\ call[f].phase # "leaving"
        /\ c.phase = "parking" => call[f].phase = "leaving"
        /\ Step(call, f, c, order)
  BY DEF EndCall
<1>3. TypeOK /\ IsOrder(order, MaxSeq) /\ MaxSeq \in Nat /\ Count \in Nat /\ call[f] \in Calls /\ CallHolds(f) /\ CallsDiffer
  BY CallIs, Counts DEF PassInv, CallsHold
<1>4. /\ k \in Calls /\ k.stage = call[f].stage /\ k.use = call[f].use /\ k.num = call[f].num /\ k.phase = "parking"
  BY <1>3, PhaseIs
<1>5. /\ r \in Calls /\ r.stage = "spawn" /\ r.use = 0 /\ r.num = 0 /\ r.phase = "ready"
      /\ d \in Calls /\ d.stage = "spawn" /\ d.use = 0 /\ d.num = 0 /\ d.phase = "done"
  <2>1. 0 \in 0 .. MaxSeq /\ 0 \in 0 .. Cardinality(Flows) /\ FALSE \in BOOLEAN
    BY <1>3 DEF Count
  <2> QED BY <2>1 DEF Call, Calls, Microtask
<1> HIDE DEF k, r, d
<1>6. /\ c \in Calls /\ c.phase \in {"ready", "parking", "done"}
      /\ c.phase = "parking" => c.stage = "own" /\ c.stage = call[f].stage /\ c.use = call[f].use /\ c.num = call[f].num
                                /\ call[f].phase = "leaving"
      /\ c.phase \in {"ready", "done"} => c.stage = "spawn" /\ c.use = 0 /\ c.num = 0
      /\ c.phase = "ready" => call[f].stage = "own"
  <2>1. call[f].phase = "leaving" => call[f].stage = "own"
    BY <1>3 DEF CallHolds
  <2> QED BY <1>2, <1>4, <1>5, <2>1
<1>7. order' = order /\ call' \in [Flows -> Calls] /\ call'[f] = c /\ OthersStay(f)
  BY <1>2, <1>3, <1>6, StepIs
<1>8. Moves(order, order', 0, 0) /\ (Undone(order) \ {0}) \ Undone(order') = {} /\ IsOrder(order', MaxSeq)
  BY <1>3, <1>7, MovesNot
<1>9. /\ UNCHANGED <<marker, stored, child, written>>
      /\ UNCHANGED <<given, cut, pass>> /\ wake' \in Flows \cup {0} /\ used' = used
  BY <1>1, <1>3 DEF disk, TypeOK
<1>10. 0 < order.next /\ 0 \notin 1 .. order.firstLive - 1
  <2>1. order.next \in Nat /\ 1 <= order.next /\ order.firstLive \in Nat
    BY <1>3, OrderNumbersAre
  <2> QED BY <2>1
<1>11. CallHolds(f)'
  BY <1>1, <1>3, <1>6, <1>7, <1>10 DEF CallHolds, InQueue
<1>12. \A g \in Flows \ {f} : /\ call'[f].num # 0 => call'[f].num # call[g].num
                              /\ call'[f].use # 0 => call'[f].use # call[g].use
  BY <1>3, <1>6, <1>7 DEF CallsDiffer
<1>13. \A i \in {1, 2} : IsTaken(f, i) => IsTaken(f, i)'
  BY <1>1, <1>6, <1>7 DEF IsTaken
<1>14. \A i \in 1 .. MaxSeq : marker'[i] = marker[i]
  BY <1>9
<1>15. stored' = stored /\ stored' \subseteq Keys
  BY <1>3, <1>9 DEF TypeOK
<1>16. /\ marker' \in [1 .. MaxSeq -> Keys \cup {NoKey}]
       /\ child' \in [1 .. Count -> Flows \cup {0}] /\ written' \in [Keys -> 0 .. MaxSeq]
  BY <1>3, <1>9 DEF TypeOK, Count
<1>17. IF call'[f].phase = "held" THEN 0 = call'[f].num ELSE 0 = 0
  BY <1>6, <1>7
<1>18. /\ call[f].phase # "held"
       /\ ~(call'[f].stage = "own" /\ call'[f].phase \in {"timer", "ready"})
       /\ call[f].stage = "spawn" /\ call[f].phase # "ready"
            => call'[f].stage = "spawn" /\ call'[f].phase # "ready"
       /\ order'.settling => order.settling
       /\ order'.next = order.next
  BY <1>1, <1>6, <1>7
<1> QED BY <1>7, <1>8, <1>9, <1>11, <1>12, <1>13, <1>14, <1>15, <1>16, <1>17, <1>18, StepHolds

\* The order moves and no flow does.
LEMMA LoopHolds ==
  ASSUME PassInv, UNCHANGED given, UNCHANGED <<disk, cut, pass, wake, used>>, Quiet,
         call' = Woken(call, order'),
         IsOrder(order', MaxSeq), Moves(order, order', 0, 0), order'.next = order.next,
         order'.settling => order.settling
  PROVE  PassInv'
<1>1. /\ TypeOK /\ IsOrder(order, MaxSeq) /\ MaxSeq \in Nat /\ Count \in Nat
      /\ CallsHold /\ MarkersHold /\ NumbersLast /\ NoneAtHead(order)
  BY Counts DEF PassInv
<1>2. OthersStay(0) /\ call' \in [Flows -> Calls]
  BY <1>1, AllStay
<1>3. /\ UNCHANGED <<marker, stored, child, written>> /\ UNCHANGED <<given, cut, pass, wake, used>>
  BY DEF disk
<1>4. CallsHold'
  <2>1. \A g \in Flows : call[g].phase # "due"
    BY DEF Quiet, Microtask
  <2> QED BY <1>1, <1>2, <1>3, <2>1, CallsAllHold
<1>5. used \in Nat /\ order.next \in Nat /\ order'.firstLive = order.firstLive
  BY <1>1, OrderNumbersAre DEF TypeOK, Count, Moves
<1>6. ToCome' \subseteq ToCome
  <2>1. 0 \in Flows \cup {0} /\ used <= used' /\ used' \in Nat
    BY <1>3, <1>5
  <2> QED BY <1>2, <1>5, <2>1, ToComeStays
<1>7. MarkersHold'
  <2>1. marker' \in [1 .. MaxSeq -> Keys \cup {NoKey}]
    BY <1>1, <1>3 DEF TypeOK
  <2> QED BY <1>1, <1>3, <1>6, <2>1, MarkersStillHold
<1>8. NumbersLast'
  BY <1>1, <1>2, <1>3, <1>5, NumbersStillLast
<1>9. TypeOK'
  <2>1. order' \in Orders(MaxSeq)
    BY DEF IsOrder
  <2>2. MaxSeq' = MaxSeq /\ Keys' = Keys /\ Flows' = Flows
    OBVIOUS
  <2> QED BY <1>1, <1>2, <1>3, <2>1, <2>2 DEF TypeOK
<1>10. NoneAtHead(order')
  BY <1>1 DEF Moves
<1> QED BY <1>4, <1>7, <1>8, <1>9, <1>10 DEF PassInv

\* a turn of the event loop,
LEMMA TurnHolds ==
  ASSUME PassInv, UNCHANGED given, Turn
  PROVE  PassInv'
<1> DEFINE p == EndTurn(order)
<1>1. /\ Quiet /\ order.turns > 0 /\ order' = p /\ call' = Woken(call, order')
      /\ UNCHANGED <<disk, cut, pass, wake, used>>
  BY DEF Turn
<1>2. IsOrder(order, MaxSeq) /\ MaxSeq \in Nat
  BY Counts DEF PassInv
<1>3. IsOrder(p, MaxSeq) /\ Moves(order, p, 0, 0) /\ Keeps(order, p) /\ ~p.settling
  BY <1>1, <1>2, EndTurnIs
<1> HIDE DEF p
<1> QED BY <1>1, <1>3, LoopHolds DEF Keeps

\* a beat,
LEMMA PumpBeatsHolds ==
  ASSUME PassInv, UNCHANGED given, PumpBeats
  PROVE  PassInv'
<1> DEFINE p == Beat(order)
<1>1. /\ Quiet /\ order' = p /\ call' = Woken(call, order')
      /\ UNCHANGED <<disk, cut, pass, wake, used>>
  BY DEF PumpBeats
<1>2. IsOrder(order, MaxSeq) /\ MaxSeq \in Nat
  BY Counts DEF PassInv
<1>3. IsOrder(p, MaxSeq) /\ Moves(order, p, 0, 0) /\ Keeps(order, p) /\ p.settling = order.settling
  BY <1>2, BeatIs
<1> HIDE DEF p
<1> QED BY <1>1, <1>3, LoopHolds DEF Keeps

\* and a heartbeat that throws.
LEMMA HeartbeatFailsHolds ==
  ASSUME PassInv, UNCHANGED given, HeartbeatFails
  PROVE  PassInv'
<1> DEFINE p == Open(order)
<1>1. /\ Quiet /\ order' = p /\ call' = Woken(call, order')
      /\ UNCHANGED <<disk, cut, pass, wake, used>>
  BY DEF HeartbeatFails
<1>2. IsOrder(order, MaxSeq) /\ MaxSeq \in Nat
  BY Counts DEF PassInv
<1>3. IsOrder(p, MaxSeq) /\ Moves(order, p, 0, 0) /\ p.next = order.next /\ p.settling = order.settling
  BY <1>2, OpenIs
<1> HIDE DEF p
<1> QED BY <1>1, <1>3, LoopHolds

\* What #readOrder finds for a key: a number that names it.
LEMMA NumberIs ==
  ASSUME NEW m, NEW K, m \in [1 .. MaxSeq -> K], NEW s, NEW key
  PROVE  /\ NumberOf(m, s, key) \in 0 .. MaxSeq
         /\ NumberOf(m, s, key) # 0 =>
              /\ key \in s /\ NumberOf(m, s, key) \in 1 .. MaxSeq /\ m[NumberOf(m, s, key)] = key
<1> DEFINE N == {n \in DOMAIN m : m[n] = key}
<1>1. NumberOf(m, s, key) = IF key \in s /\ N # {} THEN Max(N) ELSE 0
  BY DEF NumberOf
<1>2. N \in SUBSET (0 .. MaxSeq) /\ N \subseteq 1 .. MaxSeq /\ MaxSeq \in Nat
  BY Counts
<1>3. N # {} => Max(N) \in N
  <2> HIDE DEF N
  <2> QED BY <1>2, MaxIs
<1> QED BY <1>1, <1>2, <1>3, Counts

\* The order a pass starts with.
LEMMA ReadOrderIs ==
  ASSUME NEW m, m \in [1 .. MaxSeq -> Keys \cup {NoKey}], NEW s
  PROVE  \E h \in 0 .. MaxSeq :
           /\ IsOrder(ReadOrder(m, s), MaxSeq) /\ NoneAtHead(ReadOrder(m, s))
           /\ ReadOrder(m, s).next = h + 1 /\ ReadOrder(m, s).firstLive = h + 1
           /\ ~ReadOrder(m, s).open /\ ~ReadOrder(m, s).ended /\ ~ReadOrder(m, s).settling
           /\ ReadOrder(m, s).skipped = {} /\ ReadOrder(m, s).waiting = {}
           /\ Undone(ReadOrder(m, s)) = RecordedNumbers(m, s)
           /\ \A n \in 1 .. MaxSeq : m[n] # NoKey => n <= h
           /\ h = 0 \/ (h \in 1 .. MaxSeq /\ m[h] # NoKey)
           /\ \A key \in Keys : NumberOf(m, s, key) # 0 =>
                /\ NumberOf(m, s, key) \in Undone(ReadOrder(m, s))
                /\ NumberOf(m, s, key) < ReadOrder(m, s).firstLive
<1> DEFINE H == {n \in DOMAIN m : m[n] # NoKey} \cup {0}
           h == Max(H)
           S == RecordedNumbers(m, s)
<1>1. MaxSeq \in Nat /\ H \in SUBSET (0 .. MaxSeq) /\ H # {}
  BY Counts
<1>2. h \in H /\ \A n \in H : n <= h
  <2> HIDE DEF H
  <2> QED BY <1>1, MaxIs
<1>3. h \in 0 .. MaxSeq
  BY <1>1, <1>2
<1>4. S \in SUBSET (1 .. MaxSeq) /\ \A n \in S : n <= h
  <2> SUFFICES ASSUME NEW n \in S PROVE n \in 1 .. MaxSeq /\ n \in H
    BY <1>2
  <2>1. PICK key \in Keys : n = NumberOf(m, s, key) /\ n # 0
    BY DEF RecordedNumbers
  <2>2. n \in 1 .. MaxSeq /\ m[n] = key
    BY <2>1, NumberIs
  <2> QED BY <2>1, <2>2, KeysDiffer
<1>5. ReadOrder(m, s) = NewOrder(Ascending(S), h)
  BY DEF ReadOrder
<1> HIDE DEF h, S
<1>6. /\ IsOrder(ReadOrder(m, s), MaxSeq) /\ Undone(ReadOrder(m, s)) = S /\ NoneAtHead(ReadOrder(m, s))
      /\ ReadOrder(m, s).next = h + 1 /\ ReadOrder(m, s).firstLive = h + 1
      /\ ~ReadOrder(m, s).open /\ ~ReadOrder(m, s).ended /\ ~ReadOrder(m, s).settling
      /\ ReadOrder(m, s).skipped = {} /\ ReadOrder(m, s).waiting = {}
  BY <1>1, <1>3, <1>4, <1>5, NewOrderIs
<1>7. ASSUME NEW key \in Keys, NumberOf(m, s, key) # 0
      PROVE  NumberOf(m, s, key) \in S /\ NumberOf(m, s, key) < h + 1
  <2>1. NumberOf(m, s, key) \in S
    BY <1>7 DEF S, RecordedNumbers
  <2>2. NumberOf(m, s, key) \in 1 .. MaxSeq /\ NumberOf(m, s, key) <= h
    BY <2>1, <1>4
  <2>3. \A x \in 1 .. MaxSeq : x <= h => x < h + 1
    BY <1>1, <1>3
  <2> QED BY <2>1, <2>2, <2>3
<1>8. \A n \in 1 .. MaxSeq : m[n] # NoKey => n <= h
  BY <1>2
<1>9. h = 0 \/ (h \in 1 .. MaxSeq /\ m[h] # NoKey)
  BY <1>2, <1>3
<1> QED BY <1>3, <1>6, <1>7, <1>8, <1>9 DEF S

\* A pass that begins has made no call.
LEMMA StartIs ==
  ASSUME NEW f \in Flows, NEW runs
  PROVE  LET c == StartCall(f, runs)
         IN  /\ c \in Calls /\ c.stage = "own" /\ c.use = 0 /\ c.num = 0
             /\ c.phase \in {"timer", "ready", "done"}
             /\ ~c.marked /\ ~c.beside
             /\ c.phase = "timer" => f \in Late
             /\ c.phase = "done" => f \notin runs
<1>1. MaxSeq \in Nat /\ Count \in Nat
  BY Counts
<1>2. 0 \in 0 .. MaxSeq /\ 0 \in 0 .. Cardinality(Flows) /\ FALSE \in BOOLEAN
  BY <1>1 DEF Count
<1> QED BY <1>2 DEF StartCall, Call, Calls, Microtask

\* The first pass begins with the invariant.
LEMMA InitHolds == Init => PassInv
<1> SUFFICES ASSUME Init PROVE PassInv
  OBVIOUS
<1> USE DEF Init
<1>1. /\ MaxSeq \in Nat /\ Count \in Nat /\ MaxPasses \in Nat \ {0} /\ 0 \notin Flows
      /\ \A S \in SUBSET Flows : Cardinality(S) \in 0 .. Count
  BY Counts
<1>2. order = NewOrder(Ascending({}), 0)
  <2> DEFINE q == Ascending({})
  <2>1. q \in Seq(1 .. MaxSeq) /\ {q[i] : i \in 1 .. Len(q)} = {}
    BY <1>1, AscendingIs
  <2> HIDE DEF q
  <2>2. ASSUME 1 \in 1 .. Len(q) PROVE FALSE
    <3>1. q[1] \in {q[i] : i \in 1 .. Len(q)}
      BY <2>2
    <3> QED BY <3>1, <2>1
  <2>3. q = <<>>
    BY <2>1, <2>2
  <2> QED BY <2>3 DEF q
<1>3. /\ IsOrder(order, MaxSeq) /\ NoneAtHead(order)
      /\ order.next = 1 /\ order.firstLive = 1 /\ order.waiting = {}
  BY <1>1, <1>2, NewOrderIs
<1>4. /\ call \in [Flows -> Calls]
      /\ \A f \in Flows : /\ call[f].stage = "own" /\ call[f].use = 0 /\ call[f].num = 0
                          /\ call[f].phase \in {"timer", "ready", "done"}
  <2>1. \A f \in Flows : call[f] = StartCall(f, Flows)
    OBVIOUS
  <2>2. call \in [Flows -> Calls]
    BY StartIs
  <2> QED BY <2>1, <2>2, StartIs
<1>5. CallsHold
  <2>1. \A f \in Flows : CallHolds(f)
    BY <1>3, <1>4 DEF CallHolds, InQueue
  <2>2. CallsDiffer
    BY <1>4 DEF CallsDiffer
  <2>3. order.waiting = {call[f].num : f \in {g \in Flows : call[g].phase = "held"}}
    BY <1>3, <1>4
  <2> QED BY <2>1, <2>2, <2>3 DEF CallsHold
<1>6. MarkersHold
  <2>1. \A key : Recorded(key) = 0
    BY DEF Recorded, NumberOf
  <2> QED BY <1>1, <2>1 DEF MarkersHold
<1>7. NumbersLast
  <2>1. Cardinality(Taken) \in Nat
    <3>1. IsFiniteSet(Taken)
      BY SlotsAre, TakenIs, FS_Subset
    <3> QED BY <3>1, FS_CardinalityType
  <2>2. 2 * Count * (pass - 1) + 1 = 1
    BY <1>1
  <2>3. 0 <= Cardinality({f \in Flows : call[f].stage = "spawn" /\ call[f].phase # "ready"})
    <3> DEFINE S == {f \in Flows : call[f].stage = "spawn" /\ call[f].phase # "ready"}
    <3>1. S \in SUBSET Flows
      OBVIOUS
    <3> HIDE DEF S
    <3>2. 0 <= Cardinality(S)
      BY <3>1, Counts
    <3> QED BY <3>2 DEF S
  <2> QED BY <1>3, <2>1, <2>2, <2>3 DEF NumbersLast
<1>8. TypeOK
  <2>1. Cardinality(Flows) \in Nat
    BY <1>1 DEF Count
  <2>2. order \in Orders(MaxSeq)
    BY <1>3 DEF IsOrder
  <2>3. /\ marker \in [1 .. MaxSeq -> Keys \cup {NoKey}] /\ stored \subseteq Keys
        /\ child \in [1 .. Cardinality(Flows) -> Flows \cup {0}]
        /\ written \in [Keys -> 0 .. MaxSeq]
    BY <1>1
  <2>4. pass \in 1 .. MaxPasses /\ wake \in Flows \cup {0} /\ used \in 0 .. Cardinality(Flows)
    BY <1>1, <2>1
  <2> QED BY <1>4, <2>2, <2>3, <2>4 DEF TypeOK
<1> QED BY <1>3, <1>5, <1>6, <1>7, <1>8 DEF PassInv

\* A new pass begins with it, whatever of the last one landed.
LEMMA NewPassHolds ==
  ASSUME PassInv, UNCHANGED given, NewPass
  PROVE  PassInv'
<1>1. /\ TypeOK /\ IsOrder(order, MaxSeq) /\ CallsHold /\ MarkersHold /\ NumbersLast
      /\ MaxSeq \in Nat /\ Count \in Nat /\ MaxPasses \in Nat \ {0} /\ 0 \notin Flows
      /\ \A S \in SUBSET Flows : Cardinality(S) \in 0 .. Count
  BY Counts DEF PassInv
<1>2. PICK landing \in SUBSET {f \in Flows : call[f].phase \in Store \cup {"parking"}} : Lands(landing)
  BY DEF NewPass
<1>3. PICK runs : call' = [f \in Flows |-> StartCall(f, runs)]
  BY DEF NewPass
<1>4. /\ pass < given.passes /\ cut' = (cut \/ order.skipped # {}) /\ pass' = pass + 1 /\ used' = 0
      /\ wake' \in {0} \cup {f \in Carried : Own(f) \notin stored'}
      /\ order' = ReadOrder(marker', stored')
  BY DEF NewPass
<1>5. /\ marker' \in [1 .. MaxSeq -> Keys \cup {NoKey}]
      /\ \A n \in 1 .. MaxSeq :
           \/ marker'[n] = marker[n]
           \/ \E f \in landing : Marks(f) /\ call[f].num = n /\ marker'[n] = Key(f)
      /\ stored' \subseteq Keys
      /\ child' \in [1 .. Count -> Flows \cup {0}]
      /\ written' \in [Keys -> 0 .. MaxSeq]
  <2>1. landing \in SUBSET Flows /\ \A f \in landing : call[f].phase \in Store \cup {"parking"}
    BY <1>2
  <2> QED BY <1>2, <2>1, LandsIs
<1>6. \A n \in 1 .. MaxSeq : marker'[n] # NoKey => n < order.next
  <2> SUFFICES ASSUME NEW n \in 1 .. MaxSeq, marker'[n] # NoKey PROVE n < order.next
    OBVIOUS
  <2>1. CASE marker'[n] = marker[n]
    BY <1>1, <2>1 DEF MarkersHold
  <2>2. ASSUME NEW f \in landing, call[f].num = n PROVE n < order.next
    BY <1>1, <2>2 DEF CallsHold, CallHolds
  <2> QED BY <1>5, <2>1, <2>2
<1>7. PICK h \in 0 .. MaxSeq :
        /\ IsOrder(order', MaxSeq) /\ NoneAtHead(order')
        /\ order'.next = h + 1 /\ order'.firstLive = h + 1 /\ order'.waiting = {}
        /\ \A n \in 1 .. MaxSeq : marker'[n] # NoKey => n <= h
        /\ h = 0 \/ (h \in 1 .. MaxSeq /\ marker'[h] # NoKey)
        /\ \A key \in Keys : NumberOf(marker', stored', key) # 0 =>
             /\ NumberOf(marker', stored', key) \in Undone(order')
             /\ NumberOf(marker', stored', key) < order'.firstLive
  BY <1>4, <1>5, ReadOrderIs
<1>8. /\ call' \in [Flows -> Calls]
      /\ \A f \in Flows : /\ call'[f].stage = "own" /\ call'[f].use = 0 /\ call'[f].num = 0
                          /\ call'[f].phase \in {"timer", "ready", "done"}
  <2>1. \A f \in Flows : call'[f] = StartCall(f, runs)
    BY <1>3
  <2>2. call' \in [Flows -> Calls]
    BY <1>3, StartIs
  <2> QED BY <2>1, <2>2, StartIs
<1>9. MaxSeq' = MaxSeq /\ Keys' = Keys /\ Count' = Count
  BY DEF Count
<1>10. 0 < order'.next /\ 0 \notin 1 .. order'.firstLive - 1
  BY <1>7
<1>11. CallsHold'
  <2>1. \A f \in Flows : CallHolds(f)'
    BY <1>8, <1>10 DEF CallHolds, InQueue
  <2>2. CallsDiffer'
    BY <1>8 DEF CallsDiffer
  <2>3. order'.waiting = {call'[f].num : f \in {g \in Flows : call'[g].phase = "held"}}
    BY <1>7, <1>8
  <2> QED BY <2>1, <2>2, <2>3 DEF CallsHold
<1>12. MarkersHold'
  <2>1. ASSUME NEW n \in 1 .. MaxSeq, marker'[n] # NoKey
        PROVE  n < order'.next /\ ~(n >= order'.firstLive)
    BY <2>1, <1>7
  <2>2. ToCome' \subseteq Keys
    BY <1>1, <1>4 DEF ToCome, Keys, Count
  <2>3. ASSUME NEW key \in ToCome', Recorded(key)' # 0
        PROVE  Recorded(key)' < order'.firstLive /\ Recorded(key)' \in Undone(order')
    BY <2>2, <2>3, <1>7 DEF Recorded
  <2> QED BY <2>1, <2>3, <1>9 DEF MarkersHold
<1>13. pass \in 1 .. MaxPasses /\ pass' \in 1 .. MaxPasses /\ pass \in Nat
  <2>1. given.passes \in 1 .. MaxPasses
    BY <1>1, ReplayAssumption DEF TypeOK
  <2> QED BY <1>1, <1>4, <2>1 DEF TypeOK
<1>14. NumbersLast'
  <2>1. Cardinality(Taken') \in Nat
    <3>1. Taken' \subseteq Slots
      BY DEF Taken, Slots
    <3> QED BY <3>1, SlotsAre, FS_Subset, FS_CardinalityType
  <2>2. h + 1 <= order.next
    <3>1. order.next \in Nat /\ 1 <= order.next
      BY <1>1, OrderNumbersAre
    <3>2. CASE h = 0
      BY <3>1, <3>2
    <3>3. CASE h \in 1 .. MaxSeq /\ marker'[h] # NoKey
      <4>1. h < order.next
        BY <3>3, <1>6
      <4> QED BY <4>1, <3>1, <3>3
    <3> QED BY <3>2, <3>3, <1>7
  <2>3. h + 1 <= 2 * Count * (pass' - 1) + 1
    <3>1. Cardinality(Taken) \in Nat /\ Cardinality(Taken) <= 2 * Count
      BY <1>1, TakenCounts
    <3>2. /\ order.firstLive <= 2 * Count * (pass - 1) + 1
          /\ order.next - order.firstLive <= Cardinality(Taken)
      BY <1>1 DEF NumbersLast
    <3>3. order.firstLive \in Nat /\ order.next \in Nat
      BY <1>1, OrderNumbersAre
    <3>4. \A a, b, c, d, e, x, p, C \in Nat :
            a <= 2 * C * p + 1 /\ b - a <= d /\ d <= 2 * C /\ e + 1 <= b => e + 1 <= 2 * C * (p + 1) + 1
      <4> TAKE a, b, c, d, e, x, p, C \in Nat
      <4>1. 2 * C * (p + 1) = 2 * C * p + 2 * C /\ 2 * C * p \in Nat
        OBVIOUS
      <4> QED BY <4>1
    <3>5. pass - 1 \in Nat /\ pass' - 1 = pass - 1 + 1 /\ h \in Nat
      BY <1>4, <1>13
    <3> QED BY <1>1, <2>2, <3>1, <3>2, <3>3, <3>4, <3>5
  <2>4. Cardinality({f \in Flows : call'[f].stage = "spawn" /\ call'[f].phase # "ready"}) >= 0
    BY <1>1
  <2>5. order'.next - order'.firstLive = 0
    BY <1>7
  <2> QED BY <1>4, <1>7, <1>9, <2>1, <2>3, <2>4, <2>5 DEF NumbersLast
<1>15. TypeOK'
  <2>1. 0 \in 0 .. Cardinality(Flows)
    BY <1>1 DEF Count
  <2>2. wake' \in Flows \cup {0}
    <3>1. given.carried \subseteq Flows
      BY <1>1, ReplayAssumption DEF TypeOK
    <3> QED BY <1>4, <3>1 DEF Carried
  <2>3. cut' \in BOOLEAN
    BY <1>4
  <2>4. order' \in Orders(MaxSeq)
    BY <1>7 DEF IsOrder
  <2> QED BY <1>1, <1>4, <1>5, <1>8, <1>9, <1>13, <2>1, <2>2, <2>3, <2>4 DEF TypeOK, Count
<1> QED BY <1>7, <1>9, <1>11, <1>12, <1>14, <1>15 DEF PassInv

-----------------------------------------------------------------------------
(* The invariant of a pass, and the order in which results are handed over *)

\* Every step keeps the invariant of a pass.
LEMMA PassHolds == PassInv /\ [Next]_vars => PassInv'
<1> SUFFICES ASSUME PassInv, [Next]_vars PROVE PassInv'
  OBVIOUS
<1>1. CASE UNCHANGED vars
  <2> USE <1>1
  <2>1. /\ UNCHANGED <<given, marker, stored, child, written, cut, pass, wake, used, order, call>>
    BY DEF vars, disk
  <2>2. UNCHANGED <<Taken, ToCome>>
    BY <2>1 DEF Taken, ToCome, Count
  <2> QED BY <2>1, <2>2 DEF PassInv, TypeOK, CallsHold, CallHolds, CallsDiffer, MarkersHold, NumbersLast,
            NoneAtHead, Recorded, Key, InQueue, Count
<1>2. ASSUME NEW f \in Flows, CallStep(f), UNCHANGED given PROVE PassInv'
  BY <1>2, ReplayHolds, TakesWakeHolds, AsksHolds, SleepsHolds, ContinueHolds, EndCallHolds DEF CallStep
<1>3. ASSUME NEW f \in Flows, StoreStep(f), UNCHANGED given PROVE PassInv'
  BY <1>3, AskAnswersHolds, MarkAnswersHolds, StoreAnswersHolds, StoreRefusesHolds, JoinAnswersHolds,
     ReserveAnswersHolds, StoreFailsHolds DEF StoreStep
<1> QED BY <1>1, <1>2, <1>3, TurnHolds, PumpBeatsHolds, HeartbeatFailsHolds, NewPassHolds DEF Next

\* In every pass of any task, whatever fails, lands late or is given up: no two calls
\* share a number or a key, a recorded result that may still be asked for is in the
\* queue, each flow takes two numbers at most, and no call waits at the head of a
\* queue at rest (DeliveryOrder.assign, wait, wake; context.ts #readOrder, #turnOf).
THEOREM PassIsInv == Spec => []PassInv
<1>1. Init => PassInv
  BY InitHolds
<1>2. PassInv /\ [Next]_vars => PassInv'
  BY PassHolds
<1> QED BY <1>1, <1>2, PTL DEF Spec

\* The queue at rest has no waiter at its head.
LEMMA NoneWaitsAtTheHead == PassInv => NoWaiterAtTheHead
<1> SUFFICES ASSUME PassInv, NEW f \in Flows, call[f].phase = "held", ~order.settling
             PROVE  LET a == Advance(order) IN HasHead(a) /\ HeadOf(a) # call[f].num
  BY DEF NoWaiterAtTheHead
<1>1. IsOrder(order, MaxSeq) /\ MaxSeq \in Nat /\ NoneAtHead(order) /\ CallsHold
  BY Counts DEF PassInv
<1>2. call[f].num \in Undone(order) /\ call[f].num \in order.waiting
  BY <1>1 DEF CallsHold, CallHolds, InQueue
<1>3. HasHead(Advance(order)) /\ IsNext(order, HeadOf(Advance(order)))
  BY <1>1, <1>2, AdvanceIs
<1>4. HeadOf(Advance(order)) \notin order.waiting
  BY <1>1, <1>3 DEF NoneAtHead
<1> QED BY <1>2, <1>3, <1>4

\* What a number that may be handed over means for the numbers before it.
LEMMA LowerNumbersAreDone ==
  ASSUME IsOrder(order, MaxSeq), NEW num, IsNext(order, num)
  PROVE  \A i \in DOMAIN order.queue : order.queue[i] < num => IsDone(order, order.queue[i])
<1> SUFFICES ASSUME NEW i \in DOMAIN order.queue, order.queue[i] < num
             PROVE  IsDone(order, order.queue[i])
  OBVIOUS
<1>1. /\ order.queue \in Seq(1 .. MaxSeq) /\ order.head \in Nat /\ DOMAIN order.queue = 1 .. Len(order.queue)
      /\ Len(order.queue) \in Nat /\ MaxSeq \in Nat
      /\ i < order.head <=> order.queue[i] < order.floor
  BY Counts, OrderIs
<1>2. i < order.head \/ i \in order.head .. Len(order.queue)
  BY <1>1
<1>3. CASE i < order.head
  BY <1>1, <1>3 DEF IsDone
<1>4. CASE i \in order.head .. Len(order.queue)
  <2>1. order.queue[i] \notin Undone(order)
    <3>1. num \in 1 .. MaxSeq /\ order.queue[i] \in 1 .. MaxSeq
      BY <1>1, UndoneIs DEF IsNext
    <3> QED BY <3>1 DEF IsNext
  <2>2. order.queue[i] \in order.done
    BY <1>4, <2>1 DEF Undone
  <2> QED BY <2>2 DEF IsDone
<1> QED BY <1>2, <1>3, <1>4

\* Call f becomes c, in a step that may change the order.
Steps(calls, f, c) == \E o : Step(calls, f, c, o)

\* What a store call or a delivery makes of a call.
LEMMA NextSteps ==
  ASSUME NEW calls, NEW f, NEW b \in Calls, NEW o, NEW ph
  PROVE  /\ StoreNext(calls, f, b, o, ph) =>
              Steps(calls, f, [b EXCEPT !.phase = "failing"]) \/ Steps(calls, f, [b EXCEPT !.phase = ph])
         /\ [b EXCEPT !.phase = ph].phase = ph /\ [b EXCEPT !.phase = ph].num = b.num
<1>1. CASE o.ended
  BY <1>1 DEF StoreNext, Steps, Calls
<1>2. CASE ~o.ended
  BY <1>2 DEF StoreNext, Steps, Calls
<1> QED BY <1>1, <1>2

\* Handing a result over changes the phase of one call.
LEMMA DeliverSteps ==
  ASSUME NEW f, NEW o, call[f] \in Calls, Deliver(f, o)
  PROVE  \E ph \in {"failing", "joining", "handed"} : Steps(call, f, [call[f] EXCEPT !.phase = ph])
<1>1. CASE call[f].beside /\ ~call[f].marked
  <2>1. StoreNext(call, f, call[f], o, "joining")
    BY <1>1 DEF Deliver
  <2> QED BY <2>1, NextSteps
<1>2. CASE ~(call[f].beside /\ ~call[f].marked)
  <2>1. Step(call, f, [call[f] EXCEPT !.phase = "handed"], Release(o, call[f].num, call[f].marked))
    BY <1>2 DEF Deliver
  <2>2. Steps(call, f, [call[f] EXCEPT !.phase = "handed"])
    BY <2>1 DEF Steps
  <2> QED BY <2>2
<1> QED BY <1>1, <1>2

\* A call that is numbered or marked is a call.
LEMMA FieldsAre ==
  ASSUME NEW b \in Calls
  PROVE  /\ order.next \in 0 .. MaxSeq => [b EXCEPT !.num = order.next] \in Calls
         /\ [b EXCEPT !.marked = TRUE] \in Calls /\ [b EXCEPT !.marked = TRUE].num = b.num
BY DEF Calls

\* Only these steps hand a result over.
LEMMA HandedBy ==
  ASSUME PassInv, Next, NEW f \in Flows, call[f].phase # "handed", call'[f].phase = "handed"
  PROVE  CallReplays(f) \/ StoreAnswers(f) \/ JoinAnswers(f) \/ Continue(f)
<1>1. TypeOK /\ IsOrder(order, MaxSeq) /\ MaxSeq \in Nat /\ 0 \notin Flows /\ UNCHANGED given
  BY Counts DEF PassInv, Next
<1>2. ASSUME NEW g \in Flows, NEW calls, calls = call \/ calls = Joined(g), NEW c, NEW o, Step(calls, g, c, o)
      PROVE  g = f /\ c.phase = "handed"
  <2>1. call'[g] = c /\ OthersStay(g)
    BY <1>1, <1>2, StepGives
  <2>2. g = f
    BY <2>1 DEF OthersStay
  <2> QED BY <2>1, <2>2
<1>3. ASSUME call' = Woken(call, order') PROVE FALSE
  <2>1. OthersStay(0)
    BY <1>1, <1>3, AllStay
  <2> QED BY <1>1, <2>1 DEF OthersStay
<1>4. ASSUME NEW g \in Flows, NEW calls, calls = call \/ calls = Joined(g), NEW b \in Calls, NEW o, NEW ph,
             ph # "handed", StoreNext(calls, g, b, o, ph)
      PROVE  FALSE
  <2>1. PICK t \in {"failing", ph} : Steps(calls, g, [b EXCEPT !.phase = t])
    BY <1>4, NextSteps
  <2>2. [b EXCEPT !.phase = t].phase = t
    BY NextSteps
  <2> QED BY <1>2, <1>4, <2>1, <2>2 DEF Steps
<1>5. order.next \in 0 .. MaxSeq + 1 /\ \A b \in Calls : [b EXCEPT !.num = order.next].phase = b.phase
  BY <1>1, OrderIs DEF Calls
<1>6. ASSUME NEW g \in Flows, NEW calls, calls = call \/ calls = Joined(g), NEW b \in Calls,
             CommitOrdered(calls, g, b)
      PROVE  FALSE
  <2> DEFINE e == [[b EXCEPT !.num = order.next] EXCEPT !.phase = "failing"]
             t == [[b EXCEPT !.num = order.next] EXCEPT !.phase = IF b.beside THEN "marking" ELSE "storing"]
  <2>1. Steps(calls, g, e) \/ Steps(calls, g, t)
    <3>1. CASE Assign(order).ended
      BY <1>6, <3>1 DEF CommitOrdered, StoreNext, Steps
    <3>2. CASE ~Assign(order).ended
      BY <1>6, <3>2 DEF CommitOrdered, StoreNext, Steps
    <3> QED BY <3>1, <3>2
  <2>2. e.phase # "handed" /\ t.phase # "handed"
    BY DEF Calls
  <2> HIDE DEF e, t
  <2> QED BY <1>2, <1>6, <2>1, <2>2 DEF Steps
<1>7. ASSUME NEW g \in Flows, CallStep(g) PROVE CallReplays(f) \/ Continue(f)
  <2>1. CASE CallReplays(g)
    <3>1. \E c, o : Step(Joined(g), g, c, o)
      BY <2>1 DEF CallReplays
    <3> QED BY <1>2, <2>1, <3>1
  <2>2. CASE CallTakesWake(g)
    <3>1. CommitOrdered(Joined(g), g, Begun(g)) /\ Begun(g) \in Calls
      BY <2>2, BegunIs DEF CallTakesWake, BeginCall
    <3> QED BY <1>6, <3>1
  <2>3. CASE CallAsks(g)
    <3>1. Begun(g) \in Calls
      BY <2>3, BegunIs DEF CallAsks, BeginCall
    <3> DEFINE c == [Begun(g) EXCEPT !.phase = IF order.ended THEN "failing" ELSE "asking"]
    <3>2. Step(Joined(g), g, c, order)
      BY <2>3 DEF CallAsks
    <3>3. c.phase # "handed"
      BY <3>1 DEF Calls
    <3> HIDE DEF c
    <3> QED BY <1>2, <3>2, <3>3
  <2>4. CASE CallSleeps(g)
    <3>1. Begun(g) \in Calls
      BY <2>4, BegunIs DEF CallSleeps, BeginCall
    <3> DEFINE c == [Begun(g) EXCEPT !.phase = "leaving"]
               d == [Begun(g) EXCEPT !.num = order.next, !.phase = IF order.ended THEN "failing" ELSE "reserving"]
    <3>2. Step(Joined(g), g, c, order) \/ Step(Joined(g), g, d, Reserve(order))
      BY <2>4 DEF CallSleeps
    <3>3. c.phase # "handed" /\ d.phase # "handed"
      BY <3>1 DEF Calls
    <3> HIDE DEF c, d
    <3> QED BY <1>2, <3>2, <3>3
  <2>5. CASE Continue(g)
    <3>1. call[g] \in Calls
      BY <1>1, CallIs
    <3>2. \E c, o : Step(call, g, c, o)
      <4>1. CASE Deliver(g, order)
        BY <3>1, <4>1, DeliverSteps DEF Steps
      <4>2. CASE ~Deliver(g, order)
        BY <2>5, <4>2 DEF Continue
      <4> QED BY <4>1, <4>2
    <3> QED BY <1>2, <2>5, <3>2
  <2>6. CASE EndCall(g)
    <3> DEFINE k == [call[g] EXCEPT !.phase = "parking"]
    <3>1. call[g] \in Calls
      BY <1>1, CallIs
    <3>2. \E c \in {Call("spawn", "ready"), k, Call("spawn", "done")} : Step(call, g, c, order)
      BY <2>6 DEF EndCall
    <3>3. \A c \in {Call("spawn", "ready"), k, Call("spawn", "done")} : c.phase # "handed"
      BY <3>1 DEF Calls, Call
    <3> HIDE DEF k
    <3> QED BY <1>2, <3>2, <3>3
  <2> QED BY <1>7, <2>1, <2>2, <2>3, <2>4, <2>5, <2>6 DEF CallStep
<1>8. ASSUME NEW g \in Flows, StoreStep(g) PROVE StoreAnswers(f) \/ JoinAnswers(f)
  <2>1. call[g] \in Calls
    BY <1>1, CallIs
  <2>2. CASE AskAnswers(g)
    <3>1. CommitOrdered(call, g, call[g])
      BY <2>2 DEF AskAnswers
    <3> QED BY <1>6, <2>1, <3>1
  <2>3. CASE MarkAnswers(g)
    <3>1. StoreNext(call, g, [call[g] EXCEPT !.marked = TRUE], order, "storing")
      BY <2>3 DEF MarkAnswers
    <3>2. [call[g] EXCEPT !.marked = TRUE] \in Calls
      BY <2>1, FieldsAre
    <3> QED BY <1>4, <3>1, <3>2
  <2>4. CASE StoreAnswers(g)
    <3>1. \E c, o : Step(call, g, c, o)
      <4>1. CASE Goes(order, call[g].num)
        BY <2>1, <2>4, <4>1, DeliverSteps DEF Steps, StoreAnswers
      <4>2. CASE ~Goes(order, call[g].num)
        BY <2>4, <4>2 DEF StoreAnswers
      <4> QED BY <4>1, <4>2
    <3> QED BY <1>2, <2>4, <3>1
  <2>5. CASE StoreRefuses(g) \/ StoreFails(g)
    <3> DEFINE e == [call[g] EXCEPT !.phase = "failing"]
    <3>1. \E o : Step(call, g, e, o)
      BY <2>5 DEF StoreRefuses, StoreFails
    <3>2. e.phase # "handed"
      BY <2>1 DEF Calls
    <3> HIDE DEF e
    <3> QED BY <1>2, <3>1, <3>2
  <2>6. CASE JoinAnswers(g)
    <3> DEFINE h == [call[g] EXCEPT !.marked = TRUE, !.phase = "handed"]
    <3>1. \E o : Step(call, g, h, o)
      BY <2>6 DEF JoinAnswers
    <3> HIDE DEF h
    <3> QED BY <1>2, <2>6, <3>1
  <2>7. CASE ReserveAnswers(g)
    <3> DEFINE l == [call[g] EXCEPT !.marked = TRUE, !.phase = "leaving"]
    <3>1. Step(call, g, l, order)
      BY <2>7 DEF ReserveAnswers
    <3>2. l.phase # "handed"
      BY <2>1 DEF Calls
    <3> HIDE DEF l
    <3> QED BY <1>2, <3>1, <3>2
  <2> QED BY <1>8, <2>2, <2>3, <2>4, <2>5, <2>6, <2>7 DEF StoreStep
<1>9. ~Turn /\ ~PumpBeats /\ ~HeartbeatFails
  BY <1>3 DEF Turn, PumpBeats, HeartbeatFails
<1>10. ~NewPass
  <2> SUFFICES ASSUME NEW runs, call' = [g \in Flows |-> StartCall(g, runs)] PROVE FALSE
    BY DEF NewPass
  <2>1. call'[f] = StartCall(f, runs)
    OBVIOUS
  <2> QED BY <2>1, StartIs
<1> QED BY <1>7, <1>8, <1>9, <1>10 DEF Next

\* A numbered result that is handed over was next in the queue, and the queue at rest.
LEMMA HandedInOrder ==
  ASSUME PassInv, Next, NEW f \in Flows, ~order.open, order.skipped = {},
         call[f].phase # "handed", call'[f].phase = "handed", call'[f].num # 0
  PROVE  ~order.settling /\ IsNext(order, call'[f].num)
<1>1. TypeOK /\ IsOrder(order, MaxSeq) /\ MaxSeq \in Nat /\ CallsHold /\ MarkersHold
  BY Counts DEF PassInv
<1>2. ASSUME NEW c, NEW o, NEW calls, calls = call \/ calls = Joined(f), Step(calls, f, c, o), NEW num, c.num = num
      PROVE  call'[f].num = num
  BY <1>1, <1>2, StepGives
<1>3. call[f] \in Calls
  BY <1>1, CallIs
<1>4. ASSUME NEW b \in Calls, NEW ph
      PROVE  [b EXCEPT !.phase = ph].num = b.num /\ [[b EXCEPT !.marked = TRUE] EXCEPT !.phase = ph].num = b.num
  BY DEF Calls
<1>5. ASSUME NEW n \in Undone(order), Goes(order, n) PROVE ~order.settling /\ IsNext(order, n)
  BY <1>1, <1>5, GoesIs, UndoneIs
<1>6. ASSUME NEW o, Deliver(f, o) PROVE call'[f].num = call[f].num
  <2>1. PICK ph \in {"failing", "joining", "handed"} : Steps(call, f, [call[f] EXCEPT !.phase = ph])
    BY <1>3, <1>6, DeliverSteps
  <2>2. [call[f] EXCEPT !.phase = ph].num = call[f].num
    BY <1>3, <1>4
  <2> QED BY <1>2, <2>1, <2>2 DEF Steps
<1>7. CASE CallReplays(f)
  <2> DEFINE num == NumberOf(marker, stored, NextKey(f))
             b == [Begun(f) EXCEPT !.num = num]
             h == [b EXCEPT !.phase = "handed"]
             d == [b EXCEPT !.phase = "held"]
  <2>1. MayCall(f) /\ NextKey(f) \in ToCome /\ Begun(f) \in Calls
    BY <1>7, BegunIs DEF CallReplays, BeginCall
  <2>2. h.num = num /\ d.num = num /\ d.phase = "held"
    BY <2>1 DEF Calls
  <2>3. CASE num = 0
    <3>1. Step(Joined(f), f, h, order)
      BY <1>7, <2>3 DEF CallReplays
    <3>2. call'[f].num = 0
      BY <1>2, <2>2, <2>3, <3>1
    <3> QED BY <3>2
  <2>4. CASE num # 0 /\ ~Goes(order, num)
    <3>1. Step(Joined(f), f, d, Wait(order, num))
      BY <1>7, <2>4 DEF CallReplays
    <3>2. call'[f] = d
      BY <1>1, <3>1, StepGives
    <3> QED BY <2>2, <3>2
  <2>5. CASE num # 0 /\ Goes(order, num)
    <3>1. Step(Joined(f), f, h, Release(Wait(order, num), num, TRUE))
      BY <1>7, <2>5 DEF CallReplays
    <3>2. call'[f].num = num
      BY <1>2, <2>2, <3>1
    <3>3. num \in Undone(order)
      BY <1>1, <2>1, <2>5 DEF MarkersHold, Recorded
    <3> QED BY <1>5, <2>5, <3>2, <3>3
  <2> QED BY <2>3, <2>4, <2>5
<1>8. CASE StoreAnswers(f)
  <2>1. call[f].num \in Undone(order)
    BY <1>8, StoreCallIs DEF StoreAnswers, Answered, Store
  <2>2. CASE Goes(order, call[f].num)
    <3>1. call'[f].num = call[f].num
      BY <1>6, <1>8, <2>2 DEF StoreAnswers
    <3> QED BY <1>5, <2>1, <2>2, <3>1
  <2>3. CASE ~Goes(order, call[f].num)
    <3>1. Step(call, f, [call[f] EXCEPT !.phase = "held"], Wait(order, call[f].num))
      BY <1>8, <2>3 DEF StoreAnswers
    <3>2. call'[f] = [call[f] EXCEPT !.phase = "held"]
      BY <1>1, <3>1, StepGives
    <3> QED BY <1>3, <3>2 DEF Calls
  <2> QED BY <2>2, <2>3
<1>9. CASE JoinAnswers(f)
  <2> DEFINE h == [call[f] EXCEPT !.marked = TRUE, !.phase = "handed"]
  <2>1. call[f].phase = "joining" /\ Step(call, f, h, Release(order, call[f].num, TRUE))
    BY <1>9 DEF JoinAnswers, Answered
  <2>2. h.num = call[f].num
    BY <1>3 DEF Calls
  <2> HIDE DEF h
  <2>3. call'[f].num = call[f].num
    BY <1>2, <2>1, <2>2
  <2> QED BY <1>1, <2>1, <2>3 DEF CallsHold, CallHolds
<1>10. CASE Continue(f)
  <2>1. call[f].phase = "due"
    BY <1>10 DEF Continue
  <2>2. call'[f].num = call[f].num
    <3>1. CASE Deliver(f, order)
      BY <1>6, <3>1
    <3>2. CASE ~Deliver(f, order)
      <4> DEFINE h == [call[f] EXCEPT !.phase = "handed"]
      <4>1. Step(call, f, h, Release(order, call[f].num, TRUE))
        BY <1>10, <3>2 DEF Continue
      <4>2. h.num = call[f].num
        BY <1>3 DEF Calls
      <4> HIDE DEF h
      <4> QED BY <1>2, <4>1, <4>2
    <3> QED BY <3>1, <3>2
  <2> QED BY <1>1, <2>1, <2>2 DEF CallsHold, CallHolds
<1> QED BY <1>7, <1>8, <1>9, <1>10, HandedBy

\* A numbered result reaches the task only when every lower number of the queue is done
\* and the event loop turned since the last one, for any number of flows and of passes
\* (DeliveryOrder.wait and release, context.ts #turnOf and #commitOrdered).
THEOREM ResultsAreHandedInTurn == Spec => HandedInTurn
<1>1. ASSUME PassInv, [Next]_vars, NEW f \in Flows, ~order.open, order.skipped = {},
             call[f].phase # "handed", call'[f].phase = "handed", call'[f].num # 0
      PROVE  /\ ~order.settling
             /\ \A i \in DOMAIN order.queue : order.queue[i] < call'[f].num => IsDone(order, order.queue[i])
  <2>1. Next
    BY <1>1 DEF vars
  <2>2. ~order.settling /\ IsNext(order, call'[f].num)
    BY <1>1, <2>1, HandedInOrder
  <2> QED BY <1>1, <2>2, LowerNumbersAreDone DEF PassInv
<1> DEFINE InTurn ==
      \A f \in Flows :
        /\ ~order.open /\ order.skipped = {}
        /\ call[f].phase # "handed" /\ call'[f].phase = "handed" /\ call'[f].num # 0
        => /\ ~order.settling
           /\ \A i \in DOMAIN order.queue :
                order.queue[i] < call'[f].num => IsDone(order, order.queue[i])
<1>2. PassInv /\ [Next]_vars => InTurn
  BY <1>1
<1>3. Spec => []PassInv
  BY PassIsInv
<1> HIDE DEF InTurn
<1>4. Spec => [][InTurn]_vars
  BY <1>2, <1>3, PTL DEF Spec
<1> QED BY <1>4 DEF InTurn, HandedInTurn

-----------------------------------------------------------------------------
(* A steady task: what a landing leaves of the disk                        *)

\* A step in which the store calls of the flows in L land.
Landing(L) ==
  /\ L \in SUBSET Flows /\ (L # {} => Quiet)
  /\ \A f \in L : call[f].phase \in Store \cup {"parking"}
  /\ Lands(L)

\* A step that leaves the disk is a landing of nothing.
LEMMA NothingLands ==
  ASSUME TypeOK, UNCHANGED disk
  PROVE  Landing({})
<1>1. UNCHANGED <<marker, stored, child, written>>
  BY DEF disk
<1>2. marker = [n \in 1 .. MaxSeq |-> marker[n]] /\ child = [k \in DOMAIN child |-> child[k]]
      /\ written = [key \in Keys |-> written[key]]
  BY DEF TypeOK
<1>3. Lands({})
  BY <1>1, <1>2 DEF Lands
<1> QED BY <1>3 DEF Landing

\* A steady task's calls write markers while they mark and results while they store.
LEMMA SteadyLanding ==
  ASSUME PassInv, SteadyInv, NEW f \in Flows, call[f].phase \in Store \cup {"parking"}
  PROVE  /\ call[f].phase \in {"asking", "marking", "storing"}
         /\ Key(f) \in Keys /\ Key(f) \notin stored /\ Key(f) \notin ToCome
         /\ \A n \in order.firstLive .. MaxSeq : marker[n] = Key(f) => n = call[f].num
         /\ call[f].phase # "asking" => call[f].num \in order.firstLive .. MaxSeq /\ call[f].num < order.next
         /\ call[f].num \in 0 .. MaxSeq
<1>1. SteadyPhase(f) /\ SteadyResult(f) /\ CallHolds(f) /\ TypeOK /\ IsOrder(order, MaxSeq) /\ MaxSeq \in Nat /\ CallsHold
  BY Counts DEF PassInv, SteadyInv, CallsHold
<1>2. call[f].phase \in {"asking", "marking", "storing"}
  <2>1. call[f].stage \in {"own", "spawn"}
    BY <1>1, CallIs
  <2>2. call[f].phase \in {"reserving", "parking"} => call[f].stage = "own"
    BY <1>1 DEF CallHolds
  <2>3. call[f].phase \in {"asking", "marking", "storing", "joining", "reserving", "parking"}
    BY DEF Store
  <2>4. call[f].phase # "joining"
    BY <1>1 DEF SteadyPhase
  <2>5. call[f].stage = "own" => call[f].phase # "reserving" /\ call[f].phase # "parking"
    BY <1>1 DEF SteadyPhase
  <2> QED BY <2>1, <2>2, <2>3, <2>4, <2>5
<1>4. /\ Key(f) \notin stored
      /\ \A n \in order.firstLive .. MaxSeq : marker[n] = Key(f) => n = call[f].num
  BY <1>1, <1>2 DEF SteadyResult
<1>5. Key(f) \in Keys /\ Key(f) \notin ToCome
  BY <1>1, <1>2, KeyIs
<1>6. call[f].num \in 0 .. MaxSeq /\ order.firstLive \in Nat /\ order.next \in Nat
  BY <1>1, CallIs, OrderNumbersAre
<1>7. call[f].phase # "asking" => call[f].num >= order.firstLive /\ call[f].num < order.next
  BY <1>1, <1>2 DEF CallHolds
<1> QED BY <1>1, <1>2, <1>4, <1>5, <1>6, <1>7

\* What a landing of a steady task's calls writes.
LEMMA LandedIs ==
  ASSUME PassInv, SteadyInv, NEW L, Landing(L)
  PROVE  /\ stored \subseteq stored' /\ stored' \subseteq Keys
         /\ marker' \in [1 .. MaxSeq -> Keys \cup {NoKey}]
         /\ \A n \in 1 .. MaxSeq :
              \/ marker'[n] = marker[n]
              \/ /\ marker[n] = NoKey
                 /\ \E f \in L : call[f].phase = "marking" /\ call[f].num = n /\ marker'[n] = Key(f)
         /\ \A f \in L : call[f].phase = "marking" => marker'[call[f].num] = Key(f)
         /\ \A key \in stored' \ stored :
              \E f \in L : call[f].phase = "storing" /\ ~IsRefused(f) /\ Key(f) = key
         /\ \A f \in L : call[f].phase = "storing" /\ ~IsRefused(f) => Key(f) \in stored'
         /\ \A k \in 1 .. Count :
              \/ child'[k] = child[k]
              \/ child[k] = 0 /\ \E f \in L : /\ call[f].phase = "asking" /\ call[f].stage = "spawn"
                                              /\ call[f].use = k /\ child'[k] = f
         /\ \A f \in L : call[f].phase = "asking" /\ call[f].stage = "spawn" => child'[call[f].use] # 0
<1>1. L \in SUBSET Flows /\ (\A f \in L : call[f].phase \in Store \cup {"parking"}) /\ Lands(L)
  BY DEF Landing
<1>2. ASSUME NEW f \in L PROVE call[f].phase \in {"asking", "marking", "storing"} /\ f \in Flows
  BY <1>1, SteadyLanding
<1>3. \A f \in L : /\ Marks(f) <=> call[f].phase = "marking"
                   /\ Results(f) <=> (call[f].phase = "storing" /\ ~IsRefused(f))
  BY <1>2 DEF Marks, Results
<1>4. /\ marker' \in [1 .. MaxSeq -> Keys \cup {NoKey}]
      /\ \A n \in 1 .. MaxSeq :
           \/ marker'[n] = marker[n]
           \/ \E f \in L : Marks(f) /\ call[f].num = n /\ marker'[n] = Key(f)
      /\ \A f \in L : Marks(f) => marker'[call[f].num] = Key(f)
      /\ stored' = stored \cup {Key(f) : f \in {g \in L : Results(g)}}
      /\ stored' \subseteq Keys
      /\ \A k \in 1 .. Count :
           \/ child'[k] = child[k]
           \/ child[k] = 0 /\ \E f \in L : Asks(f) /\ call[f].use = k /\ child'[k] = f
      /\ \A f \in L : Asks(f) => child'[call[f].use] = f
  BY <1>1, LandsIs
<1>5. ASSUME NEW n \in 1 .. MaxSeq, marker'[n] # marker[n]
      PROVE  marker[n] = NoKey /\ \E f \in L : call[f].phase = "marking" /\ call[f].num = n /\ marker'[n] = Key(f)
  <2>1. PICK f \in L : Marks(f) /\ call[f].num = n /\ marker'[n] = Key(f)
    BY <1>4, <1>5
  <2>2. call[f].phase = "marking"
    BY <1>3, <2>1
  <2>3. marker[n] = NoKey
    BY <1>2, <2>1, <2>2 DEF SteadyInv, SteadyResult
  <2> QED BY <2>1, <2>2, <2>3
<1>6. ASSUME NEW f \in L, call[f].phase = "asking", call[f].stage = "spawn" PROVE child'[call[f].use] # 0
  <2>1. call[f].use \in 1 .. Count /\ 0 \notin Flows
    BY <1>2, <1>6, KeyIs, Counts DEF PassInv
  <2>2. CASE child[call[f].use] = 0
    BY <1>2, <1>4, <1>6, <2>1, <2>2 DEF Asks
  <2>3. CASE child[call[f].use] # 0
    BY <1>4, <2>1, <2>3
  <2> QED BY <2>2, <2>3
<1>7. \A k \in 1 .. Count :
        \/ child'[k] = child[k]
        \/ child[k] = 0 /\ \E f \in L : /\ call[f].phase = "asking" /\ call[f].stage = "spawn"
                                        /\ call[f].use = k /\ child'[k] = f
  BY <1>4 DEF Asks
<1>8. \A key \in stored' \ stored :
        \E f \in L : call[f].phase = "storing" /\ ~IsRefused(f) /\ Key(f) = key
  BY <1>3, <1>4
<1>9. \A f \in L : call[f].phase = "storing" /\ ~IsRefused(f) => Key(f) \in stored'
  BY <1>3, <1>4
<1>10. \A f \in L : call[f].phase = "marking" => marker'[call[f].num] = Key(f)
  BY <1>3, <1>4
<1>11. stored \subseteq stored' /\ stored' \subseteq Keys /\ marker' \in [1 .. MaxSeq -> Keys \cup {NoKey}]
  BY <1>4
<1> QED BY <1>5, <1>6, <1>7, <1>8, <1>9, <1>10, <1>11

\* A result that is stored, or that no call stores, keeps its number.
LEMMA NumbersStay ==
  ASSUME PassInv, SteadyInv, NEW L, Landing(L), NEW key \in Keys,
         key \in stored \/ \A f \in L : Key(f) # key
  PROVE  /\ Recorded(key)' = Recorded(key)
         /\ key \in stored' <=> key \in stored
         /\ \A n \in 1 .. MaxSeq : marker'[n] = key <=> marker[n] = key
<1>1. TypeOK
  BY DEF PassInv
<1>2. \A f \in L : Key(f) # key
  <2>1. \A f \in L : Key(f) \notin stored
    BY SteadyLanding DEF Landing
  <2> QED BY <2>1
<1>3. ASSUME NEW n \in 1 .. MaxSeq PROVE marker'[n] = key <=> marker[n] = key
  <2>1. key # NoKey
    BY KeysDiffer
  <2> QED BY <1>2, <2>1, LandedIs
<1>4. key \in stored' <=> key \in stored
  BY <1>2, LandedIs
<1>5. DOMAIN marker = 1 .. MaxSeq /\ DOMAIN marker' = 1 .. MaxSeq
  BY <1>1, LandedIs DEF TypeOK
<1>6. {n \in DOMAIN marker' : marker'[n] = key} = {n \in DOMAIN marker : marker[n] = key}
  BY <1>3, <1>5
<1> QED BY <1>3, <1>4, <1>6 DEF Recorded, NumberOf

\* A result that lands has the number of its call, if that was beside another.
LEMMA LandsNumbered ==
  ASSUME PassInv, SteadyInv, NEW L, Landing(L), NEW f \in L, call[f].phase = "storing",
         Key(f) \in stored'
  PROVE  \A key \in {Key(f)} :
           /\ Recorded(key)' \in 0 .. MaxSeq
           /\ call[f].beside => call[f].marked /\ Recorded(key)' = call[f].num
           /\ ~call[f].beside /\ (\A n \in 1 .. MaxSeq : marker[n] # key) => Recorded(key)' = 0
<1> TAKE key \in {Key(f)}
<1> DEFINE N == {n \in DOMAIN marker' : marker'[n] = key}
<1>1. TypeOK /\ MaxSeq \in Nat /\ f \in Flows /\ IsOrder(order, MaxSeq)
  BY Counts DEF PassInv, Landing
<1>2. /\ Key(f) \in Keys
      /\ \A n \in order.firstLive .. MaxSeq : marker[n] = Key(f) => n = call[f].num
      /\ call[f].num \in order.firstLive .. MaxSeq /\ call[f].num \in 1 .. MaxSeq
      /\ order.firstLive \in Nat
  <2>1. order.firstLive \in Nat /\ 1 <= order.firstLive
    BY <1>1, OrderIs
  <2>2. f \in Flows /\ call[f].phase \in Store \cup {"parking"}
    BY DEF Landing
  <2> QED BY <2>1, <2>2, SteadyLanding
<1>3. ASSUME NEW g \in L, call[g].phase = "marking" PROVE Key(g) # key
  <2>1. g \in Flows /\ CallsHold
    BY <1>3 DEF Landing, PassInv
  <2> QED BY <1>1, <1>3, <2>1, KeyIs
<1>4. DOMAIN marker' = 1 .. MaxSeq
  BY LandedIs
<1>5. \A n \in 1 .. MaxSeq : marker'[n] = key <=> marker[n] = key
  <2>1. key # NoKey
    BY <1>2, KeysDiffer
  <2> QED BY <1>3, <2>1, LandedIs
<1>6. Recorded(key)' = IF N # {} THEN Max(N) ELSE 0
  BY DEF Recorded, NumberOf
<1>7. N \in SUBSET (0 .. MaxSeq)
  BY <1>1, <1>4
<1>8. N # {} => Max(N) \in N /\ \A n \in N : n <= Max(N)
  <2>1. \A Z \in SUBSET (0 .. MaxSeq) : Z # {} => Max(Z) \in Z /\ \A n \in Z : n <= Max(Z)
    BY <1>1, MaxIs
  <2> HIDE DEF N
  <2> QED BY <1>7, <2>1
<1>9. Recorded(key)' \in 0 .. MaxSeq
  <2>1. CASE N = {}
    BY <1>1, <1>6, <2>1
  <2>2. CASE N # {}
    <3>1. Max(N) \in 0 .. MaxSeq
      BY <1>7, <1>8, <2>2
    <3> QED BY <1>6, <2>2, <3>1
  <2> QED BY <2>1, <2>2
<1>10. CASE call[f].beside
  <2>1. call[f].marked /\ marker[call[f].num] = key
    <3>1. call[f].num >= order.firstLive
      BY <1>2
    <3>2. SteadyResult(f)
      BY <1>1 DEF SteadyInv
    <3> QED BY <1>10, <3>1, <3>2 DEF SteadyResult
  <2>2. call[f].num \in N
    BY <1>2, <1>4, <1>5, <2>1
  <2>3. \A n \in N : n <= call[f].num
    <3> SUFFICES ASSUME NEW n \in 1 .. MaxSeq, marker[n] = key, ~(n <= call[f].num) PROVE FALSE
      BY <1>4, <1>5
    <3>1. n \in order.firstLive .. MaxSeq
      BY <1>2
    <3> QED BY <1>2, <3>1
  <2>4. Max(N) \in N /\ Max(N) <= call[f].num /\ call[f].num <= Max(N)
    BY <1>8, <2>2, <2>3
  <2>5. Max(N) = call[f].num
    <3> HIDE DEF N
    <3> QED BY <1>2, <1>7, <2>4
  <2> QED BY <1>6, <1>9, <1>10, <2>1, <2>2, <2>5
<1>11. CASE ~call[f].beside
  <2>1. (\A n \in 1 .. MaxSeq : marker[n] # key) => N = {}
    BY <1>4, <1>5
  <2> QED BY <1>6, <1>9, <1>11, <2>1
<1> QED BY <1>10, <1>11

\* A call that writes had its number before, or takes a new one.
NumbersAreNew ==
  \A g \in Flows : call'[g].phase \in {"marking", "storing"} =>
    \/ /\ call[g].phase \in {"marking", "storing"}
       /\ call'[g].num = call[g].num /\ call'[g].stage = call[g].stage /\ call'[g].use = call[g].use
    \/ call'[g].num \in order.next .. MaxSeq

\* At rest no flow is in the synchronous start.
LEMMA QuietIsNoStart == Quiet => ~Starting
BY DEF Quiet, Starting, Microtask

\* Every recorded number was given before.
LEMMA NumbersAreGiven ==
  ASSUME PassInv, NEW key
  PROVE  Recorded(key) \in 0 .. MaxSeq /\ Recorded(key) < order.next
<1>1. TypeOK /\ MaxSeq \in Nat /\ order.next \in Nat /\ 1 <= order.next /\ MarkersHold
  BY Counts, OrderNumbersAre DEF PassInv
<1>2. /\ Recorded(key) \in 0 .. MaxSeq
      /\ Recorded(key) # 0 =>
           key \in stored /\ Recorded(key) \in 1 .. MaxSeq /\ marker[Recorded(key)] = key
  BY <1>1, RecordedIs
<1>3. CASE Recorded(key) = 0
  BY <1>1, <1>2, <1>3
<1>4. CASE Recorded(key) # 0
  <2>1. key # NoKey
    BY <1>1, <1>2, <1>4, KeysDiffer DEF TypeOK
  <2>2. marker[Recorded(key)] # NoKey
    BY <1>2, <1>4, <2>1
  <2> QED BY <1>1, <1>2, <1>4, <2>2 DEF MarkersHold
<1> QED BY <1>3, <1>4

\* A flow's own result keeps its number, or has that of the call that stores it.
LEMMA OwnLands ==
  ASSUME PassInv, SteadyInv, NEW L, Landing(L), NEW g \in Flows
  PROVE  /\ Own(g) \in stored => Own(g) \in stored' /\ OwnNum(g)' = OwnNum(g)
         /\ Own(g) \in stored' /\ Own(g) \notin stored =>
              /\ g \in L /\ call[g].phase = "storing" /\ call[g].stage = "own"
              /\ Alone \/ OwnNum(g)' = call[g].num
<1>1. Own(g) \in Keys
  BY KeysDiffer
<1>2. CASE Own(g) \in stored
  BY <1>1, <1>2, NumbersStay DEF OwnNum
<1>3. CASE Own(g) \in stored' /\ Own(g) \notin stored
  <2>1. PICK f \in L : call[f].phase = "storing" /\ Key(f) = Own(g)
    BY <1>3, LandedIs
  <2>2. f = g /\ call[f].stage = "own"
    BY <2>1, KeysDiffer DEF Key
  <2>3. ~Starting
    BY <2>1, QuietIsNoStart DEF Landing
  <2>4. Alone \/ call[f].beside
    BY <2>2, <2>3 DEF SteadyInv, SteadyPhase
  <2>5. call[f].beside => Recorded(Own(g))' = call[f].num
    <3>1. Key(f) \in stored'
      BY <1>3, <2>1
    <3>2. \A key \in {Key(f)} : call[f].beside => Recorded(key)' = call[f].num
      BY <2>1, <3>1, LandsNumbered
    <3> QED BY <2>1, <3>2
  <2> QED BY <1>3, <2>1, <2>2, <2>4, <2>5 DEF OwnNum
<1> QED BY <1>2, <1>3

\* A landing writes a spawn's result under the number of its call.
LEMMA SpawnLands ==
  ASSUME PassInv, SteadyInv, NEW L, Landing(L), NEW k \in 1 .. Count
  PROVE  /\ Spawn(k) \in stored => Spawn(k) \in stored' /\ Recorded(Spawn(k))' = Recorded(Spawn(k))
         /\ Spawn(k) \in stored' /\ Spawn(k) \notin stored =>
              \E g \in L : /\ call[g].phase = "storing" /\ call[g].stage = "spawn" /\ call[g].use = k
                           /\ k < Count => call[g].beside
                           /\ call[g].beside => Recorded(Spawn(k))' = call[g].num
                           /\ call[g].num >= order.firstLive
<1>1. Spawn(k) \in Keys
  BY KeysDiffer
<1>2. CASE Spawn(k) \in stored
  BY <1>1, <1>2, NumbersStay
<1>3. CASE Spawn(k) \in stored' /\ Spawn(k) \notin stored
  <2>1. PICK g \in L : call[g].phase = "storing" /\ Key(g) = Spawn(k)
    BY <1>3, LandedIs
  <2>2. g \in Flows /\ call[g].stage = "spawn" /\ call[g].use = k
    <3>1. g \in Flows /\ TypeOK
      BY DEF Landing, PassInv
    <3>2. call[g].stage # "own"
      BY <2>1, KeysDiffer DEF Key
    <3>3. call[g].stage = "spawn"
      BY <3>1, <3>2, CallIs
    <3> QED BY <2>1, <3>1, <3>3, KeysDiffer DEF Key
  <2>3. call[g].num >= order.firstLive
    BY <2>1, <2>2 DEF PassInv, CallsHold, CallHolds
  <2>4. k < Count => call[g].beside
    <3>1. k # 0 /\ Live(g) /\ (k < Count => k # Count)
      BY <2>1, Counts DEF Live, Store
    <3>2. SteadySpawn(g)
      BY <2>2 DEF SteadyInv
    <3>3. ~call[g].beside => k = Count
      BY <2>2, <3>1, <3>2 DEF SteadySpawn
    <3> QED BY <3>1, <3>3
  <2>5. call[g].beside => Recorded(Spawn(k))' = call[g].num
    <3>1. Key(g) \in stored'
      BY <1>3, <2>1
    <3>2. \A key \in {Key(g)} : call[g].beside => Recorded(key)' = call[g].num
      BY <2>1, <3>1, LandsNumbered
    <3> QED BY <2>1, <3>2
  <2> QED BY <1>3, <2>1, <2>2, <2>3, <2>4, <2>5
<1> QED BY <1>2, <1>3

\* What comes after a flow's own result stays after it.
LEMMA RankStays ==
  ASSUME PassInv, SteadyInv, NEW L, Landing(L), NumbersAreNew,
         NEW f \in Flows, NEW k, Ranked(f, k)
  PROVE  Ranked(f, k)' /\ OwnNum(f)' = OwnNum(f)
<1>1. Own(f) \in stored /\ Own(f) \in stored' /\ OwnNum(f)' = OwnNum(f)
  BY OwnLands DEF Ranked
<1>2. OwnNum(f) \in Nat /\ OwnNum(f) < order.next /\ order.next \in Nat
  BY NumbersAreGiven, Counts, OrderNumbersAre DEF OwnNum, PassInv
<1>3. ASSUME NEW g \in Flows
      PROVE  (Own(g) \in stored' /\ OwnNum(g)' <= OwnNum(f)') <=> (Own(g) \in stored /\ OwnNum(g) <= OwnNum(f))
  <2>1. CASE Own(g) \in stored
    BY <1>1, <2>1, OwnLands
  <2>2. CASE Own(g) \in stored' /\ Own(g) \notin stored
    <3>1. call[g].phase = "storing" /\ call[g].stage = "own" /\ (Alone \/ OwnNum(g)' = call[g].num)
      BY <2>2, OwnLands
    <3>2. ~Alone
      BY <1>1, <2>2 DEF Alone
    <3>3. OwnNum(f) < call[g].num
      BY <3>1 DEF Ranked
    <3>4. call[g].num \in Nat
      BY CallIs, Counts DEF PassInv
    <3>5. OwnNum(g)' = call[g].num
      BY <3>1, <3>2
    <3> QED BY <1>1, <1>2, <2>2, <3>3, <3>4, <3>5
  <2> QED BY <2>1, <2>2
<1>4. Before(f)' = Before(f)
  BY <1>3 DEF Before
<1>5. ASSUME NEW g \in Flows, call'[g].stage = "own", call'[g].phase \in {"marking", "storing"}
      PROVE  OwnNum(f)' < call'[g].num
  <2>1. CASE call'[g].num \in order.next .. MaxSeq
    BY <1>1, <1>2, <2>1
  <2>2. CASE call'[g].num \notin order.next .. MaxSeq
    BY <1>1, <1>5, <2>2 DEF NumbersAreNew, Ranked
  <2> QED BY <2>1, <2>2
<1> QED BY <1>1, <1>4, <1>5 DEF Ranked

\* What the disk of a steady task's passes says goes on to hold.
LEMMA DiskStays ==
  ASSUME PassInv, SteadyInv, NEW L, Landing(L), NumbersAreNew
  PROVE  SteadyDisk'
<1>1. TypeOK /\ MaxSeq \in Nat /\ Count \in Nat /\ SteadyDisk /\ CallsHold
  BY Counts DEF PassInv, SteadyInv
<1>2. ASSUME Alone, NEW n \in 1 .. MaxSeq PROVE marker'[n] = NoKey
  <2>1. marker[n] = NoKey
    BY <1>1, <1>2 DEF SteadyDisk
  <2>2. \A f \in L : call[f].phase # "marking"
    BY <1>2 DEF Landing, SteadyInv, SteadyPhase
  <2> QED BY <2>1, <2>2, LandedIs
<1>3. ASSUME NEW f \in Flows, Own(f) \in stored' PROVE Alone \/ OwnNum(f)' # 0
  <2>1. CASE Own(f) \in stored
    BY <1>1, <2>1, OwnLands DEF SteadyDisk
  <2>2. CASE Own(f) \notin stored
    <3>1. f \in L /\ call[f].phase = "storing" /\ (Alone \/ OwnNum(f)' = call[f].num)
      BY <1>3, <2>2, OwnLands
    <3>2. call[f].num # 0
      BY <1>1, <3>1, OrderIs DEF CallsHold, CallHolds, PassInv
    <3> QED BY <3>1, <3>2
  <2> QED BY <2>1, <2>2
<1>10. \A k \in 1 .. Count : \A f \in Flows : child'[k] = f /\ Ranked(f, k)' => Ranked(child[k], k)'
  BY DEF Ranked, Before, OwnNum, Own
<1>4. ASSUME NEW k \in 1 .. Count, child'[k] # 0 PROVE Ranked(child[k], k)'
  <2>1. CASE child[k] # 0
    <3>1. child'[k] = child[k]
      BY <2>1, LandedIs
    <3>2. child[k] \in Flows /\ Ranked(child[k], k)
      BY <1>1, <2>1 DEF SteadyDisk, TypeOK, Count
    <3>3. \A f \in Flows : Ranked(f, k) => Ranked(f, k)'
      BY RankStays
    <3> QED BY <1>10, <3>1, <3>2, <3>3
  <2>2. CASE child[k] = 0
    <3>1. PICK f \in L : call[f].phase = "asking" /\ call[f].use = k /\ child'[k] = f
      BY <1>4, <2>2, LandedIs
    <3>2. f \in Flows /\ k # 0
      BY DEF Landing
    <3>3. Ranked(f, k)
      BY <3>1, <3>2 DEF SteadyInv, SteadySpawn, Store
    <3>4. Ranked(f, k)'
      BY <3>2, <3>3, RankStays
    <3> QED BY <1>10, <3>1, <3>2, <3>4
  <2> QED BY <2>1, <2>2
<1>5. ASSUME NEW k \in 1 .. Count, Spawn(k) \in stored'
      PROVE  child'[k] # 0 /\ (k < Count => Recorded(Spawn(k))' # 0)
  <2>1. CASE Spawn(k) \in stored
    <3>1. child[k] # 0 /\ (k < Count => Recorded(Spawn(k)) # 0)
      BY <1>1, <2>1 DEF SteadyDisk
    <3>2. child'[k] = child[k]
      BY <3>1, LandedIs
    <3> QED BY <2>1, <3>1, <3>2, SpawnLands
  <2>2. CASE Spawn(k) \notin stored
    <3>1. PICK g \in L : /\ call[g].phase = "storing" /\ call[g].stage = "spawn" /\ call[g].use = k
                         /\ k < Count => call[g].beside
                         /\ call[g].beside => Recorded(Spawn(k))' = call[g].num
                         /\ call[g].num >= order.firstLive
      BY <1>5, <2>2, SpawnLands
    <3>2. g \in Flows /\ k # 0
      BY DEF Landing
    <3>3. child[k] # 0
      BY <3>1, <3>2 DEF SteadyInv, SteadySpawn
    <3>4. call[g].num # 0
      BY <1>1, <3>1, <3>2, CallIs, OrderIs DEF PassInv
    <3> QED BY <3>1, <3>3, <3>4, LandedIs
  <2> QED BY <2>1, <2>2
<1>6. ASSUME NEW k \in 1 .. Count, NEW n \in 1 .. MaxSeq, marker'[n] = Spawn(k)
      PROVE  k <= Cardinality({g \in Flows : Own(g) \in stored' /\ OwnNum(g)' < n})
  <2> DEFINE S == {g \in Flows : Own(g) \in stored /\ OwnNum(g) < n}
             T == {g \in Flows : Own(g) \in stored' /\ OwnNum(g)' < n}
  <2>1. S \subseteq T
    BY OwnLands
  <2>2. IsFiniteSet(T) /\ Cardinality(T) \in Nat /\ Cardinality(S) \in Nat /\ Cardinality(S) <= Cardinality(T)
    <3>1. IsFiniteSet(T) /\ IsFiniteSet(S)
      <4>1. S \in SUBSET Flows /\ T \in SUBSET Flows
        OBVIOUS
      <4> HIDE DEF S, T
      <4> QED BY <4>1, Counts
    <3> HIDE DEF S, T
    <3> QED BY <2>1, <3>1, FS_CardinalityType, FS_Subset
  <2>3. k <= Cardinality(S)
    <3>1. CASE marker[n] = Spawn(k)
      BY <1>1, <3>1 DEF SteadyDisk
    <3>2. CASE marker[n] # Spawn(k)
      <4>1. PICK f \in L : call[f].phase = "marking" /\ call[f].num = n /\ Key(f) = Spawn(k)
        BY <1>6, <3>2, LandedIs
      <4>2. f \in Flows /\ call[f].use = k /\ k # 0
        <5>1. f \in Flows
          BY DEF Landing
        <5>2. call[f].stage # "own"
          BY <4>1, KeysDiffer DEF Key
        <5> QED BY <4>1, <5>1, <5>2, KeysDiffer DEF Key
      <4>3. Ranked(f, k) /\ OwnNum(f) < n
        <5>1. call[f].num >= order.firstLive
          BY <1>1, <4>1, <4>2 DEF CallsHold, CallHolds
        <5> QED BY <4>1, <4>2, <5>1 DEF SteadyInv, SteadySpawn, Store
      <4>4. Before(f) \subseteq S
        <5> SUFFICES ASSUME NEW g \in Flows, Own(g) \in stored, OwnNum(g) <= OwnNum(f) PROVE OwnNum(g) < n
          BY DEF Before
        <5>1. OwnNum(g) \in Nat /\ OwnNum(f) \in Nat
          BY <1>1, RecordedIs DEF OwnNum
        <5> QED BY <4>3, <5>1
      <4>5. Cardinality(Before(f)) = k
        BY <4>3 DEF Ranked
      <4>6. IsFiniteSet(S)
        <5>1. S \in SUBSET Flows
          OBVIOUS
        <5> HIDE DEF S
        <5> QED BY <5>1, Counts
      <4> HIDE DEF S
      <4> QED BY <4>4, <4>5, <4>6, FS_Subset
    <3> QED BY <3>1, <3>2
  <2> HIDE DEF S
  <2>4. k <= Cardinality(T)
    <3> HIDE DEF T
    <3> QED BY <2>2, <2>3
  <2> QED BY <2>4
<1> QED BY <1>2, <1>3, <1>4, <1>5, <1>6 DEF SteadyDisk, Alone, Count

\* A step of flow f (of none, if f is 0), in which the store calls in L land.  Flow f
\* begins a call, which makes its calls run beside the pending ones, or goes on with one.
Moved(f, L) ==
  /\ OthersStay(f) /\ Landing(L) /\ L \subseteq {f} /\ NumbersAreNew
  /\ order'.firstLive = order.firstLive /\ (order.ended => order'.ended)
  /\ Starting => order.waiting \subseteq order'.waiting
  /\ f \in Flows => /\ ~HasSpawned(f) /\ (Spawning(f) => Spawning(f)')
                    /\ call'[f].stage = "own" => call'[f].phase # "ready"
  /\ \/ /\ f \in Flows /\ call[f].phase = "ready"
        /\ \A g \in Flows \ {f} : call'[g].beside = (call[g].beside \/ Pending(g))
     \/ /\ ~Starting
        /\ \A g \in Flows \ {f} : call'[g].beside = call[g].beside
        /\ f \in Flows => (Pending(f)' => Pending(f))

\* Another flow's call keeps its fields, and a wait may be answered.
LEMMA OtherIs ==
  ASSUME PassInv, NEW f, NEW L, Moved(f, L), NEW g \in Flows \ {f}
  PROVE  /\ call'[g].stage = call[g].stage /\ call'[g].use = call[g].use
         /\ call'[g].num = call[g].num /\ call'[g].marked = call[g].marked
         /\ call'[g].phase = call[g].phase \/ (call[g].phase = "held" /\ call'[g].phase = "due")
         /\ Pending(g)' = Pending(g) /\ Key(g)' = Key(g) /\ Live(g)' = Live(g)
         /\ Spawning(g)' = Spawning(g) /\ HasSpawned(g)' = HasSpawned(g)
         /\ Through(g)' = Through(g) /\ Between(g)' = Between(g) /\ Fresh(g)' = Fresh(g)
         /\ call[g].beside \in BOOLEAN /\ (call[g].beside => call'[g].beside)
         /\ \A ph \in {"ready", "asking", "marking", "storing", "joining", "handed", "failing", "done"} :
              call'[g].phase = ph <=> call[g].phase = ph
<1>1. /\ call'[g].stage = call[g].stage /\ call'[g].use = call[g].use
      /\ call'[g].num = call[g].num /\ call'[g].marked = call[g].marked
      /\ call'[g].phase = call[g].phase \/ (call[g].phase = "held" /\ call'[g].phase = "due")
      /\ call[g].beside => call'[g].beside
      /\ order'.firstLive = order.firstLive
  BY DEF Moved, OthersStay
<1>2. call[g].beside \in BOOLEAN
  BY CallIs DEF PassInv
<1>3. \A ph \in {"ready", "asking", "marking", "storing", "joining", "handed", "failing", "done"} :
        call'[g].phase = ph <=> call[g].phase = ph
  BY <1>1
<1>4. Pending(g)' = Pending(g) /\ Key(g)' = Key(g)
  BY <1>1 DEF Pending, Key, Own, Spawn
<1>5. Live(g)' = Live(g)
  BY <1>1 DEF Live, Store
<1>6. /\ Spawning(g)' = Spawning(g) /\ HasSpawned(g)' = HasSpawned(g) /\ Through(g)' = Through(g)
      /\ Between(g)' = Between(g) /\ Fresh(g)' = Fresh(g)
  <2>1. CASE call'[g].phase = call[g].phase
    BY <1>1, <2>1 DEF Spawning, HasSpawned, Through, Between, Fresh
  <2>2. CASE call[g].phase = "held" /\ call'[g].phase = "due"
    BY <1>1, <2>2 DEF Spawning, HasSpawned, Through, Between, Fresh
  <2> QED BY <1>1, <2>1, <2>2
<1> QED BY <1>1, <1>2, <1>3, <1>4, <1>5, <1>6

\* The synchronous start ends with the last own call, and only a pass begins with one.
LEMMA StartEnds ==
  ASSUME PassInv, SteadyInv, NEW f \in Flows \cup {0}, NEW L, Moved(f, L)
  PROVE  /\ Starting' => Starting
         /\ Starting /\ ~Starting' => \A g \in Flows \ {f} : Pending(g) /\ call'[g].beside
<1>1. ASSUME NEW g \in Flows, call'[g].phase = "ready", call'[g].stage = "own"
      PROVE  call[g].phase = "ready" /\ call[g].stage = "own"
  <2>1. g # f
    BY <1>1 DEF Moved
  <2> QED BY <1>1, <2>1, OtherIs
<1>2. Starting' => Starting
  BY <1>1 DEF Starting
<1>3. ASSUME Starting, ~Starting', NEW g \in Flows \ {f} PROVE Pending(g) /\ call'[g].beside
  <2>1. call[g].stage = "own" /\ call[g].phase \in {"ready", "asking", "held", "handed"}
    BY <1>3 DEF SteadyInv, SteadyPhase
  <2>2. call[g].phase # "ready"
    BY <1>3, <2>1, OtherIs DEF Starting
  <2>3. Pending(g)
    BY <2>1, <2>2 DEF Pending
  <2>4. call'[g].beside = (call[g].beside \/ Pending(g))
    BY <1>3 DEF Moved
  <2> QED BY <2>3, <2>4
<1> QED BY <1>2, <1>3

\* A flow that the step is not about keeps its phase,
LEMMA OthersPhase ==
  ASSUME PassInv, SteadyInv, NEW f \in Flows \cup {0}, NEW L, Moved(f, L), NEW g \in Flows \ {f}
  PROVE  SteadyPhase(g)'
<1>1. SteadyPhase(g)
  BY DEF SteadyInv
<1>2. call'[g].stage = call[g].stage /\ call'[g].num = call[g].num /\ order'.firstLive = order.firstLive
  BY OtherIs DEF Moved
<1>3. call'[g].phase = call[g].phase \/ (call[g].phase = "held" /\ call'[g].phase = "due" /\ ~Starting)
  <2>1. call'[g].phase = IF call[g].phase = "held" /\ call[g].num \notin order'.waiting
                         THEN "due" ELSE call[g].phase
    BY DEF Moved, OthersStay
  <2>2. call[g].phase = "held" => call[g].num \in order.waiting
    BY DEF PassInv, CallsHold
  <2>3. Starting => order.waiting \subseteq order'.waiting
    BY DEF Moved
  <2> QED BY <2>1, <2>2, <2>3
<1>4. (call[g].beside => call'[g].beside) /\ Pending(g)' = Pending(g)
  BY OtherIs
<1>5. Starting' => Starting
  BY StartEnds
<1>6. order.ended => order'.ended
  BY DEF Moved
<1>7. call'[g].stage = "own" /\ ~Starting' /\ ~Alone => call'[g].beside
  <2>1. CASE Starting
    BY <2>1, StartEnds
  <2>2. CASE ~Starting
    BY <1>1, <1>2, <1>4, <2>2 DEF SteadyPhase
  <2> QED BY <2>1, <2>2
<1>8. ASSUME NEW h \in Flows \ {g}, Pending(g)', Pending(h)' PROVE call'[g].beside
  <2>1. CASE h # f
    BY <1>1, <1>4, <1>8, <2>1, OtherIs DEF SteadyPhase
  <2>2. CASE h = f
    <3>1. CASE call[f].phase = "ready" /\ f \in Flows /\ call'[g].beside = (call[g].beside \/ Pending(g))
      BY <1>4, <1>8, <3>1
    <3>2. CASE Pending(f)' => Pending(f)
      BY <1>1, <1>4, <1>8, <2>2, <3>2 DEF SteadyPhase
    <3> QED BY <2>2, <3>1, <3>2 DEF Moved
  <2> QED BY <2>1, <2>2
<1>9. Alone => ~call'[g].beside
  <2>1. CASE f \in Flows
    BY <2>1 DEF Alone
  <2>2. CASE f \notin Flows
    BY <1>1, <2>2 DEF Moved, SteadyPhase
  <2> QED BY <2>1, <2>2
<1>10. /\ call'[g].stage = "own" =>
            call'[g].phase \in {"ready", "asking", "marking", "storing", "held", "due", "handed", "failing"}
       /\ call'[g].stage = "own" /\ call'[g].phase = "failing" => order'.ended
       /\ call'[g].phase # "joining"
  BY <1>1, <1>2, <1>3, <1>6 DEF SteadyPhase
<1>11. Starting' => /\ call'[g].stage = "own" /\ call'[g].phase \in {"ready", "asking", "held", "handed"}
                    /\ call'[g].num < order'.firstLive
  BY <1>1, <1>2, <1>3, <1>5 DEF SteadyPhase
<1>12. call'[g].phase = "marking" => call'[g].beside
  BY <1>1, <1>3, <1>4 DEF SteadyPhase
<1> QED BY <1>7, <1>8, <1>9, <1>10, <1>11, <1>12 DEF SteadyPhase, Alone

\* A call that has a number of this pass, or a spawn that asks, goes on to run alone.
LEMMA LiveAlone ==
  ASSUME PassInv, SteadyInv, NEW f \in Flows \cup {0}, NEW L, Moved(f, L), NEW g \in Flows \ {f},
         call[g].num >= order.firstLive \/ (Live(g) /\ call[g].use # 0)
  PROVE  call'[g].beside = call[g].beside
<1> SUFFICES ASSUME call'[g].beside # call[g].beside PROVE FALSE
  OBVIOUS
<1>1. f \in Flows /\ ~call[g].beside /\ ~HasSpawned(f) /\ Live(g) /\ f # g
  BY OtherIs DEF Moved, Live
<1>2. call[g].stage \in {"own", "spawn"} /\ ~Alone /\ SteadyPhase(g) /\ SteadySpawn(g) /\ CallHolds(g)
  BY <1>1, CallIs DEF PassInv, SteadyInv, Alone, CallsHold
<1>3. call[g].num \in Nat /\ order.firstLive \in Nat /\ 1 <= order.firstLive
  BY CallIs, Counts, OrderIs DEF PassInv
<1>4. CASE call[g].stage = "own"
  <2>1. call[g].num >= order.firstLive
    BY <1>2, <1>4 DEF CallHolds
  <2>2. ~Starting
    BY <1>2, <1>3, <2>1 DEF SteadyPhase
  <2> QED BY <1>1, <1>2, <1>4, <2>2 DEF SteadyPhase
<1>5. CASE call[g].stage = "spawn"
  <2>1. call[g].use # 0
    <3>1. CASE call[g].num >= order.firstLive
      <4>1. call[g].phase \notin {"timer", "ready", "done"}
        BY <1>2, <1>3, <3>1 DEF CallHolds
      <4>2. call[g].use \in 1 .. used
        BY <1>2, <1>5, <4>1 DEF CallHolds
      <4> QED BY <4>2
    <3> QED BY <3>1
  <2> QED BY <1>1, <1>2, <2>1 DEF SteadySpawn, OthersHaveSpawned
<1> QED BY <1>2, <1>4, <1>5

\* what is on the disk of its result,
LEMMA OthersResult ==
  ASSUME PassInv, SteadyInv, NEW f \in Flows \cup {0}, NEW L, Moved(f, L), NEW g \in Flows \ {f}
  PROVE  SteadyResult(g)'
<1>1. SteadyResult(g) /\ CallHolds(g) /\ TypeOK /\ CallsHold /\ MaxSeq \in Nat /\ Landing(L) /\ L \subseteq {f}
  BY Counts DEF SteadyInv, PassInv, CallsHold, Moved
<1>2. /\ call'[g].num = call[g].num /\ call'[g].marked = call[g].marked
      /\ Key(g)' = Key(g) /\ order'.firstLive = order.firstLive
  BY OtherIs DEF Moved
<1>3. call'[g].phase = call[g].phase \/ (call[g].phase = "held" /\ call'[g].phase = "due")
  BY OtherIs
<1>4. call[g].num \in 0 .. MaxSeq /\ order.firstLive \in 1 .. MaxSeq + 1
  BY <1>1, CallIs, OrderIs DEF PassInv
<1>5. ASSUME call[g].phase \notin {"timer", "ready", "done"}
      PROVE  /\ Recorded(Key(g))' = Recorded(Key(g)) /\ (Key(g) \in stored' <=> Key(g) \in stored)
             /\ \A n \in 1 .. MaxSeq : marker'[n] = Key(g) <=> marker[n] = Key(g)
  <2>1. Key(g) \in Keys
    BY <1>1, <1>5, KeyIs
  <2>2. ASSUME NEW h \in L PROVE Key(h) # Key(g)
    <3>1. h = f /\ h \in Flows /\ h # g /\ call[h].phase \notin {"timer", "ready", "done"}
      BY <1>1 DEF Landing, Store
    <3> QED BY <1>1, <1>5, <3>1, KeyIs
  <2>3. \A key \in {Key(g)} :
          /\ Recorded(key)' = Recorded(key) /\ (key \in stored' <=> key \in stored)
          /\ \A n \in 1 .. MaxSeq : marker'[n] = key <=> marker[n] = key
    BY <1>1, <2>1, <2>2, NumbersStay
  <2>4. \A key \in {Key(g)} : key = Key(g) => (Recorded(Key(g)))' = Recorded(key)'
    BY <1>2 DEF Recorded, NumberOf
  <2> QED BY <2>3, <2>4
<1>6. call[g].phase = "marking" => marker'[call[g].num] = marker[call[g].num] /\ call[g].num \in 1 .. MaxSeq
  <2> SUFFICES ASSUME call[g].phase = "marking", marker'[call[g].num] # marker[call[g].num] \/ call[g].num = 0
               PROVE  FALSE
    BY <1>4
  <2>1. call[g].num # 0
    BY <1>1, <1>4 DEF CallHolds
  <2>2. PICK h \in L : call[h].num = call[g].num
    BY <1>1, <1>4, <2>1, LandedIs
  <2>3. h \in Flows /\ h # g
    BY <1>1, <2>2 DEF Landing
  <2> QED BY <1>1, <2>1, <2>2, <2>3 DEF CallsHold, CallsDiffer
<1>7. \A ph \in {"ready", "asking", "marking", "storing", "handed"} : call'[g].phase = ph <=> call[g].phase = ph
  BY OtherIs
<1>8. call'[g].phase \in {"ready", "asking", "marking"} => ~call'[g].marked
  BY <1>1, <1>2, <1>7 DEF SteadyResult
<1>9. call'[g].phase = "marking" => marker'[call'[g].num] = NoKey
  BY <1>1, <1>2, <1>6, <1>7 DEF SteadyResult
<1>10. call'[g].phase \in {"asking", "marking", "storing"} =>
         /\ Key(g) \notin stored'
         /\ \A n \in order'.firstLive .. MaxSeq : marker'[n] = Key(g) => n = call'[g].num
  BY <1>1, <1>2, <1>4, <1>5, <1>7 DEF SteadyResult
<1>11. call'[g].phase \in {"storing", "held", "due", "handed"} /\ call'[g].num >= order'.firstLive =>
         call'[g].marked = call'[g].beside /\ (call'[g].marked => marker'[call'[g].num] = Key(g))
  <2> SUFFICES ASSUME call'[g].phase \in {"storing", "held", "due", "handed"}, call'[g].num >= order'.firstLive
               PROVE  call'[g].marked = call'[g].beside /\ (call'[g].marked => marker'[call'[g].num] = Key(g))
    OBVIOUS
  <2>1. call[g].phase \in {"storing", "held", "due", "handed"} /\ call[g].num >= order.firstLive
    BY <1>2, <1>3
  <2>2. call[g].marked = call[g].beside /\ (call[g].marked => marker[call[g].num] = Key(g))
    BY <1>1, <2>1 DEF SteadyResult
  <2>3. call'[g].beside = call[g].beside
    BY <1>1, <2>1, LiveAlone
  <2>4. call[g].num \in 1 .. MaxSeq
    BY <1>4, <2>1
  <2> QED BY <1>2, <1>5, <2>1, <2>2, <2>3, <2>4
<1>12. call'[g].phase \in {"held", "due", "handed"} =>
         /\ Key(g) \in stored'
         /\ call'[g].num < order'.firstLive \/ call'[g].marked => (Recorded(Key(g)))' = call'[g].num
  BY <1>1, <1>2, <1>3, <1>5 DEF SteadyResult
<1> QED BY <1>2, <1>8, <1>9, <1>10, <1>11, <1>12 DEF SteadyResult

\* and which spawn it is.
LEMMA OthersSpawn ==
  ASSUME PassInv, SteadyInv, NEW f \in Flows \cup {0}, NEW L, Moved(f, L), NEW g \in Flows \ {f}
  PROVE  SteadySpawn(g)'
<1> SUFFICES ASSUME call'[g].use # 0 PROVE SteadySpawn(g)'
  BY DEF SteadySpawn
<1>1. /\ call'[g].num = call[g].num /\ call'[g].use = call[g].use /\ order'.firstLive = order.firstLive
      /\ (call[g].beside => call'[g].beside) /\ Live(g)' = Live(g)
      /\ call'[g].phase = call[g].phase \/ (call[g].phase = "held" /\ call'[g].phase = "due")
      /\ order.ended => order'.ended
  BY OtherIs DEF Moved
<1>2. SteadySpawn(g) /\ Landing(L) /\ NumbersAreNew /\ call[g].use \in 1 .. Count
  <2>1. call[g].use \in 0 .. Count
    BY CallIs DEF PassInv
  <2> QED BY <1>1, <2>1, Counts DEF SteadyInv, Moved
<1>3. call'[g].phase \in Store \/ ~order'.ended =>
        Ranked(g, call[g].use)' /\ (call[g].num >= order.firstLive => OwnNum(g)' < call[g].num)
  <2> SUFFICES ASSUME call'[g].phase \in Store \/ ~order'.ended
               PROVE  Ranked(g, call[g].use)' /\ (call[g].num >= order.firstLive => OwnNum(g)' < call[g].num)
    OBVIOUS
  <2>1. call[g].phase \in Store \/ ~order.ended
    BY <1>1 DEF Store
  <2>2. Ranked(g, call[g].use) /\ (call[g].num >= order.firstLive => OwnNum(g) < call[g].num)
    BY <1>1, <1>2, <2>1 DEF SteadySpawn
  <2>3. \A k \in {call[g].use} : Ranked(g, k) => Ranked(g, k)' /\ OwnNum(g)' = OwnNum(g)
    BY <1>2, RankStays
  <2>4. \A k \in {call[g].use} : Ranked(g, k)' => (Ranked(g, call[g].use))'
    BY <1>1 DEF Ranked
  <2> QED BY <2>2, <2>3, <2>4
<1>4. call'[g].phase \notin {"asking", "failing"} => (child[call[g].use])' # 0
  <2> SUFFICES ASSUME call'[g].phase \notin {"asking", "failing"} PROVE child'[call[g].use] # 0
    BY <1>1
  <2>1. child[call[g].use] # 0
    BY <1>1, <1>2 DEF SteadySpawn
  <2> QED BY <1>2, <2>1, LandedIs
<1>5. ~call'[g].beside /\ Live(g)' => call'[g].use = Count /\ OthersHaveSpawned(g)'
  <2> SUFFICES ASSUME ~call'[g].beside, Live(g)' PROVE call'[g].use = Count /\ OthersHaveSpawned(g)'
    OBVIOUS
  <2>1. call[g].use = Count /\ OthersHaveSpawned(g)
    BY <1>1, <1>2 DEF SteadySpawn
  <2>2. ASSUME NEW h \in Flows \ {g} PROVE HasSpawned(h)'
    <3>1. HasSpawned(h)
      BY <2>1 DEF OthersHaveSpawned
    <3>2. h # f
      BY <3>1 DEF Moved
    <3> QED BY <3>1, <3>2, OtherIs
  <2> QED BY <1>1, <2>1, <2>2 DEF OthersHaveSpawned
<1>6. call'[g].use = Count /\ Live(g)' => \A h \in Flows \ {g} : Spawning(h)'
  <2> SUFFICES ASSUME call'[g].use = Count, Live(g)', NEW h \in Flows \ {g} PROVE Spawning(h)'
    OBVIOUS
  <2>1. Spawning(h)
    BY <1>1, <1>2 DEF SteadySpawn
  <2> QED BY <2>1, OtherIs DEF Moved
<1> QED BY <1>1, <1>3, <1>4, <1>5, <1>6 DEF SteadySpawn, Count

-----------------------------------------------------------------------------
(* A steady task: the flows that a step leaves alone                       *)

\* A flow's own result that waits for its turn, or to be asked for, is in the queue.
LEMMA OwnWaits ==
  ASSUME PassInv, SteadyInv, ~Alone, NEW g \in Flows, ~Through(g), Own(g) \in stored,
         call[g].phase # "failing"
  PROVE  /\ OwnNum(g) \in Undone(order)
         /\ \/ call[g].phase = "ready"
            \/ call[g].phase \in {"held", "due"} /\ call[g].num = OwnNum(g)
<1>1. /\ call[g].stage = "own" /\ Key(g) = Own(g)
      /\ call[g].phase \in {"ready", "asking", "marking", "storing", "held", "due"}
  BY CallIs DEF PassInv, Through, SteadyInv, SteadyPhase, Key
<1>2. call[g].phase \notin {"asking", "marking", "storing"}
  BY <1>1 DEF SteadyInv, SteadyResult
<1>3. CASE call[g].phase = "ready"
  <2>1. Own(g) \in ToCome
    BY <1>1, <1>3 DEF ToCome
  <2>2. Recorded(Own(g)) # 0 /\ order.skipped = {}
    BY DEF SteadyInv, SteadyDisk, OwnNum
  <2> QED BY <1>3, <2>1, <2>2 DEF PassInv, MarkersHold, OwnNum
<1>4. CASE call[g].phase \in {"held", "due"}
  <2>1. call[g].num \in Undone(order)
    BY <1>4 DEF PassInv, CallsHold, CallHolds, InQueue
  <2>2. call[g].num < order.firstLive \/ call[g].marked
    <3>1. call[g].num \in Nat /\ order.firstLive \in Nat
      BY CallIs, Counts, OrderNumbersAre DEF PassInv
    <3>2. CASE call[g].num >= order.firstLive
      <4>1. ~Starting
        BY <3>1, <3>2 DEF SteadyInv, SteadyPhase
      <4>2. call[g].beside
        BY <1>1, <4>1 DEF SteadyInv, SteadyPhase
      <4> QED BY <1>4, <3>2, <4>2 DEF SteadyInv, SteadyResult
    <3> QED BY <3>1, <3>2
  <2>3. Recorded(Own(g)) = call[g].num
    BY <1>1, <1>4, <2>2 DEF SteadyInv, SteadyResult
  <2> QED BY <1>4, <2>1, <2>3 DEF OwnNum
<1> QED BY <1>1, <1>2, <1>3, <1>4

\* The queue's numbers of earlier passes stay asked for.
LEMMA AwaitedStays ==
  ASSUME PassInv, SteadyInv, NEW f \in Flows \cup {0}, NEW L, Moved(f, L),
         IsOrder(order', MaxSeq), NEW n, NEW w, Moves(order, order', n, w),
         f \in Flows /\ call[f].phase \in {"held", "due"} => call[f].num \notin Undone(order'),
         \A key \in ToCome \ ToCome' :
           \/ Recorded(key) = 0 \/ Recorded(key) \notin Undone(order')
           \/ f \in Flows /\ call'[f].phase = "held" /\ call'[f].num = Recorded(key)
  PROVE  Awaited'
<1> SUFFICES ASSUME NEW k \in Undone(order'), k < order'.firstLive
             PROVE  \/ \E key \in ToCome' : Recorded(key)' = k
                    \/ \E g \in Flows : call'[g].phase \in {"held", "due"} /\ call'[g].num = k
  BY DEF Awaited
<1>1. order.next \in Nat /\ order.firstLive \in Nat /\ order.firstLive <= order.next
      /\ TypeOK /\ IsOrder(order, MaxSeq) /\ MaxSeq \in Nat /\ order'.firstLive = order.firstLive /\ Landing(L)
  BY Counts, OrderNumbersAre DEF PassInv, Moved
<1>2. k \in Undone(order) /\ k \in 1 .. MaxSeq
  <2>1. CASE k \in Undone(order)
    BY <1>1, <2>1, UndoneIs
  <2>2. CASE k \notin Undone(order)
    <3>1. order.next <= k
      BY <2>2 DEF Moves
    <3>2. k \in 1 .. MaxSeq
      BY <1>1, UndoneIs
    <3> QED BY <1>1, <3>1, <3>2
  <2> QED BY <2>1, <2>2
<1>3. \/ \E key \in ToCome : Recorded(key) = k
      \/ \E g \in Flows : call[g].phase \in {"held", "due"} /\ call[g].num = k
  BY <1>1, <1>2 DEF SteadyInv, Awaited
<1>4. CASE \E key \in ToCome : Recorded(key) = k
  <2>1. PICK key \in ToCome : Recorded(key) = k
    BY <1>4
  <2>2. key \in stored /\ key \in Keys
    <3>1. Recorded(key) # 0
      BY <1>2, <2>1
    <3> QED BY <1>1, <3>1, RecordedIs DEF TypeOK
  <2>3. Recorded(key)' = k
    BY <1>1, <2>1, <2>2, NumbersStay
  <2>4. CASE key \in ToCome'
    BY <2>3, <2>4
  <2>5. CASE key \notin ToCome'
    BY <1>2, <2>1, <2>5
  <2> QED BY <2>4, <2>5
<1>5. CASE \E g \in Flows : call[g].phase \in {"held", "due"} /\ call[g].num = k
  <2>1. PICK g \in Flows : call[g].phase \in {"held", "due"} /\ call[g].num = k
    BY <1>5
  <2>2. g # f
    BY <2>1
  <2> QED BY <2>1, <2>2, OtherIs
<1> QED BY <1>3, <1>4, <1>5

\* The flows that have their own result are as many as the spawns, where none is between
\* the two.
LEMMA ThroughCounts ==
  ASSUME PassInv, SteadyInv, ~order.ended
  PROVE  /\ IsFiniteSet({g \in Flows : Through(g)})
         /\ (\A g \in Flows : ~Between(g)) => Cardinality({g \in Flows : Through(g)}) = used
         /\ \A f \in Flows : Between(f) /\ (\A g \in Flows \ {f} : ~Between(g)) =>
              Cardinality({g \in Flows : Through(g)}) = used + 1
<1> DEFINE T == {g \in Flows : Through(g)}
           S == {g \in Flows : Spawning(g)}
<1>1. \A g \in Flows : /\ Spawning(g) <=> Through(g) /\ ~Between(g)
                       /\ Between(g) => Through(g)
  BY CallIs DEF PassInv, Spawning, Through, Between
<1>2. IsFiniteSet(T) /\ IsFiniteSet(S)
  <2>1. T \in SUBSET Flows /\ S \in SUBSET Flows
    OBVIOUS
  <2> HIDE DEF T, S
  <2> QED BY <2>1, Counts
<1>3. used = Cardinality(S)
  BY DEF SteadyInv, SteadyPass
<1>4. ASSUME \A g \in Flows : ~Between(g) PROVE Cardinality(T) = used
  <2>1. T = S
    BY <1>1, <1>4
  <2> QED BY <1>3, <2>1
<1>5. ASSUME NEW f \in Flows, Between(f), \A g \in Flows \ {f} : ~Between(g) PROVE Cardinality(T) = used + 1
  <2>1. T = S \cup {f} /\ f \notin S
    BY <1>1, <1>5
  <2> HIDE DEF S, T
  <2> QED BY <1>2, <1>3, <2>1, FS_AddElement
<1> QED BY <1>2, <1>4, <1>5

\* A task that makes its calls again leaves no number for a beat to give up: the least
\* that it could is a spawn's that comes after the results of the flows that are through.
LEMMA NoneGivenUp ==
  ASSUME PassInv, SteadyInv, ~Starting, NEW n, NEW w, Moves(order, order', n, w),
         n = 0 \/ n >= order.firstLive, n \in Nat,
         order.open \/ \A g \in Flows : ~Between(g),
         order.open \/ \A g \in Flows : call[g].phase = "due" => call[g].num = n
  PROVE  (Undone(order) \ {n}) \ Undone(order') = {}
<1> DEFINE G == (Undone(order) \ {n}) \ Undone(order')
<1> SUFFICES ASSUME NEW k \in G PROVE FALSE
  OBVIOUS
<1>1. /\ TypeOK /\ IsOrder(order, MaxSeq) /\ CallsHold /\ MaxSeq \in Nat /\ Count \in Nat
      /\ order.firstLive \in Nat /\ used \in Nat
  BY Counts, OrderNumbersAre DEF PassInv, TypeOK
<1>2. ~order'.open /\ \A l \in G : l < order.firstLive /\ l \notin order.waiting /\ \A m \in Undone(order') : l < m
  BY DEF Moves
<1>3. ~order.open /\ ~order.ended /\ (\A g \in Flows : ~Between(g))
      /\ \A g \in Flows : call[g].phase = "due" => call[g].num = n
  BY <1>2 DEF Moves, SteadyInv
<1>4. ASSUME NEW l \in G PROVE \E j \in used + 1 .. Count : Recorded(Spawn(j)) = l
  <2>1. l \in Undone(order) /\ l # n /\ l < order.firstLive /\ l \notin order.waiting
    BY <1>2
  <2>2. \A g \in Flows : call[g].phase \in {"held", "due"} => call[g].num # l
    BY <1>1, <1>3, <2>1 DEF CallsHold
  <2>3. PICK key \in ToCome : Recorded(key) = l
    BY <2>1, <2>2 DEF SteadyInv, Awaited
  <2>4. ASSUME NEW g \in Flows, call[g].stage = "own", call[g].phase \in {"timer", "ready"} PROVE FALSE
    BY <2>4 DEF SteadyInv, SteadyPhase, Starting
  <2> QED BY <2>3, <2>4 DEF ToCome
<1>5. PICK j \in used + 1 .. Count : Recorded(Spawn(j)) = k
  BY <1>4
<1>6. k \in 1 .. MaxSeq /\ marker[k] = Spawn(j)
  <2>1. k \in 1 .. MaxSeq
    BY <1>1, UndoneIs
  <2> QED BY <1>1, <1>5, <2>1, RecordedIs
<1>7. ~Alone
  BY <1>6, KeysDiffer DEF SteadyInv, SteadyDisk
<1> DEFINE S == {g \in Flows : Own(g) \in stored /\ OwnNum(g) < k}
           T == {g \in Flows : Through(g)}
<1>8. j <= Cardinality(S)
  BY <1>1, <1>5, <1>6 DEF SteadyInv, SteadyDisk
<1>9. ASSUME NEW g \in S PROVE Through(g)
  <2> SUFFICES ASSUME ~Through(g) PROVE FALSE
    OBVIOUS
  <2>1. call[g].phase # "failing"
    BY <1>3, CallIs DEF PassInv, Through, SteadyInv, SteadyPhase
  <2>2. OwnNum(g) \in Undone(order)
    BY <1>7, <2>1, OwnWaits
  <2>3. OwnNum(g) \in Nat /\ OwnNum(g) < k /\ OwnNum(g) \in 1 .. MaxSeq /\ k < order.firstLive
    BY <1>1, <1>2, <2>2, UndoneIs
  <2>4. OwnNum(g) # n
    BY <1>1, <1>6, <2>3
  <2>5. OwnNum(g) \notin Undone(order')
    BY <1>2, <1>6, <2>3
  <2>6. PICK i \in used + 1 .. Count : Recorded(Spawn(i)) = OwnNum(g)
    BY <1>4, <2>2, <2>4, <2>5
  <2>7. marker[OwnNum(g)] = Own(g) /\ marker[OwnNum(g)] = Spawn(i)
    BY <1>1, <2>3, <2>6, RecordedIs DEF OwnNum
  <2> QED BY <2>7, KeysDiffer
<1>10. Cardinality(T) = used /\ IsFiniteSet(T)
  BY <1>3, ThroughCounts
<1>11. S \subseteq T
  BY <1>9
<1>12. Cardinality(S) <= used /\ Cardinality(S) \in Nat
  <2> HIDE DEF S, T
  <2> QED BY <1>1, <1>10, <1>11, FS_Subset, FS_CardinalityType
<1> HIDE DEF S
<1> QED BY <1>1, <1>5, <1>8, <1>12

\* A number before all that are in the queue stays before them, and so does the one that
\* is handed over.
LEMMA FirstStays ==
  ASSUME PassInv, IsOrder(order', MaxSeq), NEW n, NEW w, Moves(order, order', n, w),
         NEW r \in 0 .. MaxSeq, r < order.next,
         \/ \A m \in Undone(order) : r < m
         \/ IsNext(order, r) /\ r \notin Undone(order')
  PROVE  \A m \in Undone(order') : r < m
<1> SUFFICES ASSUME NEW m \in Undone(order') PROVE r < m
  OBVIOUS
<1>1. MaxSeq \in Nat /\ m \in 1 .. MaxSeq /\ order.next \in Nat /\ IsOrder(order, MaxSeq)
  BY Counts, OrderNumbersAre, UndoneIs DEF PassInv
<1>2. CASE m \in Undone(order)
  <2>1. CASE IsNext(order, r) /\ r \notin Undone(order')
    BY <1>1, <1>2, <2>1 DEF IsNext
  <2> QED BY <1>2, <2>1
<1>3. CASE m \notin Undone(order)
  BY <1>1, <1>3 DEF Moves
<1> QED BY <1>2, <1>3

\* How a result reaches flow f: as the next of the queue, and with no turn owed.
HandedOver(f) ==
  /\ call'[f].phase = "handed" /\ call'[f].stage = call[f].stage
  /\ ~Alone => /\ ~order.settling
               /\ order'.settling \/ (call[f].stage = "spawn" /\ OthersHaveSpawned(f))
  /\ call[f].stage = "own" =>
       /\ Own(f) \in stored'
       /\ (Alone /\ OwnNum(f)' = 0) \/ (IsNext(order, OwnNum(f)') /\ OwnNum(f)' \notin Undone(order'))

\* What the pass knows of the results goes on to hold.
LEMMA ThroughStays ==
  ASSUME PassInv, SteadyInv, ~order.ended, NEW f \in Flows \cup {0}, NEW L, Moved(f, L),
         IsOrder(order', MaxSeq), NEW n, NEW w, Moves(order, order', n, w),
         f \in Flows => /\ Through(f)' => Through(f) \/ (Fresh(f)' /\ ~Fresh(f))
                        /\ Fresh(f)' /\ ~Fresh(f) => HandedOver(f),
         NEW g \in Flows, Through(g)'
  PROVE  /\ Own(g) \in stored' /\ OwnNum(g)' \in 0 .. MaxSeq /\ \A m \in Undone(order') : OwnNum(g)' < m
         /\ \/ Through(g) /\ Own(g) \in stored /\ OwnNum(g)' = OwnNum(g)
            \/ /\ ~Through(g) /\ g = f /\ Fresh(f)' /\ ~Fresh(f)
               /\ (Alone /\ OwnNum(f)' = 0) \/ IsNext(order, OwnNum(f)')
<1>1. Landing(L) /\ MaxSeq \in Nat /\ IsOrder(order, MaxSeq) /\ TypeOK
  BY Counts DEF Moved, PassInv
<1>2. CASE Through(g)
  <2>1. Own(g) \in stored /\ \A m \in Undone(order) : OwnNum(g) < m
    BY <1>2 DEF SteadyInv, SteadyPass
  <2>2. Own(g) \in stored' /\ OwnNum(g)' = OwnNum(g)
    BY <1>1, <2>1, OwnLands
  <2>3. OwnNum(g) \in 0 .. MaxSeq /\ OwnNum(g) < order.next
    BY NumbersAreGiven DEF OwnNum
  <2>4. \A r \in {OwnNum(g)} : \A m \in Undone(order') : r < m
    BY <2>1, <2>3, FirstStays
  <2> QED BY <1>2, <2>1, <2>2, <2>3, <2>4
<1>3. CASE ~Through(g)
  <2>1. g = f /\ Fresh(f)' /\ ~Fresh(f) /\ HandedOver(f)
    <3>1. g = f
      BY <1>3, OtherIs
    <3> QED BY <1>3, <3>1
  <2>2. call[f].stage = "own"
    BY <1>1, <1>3, <2>1, CallIs DEF Through
  <2>3. /\ Own(f) \in stored'
        /\ (Alone /\ OwnNum(f)' = 0) \/ (IsNext(order, OwnNum(f)') /\ OwnNum(f)' \notin Undone(order'))
    BY <2>1, <2>2 DEF HandedOver
  <2>4. CASE OwnNum(f)' = 0
    <3>1. \A m \in Undone(order') : 0 < m
      BY <1>1, UndoneIs
    <3> QED BY <1>1, <1>3, <2>1, <2>3, <2>4, <3>1
  <2>5. CASE IsNext(order, OwnNum(f)') /\ OwnNum(f)' \notin Undone(order')
    <3> DEFINE q == OwnNum(f)'
    <3>1. q \in 0 .. MaxSeq /\ q < order.next
      BY <1>1, <2>5, UndoneIs DEF IsNext
    <3>2. \A r \in 0 .. MaxSeq :
            r < order.next /\ IsNext(order, r) /\ r \notin Undone(order') => \A m \in Undone(order') : r < m
      BY FirstStays
    <3>3. \A m \in Undone(order') : q < m
      BY <2>5, <3>1, <3>2
    <3> QED BY <1>3, <2>1, <2>3, <2>5, <3>1, <3>3
  <2> QED BY <2>3, <2>4, <2>5
<1> QED BY <1>2, <1>3

\* At most one flow has a result that it does not know yet: a second one is handed over when the first has spawned.
LEMMA FreshStays ==
  ASSUME PassInv, SteadyInv, ~order.ended, NEW f \in Flows \cup {0}, NEW L, Moved(f, L),
         IsOrder(order', MaxSeq), NEW n, NEW w, Moves(order, order', n, w),
         order.settling => order'.settling \/ \A g \in Flows : ~Fresh(g),
         f \in Flows => /\ Through(f)' => Through(f) \/ (Fresh(f)' /\ ~Fresh(f))
                        /\ Fresh(f)' /\ ~Fresh(f) => HandedOver(f)
                        /\ Between(f)' => Between(f) \/ ~Fresh(f),
         ~Alone, NEW g \in Flows, Fresh(g)'
  PROVE  /\ \A h \in Flows \ {g} : ~Fresh(h)'
         /\ order'.settling \/ OthersHaveSpawned(g)'
         /\ Between(g)' => order'.settling /\ \A h \in Flows : Through(h)' => OwnNum(h)' <= OwnNum(g)'
<1>1. \A h \in Flows : Fresh(h) =>
        /\ \A i \in Flows \ {h} : ~Fresh(i)
        /\ order.settling \/ OthersHaveSpawned(h)
        /\ Between(h) => order.settling /\ \A i \in Flows : Through(i) => OwnNum(i) <= OwnNum(h)
  BY DEF SteadyInv, SteadyPass
<1>2. \A h \in Flows \ {f} : /\ Fresh(h)' = Fresh(h) /\ Between(h)' = Between(h) /\ HasSpawned(h)' = HasSpawned(h)
                             /\ Through(h)' = Through(h)
  BY OtherIs
<1>3. f \in Flows => ~HasSpawned(f)
  BY DEF Moved
<1>4. \A h \in Flows : Between(h) => Fresh(h) /\ Through(h)
  BY DEF Fresh, Between, Through
<1>5. \A h \in Flows : Between(h)' => Fresh(h)' /\ Through(h)'
  BY DEF Fresh, Between, Through
\* If f's result is news, no other's is.
<1>6. ASSUME f \in Flows, Fresh(f)', ~Fresh(f), NEW h \in Flows \ {f} PROVE ~Fresh(h)
  <2> SUFFICES ASSUME Fresh(h) PROVE FALSE
    OBVIOUS
  <2>1. ~order.settling
    BY <1>6 DEF HandedOver
  <2>2. OthersHaveSpawned(h)
    BY <1>1, <2>1
  <2> QED BY <1>3, <1>6, <2>2 DEF OthersHaveSpawned
<1>7. ASSUME NEW h \in Flows, Through(h)'
      PROVE  /\ OwnNum(h)' \in 0 .. MaxSeq
             /\ \/ Through(h) /\ OwnNum(h)' = OwnNum(h)
                \/ ~Through(h) /\ h = f /\ Fresh(f)' /\ ~Fresh(f) /\ IsNext(order, OwnNum(f)')
  BY <1>7, ThroughStays
<1>8. CASE g = f /\ ~Fresh(g)
  <2>1. f \in Flows /\ Fresh(f)' /\ ~Fresh(f) /\ HandedOver(f)
    BY <1>8
  <2>2. \A h \in Flows \ {g} : ~Fresh(h)'
    BY <1>2, <1>6, <1>8, <2>1
  <2>3. order'.settling \/ OthersHaveSpawned(g)
    BY <1>8, <2>1 DEF HandedOver
  <2>4. OthersHaveSpawned(g) => OthersHaveSpawned(g)'
    BY <1>2, <1>8 DEF OthersHaveSpawned
  <2>5. ASSUME Between(g)' PROVE order'.settling /\ \A h \in Flows : Through(h)' => OwnNum(h)' <= OwnNum(g)'
    <3>1. call[f].stage = "own" /\ ~Through(f) /\ Through(f)'
      BY <1>8, <2>1, <2>5 DEF HandedOver, Between, Through, Fresh
    <3>2. order'.settling
      BY <2>1, <3>1 DEF HandedOver
    <3>3. IsNext(order, OwnNum(f)') /\ OwnNum(f)' \in 0 .. MaxSeq
      BY <1>7, <2>1, <3>1
    <3>4. ASSUME NEW h \in Flows, Through(h)' PROVE OwnNum(h)' <= OwnNum(f)'
      <4>1. CASE h = f
        BY <3>3, <4>1, Counts
      <4>2. CASE h # f
        <5>1. Through(h) /\ OwnNum(h)' = OwnNum(h) /\ OwnNum(h)' \in 0 .. MaxSeq
          BY <1>7, <3>4, <4>2
        <5>2. OwnNum(h) < OwnNum(f)'
          BY <3>3, <5>1 DEF SteadyInv, SteadyPass, IsNext
        <5> QED BY <3>3, <5>1, <5>2, Counts
      <4> QED BY <4>1, <4>2
    <3> QED BY <1>8, <3>2, <3>4
  <2> QED BY <1>8, <2>2, <2>3, <2>4, <2>5 DEF HandedOver
\* The result was news before.
<1>9. CASE Fresh(g)
  <2>1. ~(f \in Flows /\ Fresh(f)' /\ ~Fresh(f))
    <3>1. CASE g = f
      BY <1>9, <3>1
    <3>2. CASE g # f
      BY <1>6, <1>9, <3>2
    <3> QED BY <3>1, <3>2
  <2>2. \A h \in Flows \ {g} : ~Fresh(h)'
    <3> SUFFICES ASSUME NEW h \in Flows \ {g}, Fresh(h)' PROVE FALSE
      OBVIOUS
    <3>1. ~Fresh(h)
      BY <1>1, <1>9
    <3> QED BY <1>2, <2>1, <3>1
  <2>3. order.settling => order'.settling
    BY <1>9
  <2>4. OthersHaveSpawned(g) => OthersHaveSpawned(g)'
    BY <1>2, <1>3 DEF OthersHaveSpawned
  <2>5. ASSUME Between(g)' PROVE order'.settling /\ \A h \in Flows : Through(h)' => OwnNum(h)' <= OwnNum(g)'
    <3>1. Between(g)
      BY <1>2, <1>9, <2>5
    <3>2. order'.settling
      BY <1>1, <1>9, <2>3, <3>1
    <3>3. \A h \in Flows : Through(h)' => Through(h) /\ OwnNum(h)' = OwnNum(h)
      BY <1>7, <2>1
    <3>4. OwnNum(g)' = OwnNum(g)
      BY <1>5, <2>5, <3>3
    <3> QED BY <1>1, <1>9, <3>1, <3>2, <3>3, <3>4
  <2> QED BY <1>1, <1>9, <2>2, <2>3, <2>4, <2>5
<1> QED BY <1>2, <1>8, <1>9

\* The pass goes on to hold its own part of the invariant.
LEMMA PassStays ==
  ASSUME PassInv, SteadyInv, ~order'.ended, NEW f \in Flows \cup {0}, NEW L, Moved(f, L),
         IsOrder(order', MaxSeq), NEW n, NEW w, Moves(order, order', n, w),
         order.settling => order'.settling \/ \A g \in Flows : ~Fresh(g),
         f \in Flows => /\ Through(f)' => Through(f) \/ (Fresh(f)' /\ ~Fresh(f))
                        /\ Fresh(f)' /\ ~Fresh(f) => HandedOver(f)
                        /\ Between(f)' => Between(f) \/ ~Fresh(f),
         used' = used + IF f \in Flows /\ Spawning(f)' /\ ~Spawning(f) THEN 1 ELSE 0
  PROVE  SteadyPass'
<1>1. ~order.ended
  BY DEF Moved
<1>2. ASSUME NEW g \in Flows, Through(g)'
      PROVE  Own(g) \in stored' /\ \A m \in Undone(order') : OwnNum(g)' < m
  BY <1>1, <1>2, ThroughStays
<1>3. ASSUME ~Alone, NEW g \in Flows, Fresh(g)'
      PROVE  /\ \A h \in Flows \ {g} : ~Fresh(h)'
             /\ order'.settling \/ OthersHaveSpawned(g)'
             /\ Between(g)' => order'.settling /\ \A h \in Flows : Through(h)' => OwnNum(h)' <= OwnNum(g)'
  BY <1>1, <1>3, FreshStays
<1>4. used' = Cardinality({g \in Flows : Spawning(g)'})
  <2> DEFINE S == {g \in Flows : Spawning(g)}
             T == {g \in Flows : Spawning(g)'}
  <2>1. used = Cardinality(S) /\ used \in Nat
    BY <1>1, Counts DEF SteadyInv, SteadyPass, PassInv, TypeOK
  <2>2. IsFiniteSet(S)
    <3>1. S \in SUBSET Flows
      OBVIOUS
    <3> HIDE DEF S
    <3> QED BY <3>1, Counts
  <2>3. \A g \in Flows \ {f} : Spawning(g)' = Spawning(g)
    BY OtherIs
  <2>4. f \in Flows /\ Spawning(f) => Spawning(f)'
    BY DEF Moved
  <2>5. CASE f \in Flows /\ Spawning(f)' /\ ~Spawning(f)
    <3>1. T = S \cup {f} /\ f \notin S
      BY <2>3, <2>5
    <3>2. used' = used + 1
      BY <2>5
    <3>3. used' = Cardinality(T)
      <4> HIDE DEF S, T
      <4> QED BY <2>1, <2>2, <3>1, <3>2, FS_AddElement
    <3> QED BY <3>3
  <2>6. CASE ~(f \in Flows /\ Spawning(f)' /\ ~Spawning(f))
    <3>1. T = S
      BY <2>3, <2>4, <2>6
    <3>2. used' = used
      BY <2>1, <2>6
    <3> QED BY <2>1, <3>1, <3>2
  <2> QED BY <2>5, <2>6
<1> QED BY <1>2, <1>3, <1>4 DEF SteadyPass, Alone

\* A flow that is about to spawn has the last result that the task knows of, and as many
\* flows have theirs as spawns were made, and it.
LEMMA NextSpawnIs ==
  ASSUME PassInv, SteadyInv, ~order.ended, NEW f \in Flows, call[f].stage = "spawn", call[f].phase = "ready"
  PROVE  /\ Ranked(f, used + 1) /\ used + 1 \in 1 .. Count
         /\ ~Starting /\ ~Spawning(f) /\ ~HasSpawned(f) /\ Between(f) /\ Through(f)
         /\ ~Alone => order.settling /\ \A g \in Flows \ {f} : ~Fresh(g)
         /\ used + 1 = Count => \A g \in Flows \ {f} : Spawning(g)
         /\ (\A g \in Flows \ {f} : ~Pending(g)) => used + 1 = Count /\ OthersHaveSpawned(f)
<1>1. Fresh(f) /\ Between(f) /\ Through(f) /\ ~Spawning(f) /\ ~HasSpawned(f)
  BY DEF Fresh, Between, Through, Spawning, HasSpawned
<1>2. ~Starting
  BY DEF SteadyInv, SteadyPhase
<1>3. ASSUME ~Alone
      PROVE  /\ order.settling /\ \A g \in Flows \ {f} : ~Fresh(g)
             /\ \A g \in Flows : Through(g) => OwnNum(g) <= OwnNum(f)
  BY <1>1, <1>3 DEF SteadyInv, SteadyPass
<1>4. \A g \in Flows \ {f} : ~Between(g)
  BY <1>3 DEF Alone, Fresh
<1>5. /\ Own(f) \in stored /\ \A n \in Undone(order) : OwnNum(f) < n
      /\ MaxSeq \in Nat /\ Count \in Nat /\ used \in Nat /\ used = Cardinality({g \in Flows : Spawning(g)})
  BY <1>1, Counts DEF SteadyInv, SteadyPass, PassInv, TypeOK
<1>6. ASSUME NEW g \in Flows
      PROVE  (Own(g) \in stored /\ OwnNum(g) <= OwnNum(f)) <=> Through(g)
  <2>1. OwnNum(f) \in 0 .. MaxSeq /\ OwnNum(g) \in 0 .. MaxSeq
    BY NumbersAreGiven DEF OwnNum
  <2>2. CASE Through(g)
    <3>1. Own(g) \in stored
      BY <2>2 DEF SteadyInv, SteadyPass
    <3>2. OwnNum(g) <= OwnNum(f)
      <4>1. CASE Alone
        BY <2>1, <4>1, Counts DEF Alone
      <4> QED BY <1>3, <2>2, <4>1
    <3> QED BY <2>2, <3>1, <3>2
  <2>3. CASE ~Through(g) /\ Own(g) \in stored
    <3>1. ~Alone
      BY <1>1, <2>3 DEF Alone
    <3>2. call[g].phase # "failing"
      BY <2>3, CallIs DEF PassInv, SteadyInv, SteadyPhase, Through
    <3>3. OwnNum(g) \in Undone(order)
      BY <2>3, <3>1, <3>2, OwnWaits
    <3> QED BY <1>5, <2>1, <2>3, <3>3
  <2> QED BY <2>2, <2>3
<1>7. Before(f) = {g \in Flows : Through(g)}
  BY <1>6 DEF Before
<1>8. Cardinality(Before(f)) = used + 1 /\ IsFiniteSet(Before(f))
  BY <1>1, <1>4, <1>7, ThroughCounts
<1>9. Ranked(f, used + 1)
  <2>1. ASSUME NEW g \in Flows, call[g].stage = "own", call[g].phase \in {"marking", "storing"}
        PROVE  OwnNum(f) < call[g].num
    BY <1>5, <2>1 DEF PassInv, CallsHold, CallHolds, InQueue
  <2> QED BY <1>5, <1>8, <2>1 DEF Ranked
<1>10. used + 1 \in 1 .. Count
  <2>1. Before(f) \in SUBSET Flows
    BY DEF Before
  <2>2. Cardinality(Before(f)) \in 0 .. Count
    BY <2>1, Counts
  <2> QED BY <1>5, <1>8, <2>2
<1> DEFINE S == {g \in Flows : Spawning(g)}
<1>11. S \subseteq Flows \ {f} /\ IsFiniteSet(Flows \ {f}) /\ Cardinality(Flows \ {f}) = Count - 1 /\ used = Cardinality(S)
  <2>1. S \subseteq Flows \ {f}
    BY <1>1
  <2>2. IsFiniteSet(Flows \ {f}) /\ Cardinality(Flows \ {f}) = Count - 1
    BY Counts, FS_RemoveElement DEF Count
  <2> QED BY <1>5, <2>1, <2>2
<1>12. ASSUME used + 1 = Count PROVE \A g \in Flows \ {f} : Spawning(g)
  <2>1. S = Flows \ {f}
    <3> HIDE DEF S
    <3>1. Cardinality(S) = Cardinality(Flows \ {f})
      BY <1>5, <1>11, <1>12
    <3> QED BY <1>11, <3>1, FS_Subset
  <2> QED BY <2>1
<1>13. ASSUME \A g \in Flows \ {f} : ~Pending(g)
       PROVE  used + 1 = Count /\ OthersHaveSpawned(f)
  <2>1. ASSUME NEW g \in Flows \ {f} PROVE HasSpawned(g) /\ Spawning(g)
    <3>1. ~Alone /\ ~Fresh(g)
      BY <1>3 DEF Alone
    <3>2. call[g].phase \in {"timer", "ready", "parking", "done"}
      BY <1>13 DEF Pending
    <3>3. call[g].stage = "own" => call[g].phase = "ready"
      BY <3>2 DEF SteadyInv, SteadyPhase
    <3>4. call[g].stage = "spawn"
      BY <1>2, <3>3, CallIs DEF PassInv, Starting
    <3>5. call[g].phase \notin {"timer", "parking"}
      BY <3>4 DEF PassInv, CallsHold, CallHolds
    <3> QED BY <3>1, <3>2, <3>4, <3>5 DEF HasSpawned, Spawning, Fresh, Between
  <2>2. S = Flows \ {f}
    BY <1>1, <2>1
  <2>3. used + 1 = Count
    <3> HIDE DEF S
    <3> QED BY <1>5, <1>11, <2>2
  <2> QED BY <2>1, <2>3 DEF OthersHaveSpawned
<1> QED BY <1>1, <1>2, <1>3, <1>9, <1>10, <1>12, <1>13

-----------------------------------------------------------------------------
(* A steady task: the pass, the markers and the numbers awaited            *)

\* Where a recorded spawn's result comes after every own result, it goes on to.
LEMMA CrowdedStays ==
  ASSUME PassInv, SteadyInv, NEW L, Landing(L), NumbersAreNew, Crowded
  PROVE  Crowded'
<1>1. PICK j \in 1 .. Count - 1 : SpawnLater(j)
  BY DEF Crowded
<1>2. j \in 1 .. Count /\ j < Count /\ j # 0 /\ Count \in Nat /\ TypeOK /\ MaxSeq \in Nat /\ order.next \in Nat
  BY Counts, OrderNumbersAre DEF PassInv
<1>3. ASSUME NEW f \in Flows
      PROVE  /\ Own(f) \in stored'
             /\ Spawn(j) \in stored' => OwnNum(f)' < Recorded(Spawn(j))'
             /\ \A g \in Flows : call'[g].use = j /\ call'[g].phase \in {"marking", "storing"} =>
                  OwnNum(f)' < call'[g].num
  <2>1. /\ Own(f) \in stored /\ (Spawn(j) \in stored => OwnNum(f) < Recorded(Spawn(j)))
        /\ \A g \in Flows : call[g].use = j /\ call[g].phase \in {"marking", "storing"} => OwnNum(f) < call[g].num
    BY <1>1 DEF SpawnLater
  <2>2. Own(f) \in stored' /\ OwnNum(f)' = OwnNum(f) /\ OwnNum(f) \in 0 .. MaxSeq /\ OwnNum(f) < order.next
    BY <2>1, OwnLands, NumbersAreGiven DEF OwnNum
  <2>3. ASSUME Spawn(j) \in stored' PROVE OwnNum(f)' < Recorded(Spawn(j))'
    <3>1. CASE Spawn(j) \in stored
      BY <1>2, <2>1, <2>2, <3>1, SpawnLands
    <3>2. CASE Spawn(j) \notin stored
      <4>1. PICK g \in L : /\ call[g].phase = "storing" /\ call[g].stage = "spawn" /\ call[g].use = j
                           /\ j < Count => call[g].beside
                           /\ call[g].beside => Recorded(Spawn(j))' = call[g].num
        BY <1>2, <2>3, <3>2, SpawnLands
      <4>2. g \in Flows
        BY DEF Landing
      <4> QED BY <1>2, <2>1, <2>2, <4>1, <4>2
    <3> QED BY <3>1, <3>2
  <2>4. ASSUME NEW g \in Flows, call'[g].use = j, call'[g].phase \in {"marking", "storing"}
        PROVE  OwnNum(f)' < call'[g].num
    <3>1. CASE call'[g].num \in order.next .. MaxSeq
      BY <1>2, <2>2, <3>1
    <3>2. CASE call'[g].num \notin order.next .. MaxSeq
      BY <2>1, <2>2, <2>4, <3>2 DEF NumbersAreNew
    <3> QED BY <3>1, <3>2
  <2> QED BY <2>2, <2>3, <2>4
<1>4. SpawnLater(j)'
  BY <1>3 DEF SpawnLater
<1> QED BY <1>4 DEF Crowded, Count

\* A key is recorded under the number that its result was stored with.
LEMMA WrittenStays ==
  ASSUME PassInv, SteadyInv, Refused = {}, NEW L, Landing(L), NEW key \in Keys
  PROVE  IF key \in stored' THEN Recorded(key)' = written'[key] ELSE written'[key] = 0
<1>1. /\ TypeOK /\ MaxSeq \in Nat /\ SteadyMarkers /\ L \in SUBSET Flows
      /\ \A f \in L : call[f].phase \in Store \cup {"parking"} /\ f \in Flows
      /\ Lands(L) /\ (L # {} => Quiet)
  BY Counts DEF PassInv, SteadyInv, Landing
<1>2. IF key \in stored THEN Recorded(key) = written[key] ELSE written[key] = 0
  BY <1>1 DEF SteadyMarkers
<1>3. \A f \in Flows : ~IsRefused(f)
  BY DEF IsRefused
<1>4. \A f \in L : call[f].phase \in {"asking", "marking", "storing"} /\ Key(f) \notin stored
  BY <1>1, SteadyLanding
<1>5. \A f \in L : Numbers(f) <=> call[f].phase = "storing" /\ call[f].marked
  BY <1>1, <1>3, <1>4 DEF Numbers, Results
<1>6. \/ written'[key] = written[key] /\ ~\E f \in L : Numbers(f) /\ Key(f) = key
      \/ \E f \in L : Numbers(f) /\ Key(f) = key /\ written'[key] = call[f].num
  BY <1>1, LandsIs
<1>7. CASE key \in stored
  <2>1. written'[key] = written[key]
    BY <1>4, <1>6, <1>7
  <2> QED BY <1>2, <1>7, <2>1, LandedIs, NumbersStay
<1>8. CASE key \notin stored /\ key \notin stored'
  <2>1. ASSUME NEW f \in L, Numbers(f), Key(f) = key PROVE FALSE
    BY <1>1, <1>3, <1>5, <1>8, <2>1, LandedIs
  <2> QED BY <1>2, <1>6, <1>8, <2>1
<1>9. CASE key \notin stored /\ key \in stored'
  <2>1. PICK f \in L : call[f].phase = "storing" /\ Key(f) = key
    BY <1>9, LandedIs
  <2>2. f \in Flows /\ ~Starting /\ call[f].num >= order.firstLive /\ SteadyResult(f) /\ SteadyPhase(f)
    <3>1. f \in Flows /\ ~Starting
      BY <1>1, QuietIsNoStart
    <3> QED BY <2>1, <3>1 DEF PassInv, CallsHold, CallHolds, SteadyInv
  <2>3. call[f].marked = call[f].beside
    BY <2>1, <2>2 DEF SteadyResult
  <2>4. \A g \in L : Key(g) = key => g = f
    <3>1. \A g \in L : call[g].phase \notin {"timer", "ready", "done"} /\ g \in Flows
      BY <1>1, <1>4
    <3> QED BY <2>1, <2>2, <3>1, KeyIs DEF PassInv
  <2>5. \A k \in {Key(f)} :
           /\ call[f].beside => Recorded(k)' = call[f].num
           /\ ~call[f].beside /\ (\A n \in 1 .. MaxSeq : marker[n] # k) => Recorded(k)' = 0
    <3>1. Key(f) \in stored'
      BY <1>9, <2>1
    <3> QED BY <2>1, <3>1, LandsNumbered
  <2>6. CASE call[f].beside
    <3>1. Recorded(key)' = call[f].num
      BY <2>1, <2>5, <2>6
    <3>2. Numbers(f)
      BY <1>5, <2>1, <2>3, <2>6
    <3>3. written'[key] = call[f].num
      BY <1>6, <2>1, <2>4, <3>2
    <3> QED BY <1>9, <3>1, <3>3
  <2>7. CASE ~call[f].beside
    <3>1. \A n \in 1 .. MaxSeq : marker[n] # key
      <4>1. CASE call[f].stage = "own"
        <5>1. Alone
          BY <2>2, <2>7, <4>1 DEF SteadyPhase
        <5> QED BY <5>1, KeysDiffer DEF SteadyInv, SteadyDisk
      <4>2. CASE call[f].stage = "spawn"
        <5>1. call[f].use # 0 /\ Live(f)
          <6>1. call[f].use \in 1 .. used
            BY <2>1, <2>2, <4>2 DEF PassInv, CallsHold, CallHolds
          <6> QED BY <2>1, <6>1 DEF Live, Store
        <5> QED BY <1>1, <2>1, <2>2, <2>7, <5>1 DEF SteadyMarkers
      <4> QED BY <1>1, <2>2, <4>1, <4>2, CallIs
    <3>2. Recorded(key)' = 0
      BY <2>1, <2>5, <2>7, <3>1
    <3>3. written'[key] = written[key]
      <4>1. ASSUME NEW g \in L, Numbers(g), Key(g) = key PROVE FALSE
        BY <1>5, <2>3, <2>4, <2>7, <4>1
      <4> QED BY <1>6, <4>1
    <3> QED BY <1>2, <1>9, <3>2, <3>3
  <2> QED BY <2>6, <2>7
<1> QED BY <1>7, <1>8, <1>9

\* A spawn that begins alone is the last, and no pass marked it: it would have run beside
\* a spawn that this pass has not handed over yet.
LEMMA LastSpawnAlone ==
  ASSUME PassInv, SteadyInv, Refused = {}, ~order.ended, NEW f \in Flows,
         call[f].stage = "spawn", call[f].phase = "ready", \A g \in Flows \ {f} : ~Pending(g)
  PROVE  \A n \in 1 .. MaxSeq : marker[n] # Spawn(used + 1)
<1> SUFFICES ASSUME NEW n \in 1 .. MaxSeq, marker[n] = Spawn(used + 1) PROVE FALSE
  OBVIOUS
<1>1. used + 1 = Count /\ OthersHaveSpawned(f) /\ Between(f) /\ Through(f) /\ used + 1 \in 1 .. Count /\ used \in Nat
  BY NextSpawnIs, Counts DEF PassInv, TypeOK
<1>2. ~Alone /\ SteadyMarkers
  BY KeysDiffer DEF SteadyInv, SteadyDisk
<1>3. PICK j \in 1 .. Count - 1 : SpawnLater(j)
  BY <1>1, <1>2 DEF SteadyMarkers, Crowded
<1>4. j \in 1 .. used
  BY <1>1, <1>3
<1>5. ASSUME NEW g \in Flows, call[g].use = j PROVE call[g].phase \notin {"asking", "marking", "storing", "held", "due"}
  <2>1. CASE g = f
    BY <2>1
  <2>2. CASE g # f
    BY <1>1, <2>2 DEF OthersHaveSpawned, HasSpawned
  <2> QED BY <2>1, <2>2
<1>6. Spawn(j) \in stored /\ Recorded(Spawn(j)) < OwnNum(f)
  BY <1>1, <1>2, <1>4, <1>5 DEF SteadyMarkers
<1>7. OwnNum(f) < Recorded(Spawn(j))
  BY <1>3, <1>6 DEF SpawnLater
<1>8. OwnNum(f) \in 0 .. MaxSeq /\ Recorded(Spawn(j)) \in 0 .. MaxSeq /\ MaxSeq \in Nat
  BY NumbersAreGiven, Counts DEF OwnNum
<1> QED BY <1>6, <1>7, <1>8

\* The last spawn begins beside one that is handed over after every own result.
LEMMA LastSpawnBeside ==
  ASSUME PassInv, SteadyInv, Refused = {}, ~order.ended, NEW f \in Flows,
         call[f].stage = "spawn", call[f].phase = "ready", NEW g \in Flows \ {f}, Pending(g), used + 1 = Count
  PROVE  Crowded
<1> DEFINE j == call[g].use
<1>1. ~Alone /\ ~Fresh(g) /\ Spawning(g) /\ Spawning(f) = FALSE /\ used + 1 \in 1 .. Count /\ used \in Nat
      /\ Count \in Nat
  BY NextSpawnIs, Counts DEF Alone, PassInv, TypeOK
<1>2. /\ TypeOK /\ IsOrder(order, MaxSeq) /\ MaxSeq \in Nat /\ CallHolds(g) /\ SteadyResult(g) /\ SteadySpawn(g)
      /\ SteadyMarkers /\ SteadyPhase(g)
  BY Counts DEF PassInv, CallsHold, SteadyInv
<1>3. /\ call[g].stage = "spawn" /\ call[g].phase \in {"asking", "marking", "storing", "held", "due"}
      /\ Key(g) = Spawn(j)
  <2>1. call[g].stage = "spawn"
    BY <1>1 DEF Spawning
  <2>2. call[g].phase \notin {"timer", "ready", "parking", "done", "handed", "joining", "reserving", "leaving"}
    BY <1>1, <1>2, <2>1 DEF Pending, Fresh, CallHolds, SteadyPhase
  <2>3. call[g].phase # "failing"
    BY <1>2 DEF SteadyMarkers
  <2> QED BY <1>2, <2>1, <2>2, <2>3, CallIs DEF Key, Store, Microtask
<1>4. j \in 1 .. used /\ j \in 1 .. Count - 1 /\ j # 0
  BY <1>1, <1>2, <1>3 DEF CallHolds
<1>5. ASSUME NEW h \in Flows PROVE Own(h) \in stored /\ \A m \in Undone(order) : OwnNum(h) < m
  <2>1. Through(h)
    <3>1. CASE h = f
      BY <3>1 DEF Through
    <3>2. CASE h # f
      BY <3>2, NextSpawnIs DEF Spawning, Through
    <3> QED BY <3>1, <3>2
  <2> QED BY <2>1 DEF SteadyInv, SteadyPass
<1>6. ASSUME Spawn(j) \in stored PROVE Recorded(Spawn(j)) \in Undone(order)
  <2>1. call[g].phase \in {"held", "due"}
    BY <1>2, <1>3, <1>6 DEF SteadyResult
  <2>2. call[g].num \in Undone(order)
    BY <1>2, <2>1 DEF CallHolds, InQueue
  <2>3. call[g].num < order.firstLive \/ call[g].marked
    <3> SUFFICES ASSUME ~(call[g].num < order.firstLive) PROVE call[g].marked
      OBVIOUS
    <3>1. call[g].num \in Nat /\ order.firstLive \in Nat
      BY <1>2, CallIs, OrderNumbersAre
    <3>2. call[g].num >= order.firstLive /\ Live(g)
      BY <3>1 DEF Live
    <3>3. call[g].beside
      <4>1. ~HasSpawned(f) /\ f \in Flows \ {g}
        BY DEF HasSpawned
      <4> QED BY <1>2, <1>4, <3>2, <4>1 DEF SteadySpawn, OthersHaveSpawned
    <3> QED BY <1>2, <2>1, <3>2, <3>3 DEF SteadyResult
  <2> QED BY <1>2, <1>3, <2>1, <2>2, <2>3 DEF SteadyResult
<1>7. ASSUME NEW h \in Flows, NEW i \in Flows, call[i].use = j, call[i].phase \in {"marking", "storing"}
      PROVE  OwnNum(h) < call[i].num
  BY <1>5, <1>7 DEF PassInv, CallsHold, CallHolds, InQueue
<1>8. SpawnLater(j)
  BY <1>5, <1>6, <1>7 DEF SpawnLater
<1> QED BY <1>4, <1>8 DEF Crowded

\* Phases of a call whose result the task will still get.
Coming == {"asking", "marking", "storing", "held", "due"}

\* Flow f goes on with its call.
GoesOn(f) ==
  /\ call'[f].stage = call[f].stage /\ call'[f].use = call[f].use /\ call'[f].beside = call[f].beside
  /\ call[f].phase \notin {"timer", "ready", "done"}
  /\ (Live(f)' => Live(f)) /\ (call'[f].phase \in Store => call[f].phase \in Store)
  /\ used' = used

\* Flow f begins its spawn.
BeginsSpawn(f) ==
  /\ call[f].stage = "spawn" /\ call[f].phase = "ready"
  /\ call'[f].stage = "spawn" /\ call'[f].use = used + 1 /\ used' = used + 1
  /\ call'[f].beside = (\E g \in Flows \ {f} : Pending(g))
  /\ UNCHANGED disk /\ (order.ended => ~Live(f)')

\* The result of flow f's spawn reaches it as the next of the queue, or was never recorded.
SpawnHanded(f) ==
  /\ Spawn(call'[f].use) \in stored'
  /\ \/ Recorded(Spawn(call[f].use))' = 0
     \/ /\ ~order.settling
        /\ IsNext(order, Recorded(Spawn(call[f].use))')
        /\ Recorded(Spawn(call[f].use))' \notin Undone(order')

\* Every spawn of the pass is coming, or came before the own results that follow.
LEMMA SpawnsStay ==
  ASSUME PassInv, PassInv', SteadyInv, SteadyDisk', Refused = {}, ~Alone, ~order'.ended, SteadyPass',
         NEW f \in Flows \cup {0}, NEW L, Moved(f, L), NEW n, NEW w, Moves(order, order', n, w),
         f \in Flows => /\ Fresh(f)' /\ ~Fresh(f) => HandedOver(f)
                        /\ Between(f)' => Between(f) \/ ~Fresh(f)
                        /\ \/ call'[f].use = 0 /\ used' = used /\ call[f].phase \notin Coming
                           \/ call'[f].use = 0 /\ used' = used /\ call[f].use = 0
                           \/ GoesOn(f) \/ BeginsSpawn(f)
                        /\ call'[f].use # 0 /\ call[f].phase # "handed" =>
                             call'[f].phase \in Coming \/ (call'[f].phase = "handed" /\ SpawnHanded(f)),
         f \notin Flows => used' = used,
         NEW j \in 1 .. used'
  PROVE  \/ \E g \in Flows : call'[g].use = j /\ call'[g].phase \in Coming
         \/ /\ Spawn(j) \in stored'
            /\ \A m \in Undone(order') : Recorded(Spawn(j))' < m
            /\ \A g \in Flows : Between(g)' => Recorded(Spawn(j))' < OwnNum(g)'
<1>1. /\ ~order.ended /\ SteadyMarkers /\ SteadyPass /\ Landing(L) /\ MaxSeq \in Nat /\ used \in Nat /\ used' \in Nat
      /\ Count \in Nat /\ used' <= Count /\ TypeOK /\ IsOrder(order', MaxSeq)
  BY Counts DEF Moved, SteadyInv, PassInv, TypeOK, Count
<1>2. j \in 1 .. Count /\ j # 0
  BY <1>1
<1>3. ASSUME NEW g \in Flows, Between(g)' PROVE OwnNum(g)' \in Nat /\ OwnNum(g)' # 0
  <2>1. Own(g) \in stored'
    BY <1>3 DEF SteadyPass, Between, Through
  <2>2. OwnNum(g)' # 0
    BY <2>1 DEF SteadyDisk, Alone
  <2>3. OwnNum(g)' \in 0 .. MaxSeq
    BY NumberIs DEF PassInv, TypeOK, OwnNum, Recorded, MaxSeq
  <2> QED BY <1>1, <2>2, <2>3
<1>4. ASSUME f \in Flows, call'[f].use = j, call'[f].phase = "handed", SpawnHanded(f)
      PROVE  /\ Spawn(j) \in stored'
             /\ \A m \in Undone(order') : Recorded(Spawn(j))' < m
             /\ \A g \in Flows : Between(g)' => Recorded(Spawn(j))' < OwnNum(g)'
  <2> DEFINE r == Recorded(Spawn(j))'
  <2>1. /\ Spawn(j) \in stored'
        /\ r = 0 \/ (~order.settling /\ IsNext(order, r) /\ r \notin Undone(order'))
    <3>1. \A k \in {j} : k = call'[f].use => Recorded(Spawn(k))' = Recorded(Spawn(call[f].use))'
      BY DEF Recorded, NumberOf, Spawn
    <3> QED BY <1>4, <3>1 DEF SpawnHanded
  <2>2. CASE r = 0
    <3>1. \A m \in Undone(order') : 0 < m
      BY <1>1, UndoneIs
    <3> QED BY <1>3, <2>1, <2>2, <3>1
  <2>3. CASE ~order.settling /\ IsNext(order, r) /\ r \notin Undone(order')
    <3>1. r \in 0 .. MaxSeq /\ r < order.next
      BY <1>1, <2>3, UndoneIs DEF IsNext, PassInv
    <3>2. \A m \in Undone(order') : r < m
      <4> HIDE DEF r
      <4> QED BY <1>1, <2>3, <3>1, FirstStays
    <3>3. ASSUME NEW g \in Flows, Between(g)' PROVE FALSE
      <4>1. call'[f].stage = "spawn"
        <5>1. call'[f].use = 0 \/ call'[f].stage \in {"own", "spawn"}
          BY <1>4, CallIs DEF PassInv, TypeOK, Calls
        <5>2. CallHolds(f)'
          BY <1>4 DEF PassInv, CallsHold
        <5>3. call'[f].stage = "own" => call'[f].use = 0
          BY <5>2 DEF CallHolds
        <5> QED BY <1>2, <1>4, <5>1, <5>3
      <4>2. g # f
        BY <1>4, <3>3, <4>1 DEF Between
      <4>3. Between(g)
        BY <3>3, <4>2, OtherIs
      <4> QED BY <1>1, <2>3, <4>3 DEF SteadyPass, Fresh
    <3> QED BY <2>1, <3>2, <3>3
  <2> QED BY <2>1, <2>2, <2>3
<1>5. CASE j \in 1 .. used
  <2>1. CASE \E g \in Flows : call[g].use = j /\ call[g].phase \in Coming
    <3>1. PICK g \in Flows : call[g].use = j /\ call[g].phase \in Coming
      BY <2>1
    <3>2. CASE g # f
      <4>1. call'[g].use = j /\ call'[g].phase \in Coming
        BY <3>1, <3>2, OtherIs DEF Coming
      <4> QED BY <4>1
    <3>3. CASE g = f
      <4>1. GoesOn(f) /\ call'[f].use = j
        <5>1. ~BeginsSpawn(f)
          BY <3>1, <3>3 DEF BeginsSpawn, Coming
        <5>2. GoesOn(f)
          BY <1>2, <3>1, <3>3, <5>1
        <5> QED BY <3>1, <3>3, <5>2 DEF GoesOn
      <4>2. call'[f].phase \in Coming \/ (call'[f].phase = "handed" /\ SpawnHanded(f))
        BY <1>2, <3>1, <3>3, <4>1 DEF Coming
      <4> QED BY <1>4, <3>3, <4>1, <4>2
    <3> QED BY <3>2, <3>3
  <2>2. CASE ~\E g \in Flows : call[g].use = j /\ call[g].phase \in Coming
    <3>1. /\ Spawn(j) \in stored
          /\ \A m \in Undone(order) : Recorded(Spawn(j)) < m
          /\ \A g \in Flows : Between(g) => Recorded(Spawn(j)) < OwnNum(g)
      BY <1>1, <1>5, <2>2 DEF SteadyMarkers, Coming
    <3>2. Spawn(j) \in stored' /\ Recorded(Spawn(j))' = Recorded(Spawn(j))
      BY <1>1, <1>2, <3>1, SpawnLands
    <3>3. Recorded(Spawn(j)) \in 0 .. MaxSeq /\ Recorded(Spawn(j)) < order.next
      BY NumbersAreGiven
    <3>4. \A m \in Undone(order') : Recorded(Spawn(j)) < m
      BY <1>1, <3>1, <3>3, FirstStays
    <3>5. ASSUME NEW g \in Flows, Between(g)' PROVE Recorded(Spawn(j)) < OwnNum(g)'
      <4>1. CASE Between(g)
        <5>1. Own(g) \in stored
          BY <1>1, <4>1 DEF SteadyPass, Between, Through
        <5>2. OwnNum(g)' = OwnNum(g)
          BY <1>1, <5>1, OwnLands
        <5> QED BY <3>1, <4>1, <5>2
      <4>2. CASE ~Between(g)
        <5>1. g = f
          BY <3>5, <4>2, OtherIs
        <5>2. Fresh(f)' /\ ~Fresh(f) /\ HandedOver(f)
          BY <3>5, <4>2, <5>1 DEF Fresh
        <5>3. call'[f].phase = "handed" /\ call'[f].stage = "own" /\ call[f].stage = "own"
          BY <3>5, <5>1, <5>2 DEF HandedOver, Between
        <5>4. IsNext(order, OwnNum(f)')
          BY <5>2, <5>3 DEF HandedOver
        <5>5. OwnNum(f)' \in Undone(order)
          BY <5>4 DEF IsNext
        <5> QED BY <3>1, <5>1, <5>5
      <4> QED BY <4>1, <4>2
    <3> QED BY <3>2, <3>4, <3>5
  <2> QED BY <2>1, <2>2
<1>6. CASE j \notin 1 .. used
  <2>1. f \in Flows /\ BeginsSpawn(f) /\ j = used + 1
    <3>1. used' # used
      BY <1>1, <1>6
    <3>2. f \in Flows /\ BeginsSpawn(f)
      BY <3>1 DEF GoesOn
    <3>3. used' = used + 1
      BY <3>2 DEF BeginsSpawn
    <3> QED BY <1>1, <1>6, <3>2, <3>3
  <2>2. call'[f].use = j /\ call[f].phase = "ready"
    BY <2>1 DEF BeginsSpawn
  <2>3. call'[f].phase \in Coming \/ (call'[f].phase = "handed" /\ SpawnHanded(f))
    BY <1>2, <2>1, <2>2
  <2> QED BY <1>4, <2>1, <2>2, <2>3
<1> QED BY <1>5, <1>6

\* Where no result is refused, the markers of a steady task go on naming results.
LEMMA MarkersStay ==
  ASSUME PassInv, PassInv', SteadyInv, SteadyDisk', Refused = {}, ~order'.ended => SteadyPass',
         NEW f \in Flows \cup {0}, NEW L, Moved(f, L), NEW n, NEW w, Moves(order, order', n, w),
         f \in Flows => /\ call'[f].phase = "failing" => order'.ended
                        /\ \/ call'[f].use = 0 /\ used' = used /\ call[f].phase \notin Coming
                           \/ call'[f].use = 0 /\ used' = used /\ call[f].use = 0
                           \/ GoesOn(f) \/ BeginsSpawn(f),
         f \in Flows /\ ~order'.ended =>
           /\ Fresh(f)' /\ ~Fresh(f) => HandedOver(f)
           /\ Between(f)' => Between(f) \/ ~Fresh(f)
           /\ call'[f].use # 0 /\ call[f].phase # "handed" =>
                call'[f].phase \in Coming \/ (call'[f].phase = "handed" /\ SpawnHanded(f)),
         f \notin Flows => used' = used
  PROVE  SteadyMarkers'
<1>1. /\ SteadyMarkers /\ Landing(L) /\ L \subseteq {f} /\ L \subseteq Flows /\ MaxSeq \in Nat /\ Count \in Nat
      /\ NumbersAreNew /\ TypeOK /\ (order.ended => order'.ended) /\ 0 \notin Flows
  BY Counts DEF Moved, SteadyInv, PassInv, Landing
<1>2. \A key \in Keys : IF key \in stored' THEN Recorded(key)' = written'[key] ELSE written'[key] = 0
  BY <1>1, WrittenStays
<1>3. Crowded => Crowded'
  BY <1>1, CrowdedStays
<1>4. ASSUME NEW g \in Flows, call'[g].phase = "failing" PROVE order'.ended
  <2>1. CASE g = f
    BY <1>4, <2>1
  <2>2. CASE g # f
    <3>1. call[g].phase = "failing"
      BY <1>4, <2>2, OtherIs
    <3> QED BY <1>1, <3>1 DEF SteadyMarkers
  <2> QED BY <2>1, <2>2
<1>5. ASSUME NEW g \in Flows, call[g].use # 0, ~call[g].beside, Live(g), call[g].phase \notin {"timer", "ready", "done"}
      PROVE  \A i \in 1 .. MaxSeq : marker'[i] # Key(g)
  <2> SUFFICES ASSUME NEW i \in 1 .. MaxSeq, marker'[i] = Key(g) PROVE FALSE
    OBVIOUS
  <2>1. marker[i] # Key(g)
    BY <1>1, <1>5 DEF SteadyMarkers
  <2>2. PICK h \in L : call[h].phase = "marking" /\ Key(h) = Key(g)
    BY <2>1, <1>1, LandedIs
  <2>3. h \in Flows /\ call[h].phase \notin {"timer", "ready", "done"}
    BY <1>1, <2>2
  <2>4. h = g
    BY <1>5, <2>2, <2>3, KeyIs DEF PassInv
  <2> QED BY <1>5, <2>2, <2>3, <2>4 DEF SteadyInv, SteadyPhase
<1>6. ASSUME NEW g \in Flows, call'[g].use # 0, ~call'[g].beside, Live(g)'
      PROVE  \A i \in 1 .. MaxSeq : marker'[i] # Key(g)'
  <2>1. CASE g # f
    <3>1. /\ call[g].use # 0 /\ ~call[g].beside /\ Live(g) /\ Key(g)' = Key(g)
      BY <1>6, <2>1, OtherIs
    <3>2. call[g].phase \notin {"timer", "ready", "done"}
      BY <3>1, CallIs DEF PassInv, CallsHold, CallHolds
    <3> QED BY <1>5, <3>1, <3>2
  <2>2. CASE g = f /\ GoesOn(f)
    <3>1. /\ call[g].use # 0 /\ ~call[g].beside /\ Live(g) /\ Key(g)' = Key(g)
          /\ call[g].phase \notin {"timer", "ready", "done"}
      BY <1>6, <2>2 DEF GoesOn, Key, Own, Spawn
    <3> QED BY <1>5, <3>1
  <2>3. CASE g = f /\ BeginsSpawn(f)
    <3>1. /\ call[f].stage = "spawn" /\ call[f].phase = "ready" /\ \A h \in Flows \ {f} : ~Pending(h)
          /\ marker' = marker /\ Key(g)' = Spawn(used + 1) /\ ~order.ended
      BY <1>6, <2>3 DEF BeginsSpawn, Key, Spawn, disk
    <3> QED BY <1>6, <2>3, <3>1, LastSpawnAlone
  <2> QED BY <1>6, <2>1, <2>2, <2>3
<1>7. ASSUME NEW g \in Flows, call'[g].use = Count, call'[g].beside, call'[g].phase \in Store
      PROVE  Crowded'
  <2>1. Count # 0 /\ call'[g].use # 0
    <3>1. Flows # {}
      OBVIOUS
    <3>2. Count # 0
      BY <3>1, Counts, FS_EmptySet DEF Count
    <3> QED BY <1>7, <3>2
  <2>2. CASE g # f
    <3>1. call[g].use = Count /\ call[g].phase \in Store /\ Live(g)
      <4>1. call[g].use = Count /\ Live(g)' = Live(g)
        BY <1>7, <2>2, OtherIs
      <4>2. call[g].phase = call'[g].phase \/ (call[g].phase = "held" /\ call'[g].phase = "due")
        BY <2>2, OtherIs
      <4>3. call[g].phase \in Store
        BY <1>7, <4>2 DEF Store
      <4> QED BY <4>1, <4>3 DEF Live
    <3>2. call[g].beside
      BY <1>7, <2>1, <2>2, <3>1, LiveAlone
    <3> QED BY <1>1, <1>3, <3>1, <3>2 DEF SteadyMarkers
  <2>3. CASE g = f /\ GoesOn(f)
    BY <1>1, <1>3, <1>7, <2>3 DEF SteadyMarkers, GoesOn
  <2>4. CASE g = f /\ BeginsSpawn(f)
    <3>1. /\ call[f].stage = "spawn" /\ call[f].phase = "ready" /\ ~order.ended /\ used + 1 = Count
          /\ \E h \in Flows \ {f} : Pending(h)
      BY <1>7, <2>4 DEF BeginsSpawn, Live
    <3> QED BY <1>3, <1>7, <2>4, <3>1, LastSpawnBeside
  <2> QED BY <1>7, <2>1, <2>2, <2>3, <2>4
<1>8. ASSUME NEW i \in 1 .. MaxSeq, marker'[i] = Spawn(Count) PROVE Crowded'
  <2>1. CASE marker[i] = Spawn(Count)
    BY <1>1, <1>3, <2>1 DEF SteadyMarkers
  <2>2. CASE marker[i] # Spawn(Count)
    <3>1. PICK h \in L : call[h].phase = "marking" /\ Key(h) = Spawn(Count)
      BY <1>1, <1>8, <2>2, LandedIs
    <3>2. h \in Flows /\ call[h].use = Count /\ call[h].phase \in Store
      <4>1. call[h].stage # "own"
        BY <3>1, KeysDiffer DEF Key
      <4> QED BY <1>1, <3>1, <4>1, KeysDiffer DEF Key, Store
    <3>3. call[h].beside
      BY <3>1, <3>2 DEF SteadyInv, SteadyPhase
    <3> QED BY <1>1, <1>3, <3>2, <3>3 DEF SteadyMarkers
  <2> QED BY <2>1, <2>2
<1>9. ASSUME ~order'.ended, ~Alone, NEW j \in 1 .. used'
      PROVE  \/ \E g \in Flows : call'[g].use = j /\ call'[g].phase \in Coming
             \/ /\ Spawn(j) \in stored'
                /\ \A m \in Undone(order') : Recorded(Spawn(j))' < m
                /\ \A g \in Flows : Between(g)' => Recorded(Spawn(j))' < OwnNum(g)'
  BY <1>9, SpawnsStay
<1> QED BY <1>2, <1>4, <1>6, <1>7, <1>8, <1>9 DEF SteadyMarkers, Coming, Alone, Count

\* The invariant goes on to hold in a step of flow f, if it does of f.
LEMMA SteadyStays ==
  ASSUME PassInv, PassInv', SteadyInv, NEW f \in Flows \cup {0}, NEW L, Moved(f, L),
         NEW n, NEW w, Moves(order, order', n, w),
         (Undone(order) \ {n}) \ Undone(order') = {},
         order'.open = order'.ended, order'.ended => order.ended \/ ~Starting, cut' = cut, wake' = 0,
         f \in Flows => SteadyPhase(f)' /\ SteadyResult(f)' /\ SteadySpawn(f)',
         f \in Flows /\ call[f].phase \in {"held", "due"} => call[f].num \notin Undone(order'),
         \A key \in ToCome \ ToCome' :
           \/ Recorded(key) = 0 \/ Recorded(key) \notin Undone(order')
           \/ f \in Flows /\ call'[f].phase = "held" /\ call'[f].num = Recorded(key),
         ~order'.ended =>
           /\ order.settling => order'.settling \/ \A g \in Flows : ~Fresh(g)
           /\ used' = used + IF f \in Flows /\ Spawning(f)' /\ ~Spawning(f) THEN 1 ELSE 0,
         f \in Flows /\ ~order'.ended =>
           /\ Through(f)' => Through(f) \/ (Fresh(f)' /\ ~Fresh(f))
           /\ Fresh(f)' /\ ~Fresh(f) => HandedOver(f)
           /\ Between(f)' => Between(f) \/ ~Fresh(f)
           /\ Refused = {} /\ call'[f].use # 0 /\ call[f].phase # "handed" =>
                call'[f].phase \in Coming \/ (call'[f].phase = "handed" /\ SpawnHanded(f)),
         f \in Flows => /\ Refused = {} /\ call'[f].phase = "failing" => order'.ended
                        /\ \/ call'[f].use = 0 /\ used' = used /\ call[f].phase \notin Coming
                           \/ call'[f].use = 0 /\ used' = used /\ call[f].use = 0
                           \/ GoesOn(f) \/ BeginsSpawn(f),
         f \notin Flows => used' = used,
         UNCHANGED given
  PROVE  SteadyInv'
<1>1. Landing(L) /\ NumbersAreNew /\ IsOrder(order', MaxSeq) /\ IsOrder(order, MaxSeq) /\ MaxSeq' = MaxSeq
  BY DEF Moved, PassInv, MaxSeq
<1>2. SteadyDisk'
  BY <1>1, DiskStays
<1>3. \A g \in Flows : SteadyPhase(g)' /\ SteadyResult(g)' /\ SteadySpawn(g)'
  BY OthersPhase, OthersResult, OthersSpawn
<1>4. order'.skipped = {}
  BY DEF Moves, SteadyInv
<1>5. Starting' => ~order'.ended
  BY StartEnds DEF SteadyInv
<1>6. Awaited'
  BY <1>1, AwaitedStays
<1>7. ~order'.ended => SteadyPass'
  BY <1>1, PassStays
<1>8. Refused = {} => SteadyMarkers'
  BY <1>2, <1>7, MarkersStay
<1>9. Refused' = Refused
  BY DEF Refused
<1>10. ~cut' /\ wake' = 0
  BY DEF SteadyInv
<1> QED BY <1>2, <1>3, <1>4, <1>5, <1>6, <1>7, <1>8, <1>9, <1>10 DEF SteadyInv

\* What the disk and the pass are as a pass starts.
PassStarts ==
  /\ TypeOK /\ SteadyDisk /\ ~cut /\ wake = 0 /\ used = 0
  /\ order.skipped = {} /\ ~order.open /\ ~order.ended /\ order.firstLive \in Nat /\ 1 <= order.firstLive
  /\ Undone(order) = RecordedNumbers(marker, stored)
  /\ \A f \in Flows : call[f] = Call("own", "ready")
  /\ Refused = {} =>
       /\ \A key \in Keys : IF key \in stored THEN Recorded(key) = written[key] ELSE written[key] = 0
       /\ (\E n \in 1 .. MaxSeq : marker[n] = Spawn(Count)) => Crowded

\* A pass starts with the invariant.
LEMMA SteadyStarts == PassStarts => SteadyInv
<1> SUFFICES ASSUME PassStarts PROVE SteadyInv
  OBVIOUS
<1>0. /\ TypeOK /\ SteadyDisk /\ ~cut /\ wake = 0 /\ used = 0
      /\ order.skipped = {} /\ ~order.open /\ ~order.ended /\ order.firstLive \in Nat /\ 1 <= order.firstLive
      /\ Undone(order) = RecordedNumbers(marker, stored)
      /\ \A f \in Flows : call[f] = Call("own", "ready")
  BY DEF PassStarts
<1>1. \A f \in Flows : /\ call[f].stage = "own" /\ call[f].phase = "ready" /\ call[f].use = 0 /\ call[f].num = 0
                       /\ ~call[f].marked /\ ~call[f].beside
  BY <1>0 DEF Call
<1>2. \A f \in Flows : Starting /\ ~Pending(f) /\ ~Through(f) /\ ~Fresh(f) /\ ~Spawning(f) /\ ~Between(f)
  BY <1>1 DEF Starting, Pending, Through, Fresh, Spawning, Between
<1>3. ASSUME NEW f \in Flows PROVE SteadyPhase(f) /\ SteadyResult(f) /\ SteadySpawn(f)
  BY <1>0, <1>1, <1>2 DEF SteadyPhase, SteadyResult, SteadySpawn
<1>4. Awaited
  <2> SUFFICES ASSUME NEW n \in Undone(order) PROVE \E key \in ToCome : Recorded(key) = n
    BY DEF Awaited
  <2>1. PICK key \in Keys : Recorded(key) = n
    BY <1>0 DEF RecordedNumbers, Recorded
  <2>2. key \in ToCome
    <3>1. used + 1 = 1
      BY <1>0
    <3> QED BY <1>1, <2>1, <3>1 DEF Keys, ToCome, Count
  <2> QED BY <2>1, <2>2
<1>5. SteadyPass
  <2>1. {f \in Flows : Spawning(f)} = {}
    BY <1>2
  <2>2. used = Cardinality({f \in Flows : Spawning(f)})
    BY <1>0, <2>1, FS_EmptySet
  <2> QED BY <1>2, <2>2 DEF SteadyPass
<1>6. Refused = {} => SteadyMarkers
  <2> SUFFICES ASSUME Refused = {} PROVE SteadyMarkers
    OBVIOUS
  <2>1. /\ \A key \in Keys : IF key \in stored THEN Recorded(key) = written[key] ELSE written[key] = 0
        /\ (\E n \in 1 .. MaxSeq : marker[n] = Spawn(Count)) => Crowded
    BY DEF PassStarts
  <2>2. \A f \in Flows : call[f].phase # "failing" /\ call[f].use = 0 /\ call[f].phase \notin Store
    BY <1>1 DEF Store
  <2>3. \A j \in 1 .. used : FALSE
    BY <1>0
  <2>4. ASSUME NEW f \in Flows
        PROVE  /\ call[f].phase = "failing" => order.ended
               /\ call[f].use # 0 /\ ~call[f].beside /\ Live(f) => \A n \in 1 .. MaxSeq : marker[n] # Key(f)
               /\ call[f].use = Count /\ call[f].beside /\ call[f].phase \in Store => Crowded
    BY <2>2
  <2> QED BY <2>1, <2>3, <2>4 DEF SteadyMarkers
<1>7. order.open = order.ended
  BY <1>0 DEF TypeOK, Orders
<1> QED BY <1>0, <1>3, <1>4, <1>5, <1>6, <1>7 DEF SteadyInv

\* A steady task starts steady.
LEMMA SteadyInit == Init /\ Steady => SteadyInv
<1> SUFFICES ASSUME Init, Steady PROVE SteadyInv
  OBVIOUS
<1>1. PassInv /\ TypeOK
  BY InitHolds DEF PassInv
<1>2. \A f \in Flows : call[f] = Call("own", "ready")
  BY DEF Init, Steady, StartCall
<1>3. \A key : Recorded(key) = 0
  BY DEF Init, Recorded, NumberOf
<1>4. \A key \in Keys : key # NoKey
  BY KeysDiffer
<1>5. SteadyDisk
  <2>1. Count \in Nat /\ \A k \in 1 .. Count : Spawn(k) # NoKey
    BY Counts, KeysDiffer
  <2> QED BY <2>1 DEF Init, SteadyDisk, Count
<1>6. order = NewOrder(<<>>, 0) /\ RecordedNumbers(marker, stored) = {}
  BY <1>3 DEF Init, RecordedNumbers, Recorded
<1>7. Undone(order) = {}
  BY <1>6 DEF NewOrder, Undone
<1>8. order.skipped = {} /\ ~order.open /\ ~order.ended /\ order.firstLive = 1
  BY <1>6 DEF NewOrder
<1>9. \A n \in 1 .. MaxSeq : marker[n] # Spawn(Count)
  BY KeysDiffer DEF Init
<1>10. ASSUME NEW key \in Keys PROVE IF key \in stored THEN Recorded(key) = written[key] ELSE written[key] = 0
  BY DEF Init
<1>11. ~cut /\ wake = 0 /\ used = 0
  BY DEF Init
<1>12. PassStarts
  BY <1>1, <1>2, <1>5, <1>6, <1>7, <1>8, <1>9, <1>10, <1>11 DEF PassStarts
<1> QED BY <1>12, SteadyStarts

\* A new pass of a steady task finds on the disk what the passes agree on.
LEMMA SteadyNewPass ==
  ASSUME PassInv, PassInv', Steady, SteadyInv, NewPass, UNCHANGED given
  PROVE  SteadyInv'
<1>1. PICK L : Landing(L)
  BY DEF NewPass, Landing
<1>2. /\ \A f \in Flows : call'[f] = Call("own", "ready")
      /\ used' = 0 /\ order' = ReadOrder(marker', stored')
  <2>1. Late = {} /\ ~MayDiffer
    BY DEF Steady
  <2> QED BY <2>1 DEF NewPass, StartCall
<1>3. NumbersAreNew
  BY <1>2 DEF NumbersAreNew, Call
<1>4. SteadyDisk'
  BY <1>1, <1>3, DiskStays
<1>5. ~cut' /\ wake' = 0
  BY DEF NewPass, SteadyInv, Steady
<1>6. PICK h \in 0 .. MaxSeq :
        /\ order'.firstLive = h + 1 /\ ~order'.open /\ ~order'.ended /\ order'.skipped = {}
        /\ Undone(order') = RecordedNumbers(marker', stored')
  <2>1. marker' \in [1 .. MaxSeq -> Keys \cup {NoKey}]
    BY <1>1, LandedIs
  <2> QED BY <1>2, <2>1, ReadOrderIs
<1>7. order'.firstLive \in Nat /\ 1 <= order'.firstLive
  BY <1>6, Counts
<1>8. ASSUME Refused' = {}
      PROVE  /\ \A key \in Keys : IF key \in stored' THEN Recorded(key)' = written'[key] ELSE written'[key] = 0
             /\ (\E n \in 1 .. MaxSeq : marker'[n] = Spawn(Count)) => Crowded'
  <2>1. Refused = {} /\ SteadyMarkers
    BY <1>8 DEF Refused, SteadyInv
  <2>2. \A key \in Keys : IF key \in stored' THEN Recorded(key)' = written'[key] ELSE written'[key] = 0
    BY <1>1, <2>1, WrittenStays
  <2>3. ASSUME NEW i \in 1 .. MaxSeq, marker'[i] = Spawn(Count) PROVE Crowded
    <3>1. CASE marker[i] = Spawn(Count)
      BY <2>1, <3>1 DEF SteadyMarkers
    <3>2. CASE marker[i] # Spawn(Count)
      <4>1. PICK g \in L : call[g].phase = "marking" /\ Key(g) = Spawn(Count)
        BY <1>1, <2>3, <3>2, LandedIs
      <4>2. g \in Flows /\ call[g].use = Count /\ call[g].phase \in Store
        <5>1. call[g].stage # "own"
          BY <4>1, KeysDiffer DEF Key
        <5> QED BY <1>1, <4>1, <5>1, KeysDiffer DEF Key, Store, Landing
      <4>3. call[g].beside
        BY <4>1, <4>2 DEF SteadyInv, SteadyPhase
      <4> QED BY <2>1, <4>2, <4>3 DEF SteadyMarkers
    <3> QED BY <3>1, <3>2
  <2> QED BY <1>1, <1>3, <2>2, <2>3, CrowdedStays
<1>9. PassStarts'
  BY <1>2, <1>4, <1>5, <1>6, <1>7, <1>8 DEF PassStarts, PassInv, Count, Crowded
<1> QED BY <1>9, SteadyStarts, PTL

-----------------------------------------------------------------------------
(* A steady task: the steps, one lemma for each                            *)

\* The calls of the other flows run beside another from when one joins them.
LEMMA StepBeside ==
  ASSUME NEW f \in Flows, NEW calls, NEW c, NEW o, Step(calls, f, c, o), NEW g \in Flows \ {f},
         call[g] \in Calls
  PROVE  /\ calls = call => call'[g].beside = call[g].beside
         /\ calls = Joined(f) => call'[g].beside = (call[g].beside \/ Pending(g))
<1>1. call'[g] = Woken(calls, order')[g]
  BY DEF Step, Woken
<1>2. call'[g] \in {calls[g], [calls[g] EXCEPT !.phase = "due"]}
  BY <1>1 DEF Woken
<1>3. CASE calls = call
  <2>1. call'[g] \in {call[g], [call[g] EXCEPT !.phase = "due"]}
    BY <1>2, <1>3
  <2>2. call'[g].beside = call[g].beside
    BY <2>1 DEF Calls
  <2>3. calls = Joined(f) => call'[g].beside = (call[g].beside \/ Pending(g))
    <3>1. CASE Pending(g)
      <4>1. Joined(f)[g] = [call[g] EXCEPT !.beside = TRUE]
        BY <3>1 DEF Joined
      <4>2. calls = Joined(f) => call[g] = [call[g] EXCEPT !.beside = TRUE]
        BY <1>3, <4>1
      <4>3. calls = Joined(f) => call[g].beside
        BY <4>2 DEF Calls
      <4> QED BY <2>2, <3>1, <4>3
    <3>2. CASE ~Pending(g)
      BY <2>2, <3>2 DEF Calls
    <3> QED BY <3>1, <3>2
  <2> QED BY <2>2, <2>3
<1>4. CASE calls = Joined(f)
  <2>1. calls[g] = IF Pending(g) THEN [call[g] EXCEPT !.beside = TRUE] ELSE call[g]
    BY <1>4 DEF Joined
  <2>2. CASE Pending(g)
    <3> DEFINE b == [call[g] EXCEPT !.beside = TRUE]
    <3>1. b \in Calls /\ b.beside
      BY DEF Calls
    <3>2. call'[g] \in {b, [b EXCEPT !.phase = "due"]}
      BY <1>2, <2>1, <2>2
    <3> HIDE DEF b
    <3>3. call'[g].beside
      BY <3>1, <3>2 DEF Calls
    <3>4. Joined(f)[g].beside
      BY <1>4, <2>1, <2>2, <3>1 DEF b
    <3>5. calls = call => call'[g].beside = call[g].beside
      BY <1>3
    <3> QED BY <2>2, <3>3, <3>5
  <2>3. CASE ~Pending(g)
    <3>1. call'[g] \in {call[g], [call[g] EXCEPT !.phase = "due"]}
      BY <1>2, <2>1, <2>3
    <3>2. call'[g].beside = call[g].beside /\ call[g].beside \in BOOLEAN
      BY <3>1 DEF Calls
    <3> QED BY <2>3, <3>2
  <2> QED BY <2>2, <2>3
<1> QED BY <1>3, <1>4

\* A step of the loop alone.
LEMMA LoopSteady ==
  ASSUME PassInv, PassInv', Steady, SteadyInv, UNCHANGED <<given, disk, cut, pass, wake, used>>, Quiet,
         call' = Woken(call, order'), Moves(order, order', 0, 0), Keeps(order, order')
  PROVE  SteadyInv'
<1>1. TypeOK /\ 0 \notin Flows
  BY Counts DEF PassInv
<1>2. OthersStay(0)
  BY <1>1, AllStay
<1>3. Landing({}) /\ ~Starting
  BY <1>1, NothingLands, QuietIsNoStart DEF disk
<1>4. \A g \in Flows : call'[g].beside = call[g].beside
  <2> SUFFICES ASSUME NEW g \in Flows PROVE call'[g].beside = call[g].beside
    OBVIOUS
  <2>1. call[g] \in Calls
    BY <1>1, CallIs
  <2>2. call'[g] \in {call[g], [call[g] EXCEPT !.phase = "due"]}
    BY DEF Woken
  <2> QED BY <2>1, <2>2 DEF Calls
<1>5. NumbersAreNew
  BY <1>1, <1>2 DEF NumbersAreNew, OthersStay
<1>6. Moved(0, {})
  BY <1>1, <1>2, <1>3, <1>4, <1>5 DEF Moved, Keeps, Moves
<1>7. \A g \in Flows : ~Fresh(g) /\ ~Between(g) /\ call[g].phase # "due"
  BY DEF Quiet, Microtask, Fresh, Between
<1>8. (Undone(order) \ {0}) \ Undone(order') = {}
  BY <1>3, <1>7, NoneGivenUp
<1>9. order'.open = order'.ended /\ wake' = 0
  BY DEF Keeps, SteadyInv
<1>10. ToCome' = ToCome
  <2>1. ToCome' \subseteq ToCome
    BY <1>1, <1>2, ToComeStays DEF PassInv, TypeOK
  <2>2. \A g \in Flows : /\ call[g].stage = "own" /\ call[g].phase \in {"timer", "ready"} =>
                              call'[g].stage = "own" /\ call'[g].phase \in {"timer", "ready"}
    BY <1>1, <1>2 DEF OthersStay
  <2>3. ToCome \subseteq ToCome'
    BY <2>2 DEF ToCome, Count
  <2> QED BY <2>1, <2>3
<1>11. (order'.ended => order.ended) /\ cut' = cut /\ used' = used /\ used \in Nat
  BY <1>1 DEF Keeps, TypeOK
<1>12. 0 \in Flows \cup {0}
  OBVIOUS
<1> QED BY ONLY PassInv, PassInv', SteadyInv, UNCHANGED given, Moves(order, order', 0, 0),
                <1>1, <1>6, <1>7, <1>8, <1>9, <1>10, <1>11, <1>12, SteadyStays

\* A turn of the event loop.
LEMMA SteadyTurn ==
  ASSUME PassInv, PassInv', Steady, SteadyInv, Turn, UNCHANGED given
  PROVE  SteadyInv'
<1>1. IsOrder(order, MaxSeq) /\ MaxSeq \in Nat /\ order.turns > 0 /\ order' = EndTurn(order)
  BY Counts DEF PassInv, Turn
<1>2. Moves(order, order', 0, 0) /\ Keeps(order, order')
  BY <1>1, EndTurnIs
<1> QED BY <1>2, LoopSteady DEF Turn

\* A beat of the pump.
LEMMA SteadyBeat ==
  ASSUME PassInv, PassInv', Steady, SteadyInv, PumpBeats, UNCHANGED given
  PROVE  SteadyInv'
<1>1. IsOrder(order, MaxSeq) /\ MaxSeq \in Nat /\ order' = Beat(order)
  BY Counts DEF PassInv, PumpBeats
<1>2. Moves(order, order', 0, 0) /\ Keeps(order, order')
  BY <1>1, BeatIs
<1> QED BY <1>2, LoopSteady DEF PumpBeats

\* What a step of flow f does to the others, once the first calls are made.
LEMMA MovedIs ==
  ASSUME PassInv, ~Starting, NEW f \in Flows, NEW L, Landing(L), L \subseteq {f},
         NEW c, NEW o, Step(call, f, c, o), NEW n, NEW w, Moves(order, o, n, w),
         call[f].phase \notin {"timer", "ready", "parking", "done"}, c.phase # "ready" \/ c.stage # "own",
         call[f].stage = "spawn" => c.stage = "spawn" /\ c.phase # "ready",
         c.phase \in {"marking", "storing"} =>
           \/ /\ call[f].phase \in {"marking", "storing"}
              /\ c.num = call[f].num /\ c.stage = call[f].stage /\ c.use = call[f].use
           \/ c.num \in order.next .. MaxSeq
  PROVE  Moved(f, L)
<1>1. TypeOK
  BY DEF PassInv
<1>2. order' = o /\ call'[f] = c /\ OthersStay(f)
  BY <1>1, StepGives
<1>3. ASSUME NEW g \in Flows \ {f} PROVE call'[g].beside = call[g].beside
  <2>1. call[g] \in Calls
    BY <1>1, CallIs
  <2> QED BY <2>1, StepBeside
<1>4. NumbersAreNew
  <2> SUFFICES ASSUME NEW g \in Flows, call'[g].phase \in {"marking", "storing"}
               PROVE  \/ /\ call[g].phase \in {"marking", "storing"}
                         /\ call'[g].num = call[g].num /\ call'[g].stage = call[g].stage
                         /\ call'[g].use = call[g].use
                      \/ call'[g].num \in order.next .. MaxSeq
    BY DEF NumbersAreNew
  <2>1. CASE g = f
    BY <1>2, <2>1
  <2>2. CASE g # f
    BY <1>2, <2>2 DEF OthersStay
  <2> QED BY <2>1, <2>2
<1>5. ~HasSpawned(f) /\ (Spawning(f) => Spawning(f)') /\ (call'[f].stage = "own" => call'[f].phase # "ready")
  BY <1>2 DEF HasSpawned, Spawning
<1>6. Pending(f)' => Pending(f)
  BY DEF Pending
<1> QED BY <1>2, <1>3, <1>4, <1>5, <1>6 DEF Moved, Moves

\* The invariant goes on to hold in a step of a call from one of its phases to the next.
LEMMA SteadyGoesOn ==
  ASSUME PassInv, PassInv', SteadyInv, ~Starting, NEW f \in Flows, NEW L, Landing(L), L \subseteq {f},
         NEW c \in Calls, NEW o, Step(call, f, c, o), NEW n, NEW w, Moves(order, o, n, w),
         (Undone(order) \ {n}) \ Undone(o) = {},
         UNCHANGED <<given, cut, wake, used>>,
         o.open = o.ended, o.ended \/ (order.settling => o.settling),
         call[f].phase \in {"asking", "marking", "storing", "due"},
         c.phase \in {"marking", "storing", "held", "handed", "failing"},
         c.stage = call[f].stage, c.use = call[f].use, c.beside = call[f].beside,
         c.num = call[f].num \/ (call[f].phase = "asking" /\ c.num \in order.next .. MaxSeq),
         call[f].phase = "due" => c.phase # "held" /\ c.phase \notin Store /\ call[f].num \notin Undone(o),
         c.phase = "failing" => o.ended \/ (c.stage = "spawn" /\ Refused # {}),
         c.phase = "marking" => c.beside,
         c.phase = "handed" /\ ~o.ended => HandedOver(f),
         c.phase = "handed" /\ ~o.ended /\ c.use # 0 /\ Refused = {} => SpawnHanded(f),
         call[f].phase = "asking" /\ c.phase # "failing" => f \in L,
         SteadyResult(f)'
  PROVE  SteadyInv'
<1>1. TypeOK /\ 0 \notin Flows /\ order' = o /\ call'[f] = c /\ OthersStay(f)
  <2>1. TypeOK /\ 0 \notin Flows
    BY Counts DEF PassInv
  <2> QED BY <2>1, StepGives
<1>2. /\ order.next \in Nat /\ order.firstLive \in Nat /\ order.firstLive <= order.next
      /\ call[f].num \in Nat
  BY NextIsNew
<1>3. c.phase \in {"marking", "storing"} =>
         \/ /\ call[f].phase \in {"marking", "storing"}
            /\ c.num = call[f].num /\ c.stage = call[f].stage /\ c.use = call[f].use
         \/ c.num \in order.next .. MaxSeq
  <2>1. ASSUME call[f].phase = "asking", c.phase \in {"marking", "storing"}, c.num = call[f].num
        PROVE  FALSE
    <3>1. call[f].num = 0
      BY <2>1 DEF PassInv, CallsHold, CallHolds
    <3>2. CallHolds(f)'
      BY DEF PassInv, CallsHold
    <3>3. c.num >= o.firstLive
      <4>1. call'[f].num >= order'.firstLive
        BY <1>1, <2>1, <3>2 DEF CallHolds
      <4> QED BY <1>1, <4>1
    <3>4. 1 <= order.firstLive /\ o.firstLive = order.firstLive
      <4>1. IsOrder(order, MaxSeq) /\ MaxSeq \in Nat
        BY Counts DEF PassInv
      <4> QED BY <4>1 DEF IsOrder, Orders, Moves
    <3> QED BY <1>2, <2>1, <3>1, <3>3, <3>4
  <2> QED BY <2>1 DEF Store
<1>4. Moved(f, L)
  BY <1>1, <1>3, MovedIs
<1>5. /\ call'[f].stage = call[f].stage /\ call'[f].use = call[f].use /\ call'[f].beside = call[f].beside
      /\ call'[f].num = c.num /\ call'[f].phase = c.phase
  BY <1>1
<1>6. (Live(f)' => Live(f)) /\ (c.phase \in Store => call[f].phase \in Store)
  <2>1. order'.firstLive = order.firstLive
    BY <1>4 DEF Moved
  <2>2. CASE call[f].phase # "due"
    BY <1>1, <2>2 DEF Live, Store
  <2>3. CASE call[f].phase = "due"
    BY <1>1, <2>1, <2>3 DEF Live, Store
  <2> QED BY <2>2, <2>3
<1>7. GoesOn(f)
  BY <1>5, <1>6 DEF GoesOn
<1>8. Starting' => Starting
  BY <1>4, StartEnds
<1>9. SteadyPhase(f) /\ SteadySpawn(f) /\ SteadyDisk
  BY DEF SteadyInv
<1>10. call[f].stage \in {"own", "spawn"} /\ Pending(f) /\ Pending(f)'
  BY <1>1, CallIs DEF Pending
<1>11. SteadyPhase(f)'
  <2>1. /\ c.stage = "own" => c.phase \in {"marking", "storing", "held", "due", "handed", "failing"}
        /\ c.stage = "own" /\ c.phase = "failing" => order'.ended
        /\ c.phase # "joining"
    BY <1>1
  <2>2. (c.stage = "own" /\ ~Alone => c.beside) /\ (Alone => ~c.beside)
    BY <1>9 DEF SteadyPhase
  <2>3. ASSUME NEW g \in Flows \ {f}, Pending(g)' PROVE c.beside
    <3>1. Pending(g)
      BY <1>4, <2>3, OtherIs
    <3> QED BY <1>9, <1>10, <3>1 DEF SteadyPhase
  <2> QED BY <1>1, <1>8, <2>1, <2>2, <2>3 DEF SteadyPhase, Alone
<1>12. SteadySpawn(f)'
  <2> SUFFICES ASSUME call'[f].use # 0 PROVE SteadySpawn(f)'
    BY DEF SteadySpawn
  <2>1. call[f].use # 0 /\ call[f].stage = "spawn" /\ call[f].use \in 1 .. Count
    <3>1. CallHolds(f)
      BY DEF PassInv, CallsHold
    <3>2. call[f].use \in 0 .. Count
      BY <1>1, CallIs
    <3> QED BY <1>5, <1>10, <3>1, <3>2 DEF CallHolds
  <2>2. ASSUME c.phase \in Store \/ ~order'.ended
        PROVE  Ranked(f, call[f].use)' /\ (c.num >= order'.firstLive => OwnNum(f)' < c.num)
    <3>1. call[f].phase \in Store \/ ~order.ended
      BY <1>1, <1>6, <2>2 DEF Moves
    <3>2. Ranked(f, call[f].use) /\ (call[f].num >= order.firstLive => OwnNum(f) < call[f].num)
      BY <1>9, <2>1, <3>1 DEF SteadySpawn
    <3>3. Ranked(f, call[f].use)' /\ OwnNum(f)' = OwnNum(f)
      <4>1. \A j \in {call[f].use} : Ranked(f, j) => Ranked(f, j)' /\ OwnNum(f)' = OwnNum(f)
        BY <1>4, RankStays DEF Moved
      <4>2. \A j \in {call[f].use} : Ranked(f, j)' => (Ranked(f, call[f].use))'
        BY <1>5 DEF Ranked
      <4> QED BY <3>2, <4>1, <4>2
    <3>4. OwnNum(f) < order.next /\ OwnNum(f) \in 0 .. MaxSeq
      BY NumbersAreGiven DEF OwnNum
    <3>5. c.num >= order'.firstLive => OwnNum(f) < c.num
      <4>1. order'.firstLive = order.firstLive
        BY <1>4 DEF Moved
      <4>2. CASE c.num = call[f].num
        BY <3>2, <4>1, <4>2
      <4>3. CASE c.num \in order.next .. MaxSeq
        BY <1>2, <3>4, <4>3, Counts
      <4>4. c.num = call[f].num \/ c.num \in order.next .. MaxSeq
        OBVIOUS
      <4> QED BY <4>2, <4>3, <4>4
    <3> QED BY <1>5, <3>3, <3>5
  <2>3. c.phase \notin {"asking", "failing"} => child'[call'[f].use] # 0
    <3>1. CASE call[f].phase = "asking"
      <4>1. f \in L \/ c.phase = "failing"
        BY <3>1
      <4>2. f \in L => child'[call[f].use] # 0
        BY <2>1, <3>1, LandedIs
      <4> QED BY <1>5, <4>1, <4>2
    <3>2. CASE call[f].phase # "asking"
      <4>1. child[call[f].use] # 0
        BY <1>9, <2>1, <3>2 DEF SteadySpawn
      <4>2. child'[call[f].use] = child[call[f].use]
        BY <1>4, <2>1, <4>1, LandedIs DEF Moved
      <4> QED BY <1>5, <4>1, <4>2
    <3> QED BY <3>1, <3>2
  <2>4. ~call'[f].beside /\ Live(f)' => call'[f].use = Count /\ OthersHaveSpawned(f)'
    <3>1. ~call[f].beside /\ Live(f) => call[f].use = Count /\ OthersHaveSpawned(f)
      BY <1>9, <2>1 DEF SteadySpawn
    <3>2. OthersHaveSpawned(f) => OthersHaveSpawned(f)'
      BY <1>4, OtherIs DEF OthersHaveSpawned
    <3> QED BY <1>5, <1>6, <3>1, <3>2
  <2>5. call'[f].use = Count /\ Live(f)' => \A g \in Flows \ {f} : Spawning(g)'
    <3>1. call[f].use = Count /\ Live(f) => \A g \in Flows \ {f} : Spawning(g)
      BY <1>9, <2>1 DEF SteadySpawn
    <3>2. \A g \in Flows \ {f} : Spawning(g)' = Spawning(g)
      BY <1>4, OtherIs
    <3> QED BY <1>5, <1>6, <3>1, <3>2
  <2>6. call'[f].phase = c.phase /\ call'[f].num = c.num
    BY <1>5
  <2> QED BY <2>2, <2>3, <2>4, <2>5, <2>6 DEF SteadySpawn, Count
<1>13. ToCome' = ToCome
  <2>1. ToCome' \subseteq ToCome
    <3>1. used \in Nat /\ used' = used
      BY <1>1 DEF TypeOK
    <3> QED BY <1>1, <3>1, ToComeStays
  <2>2. \A g \in Flows : /\ call[g].stage = "own" /\ call[g].phase \in {"timer", "ready"} =>
                              call'[g].stage = "own" /\ call'[g].phase \in {"timer", "ready"}
    BY <1>1 DEF OthersStay
  <2>3. ToCome \subseteq ToCome'
    BY <2>2 DEF ToCome, Count
  <2> QED BY <2>1, <2>3
<1>14. ASSUME ~order'.ended
       PROVE  /\ Through(f)' => Through(f) \/ (Fresh(f)' /\ ~Fresh(f))
              /\ Fresh(f)' /\ ~Fresh(f) => HandedOver(f)
              /\ Between(f)' => Between(f) \/ ~Fresh(f)
              /\ Refused = {} /\ call'[f].use # 0 /\ call[f].phase # "handed" =>
                    call'[f].phase \in Coming \/ (call'[f].phase = "handed" /\ SpawnHanded(f))
  <2>1. ~Fresh(f)
    BY DEF Fresh, Between
  <2>2. Through(f)' => Through(f) \/ Fresh(f)'
    BY <1>5 DEF Through, Fresh
  <2>3. Fresh(f)' => call'[f].phase = "handed"
    BY <1>5 DEF Fresh, Between
  <2>4. Fresh(f)' => HandedOver(f)
    BY <1>1, <1>14, <2>3
  <2>5. Refused = {} /\ call'[f].use # 0 =>
           call'[f].phase \in Coming \/ (call'[f].phase = "handed" /\ SpawnHanded(f))
    BY <1>1, <1>14 DEF Coming
  <2> QED BY <2>1, <2>2, <2>4, <2>5
<1>15. Spawning(f)' <=> Spawning(f)
  BY <1>5 DEF Spawning
<1>16. ASSUME ~order'.ended
       PROVE  /\ order.settling => order'.settling \/ \A g \in Flows : ~Fresh(g)
              /\ used' = used + IF f \in Flows /\ Spawning(f)' /\ ~Spawning(f) THEN 1 ELSE 0
  BY <1>1, <1>15, <1>16 DEF TypeOK
<1>17. Refused = {} /\ call'[f].phase = "failing" => order'.ended
  BY <1>1
<1>18. call[f].phase \in {"held", "due"} => call[f].num \notin Undone(order')
  BY <1>1
<1>19. (order'.ended => order.ended \/ ~Starting) /\ wake' = 0 /\ order'.open = order'.ended
  BY <1>1 DEF SteadyInv
<1>20. /\ Moves(order, order', n, w) /\ (Undone(order) \ {n}) \ Undone(order') = {}
       /\ cut' = cut /\ used' = used /\ UNCHANGED given
  BY <1>1
<1> QED BY ONLY PassInv, PassInv', SteadyInv, f \in Flows, SteadyResult(f)',
                <1>1, <1>4, <1>7, <1>11, <1>12, <1>13, <1>14, <1>16, <1>17, <1>18, <1>19, <1>20, SteadyStays

\* No number is given up in a step of the event loop.
LEMMA QuietKeepsAll ==
  ASSUME PassInv, SteadyInv, Quiet, NEW n \in Nat, NEW w, Moves(order, order', n, w),
         n = 0 \/ n >= order.firstLive
  PROVE  (Undone(order) \ {n}) \ Undone(order') = {}
<1>1. \A g \in Flows : ~Between(g) /\ call[g].phase # "due"
  BY DEF Quiet, Microtask, Between
<1> QED BY <1>1, QuietIsNoStart, NoneGivenUp

\* The store's answer to an await or a spawn.
LEMMA SteadyAsk ==
  ASSUME PassInv, PassInv', Steady, SteadyInv, NEW f \in Flows, AskAnswers(f), UNCHANGED given
  PROVE  SteadyInv'
<1>1. /\ Quiet /\ call[f].phase = "asking" /\ Lands({f}) /\ UNCHANGED <<cut, pass, wake, used>>
      /\ CommitOrdered(call, f, call[f])
  BY DEF AskAnswers, Answered
<1>2. TypeOK /\ IsOrder(order, MaxSeq) /\ call[f] \in Calls /\ ~Starting
  BY <1>1, CallIs, QuietIsNoStart DEF PassInv
<1>3. order.next \in Nat /\ order.firstLive \in Nat /\ order.firstLive <= order.next /\ call[f].num = 0
  BY <1>1, NextIsNew, StoreCallIs DEF Store
<1>4. order.next \in 1 .. MaxSeq
  <2>1. 1 <= order.firstLive /\ NumbersLast
    BY <1>1, StoreCallIs DEF Store, PassInv
  <2>2. \E i \in {1, 2} : ~IsTaken(f, i)
    BY <1>1, <1>3, <2>1 DEF IsTaken
  <2>3. PICK i \in {1, 2} : <<f, i>> \notin Taken
    BY <2>2, TakenIs
  <2> QED BY <1>2, <2>1, <2>3, RoomIsLeft
<1>5. PICK c \in Calls : \E o, n :
           /\ Step(call, f, c, o)
           /\ c.stage = call[f].stage /\ c.use = call[f].use /\ c.num = order.next /\ c.beside = call[f].beside
           /\ c.marked = call[f].marked
           /\ c.phase = IF order.ended THEN "failing" ELSE IF call[f].beside THEN "marking" ELSE "storing"
           /\ IsOrder(o, MaxSeq) /\ Moves(order, o, n, 0) /\ n \in {0, c.num}
           /\ o.next = order.next + 1 /\ o.open = order.open /\ o.ended = order.ended
           /\ o.settling = order.settling
           /\ Undone(order) \subseteq Undone(o) /\ Undone(o) \subseteq Undone(order) \cup {order.next}
           /\ ~order.ended => order.next \in Undone(o)
           /\ o.skipped = order.skipped /\ o.waiting = order.waiting
  BY <1>1, <1>2, <1>4, CommitIs
<1>6. PICK o, n :
           /\ Step(call, f, c, o)
           /\ c.stage = call[f].stage /\ c.use = call[f].use /\ c.num = order.next /\ c.beside = call[f].beside
           /\ c.marked = call[f].marked
           /\ c.phase = IF order.ended THEN "failing" ELSE IF call[f].beside THEN "marking" ELSE "storing"
           /\ Moves(order, o, n, 0) /\ n \in {0, c.num}
           /\ o.open = order.open /\ o.ended = order.ended
           /\ o.settling = order.settling
  BY <1>5
<1>7. order' = o /\ call'[f] = c
  <2>1. Step(call, f, c, o)
    BY <1>6
  <2> QED BY <1>2, <2>1, StepGives
<1>8. (Undone(order) \ {n}) \ Undone(o) = {}
  <2>1. n \in Nat /\ (n = 0 \/ n >= order.firstLive)
    BY <1>3, <1>6
  <2> QED BY <1>1, <1>6, <1>7, <2>1, QuietKeepsAll
<1>9. c.phase \in {"marking", "storing", "failing"} /\ (c.phase = "failing" => o.ended)
      /\ (c.phase = "marking" => c.beside) /\ (c.phase = "storing" => ~c.beside)
  BY <1>6
<1>10. Landing({f})
  BY <1>1 DEF Landing, Store
<1>11. SteadyResult(f)'
  <2>1. SteadyResult(f)
    BY DEF SteadyInv
  <2>2. ~c.marked /\ c.num = order.next /\ order'.firstLive = order.firstLive
    BY <1>1, <1>6, <1>7, <2>1 DEF SteadyResult, Moves
  <2>3. Key(f)' = Key(f) /\ Key(f) \in Keys
    BY <1>1, <1>2, <1>6, <1>7, KeyIs DEF Key, PassInv
  <2>4. /\ stored' = stored
        /\ \A i \in 1 .. MaxSeq : marker'[i] = marker[i]
    <3>1. \A g \in {f} : call[g].phase = "asking"
      BY <1>1
    <3>2. \A i \in 1 .. MaxSeq : marker'[i] = marker[i]
      BY <1>10, <3>1, LandedIs
    <3>3. stored \subseteq stored' /\ \A key \in stored' \ stored : FALSE
      BY <1>10, <3>1, LandedIs
    <3> QED BY <3>2, <3>3
  <2>5. marker[order.next] = NoKey
    <3>1. \A i \in 1 .. MaxSeq : marker[i] # NoKey => i < order.next
      BY DEF PassInv, MarkersHold
    <3> QED BY <1>3, <1>4, <3>1
  <2>6. Key(f) \notin stored /\ \A i \in order.firstLive .. MaxSeq : marker[i] # Key(f)
    <3>1. Key(f) \notin stored /\ \A i \in order.firstLive .. MaxSeq : marker[i] = Key(f) => i = 0
      BY <1>1, <1>3, <2>1 DEF SteadyResult
    <3>2. 0 < order.firstLive
      BY <1>1, <1>3, StoreCallIs DEF Store
    <3> QED BY <1>3, <3>1, <3>2
  <2>7. \A i \in order'.firstLive .. MaxSeq' : marker'[i] # Key(f)'
    <3>1. MaxSeq' = MaxSeq /\ MaxSeq \in Nat /\ 1 <= order.firstLive
      BY <1>1, StoreCallIs, Counts DEF MaxSeq, Store
    <3> QED BY <1>3, <2>2, <2>3, <2>4, <2>6, <3>1
  <2>8. call'[f].phase = c.phase /\ call'[f].num = order.next /\ ~call'[f].marked
        /\ (c.phase = "storing" => call'[f].marked = call'[f].beside)
    BY <1>6, <1>7, <1>9, <2>2 DEF Calls
  <2>9. marker'[call'[f].num] = NoKey /\ Key(f)' \notin stored'
    BY <1>4, <2>3, <2>4, <2>5, <2>6, <2>8
  <2>10. call'[f].phase \in {"marking", "storing", "failing"}
    BY <1>9, <2>8
  <2> QED BY <1>9, <2>7, <2>8, <2>9, <2>10 DEF SteadyResult
<1>12. o.open = o.ended
  BY <1>6 DEF SteadyInv
<1>13. c.num \in order.next .. MaxSeq
  BY <1>4, <1>6
<1> QED BY <1>1, <1>2, <1>6, <1>8, <1>9, <1>10, <1>11, <1>12, <1>13, SteadyGoesOn

\* The marker of a result is stored before the result.
LEMMA SteadyMark ==
  ASSUME PassInv, PassInv', Steady, SteadyInv, NEW f \in Flows, MarkAnswers(f), UNCHANGED given
  PROVE  SteadyInv'
<1> DEFINE m == [call[f] EXCEPT !.marked = TRUE]
           e == [m EXCEPT !.phase = "failing"]
           s == [m EXCEPT !.phase = "storing"]
           p == Abandon(order, call[f].num)
<1>1. /\ Quiet /\ call[f].phase = "marking" /\ Lands({f}) /\ UNCHANGED <<cut, pass, wake, used>>
      /\ IF order.ended THEN Step(call, f, e, Abandon(order, m.num)) ELSE Step(call, f, s, order)
  BY DEF MarkAnswers, Answered, StoreNext
<1>2. TypeOK /\ IsOrder(order, MaxSeq) /\ MaxSeq \in Nat /\ call[f] \in Calls /\ ~Starting
  BY <1>1, CallIs, Counts, QuietIsNoStart DEF PassInv
<1>3. /\ e \in Calls /\ e.stage = call[f].stage /\ e.use = call[f].use /\ e.num = call[f].num /\ e.phase = "failing"
      /\ e.beside = call[f].beside /\ s.beside = call[f].beside
      /\ s \in Calls /\ s.stage = call[f].stage /\ s.use = call[f].use /\ s.num = call[f].num /\ s.phase = "storing"
      /\ s.marked
  <2>1. {"failing", "storing"} \subseteq Store \cup Microtask \cup {"timer", "held", "parking", "done"}
    BY DEF Store, Microtask
  <2> QED BY <1>2, <2>1, MarkedIs
<1>4. m.num = call[f].num
  BY <1>2 DEF Calls
<1> HIDE DEF m, e, s
<1>5. /\ call[f].num \in 1 .. order.next - 1 /\ call[f].num >= order.firstLive /\ call[f].num \in Nat
      /\ order.firstLive \in Nat /\ 1 <= order.firstLive
  BY <1>1, StoreCallIs DEF Store
<1>6. Landing({f})
  BY <1>1 DEF Landing, Store
<1>7. UNCHANGED <<given, cut, wake, used>> /\ order.open = order.ended
  BY <1>1 DEF SteadyInv
<1>8. CASE order.ended
  <2>1. Step(call, f, e, p)
    BY <1>1, <1>4, <1>8
  <2>2. Moves(order, p, call[f].num, 0) /\ Keeps(order, p) /\ p.settling = order.settling
    BY <1>2, <1>5, ReleaseIs
  <2> HIDE DEF p
  <2>3. order' = p /\ call'[f] = e
    BY <1>2, <2>1, StepGives
  <2>4. (Undone(order) \ {call[f].num}) \ Undone(p) = {}
    BY <1>1, <1>5, <2>2, <2>3, QuietKeepsAll
  <2>5. SteadyResult(f)'
    BY <1>3, <2>3 DEF SteadyResult
  <2> QED BY <1>1, <1>2, <1>3, <1>6, <1>7, <1>8, <2>1, <2>2, <2>4, <2>5, SteadyGoesOn DEF Keeps
<1>9. CASE ~order.ended
  <2>1. Step(call, f, s, order) /\ Moves(order, order, 0, 0)
    BY <1>1, <1>2, <1>9, MovesNot
  <2>2. order' = order /\ call'[f] = s
    BY <1>2, <2>1, StepGives
  <2>3. SteadyResult(f)'
    <3>1. SteadyResult(f) /\ call[f].beside
      BY <1>1 DEF SteadyInv, SteadyPhase
    <3>2. Key(f)' = Key(f) /\ Key(f) \in Keys
      BY <1>1, <1>3, <2>2, KeyIs DEF Key, PassInv
    <3>3. \A g \in {f} : call[g].phase = "marking"
      BY <1>1
    <3>4. /\ \A i \in 1 .. MaxSeq : marker'[i] = marker[i] \/ i = call[f].num
          /\ marker'[call[f].num] = Key(f)
      BY <1>6, <3>3, LandedIs
    <3>5. stored \subseteq stored' /\ \A key \in stored' \ stored : FALSE
      BY <1>6, <3>3, LandedIs
    <3>6. Key(f) \notin stored /\ \A i \in order.firstLive .. MaxSeq : marker[i] = Key(f) => i = call[f].num
      BY <1>1, <3>1 DEF SteadyResult
    <3>7. \A i \in order'.firstLive .. MaxSeq' : marker'[i] = Key(f)' => i = call[f].num
      <4>1. MaxSeq' = MaxSeq
        BY DEF MaxSeq
      <4>2. order.firstLive .. MaxSeq \subseteq 1 .. MaxSeq
        BY <1>2, <1>5
      <4> QED BY <2>2, <3>2, <3>4, <3>6, <4>1, <4>2
    <3>8. call'[f].phase = "storing" /\ call'[f].num = call[f].num /\ call'[f].marked /\ call'[f].beside
      BY <1>3, <2>2, <3>1
    <3>9. Key(f)' \notin stored' /\ marker'[call'[f].num] = Key(f)'
      BY <3>2, <3>4, <3>5, <3>6, <3>8
    <3>10. call'[f].marked = call'[f].beside
      BY <1>2, <1>3, <2>2, <3>8 DEF Calls
    <3> QED BY <3>7, <3>8, <3>9, <3>10 DEF SteadyResult
  <2>4. (Undone(order) \ {0}) \ Undone(order) = {}
    OBVIOUS
  <2> QED BY <1>1, <1>2, <1>3, <1>6, <1>7, <2>1, <2>3, <2>4, SteadyGoesOn
<1> QED BY <1>8, <1>9

\* A permanent answer to a spawn.
LEMMA SteadyRefuse ==
  ASSUME PassInv, PassInv', Steady, SteadyInv, NEW f \in Flows, StoreRefuses(f), UNCHANGED given
  PROVE  SteadyInv'
<1> DEFINE e == [call[f] EXCEPT !.phase = "failing"]
           p == Abandon(order, call[f].num)
<1>1. /\ Quiet /\ call[f].phase = "storing" /\ Lands({f}) /\ UNCHANGED <<cut, pass, wake, used>>
      /\ Step(call, f, e, p) /\ call[f].stage = "spawn" /\ Refused # {}
  BY DEF StoreRefuses, Answered, IsRefused
<1>2. TypeOK /\ IsOrder(order, MaxSeq) /\ MaxSeq \in Nat /\ call[f] \in Calls /\ ~Starting
  BY <1>1, CallIs, Counts, QuietIsNoStart DEF PassInv
<1>3. /\ call[f].num \in 1 .. order.next - 1 /\ call[f].num >= order.firstLive /\ call[f].num \in Nat
  BY <1>1, StoreCallIs DEF Store
<1>4. /\ e \in Calls /\ e.stage = call[f].stage /\ e.use = call[f].use /\ e.num = call[f].num
      /\ e.phase = "failing" /\ e.beside = call[f].beside
  BY <1>2, PhaseIs DEF Microtask
<1>5. Moves(order, p, call[f].num, 0) /\ Keeps(order, p) /\ p.settling = order.settling
  BY <1>2, <1>3, ReleaseIs
<1> HIDE DEF e, p
<1>6. Landing({f})
  BY <1>1 DEF Landing, Store
<1>7. UNCHANGED <<given, cut, wake, used>> /\ order.open = order.ended
  BY <1>1 DEF SteadyInv
<1>8. order' = p /\ call'[f] = e
  BY <1>1, <1>2, StepGives
<1>9. (Undone(order) \ {call[f].num}) \ Undone(p) = {}
  BY <1>1, <1>3, <1>5, <1>8, QuietKeepsAll
<1>10. SteadyResult(f)'
  BY <1>4, <1>8 DEF SteadyResult
<1> QED BY <1>1, <1>2, <1>4, <1>5, <1>6, <1>7, <1>9, <1>10, SteadyGoesOn DEF Keeps

\* An outage ends the pass.
LEMMA SteadyFail ==
  ASSUME PassInv, PassInv', Steady, SteadyInv, NEW f \in Flows, StoreFails(f), UNCHANGED given
  PROVE  SteadyInv'
<1> DEFINE e == [call[f] EXCEPT !.phase = "failing"]
           q == End(order)
           p == IF call[f].phase \in {"asking", "reserving"} THEN q ELSE Abandon(q, call[f].num)
<1>1. /\ Quiet /\ call[f].phase \in Store /\ UNCHANGED <<cut, pass, wake, used>>
      /\ Step(call, f, e, p)
  BY DEF StoreFails
<1>2. TypeOK /\ IsOrder(order, MaxSeq) /\ MaxSeq \in Nat /\ call[f] \in Calls /\ ~Starting
  BY <1>1, CallIs, Counts, QuietIsNoStart DEF PassInv
<1>3. call[f].phase \in {"asking", "marking", "storing"}
  BY <1>1, SteadyLanding
<1>4. /\ e \in Calls /\ e.stage = call[f].stage /\ e.use = call[f].use /\ e.num = call[f].num
      /\ e.phase = "failing" /\ e.beside = call[f].beside
  BY <1>2, PhaseIs DEF Microtask
<1>5. /\ IsOrder(q, MaxSeq) /\ Moves(order, q, 0, 0) /\ q.open /\ q.ended /\ q.next = order.next
  BY <1>2, OpenIs
<1>6. \E n \in Nat : /\ Moves(order, p, n, 0) /\ (n = 0 \/ n >= order.firstLive)
                     /\ p.open /\ p.ended
  <2>1. CASE call[f].phase = "asking"
    BY <1>5, <2>1
  <2>2. CASE call[f].phase # "asking"
    <3>1. call[f].num \in 1 .. order.next - 1 /\ call[f].num >= order.firstLive /\ call[f].num \in Nat
      BY <1>1, <2>2, StoreCallIs
    <3>2. p = Abandon(q, call[f].num)
      BY <1>3, <2>2
    <3> HIDE DEF p, q
    <3>3. IsOrder(p, MaxSeq) /\ Moves(q, p, call[f].num, 0) /\ Keeps(q, p)
      BY <1>2, <1>5, <3>1, <3>2, ReleaseIs
    <3>4. Moves(order, p, call[f].num, 0)
      BY <1>2, <1>5, <3>3, MovesTwice
    <3> QED BY <1>5, <3>1, <3>3, <3>4 DEF Keeps
  <2> QED BY <2>1, <2>2
<1> HIDE DEF e, p, q
<1>7. PICK n \in Nat : Moves(order, p, n, 0) /\ (n = 0 \/ n >= order.firstLive) /\ p.open /\ p.ended
  BY <1>6
<1>8. order' = p /\ call'[f] = e
  BY <1>1, <1>2, StepGives
<1>9. PICK L \in SUBSET {f} : Landing(L)
  BY <1>1 DEF Landing, StoreFails
<1>10. (Undone(order) \ {n}) \ Undone(p) = {}
  BY <1>1, <1>7, <1>8, QuietKeepsAll
<1>11. SteadyResult(f)'
  BY <1>4, <1>8 DEF SteadyResult
<1>12. p.open = p.ended
  <2>1. order' \in Orders(MaxSeq')
    BY DEF PassInv, IsOrder
  <2> QED BY <1>7, <1>8, <2>1 DEF Orders
<1> QED BY <1>1, <1>2, <1>3, <1>4, <1>7, <1>9, <1>10, <1>11, <1>12, SteadyGoesOn

\* A call that was recorded, or that runs alone, hands its result over.
LEMMA DeliversIs ==
  ASSUME PassInv, NEW f \in Flows, call[f].beside => call[f].marked, call[f].num \in 1 .. order.next - 1,
         NEW a, IsOrder(a, MaxSeq), Undone(a) = Undone(order), Same(a, order),
         Deliver(f, a)
  PROVE  \E c \in Calls : \E o :
           /\ Step(call, f, c, o)
           /\ c.stage = call[f].stage /\ c.use = call[f].use /\ c.num = call[f].num
           /\ c.beside = call[f].beside /\ c.marked = call[f].marked /\ c.phase = "handed"
           /\ Moves(order, o, call[f].num, 0) /\ Keeps(order, o)
           /\ call[f].marked => o.settling
           /\ ~call[f].marked => o.settling = order.settling
<1> DEFINE c == [call[f] EXCEPT !.phase = "handed"]
           o == Release(a, call[f].num, call[f].marked)
<1>1. TypeOK /\ IsOrder(order, MaxSeq) /\ MaxSeq \in Nat /\ call[f] \in Calls /\ call[f].marked \in BOOLEAN
  BY CallIs, Counts DEF PassInv
<1>2. Step(call, f, c, o)
  BY DEF Deliver
<1>3. /\ c \in Calls /\ c.stage = call[f].stage /\ c.use = call[f].use /\ c.num = call[f].num
      /\ c.beside = call[f].beside /\ c.marked = call[f].marked /\ c.phase = "handed"
  BY <1>1, PhaseIs DEF Microtask
<1>4. call[f].num \in 1 .. a.next - 1
  BY DEF Same, SameCalls
<1>5. /\ IsOrder(o, MaxSeq) /\ Moves(a, o, call[f].num, 0) /\ Keeps(a, o)
      /\ call[f].marked => o.settling
      /\ ~call[f].marked => o.settling = a.settling
  <2>1. CASE call[f].marked
    <3>1. o = Release(a, call[f].num, TRUE)
      BY <1>1, <2>1
    <3> QED BY <1>1, <1>4, <2>1, <3>1, SettledReleaseIs
  <2>2. CASE ~call[f].marked
    <3>1. o = Release(a, call[f].num, FALSE)
      BY <1>1, <2>2
    <3> HIDE DEF o
    <3> QED BY <1>1, <1>4, <2>2, <3>1, ReleaseIs
  <2> QED BY <2>1, <2>2
<1> HIDE DEF c, o
<1>6. Moves(order, o, call[f].num, 0)
  BY <1>1, <1>5, MovesAfterWait
<1>7. Keeps(order, o) /\ a.settling = order.settling
  BY <1>5 DEF Keeps, Same, SameCalls
<1> QED BY <1>2, <1>3, <1>5, <1>6, <1>7

\* What the store of a result leaves on the disk.
LEMMA StoredIs ==
  ASSUME PassInv, SteadyInv, NEW f \in Flows, call[f].phase = "storing", ~IsRefused(f), Landing({f}),
         call'[f].stage = call[f].stage, call'[f].use = call[f].use, call'[f].num = call[f].num,
         call'[f].beside = call[f].beside, call'[f].marked = call[f].marked,
         order'.firstLive = order.firstLive, call'[f].phase \in {"held", "handed"}
  PROVE  /\ SteadyResult(f)'
         /\ call[f].beside = call[f].marked
         /\ \A key \in {Key(f)} :
              /\ key \in stored'
              /\ call[f].beside => Recorded(key)' = call[f].num
              /\ ~call[f].beside /\ (\A n \in 1 .. MaxSeq : marker[n] # key) => Recorded(key)' = 0
<1>1. call[f].num \in 1 .. order.next - 1 /\ call[f].num >= order.firstLive /\ call[f].num \in Nat
      /\ order.firstLive \in Nat
  BY StoreCallIs DEF Store
<1>2. SteadyResult(f)
  BY DEF SteadyInv
<1>3. call[f].marked = call[f].beside /\ (call[f].marked => marker[call[f].num] = Key(f))
  BY <1>1, <1>2 DEF SteadyResult
<1>4. Key(f) \in stored'
  BY LandedIs
<1>5. \A key \in {Key(f)} :
        /\ call[f].beside => Recorded(key)' = call[f].num
        /\ ~call[f].beside /\ (\A n \in 1 .. MaxSeq : marker[n] # key) => Recorded(key)' = 0
  BY <1>4, LandsNumbered
<1>6. Key(f)' = Key(f)
  BY DEF Key
<1>7. \A key \in {Key(f)} : (Recorded(Key(f)))' = Recorded(key)'
  BY <1>6 DEF Recorded
<1>8. call[f].marked => marker'[call[f].num] = Key(f)
  <2>1. \A g \in {f} : call[g].phase # "marking"
    OBVIOUS
  <2>2. call[f].num \in 1 .. MaxSeq
    BY SteadyLanding, <1>1 DEF Store
  <2> QED BY <1>3, <2>1, <2>2, LandedIs
<1>9. SteadyResult(f)'
  <2>1. call'[f].num >= order'.firstLive => call'[f].marked = call'[f].beside
                                            /\ (call'[f].marked => marker'[call'[f].num] = Key(f)')
    BY <1>3, <1>6, <1>8
  <2>2. Key(f)' \in stored'
    BY <1>4, <1>6
  <2>3. call'[f].num < order'.firstLive \/ call'[f].marked => (Recorded(Key(f)))' = call'[f].num
    BY <1>1, <1>3, <1>5, <1>7
  <2> QED BY <2>1, <2>2, <2>3 DEF SteadyResult
<1> QED BY <1>3, <1>4, <1>5, <1>9

\* A result is handed over as the order and the invariant ask.
LEMMA GivesItOver ==
  ASSUME PassInv, SteadyInv, ~Starting, NEW f \in Flows, call[f].phase \in {"storing", "due"},
         call'[f].phase = "handed", call'[f].stage = call[f].stage, call'[f].use = call[f].use,
         ~order.settling, IsNext(order, call[f].num), call[f].num \notin Undone(order'),
         NEW s \in BOOLEAN, s => order'.settling, ~s => ~call[f].beside /\ Live(f),
         \A key \in {Key(f)} :
           /\ key \in stored'
           /\ s => Recorded(key)' = call[f].num
           /\ ~s /\ (\A n \in 1 .. MaxSeq : marker[n] # key) => Recorded(key)' = 0
  PROVE  HandedOver(f) /\ (call'[f].use # 0 /\ Refused = {} => SpawnHanded(f))
<1>1. TypeOK /\ call[f].stage \in {"own", "spawn"} /\ CallHolds(f) /\ call[f].use \in 0 .. Count
  BY CallIs DEF PassInv, CallsHold
<1>2. SteadyPhase(f) /\ SteadySpawn(f) /\ SteadyDisk
  BY DEF SteadyInv
<1>3. call[f].stage = "own" => Key(f) = Own(f) /\ call[f].use = 0
  BY <1>1 DEF Key, CallHolds
<1>4. call[f].stage = "spawn" => Key(f) = Spawn(call[f].use) /\ call[f].use # 0
  <2>1. call[f].stage = "spawn" => call[f].use \in 1 .. used
    BY <1>1 DEF CallHolds
  <2> QED BY <1>1, <2>1, Counts DEF Key
<1>5. ~s => (call[f].stage = "own" => Alone) /\ (call[f].stage = "spawn" => OthersHaveSpawned(f))
  BY <1>2, <1>4 DEF SteadyPhase, SteadySpawn
<1>6. call[f].stage = "own" =>
        /\ Own(f) \in stored'
        /\ (Alone /\ OwnNum(f)' = 0) \/ (IsNext(order, OwnNum(f)') /\ OwnNum(f)' \notin Undone(order'))
  <2> SUFFICES ASSUME call[f].stage = "own"
               PROVE  /\ Own(f) \in stored'
                      /\ \/ Alone /\ OwnNum(f)' = 0
                         \/ IsNext(order, OwnNum(f)') /\ OwnNum(f)' \notin Undone(order')
    OBVIOUS
  <2>1. \A key \in {Key(f)} : OwnNum(f)' = Recorded(key)'
    BY <1>3 DEF OwnNum, Recorded
  <2>2. CASE s
    <3>1. OwnNum(f)' = call[f].num
      BY <2>1, <2>2
    <3> QED BY <1>3, <3>1
  <2>3. CASE ~s
    <3>1. Alone
      BY <1>5, <2>3
    <3>2. \A n \in 1 .. MaxSeq : marker[n] # Key(f)
      BY <1>2, <1>3, <3>1, KeysDiffer DEF SteadyDisk
    <3> QED BY <1>3, <2>1, <2>3, <3>1, <3>2
  <2> QED BY <2>2, <2>3
<1>7. HandedOver(f)
  <2>1. ~Alone => order'.settling \/ (call[f].stage = "spawn" /\ OthersHaveSpawned(f))
    BY <1>1, <1>5
  <2> QED BY <1>6, <2>1 DEF HandedOver
<1>8. ASSUME call'[f].use # 0, Refused = {} PROVE SpawnHanded(f)
  <2>1. call[f].use # 0 /\ call[f].stage = "spawn"
    BY <1>1, <1>3, <1>8
  <2>2. Spawn(call'[f].use) \in stored'
    BY <1>4, <2>1
  <2>3. \A key \in {Key(f)} : (Recorded(Spawn(call[f].use)))' = Recorded(key)'
    BY <1>4, <2>1 DEF Recorded
  <2>4. CASE s
    BY <2>2, <2>3, <2>4 DEF SpawnHanded
  <2>5. CASE ~s
    <3>1. \A n \in 1 .. MaxSeq : marker[n] # Key(f)
      BY <1>8, <2>1, <2>5 DEF SteadyInv, SteadyMarkers
    <3> QED BY <2>2, <2>3, <2>5, <3>1 DEF SpawnHanded
  <2> QED BY <2>4, <2>5
<1> QED BY <1>7, <1>8

\* The store's answer to a result.
LEMMA SteadyStore ==
  ASSUME PassInv, PassInv', Steady, SteadyInv, NEW f \in Flows, StoreAnswers(f), UNCHANGED given
  PROVE  SteadyInv'
<1> DEFINE num == call[f].num
           d == [call[f] EXCEPT !.phase = "held"]
           a == Wait(order, num)
<1>1. /\ Quiet /\ call[f].phase = "storing" /\ Lands({f}) /\ UNCHANGED <<cut, pass, wake, used>>
      /\ ~IsRefused(f)
      /\ IF Goes(order, num) THEN Deliver(f, a) ELSE Step(call, f, d, a)
  BY DEF StoreAnswers, Answered
<1>2. TypeOK /\ IsOrder(order, MaxSeq) /\ MaxSeq \in Nat /\ call[f] \in Calls /\ ~Starting
  BY <1>1, CallIs, Counts, QuietIsNoStart DEF PassInv
<1>3. /\ num \in Undone(order) /\ num \in 1 .. order.next - 1 /\ num >= order.firstLive
      /\ num \in Nat /\ order.firstLive \in Nat
  BY <1>1, StoreCallIs DEF Store
<1>4. ~IsDone(order, num)
  BY <1>2, <1>3, UndoneIs
<1>5. UNCHANGED <<given, cut, wake, used>> /\ order.open = order.ended
  BY <1>1 DEF SteadyInv
<1>6. Landing({f})
  BY <1>1 DEF Landing, Store
<1>7. call[f].beside = call[f].marked
  BY <1>1, <1>3 DEF SteadyInv, SteadyResult
<1>8. CASE Goes(order, num)
  <2>1. order.ended \/ (IsNext(order, num) /\ ~order.settling)
    BY <1>2, <1>4, <1>5, <1>8, GoesIs
  <2>2. IsOrder(a, MaxSeq) /\ Undone(a) = Undone(order) /\ Same(a, order)
    BY <1>2, <1>8, WaitGoesIs
  <2>3. Deliver(f, a)
    BY <1>1, <1>8
  <2> HIDE DEF a
  <2>4. PICK c \in Calls : \E o :
           /\ Step(call, f, c, o)
           /\ c.stage = call[f].stage /\ c.use = call[f].use /\ c.num = call[f].num
           /\ c.beside = call[f].beside /\ c.marked = call[f].marked /\ c.phase = "handed"
           /\ Moves(order, o, call[f].num, 0) /\ Keeps(order, o)
           /\ call[f].marked => o.settling
           /\ ~call[f].marked => o.settling = order.settling
    BY <1>3, <1>7, <2>2, <2>3, DeliversIs
  <2>5. PICK o :
           /\ Step(call, f, c, o)
           /\ c.stage = call[f].stage /\ c.use = call[f].use /\ c.num = call[f].num
           /\ c.beside = call[f].beside /\ c.marked = call[f].marked /\ c.phase = "handed"
           /\ Moves(order, o, call[f].num, 0) /\ Keeps(order, o)
           /\ call[f].marked => o.settling
           /\ ~call[f].marked => o.settling = order.settling
    BY <2>4
  <2>6. order' = o /\ call'[f] = c
    <3>1. Step(call, f, c, o)
      BY <2>5
    <3> QED BY <1>2, <3>1, StepGives
  <2>7. (Undone(order) \ {num}) \ Undone(o) = {}
    BY <1>1, <1>3, <2>5, <2>6, QuietKeepsAll
  <2>8. /\ SteadyResult(f)'
        /\ \A key \in {Key(f)} :
              /\ key \in stored'
              /\ call[f].beside => Recorded(key)' = call[f].num
              /\ ~call[f].beside /\ (\A n \in 1 .. MaxSeq : marker[n] # key) => Recorded(key)' = 0
    <3>1. /\ call'[f].stage = call[f].stage /\ call'[f].use = call[f].use /\ call'[f].num = call[f].num
          /\ call'[f].beside = call[f].beside /\ call'[f].marked = call[f].marked
          /\ order'.firstLive = order.firstLive /\ call'[f].phase = "handed"
      BY <2>5, <2>6 DEF Keeps
    <3> QED BY <1>1, <1>6, <3>1, StoredIs
  <2>9. ASSUME ~o.ended PROVE HandedOver(f) /\ (call'[f].use # 0 /\ Refused = {} => SpawnHanded(f))
    <3>1. ~order.settling /\ IsNext(order, num)
      BY <2>1, <2>5, <2>9 DEF Keeps
    <3>2. call'[f].phase = "handed" /\ call'[f].stage = call[f].stage /\ call'[f].use = call[f].use
      BY <2>5, <2>6
    <3>3. num \notin Undone(order') /\ (call[f].beside => order'.settling) /\ call[f].beside \in BOOLEAN
      BY <1>2, <1>7, <2>5, <2>6, CallIs DEF Moves
    <3>4. Live(f)
      BY <1>1 DEF Live, Store
    <3> QED BY <1>1, <1>2, <2>8, <3>1, <3>2, <3>3, <3>4, GivesItOver
  <2>10. o.open = o.ended /\ (~o.ended => (order.settling => o.settling))
    BY <1>5, <2>1, <2>5 DEF Keeps
  <2> QED BY <1>1, <1>2, <1>5, <1>6, <2>5, <2>6, <2>7, <2>8, <2>9, <2>10, SteadyGoesOn
<1>9. CASE ~Goes(order, num)
  <2>1. /\ d \in Calls /\ d.stage = call[f].stage /\ d.use = call[f].use /\ d.num = num /\ d.phase = "held"
        /\ d.beside = call[f].beside /\ d.marked = call[f].marked
    BY <1>2, PhaseIs
  <2>2. /\ Moves(order, a, 0, num) /\ a.firstLive = order.firstLive
        /\ Undone(a) = Undone(order) /\ a.settling = order.settling
        /\ a.ended = order.ended /\ a.open = order.open
    <3> HIDE DEF num
    <3>1. /\ IsOrder(Wait(order, num), MaxSeq) /\ Moves(order, Wait(order, num), 0, num)
          /\ Wait(order, num).firstLive = order.firstLive
          /\ Undone(Wait(order, num)) = Undone(order) /\ Wait(order, num).settling = order.settling
          /\ Wait(order, num).ended = order.ended /\ ~Wait(order, num).open /\ ~order.open
      BY <1>2, <1>3, <1>9, WaitHoldsIs
    <3>2. order.open \in BOOLEAN /\ a.open \in BOOLEAN
      BY <1>2, <3>1 DEF IsOrder, Orders
    <3> QED BY <3>1, <3>2
  <2>3. Step(call, f, d, a)
    BY <1>1, <1>9
  <2> HIDE DEF a, d
  <2>4. order' = a /\ call'[f] = d
    BY <1>2, <2>3, StepGives
  <2>5. SteadyResult(f)'
    BY <1>1, <1>6, <2>1, <2>2, <2>4, StoredIs
  <2>6. a.open = a.ended /\ (Undone(order) \ {0}) \ Undone(a) = {}
    BY <1>5, <2>2
  <2> QED BY <1>1, <1>2, <1>5, <1>6, <2>1, <2>2, <2>3, <2>5, <2>6, SteadyGoesOn
<1> QED BY <1>8, <1>9

\* The number of a woken call is the next, and nobody else was woken for it.
LEMMA WokenIsNext ==
  ASSUME PassInv, SteadyInv, NEW f \in Flows, call[f].phase = "due"
  PROVE  /\ call[f].num \in Undone(order) /\ call[f].num \in 1 .. order.next - 1 /\ call[f].num \in Nat
         /\ ~order.open =>
              /\ IsNext(order, call[f].num) /\ ~order.settling
              /\ \A g \in Flows : call[g].phase = "due" => call[g].num = call[f].num
              /\ \A g \in Flows : ~Between(g)
<1>1. IsOrder(order, MaxSeq) /\ MaxSeq \in Nat /\ order.skipped = {} /\ (~order.ended => SteadyPass)
      /\ order.open = order.ended
  BY Counts DEF PassInv, SteadyInv
<1>2. \A g \in Flows : call[g].phase = "due" /\ ~order.open =>
                         IsNext(order, call[g].num) /\ ~order.settling
  BY <1>1 DEF PassInv, CallsHold, CallHolds
<1>3. call[f].num \in Undone(order)
  <2>1. CallHolds(f)
    BY DEF PassInv, CallsHold
  <2> QED BY <2>1 DEF CallHolds, InQueue
<1>4. call[f].num \in 1 .. MaxSeq /\ call[f].num < order.next
  BY <1>1, <1>3, UndoneIs
<1>5. order.next \in Nat
  BY NextIsNew
<1>6. ASSUME ~order.open, NEW g \in Flows, Between(g) PROVE FALSE
  <2>1. g # f /\ Fresh(g)
    BY <1>6 DEF Between, Fresh
  <2>2. ~Alone
    BY <2>1 DEF Alone
  <2>3. order.settling
    BY <1>1, <1>6, <2>1, <2>2 DEF SteadyPass
  <2> QED BY <1>2, <1>6, <2>3
<1>7. ~order.open => \A g \in Flows : call[g].phase = "due" => call[g].num = call[f].num
  BY <1>1, <1>2, NextIs
<1> QED BY <1>1, <1>2, <1>3, <1>4, <1>5, <1>6, <1>7

\* A call goes on after its wait.
LEMMA SteadyContinue ==
  ASSUME PassInv, PassInv', Steady, SteadyInv, NEW f \in Flows, Continue(f), UNCHANGED given
  PROVE  SteadyInv'
<1> DEFINE num == call[f].num
           h == [call[f] EXCEPT !.phase = "handed"]
           p == Release(order, num, TRUE)
           s == num < order.firstLive \/ call[f].marked
<1>1. /\ call[f].phase = "due" /\ ~Starting /\ UNCHANGED <<disk, cut, pass, wake, used>>
      /\ IF num < order.firstLive THEN Step(call, f, h, p) ELSE Deliver(f, order)
  BY DEF Continue
<1>2. TypeOK /\ IsOrder(order, MaxSeq) /\ MaxSeq \in Nat /\ call[f] \in Calls /\ call[f].marked \in BOOLEAN
  BY CallIs, Counts DEF PassInv
<1>3. order.firstLive \in Nat /\ order.next \in Nat
  BY NextIsNew
<1>4. /\ num \in Undone(order) /\ num \in 1 .. order.next - 1 /\ num \in Nat
      /\ ~order.open =>
           /\ IsNext(order, num) /\ ~order.settling
           /\ \A g \in Flows : call[g].phase = "due" => call[g].num = num
           /\ \A g \in Flows : ~Between(g)
  BY <1>1, WokenIsNext
<1>5. SteadyResult(f) /\ order.open = order.ended
  BY DEF SteadyInv
<1>6. /\ num >= order.firstLive => call[f].marked = call[f].beside /\ (call[f].marked => marker[num] = Key(f))
      /\ Key(f) \in stored
      /\ s => Recorded(Key(f)) = num
  BY <1>1, <1>5 DEF SteadyResult
<1>7. Landing({}) /\ UNCHANGED <<given, cut, wake, used, disk>>
  BY <1>1, <1>2, NothingLands
<1>8. \E c \in Calls : \E o :
           /\ Step(call, f, c, o)
           /\ c.stage = call[f].stage /\ c.use = call[f].use /\ c.num = call[f].num
           /\ c.beside = call[f].beside /\ c.marked = call[f].marked /\ c.phase = "handed"
           /\ Moves(order, o, call[f].num, 0) /\ Keeps(order, o)
           /\ s => o.settling
           /\ num >= order.firstLive \/ (Undone(order) \ {num}) \ Undone(o) = {}
  <2>1. CASE num < order.firstLive
    <3>1. Step(call, f, h, p)
      BY <1>1, <2>1
    <3>2. /\ h \in Calls /\ h.stage = call[f].stage /\ h.use = call[f].use /\ h.num = call[f].num
          /\ h.beside = call[f].beside /\ h.marked = call[f].marked /\ h.phase = "handed"
      BY <1>2, PhaseIs DEF Microtask
    <3>3. Moves(order, p, num, 0) /\ Keeps(order, p) /\ p.settling /\ Undone(p) = Undone(order) \ {num}
      <4>1. IsOrder(order, MaxSeq) /\ MaxSeq \in Nat /\ num \in 1 .. order.next - 1
        BY <1>2, <1>4
      <4>2. Moves(order, p, num, 0)
        BY <4>1, SettledReleaseIs
      <4>3. Keeps(order, p)
        BY <4>1, SettledReleaseIs
      <4>4. p.settling
        BY <4>1, SettledReleaseIs
      <4>5. Undone(p) = Undone(order) \ {num}
        <5>1. \A n \in {num} : Undone(Release(order, n, TRUE)) = Undone(order) \ {n}
          <6> HIDE DEF num, p
          <6> TAKE n \in {num}
          <6>1. n \in 1 .. order.next - 1
            BY <4>1
          <6> QED BY <4>1, <6>1, SettledReleaseIs
        <5> QED BY <5>1
      <4> QED BY <4>2, <4>3, <4>4, <4>5
    <3> HIDE DEF h, p
    <3> QED BY <3>1, <3>2, <3>3
  <2>2. CASE ~(num < order.firstLive)
    <3>1. num >= order.firstLive
      BY <1>3, <1>4, <2>2
    <3>2. call[f].beside => call[f].marked
      BY <1>6, <3>1
    <3>3. Deliver(f, order) /\ Undone(order) = Undone(order) /\ Same(order, order)
      BY <1>1, <2>2 DEF Same, SameCalls
    <3>4. \E c \in Calls : \E o :
           /\ Step(call, f, c, o)
           /\ c.stage = call[f].stage /\ c.use = call[f].use /\ c.num = call[f].num
           /\ c.beside = call[f].beside /\ c.marked = call[f].marked /\ c.phase = "handed"
           /\ Moves(order, o, call[f].num, 0) /\ Keeps(order, o)
           /\ call[f].marked => o.settling
           /\ ~call[f].marked => o.settling = order.settling
      BY <1>2, <1>4, <3>2, <3>3, DeliversIs
    <3> QED BY <2>2, <3>1, <3>4
  <2> QED BY <2>1, <2>2
<1>20. PICK c \in Calls : \E o :
           /\ Step(call, f, c, o)
           /\ c.stage = call[f].stage /\ c.use = call[f].use /\ c.num = call[f].num
           /\ c.beside = call[f].beside /\ c.marked = call[f].marked /\ c.phase = "handed"
           /\ Moves(order, o, call[f].num, 0) /\ Keeps(order, o)
           /\ s => o.settling
           /\ num >= order.firstLive \/ (Undone(order) \ {num}) \ Undone(o) = {}
  BY <1>8
<1>9. PICK o :
           /\ c \in Calls
           /\ Step(call, f, c, o)
           /\ c.stage = call[f].stage /\ c.use = call[f].use /\ c.num = call[f].num
           /\ c.beside = call[f].beside /\ c.marked = call[f].marked /\ c.phase = "handed"
           /\ Moves(order, o, call[f].num, 0) /\ Keeps(order, o)
           /\ s => o.settling
           /\ num >= order.firstLive \/ (Undone(order) \ {num}) \ Undone(o) = {}
  BY <1>20
<1>10. order' = o /\ call'[f] = c
  <2>1. Step(call, f, c, o)
    BY <1>9
  <2> QED BY <1>2, <2>1, StepGives
<1>11. (Undone(order) \ {num}) \ Undone(o) = {}
  <2>1. CASE num >= order.firstLive
    <3>1. Moves(order, order', num, 0)
      BY <1>9, <1>10
    <3>2. (Undone(order) \ {num}) \ Undone(order') = {}
      <4> HIDE DEF num
      <4> QED BY <1>1, <1>4, <2>1, <3>1, NoneGivenUp
    <3> QED BY <1>10, <3>2
  <2> QED BY <1>9, <2>1
<1>12. \A key \in {Key(f)} : /\ key \in stored'
                             /\ Recorded(key)' = Recorded(key)
  BY <1>6, <1>7 DEF disk, Recorded
<1>13. SteadyResult(f)'
  <2>1. Key(f)' = Key(f) /\ call'[f].num = num /\ call'[f].marked = call[f].marked
        /\ call'[f].beside = call[f].beside /\ call'[f].phase = "handed" /\ order'.firstLive = order.firstLive
    BY <1>9, <1>10 DEF Key, Keeps
  <2>2. marker' = marker /\ stored' = stored
    BY <1>7 DEF disk
  <2>3. \A key \in {Key(f)} : (Recorded(Key(f)))' = Recorded(key)
    BY <2>1, <2>2 DEF Recorded
  <2>4. call'[f].num >= order'.firstLive => call'[f].marked = call'[f].beside
                                            /\ (call'[f].marked => marker'[call'[f].num] = Key(f)')
    BY <1>6, <2>1, <2>2
  <2>5. Key(f)' \in stored'
    BY <1>6, <2>1, <2>2
  <2>6. call'[f].num < order'.firstLive \/ call'[f].marked => (Recorded(Key(f)))' = call'[f].num
    BY <1>6, <2>1, <2>3
  <2> QED BY <2>1, <2>4, <2>5, <2>6 DEF SteadyResult
<1>14. ASSUME ~o.ended PROVE HandedOver(f) /\ (call'[f].use # 0 /\ Refused = {} => SpawnHanded(f))
  <2>1. ~order.settling /\ IsNext(order, num)
    BY <1>4, <1>5, <1>9, <1>14 DEF Keeps
  <2>2. call'[f].phase = "handed" /\ call'[f].stage = call[f].stage /\ call'[f].use = call[f].use
    BY <1>9, <1>10
  <2>3. num \notin Undone(order') /\ (s => order'.settling)
    BY <1>9, <1>10 DEF Moves
  <2>4. ~s => ~call[f].beside /\ Live(f)
    <3>1. ~s => num >= order.firstLive
      BY <1>3, <1>4
    <3> QED BY <1>6, <3>1 DEF Live
  <2>5. \A key \in {Key(f)} :
           /\ key \in stored'
           /\ s => Recorded(key)' = num
           /\ ~s /\ (\A n \in 1 .. MaxSeq : marker[n] # key) => Recorded(key)' = 0
    <3>1. \A key \in {Key(f)} : Recorded(key) # 0 => \E n \in 1 .. MaxSeq : marker[n] = key
      BY <1>2, RecordedIs
    <3> QED BY <1>6, <1>12, <3>1
  <2>6. s \in BOOLEAN
    BY <1>2
  <2> HIDE DEF s
  <2> QED BY <1>1, <2>1, <2>2, <2>3, <2>4, <2>5, <2>6, GivesItOver
<1>15. o.open = o.ended /\ (~o.ended => ~order.settling)
  BY <1>4, <1>5, <1>9 DEF Keeps
<1>16. num \notin Undone(o) /\ c.phase \notin Store
  BY <1>9 DEF Moves, Store
<1>17. /\ ~Starting /\ Landing({}) /\ {} \subseteq {f} /\ Step(call, f, c, o) /\ Moves(order, o, num, 0)
       /\ (Undone(order) \ {num}) \ Undone(o) = {} /\ UNCHANGED <<given, cut, wake, used>>
       /\ o.open = o.ended /\ (o.ended \/ (order.settling => o.settling))
  BY <1>1, <1>7, <1>9, <1>11, <1>15
<1>18. /\ call[f].phase = "due" /\ c.phase = "handed"
       /\ c.stage = call[f].stage /\ c.use = call[f].use /\ c.beside = call[f].beside /\ c.num = call[f].num
       /\ num \notin Undone(o) /\ c.phase \notin Store
  BY <1>1, <1>9, <1>16
<1>19. ~o.ended => HandedOver(f) /\ (c.use # 0 /\ Refused = {} => SpawnHanded(f))
  BY <1>10, <1>14
<1> HIDE DEF s, h, p
<1> QED BY ONLY PassInv, PassInv', SteadyInv, f \in Flows, <1>2, <1>13, <1>17, <1>18, <1>19, SteadyGoesOn

\* The finally of a call, and the task's code behind it.
LEMMA SteadyEnd ==
  ASSUME PassInv, PassInv', Steady, SteadyInv, NEW f \in Flows, EndCall(f), UNCHANGED given
  PROVE  SteadyInv'
<1>1. TypeOK /\ IsOrder(order, MaxSeq) /\ MaxSeq \in Nat /\ call[f] \in Calls /\ 0 \notin Flows
      /\ CallHolds(f) /\ SteadyPhase(f) /\ call[f].stage \in {"own", "spawn"}
  BY CallIs, Counts DEF PassInv, CallsHold, SteadyInv
<1>2. call[f].phase \in {"handed", "failing"}
  <2>1. call[f].phase \in {"handed", "failing", "leaving"}
    BY DEF EndCall
  <2>2. call[f].phase = "leaving" => call[f].stage = "own"
    BY <1>1 DEF CallHolds
  <2>3. call[f].stage = "own" => call[f].phase # "leaving"
    BY <1>1 DEF SteadyPhase
  <2> QED BY <2>1, <2>2, <2>3
<1>3. PICK c \in {Call("spawn", "ready"), Call("spawn", "done")} :
        /\ c.phase = "ready" => call[f].stage = "own"
        /\ c.phase = "done" => ~(call[f].phase = "handed" /\ call[f].stage = "own")
        /\ Step(call, f, c, order)
  <2>1. PICK c \in {Call("spawn", "ready"), [call[f] EXCEPT !.phase = "parking"], Call("spawn", "done")} :
          /\ c.phase = "ready" => call[f].stage = "own" /\ call[f].phase # "leaving"
          /\ c.phase = "parking" => call[f].phase = "leaving"
          /\ c.phase = "done" => ~(call[f].phase = "handed" /\ call[f].stage = "own")
          /\ Step(call, f, c, order)
    BY DEF EndCall
  <2>2. [call[f] EXCEPT !.phase = "parking"].phase = "parking"
    BY <1>1 DEF Calls
  <2>3. c # [call[f] EXCEPT !.phase = "parking"]
    BY <1>2, <2>1, <2>2
  <2> QED BY <2>1, <2>3
<1>4. /\ c.stage = "spawn" /\ c.use = 0 /\ c.num = 0 /\ ~c.marked /\ ~c.beside
      /\ c.phase \in {"ready", "done"}
  BY <1>3 DEF Call
<1>5. order' = order /\ call'[f] = c /\ OthersStay(f)
  BY <1>1, <1>3, StepGives
<1>6. ~Starting /\ UNCHANGED <<given, disk, cut, wake, used>>
  BY DEF EndCall
<1>7. Landing({}) /\ Moves(order, order', 0, 0)
  BY <1>1, <1>5, <1>6, NothingLands, MovesNot
<1>8. Moved(f, {})
  BY <1>2, <1>3, <1>4, <1>5, <1>6, <1>7, MovedIs
<1>9. ~Starting'
  BY <1>6, <1>8, StartEnds
<1>10. SteadyPhase(f)' /\ SteadyResult(f)' /\ SteadySpawn(f)'
  <2>1. ~Pending(f)'
    BY <1>4, <1>5 DEF Pending
  <2>2. SteadyPhase(f)'
    BY <1>4, <1>5, <1>9, <2>1 DEF SteadyPhase
  <2>3. SteadyResult(f)'
    BY <1>4, <1>5 DEF SteadyResult
  <2>4. SteadySpawn(f)'
    BY <1>4, <1>5 DEF SteadySpawn
  <2> QED BY <2>2, <2>3, <2>4
<1>11. ToCome' = ToCome
  <2>1. ToCome' \subseteq ToCome
    <3>1. used \in Nat /\ used' = used
      BY <1>1, <1>6 DEF TypeOK
    <3> QED BY <1>4, <1>5, <3>1, ToComeStays
  <2>2. \A g \in Flows : /\ call[g].stage = "own" /\ call[g].phase \in {"timer", "ready"} =>
                              call'[g].stage = "own" /\ call'[g].phase \in {"timer", "ready"}
    BY <1>2, <1>5 DEF OthersStay
  <2>3. ToCome \subseteq ToCome'
    BY <1>6, <2>2 DEF ToCome, Count
  <2> QED BY <2>1, <2>3
<1>12. ASSUME ~order'.ended
       PROVE  /\ Through(f)' => Through(f) \/ (Fresh(f)' /\ ~Fresh(f))
              /\ Fresh(f)' /\ ~Fresh(f) => HandedOver(f)
              /\ Between(f)' => Between(f) \/ ~Fresh(f)
              /\ Spawning(f)' => Spawning(f)
  <2>1. call[f].stage = "own" => call[f].phase = "handed"
    BY <1>1, <1>2, <1>5, <1>12 DEF SteadyPhase
  <2>2. Through(f)
    BY <1>1, <2>1 DEF Through
  <2>3. Fresh(f)' => Between(f) /\ Fresh(f)
    BY <1>3, <1>4, <1>5, <2>1 DEF Fresh, Between
  <2>4. Between(f)' => Fresh(f)'
    BY DEF Fresh
  <2>5. Spawning(f)' => Spawning(f)
    <3>1. Spawning(f)' => c.phase = "done"
      BY <1>4, <1>5 DEF Spawning
    <3>2. c.phase = "done" => call[f].stage = "spawn"
      BY <1>1, <1>3, <2>1
    <3> QED BY <1>2, <3>1, <3>2 DEF Spawning
  <2> QED BY <2>2, <2>3, <2>4, <2>5
<1>13. call'[f].use = 0 /\ call'[f].phase # "failing" /\ call[f].phase \notin {"held", "due"} /\ call[f].phase \notin Coming
  BY <1>2, <1>4, <1>5 DEF Coming
<1>14. order'.open = order'.ended /\ cut' = cut /\ wake' = 0 /\ used' = used /\ used \in Nat
       /\ (Undone(order) \ {0}) \ Undone(order') = {} /\ UNCHANGED given
  BY <1>1, <1>5, <1>6 DEF SteadyInv, TypeOK
<1>15. order.settling => order'.settling
  BY <1>5
<1> QED BY ONLY PassInv, PassInv', SteadyInv, f \in Flows, <1>1, <1>6, <1>7, <1>8, <1>10, <1>11, <1>12, <1>13, <1>14,
                <1>15, SteadyStays

\* The invariant goes on to hold as a call begins.
LEMMA SteadyBegins ==
  ASSUME PassInv, PassInv', SteadyInv, NEW f \in Flows, BeginCall(f), call[f].phase = "ready", UNCHANGED given,
         NEW c \in Calls, NEW o, Step(Joined(f), f, c, o), NEW n, NEW w, Moves(order, o, n, w),
         (Undone(order) \ {n}) \ Undone(o) = {}, o.open = o.ended, o.ended = order.ended, wake' = 0,
         Starting => order.waiting \subseteq o.waiting, ~o.ended => (order.settling => o.settling),
         c.stage = call[f].stage, c.use = Begun(f).use, c.beside = Begun(f).beside, c.marked = call[f].marked,
         c.phase \in {"asking", "held", "handed", "failing"}, c.num < order.firstLive,
         c.phase = "failing" => order.ended, c.phase = "asking" => ~order.ended /\ c.num = 0,
         c.phase \in {"held", "handed"} => NextKey(f) \in stored /\ Recorded(NextKey(f)) = c.num,
         c.phase \in {"asking", "failing"} => NextKey(f) \notin stored,
         c.phase = "handed" /\ c.num # 0 =>
           /\ c.num \notin Undone(o)
           /\ ~order.ended => ~order.settling /\ o.settling /\ IsNext(order, c.num)
  PROVE  SteadyInv'
<1>1. TypeOK /\ IsOrder(order, MaxSeq) /\ MaxSeq \in Nat /\ call[f] \in Calls /\ 0 \notin Flows
      /\ CallHolds(f) /\ SteadyPhase(f) /\ SteadyResult(f) /\ call[f].stage \in {"own", "spawn"}
      /\ used \in Nat /\ SteadyDisk
  <2>1. TypeOK /\ IsOrder(order, MaxSeq) /\ CallHolds(f)
    BY DEF PassInv, CallsHold
  <2>2. used \in Nat
    BY <2>1 DEF TypeOK
  <2> QED BY <2>1, <2>2, CallIs, Counts DEF SteadyInv
<1>2. order' = o /\ call'[f] = c /\ OthersStay(f)
  <2>1. TypeOK
    BY <1>1
  <2> QED BY <2>1, StepIs
<1>3. /\ MayCall(f) /\ UNCHANGED <<disk, cut, pass>>
      /\ used' = IF call[f].stage = "own" THEN used ELSE used + 1
  BY DEF BeginCall
<1>4. /\ c.use = (IF call[f].stage = "own" THEN 0 ELSE used + 1)
      /\ c.beside = (\E g \in Flows \ {f} : Pending(g))
      /\ NextKey(f) \in ToCome
  BY <1>3, BegunIs
<1>5. Landing({}) /\ UNCHANGED disk
  BY <1>1, <1>3, NothingLands
<1>6. \A g \in Flows \ {f} : call'[g].beside = (call[g].beside \/ Pending(g))
  <2> TAKE g \in Flows \ {f}
  <2>1. call[g] \in Calls
    BY <1>1, CallIs
  <2> QED BY <2>1, StepBeside
<1>7. Moved(f, {})
  <2>1. NumbersAreNew
    <3> SUFFICES ASSUME NEW g \in Flows, call'[g].phase \in {"marking", "storing"}
                 PROVE  /\ call[g].phase \in {"marking", "storing"}
                        /\ call'[g].num = call[g].num /\ call'[g].stage = call[g].stage
                        /\ call'[g].use = call[g].use
      BY DEF NumbersAreNew
    <3>1. g # f
      BY <1>2
    <3> QED BY <1>2, <3>1 DEF OthersStay
  <2>2. ~HasSpawned(f) /\ ~Spawning(f) /\ call'[f].phase # "ready"
    BY <1>2 DEF HasSpawned, Spawning
  <2> QED BY <1>2, <1>5, <1>6, <2>1, <2>2 DEF Moved, Moves
<1>8. Starting' => Starting
  BY <1>7, StartEnds
<1>9. Starting => ~order.ended /\ call[f].stage = "own"
  BY <1>1 DEF SteadyInv, SteadyPhase
<1>10. \A key \in {NextKey(f)} : Key(f)' = key /\ (Recorded(Key(f)))' = Recorded(key)
  <2>1. Key(f)' = NextKey(f)
    BY <1>2, <1>4 DEF Key, NextKey
  <2> QED BY <1>5, <2>1 DEF Recorded, disk
<1>11. SteadyPhase(f)'
  <2>1. c.stage = "own" /\ ~Starting' /\ ~Alone => c.beside
    <3> SUFFICES ASSUME c.stage = "own", ~Starting', ~Alone PROVE c.beside
      OBVIOUS
    <3>1. Starting
      BY DEF Starting
    <3>2. PICK g \in Flows : g # f
      BY DEF Alone
    <3>3. Pending(g)
      BY <1>7, <3>1, <3>2, StartEnds
    <3> QED BY <1>4, <3>2, <3>3
  <2>2. Alone => ~c.beside
    BY <1>4 DEF Alone
  <2>3. \A g \in Flows \ {f} : Pending(g)' => c.beside
    <3> TAKE g \in Flows \ {f}
    <3>1. Pending(g)' = Pending(g)
      BY <1>7, OtherIs
    <3> QED BY <1>4, <3>1
  <2>4. order'.firstLive = order.firstLive
    BY <1>7 DEF Moved
  <2> QED BY <1>2, <1>8, <1>9, <2>1, <2>2, <2>3, <2>4 DEF SteadyPhase, Alone
<1>12. SteadyResult(f)'
  <2>1. ~c.marked /\ order'.firstLive = order.firstLive
    BY <1>1, <1>7 DEF SteadyResult, Moved
  <2>2. \A k \in order.firstLive .. MaxSeq : marker[k] # NextKey(f)
    <3>1. \A k \in 1 .. MaxSeq : marker[k] # NoKey /\ k >= order.firstLive => marker[k] \notin ToCome
      BY DEF PassInv, MarkersHold
    <3>2. NextKey(f) # NoKey
      BY KeysDiffer DEF NextKey
    <3>3. order.firstLive \in Nat /\ 1 <= order.firstLive
      BY <1>1 DEF IsOrder, Orders
    <3> QED BY <1>1, <1>4, <3>1, <3>2, <3>3
  <2>3. marker' = marker /\ stored' = stored /\ MaxSeq' = MaxSeq
    BY <1>5 DEF disk, MaxSeq
  <2>4. \A k \in order'.firstLive .. MaxSeq' : marker'[k] # Key(f)'
    BY <1>10, <2>1, <2>2, <2>3
  <2>5. /\ call'[f].phase \in {"asking"} => Key(f)' \notin stored'
        /\ call'[f].phase \in {"held", "handed"} =>
             Key(f)' \in stored' /\ (Recorded(Key(f)))' = call'[f].num
    BY <1>2, <1>10, <2>3
  <2>6. order.firstLive \in Nat /\ c.num \in Nat
    <3>1. c.num \in 0 .. MaxSeq
      BY DEF Calls
    <3> QED BY <1>1, <3>1 DEF IsOrder, Orders
  <2>7. /\ call'[f].phase \in {"asking", "held", "handed", "failing"} /\ ~call'[f].marked
        /\ ~(call'[f].num >= order'.firstLive)
    BY <1>2, <2>1, <2>6
  <2> QED BY <2>4, <2>5, <2>7 DEF SteadyResult
<1>13. /\ Live(f)' => c.phase = "asking" /\ ~order.ended
       /\ order.firstLive \in Nat /\ c.num \in Nat
  <2>1. order.firstLive \in Nat /\ c.num \in Nat /\ order'.firstLive = order.firstLive
    <3>1. c.num \in 0 .. MaxSeq
      BY DEF Calls
    <3> QED BY <1>1, <1>7, <3>1 DEF IsOrder, Orders, Moved
  <2>2. ~(call'[f].num >= order'.firstLive)
    BY <1>2, <2>1
  <2> QED BY <1>2, <2>1, <2>2 DEF Live, Store
<1>14. SteadySpawn(f)'
  <2> SUFFICES ASSUME call'[f].use # 0 PROVE SteadySpawn(f)'
    BY DEF SteadySpawn
  <2>1. call[f].stage = "spawn" /\ c.use = used + 1 /\ used + 1 \in 1 .. Count
    <3>1. NumbersLast
      BY DEF PassInv
    <3> QED BY <1>1, <1>2, <1>4, <3>1, UseIsLeft
  <2>2. ~order.ended =>
          /\ Ranked(f, used + 1)
          /\ used + 1 = Count => \A g \in Flows \ {f} : Spawning(g)
          /\ (\A g \in Flows \ {f} : ~Pending(g)) => used + 1 = Count /\ OthersHaveSpawned(f)
    BY <2>1, NextSpawnIs
  <2>3. ~order.ended => (Ranked(f, call[f].use))'
    <3>1. \A k \in {used + 1} : Ranked(f, k) => Ranked(f, k)'
      BY <1>7, RankStays DEF Moved
    <3>2. \A k \in {used + 1} : Ranked(f, k)' => (Ranked(f, call[f].use))'
      BY <1>2, <2>1 DEF Ranked
    <3> QED BY <2>2, <3>1, <3>2
  <2>4. \A g \in Flows \ {f} : HasSpawned(g)' = HasSpawned(g) /\ Spawning(g)' = Spawning(g)
    BY <1>7, OtherIs
  <2>5. c.phase \notin {"asking", "failing"} => child'[call'[f].use] # 0
    <3>1. NextKey(f) = Spawn(used + 1)
      BY <2>1 DEF NextKey
    <3>2. Spawn(used + 1) \in stored => child[used + 1] # 0
      BY <1>1, <2>1 DEF SteadyDisk
    <3> QED BY <1>2, <1>5, <2>1, <3>1, <3>2 DEF disk
  <2>6. ~c.beside /\ Live(f)' => used + 1 = Count /\ OthersHaveSpawned(f)'
    BY <1>4, <1>13, <2>2, <2>4 DEF OthersHaveSpawned
  <2>7. used + 1 = Count /\ Live(f)' => \A g \in Flows \ {f} : Spawning(g)'
    BY <1>13, <2>2, <2>4
  <2>8. call'[f].phase \in Store \/ ~order'.ended => ~order.ended
    BY <1>2 DEF Store
  <2>9. ~(call'[f].num >= order'.firstLive)
    <3>1. order'.firstLive = order.firstLive
      BY <1>7 DEF Moved
    <3> QED BY <1>2, <1>13, <3>1
  <2>10. call'[f].use = used + 1 /\ call'[f].phase = c.phase /\ call'[f].beside = c.beside
    BY <1>2, <2>1
  <2> QED BY <2>3, <2>5, <2>6, <2>7, <2>8, <2>9, <2>10 DEF SteadySpawn, Count
<1>15. ASSUME NEW key \in ToCome \ ToCome'
       PROVE  \/ Recorded(key) = 0 \/ Recorded(key) \notin Undone(order')
              \/ f \in Flows /\ call'[f].phase = "held" /\ call'[f].num = Recorded(key)
  <2>1. key = NextKey(f)
    <3>1. CASE key \in {Spawn(k) : k \in used + 1 .. Count}
      <4>1. PICK k \in used + 1 .. Count : key = Spawn(k)
        BY <3>1
      <4>2. ~(k \in used' + 1 .. Count)
        BY <1>15, <4>1 DEF ToCome, Count
      <4>3. call[f].stage = "spawn" /\ k = used + 1
        BY <1>1, <1>3, <4>1, <4>2, Counts
      <4> QED BY <4>1, <4>3 DEF NextKey
    <3>2. CASE key \notin {Spawn(k) : k \in used + 1 .. Count}
      <4>1. PICK g \in Flows : call[g].stage = "own" /\ call[g].phase \in {"timer", "ready"} /\ key = Own(g)
        BY <3>2 DEF ToCome
      <4>2. g = f
        <5> SUFFICES ASSUME g # f PROVE FALSE
          OBVIOUS
        <5>1. call'[g].stage = "own" /\ call'[g].phase \in {"timer", "ready"}
          BY <1>2, <4>1 DEF OthersStay
        <5> QED BY <1>15, <4>1, <5>1 DEF ToCome
      <4> QED BY <4>1, <4>2 DEF NextKey
    <3> QED BY <3>1, <3>2
  <2>2. key \notin stored => Recorded(key) = 0
    BY <1>1, RecordedIs
  <2> QED BY <1>2, <2>1, <2>2
<1>16. call[f].stage = "own" => ~Fresh(f) /\ call[f].use = 0 /\ c.use = 0
  BY <1>1, <1>4 DEF Fresh, Between, CallHolds
<1>17. call[f].stage = "spawn" => Through(f) /\ Fresh(f) /\ Between(f) /\ ~Spawning(f)
  BY DEF Through, Fresh, Between, Spawning
<1>18. ASSUME ~order'.ended, Fresh(f)', ~Fresh(f) PROVE HandedOver(f)
  <2>1. call[f].stage = "own" /\ c.phase = "handed" /\ ~order.ended
    BY <1>1, <1>2, <1>17, <1>18 DEF Fresh, Between
  <2>2. NextKey(f) = Own(f) /\ Own(f) \in stored /\ OwnNum(f) = c.num /\ Own(f) \in stored'
    BY <1>5, <2>1 DEF NextKey, OwnNum, disk
  <2>3. OwnNum(f)' = OwnNum(f)
    BY <1>5 DEF OwnNum, Recorded, disk
  <2>4. c.num = 0 => Alone
    BY <1>1, <2>2 DEF SteadyDisk
  <2>5. CASE c.num = 0
    BY <1>2, <2>1, <2>2, <2>3, <2>4, <2>5 DEF HandedOver
  <2>6. CASE c.num # 0
    BY <1>2, <2>1, <2>2, <2>3, <2>6 DEF HandedOver
  <2> QED BY <2>5, <2>6
<1>19. ASSUME ~order'.ended
       PROVE  /\ Through(f)' => Through(f) \/ (Fresh(f)' /\ ~Fresh(f))
              /\ Fresh(f)' /\ ~Fresh(f) => HandedOver(f)
              /\ Between(f)' => Between(f) \/ ~Fresh(f)
              /\ Refused = {} /\ call'[f].use # 0 /\ call[f].phase # "handed" =>
                    call'[f].phase \in Coming \/ (call'[f].phase = "handed" /\ SpawnHanded(f))
  <2>1. Through(f)' => Through(f) \/ (Fresh(f)' /\ ~Fresh(f))
    BY <1>1, <1>2, <1>16, <1>17 DEF Through, Fresh
  <2>2. Between(f)' => Between(f) \/ ~Fresh(f)
    BY <1>1, <1>16, <1>17
  <2>3. ASSUME call'[f].use # 0, call'[f].phase \notin Coming
        PROVE  call'[f].phase = "handed" /\ SpawnHanded(f)
    <3>1. call[f].stage = "spawn" /\ c.phase = "handed" /\ ~order.ended
      BY <1>1, <1>2, <1>16, <1>19, <2>3 DEF Coming
    <3>2. NextKey(f) = Spawn(call'[f].use) /\ Spawn(call'[f].use) \in stored'
      BY <1>2, <1>4, <1>5, <3>1 DEF NextKey, disk
    <3>3. \A key \in {NextKey(f)} : (Recorded(Spawn(call[f].use)))' = Recorded(key)
      BY <1>5, <3>2 DEF Recorded, disk
    <3>4. (Recorded(Spawn(call[f].use)))' = c.num
      BY <3>1, <3>3
    <3> QED BY <1>2, <3>1, <3>2, <3>4 DEF SpawnHanded
  <2> QED BY <1>18, <1>19, <2>1, <2>2, <2>3
<1>20. \/ call'[f].use = 0 /\ used' = used /\ call[f].use = 0
       \/ BeginsSpawn(f)
  <2>1. CASE call[f].stage = "own"
    BY <1>2, <1>3, <1>16, <2>1
  <2>2. CASE call[f].stage = "spawn"
    BY <1>2, <1>3, <1>4, <1>5, <1>13, <2>2 DEF BeginsSpawn
  <2> QED BY <1>1, <2>1, <2>2
<1>21. used' = used + IF f \in Flows /\ Spawning(f)' /\ ~Spawning(f) THEN 1 ELSE 0
  <2>1. Spawning(f)' <=> call[f].stage = "spawn"
    BY <1>1, <1>2 DEF Spawning
  <2> QED BY <1>1, <1>3, <1>17, <2>1
<1>22. call'[f].phase = "failing" => order'.ended
  BY <1>2
<1>23. /\ Moves(order, order', n, w) /\ (Undone(order) \ {n}) \ Undone(order') = {}
       /\ order'.open = order'.ended /\ (order'.ended => order.ended) /\ cut' = cut /\ wake' = 0 /\ UNCHANGED given
       /\ (~order'.ended => (order.settling => order'.settling))
       /\ call[f].phase \notin {"held", "due"}
  BY <1>2, <1>3
<1> QED BY ONLY PassInv, PassInv', SteadyInv, f \in Flows, <1>1, <1>7, <1>11, <1>12, <1>14, <1>15, <1>19, <1>20,
                <1>21, <1>22, <1>23, SteadyStays

\* A call of a steady task begins as the task's code runs.
LEMMA SteadyReady ==
  ASSUME PassInv, SteadyInv, NEW f \in Flows, MayCall(f)
  PROVE  call[f].phase = "ready"
<1>1. call[f].phase \in {"timer", "ready"}
  BY BegunIs
<1>2. call[f].stage \in {"own", "spawn"} /\ CallHolds(f) /\ SteadyPhase(f)
  BY CallIs DEF PassInv, CallsHold, SteadyInv
<1> QED BY <1>1, <1>2 DEF CallHolds, SteadyPhase

\* A memoized result.
LEMMA SteadyReplay ==
  ASSUME PassInv, PassInv', Steady, SteadyInv, NEW f \in Flows, CallReplays(f), UNCHANGED given
  PROVE  SteadyInv'
<1> DEFINE num == NumberOf(marker, stored, NextKey(f))
           b == [Begun(f) EXCEPT !.num = num]
           h == [b EXCEPT !.phase = "handed"]
           d == [b EXCEPT !.phase = "held"]
           a == Wait(order, num)
           p == Release(a, num, TRUE)
<1>1. /\ BeginCall(f) /\ MayCall(f) /\ NextKey(f) \in stored
      /\ wake' = (IF wake = f THEN 0 ELSE wake)
      /\ \/ num = 0 /\ Step(Joined(f), f, h, order)
         \/ num # 0 /\ Goes(order, num) /\ Step(Joined(f), f, h, p)
         \/ num # 0 /\ ~Goes(order, num) /\ Step(Joined(f), f, d, a)
  BY DEF CallReplays, BeginCall
<1>2. TypeOK /\ IsOrder(order, MaxSeq) /\ MaxSeq \in Nat
  BY Counts DEF PassInv
<1>3. call[f].phase = "ready"
  BY <1>1, SteadyReady
<1>4. /\ Begun(f) \in Calls /\ Begun(f).stage = call[f].stage /\ Begun(f).marked = call[f].marked
      /\ NextKey(f) \in ToCome
  BY <1>1, BegunIs
<1>5. num \in 0 .. MaxSeq /\ num = Recorded(NextKey(f))
  BY <1>2, RecordedIs DEF Recorded
<1>6. b \in Calls /\ b.num = num /\ b.stage = call[f].stage /\ b.use = Begun(f).use
      /\ b.marked = call[f].marked /\ b.beside = Begun(f).beside
  <2> HIDE DEF num
  <2> QED BY <1>4, <1>5 DEF Calls
<1>7. /\ h \in Calls /\ h.stage = call[f].stage /\ h.use = Begun(f).use /\ h.num = num
      /\ h.beside = Begun(f).beside /\ h.marked = call[f].marked /\ h.phase = "handed"
      /\ d \in Calls /\ d.stage = call[f].stage /\ d.use = Begun(f).use /\ d.num = num
      /\ d.beside = Begun(f).beside /\ d.marked = call[f].marked /\ d.phase = "held"
  <2>1. {"handed", "held"} \subseteq Store \cup Microtask \cup {"timer", "held", "parking", "done"}
    BY DEF Microtask
  <2> HIDE DEF b
  <2> QED BY <1>6, <2>1, PhaseIs
<1>8. order.firstLive \in Nat /\ 1 <= order.firstLive
  BY <1>2 DEF IsOrder, Orders
<1>9. wake' = 0 /\ order.open = order.ended /\ order.skipped = {}
  BY <1>1 DEF SteadyInv
<1>10. num # 0 =>
         /\ num < order.firstLive /\ num \in 1 .. order.next - 1 /\ num \in Undone(order)
         /\ ~IsDone(order, num)
  <2> SUFFICES ASSUME num # 0
               PROVE  /\ num < order.firstLive /\ num \in 1 .. order.next - 1 /\ num \in Undone(order)
                      /\ ~IsDone(order, num)
    OBVIOUS
  <2>1. Recorded(NextKey(f)) < order.firstLive /\ Recorded(NextKey(f)) \in Undone(order)
    BY <1>4, <1>5, <1>9 DEF PassInv, MarkersHold
  <2>2. num \in 1 .. order.next - 1
    BY <1>1, ReplayedIs
  <2> QED BY <1>2, <1>5, <2>1, <2>2, UndoneIs
<1> HIDE DEF h, d, b, num
<1>11. CASE num = 0
  <2>1. Step(Joined(f), f, h, order)
    BY <1>1, <1>11
  <2>2. Moves(order, order, 0, 0) /\ (Undone(order) \ {0}) \ Undone(order) = {}
    BY <1>2, MovesNot
  <2>3. h.num < order.firstLive /\ h.num = 0
    BY <1>7, <1>8, <1>11
  <2> QED BY <1>1, <1>3, <1>5, <1>7, <1>9, <1>11, <2>1, <2>2, <2>3, SteadyBegins
<1>12. CASE num # 0 /\ Goes(order, num)
  <2>1. Step(Joined(f), f, h, p)
    BY <1>1, <1>12
  <2>2. /\ IsOrder(a, MaxSeq) /\ Undone(a) = Undone(order) /\ Same(a, order)
    BY <1>2, <1>12, WaitGoesIs
  <2> HIDE DEF a
  <2>3. num \in 1 .. a.next - 1
    BY <1>10, <1>12, <2>2 DEF Same, SameCalls
  <2>4. /\ IsOrder(p, MaxSeq) /\ Moves(a, p, num, 0) /\ Keeps(a, p)
        /\ p.settling /\ p.waiting = a.waiting
    BY <1>2, <2>2, <2>3, SettledReleaseIs
  <2>5. \A n \in {num} : Undone(Release(a, n, TRUE)) = Undone(a) \ {n}
    <3> TAKE n \in {num}
    <3>1. n \in 1 .. a.next - 1
      BY <2>3
    <3> QED BY <1>2, <2>2, <3>1, SettledReleaseIs
  <2>6. (Undone(order) \ {num}) \ Undone(p) = {}
    BY <2>2, <2>5
  <2> HIDE DEF p
  <2>7. Moves(order, p, num, 0) /\ Moves(order, p, h.num, 0)
    BY <1>2, <1>7, <2>2, <2>4, MovesAfterWait
  <2>8. p.open = p.ended /\ p.ended = order.ended /\ order.waiting \subseteq p.waiting
    BY <1>9, <2>2, <2>4 DEF Keeps, Same, SameCalls
  <2>9. ~order.ended => ~order.settling /\ IsNext(order, num)
    BY <1>2, <1>9, <1>10, <1>12, GoesIs
  <2>10. num \notin Undone(p)
    BY <2>7 DEF Moves
  <2> QED BY <1>1, <1>3, <1>5, <1>7, <1>9, <1>10, <1>12, <2>1, <2>4, <2>6, <2>7, <2>8, <2>9, <2>10, SteadyBegins
<1>13. CASE num # 0 /\ ~Goes(order, num)
  <2>1. Step(Joined(f), f, d, a)
    BY <1>1, <1>13
  <2>2. /\ IsOrder(Wait(order, num), MaxSeq) /\ Moves(order, Wait(order, num), 0, num)
        /\ Undone(Wait(order, num)) = Undone(order) /\ Wait(order, num).settling = order.settling
        /\ Wait(order, num).ended = order.ended /\ ~Wait(order, num).open /\ ~order.open
        /\ Wait(order, num).waiting = order.waiting \cup {num}
    BY <1>2, <1>10, <1>13, WaitHoldsIs
  <2>3. order.open \in BOOLEAN /\ a.open \in BOOLEAN
    BY <1>2, <2>2 DEF IsOrder, Orders
  <2>4. /\ Moves(order, a, 0, num) /\ Undone(a) = Undone(order) /\ a.settling = order.settling
        /\ a.ended = order.ended /\ a.open = a.ended /\ order.waiting \subseteq a.waiting
    BY <1>9, <2>2, <2>3
  <2> HIDE DEF a
  <2>5. (Undone(order) \ {0}) \ Undone(a) = {}
    BY <2>4
  <2> QED BY <1>1, <1>3, <1>5, <1>7, <1>9, <1>10, <1>13, <2>1, <2>4, <2>5, SteadyBegins
<1> QED BY <1>11, <1>12, <1>13

\* An await or a spawn asks the store.
LEMMA SteadyCallAsks ==
  ASSUME PassInv, PassInv', Steady, SteadyInv, NEW f \in Flows, CallAsks(f), UNCHANGED given
  PROVE  SteadyInv'
<1> DEFINE ph == IF order.ended THEN "failing" ELSE "asking"
           c == [Begun(f) EXCEPT !.phase = ph]
<1>1. /\ BeginCall(f) /\ MayCall(f) /\ NextKey(f) \notin stored
      /\ wake' = wake /\ Step(Joined(f), f, c, order)
  BY DEF CallAsks, BeginCall
<1>2. TypeOK /\ IsOrder(order, MaxSeq) /\ MaxSeq \in Nat
  BY Counts DEF PassInv
<1>3. call[f].phase = "ready"
  BY <1>1, SteadyReady
<1>4. /\ Begun(f) \in Calls /\ Begun(f).stage = call[f].stage /\ Begun(f).marked = call[f].marked
      /\ Begun(f).num = 0
  BY <1>1, BegunIs
<1>5. /\ c \in Calls /\ c.stage = call[f].stage /\ c.use = Begun(f).use /\ c.num = 0
      /\ c.beside = Begun(f).beside /\ c.marked = call[f].marked /\ c.phase = ph
  <2>1. ph \in Store \cup Microtask \cup {"timer", "held", "parking", "done"}
    BY DEF Store, Microtask
  <2> HIDE DEF ph
  <2> QED BY <1>4, <2>1, PhaseIs
<1> HIDE DEF c
<1>6. order.firstLive \in Nat /\ 1 <= order.firstLive
  BY <1>2 DEF IsOrder, Orders
<1>7. wake' = 0 /\ order.open = order.ended
  BY <1>1 DEF SteadyInv
<1>8. Moves(order, order, 0, 0) /\ (Undone(order) \ {0}) \ Undone(order) = {}
  BY <1>2, MovesNot
<1>9. c.phase \in {"asking", "failing"} /\ (c.phase = "failing" => order.ended)
      /\ (c.phase = "asking" => ~order.ended)
  BY <1>5
<1> HIDE DEF ph
<1> QED BY <1>1, <1>3, <1>5, <1>6, <1>7, <1>8, <1>9, SteadyBegins

-----------------------------------------------------------------------------
(* The theorems                                                            *)

\* A step that changes nothing keeps the invariant.
LEMMA SteadyStutters ==
  ASSUME UNCHANGED vars, SteadyInv
  PROVE  SteadyInv'
<1>1. /\ given' = given /\ marker' = marker /\ stored' = stored /\ child' = child /\ written' = written
      /\ cut' = cut /\ pass' = pass /\ wake' = wake /\ used' = used /\ order' = order /\ call' = call
  BY DEF vars, disk
<1>2. SteadyDisk'
  <2>1. SteadyDisk
    BY DEF SteadyInv
  <2> QED BY <1>1, <2>1 DEF SteadyDisk, Ranked, OwnNum, Before, Recorded, Alone, MaxSeq, Count
<1>3. ASSUME NEW f \in Flows PROVE SteadyPhase(f)' /\ SteadyResult(f)' /\ SteadySpawn(f)'
  <2>1. SteadyPhase(f) /\ SteadyResult(f) /\ SteadySpawn(f)
    BY DEF SteadyInv
  <2>2. SteadyPhase(f)'
    BY <1>1, <2>1 DEF SteadyPhase, Starting, Pending, Alone
  <2>3. SteadyResult(f)'
    BY <1>1, <2>1 DEF SteadyResult, Recorded, Key, MaxSeq
  <2>4. SteadySpawn(f)'
    BY <1>1, <2>1 DEF SteadySpawn, Ranked, OwnNum, Before, Recorded, Live, OthersHaveSpawned, HasSpawned, Spawning, Count
  <2> QED BY <2>2, <2>3, <2>4
<1>4. Awaited'
  <2>1. Awaited
    BY DEF SteadyInv
  <2> QED BY <1>1, <2>1 DEF Awaited, ToCome, Count, Recorded
<1>5. ~order'.ended => SteadyPass'
  <2>1. ~order.ended => SteadyPass
    BY DEF SteadyInv
  <2> QED BY <1>1, <2>1 DEF SteadyPass, Through, Fresh, Between, Spawning, OwnNum, Recorded, OthersHaveSpawned, HasSpawned,
                            Alone
<1>6. Refused' = {} => SteadyMarkers'
  <2>1. Refused = {} => SteadyMarkers
    BY DEF SteadyInv
  <2>2. SteadyMarkers => SteadyMarkers'
    BY <1>1 DEF SteadyMarkers, Recorded, Key, Live, Crowded, SpawnLater, OwnNum, Between, MaxSeq, Count, Alone
  <2> QED BY <1>1, <2>1, <2>2 DEF Refused
<1>7. order'.skipped = {} /\ ~cut' /\ wake' = 0 /\ order'.open = order'.ended /\ (Starting' => ~order'.ended)
  BY <1>1 DEF SteadyInv, Starting
<1> QED BY <1>2, <1>3, <1>4, <1>5, <1>6, <1>7 DEF SteadyInv

\* What a steady task rules out.
LEMMA SteadyExcludes ==
  ASSUME PassInv, Steady, SteadyInv, NEW f \in Flows
  PROVE  ~CallTakesWake(f) /\ ~CallSleeps(f) /\ ~JoinAnswers(f) /\ ~ReserveAnswers(f) /\ ~HeartbeatFails
<1>1. f # 0 /\ wake = 0 /\ SteadyPhase(f) /\ CallHolds(f) /\ call[f].stage \in {"own", "spawn"}
  BY Counts, CallIs DEF PassInv, CallsHold, SteadyInv
<1>2. ~CallTakesWake(f)
  BY <1>1 DEF CallTakesWake
<1>3. ~CallSleeps(f) /\ ~HeartbeatFails
  BY DEF Steady, CallSleeps, HeartbeatFails
<1>4. ~JoinAnswers(f)
  BY <1>1 DEF JoinAnswers, Answered, SteadyPhase
<1>5. ~ReserveAnswers(f)
  BY <1>1 DEF ReserveAnswers, Answered, SteadyPhase, CallHolds
<1> QED BY <1>2, <1>3, <1>4, <1>5

\* No step of a steady task breaks its invariant.
LEMMA SteadyHolds == PassInv /\ PassInv' /\ (Steady => SteadyInv) /\ [Next]_vars => (Steady => SteadyInv)'
<1> SUFFICES ASSUME PassInv, PassInv', Steady => SteadyInv, [Next]_vars, Steady' PROVE SteadyInv'
  OBVIOUS
<1>1. given' = given
  BY DEF Next, vars
<1>2. Steady /\ SteadyInv
  BY <1>1 DEF Steady, Late, Sleeps, Carried, MayDiffer, HeartbeatMayFail
<1>3. CASE UNCHANGED vars
  BY <1>2, <1>3, SteadyStutters
<1>4. ASSUME NEW f \in Flows, CallStep(f) PROVE SteadyInv'
  BY <1>1, <1>2, <1>4, SteadyExcludes, SteadyReplay, SteadyCallAsks, SteadyContinue, SteadyEnd DEF CallStep
<1>5. ASSUME NEW f \in Flows, StoreStep(f) PROVE SteadyInv'
  BY <1>1, <1>2, <1>5, SteadyExcludes, SteadyAsk, SteadyMark, SteadyStore, SteadyRefuse, SteadyFail DEF StoreStep
<1>6. CASE Turn \/ PumpBeats \/ NewPass
  BY <1>1, <1>2, <1>6, SteadyTurn, SteadyBeat, SteadyNewPass
<1>7. CASE HeartbeatFails
  BY <1>2, <1>7 DEF Steady, HeartbeatFails
<1> QED BY <1>3, <1>4, <1>5, <1>6, <1>7 DEF Next

\* The inductive invariant of a run: what every pass keeps to, and a steady task's passes more.
RunInv == PassInv /\ (Steady => SteadyInv)

\* It is one: it holds at the start and every step keeps it.
LEMMA RunIsInv == Spec => []RunInv
<1>1. Init => RunInv
  BY InitHolds, SteadyInit DEF RunInv
<1>2. RunInv /\ [Next]_vars => RunInv'
  BY PassHolds, SteadyHolds DEF RunInv
<1> QED BY <1>1, <1>2, PTL DEF Spec

\* The invariant that the run checks, of every task, with any number of flows and passes:
\* types and the bound on numbers (DeliveryOrder.assign, reserve), the calls, the
\* markers, no lost wakeup, and what the passes of a steady task agree on.
THEOREM ReplayIsInv == Spec => []ReplayInv
<1>1. RunInv => ReplayInv
  BY NoneWaitsAtTheHead DEF RunInv, PassInv, ReplayInv
<1> QED BY <1>1, RunIsInv, PTL

\* No two flows have the same place in the order of the results.
LEMMA RankIsOnes ==
  ASSUME PassInv, SteadyInv, NEW f \in Flows, NEW g \in Flows, NEW k, Ranked(f, k), Ranked(g, k)
  PROVE  f = g
<1> SUFFICES ASSUME f # g PROVE FALSE
  OBVIOUS
<1>1. ~Alone /\ TypeOK
  BY DEF Alone, PassInv
<1>2. \A h \in {f, g} : Own(h) \in stored /\ OwnNum(h) # 0
  BY <1>1 DEF Ranked, SteadyInv, SteadyDisk
<1>3. \A h \in {f, g} : OwnNum(h) \in 1 .. MaxSeq /\ marker[OwnNum(h)] = Own(h)
  BY <1>1, <1>2, RecordedIs DEF OwnNum
<1>4. OwnNum(f) # OwnNum(g) /\ OwnNum(f) \in Nat /\ OwnNum(g) \in Nat
  <2>1. MaxSeq \in Nat
    BY Counts
  <2> QED BY <1>3, <2>1, KeysDiffer
<1>5. \A h \in Flows : OwnNum(h) \in Nat
  BY <1>1, RecordedIs, Counts DEF OwnNum
<1>6. \A a, b \in {f, g} : ~(OwnNum(a) < OwnNum(b))
  <2> SUFFICES ASSUME NEW a \in {f, g}, NEW b \in {f, g}, OwnNum(a) < OwnNum(b) PROVE FALSE
    OBVIOUS
  <2>1. Before(a) \subseteq Before(b) /\ Before(b) \subseteq Flows
    BY <1>5 DEF Before
  <2>2. b \in Before(b) /\ b \notin Before(a)
    BY <1>2, <1>5 DEF Before
  <2>3. IsFiniteSet(Before(b))
    BY <2>1, Counts
  <2>4. Cardinality(Before(a)) = Cardinality(Before(b))
    BY DEF Ranked
  <2>5. Before(a) \in SUBSET Before(b)
    BY <2>1
  <2> HIDE DEF Before
  <2> QED BY <2>2, <2>3, <2>4, <2>5, FS_Subset
<1> QED BY <1>4, <1>6

\* A spawn's result is handed to the flow that ranks where the child does.
LEMMA OwnIsGot == RunInv => EachFlowGetsItsOwn
<1> SUFFICES ASSUME RunInv, NEW f \in Flows, Steady, call[f].stage = "spawn", call[f].phase = "handed", ~order.ended
             PROVE  child[call[f].use] = f
  BY DEF EachFlowGetsItsOwn
<1>1. PassInv /\ SteadyInv /\ SteadyDisk /\ SteadySpawn(f)
  BY DEF RunInv, SteadyInv
<1>2. call[f].use \in 1 .. Count
  BY <1>1, KeyIs DEF PassInv
<1>3. call[f].use # 0
  BY <1>2, Counts
<1>4. Ranked(f, call[f].use) /\ child[call[f].use] # 0
  BY <1>1, <1>3 DEF SteadySpawn
<1>5. Ranked(child[call[f].use], call[f].use) /\ child[call[f].use] \in Flows
  <2>1. child \in [1 .. Count -> Flows \cup {0}]
    BY <1>1 DEF PassInv, TypeOK, Count
  <2> QED BY <1>1, <1>2, <1>4, <2>1 DEF SteadyDisk
<1> QED BY <1>1, <1>4, <1>5, RankIsOnes

\* A flow of a steady task is handed the child that it spawned, in whatever pass it asks
\* and whatever pass created it: every replay makes the calls under the shared task
\* name in the order the first pass made them (context.ts storageName, #turnOf).
THEOREM FlowsGetTheirOwn == Spec => []EachFlowGetsItsOwn
<1> QED BY OwnIsGot, RunIsInv, PTL

\* The markers of a steady task name what was written.
LEMMA ResultsAreAsWritten == RunInv => MarkersNameTheirResults
<1> SUFFICES ASSUME RunInv, Steady, Refused = {}, NEW key \in stored
             PROVE  NumberOf(marker, stored, key) = written[key]
  BY DEF MarkersNameTheirResults, AsWritten
<1>1. key \in Keys /\ SteadyMarkers
  BY DEF RunInv, PassInv, TypeOK, SteadyInv
<1> QED BY <1>1 DEF SteadyMarkers, Recorded

\* Where no result is refused, a replay of a steady task finds a stored result under the
\* number of the pass that stored it, and under none if that pass recorded none: what
\* a pass marked and did not store misleads nobody (context.ts #readOrder).
THEOREM MarkersNameResults == Spec => []MarkersNameTheirResults
<1> QED BY ResultsAreAsWritten, RunIsInv, PTL

\* A steady task is never held by a number that nobody asks for, so no beat gives up a
\* recorded one, for any number of flows and of passes (DeliveryOrder.beat).
THEOREM NothingIsGivenUp == Spec => []NothingRecordedIsGivenUp
<1>1. RunInv => NothingRecordedIsGivenUp
  BY DEF RunInv, SteadyInv, NothingRecordedIsGivenUp
<1> QED BY <1>1, RunIsInv, PTL
=============================================================================
