---------------------------- MODULE WebhooksProofs ----------------------------
(***************************************************************************)
(* Proofs about Webhooks, for any set of hooks and any cap of the queues.  *)
(* The heart of the inductive invariant is what links a delivery in flight *)
(* to its queue: the event being delivered is the head, unless it was      *)
(* pushed out of a full queue in the meantime, and counted as dropped.     *)
(***************************************************************************)
EXTENDS Webhooks, TLAPS

\* A sequence of some of the numbers up to n, in their order.
Increasing(q, n) ==
  /\ q \in Seq(1..n)
  /\ \A i, j \in 1..Len(q) : i < j => q[i] < q[j]

\* One box, when n events have been emitted.
BoxOK(b, n) ==
  /\ b \in Box
  /\ Increasing(b.queue, n) /\ Len(b.queue) <= MaxQueue
  /\ \A d \in b.delivered \cup b.dropped : d <= n
  /\ Sending(b) => /\ b.queue # <<>>
                   /\ b.item = Head(b.queue) \/ (b.crossed /\ b.item \in b.dropped)

\* What NeverStalls says of the box of a registered hook.
Flows(b) ==
  /\ b.queue # <<>> => Sending(b) \/ b.timer = "armed"
  /\ ~(Sending(b) /\ b.timer # "none")
  /\ b.timer # "cleared"

BoxesOK == \A b \in Boxes : BoxOK(box[b], emitted)

\* The boxes not made yet are blank.
Unmade == \A h \in Hooks, g \in 1..MaxBoxes : made[h] < g => box[<<h, g>>] = Blank

Inv ==
  /\ TypeOK
  /\ BoxesOK
  /\ Unmade
  /\ NeverStalls

-----------------------------------------------------------------------------
(* One box *)

LEMMA BlankOK == ASSUME NEW n \in Nat PROVE BoxOK(Blank, n) /\ Flows(Blank)
<1>1. Blank \in Box
  BY BoundsAssumption DEF Blank, Box
<1>2. Increasing(<<>>, n) /\ Len(<<>>) <= MaxQueue
  BY QueueAssumption DEF Increasing
<1> QED BY <1>1, <1>2 DEF BoxOK, Flows, Sending, Blank

\* Starting a delivery touches nothing but the event in flight.
LEMMA PumpFacts ==
  ASSUME NEW b \in Box
  PROVE  /\ Pump(b) \in Box
         /\ Pump(b).queue = b.queue /\ Pump(b).timer = b.timer
         /\ Pump(b).delivered = b.delivered /\ Pump(b).dropped = b.dropped
         /\ Pump(b).crossed = b.crossed
         /\ IF PumpBlocked(b) THEN Pump(b).item = b.item
            ELSE b.queue # <<>> /\ Pump(b).item = Head(b.queue)
<1>1. CASE PumpBlocked(b)
  BY <1>1 DEF Pump
<1>2. CASE ~PumpBlocked(b)
  <2>1. b.queue # <<>> /\ b.queue \in Seq(Events)
    BY <1>2 DEF PumpBlocked, Box
  <2>2. Head(b.queue) \in 0..MaxEvents
    BY <2>1, BoundsAssumption DEF Events
  <2> QED BY <1>2, <2>1, <2>2 DEF Pump, Box
<1> QED BY <1>1, <1>2

LEMMA TailIncreasing ==
  ASSUME NEW n \in Nat, NEW q, Increasing(q, n), q # <<>>
  PROVE  /\ Increasing(Tail(q), n) /\ Len(Tail(q)) = Len(q) - 1
         /\ Head(q) \in 1..n
<1>1. q \in Seq(1..n)
  BY DEF Increasing
<1>2. Tail(q) \in Seq(1..n) /\ Len(Tail(q)) = Len(q) - 1 /\ Head(q) \in 1..n
  BY <1>1
<1>3. \A i \in 1..Len(Tail(q)) : Tail(q)[i] = q[i + 1] /\ i + 1 \in 1..Len(q)
  BY <1>1, <1>2
<1> QED BY <1>2, <1>3 DEF Increasing

LEMMA IncreasingLater ==
  ASSUME NEW n \in Nat, NEW q, Increasing(q, n)
  PROVE  Increasing(q, n + 1)
<1>1. q \in Seq(1..n) /\ 1..n \subseteq 1..(n + 1)
  BY DEF Increasing
<1>2. q \in Seq(1..(n + 1))
  BY <1>1
<1> QED BY <1>2 DEF Increasing

LEMMA AppendIncreasing ==
  ASSUME NEW n \in Nat, NEW q, Increasing(q, n), NEW r, r = Append(q, n + 1)
  PROVE  /\ Increasing(r, n + 1) /\ Len(r) = Len(q) + 1 /\ r # <<>>
         /\ q # <<>> => Head(r) = Head(q)
<1>1. q \in Seq(1..n) /\ q \in Seq(1..(n + 1))
  BY DEF Increasing
<1>2. r \in Seq(1..(n + 1)) /\ Len(r) = Len(q) + 1 /\ r # <<>>
  BY <1>1
<1>3. /\ \A i \in 1..Len(q) : r[i] = q[i] /\ q[i] \in 1..n
      /\ r[Len(q) + 1] = n + 1
  BY <1>1
<1>4. q # <<>> => Head(r) = Head(q)
  BY <1>1
<1>5. ASSUME NEW i \in 1..Len(r), NEW j \in 1..Len(r), i < j PROVE r[i] < r[j]
  <2>1. i \in 1..Len(q) /\ (j \in 1..Len(q) \/ j = Len(q) + 1)
    <3>1. Len(q) \in Nat /\ Len(r) = Len(q) + 1
      BY <1>1, <1>2
    <3>2. i \in Nat /\ j \in Nat /\ 1 <= i /\ 1 <= j /\ i <= Len(r) /\ j <= Len(r)
      OBVIOUS
    <3> QED BY <1>5, <3>1, <3>2
  <2>2. r[i] = q[i] /\ q[i] \in 1..n
    BY <1>3, <2>1
  <2>3. CASE j \in 1..Len(q)
    <3>1. q[i] < q[j]
      BY <1>5, <2>1, <2>3 DEF Increasing
    <3> QED BY <1>3, <2>2, <2>3, <3>1
  <2>4. CASE j = Len(q) + 1
    BY <1>3, <2>2, <2>4
  <2> QED BY <2>1, <2>3, <2>4
<1> QED BY <1>2, <1>4, <1>5 DEF Increasing

\* An event is offered: a full queue loses its head first.
LEMMA EnqueueFacts ==
  ASSUME NEW b \in Box, NEW e \in Events
  PROVE  LET c == Enqueue(b, e) IN
         /\ c \in Box
         /\ c.timer = b.timer /\ c.delivered = b.delivered
         /\ Len(b.queue) < MaxQueue =>
              /\ c.queue = Append(b.queue, e)
              /\ c.dropped = b.dropped /\ c.crossed = b.crossed
         /\ ~(Len(b.queue) < MaxQueue) =>
              /\ c.queue = Append(Tail(b.queue), e)
              /\ c.dropped = b.dropped \cup {Head(b.queue)}
              /\ b.crossed \/ Sending(b) => c.crossed
         /\ IF Sending(b) \/ b.timer # "none" THEN c.item = b.item
            ELSE c.item = Head(c.queue)
<1> DEFINE t == Trim(b)
           a == [t EXCEPT !.queue = Append(@, e), !.offered = @ \cup {e}]
<1>1. /\ t \in Box /\ t.item = b.item /\ t.timer = b.timer /\ t.delivered = b.delivered
      /\ Len(b.queue) < MaxQueue => t = b
      /\ ~(Len(b.queue) < MaxQueue) =>
           /\ t.queue = Tail(b.queue)
           /\ t.dropped = b.dropped \cup {Head(b.queue)}
           /\ b.crossed \/ Sending(b) => t.crossed
  <2>1. CASE Len(b.queue) < MaxQueue
    BY <2>1 DEF Trim
  <2>2. CASE ~(Len(b.queue) < MaxQueue)
    <3>1. b.queue \in Seq(Events) /\ b.queue # <<>>
      BY <2>2, QueueAssumption DEF Box
    <3>2. Tail(b.queue) \in Seq(Events) /\ Head(b.queue) \in Events
      BY <3>1
    <3>3. PICK x \in BOOLEAN : x = (b.crossed \/ Sending(b))
      BY DEF Box
    <3>4. t = [b EXCEPT !.queue = Tail(b.queue), !.again = FALSE, !.crossed = x,
                        !.dropped = b.dropped \cup {Head(b.queue)}]
      BY <2>2, <3>3 DEF Trim
    <3> HIDE DEF t
    <3> QED BY <2>2, <3>2, <3>3, <3>4 DEF Box
  <2> QED BY <2>1, <2>2
<1> HIDE DEF t
<1>2. /\ a \in Box /\ a.queue = Append(t.queue, e) /\ a.item = t.item
      /\ a.timer = t.timer /\ a.delivered = t.delivered /\ a.dropped = t.dropped
      /\ a.crossed = t.crossed
  <2>1. /\ Append(t.queue, e) \in Seq(Events)
        /\ t.offered \cup {e} \in SUBSET Events
    BY <1>1 DEF Box
  <2> QED BY <1>1, <2>1 DEF Box
<1>3. Enqueue(b, e) = Pump(a)
  BY DEF Enqueue, t
<1>4. a.queue # <<>>
  BY <1>1, <1>2 DEF Box
<1> HIDE DEF a
<1>5. PumpBlocked(a) <=> Sending(b) \/ b.timer # "none"
  BY <1>1, <1>2, <1>4 DEF PumpBlocked, Sending
<1> DEFINE c == Pump(a)
<1>6. /\ c \in Box /\ c.timer = a.timer /\ c.delivered = a.delivered
      /\ c.queue = a.queue /\ c.dropped = a.dropped /\ c.crossed = a.crossed
      /\ c.item = IF PumpBlocked(a) THEN a.item ELSE Head(a.queue)
  BY <1>2, PumpFacts
<1> HIDE DEF c
<1>7. /\ Len(b.queue) < MaxQueue =>
           /\ c.queue = Append(b.queue, e)
           /\ c.dropped = b.dropped /\ c.crossed = b.crossed
      /\ ~(Len(b.queue) < MaxQueue) =>
           /\ c.queue = Append(Tail(b.queue), e)
           /\ c.dropped = b.dropped \cup {Head(b.queue)}
           /\ b.crossed \/ Sending(b) => c.crossed
  BY <1>1, <1>2, <1>6
<1>8. c.timer = b.timer /\ c.delivered = b.delivered
  BY <1>1, <1>2, <1>6
<1>9. IF Sending(b) \/ b.timer # "none" THEN c.item = b.item
      ELSE c.item = Head(c.queue)
  BY <1>1, <1>2, <1>5, <1>6
<1> QED BY <1>3, <1>6, <1>7, <1>8, <1>9 DEF c

\* A delivery ends, with an answer or given up: the head of the queue goes,
\* whatever it is by now.
LEMMA ShiftFacts ==
  ASSUME NEW b \in Box, b.queue # <<>>, Sending(b), NEW c,
         c = Succeed(b) \/ c = GiveUp(b)
  PROVE  /\ c \in Box
         /\ c.queue = Tail(b.queue) /\ c.timer = b.timer /\ c.crossed = b.crossed
         /\ \/ c.delivered = b.delivered \cup {b.item} /\ c.dropped = b.dropped
            \/ c.dropped = b.dropped \cup {b.item} /\ c.delivered = b.delivered
         /\ IF c.queue = <<>> \/ c.timer # "none" THEN c.item = 0
            ELSE c.item = Head(c.queue)
<1> DEFINE s == [b EXCEPT !.queue = Tail(@), !.item = 0, !.again = FALSE,
                          !.delivered = @ \cup {b.item}]
           g == [b EXCEPT !.queue = Tail(@), !.item = 0, !.again = FALSE,
                          !.dropped = @ \cup {b.item}]
<1>1. /\ Tail(b.queue) \in Seq(Events) /\ b.item \in Events
      /\ 0 \in 0..MaxEvents
  BY BoundsAssumption DEF Box, Sending, Events
<1>2. /\ s \in Box /\ s.queue = Tail(b.queue) /\ s.timer = b.timer /\ s.crossed = b.crossed
      /\ s.item = 0 /\ s.delivered = b.delivered \cup {b.item} /\ s.dropped = b.dropped
  BY <1>1 DEF Box
<1>3. /\ g \in Box /\ g.queue = Tail(b.queue) /\ g.timer = b.timer /\ g.crossed = b.crossed
      /\ g.item = 0 /\ g.dropped = b.dropped \cup {b.item} /\ g.delivered = b.delivered
  BY <1>1 DEF Box
<1>4. Succeed(b) = Pump(s) /\ GiveUp(b) = Pump(g)
  BY DEF Succeed, GiveUp
<1> HIDE DEF s, g
<1>5. CASE c = Succeed(b)
  BY <1>2, <1>4, <1>5, PumpFacts DEF PumpBlocked, Sending
<1>6. CASE c = GiveUp(b)
  BY <1>3, <1>4, <1>6, PumpFacts DEF PumpBlocked, Sending
<1> QED BY <1>5, <1>6

-----------------------------------------------------------------------------
(* What the operations do to the invariant of a box *)

LEMMA EnqueueOK ==
  ASSUME NEW n \in Nat, NEW e \in Events, e = n + 1, NEW b, BoxOK(b, n),
         NEW c, c = Enqueue(b, e)
  PROVE  /\ BoxOK(c, e)
         /\ Flows(b) => Flows(c)
<1>1. b \in Box /\ b.delivered \subseteq Events /\ b.dropped \subseteq Events
  BY DEF BoxOK, Box
<1>2. /\ c \in Box
      /\ c.timer = b.timer /\ c.delivered = b.delivered
      /\ Len(b.queue) < MaxQueue =>
           c.queue = Append(b.queue, e) /\ c.dropped = b.dropped /\ c.crossed = b.crossed
      /\ ~(Len(b.queue) < MaxQueue) =>
           /\ c.queue = Append(Tail(b.queue), e)
           /\ c.dropped = b.dropped \cup {Head(b.queue)}
           /\ b.crossed \/ Sending(b) => c.crossed
      /\ IF Sending(b) \/ b.timer # "none" THEN c.item = b.item
         ELSE c.item = Head(c.queue)
  BY <1>1, EnqueueFacts
<1>3. CASE Len(b.queue) < MaxQueue
  <2>1. /\ Increasing(c.queue, e) /\ Len(c.queue) <= MaxQueue /\ c.queue # <<>>
        /\ b.queue # <<>> => Head(c.queue) = Head(b.queue)
    <3>1. Increasing(b.queue, n) /\ Len(b.queue) \in Nat
      BY DEF BoxOK, Increasing
    <3> QED BY <1>2, <1>3, <3>1, AppendIncreasing, QueueAssumption
  <2>2. \A d \in c.delivered \cup c.dropped : d <= e
    BY <1>1, <1>2, <1>3 DEF BoxOK, Events
  <2>3. Sending(c) => c.item = Head(c.queue) \/ (c.crossed /\ c.item \in c.dropped)
    BY <1>2, <1>3, <2>1 DEF BoxOK, Sending
  <2>4. BoxOK(c, e)
    BY <1>2, <2>1, <2>2, <2>3 DEF BoxOK
  <2>5. Flows(b) => Flows(c)
    <3>1. Head(c.queue) # 0
      BY <2>1, TailIncreasing
    <3> QED BY <1>2, <3>1, <2>1 DEF Flows, Sending, Box
  <2> QED BY <2>4, <2>5
<1>4. CASE ~(Len(b.queue) < MaxQueue)
  <2>1. b.queue # <<>> /\ Len(b.queue) = MaxQueue
    BY <1>1, <1>4, QueueAssumption DEF BoxOK, Increasing
  <2>2. /\ Increasing(Tail(b.queue), n) /\ Len(Tail(b.queue)) = MaxQueue - 1
        /\ Head(b.queue) \in 1..n
    BY <2>1, TailIncreasing DEF BoxOK
  <2>3. /\ Increasing(c.queue, e) /\ Len(c.queue) <= MaxQueue /\ c.queue # <<>>
    <3>1. c.queue = Append(Tail(b.queue), n + 1)
      BY <1>2, <1>4
    <3>2. /\ Increasing(c.queue, n + 1) /\ c.queue # <<>>
          /\ Len(c.queue) = Len(Tail(b.queue)) + 1
      BY <2>2, <3>1, AppendIncreasing
    <3> QED BY <2>2, <3>2, QueueAssumption
  <2>4. \A d \in c.delivered \cup c.dropped : d <= e
    BY <1>1, <1>2, <1>4, <2>2 DEF BoxOK, Events
  <2>5. Sending(c) => c.item = Head(c.queue) \/ (c.crossed /\ c.item \in c.dropped)
    BY <1>2, <1>4, <2>1 DEF BoxOK, Sending
  <2>6. BoxOK(c, e)
    BY <1>2, <2>3, <2>4, <2>5 DEF BoxOK
  <2>7. Flows(b) => Flows(c)
    <3>1. Head(c.queue) # 0
      BY <2>3, TailIncreasing
    <3> QED BY <1>2, <3>1, <2>3 DEF Flows, Sending, Box
  <2> QED BY <2>6, <2>7
<1> QED BY <1>3, <1>4

LEMMA ShiftOK ==
  ASSUME NEW n \in Nat, NEW b, BoxOK(b, n), Sending(b),
         NEW c, c = Succeed(b) \/ c = GiveUp(b), b.item <= n
  PROVE  /\ BoxOK(c, n)
         /\ Flows(b) => Flows(c)
<1>1. b \in Box /\ b.queue # <<>> /\ Increasing(b.queue, n)
  BY DEF BoxOK
<1>2. /\ c \in Box
      /\ c.queue = Tail(b.queue) /\ c.timer = b.timer /\ c.crossed = b.crossed
      /\ \/ c.delivered = b.delivered \cup {b.item} /\ c.dropped = b.dropped
         \/ c.dropped = b.dropped \cup {b.item} /\ c.delivered = b.delivered
      /\ IF c.queue = <<>> \/ c.timer # "none" THEN c.item = 0
         ELSE c.item = Head(c.queue)
  BY <1>1, ShiftFacts
<1>3. /\ Increasing(c.queue, n) /\ Len(c.queue) <= MaxQueue
      /\ c.queue # <<>> => Head(c.queue) # 0
  <2>1. Increasing(c.queue, n) /\ Len(c.queue) = Len(b.queue) - 1
    BY <1>1, <1>2, TailIncreasing
  <2>2. Len(b.queue) \in Nat /\ Len(b.queue) <= MaxQueue
    BY DEF BoxOK, Increasing
  <2>3. c.queue # <<>> => Head(c.queue) \in 1..n
    BY <2>1, TailIncreasing
  <2> QED BY <2>1, <2>2, <2>3, QueueAssumption
<1>4. \A d \in c.delivered \cup c.dropped : d <= n
  BY <1>2 DEF BoxOK
<1>5. BoxOK(c, n)
  BY <1>2, <1>3, <1>4 DEF BoxOK, Sending
<1>6. Flows(b) => Flows(c)
  BY <1>2, <1>3 DEF Flows, Sending, Box
<1> QED BY <1>5, <1>6

\* Waiting for the timer and starting again leave the queue and what became of
\* its events alone.
LEMMA RetryFacts ==
  ASSUME NEW b \in Box, Sending(b), NEW c, c = RetryLater(b)
  PROVE  /\ c \in Box /\ c.item = 0 /\ c.timer = "armed"
         /\ c.queue = b.queue /\ c.delivered = b.delivered
         /\ c.dropped = b.dropped /\ c.crossed = b.crossed
<1> DEFINE again == Head(b.queue) = b.item
<1>1. again \in BOOLEAN /\ 0 \in 0..MaxEvents
  BY BoundsAssumption
<1>2. c = [b EXCEPT !.item = 0, !.timer = "armed", !.again = again]
  BY DEF RetryLater
<1> HIDE DEF again
<1> QED BY <1>1, <1>2 DEF Box

LEMMA RetryOK ==
  ASSUME NEW n \in Nat, NEW b, BoxOK(b, n), Sending(b), NEW c, c = RetryLater(b)
  PROVE  BoxOK(c, n) /\ Flows(c)
BY RetryFacts DEF BoxOK, Sending, Flows

LEMMA DueFacts ==
  ASSUME NEW b \in Box, b.timer = "armed", NEW c, c = Due(b)
  PROVE  /\ c \in Box /\ c.timer = "none"
         /\ c.queue = b.queue /\ c.delivered = b.delivered
         /\ c.dropped = b.dropped /\ c.crossed = b.crossed
         /\ IF Sending(b) \/ b.queue = <<>> THEN c.item = b.item
            ELSE c.item = Head(b.queue)
<1> DEFINE d == [b EXCEPT !.timer = "none"]
<1>1. /\ d \in Box /\ d.timer = "none" /\ d.queue = b.queue /\ d.item = b.item
      /\ d.delivered = b.delivered /\ d.dropped = b.dropped /\ d.crossed = b.crossed
  BY DEF Box
<1>2. c = Pump(d)
  BY DEF Due
<1> HIDE DEF d
<1> QED BY <1>1, <1>2, PumpFacts DEF PumpBlocked, Sending

LEMMA DueOK ==
  ASSUME NEW n \in Nat, NEW b, BoxOK(b, n), b.timer = "armed", NEW c, c = Due(b)
  PROVE  /\ BoxOK(c, n)
         /\ Flows(b) => Flows(c)
<1>1. b \in Box
  BY DEF BoxOK
<1>2. b.queue # <<>> => Head(b.queue) # 0
  BY TailIncreasing DEF BoxOK
<1> QED BY <1>1, <1>2, DueFacts DEF BoxOK, Sending, Flows

LEMMA ClearOK ==
  ASSUME NEW n \in Nat, NEW b, BoxOK(b, n), NEW c, c = ClearTimer(b)
  PROVE  /\ BoxOK(c, n)
         /\ c.queue = b.queue /\ c.delivered = b.delivered
         /\ c.dropped = b.dropped /\ c.crossed = b.crossed
<1>1. b \in Box
  BY DEF BoxOK
<1>2. /\ c \in Box /\ c.item = b.item /\ c.queue = b.queue
      /\ c.delivered = b.delivered /\ c.dropped = b.dropped /\ c.crossed = b.crossed
  BY <1>1 DEF ClearTimer, Box
<1> QED BY <1>2 DEF BoxOK, Sending

-----------------------------------------------------------------------------
(* The steps *)

\* A step of one box.
LEMMA OneBoxKeepsInv ==
  ASSUME Inv, NEW h \in Hooks, NEW g \in 1..MaxBoxes, NEW c,
         box' = [box EXCEPT ![<<h, g>>] = c],
         BoxOK(c, emitted), box[<<h, g>>] # Blank,
         Flows(box[<<h, g>>]) => Flows(c),
         UNCHANGED <<registered, made, emitted, old>>
  PROVE  Inv'
<1>1. <<h, g>> \in Boxes /\ box \in [Boxes -> Box] /\ c \in Box
  BY DEF Boxes, Inv, TypeOK, BoxOK
<1>2. /\ box' \in [Boxes -> Box] /\ box'[<<h, g>>] = c
      /\ \A b \in Boxes : b # <<h, g>> => box'[b] = box[b]
  BY <1>1
<1>3. TypeOK'
  BY <1>2 DEF Inv, TypeOK
<1>4. BoxesOK'
  BY <1>2 DEF Inv, BoxesOK
<1>5. Unmade'
  BY <1>2 DEF Inv, Unmade, Boxes
<1>6. NeverStalls'
  <2>1. ASSUME NEW k \in registered PROVE Flows(box'[Current(k)])
    <3>1. Flows(box[Current(k)]) /\ Current(k) \in Boxes
      BY BoundsAssumption DEF Inv, TypeOK, NeverStalls, Flows, Current, Boxes
    <3> QED BY <1>2, <3>1
  <2> QED BY <2>1 DEF NeverStalls, Flows, Current
<1> QED BY <1>3, <1>4, <1>5, <1>6 DEF Inv

LEMMA BoxAt ==
  ASSUME Inv, NEW h \in Hooks, NEW g \in 1..MaxBoxes
  PROVE  /\ <<h, g>> \in Boxes /\ BoxOK(box[<<h, g>>], emitted)
         /\ box[<<h, g>>] \in Box /\ emitted \in Nat /\ old \in Nat /\ old <= emitted
BY BoundsAssumption DEF Boxes, Inv, BoxesOK, BoxOK, TypeOK

LEMMA BlankRests == ~Sending(Blank) /\ Blank.timer = "none"
BY DEF Blank, Sending

\* The event in flight has happened.
LEMMA InFlight ==
  ASSUME NEW n \in Nat, NEW b, BoxOK(b, n), Sending(b)
  PROVE  b.item <= n /\ b.item \in Events
<1>1. Head(b.queue) \in 1..n
  BY TailIncreasing DEF BoxOK
<1>2. b.item <= n
  BY <1>1 DEF BoxOK
<1> QED BY <1>2, BoundsAssumption DEF BoxOK, Box, Sending, Events

LEMMA AnsweredKeepsInv ==
  ASSUME Inv, NEW h \in Hooks, NEW g \in 1..MaxBoxes, Answered(h, g)
  PROVE  Inv'
<1> DEFINE b == box[<<h, g>>]
<1>1. BoxOK(b, emitted) /\ emitted \in Nat
  BY BoxAt
<1>2. Sending(b) /\ b # Blank
  BY BlankRests DEF Answered
<1>3. b.item <= emitted
  BY <1>1, <1>2, InFlight
<1>4. BoxOK(Succeed(b), emitted) /\ (Flows(b) => Flows(Succeed(b)))
  BY <1>1, <1>2, <1>3, ShiftOK
<1>5. box' = [box EXCEPT ![<<h, g>>] = Succeed(b)] /\ UNCHANGED <<registered, made, emitted, old>>
  BY DEF Answered
<1> QED BY <1>2, <1>4, <1>5, OneBoxKeepsInv

LEMMA FailedKeepsInv ==
  ASSUME Inv, NEW h \in Hooks, NEW g \in 1..MaxBoxes, Failed(h, g)
  PROVE  Inv'
<1> DEFINE b == box[<<h, g>>]
           c == IF TooOld(b) THEN GiveUp(b) ELSE RetryLater(b)
<1>1. BoxOK(b, emitted) /\ emitted \in Nat
  BY BoxAt
<1>2. Sending(b) /\ b # Blank
  BY BlankRests DEF Failed
<1>3. b.item <= emitted
  BY <1>1, <1>2, InFlight
<1>4. BoxOK(c, emitted) /\ (Flows(b) => Flows(c))
  BY <1>1, <1>2, <1>3, ShiftOK, RetryOK
<1>5. box' = [box EXCEPT ![<<h, g>>] = c] /\ UNCHANGED <<registered, made, emitted, old>>
  BY DEF Failed
<1> HIDE DEF c
<1> QED BY <1>2, <1>4, <1>5, OneBoxKeepsInv

LEMMA TimerKeepsInv ==
  ASSUME Inv, NEW h \in Hooks, NEW g \in 1..MaxBoxes, TimerFires(h, g)
  PROVE  Inv'
<1> DEFINE b == box[<<h, g>>]
<1>1. BoxOK(b, emitted) /\ emitted \in Nat
  BY BoxAt
<1>2. b.timer = "armed" /\ b # Blank
  BY BlankRests DEF TimerFires
<1>3. BoxOK(Due(b), emitted) /\ (Flows(b) => Flows(Due(b)))
  BY <1>1, <1>2, DueOK
<1>4. box' = [box EXCEPT ![<<h, g>>] = Due(b)] /\ UNCHANGED <<registered, made, emitted, old>>
  BY DEF TimerFires
<1> QED BY <1>2, <1>3, <1>4, OneBoxKeepsInv

LEMMA CurrentIsBox ==
  ASSUME Inv, NEW h \in registered
  PROVE  /\ h \in Hooks /\ made[h] \in 1..MaxBoxes /\ Current(h) \in Boxes
         /\ Flows(box[Current(h)])
BY BoundsAssumption DEF Inv, TypeOK, NeverStalls, Flows, Current, Boxes

LEMMA EmitKeepsInv ==
  ASSUME Inv, NEW matching \in SUBSET Hooks, Emit(matching)
  PROVE  Inv'
<1> DEFINE e == emitted + 1
           told(b) == b[1] \in matching /\ b = Current(b[1])
<1>1. /\ emitted \in Nat /\ e \in Events /\ e \in Nat /\ emitted' = e
      /\ UNCHANGED <<registered, made, old>> /\ matching \subseteq registered
  BY BoundsAssumption DEF Emit, Inv, TypeOK, Events
<1>2. box' = [b \in Boxes |-> IF told(b) THEN Enqueue(box[b], e) ELSE box[b]]
  BY DEF Emit
<1>3. \A b \in Boxes : BoxOK(box[b], emitted)
  BY DEF Inv, BoxesOK
<1>4. ASSUME NEW b \in Boxes
      PROVE  BoxOK(box'[b], e) /\ (Flows(box[b]) => Flows(box'[b]))
  <2>1. CASE told(b)
    BY <1>1, <1>2, <1>3, <2>1, EnqueueOK
  <2>2. CASE ~told(b)
    <3>1. box'[b] = box[b] /\ BoxOK(box[b], emitted)
      BY <1>2, <1>3, <2>2
    <3>2. Increasing(box[b].queue, e)
      BY <1>1, <3>1, IncreasingLater DEF BoxOK
    <3>3. box[b].delivered \subseteq Nat /\ box[b].dropped \subseteq Nat
      BY <3>1 DEF BoxOK, Box, Events
    <3> QED BY <1>1, <3>1, <3>2, <3>3 DEF BoxOK
  <2> QED BY <2>1, <2>2
<1>5. TypeOK'
  <2>1. box' \in [Boxes -> Box]
    BY <1>2, <1>4 DEF BoxOK
  <2>2. e \in 0..MaxEvents /\ old \in 0..e
    BY <1>1 DEF Inv, TypeOK, Events
  <2> QED BY <1>1, <2>1, <2>2 DEF Inv, TypeOK
<1>6. BoxesOK'
  BY <1>1, <1>4 DEF BoxesOK
<1>7. Unmade'
  <2> SUFFICES ASSUME NEW h \in Hooks, NEW g \in 1..MaxBoxes, made[h] < g
               PROVE  box'[<<h, g>>] = Blank
    BY <1>1 DEF Unmade
  <2>1. <<h, g>> \in Boxes /\ <<h, g>> # Current(h) /\ box[<<h, g>>] = Blank
    BY DEF Boxes, Current, Inv, TypeOK, Unmade
  <2> QED BY <1>2, <2>1
<1>8. NeverStalls'
  <2>1. ASSUME NEW h \in registered PROVE Flows(box'[Current(h)])
    BY <1>4, CurrentIsBox
  <2> QED BY <1>1, <2>1 DEF NeverStalls, Flows, Current
<1> QED BY <1>5, <1>6, <1>7, <1>8 DEF Inv

LEMMA PutKeepsInv ==
  ASSUME Inv, NEW h \in Hooks, Put(h)
  PROVE  Inv'
<1>1. /\ registered' = registered \cup {h} /\ made' = [made EXCEPT ![h] = @ + 1]
      /\ made \in [Hooks -> 0..MaxBoxes] /\ made[h] + 1 \in 1..MaxBoxes
      /\ UNCHANGED <<box, emitted, old>>
  BY BoundsAssumption DEF Put, Inv, TypeOK
<1>2. TypeOK'
  BY <1>1 DEF Inv, TypeOK
<1>3. BoxesOK' /\ Unmade'
  BY <1>1 DEF Inv, BoxesOK, Unmade
<1>4. NeverStalls'
  <2>1. ASSUME NEW k \in registered' PROVE Flows(box[<<k, made'[k]>>])
    <3>1. CASE k = h
      <4>1. box[<<h, made'[h]>>] = Blank
        BY <1>1 DEF Inv, Unmade
      <4> QED BY <3>1, <4>1, BlankOK
    <3>2. CASE k # h
      <4>1. k \in registered /\ k \in Hooks /\ made'[k] = made[k]
        BY <1>1, <3>2 DEF Inv, TypeOK
      <4> QED BY <4>1, CurrentIsBox DEF Current
    <3> QED BY <3>1, <3>2
  <2> QED BY <1>1, <2>1 DEF NeverStalls, Flows, Current
<1> QED BY <1>2, <1>3, <1>4 DEF Inv

LEMMA DeleteKeepsInv ==
  ASSUME Inv, NEW h \in Hooks, Delete(h)
  PROVE  Inv'
<1> DEFINE c == ClearTimer(box[Current(h)])
<1>1. /\ h \in registered /\ registered' = registered \ {h}
      /\ box' = [box EXCEPT ![Current(h)] = c]
      /\ UNCHANGED <<made, emitted, old>>
  BY DEF Delete
<1>2. Current(h) \in Boxes /\ made[h] \in 1..MaxBoxes /\ emitted \in Nat
  BY <1>1, CurrentIsBox DEF Inv, TypeOK
<1>3. BoxOK(c, emitted) /\ c \in Box
  BY <1>2, ClearOK DEF Inv, BoxesOK, BoxOK
<1> HIDE DEF c
<1>4. /\ box' \in [Boxes -> Box] /\ box'[Current(h)] = c
      /\ \A b \in Boxes : b # Current(h) => box'[b] = box[b]
  BY <1>1, <1>2, <1>3 DEF Inv, TypeOK
<1>5. TypeOK' /\ BoxesOK'
  BY <1>1, <1>3, <1>4 DEF Inv, TypeOK, BoxesOK
<1>6. Unmade'
  <2> SUFFICES ASSUME NEW k \in Hooks, NEW g \in 1..MaxBoxes, made[k] < g
               PROVE  box'[<<k, g>>] = Blank
    BY <1>1 DEF Unmade
  <2>1. <<k, g>> \in Boxes /\ <<k, g>> # Current(h) /\ box[<<k, g>>] = Blank
    BY DEF Boxes, Current, Inv, TypeOK, Unmade
  <2> QED BY <1>4, <2>1
<1>7. NeverStalls'
  <2>1. ASSUME NEW k \in registered' PROVE Flows(box'[Current(k)])
    <3>1. k \in registered /\ Current(k) # Current(h) /\ Current(k) \in Boxes
      BY <1>1, CurrentIsBox DEF Current
    <3> QED BY <1>4, <3>1, CurrentIsBox
  <2> QED BY <1>1, <2>1 DEF NeverStalls, Flows, Current
<1> QED BY <1>5, <1>6, <1>7 DEF Inv

LEMMA AgeKeepsInv == Inv /\ Age => Inv'
<1> SUFFICES ASSUME Inv, Age PROVE Inv'
  OBVIOUS
<1>1. old' \in 0..emitted /\ UNCHANGED <<registered, made, box, emitted>>
  BY DEF Age, Inv, TypeOK
<1> QED BY <1>1 DEF Inv, TypeOK, BoxesOK, Unmade, NeverStalls, Current

LEMMA RestartKeepsInv == Inv /\ Restart => Inv'
<1> SUFFICES ASSUME Inv, Restart PROVE Inv'
  OBVIOUS
<1>1. /\ \A h \in Hooks : made'[h] = IF h \in registered THEN made[h] + 1 ELSE made[h]
      /\ \A b \in Boxes : box'[b] = Blank
      /\ made' \in [Hooks -> 0..MaxBoxes]
      /\ UNCHANGED <<registered, emitted, old>>
  <2>1. ASSUME NEW h \in Hooks
        PROVE  (IF h \in registered THEN made[h] + 1 ELSE made[h]) \in 0..MaxBoxes
    <3>1. made[h] \in 0..MaxBoxes /\ (h \in registered => made[h] < MaxBoxes)
      BY DEF Restart, Inv, TypeOK
    <3> QED BY <3>1, BoundsAssumption
  <2> QED BY <2>1 DEF Restart
<1>2. Blank \in Box /\ BoxOK(Blank, emitted) /\ Flows(Blank)
  BY BlankOK, BoundsAssumption DEF Inv, TypeOK, BoxOK
<1>3. TypeOK'
  <2>1. box' \in [Boxes -> Box]
    BY <1>2 DEF Restart
  <2>2. \A h \in registered : made'[h] # 0
    BY <1>1 DEF Inv, TypeOK
  <2> QED BY <1>1, <2>1, <2>2 DEF Inv, TypeOK
<1>4. BoxesOK' /\ Unmade'
  BY <1>1, <1>2 DEF BoxesOK, Unmade, Boxes
<1>5. NeverStalls'
  <2>1. ASSUME NEW h \in registered PROVE Flows(box'[<<h, made'[h]>>])
    <3>1. made'[h] \in 1..MaxBoxes /\ h \in Hooks
      BY <1>1, BoundsAssumption DEF Inv, TypeOK
    <3> QED BY <1>1, <1>2, <3>1 DEF Boxes
  <2> QED BY <1>1, <2>1 DEF NeverStalls, Flows, Current
<1> QED BY <1>3, <1>4, <1>5 DEF Inv

LEMMA InvPreserved == Inv /\ [Next]_vars => Inv'
<1> SUFFICES ASSUME Inv, [Next]_vars PROVE Inv'
  OBVIOUS
<1>1. CASE UNCHANGED vars
  BY <1>1 DEF vars, Inv, TypeOK, BoxesOK, Unmade, NeverStalls, Current
<1>2. ASSUME NEW h \in Hooks, Put(h) \/ Delete(h) PROVE Inv'
  BY <1>2, PutKeepsInv, DeleteKeepsInv
<1>3. ASSUME NEW matching \in SUBSET Hooks, Emit(matching) PROVE Inv'
  BY <1>3, EmitKeepsInv
<1>4. ASSUME NEW h \in Hooks, NEW g \in 1..MaxBoxes,
             Answered(h, g) \/ Failed(h, g) \/ TimerFires(h, g)
      PROVE  Inv'
  BY <1>4, AnsweredKeepsInv, FailedKeepsInv, TimerKeepsInv
<1>5. CASE Age \/ Restart
  BY <1>5, AgeKeepsInv, RestartKeepsInv
<1> QED BY <1>1, <1>2, <1>3, <1>4, <1>5 DEF Next

LEMMA InitInv == Init => Inv
<1> SUFFICES ASSUME Init PROVE Inv
  OBVIOUS
<1>1. Blank \in Box /\ BoxOK(Blank, 0)
  BY BlankOK DEF BoxOK
<1> QED BY <1>1, BoundsAssumption
        DEF Init, Inv, TypeOK, BoxesOK, Unmade, NeverStalls, Boxes

LEMMA Invariance == Spec => []Inv
BY InitInv, InvPreserved, PTL DEF Spec

\* Every field keeps its type, and a registered hook has a box.
THEOREM TypeCorrect == Spec => []TypeOK
BY Invariance, PTL DEF Inv

\* The box of a registered hook holds nothing without a delivery in flight or
\* a live timer that starts one, and never has both.
THEOREM NoStall == Spec => []NeverStalls
BY Invariance, PTL DEF Inv

-----------------------------------------------------------------------------
(* Every box is a mailbox *)

\* Retries, timers and the deletion of a hook leave the mailbox alone.
LEMMA MailRests ==
  ASSUME NEW h \in Hooks, NEW g \in 1..MaxBoxes, NEW b, b = box[<<h, g>>],
         NEW c, c = box'[<<h, g>>],
         c.queue = b.queue, c.delivered = b.delivered,
         c.dropped = b.dropped, c.crossed = b.crossed
  PROVE  MailboxStep(h, g)
BY DEF MailboxStep, Mail!mailboxVars

\* A new event is newer than those that wait and those that are done with.
LEMMA MailOffered ==
  ASSUME NEW h \in Hooks, NEW g \in 1..MaxBoxes, NEW n \in Nat, NEW e \in Events,
         e = n + 1, NEW b, b = box[<<h, g>>], BoxOK(b, n), box'[<<h, g>>] = Enqueue(b, e)
  PROVE  MailboxStep(h, g)
<1> DEFINE c == Enqueue(b, e)
<1>1. b \in Box /\ Increasing(b.queue, n) /\ b.queue \in Seq(1..n)
  BY DEF BoxOK, Increasing
<1>2. \A i \in DOMAIN b.queue : b.queue[i] < e
  BY <1>1
<1>3. \A d \in b.delivered \cup b.dropped : d < e
  <2>1. \A d \in b.delivered \cup b.dropped : d <= n /\ d \in Nat
    BY DEF BoxOK, Box, Events
  <2> QED BY <2>1
<1>4. c.delivered = b.delivered
  BY <1>1, EnqueueFacts
<1>5. CASE Len(b.queue) < MaxQueue
  <2>1. c.queue = Append(b.queue, e) /\ c.dropped = b.dropped /\ c.crossed = b.crossed
    BY <1>1, <1>5, EnqueueFacts
  <2> HIDE DEF c
  <2>2. Mail(h, g)!Offer(e)
    BY <1>2, <1>3, <1>4, <1>5, <2>1 DEF Mail!Offer, Mail!Newer, c
  <2> QED BY <2>2 DEF MailboxStep, Mail!Next
<1>6. CASE ~(Len(b.queue) < MaxQueue)
  <2>1. /\ c.queue = Append(Tail(b.queue), e)
        /\ c.dropped = b.dropped \cup {Head(b.queue)}
    BY <1>1, <1>6, EnqueueFacts
  <2>2. Len(b.queue) = MaxQueue
    BY <1>1, <1>6, QueueAssumption DEF BoxOK
  <2>3. c.crossed \in {b.crossed, TRUE}
    <3>1. c.crossed \in BOOLEAN /\ b.crossed \in BOOLEAN
      BY <1>1, EnqueueFacts DEF Box
    <3>2. b.crossed => c.crossed
      BY <1>1, <1>6, EnqueueFacts
    <3> QED BY <3>1, <3>2
  <2> HIDE DEF c
  <2>4. Mail(h, g)!Offer(e)
    BY <1>2, <1>3, <1>4, <2>1, <2>2, <2>3 DEF Mail!Offer, Mail!Newer, c
  <2> QED BY <2>4 DEF MailboxStep, Mail!Next
<1> QED BY <1>5, <1>6

\* A delivery that ends takes the head of the queue away: the event delivered
\* or given up or, after an overflow, another one.
LEMMA MailShifted ==
  ASSUME NEW h \in Hooks, NEW g \in 1..MaxBoxes, NEW n \in Nat,
         NEW b, b = box[<<h, g>>], BoxOK(b, n), Sending(b),
         NEW c, c = box'[<<h, g>>], c = Succeed(b) \/ c = GiveUp(b)
  PROVE  MailboxStep(h, g)
<1>1. b \in Box /\ b.queue # <<>> /\ b.item \in Events
  BY InFlight DEF BoxOK
<1>2. /\ c.queue = Tail(b.queue) /\ c.crossed = b.crossed
      /\ \/ c.delivered = b.delivered \cup {b.item} /\ c.dropped = b.dropped
         \/ c.dropped = b.dropped \cup {b.item} /\ c.delivered = b.delivered
  BY <1>1, ShiftFacts
<1>3. CASE b.item = Head(b.queue)
  <2>1. Mail(h, g)!Take \/ Mail(h, g)!GiveUp
    BY <1>1, <1>2, <1>3 DEF Mail!Take, Mail!GiveUp
  <2> QED BY <2>1 DEF MailboxStep, Mail!Next
<1>4. CASE b.crossed /\ b.item \in b.dropped
  <2>1. Mail(h, g)!Misplace(b.item)
    BY <1>1, <1>2, <1>4 DEF Mail!Misplace
  <2> QED BY <1>1, <2>1 DEF MailboxStep, Mail!Next
<1> QED BY <1>3, <1>4 DEF BoxOK

\* A step of one box leaves the other mailboxes alone.
LEMMA OneMail ==
  ASSUME Inv, NEW k \in Boxes, NEW c, box' = [box EXCEPT ![k] = c],
         NEW h \in Hooks, NEW g \in 1..MaxBoxes,
         <<h, g>> = k => MailboxStep(h, g)
  PROVE  MailboxStep(h, g)
<1>1. CASE <<h, g>> # k
  <2>1. box'[<<h, g>>] = box[<<h, g>>]
    BY <1>1 DEF Inv, TypeOK, Boxes
  <2> QED BY <2>1, MailRests
<1> QED BY <1>1

LEMMA StepIsMail ==
  ASSUME Inv, [Next]_vars, NEW h \in Hooks, NEW g \in 1..MaxBoxes
  PROVE  MailboxStep(h, g)
<1> DEFINE b == box[<<h, g>>]
<1>1. /\ <<h, g>> \in Boxes /\ BoxOK(b, emitted) /\ b \in Box
      /\ emitted \in Nat /\ box \in [Boxes -> Box]
  BY BoxAt DEF Inv, TypeOK
<1>2. CASE box' = box
  BY <1>2, MailRests
<1>3. ASSUME NEW k \in Hooks, Delete(k) PROVE MailboxStep(h, g)
  <2>1. Current(k) \in Boxes /\ box' = [box EXCEPT ![Current(k)] = ClearTimer(box[Current(k)])]
    BY <1>3, CurrentIsBox DEF Delete
  <2>2. CASE <<h, g>> = Current(k)
    <3>1. box'[<<h, g>>] = ClearTimer(b)
      BY <1>1, <2>1, <2>2
    <3> QED BY <1>1, <3>1, ClearOK, MailRests
  <2> QED BY <2>1, <2>2, OneMail
<1>4. ASSUME NEW matching \in SUBSET Hooks, Emit(matching) PROVE MailboxStep(h, g)
  <2>1. emitted + 1 \in Events
    BY <1>1, <1>4, BoundsAssumption DEF Emit, Events
  <2>2. CASE box'[<<h, g>>] = b
    BY <2>2, MailRests
  <2>3. CASE box'[<<h, g>>] = Enqueue(b, emitted + 1)
    BY <1>1, <2>1, <2>3, MailOffered
  <2> QED BY <1>1, <1>4, <2>2, <2>3 DEF Emit
<1>5. ASSUME NEW k \in Hooks, NEW i \in 1..MaxBoxes, Answered(k, i)
      PROVE  MailboxStep(h, g)
  <2>1. /\ <<k, i>> \in Boxes /\ Sending(box[<<k, i>>])
        /\ box' = [box EXCEPT ![<<k, i>>] = Succeed(box[<<k, i>>])]
    BY <1>5 DEF Answered, Boxes
  <2>2. CASE <<h, g>> = <<k, i>>
    <3>1. box'[<<h, g>>] = Succeed(b) /\ Sending(b)
      BY <1>1, <2>1, <2>2
    <3> QED BY <1>1, <3>1, MailShifted
  <2> QED BY <2>1, <2>2, OneMail
<1>6. ASSUME NEW k \in Hooks, NEW i \in 1..MaxBoxes, Failed(k, i)
      PROVE  MailboxStep(h, g)
  <2> DEFINE c(d) == IF TooOld(d) THEN GiveUp(d) ELSE RetryLater(d)
  <2>1. /\ <<k, i>> \in Boxes /\ Sending(box[<<k, i>>])
        /\ box' = [box EXCEPT ![<<k, i>>] = c(box[<<k, i>>])]
    BY <1>6 DEF Failed, Boxes
  <2>2. CASE <<h, g>> = <<k, i>>
    <3>1. box'[<<h, g>>] = c(b) /\ Sending(b)
      BY <1>1, <2>1, <2>2
    <3>2. CASE TooOld(b)
      BY <1>1, <3>1, <3>2, MailShifted
    <3>3. CASE ~TooOld(b)
      BY <1>1, <3>1, <3>3, RetryFacts, MailRests
    <3> QED BY <3>2, <3>3
  <2> HIDE DEF c
  <2> QED BY <2>1, <2>2, OneMail
<1>7. ASSUME NEW k \in Hooks, NEW i \in 1..MaxBoxes, TimerFires(k, i)
      PROVE  MailboxStep(h, g)
  <2>1. /\ <<k, i>> \in Boxes /\ box[<<k, i>>].timer = "armed"
        /\ box' = [box EXCEPT ![<<k, i>>] = Due(box[<<k, i>>])]
    BY <1>7 DEF TimerFires, Boxes
  <2>2. CASE <<h, g>> = <<k, i>>
    <3>1. box'[<<h, g>>] = Due(b) /\ b.timer = "armed"
      BY <1>1, <2>1, <2>2
    <3> QED BY <1>1, <3>1, DueFacts, MailRests
  <2> QED BY <2>1, <2>2, OneMail
<1>8. CASE Restart
  <2>1. box'[<<h, g>>] = Blank
    BY <1>1, <1>8 DEF Restart
  <2>2. Mail(h, g)!Lose
    BY <2>1 DEF Mail!Lose, Blank
  <2> QED BY <2>2 DEF MailboxStep, Mail!Next
<1>9. /\ UNCHANGED vars => box' = box
      /\ Age => box' = box
      /\ \A k \in Hooks : Put(k) => box' = box
  BY DEF vars, Age, Put
<1> QED BY <1>2, <1>3, <1>4, <1>5, <1>6, <1>7, <1>8, <1>9 DEF Next

\* Every box, whatever becomes of its registration, is a mailbox that keeps
\* the order of the events and, until they cross, accounts for each of them.
THEOREM BoxesAreMailboxes == Spec => ImplementsMailbox
<1> DEFINE AllStep == \A h \in Hooks, g \in 1..MaxBoxes : MailboxStep(h, g)
           AllInit == \A h \in Hooks, g \in 1..MaxBoxes : Mail(h, g)!Init
<1>1. Init => AllInit
  BY DEF Init, Boxes, Blank, Mail!Init
<1>2. Inv /\ [Next]_vars => [AllStep]_vars
  BY StepIsMail
<1>3. ImplementsMailbox <=> AllInit /\ [][AllStep]_vars
  BY DEF ImplementsMailbox
<1> HIDE DEF AllStep, AllInit
<1> QED BY <1>1, <1>2, <1>3, Invariance, PTL DEF Spec
=============================================================================
