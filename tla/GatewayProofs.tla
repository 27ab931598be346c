----------------------------- MODULE GatewayProofs -----------------------------
(***************************************************************************)
(* A proof about Gateway, for any values, hooks and bounds, whatever other *)
(* events share the queues.  The order in which a receiver learns of a     *)
(* connection is that of two components.  In a process the event           *)
(* derivation begins with the creation, since it only reports the end of   *)
(* what it announced, so that a box that was there in time is offered the  *)
(* beginning before any end.  And what has left a box is older than what   *)
(* still waits in it, also after an answer crossed an overflow: so the     *)
(* beginning has left before an end does, counted unless it was crossed.   *)
(***************************************************************************)
EXTENDS Gateway, Integers, TLAPS

\* This process has told something of the connection.
Announced == \E c \in Conns : told[c] \in {"created", "deleted"}

\* What is known was announced, and its end not yet.
KnownTold == \A c \in Conns : c \in known => told[c] = "created"

Left(b) == b.delivered \cup b.dropped
Entries(q) == {q[i] : i \in DOMAIN q}
Waiting(b) == Entries(b.queue)

\* Event e, the beginning, was offered to the box before any end.
Begun(b, e) ==
  e \in b.offered /\ \A f \in b.offered : subject[f] = "deleted" => e < f

\* The box of a hook that was there in time begins with the creation.
Opens(b) ==
  IF Announced THEN \E e \in 1..emitted : subject[e] = "created" /\ Begun(b, e)
  ELSE \A f \in b.offered : subject[f] # "deleted"

Increasing(q) == \A i, j \in 1..Len(q) : i < j => q[i] < q[j]

\* A box when n events have been emitted.  What left it is older than what
\* waits; an event in flight that is not the head was pushed out and counted;
\* until that happens every event offered waits, or was delivered or counted.
BoxOK(b, n) ==
  /\ b \in WH!Box
  /\ b.offered \subseteq 1..n /\ Left(b) \subseteq b.offered
  /\ Waiting(b) \subseteq b.offered
  /\ Increasing(b.queue)
  /\ \A f \in Left(b), g \in Waiting(b) : f < g
  /\ WH!Sending(b) => /\ b.queue # <<>>
                      /\ b.item = Head(b.queue) \/ (b.crossed /\ b.item \in Left(b))
  /\ b.crossed \/ b.offered \subseteq Left(b) \cup Waiting(b)

Unmade == \A h \in Hooks, g \in 1..MaxBoxes : made[h] < g => box[<<h, g>>] = WH!Blank

Told == {"nothing", "changed", "created", "deleted"}
Subjects == {"created", "deleted", "other"}

Typed ==
  /\ registered \subseteq Hooks
  /\ made \in [Hooks -> 0..MaxBoxes] /\ \A h \in registered : made[h] # 0
  /\ DOMAIN box = WH!Boxes /\ \A k \in WH!Boxes : BoxOK(box[k], emitted)
  /\ emitted \in 0..MaxEvents
  /\ subject \in Seq(Subjects) /\ Len(subject) = emitted
  /\ told \in [Conns -> Told]

InTime == \A h \in registered \ latecomers : Opens(box[WH!Current(h)])

Inv == Typed /\ Unmade /\ KnownTold /\ InTime

-----------------------------------------------------------------------------
(* Queues *)

\* The head of a queue in order, and the rest.
LEMMA TailFacts ==
  ASSUME NEW q \in Seq(WH!Events), Increasing(q), q # <<>>
  PROVE  /\ Tail(q) \in Seq(WH!Events) /\ Increasing(Tail(q)) /\ Head(q) \in WH!Events
         /\ Head(q) \in Entries(q) /\ Entries(Tail(q)) \subseteq Entries(q)
         /\ Entries(q) \subseteq Entries(Tail(q)) \cup {Head(q)}
         /\ \A f \in Entries(Tail(q)) : Head(q) < f
<1>1. Tail(q) \in Seq(WH!Events) /\ Len(Tail(q)) = Len(q) - 1 /\ Head(q) = q[1]
      /\ 1 \in 1..Len(q) /\ Len(q) \in Nat /\ Head(q) \in WH!Events
  OBVIOUS
<1>2. DOMAIN q = 1..Len(q) /\ DOMAIN Tail(q) = 1..Len(Tail(q))
  BY <1>1
<1>3. \A i \in 1..Len(Tail(q)) : Tail(q)[i] = q[i + 1] /\ i + 1 \in 1..Len(q) /\ 1 < i + 1
  BY <1>1
<1>4. Increasing(Tail(q))
  BY <1>1, <1>3 DEF Increasing
<1>5. \A f \in Entries(Tail(q)) : Head(q) < f
  BY <1>1, <1>2, <1>3 DEF Increasing, Entries
<1>6. Head(q) \in Entries(q)
  BY <1>1, <1>2 DEF Entries
<1>7. Entries(Tail(q)) \subseteq Entries(q)
  BY <1>2, <1>3 DEF Entries
<1>8. ASSUME NEW i \in DOMAIN q
      PROVE  q[i] = Head(q) \/ \E j \in DOMAIN Tail(q) : Tail(q)[j] = q[i]
  <2>1. CASE i = 1
    BY <1>1, <2>1
  <2>2. CASE i # 1
    <3>1. i - 1 \in 1..Len(Tail(q)) /\ (i - 1) + 1 = i
      BY <1>1, <1>2, <2>2
    <3> QED BY <1>2, <1>3, <3>1
  <2> QED BY <2>1, <2>2
<1>9. Entries(q) \subseteq Entries(Tail(q)) \cup {Head(q)}
  BY <1>8 DEF Entries
<1> QED BY <1>1, <1>4, <1>5, <1>6, <1>7, <1>9

\* A newer event at the end.
LEMMA AppendFacts ==
  ASSUME NEW q \in Seq(WH!Events), Increasing(q), NEW e \in WH!Events,
         \A f \in Entries(q) : f < e, NEW r, r = Append(q, e)
  PROVE  /\ r \in Seq(WH!Events) /\ Increasing(r) /\ r # <<>>
         /\ Entries(r) = Entries(q) \cup {e}
         /\ q # <<>> => Head(r) = Head(q)
<1>1. r \in Seq(WH!Events) /\ Len(r) = Len(q) + 1 /\ r # <<>> /\ Len(q) \in Nat
  OBVIOUS
<1>2. DOMAIN q = 1..Len(q) /\ DOMAIN r = 1..Len(r)
  BY <1>1
<1>3. (\A i \in 1..Len(q) : r[i] = q[i]) /\ r[Len(q) + 1] = e
  OBVIOUS
<1>4. q # <<>> => Head(r) = Head(q)
  OBVIOUS
<1>5. \A i \in DOMAIN r : i \in DOMAIN q \/ i = Len(q) + 1
  BY <1>1, <1>2
<1>6. Entries(r) = Entries(q) \cup {e}
  <2>1. \A i \in DOMAIN q : i \in DOMAIN r
    BY <1>1, <1>2
  <2>2. Len(q) + 1 \in DOMAIN r
    BY <1>1, <1>2
  <2> QED BY <1>2, <1>3, <1>5, <2>1, <2>2 DEF Entries
<1>7. ASSUME NEW i \in 1..Len(r), NEW j \in 1..Len(r), i < j PROVE r[i] < r[j]
  <2>1. i \in 1..Len(q)
    BY <1>1, <1>7
  <2>2. CASE j \in 1..Len(q)
    BY <1>3, <1>7, <2>1, <2>2 DEF Increasing
  <2>3. CASE j = Len(q) + 1
    <3>1. q[i] \in Entries(q)
      BY <1>2, <2>1 DEF Entries
    <3> QED BY <1>3, <2>1, <2>3, <3>1
  <2> QED BY <1>2, <1>5, <2>2, <2>3
<1> QED BY <1>1, <1>4, <1>6, <1>7 DEF Increasing

-----------------------------------------------------------------------------
(* One box *)

LEMMA BlankFacts ==
  ASSUME NEW n \in Nat
  PROVE  BoxOK(WH!Blank, n) /\ WH!Blank.offered = {} /\ ~WH!Sending(WH!Blank)
         /\ WH!Blank.timer = "none"
<1>1. PICK b : b = WH!Blank
  OBVIOUS
<1>2. /\ b \in WH!Box /\ b.queue = <<>> /\ b.item = 0 /\ Left(b) = {} /\ b.offered = {}
      /\ b.timer = "none"
  BY <1>1, BoundsAssumption DEF WH!Blank, WH!Box, Left
<1>3. Waiting(b) = {} /\ Increasing(b.queue)
  BY <1>2 DEF Waiting, Entries, Increasing
<1> QED BY <1>1, <1>2, <1>3 DEF BoxOK, WH!Sending

\* What everything but a new event does to a box: the offers stay.
Passes(b, c, n) == BoxOK(c, n) /\ c.offered = b.offered

\* All but the event in flight and the timer.
Same(b, c) ==
  /\ c.queue = b.queue /\ Left(c) = Left(b) /\ c.offered = b.offered
  /\ c.crossed = b.crossed

LEMMA Rests ==
  ASSUME NEW n \in Nat, NEW b, BoxOK(b, n), NEW c \in WH!Box, Same(b, c),
         c.item \in {0, b.item} \/ (b.queue # <<>> /\ c.item = Head(b.queue))
  PROVE  Passes(b, c, n)
<1>1. Waiting(c) = Waiting(b)
  BY DEF Waiting, Same
<1>2. WH!Sending(c) => /\ c.queue # <<>>
                       /\ c.item = Head(c.queue) \/ (c.crossed /\ c.item \in Left(c))
  BY DEF BoxOK, Same, WH!Sending
<1> QED BY <1>1, <1>2 DEF BoxOK, Same, Passes

\* Starting a delivery: of the head, if none is in flight.
LEMMA PumpFacts ==
  ASSUME NEW n \in Nat, NEW b, BoxOK(b, n)
  PROVE  Passes(b, WH!Pump(b), n)
<1>1. CASE WH!PumpBlocked(b)
  BY <1>1 DEF WH!Pump, Passes
<1>2. CASE ~WH!PumpBlocked(b)
  <2>1. b \in WH!Box /\ b.queue # <<>> /\ b.queue \in Seq(WH!Events)
    BY <1>2 DEF WH!PumpBlocked, WH!Box, BoxOK
  <2>2. PICK i \in 0..MaxEvents : i = Head(b.queue)
    BY <2>1, BoundsAssumption DEF WH!Events
  <2>3. PICK c : c = WH!Pump(b) /\ c = [b EXCEPT !.item = i]
    BY <1>2, <2>2 DEF WH!Pump
  <2>4. c \in WH!Box /\ Same(b, c) /\ c.item = Head(b.queue)
    BY <2>1, <2>2, <2>3 DEF WH!Box, Same, Left
  <2> QED BY <2>1, <2>3, <2>4, Rests
<1> QED BY <1>1, <1>2

\* The first of the queue leaves, delivered or given up; or another one that
\* was pushed out before, and then the first is crossed.
LEMMA Leaves ==
  ASSUME NEW n \in Nat, NEW b, BoxOK(b, n), WH!Sending(b),
         NEW c, c = WH!Succeed(b) \/ c = WH!GiveUp(b)
  PROVE  Passes(b, c, n)
<1>1. /\ b \in WH!Box /\ b.queue # <<>> /\ b.item \in WH!Events /\ b.queue \in Seq(WH!Events)
      /\ 0 \in 0..MaxEvents /\ Increasing(b.queue)
  BY BoundsAssumption DEF BoxOK, WH!Box, WH!Sending, WH!Events
<1>2. PICK t \in Seq(WH!Events) : t = Tail(b.queue)
  <2>1. Tail(b.queue) \in Seq(WH!Events)
    BY <1>1
  <2> QED BY <2>1
<1>3. PICK d : /\ c = WH!Pump(d) /\ d \in WH!Box /\ d.item = 0 /\ d.queue = t
               /\ Left(d) = Left(b) \cup {b.item}
               /\ d.offered = b.offered /\ d.crossed = b.crossed
  <2>1. CASE c = WH!Succeed(b)
    <3>1. PICK d : d = [b EXCEPT !.queue = t, !.item = 0, !.again = FALSE,
                                 !.delivered = b.delivered \cup {b.item}]
      OBVIOUS
    <3>2. c = WH!Pump(d)
      BY <1>2, <2>1, <3>1 DEF WH!Succeed
    <3>3. d \in WH!Box /\ d.item = 0 /\ d.queue = t
          /\ Left(d) = Left(b) \cup {b.item} /\ d.offered = b.offered /\ d.crossed = b.crossed
      BY <1>1, <1>2, <3>1 DEF WH!Box, Left
    <3> QED BY <3>2, <3>3
  <2>2. CASE c = WH!GiveUp(b)
    <3>1. PICK d : d = [b EXCEPT !.queue = t, !.item = 0, !.again = FALSE,
                                 !.dropped = b.dropped \cup {b.item}]
      OBVIOUS
    <3>2. c = WH!Pump(d)
      BY <1>2, <2>2, <3>1 DEF WH!GiveUp
    <3>3. d \in WH!Box /\ d.item = 0 /\ d.queue = t
          /\ Left(d) = Left(b) \cup {b.item} /\ d.offered = b.offered /\ d.crossed = b.crossed
      BY <1>1, <1>2, <3>1 DEF WH!Box, Left
    <3> QED BY <3>2, <3>3
  <2> QED BY <2>1, <2>2
<1>4. /\ Increasing(t) /\ Waiting(d) \subseteq Waiting(b) /\ Head(b.queue) \in Waiting(b)
      /\ \A g \in Waiting(d) : Head(b.queue) < g
      /\ Waiting(b) \subseteq Waiting(d) \cup {Head(b.queue)}
  <2>1. Waiting(d) = Entries(Tail(b.queue)) /\ Waiting(b) = Entries(b.queue)
    BY <1>2, <1>3 DEF Waiting
  <2> QED BY <1>1, <1>2, <2>1, TailFacts
<1>5. b.item = Head(b.queue) \/ (b.crossed /\ b.item \in Left(b))
  BY DEF BoxOK
<1>6. /\ Left(d) \subseteq d.offered /\ Waiting(d) \subseteq d.offered
      /\ d.offered \subseteq 1..n
  BY <1>3, <1>4, <1>5 DEF BoxOK
<1>7. \A f \in Left(d), g \in Waiting(d) : f < g
  <2>1. \A f \in Left(b), g \in Waiting(b) : f < g
    BY DEF BoxOK
  <2> QED BY <1>3, <1>4, <1>5, <2>1
<1>8. d.crossed \/ d.offered \subseteq Left(d) \cup Waiting(d)
  BY <1>3, <1>4, <1>5 DEF BoxOK
<1>9. BoxOK(d, n)
  BY <1>3, <1>4, <1>6, <1>7, <1>8 DEF BoxOK, WH!Sending
<1> QED BY <1>3, <1>9, PumpFacts DEF Passes

LEMMA Retries ==
  ASSUME NEW n \in Nat, NEW b, BoxOK(b, n), WH!Sending(b)
  PROVE  Passes(b, WH!RetryLater(b), n)
<1>1. PICK again \in BOOLEAN : again = (Head(b.queue) = b.item)
  OBVIOUS
<1>2. PICK c : c = WH!RetryLater(b) /\ c = [b EXCEPT !.item = 0, !.timer = "armed", !.again = again]
  BY <1>1 DEF WH!RetryLater
<1>3. c \in WH!Box /\ Same(b, c) /\ c.item = 0
  <2>1. b \in WH!Box /\ 0 \in 0..MaxEvents
    BY BoundsAssumption DEF BoxOK
  <2> QED BY <1>2, <2>1 DEF WH!Box, Same, Left
<1> QED BY <1>2, <1>3, Rests

LEMMA ComesDue ==
  ASSUME NEW n \in Nat, NEW b, BoxOK(b, n)
  PROVE  Passes(b, WH!Due(b), n)
<1>1. PICK d : /\ d = [b EXCEPT !.timer = "none"] /\ WH!Due(b) = WH!Pump(d)
  BY DEF WH!Due
<1>2. d \in WH!Box /\ Same(b, d) /\ d.item = b.item
  BY <1>1 DEF BoxOK, WH!Box, Same, Left
<1>3. Passes(b, d, n)
  BY <1>2, Rests
<1> QED BY <1>1, <1>3, PumpFacts DEF Passes

LEMMA Clears ==
  ASSUME NEW n \in Nat, NEW b, BoxOK(b, n)
  PROVE  Passes(b, WH!ClearTimer(b), n)
<1>1. PICK c : c = WH!ClearTimer(b)
  OBVIOUS
<1>2. c \in WH!Box /\ Same(b, c) /\ c.item = b.item
  BY <1>1 DEF WH!ClearTimer, BoxOK, WH!Box, Same, Left
<1> QED BY <1>1, <1>2, Rests

\* A full queue pushes its first event out; that is counted, and in the middle
\* of a delivery the box is crossed.
LEMMA Trims ==
  ASSUME NEW n \in Nat, NEW b, BoxOK(b, n), NEW t, t = WH!Trim(b)
  PROVE  /\ t \in WH!Box /\ t.offered = b.offered /\ t.item = b.item
         /\ Left(t) \subseteq b.offered /\ Waiting(t) \subseteq b.offered
         /\ Increasing(t.queue) /\ \A f \in Left(t), g \in Waiting(t) : f < g
         /\ t.crossed \/ b.offered \subseteq Left(t) \cup Waiting(t)
         /\ \/ b.item = 0
            \/ t.queue # <<>> /\ t.item = Head(t.queue)
            \/ t.crossed /\ t.item \in Left(t)
<1>1. b \in WH!Box /\ b.queue \in Seq(WH!Events) /\ Increasing(b.queue)
  BY DEF BoxOK, WH!Box
<1>2. CASE Len(b.queue) < MaxQueue
  BY <1>1, <1>2 DEF WH!Trim, BoxOK, WH!Sending
<1>3. CASE ~(Len(b.queue) < MaxQueue)
  <2>1. b.queue # <<>>
    BY <1>1, <1>3, QueueAssumption
  <2>2. PICK q \in Seq(WH!Events) : q = Tail(b.queue)
    <3>1. Tail(b.queue) \in Seq(WH!Events)
      BY <1>1, <2>1
    <3> QED BY <3>1
  <2>3. PICK x \in BOOLEAN : x = (b.crossed \/ WH!Sending(b))
    BY <1>1 DEF WH!Box
  <2>4. PICK d \in SUBSET WH!Events : d = b.dropped \cup {Head(b.queue)}
    <3>1. Head(b.queue) \in WH!Events
      BY <1>1, <2>1
    <3>2. b.dropped \cup {Head(b.queue)} \in SUBSET WH!Events
      BY <1>1, <3>1 DEF WH!Box
    <3> QED BY <3>2
  <2>5. t = [b EXCEPT !.queue = q, !.again = FALSE, !.crossed = x, !.dropped = d]
    BY <1>3, <2>2, <2>3, <2>4 DEF WH!Trim
  <2>6. /\ t \in WH!Box /\ t.offered = b.offered /\ t.item = b.item /\ t.queue = q
        /\ t.crossed = x /\ Left(t) = Left(b) \cup {Head(b.queue)}
    BY <1>1, <2>2, <2>3, <2>4, <2>5 DEF WH!Box, Left
  <2>7. /\ Increasing(q) /\ Waiting(t) \subseteq Waiting(b) /\ Head(b.queue) \in Waiting(b)
        /\ \A g \in Waiting(t) : Head(b.queue) < g
        /\ Waiting(b) \subseteq Waiting(t) \cup {Head(b.queue)}
    <3>1. Waiting(t) = Entries(Tail(b.queue)) /\ Waiting(b) = Entries(b.queue)
      BY <2>2, <2>6 DEF Waiting
    <3> QED BY <1>1, <2>1, <2>2, <3>1, TailFacts
  <2>8. Left(t) \subseteq b.offered /\ Waiting(t) \subseteq b.offered
    BY <2>6, <2>7 DEF BoxOK
  <2>9. \A f \in Left(t), g \in Waiting(t) : f < g
    <3>1. \A f \in Left(b), g \in Waiting(b) : f < g
      BY DEF BoxOK
    <3> QED BY <2>6, <2>7, <3>1
  <2>10. t.crossed \/ b.offered \subseteq Left(t) \cup Waiting(t)
    BY <2>3, <2>6, <2>7 DEF BoxOK
  <2>11. b.item = 0 \/ (t.crossed /\ t.item \in Left(t))
    BY <2>3, <2>6 DEF BoxOK, WH!Sending
  <2> QED BY <2>6, <2>7, <2>8, <2>9, <2>10, <2>11
<1> QED BY <1>2, <1>3

\* A new event goes to the end.
LEMMA Enters ==
  ASSUME NEW n \in Nat, NEW b, BoxOK(b, n), NEW e \in WH!Events, e = n + 1,
         NEW c, c = WH!Enqueue(b, e)
  PROVE  BoxOK(c, e) /\ c.offered = b.offered \cup {e}
<1>1. PICK t : t = WH!Trim(b)
  OBVIOUS
<1>2. /\ t \in WH!Box /\ t.offered = b.offered /\ t.item = b.item
      /\ Left(t) \subseteq b.offered /\ Waiting(t) \subseteq b.offered
      /\ Increasing(t.queue) /\ \A f \in Left(t), g \in Waiting(t) : f < g
      /\ t.crossed \/ b.offered \subseteq Left(t) \cup Waiting(t)
      /\ \/ b.item = 0
         \/ t.queue # <<>> /\ t.item = Head(t.queue)
         \/ t.crossed /\ t.item \in Left(t)
  BY <1>1, Trims
<1>3. PICK q : q = Append(t.queue, e)
  OBVIOUS
<1>4. \A f \in b.offered : f \in 1..n /\ f < e
  BY DEF BoxOK
<1>5. /\ q \in Seq(WH!Events) /\ Increasing(q) /\ q # <<>>
      /\ Entries(q) = Waiting(t) \cup {e}
      /\ t.queue # <<>> => Head(q) = Head(t.queue)
  <2>1. PICK u : u = t.queue
    OBVIOUS
  <2>2. u \in Seq(WH!Events) /\ Increasing(u) /\ q = Append(u, e) /\ Waiting(t) = Entries(u)
    BY <1>2, <1>3, <2>1 DEF WH!Box, Waiting
  <2>3. \A f \in Entries(u) : f < e
    BY <1>2, <1>4, <2>2
  <2>4. /\ q \in Seq(WH!Events) /\ Increasing(q) /\ q # <<>>
        /\ Entries(q) = Entries(u) \cup {e} /\ (u # <<>> => Head(q) = Head(u))
    BY <2>2, <2>3, AppendFacts
  <2> QED BY <2>1, <2>2, <2>4
<1>6. PICK a : a = [t EXCEPT !.queue = q, !.offered = t.offered \cup {e}]
  OBVIOUS
<1>7. /\ a \in WH!Box /\ a.queue = q /\ a.item = b.item /\ Left(a) = Left(t)
      /\ a.offered = b.offered \cup {e} /\ a.crossed = t.crossed
  <2>1. t.offered \cup {e} \subseteq WH!Events
    BY <1>2 DEF WH!Box
  <2> QED BY <1>2, <1>5, <1>6, <2>1 DEF WH!Box, Left
<1>8. Waiting(a) = Waiting(t) \cup {e}
  BY <1>5, <1>7 DEF Waiting
<1>9. \A f \in Left(a), g \in Waiting(a) : f < g
  BY <1>2, <1>4, <1>7, <1>8
<1>10. a.offered \subseteq 1..e
  BY <1>4, <1>7
<1>11. Left(a) \subseteq a.offered /\ Waiting(a) \subseteq a.offered
  BY <1>2, <1>7, <1>8
<1>12. a.crossed \/ a.offered \subseteq Left(a) \cup Waiting(a)
  BY <1>2, <1>7, <1>8
<1>13. WH!Sending(a) => /\ a.queue # <<>>
                        /\ a.item = Head(a.queue) \/ (a.crossed /\ a.item \in Left(a))
  BY <1>2, <1>5, <1>7 DEF WH!Sending
<1>14. BoxOK(a, e)
  BY <1>5, <1>7, <1>9, <1>10, <1>11, <1>12, <1>13 DEF BoxOK
<1>15. c = WH!Pump(a) /\ e \in Nat
  BY <1>1, <1>3, <1>6 DEF WH!Enqueue
<1>16. Passes(a, c, e)
  BY <1>14, <1>15, PumpFacts
<1> QED BY <1>7, <1>16 DEF Passes

\* Other boxes see an event go by.
LEMMA GoesBy ==
  ASSUME NEW n \in Nat, NEW b, BoxOK(b, n)
  PROVE  BoxOK(b, n + 1)
<1>1. 1..n \subseteq 1..(n + 1)
  OBVIOUS
<1> QED BY <1>1 DEF BoxOK

-----------------------------------------------------------------------------
(* What the event derivation tells *)

CD == {"created", "deleted"}

\* One connection as the derivation sees it.
IsView(v) ==
  /\ v = [known |-> v.known, pending |-> v.pending, prev |-> v.prev,
          told |-> v.told, creations |-> v.creations]
  /\ v.known \in BOOLEAN /\ v.told \in Told
  /\ v.known => v.told = "created"

\* A step of the derivation, given the keys in the cache.
Tells(v, w, keys) ==
  /\ IsView(w)
  /\ v.told \in CD => w.told \in CD
  /\ w.told = "deleted" => v.told = "deleted" \/ ~CE!Exists(keys)
  /\ w.told \in CD => v.told \in CD \/ CE!Exists(keys)

LEMMA TellsTwice ==
  ASSUME NEW v, NEW w, NEW x, NEW keys, Tells(v, w, keys), Tells(w, x, keys)
  PROVE  Tells(v, x, keys)
BY DEF Tells

LEMMA FireTells ==
  ASSUME NEW v, IsView(v), NEW w, w = CE!Fire(v)
  PROVE  IsView(w) /\ w.told = IF v.known THEN v.told ELSE "created"
<1>1. CASE v.known
  <2>1. w = [v EXCEPT !.pending = FALSE]
    BY <1>1 DEF CE!Fire
  <2> QED BY <1>1, <2>1 DEF IsView
<1>2. CASE ~v.known
  <2>1. PICK n : w = [v EXCEPT !.known = TRUE, !.pending = FALSE, !.told = "created",
                               !.creations = n]
    BY <1>2 DEF CE!Fire
  <2> QED BY <1>2, <2>1 DEF IsView, Told
<1> QED BY <1>1, <1>2 DEF IsView

LEMMA ScheduleTells ==
  ASSUME NEW v, IsView(v), NEW keys, NEW w, w = CE!Schedule(v, keys)
  PROVE  Tells(v, w, keys)
<1>1. CASE keys.peer # None
  <2>1. w = CE!Fire(v)
    BY <1>1 DEF CE!Schedule
  <2>2. CE!Exists(keys)
    BY <1>1 DEF CE!Exists, CE!NoKeys
  <2> QED BY <2>1, <2>2, FireTells DEF Tells, CD, IsView
<1>2. CASE keys.peer = None
  <2>1. w = [v EXCEPT !.pending = TRUE]
    BY <1>2 DEF CE!Schedule
  <2> QED BY <2>1 DEF Tells, CD, IsView
<1> QED BY <1>1, <1>2

LEMMA UpdateTells ==
  ASSUME NEW v, IsView(v), NEW key, NEW value, NEW keys,
         NEW w, w = CE!Update(v, key, value, keys)
  PROVE  Tells(v, w, keys)
<1>0. Tells(v, v, keys)
  BY DEF Tells
<1>1. PICK x : x = CE!Appear(v, value, keys)
  OBVIOUS
<1>2. Tells(v, x, keys)
  <2>1. CASE value # None /\ ~v.known
    BY <1>1, <2>1, ScheduleTells DEF CE!Appear
  <2>2. CASE value = None /\ v.known
    <3>1. CASE CE!Exists(keys)
      BY <1>0, <1>1, <2>2, <3>1 DEF CE!Appear, CE!Sever
    <3>2. CASE ~CE!Exists(keys)
      <4>1. x = [v EXCEPT !.known = FALSE, !.told = "deleted"]
        BY <1>1, <2>2, <3>2 DEF CE!Appear, CE!Sever
      <4> QED BY <2>2, <3>2, <4>1 DEF Tells, IsView, Told, CD
    <3> QED BY <3>1, <3>2
  <2>3. CASE ~(value # None /\ ~v.known) /\ ~(value = None /\ v.known)
    BY <1>0, <1>1, <2>3 DEF CE!Appear
  <2> QED BY <2>1, <2>2, <2>3
<1>3. IsView(x)
  BY <1>2 DEF Tells
<1>4. PICK y : y = CE!Change(x, value)
  OBVIOUS
<1>5. Tells(x, y, keys)
  <2>1. CASE y = x
    BY <1>3, <2>1 DEF Tells
  <2>2. CASE y # x
    <3>1. y = [x EXCEPT !.told = IF x.told = "nothing" THEN "changed" ELSE x.told]
      BY <1>4, <2>2 DEF CE!Change
    <3> QED BY <1>3, <3>1 DEF Tells, IsView, Told, CD
  <2> QED BY <2>1, <2>2
<1>6. CASE key = "prop"
  <2>1. w = [y EXCEPT !.prev = value]
    BY <1>1, <1>4, <1>6 DEF CE!Update, CE!Track
  <2>2. Tells(y, w, keys)
    BY <1>5, <2>1 DEF Tells, IsView
  <2> QED BY <1>2, <1>5, <2>2, TellsTwice
<1>7. CASE key # "prop"
  BY <1>1, <1>2, <1>7 DEF CE!Update, CE!Track
<1> QED BY <1>6, <1>7

LEMMA OnUpdateTells ==
  ASSUME NEW c, NEW d, NEW keys, NEW v, v = CE!View(c), IsView(v),
         NEW w, w = CE!OnUpdate(c, d, keys)
  PROVE  Tells(v, w, keys)
<1>1. PICK x : x = CE!Update(v, d.names[1], d.new[d.names[1]], keys)
  OBVIOUS
<1>2. Tells(v, x, keys) /\ IsView(x)
  BY <1>1, UpdateTells DEF Tells
<1>3. w = IF Len(d.names) = 1 THEN x
          ELSE CE!Update(x, d.names[2], d.new[d.names[2]], keys)
  BY <1>1 DEF CE!OnUpdate
<1>4. CASE Len(d.names) = 1
  BY <1>2, <1>3, <1>4
<1>5. CASE Len(d.names) # 1
  <2>1. Tells(x, w, keys)
    BY <1>2, <1>3, <1>5, UpdateTells
  <2> QED BY <1>2, <2>1, TellsTwice
<1> QED BY <1>4, <1>5

LEMMA ViewFacts ==
  ASSUME told \in [Conns -> Told], KnownTold, NEW c \in Conns
  PROVE  IsView(CE!View(c)) /\ CE!View(c).told = told[c] /\ CE!View(c).known = (c \in known)
<1> DEFINE k == c \in known
           p == c \in pending
<1>1. CE!View(c) = [known |-> k, pending |-> p, prev |-> prev[c],
                    told |-> told[c], creations |-> creations[c]]
  BY DEF CE!View
<1>2. k \in BOOLEAN /\ told[c] \in Told /\ (k => told[c] = "created")
  BY DEF KnownTold
<1> HIDE DEF k, p
<1>3. IsView(CE!View(c)) /\ CE!View(c).told = told[c] /\ CE!View(c).known = k
  BY <1>1, <1>2 DEF IsView
<1> QED BY <1>3 DEF k

\* The end of a connection is told after its beginning.
Speaks(t, u) == (t \in CD => u \in CD) /\ (u = "deleted" => t \in CD)

\* In a step of the event derivation.
InTurn == /\ told' \in [Conns -> Told] /\ KnownTold'
          /\ \A c \in Conns : Speaks(told[c], told'[c])

LEMMA InstallSpeaks ==
  ASSUME told \in [Conns -> Told], KnownTold, NEW c, NEW w, CE!Install(c, w),
         c \in Conns => IsView(w) /\ Speaks(told[c], w.told)
  PROVE  InTurn
<1>1. /\ known' = IF w.known THEN known \cup {c} ELSE known \ {c}
      /\ told' = [told EXCEPT ![c] = w.told]
  BY DEF CE!Install
<1>2. told' \in [Conns -> Told]
  BY <1>1 DEF IsView
<1>3. ASSUME NEW e \in Conns
      PROVE  (e \in known' => told'[e] = "created") /\ Speaks(told[e], told'[e])
  <2>1. CASE e = c
    <3>1. told'[e] = w.told /\ (e \in known') = w.known
      BY <1>1, <2>1 DEF IsView
    <3> QED BY <2>1, <3>1 DEF IsView
  <2>2. CASE e # c
    <3>1. told'[e] = told[e] /\ (e \in known' <=> e \in known)
      BY <1>1, <2>2
    <3> QED BY <3>1 DEF KnownTold, Speaks, CD
  <2> QED BY <2>1, <2>2
<1> QED BY <1>2, <1>3 DEF InTurn, KnownTold

LEMMA DerivesInTurn ==
  ASSUME told \in [Conns -> Told], KnownTold, CE!Next
  PROVE  InTurn
<1>1. CASE UNCHANGED <<known, told>>
  BY <1>1 DEF InTurn, KnownTold, Speaks, CD
<1>2. CASE CE!SessionUp
  <2>1. /\ known' = {c \in Conns : CE!Scan(c).known}
        /\ told' = [c \in Conns |-> CE!Scan(c).told]
    BY <1>2 DEF CE!SessionUp
  <2>2. ASSUME NEW c \in Conns
        PROVE  IsView(CE!Scan(c)) /\ Speaks(told[c], CE!Scan(c).told)
    <3>1. CASE CE!Exists(cache[c]) /\ c \notin known
      <4>1. CE!Scan(c) = CE!Schedule(CE!View(c), cache[c])
        BY <3>1 DEF CE!Scan
      <4>2. Tells(CE!View(c), CE!Scan(c), cache[c])
        BY <4>1, ViewFacts, ScheduleTells
      <4> QED BY <3>1, <4>2, ViewFacts DEF Tells, Speaks, CD
    <3>2. CASE ~(CE!Exists(cache[c]) /\ c \notin known)
      <4>1. CE!Scan(c) = CE!View(c)
        BY <3>2 DEF CE!Scan
      <4> QED BY <4>1, ViewFacts DEF Speaks, CD
    <3> QED BY <3>1, <3>2
  <2> QED BY <2>1, <2>2 DEF InTurn, KnownTold, IsView
<1>3. CASE CE!DeltaArrives
  <2>1. PICK d, keys : \/ CE!Install(d.conn, CE!OnUpdate(d.conn, d, keys))
                       \/ UNCHANGED <<known, told>>
    BY <1>3 DEF CE!DeltaArrives, CE!derived
  <2>2. CASE CE!Install(d.conn, CE!OnUpdate(d.conn, d, keys))
    <3>1. PICK w : w = CE!OnUpdate(d.conn, d, keys)
      OBVIOUS
    <3>2. ASSUME d.conn \in Conns PROVE IsView(w) /\ Speaks(told[d.conn], w.told)
      <4>1. Tells(CE!View(d.conn), w, keys)
        BY <3>1, <3>2, ViewFacts, OnUpdateTells
      <4> QED BY <3>2, <4>1, ViewFacts DEF Tells, Speaks, CD
    <3> QED BY <2>2, <3>1, <3>2, InstallSpeaks
  <2> QED BY <1>1, <2>1, <2>2
<1>4. ASSUME NEW c \in Conns, CE!GraceEnds(c) PROVE InTurn
  <2>1. PICK w : w = CE!Fire(CE!View(c))
    OBVIOUS
  <2>2. CE!Install(c, w)
    BY <1>4, <2>1 DEF CE!GraceEnds
  <2>3. IsView(w) /\ Speaks(told[c], w.told)
    BY <2>1, ViewFacts, FireTells DEF Speaks, CD, IsView
  <2> QED BY <2>2, <2>3, InstallSpeaks
<1>5. ASSUME NEW d, CE!RealmWrites(d) \/ CE!RealmSevers(d) PROVE UNCHANGED <<known, told>>
  BY <1>5 DEF CE!RealmWrites, CE!RealmSevers, CE!derived
<1>6. CE!Snapshot \/ CE!SessionLost => UNCHANGED <<known, told>>
  BY DEF CE!Snapshot, CE!SessionLost, CE!derived
<1> QED BY <1>1, <1>2, <1>3, <1>4, <1>5, <1>6 DEF CE!Next

-----------------------------------------------------------------------------
(* The steps of the gateway *)

LEMMA CurrentBox ==
  ASSUME Typed, NEW h \in registered
  PROVE  /\ h \in Hooks /\ made[h] \in 1..MaxBoxes /\ WH!Current(h) = <<h, made[h]>>
         /\ WH!Current(h) \in WH!Boxes
<1>1. h \in Hooks /\ made[h] \in 0..MaxBoxes /\ made[h] # 0
  BY DEF Typed
<1>2. made[h] \in 1..MaxBoxes
  BY <1>1, BoundsAssumption
<1> QED BY <1>1, <1>2 DEF WH!Current, WH!Boxes

\* What is said of one box carries over.
LEMMA OpensStill ==
  ASSUME NEW b, NEW c, Opens(b), c.offered = b.offered,
         Announced' <=> Announced, UNCHANGED <<emitted, subject>>
  PROVE  Opens(c)'
BY DEF Opens, Begun

\* And through the emission of an event, which the box may be offered: it is
\* newer than all, and the first of a connection is its beginning.
LEMMA OpensOn ==
  ASSUME NEW n \in Nat, emitted = n, emitted' = n + 1, NEW s \in Subjects,
         subject \in Seq(Subjects), Len(subject) = n, subject' = Append(subject, s),
         NEW b, NEW d, b.offered \subseteq 1..n, Opens(b),
         d.offered \in {b.offered, b.offered \cup {n + 1}},
         Announced => Announced', s = "deleted" => Announced,
         Announced' => Announced \/ (s = "created" /\ n + 1 \in d.offered)
  PROVE  Opens(d)'
<1>1. subject'[n + 1] = s /\ \A f \in 1..n : subject'[f] = subject[f]
  OBVIOUS
<1>2. n + 1 \in 1..(n + 1) /\ 1..n \subseteq 1..(n + 1) /\ \A f \in 1..n : f < n + 1
  OBVIOUS
<1>3. \A f \in d.offered : f \in b.offered \/ f = n + 1
  OBVIOUS
<1>4. CASE Announced
  <2>1. PICK e \in 1..n : /\ subject[e] = "created" /\ e \in b.offered
                          /\ \A f \in b.offered : subject[f] = "deleted" => e < f
    BY <1>4 DEF Opens, Begun
  <2>2. e \in 1..(n + 1) /\ subject'[e] = "created" /\ e \in d.offered
    BY <1>1, <1>2, <2>1
  <2>3. \A f \in d.offered : subject'[f] = "deleted" => e < f
    BY <1>1, <1>2, <1>3, <2>1
  <2> QED BY <1>4, <2>2, <2>3 DEF Opens, Begun
<1>5. CASE ~Announced /\ Announced'
  <2>1. s = "created" /\ n + 1 \in d.offered
    BY <1>5
  <2>2. \A f \in d.offered : subject'[f] # "deleted"
    BY <1>1, <1>3, <1>5, <2>1 DEF Opens
  <2> QED BY <1>1, <1>2, <1>5, <2>1, <2>2 DEF Opens, Begun
<1>6. CASE ~Announced /\ ~Announced'
  <2>1. \A f \in d.offered : subject'[f] # "deleted"
    BY <1>1, <1>3, <1>6 DEF Opens
  <2> QED BY <1>6, <2>1 DEF Opens
<1> QED BY <1>4, <1>5, <1>6

\* An event is emitted: all hooks that hear it hear the first of a connection.
LEMMA EmitKeeps ==
  ASSUME Inv, NEW m, WH!Emit(m), NEW s \in Subjects, subject' = Append(subject, s),
         latecomers' = latecomers, told' \in [Conns -> Told], KnownTold',
         Announced => Announced', s = "deleted" => Announced,
         Announced' => Announced \/ (s = "created" /\ m = registered)
  PROVE  Inv'
<1>1. /\ emitted < MaxEvents /\ emitted' = emitted + 1 /\ m \subseteq registered
      /\ registered' = registered /\ made' = made
  BY DEF WH!Emit
<1>2. box' = [k \in WH!Boxes |-> IF k[1] \in m /\ k = WH!Current(k[1])
                                 THEN WH!Enqueue(box[k], emitted + 1) ELSE box[k]]
  BY DEF WH!Emit
<1>3. /\ emitted \in Nat /\ emitted + 1 \in WH!Events /\ emitted' \in 0..MaxEvents
      /\ subject \in Seq(Subjects) /\ Len(subject) = emitted
  BY <1>1, BoundsAssumption DEF Inv, Typed, WH!Events
<1>4. subject' \in Seq(Subjects) /\ Len(subject') = emitted'
  BY <1>1, <1>3
<1>5. ASSUME NEW k \in WH!Boxes
      PROVE  /\ BoxOK(box[k], emitted) /\ BoxOK(box'[k], emitted + 1)
             /\ box'[k].offered = IF k[1] \in m /\ k = WH!Current(k[1])
                                  THEN box[k].offered \cup {emitted + 1} ELSE box[k].offered
  <2>1. BoxOK(box[k], emitted)
    BY DEF Inv, Typed
  <2>2. CASE k[1] \in m /\ k = WH!Current(k[1])
    <3>1. PICK n, b, c, e : n = emitted /\ b = box[k] /\ c = box'[k] /\ e = emitted + 1
      OBVIOUS
    <3>2. c = WH!Enqueue(b, e) /\ e \in WH!Events /\ BoxOK(b, n) /\ n \in Nat /\ e = n + 1
      BY <1>2, <1>3, <2>1, <2>2, <3>1
    <3>3. BoxOK(c, e) /\ c.offered = b.offered \cup {e}
      BY <3>2, Enters
    <3> QED BY <2>1, <2>2, <3>1, <3>3
  <2>3. CASE ~(k[1] \in m /\ k = WH!Current(k[1]))
    <3>1. box'[k] = box[k]
      BY <1>2, <2>3
    <3> QED BY <1>3, <2>1, <2>3, <3>1, GoesBy
  <2> QED BY <2>2, <2>3
<1>6. DOMAIN box' = WH!Boxes
  BY <1>2
<1>7. ASSUME NEW k \in WH!Boxes PROVE BoxOK(box[k], emitted)'
  BY <1>1, <1>5 DEF BoxOK, Left, Waiting, Entries, Increasing, WH!Sending, WH!Box, WH!Events
<1>8. Typed'
  BY <1>1, <1>3, <1>4, <1>6, <1>7 DEF Inv, Typed, WH!Boxes
<1>9. Unmade'
  <2> SUFFICES ASSUME NEW h \in Hooks, NEW g \in 1..MaxBoxes, made[h] < g
               PROVE  box'[<<h, g>>] = WH!Blank
    BY <1>1 DEF Unmade, WH!Blank
  <2>1. <<h, g>> \in WH!Boxes /\ made[h] \in Int /\ g \in Int
    BY DEF WH!Boxes, Inv, Typed
  <2>2. <<h, g>> # <<h, made[h]>>
    BY <2>1
  <2>3. box'[<<h, g>>] = box[<<h, g>>]
    BY <1>2, <2>1, <2>2 DEF WH!Current
  <2> QED BY <2>3 DEF Inv, Unmade
<1>10. InTime'
  <2> SUFFICES ASSUME NEW h \in registered \ latecomers
               PROVE  Opens(box[WH!Current(h)])'
    BY <1>1 DEF InTime
  <2>1. PICK b, d : b = box[WH!Current(h)] /\ d = box'[WH!Current(h)]
    OBVIOUS
  <2>2. WH!Current(h) \in WH!Boxes /\ WH!Current(h)[1] = h
    BY CurrentBox DEF Inv
  <2>3. /\ Opens(b) /\ b.offered \subseteq 1..emitted
        /\ d.offered = IF h \in m THEN b.offered \cup {emitted + 1} ELSE b.offered
    BY <1>5, <2>1, <2>2 DEF Inv, InTime, BoxOK
  <2>4. d.offered \in {b.offered, b.offered \cup {emitted + 1}}
    BY <2>3
  <2>5. Announced' => Announced \/ (s = "created" /\ emitted + 1 \in d.offered)
    BY <2>3
  <2>6. Opens(d)'
    BY <1>1, <1>3, <2>3, <2>4, <2>5, OpensOn
  <2> QED BY <1>1, <2>1, <2>6 DEF Opens, Begun, WH!Current
<1> QED BY <1>8, <1>9, <1>10 DEF Inv

LEMMA NothingEmitted ==
  ASSUME Inv, UNCHANGED <<registered, made, box, emitted, subject, latecomers>>,
         told' \in [Conns -> Told], KnownTold', Announced' <=> Announced
  PROVE  Inv'
<1>1. \A k \in WH!Boxes : BoxOK(box[k], emitted)'
  BY DEF Inv, Typed, BoxOK, Left, Waiting, Entries, Increasing, WH!Sending, WH!Box, WH!Events
<1>2. Typed'
  BY <1>1 DEF Inv, Typed, WH!Boxes
<1>3. Unmade'
  BY DEF Inv, Unmade, WH!Blank
<1>4. InTime'
  BY DEF Inv, InTime, Opens, Begun, WH!Current
<1> QED BY <1>2, <1>3, <1>4 DEF Inv

\* A step of the event derivation, and what it enqueues.
LEMMA DeriveKeeps ==
  ASSUME Inv, CE!Next, Fanout
  PROVE  Inv'
<1>1. PICK c \in Conns : Conns = {c}
  BY OneConnection
<1>2. told' \in [Conns -> Told] /\ KnownTold' /\ Speaks(told[c], told'[c])
  BY DerivesInTurn DEF InTurn, Inv, Typed
<1>3. /\ Announced <=> told[c] \in CD
      /\ Announced' <=> told'[c] \in CD
  BY <1>1 DEF Announced, CD
<1>4. CASE ~News(c)
  <2>1. UNCHANGED <<registered, made, box, emitted, subject, latecomers>>
    BY <1>1, <1>4 DEF Fanout, whVars
  <2>2. Announced' <=> Announced
    BY <1>2, <1>3, <1>4 DEF News, Speaks, CD
  <2> QED BY <1>2, <2>1, <2>2, NothingEmitted
<1>5. CASE News(c)
  <2>1. /\ WH!Emit(registered) /\ latecomers' = latecomers
        /\ subject' = Append(subject, told'[CHOOSE d \in Conns : News(d)])
    BY <1>5 DEF Fanout
  <2>2. (CHOOSE d \in Conns : News(d)) = c
    BY <1>1, <1>5
  <2>3. PICK s \in Subjects : s = told'[c] /\ s \in CD
    BY <1>5 DEF News, CD, Subjects
  <2>4. /\ Announced => Announced'
        /\ s = "deleted" => Announced
        /\ Announced' => Announced \/ s = "created"
    BY <1>2, <1>3, <2>3 DEF Speaks, CD
  <2>5. subject' = Append(subject, s)
    BY <2>1, <2>2, <2>3
  <2>6. PICK m : m = registered /\ WH!Emit(m)
    BY <2>1
  <2>7. latecomers' = latecomers /\ told' \in [Conns -> Told] /\ KnownTold'
    BY <1>2, <2>1
  <2>8. Announced' => Announced \/ (s = "created" /\ m = registered)
    BY <2>4, <2>6
  <2>9. Announced => Announced'
    BY <2>4
  <2>10. s = "deleted" => Announced
    BY <2>4
  <2> QED BY <2>5, <2>6, <2>7, <2>8, <2>9, <2>10, EmitKeeps
<1> QED BY <1>4, <1>5

LEMMA OtherKeeps ==
  ASSUME Inv, OtherEvent
  PROVE  Inv'
<1>1. PICK m \in SUBSET registered : WH!Emit(m)
  BY DEF OtherEvent
<1>2. /\ subject' = Append(subject, "other") /\ latecomers' = latecomers
      /\ told' = told /\ known' = known
  BY DEF OtherEvent, ceVars
<1>3. PICK s \in Subjects : s = "other"
  BY DEF Subjects
<1>4. told' \in [Conns -> Told] /\ KnownTold' /\ (Announced' <=> Announced)
  BY <1>2 DEF Inv, Typed, KnownTold, Announced
<1> QED BY <1>1, <1>2, <1>3, <1>4, EmitKeeps

\* A new registration has a blank box, and this process has told nothing yet,
\* or it comes late.
LEMMA RegisterKeeps ==
  ASSUME Inv, NEW h \in Hooks, Register(h)
  PROVE  Inv'
<1>1. /\ h \notin registered /\ made[h] < MaxBoxes
      /\ registered' = registered \cup {h} /\ made' = [made EXCEPT ![h] = made[h] + 1]
      /\ UNCHANGED <<box, emitted, subject, told, known>>
      /\ latecomers' = IF Announced THEN latecomers \cup {h} ELSE latecomers \ {h}
  BY DEF Register, WH!Put, ceVars, Announced
<1>2. /\ made[h] \in Nat /\ made[h] + 1 \in 1..MaxBoxes /\ made'[h] = made[h] + 1
      /\ \A g \in Hooks : g # h => made'[g] = made[g]
  BY <1>1, BoundsAssumption DEF Inv, Typed
<1>3. Typed'
  <2>1. made' \in [Hooks -> 0..MaxBoxes] /\ \A g \in registered' : made'[g] # 0
    BY <1>1, <1>2 DEF Inv, Typed
  <2>2. \A k \in WH!Boxes : BoxOK(box[k], emitted)'
    BY <1>1 DEF Inv, Typed, BoxOK, Left, Waiting, Entries, Increasing, WH!Sending, WH!Box, WH!Events
  <2> QED BY <1>1, <2>1, <2>2 DEF Inv, Typed, WH!Boxes
<1>4. Unmade'
  <2> SUFFICES ASSUME NEW i \in Hooks, NEW g \in 1..MaxBoxes, made'[i] < g
               PROVE  box[<<i, g>>] = WH!Blank
    BY <1>1 DEF Unmade, WH!Blank
  <2>1. made[i] < g
    BY <1>2 DEF Inv, Typed
  <2> QED BY <2>1 DEF Inv, Unmade
<1>5. InTime'
  <2> SUFFICES ASSUME NEW i \in registered' \ latecomers'
               PROVE  Opens(box[<<i, made'[i]>>])
    BY <1>1 DEF InTime, Opens, Announced, Begun, WH!Current
  <2>1. CASE i = h
    <3>1. ~Announced
      BY <1>1, <2>1
    <3>2. box[<<h, made'[h]>>] = WH!Blank
      BY <1>2 DEF Inv, Unmade
    <3>3. WH!Blank.offered = {}
      BY BlankFacts
    <3> QED BY <2>1, <3>1, <3>2, <3>3 DEF Opens
  <2>2. CASE i # h
    <3>1. i \in registered \ latecomers /\ made'[i] = made[i]
      BY <1>1, <1>2, <2>2 DEF Inv, Typed
    <3> QED BY <3>1 DEF Inv, InTime, WH!Current
  <2> QED BY <2>1, <2>2
<1> QED BY <1>1, <1>3, <1>4, <1>5 DEF Inv, KnownTold

\* One box goes on.
LEMMA OneBoxGoesOn ==
  ASSUME Inv, NEW h \in Hooks, NEW g \in 1..MaxBoxes, ~(made[h] < g),
         NEW c, box' = [box EXCEPT ![<<h, g>>] = c],
         Passes(box[<<h, g>>], c, emitted),
         registered' \subseteq registered,
         UNCHANGED <<made, emitted, subject, latecomers, told, known>>
  PROVE  Inv'
<1>1. <<h, g>> \in WH!Boxes /\ DOMAIN box = WH!Boxes
  BY DEF WH!Boxes, Inv, Typed
<1>2. /\ box'[<<h, g>>] = c /\ DOMAIN box' = WH!Boxes
      /\ \A k \in WH!Boxes : k # <<h, g>> => box'[k] = box[k]
  BY <1>1
<1>3. \A k \in WH!Boxes : BoxOK(box'[k], emitted)
  BY <1>2 DEF Inv, Typed, Passes
<1>4. Typed'
  <2>1. \A k \in WH!Boxes : BoxOK(box[k], emitted)'
    BY <1>3 DEF BoxOK, Left, Waiting, Entries, Increasing, WH!Sending, WH!Box, WH!Events
  <2> QED BY <1>2, <2>1 DEF Inv, Typed, WH!Boxes
<1>5. Unmade'
  <2> SUFFICES ASSUME NEW i \in Hooks, NEW j \in 1..MaxBoxes, made[i] < j
               PROVE  box'[<<i, j>>] = WH!Blank
    BY DEF Unmade, WH!Blank
  <2>1. <<i, j>> # <<h, g>> /\ <<i, j>> \in WH!Boxes
    BY DEF WH!Boxes
  <2> QED BY <1>2, <2>1 DEF Inv, Unmade
<1>6. Announced' <=> Announced
  BY DEF Announced
<1>7. InTime'
  <2> SUFFICES ASSUME NEW i \in registered \ latecomers
               PROVE  Opens(box[WH!Current(i)])'
    BY DEF InTime
  <2>1. PICK b, d : b = box[WH!Current(i)] /\ d = box'[WH!Current(i)]
    OBVIOUS
  <2>2. Opens(b) /\ WH!Current(i) \in WH!Boxes
    BY <2>1, CurrentBox DEF Inv, InTime
  <2>3. d.offered = b.offered
    BY <1>2, <2>1, <2>2 DEF Passes
  <2>4. Opens(d)'
    BY <1>6, <2>2, <2>3, OpensStill
  <2> QED BY <2>1, <2>4 DEF Opens, Begun, WH!Current
<1> QED BY <1>4, <1>5, <1>7 DEF Inv, KnownTold

LEMMA DeliveryKeeps ==
  ASSUME Inv, DeliveryStep
  PROVE  Inv'
<1>0. UNCHANGED <<told, known, subject, latecomers>> /\ emitted \in Nat
  BY BoundsAssumption DEF DeliveryStep, ceVars, Inv, Typed
<1>1. ASSUME NEW h \in Hooks, WH!Delete(h) PROVE Inv'
  <2>1. /\ h \in registered /\ registered' = registered \ {h}
        /\ UNCHANGED <<made, emitted>>
        /\ box' = [box EXCEPT ![WH!Current(h)] = WH!ClearTimer(box[WH!Current(h)])]
    BY <1>1 DEF WH!Delete
  <2>2. PICK g \in 1..MaxBoxes : g = made[h] /\ WH!Current(h) = <<h, g>>
    BY <2>1, CurrentBox DEF Inv
  <2>3. PICK b, c : b = box[<<h, g>>] /\ c = WH!ClearTimer(b)
    OBVIOUS
  <2>4. Passes(b, c, emitted)
    <3>1. BoxOK(b, emitted)
      BY <2>2, <2>3 DEF Inv, Typed, WH!Boxes
    <3> QED BY <1>0, <2>3, <3>1, Clears
  <2>5. ~(made[h] < g)
    BY <2>2
  <2>6. box' = [box EXCEPT ![<<h, g>>] = c]
    BY <2>1, <2>2, <2>3
  <2> QED BY <1>0, <2>1, <2>3, <2>4, <2>5, <2>6, OneBoxGoesOn
<1>2. ASSUME NEW h \in Hooks, NEW g \in 1..MaxBoxes,
             Delivery(h, g) \/ WH!TimerFires(h, g)
      PROVE  Inv'
  <2>1. PICK b : b = box[<<h, g>>] /\ BoxOK(b, emitted)
    BY DEF Inv, Typed, WH!Boxes
  <2>2. PICK c : /\ box' = [box EXCEPT ![<<h, g>>] = c]
                 /\ \/ WH!Sending(b) /\ (c = WH!Succeed(b) \/ c = WH!GiveUp(b))
                    \/ WH!Sending(b) /\ c = WH!RetryLater(b)
                    \/ b.timer = "armed" /\ c = WH!Due(b)
    BY <1>2, <2>1 DEF Delivery, WH!Answered, WH!Failed, WH!TimerFires
  <2>3. UNCHANGED <<registered, made, emitted>>
    BY <1>2 DEF Delivery, WH!Answered, WH!Failed, WH!TimerFires
  <2>4. Passes(b, c, emitted)
    BY <1>0, <2>1, <2>2, Leaves, Retries, ComesDue
  <2>5. ~(made[h] < g)
    <3>1. b # WH!Blank
      BY <2>2, BlankFacts DEF WH!Sending
    <3> QED BY <2>1, <3>1 DEF Inv, Unmade
  <2> QED BY <1>0, <2>1, <2>2, <2>3, <2>4, <2>5, OneBoxGoesOn
<1>3. CASE WH!Age
  <2>1. UNCHANGED <<registered, made, box, emitted>>
    BY <1>3 DEF WH!Age
  <2> QED BY <1>0, <2>1, NothingEmitted DEF Inv, Typed, KnownTold, Announced
<1> QED BY <1>1, <1>2, <1>3 DEF DeliveryStep

LEMMA RestartKeeps ==
  ASSUME Inv, Restart
  PROVE  Inv'
<1>1. /\ \A h \in registered : made[h] < MaxBoxes
      /\ made' = [h \in Hooks |-> IF h \in registered THEN made[h] + 1 ELSE made[h]]
      /\ box' = [b \in WH!Boxes |-> WH!Blank]
      /\ told' = [c \in Conns |-> "nothing"] /\ known' = {}
      /\ UNCHANGED <<registered, emitted, subject>>
  BY DEF Restart, WH!Restart, CE!Restarted
<1>2. made' \in [Hooks -> 0..MaxBoxes] /\ \A h \in registered : made'[h] # 0
  <2> SUFFICES ASSUME NEW h \in Hooks
               PROVE  made'[h] \in 0..MaxBoxes /\ (h \in registered => made'[h] # 0)
    BY <1>1 DEF Inv, Typed
  <2>1. made[h] \in 0..MaxBoxes /\ (h \in registered => made[h] < MaxBoxes)
    BY <1>1 DEF Inv, Typed
  <2>2. made'[h] = IF h \in registered THEN made[h] + 1 ELSE made[h]
    BY <1>1
  <2> QED BY <2>1, <2>2, BoundsAssumption
<1>3. told' \in [Conns -> Told] /\ KnownTold' /\ ~Announced'
  BY <1>1 DEF Told, KnownTold, Announced
<1>4. DOMAIN box' = WH!Boxes /\ \A k \in WH!Boxes : box'[k] = WH!Blank
  BY <1>1
<1>5. Typed'
  <2>1. emitted \in Nat /\ emitted' = emitted
    BY <1>1, BoundsAssumption DEF Inv, Typed
  <2>2. \A k \in WH!Boxes : BoxOK(box'[k], emitted)
    BY <1>4, <2>1, BlankFacts
  <2>3. \A k \in WH!Boxes : BoxOK(box[k], emitted)'
    BY <2>1, <2>2 DEF BoxOK, Left, Waiting, Entries, Increasing, WH!Sending, WH!Box, WH!Events
  <2> QED BY <1>1, <1>2, <1>3, <1>4, <2>3 DEF Inv, Typed, WH!Boxes
<1>6. Unmade'
  BY <1>4 DEF Unmade, WH!Boxes, WH!Blank
<1>7. InTime'
  <2> SUFFICES ASSUME NEW h \in registered PROVE Opens(box[WH!Current(h)])'
    BY <1>1 DEF InTime
  <2>1. <<h, made'[h]>> \in WH!Boxes
    <3>1. h \in Hooks /\ made'[h] \in 0..MaxBoxes /\ made'[h] # 0
      BY <1>2 DEF Inv, Typed
    <3>2. made'[h] \in 1..MaxBoxes
      BY <3>1, BoundsAssumption
    <3> QED BY <3>1, <3>2 DEF WH!Boxes
  <2>2. box'[<<h, made'[h]>>] = WH!Blank
    BY <1>4, <2>1
  <2>3. WH!Blank.offered = {}
    BY BlankFacts
  <2> QED BY <1>3, <2>2, <2>3 DEF Opens, WH!Current
<1> QED BY <1>3, <1>5, <1>6, <1>7 DEF Inv

LEMMA InvPreserved == Inv /\ [Next]_vars => Inv'
<1> SUFFICES ASSUME Inv, [Next]_vars PROVE Inv'
  OBVIOUS
<1>1. CASE CE!Next /\ Fanout
  BY <1>1, DeriveKeeps
<1>2. ASSUME NEW h \in Hooks, Register(h) PROVE Inv'
  BY <1>2, RegisterKeeps
<1>3. CASE DeliveryStep
  BY <1>3, DeliveryKeeps
<1>4. CASE Restart
  BY <1>4, RestartKeeps
<1>5. CASE OtherEvent
  BY <1>5, OtherKeeps
<1>6. CASE UNCHANGED vars
  <2>1. UNCHANGED <<told, known, registered, made, box, emitted, subject, latecomers>>
    BY <1>6 DEF vars, ceVars, whVars
  <2> QED BY <2>1, NothingEmitted DEF Inv, Typed, KnownTold, Announced
<1> QED BY <1>1, <1>2, <1>3, <1>4, <1>5, <1>6 DEF Next

LEMMA InitInv == Init => Inv
<1> SUFFICES ASSUME Init PROVE Inv
  OBVIOUS
<1>1. /\ registered = {} /\ made = [h \in Hooks |-> 0]
      /\ box = [b \in WH!Boxes |-> WH!Blank] /\ emitted = 0 /\ subject = <<>>
      /\ told = [c \in Conns |-> "nothing"] /\ known = {}
  BY DEF Init, WH!Init, CE!Init
<1>2. Typed
  <2>1. \A k \in WH!Boxes : BoxOK(box[k], 0)
    BY <1>1, BlankFacts
  <2>2. made \in [Hooks -> 0..MaxBoxes] /\ emitted \in 0..MaxEvents
    BY <1>1, BoundsAssumption
  <2>3. subject \in Seq(Subjects) /\ Len(subject) = emitted
    BY <1>1
  <2> QED BY <1>1, <2>1, <2>2, <2>3 DEF Typed, Told
<1>3. Unmade /\ KnownTold /\ InTime
  BY <1>1 DEF Unmade, KnownTold, InTime, WH!Boxes
<1> QED BY <1>2, <1>3 DEF Inv

LEMMA Invariance == Spec => []Inv
BY InitInv, InvPreserved, PTL DEF Spec

LEMMA InvOrders == Inv => CreatedBeforeDeleted
<1> SUFFICES ASSUME Inv, NEW h \in registered \ latecomers, "deleted" \in Heard(h)
             PROVE  "created" \in Heard(h) \cup Crossed(h)
  BY DEF CreatedBeforeDeleted
<1>1. PICK b : b = box[WH!Current(h)]
  OBVIOUS
<1>2. BoxOK(b, emitted) /\ Opens(b) /\ Heard(h) = {subject[e] : e \in Left(b)}
  BY <1>1, CurrentBox DEF Heard, Left, Inv, InTime, Typed
<1>3. PICK f \in Left(b) : subject[f] = "deleted"
  BY <1>2
<1>4. f \in b.offered
  BY <1>2 DEF BoxOK
<1>5. PICK e \in 1..emitted : subject[e] = "created" /\ e \in b.offered /\ e < f
  BY <1>2, <1>3, <1>4 DEF Opens, Begun
<1>6. e \notin Waiting(b)
  <2> SUFFICES ASSUME e \in Waiting(b) PROVE FALSE
    OBVIOUS
  <2>1. f < e /\ e \in Nat /\ f \in Nat
    BY <1>2, <1>4 DEF BoxOK
  <2> QED BY <1>5, <2>1
<1>7. CASE b.crossed
  <2>1. ToSet(b.queue) = Waiting(b)
    BY DEF ToSet, Waiting, Entries
  <2> QED BY <1>1, <1>5, <1>6, <1>7, <2>1 DEF Crossed
<1>8. CASE ~b.crossed
  <2>1. e \in Left(b)
    BY <1>2, <1>5, <1>6, <1>8 DEF BoxOK
  <2> QED BY <1>2, <1>5, <2>1
<1> QED BY <1>7, <1>8

-----------------------------------------------------------------------------

\* A receiver registered in time hears of the end of a connection only after
\* its beginning left the queue: delivered, counted as dropped or, only if an
\* overflow hit in the middle of a delivery, uncounted; whatever deltas,
\* retries, lost sessions, restarts, other events and overflows come between.
THEOREM BeginningFirst == Spec => []CreatedBeforeDeleted
BY Invariance, InvOrders, PTL
=============================================================================
