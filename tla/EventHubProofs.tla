---------------------------- MODULE EventHubProofs ----------------------------
(***************************************************************************)
(* Proofs about EventHub, for any clients, filters and bounds.  That a     *)
(* client misses nothing depends on what the ring holds, an unbroken run   *)
(* of the latest events, and on how a stream may break: what a client saw  *)
(* is a prefix of what it was sent, with no gap in it, so that the last    *)
(* event it saw stands for all of them.                                    *)
(***************************************************************************)
EXTENDS EventHub, FiniteSetTheorems, TLAPS

Ascending(es) == \A i, j \in 1..Len(es) : i < j => Before(es[i], es[j])

\* An event of an earlier process, or one of this one.
Known(e) == e.boot <= boot /\ (e.boot = boot => e.n <= seq /\ e.type = types[e.n])

\* The ring holds the latest events, one after the other.
RingRuns ==
  \A i \in 1..Len(buf) :
    buf[i] = Numbered(seq - Len(buf) + i, types[seq - Len(buf) + i])

\* A stream carries events of this process, and ends with its request.
Streams ==
  \A s \in Subs :
    /\ s \notin open => wire[s] = <<>>
    /\ \A e \in ToSet(wire[s]) : Known(e) /\ e.boot = boot
    /\ \A e \in ToSet(seen[s]) : Known(e)

InOrder ==
  \A s \in Subs :
    /\ Ascending(seen[s]) /\ Ascending(wire[s])
    /\ \A e \in ToSet(seen[s]), f \in ToSet(wire[s]) : Before(e, f)

\* Event n of this process is one that client s is to see.
Owed(s, n) == n > since[s] /\ types[n] \in Filter[s] /\ n \notin excused[s]

\* Up to the last event a client saw, it saw what it was to see.
Settled ==
  \A s \in Subs : \A e \in ToSet(seen[s]) :
    e.boot = boot =>
      \A n \in 1..e.n : Owed(s, n) => Numbered(n, types[n]) \in ToSet(seen[s])

\* Whoever has a stream has seen it all, or has it on its way.
Served ==
  \A s \in open : \A n \in 1..seq :
    Owed(s, n) => Numbered(n, types[n]) \in ToSet(seen[s]) \cup ToSet(wire[s])

Inv == TypeOK /\ RingRuns /\ Streams /\ InOrder /\ Settled /\ Served

-----------------------------------------------------------------------------
(* Sequences of events *)

LEMMA ToSetFacts ==
  ASSUME NEW S, NEW q \in Seq(S)
  PROVE  /\ ToSet(q) = {q[i] : i \in 1..Len(q)} /\ ToSet(q) \subseteq S
         /\ \A e \in S : Append(q, e) \in Seq(S) /\ ToSet(Append(q, e)) = ToSet(q) \cup {e}
         /\ q # <<>> => /\ Head(q) \in ToSet(q) /\ Tail(q) \in Seq(S)
                        /\ ToSet(q) = {Head(q)} \cup ToSet(Tail(q))
                        /\ Last(q) \in ToSet(q) /\ Last(q) = q[Len(q)]
                        /\ Len(q) \in 1..Len(q)
         /\ \A r \in Seq(S) : ToSet(q \o r) = ToSet(q) \cup ToSet(r)
<1>1. ToSet(q) = {q[i] : i \in 1..Len(q)} /\ ToSet(q) \subseteq S
  BY DEF ToSet
<1>2. ASSUME NEW e \in S
      PROVE  Append(q, e) \in Seq(S) /\ ToSet(Append(q, e)) = ToSet(q) \cup {e}
  <2> DEFINE a == Append(q, e)
  <2>1. /\ a \in Seq(S) /\ Len(a) = Len(q) + 1 /\ Len(q) \in Nat
        /\ \A i \in 1..Len(q) : a[i] = q[i]
        /\ a[Len(q) + 1] = e
    OBVIOUS
  <2> HIDE DEF a
  <2>2. ToSet(a) = {a[i] : i \in 1..(Len(q) + 1)}
    BY <2>1 DEF ToSet
  <2>3. \A i \in 1..(Len(q) + 1) : i \in 1..Len(q) \/ i = Len(q) + 1
    BY <2>1
  <2>4. Len(q) + 1 \in 1..(Len(q) + 1) /\ \A i \in 1..Len(q) : i \in 1..(Len(q) + 1)
    BY <2>1
  <2>5. ToSet(a) = ToSet(q) \cup {e}
    BY <1>1, <2>1, <2>2, <2>3, <2>4
  <2> QED BY <2>1, <2>5 DEF a
<1>3. ASSUME q # <<>>
      PROVE  /\ Head(q) \in ToSet(q) /\ Tail(q) \in Seq(S)
             /\ ToSet(q) = {Head(q)} \cup ToSet(Tail(q))
             /\ Last(q) \in ToSet(q) /\ Last(q) = q[Len(q)]
             /\ Len(q) \in 1..Len(q)
  <2> DEFINE t == Tail(q)
  <2>1. /\ t \in Seq(S) /\ Len(t) = Len(q) - 1 /\ Len(q) \in Nat /\ Len(q) # 0
        /\ \A i \in 1..Len(t) : t[i] = q[i + 1]
        /\ Head(q) = q[1]
    BY <1>3
  <2> HIDE DEF t
  <2>2. 1 \in 1..Len(q) /\ Len(q) \in 1..Len(q)
    BY <2>1
  <2>3. \A i \in 1..Len(q) : i = 1 \/ (i - 1 \in 1..Len(t) /\ t[i - 1] = q[i])
    BY <2>1
  <2>4. \A i \in 1..Len(t) : i + 1 \in 1..Len(q)
    BY <2>1
  <2>5. ToSet(t) = {t[i] : i \in 1..Len(t)}
    BY <2>1 DEF ToSet
  <2>6. ToSet(q) = {Head(q)} \cup ToSet(t)
    BY <1>1, <2>1, <2>2, <2>3, <2>4, <2>5
  <2> QED BY <1>1, <2>1, <2>2, <2>6 DEF t, Last
<1>4. ASSUME NEW r \in Seq(S)
      PROVE  ToSet(q \o r) = ToSet(q) \cup ToSet(r)
  <2> DEFINE c == q \o r
  <2>1. /\ c \in Seq(S) /\ Len(c) = Len(q) + Len(r) /\ Len(q) \in Nat /\ Len(r) \in Nat
        /\ \A i \in 1..Len(q) : c[i] = q[i]
        /\ \A i \in 1..Len(r) : c[Len(q) + i] = r[i]
    OBVIOUS
  <2> HIDE DEF c
  <2>2. /\ \A i \in 1..Len(q) : i \in 1..Len(c)
        /\ \A i \in 1..Len(r) : Len(q) + i \in 1..Len(c)
        /\ \A i \in 1..Len(c) : i \in 1..Len(q) \/ i - Len(q) \in 1..Len(r)
        /\ \A i \in 1..Len(c) : Len(q) + (i - Len(q)) = i
    BY <2>1
  <2>3. ToSet(c) = {c[i] : i \in 1..Len(c)} /\ ToSet(r) = {r[i] : i \in 1..Len(r)}
    <3>1. DOMAIN c = 1..Len(c) /\ DOMAIN r = 1..Len(r)
      BY <2>1
    <3> QED BY <3>1 DEF ToSet
  <2>4. ASSUME NEW i \in 1..Len(c) PROVE c[i] \in ToSet(q) \cup ToSet(r)
    <3>1. CASE i \in 1..Len(q)
      BY <1>1, <2>1, <3>1
    <3>2. CASE i - Len(q) \in 1..Len(r)
      <4>1. c[Len(q) + (i - Len(q))] = r[i - Len(q)]
        BY <2>1, <3>2
      <4>2. c[i] = r[i - Len(q)]
        BY <2>2, <4>1
      <4> QED BY <2>3, <3>2, <4>2
    <3> QED BY <2>2, <3>1, <3>2
  <2>5. ASSUME NEW i \in 1..Len(q) PROVE q[i] \in ToSet(c)
    BY <2>1, <2>2, <2>3
  <2>6. ASSUME NEW i \in 1..Len(r) PROVE r[i] \in ToSet(c)
    BY <2>1, <2>2, <2>3
  <2> QED BY <1>1, <2>3, <2>4, <2>5, <2>6 DEF c
<1> QED BY <1>1, <1>2, <1>3, <1>4

\* The elements at some indices are these, and in their order.
LEMMA PickFacts ==
  ASSUME NEW S, NEW es \in Seq(S), NEW I \in SUBSET (1..Len(es))
  PROVE  /\ Pick(es, I) \in Seq(S)
         /\ ToSet(Pick(es, I)) = {es[i] : i \in I}
         /\ \A k, l \in 1..Len(Pick(es, I)) : k < l =>
              \E i, j \in I : i < j /\ Pick(es, I)[k] = es[i] /\ Pick(es, I)[l] = es[j]
<1> DEFINE Upto(i) == {j \in I : j <= i}
           rank == [i \in I |-> Cardinality(Upto(i))]
           N == Cardinality(I)
           f(k) == CHOOSE i \in I : Cardinality(Upto(i)) = k
<1>9. Pick(es, I) = [k \in 1..N |-> es[f(k)]]
  BY DEF Pick
<1>0. \A i \in I : i \in 1..Len(es) /\ i \in Int
  OBVIOUS
<1>1. IsFiniteSet(I) /\ N \in Nat
  <2>1. Len(es) \in Nat /\ IsFiniteSet(1..Len(es))
    BY FS_Interval
  <2>2. IsFiniteSet(I)
    BY <2>1, FS_Subset
  <2> QED BY <2>1, <2>2, FS_CardinalityType
<1>2. \A i \in I : /\ IsFiniteSet(Upto(i)) /\ i \in Upto(i) /\ Cardinality(Upto(i)) \in Nat
                   /\ Cardinality(Upto(i)) <= N /\ Cardinality(Upto(i)) # 0
  <2> SUFFICES ASSUME NEW i \in I
               PROVE  /\ IsFiniteSet(Upto(i)) /\ i \in Upto(i)
                      /\ Cardinality(Upto(i)) \in Nat
                      /\ Cardinality(Upto(i)) <= N /\ Cardinality(Upto(i)) # 0
    OBVIOUS
  <2>1. i \in Upto(i) /\ Upto(i) \in SUBSET I
    BY <1>0
  <2>2. IsFiniteSet(Upto(i)) /\ Cardinality(Upto(i)) <= N
    BY <1>1, <2>1, FS_Subset
  <2>3. Cardinality(Upto(i)) \in Nat /\ Cardinality(Upto(i)) # 0
    BY <2>1, <2>2, FS_CardinalityType, FS_EmptySet
  <2> QED BY <2>1, <2>2, <2>3
<1>3. \A i, j \in I : i < j => Cardinality(Upto(i)) < Cardinality(Upto(j))
  <2> SUFFICES ASSUME NEW i \in I, NEW j \in I, i < j
               PROVE  Cardinality(Upto(i)) < Cardinality(Upto(j))
    OBVIOUS
  <2>1. Upto(i) \in SUBSET Upto(j) /\ j \in Upto(j) /\ j \notin Upto(i)
    <3>1. \A k \in I : k <= i => k <= j
      BY <1>0
    <3>2. Upto(i) \in SUBSET Upto(j)
      BY <3>1
    <3>3. j <= j /\ ~(j <= i)
      BY <1>0
    <3> QED BY <3>2, <3>3
  <2>2. Cardinality(Upto(i)) <= Cardinality(Upto(j)) /\ Cardinality(Upto(i)) # Cardinality(Upto(j))
    BY <1>2, <2>1, FS_Subset
  <2> QED BY <1>2, <2>2
<1> HIDE DEF N, Upto, f
<1>4. rank \in [I -> 1..N] /\ \A i, j \in I : i < j => rank[i] < rank[j]
  BY <1>1, <1>2, <1>3
<1>13. \A i \in I : rank[i] = Cardinality(Upto(i))
  OBVIOUS
<1> HIDE DEF rank
<1>5. \A k \in 1..N : \E i \in I : rank[i] = k
  <2>1. rank \in Injection(I, 1..N)
    <3>1. ASSUME NEW i \in I, NEW j \in I, rank[i] = rank[j] PROVE i = j
      <4>1. ~(i < j) /\ ~(j < i)
        BY <1>4, <3>1
      <4> QED BY <1>0, <4>1
    <3> QED BY <1>4, <3>1 DEF Injection, IsInjective
  <2>2. IsFiniteSet(1..N) /\ Cardinality(1..N) = N
    BY <1>1, FS_Interval
  <2>3. rank \in Surjection(I, 1..N)
    BY <2>1, <2>2, FS_Injection DEF N
  <2> QED BY <2>3 DEF Surjection
<1>6. \A k \in 1..N : f(k) \in I /\ rank[f(k)] = k
  <2>1. \A k \in 1..N : \E i \in I : Cardinality(Upto(i)) = k
    BY <1>5, <1>13
  <2>2. \A k \in 1..N : f(k) \in I /\ Cardinality(Upto(f(k))) = k
    BY <2>1, Zenon DEF f
  <2> QED BY <1>13, <2>2
<1>7. ASSUME NEW k \in 1..N, NEW l \in 1..N, k < l
      PROVE  f(k) < f(l)
  <2>1. /\ f(k) \in I /\ f(l) \in I /\ f(k) \in Int /\ f(l) \in Int
        /\ rank[f(k)] = k /\ rank[f(l)] = l
    BY <1>0, <1>6
  <2>2. f(l) < f(k) => l < k
    BY <1>4, <2>1
  <2>3. f(l) # f(k)
    BY <1>7, <2>1
  <2> QED BY <1>7, <2>1, <2>2, <2>3
<1>8. \A i \in I : rank[i] \in 1..N /\ f(rank[i]) = i
  <2>1. ASSUME NEW i \in I PROVE rank[i] \in 1..N /\ f(rank[i]) = i
    <3>1. rank[i] \in 1..N
      BY <1>4
    <3>2. f(rank[i]) \in I /\ rank[f(rank[i])] = rank[i]
      BY <1>6, <3>1
    <3>3. ~(f(rank[i]) < i) /\ ~(i < f(rank[i]))
      BY <1>4, <3>2
    <3>4. f(rank[i]) \in Int /\ i \in Int
      BY <1>0, <3>2
    <3> QED BY <3>1, <3>3, <3>4
  <2> QED BY <2>1
<1>10. \A k \in 1..N : es[f(k)] \in S
  <2>1. \A i \in 1..Len(es) : es[i] \in S
    OBVIOUS
  <2> QED BY <1>0, <1>6, <2>1
<1>11. /\ Pick(es, I) \in Seq(S) /\ Len(Pick(es, I)) = N
       /\ \A k \in 1..N : Pick(es, I)[k] = es[f(k)]
  BY <1>1, <1>9, <1>10
<1>12. ToSet(Pick(es, I)) = {es[i] : i \in I}
  <2>1. ToSet(Pick(es, I)) = {es[f(k)] : k \in 1..N}
    BY <1>11, ToSetFacts
  <2>2. {es[f(k)] : k \in 1..N} \subseteq {es[i] : i \in I}
    BY <1>6
  <2>3. \A i \in I : es[i] \in {es[f(k)] : k \in 1..N}
    BY <1>8
  <2> QED BY <2>1, <2>2, <2>3
<1> QED BY <1>6, <1>7, <1>11, <1>12

LEMMA BeforeFacts ==
  /\ \A e, f, g \in Event : Before(e, f) /\ Before(f, g) => Before(e, g)
  /\ \A e, f \in Event : e.boot = boot /\ f.boot = boot => (Before(e, f) <=> e.n < f.n)
<1>1. \A e \in Event : e.boot \in Int /\ e.n \in Int
  BY BoundsAssumption DEF Event
<1>2. ASSUME NEW e \in Event, NEW f \in Event, NEW g \in Event, Before(e, f), Before(f, g)
      PROVE  Before(e, g)
  BY <1>1, <1>2 DEF Before
<1>3. ASSUME NEW e \in Event, NEW f \in Event, e.boot = boot, f.boot = boot
      PROVE  Before(e, f) <=> e.n < f.n
  BY <1>1, <1>3 DEF Before
<1> QED BY <1>2, <1>3

LEMMA AscendingAppend ==
  ASSUME NEW es \in Seq(Event), NEW e \in Event, Ascending(es),
         \A f \in ToSet(es) : Before(f, e)
  PROVE  Ascending(Append(es, e))
<1> DEFINE a == Append(es, e)
<1>1. /\ Len(a) = Len(es) + 1 /\ Len(es) \in Nat
      /\ \A i \in 1..Len(es) : a[i] = es[i]
      /\ a[Len(es) + 1] = e
  OBVIOUS
<1> HIDE DEF a
<1>2. \A i \in 1..Len(es) : Before(es[i], e)
  BY ToSetFacts
<1>3. ASSUME NEW i \in 1..Len(a), NEW j \in 1..Len(a), i < j PROVE Before(a[i], a[j])
  <2>1. i \in 1..Len(es) /\ (j \in 1..Len(es) \/ j = Len(es) + 1)
    BY <1>1, <1>3
  <2>2. CASE j \in 1..Len(es)
    BY <1>1, <1>3, <2>1, <2>2 DEF Ascending
  <2>3. CASE j = Len(es) + 1
    BY <1>1, <1>2, <2>1, <2>3
  <2> QED BY <2>1, <2>2, <2>3
<1> QED BY <1>3 DEF Ascending, a

LEMMA AscendingTail ==
  ASSUME NEW es \in Seq(Event), es # <<>>, Ascending(es)
  PROVE  Ascending(Tail(es)) /\ \A f \in ToSet(Tail(es)) : Before(Head(es), f)
<1> DEFINE t == Tail(es)
<1>1. /\ t \in Seq(Event) /\ Len(t) = Len(es) - 1 /\ Len(es) \in Nat /\ Len(es) # 0
      /\ \A i \in 1..Len(t) : t[i] = es[i + 1]
      /\ Head(es) = es[1]
  OBVIOUS
<1> HIDE DEF t
<1>2. /\ 1 \in 1..Len(es)
      /\ \A i \in 1..Len(t) : i + 1 \in 1..Len(es) /\ 1 < i + 1
  BY <1>1
<1>3. ASSUME NEW i \in 1..Len(t), NEW j \in 1..Len(t), i < j PROVE Before(t[i], t[j])
  <2>1. i + 1 \in 1..Len(es) /\ j + 1 \in 1..Len(es) /\ i + 1 < j + 1
    BY <1>2, <1>3
  <2>2. Before(es[i + 1], es[j + 1])
    BY <2>1 DEF Ascending
  <2> QED BY <1>1, <2>2
<1>4. ASSUME NEW i \in 1..Len(t) PROVE Before(Head(es), t[i])
  <2>1. Before(es[1], es[i + 1])
    BY <1>2 DEF Ascending
  <2> QED BY <1>1, <2>1
<1>5. ToSet(t) = {t[i] : i \in 1..Len(t)}
  BY <1>1, ToSetFacts
<1> QED BY <1>3, <1>4, <1>5 DEF Ascending, t

LEMMA LastIsLatest ==
  ASSUME NEW es \in Seq(Event), es # <<>>, Ascending(es), NEW e \in ToSet(es)
  PROVE  e = Last(es) \/ Before(e, Last(es))
<1>1. Last(es) = es[Len(es)] /\ Len(es) \in 1..Len(es) /\ Len(es) \in Nat
  BY ToSetFacts
<1>2. PICK i \in 1..Len(es) : e = es[i]
  BY ToSetFacts
<1>3. CASE i = Len(es)
  BY <1>1, <1>2, <1>3
<1>4. CASE i < Len(es)
  BY <1>1, <1>2, <1>4 DEF Ascending
<1> QED BY <1>1, <1>3, <1>4

-----------------------------------------------------------------------------
(* The ring *)

LEMMA Counted ==
  ASSUME TypeOK
  PROVE  /\ seq \in Nat /\ boot \in Int /\ Len(buf) \in Nat /\ Len(buf) <= seq
         /\ MaxRing \in Nat /\ MaxRing # 0 /\ MaxEvents \in Nat /\ MaxBoots \in Nat
         /\ \A e \in Event : e.n \in Nat /\ e.n # 0 /\ e.boot \in Int
         /\ \A n \in 1..seq : types[n] \in Types /\ n \in 1..MaxEvents
         /\ \A n \in 1..seq : Numbered(n, types[n]) \in Event
<1>1. /\ seq \in Nat /\ seq <= MaxEvents /\ boot \in Int /\ Len(buf) \in Nat /\ Len(buf) <= seq
      /\ MaxRing \in Nat /\ MaxRing # 0 /\ MaxEvents \in Nat /\ MaxBoots \in Nat
  <2>1. /\ seq \in Nat /\ seq <= MaxEvents /\ boot \in Int
        /\ MaxRing \in Nat /\ MaxRing # 0 /\ MaxEvents \in Nat /\ MaxBoots \in Nat
    BY BoundsAssumption DEF TypeOK
  <2>2. Len(buf) = IF seq < MaxRing THEN seq ELSE MaxRing
    BY DEF TypeOK
  <2> QED BY <2>1, <2>2
<1>2. \A e \in Event : e.n \in Nat /\ e.n # 0 /\ e.boot \in Int
  BY <1>1 DEF Event
<1>3. \A n \in 1..seq : types[n] \in Types
  BY DEF TypeOK
<1>4. \A n \in 1..seq : n \in 1..MaxEvents
  BY <1>1
<1>5. \A n \in 1..seq : Numbered(n, types[n]) \in Event
  BY <1>3, <1>4 DEF Event, Numbered, TypeOK
<1> QED BY <1>1, <1>2, <1>3, <1>4, <1>5

LEMMA NumberedFacts ==
  /\ \A n, type : /\ Numbered(n, type).n = n /\ Numbered(n, type).type = type
                  /\ Numbered(n, type).boot = boot
  /\ \A e \in Event : e.boot = boot => e = Numbered(e.n, e.type)
BY DEF Numbered, Event

\* The ring has the last events of this process, and of these it has all.
LEMMA RingFacts ==
  ASSUME TypeOK, RingRuns
  PROVE  /\ \A i \in 1..Len(buf) :
              /\ buf[i] \in Event /\ buf[i].boot = boot /\ Known(buf[i])
              /\ buf[i].n = seq - Len(buf) + i /\ buf[i].n \in 1..seq
         /\ \A n \in 1..seq : n > seq - Len(buf) =>
              \E i \in 1..Len(buf) : buf[i] = Numbered(n, types[n])
         /\ ToSet(buf) = {buf[i] : i \in 1..Len(buf)}
<1>1. /\ seq \in Nat /\ boot \in Int /\ Len(buf) \in Nat /\ Len(buf) <= seq
      /\ buf \in Seq(Event)
  BY Counted DEF TypeOK
<1>2. ASSUME NEW i \in 1..Len(buf)
      PROVE  /\ buf[i] \in Event /\ buf[i].boot = boot /\ Known(buf[i])
             /\ buf[i].n = seq - Len(buf) + i /\ buf[i].n \in 1..seq
  <2>1. buf[i] = Numbered(seq - Len(buf) + i, types[seq - Len(buf) + i]) /\ buf[i] \in Event
    BY <1>1 DEF RingRuns
  <2>2. seq - Len(buf) + i \in 1..seq
    BY <1>1
  <2>3. Known(buf[i])
    BY <1>1, <2>1, <2>2, NumberedFacts DEF Known
  <2> QED BY <2>1, <2>2, <2>3, NumberedFacts
<1>3. ASSUME NEW n \in 1..seq, n > seq - Len(buf)
      PROVE  \E i \in 1..Len(buf) : buf[i] = Numbered(n, types[n])
  <2> DEFINE i == n - (seq - Len(buf))
  <2>1. i \in 1..Len(buf) /\ seq - Len(buf) + i = n
    BY <1>1, <1>3
  <2> HIDE DEF i
  <2>2. buf[i] = Numbered(n, types[n])
    BY <2>1 DEF RingRuns
  <2> QED BY <2>1, <2>2
<1> QED BY <1>1, <1>2, <1>3, ToSetFacts

\* A client is sent what comes after the last event it saw.
LEMMA ReplayFromFacts ==
  ASSUME Inv, NEW s \in Subs
  PROVE  /\ ReplayFrom(s) \in 0..Len(buf)
         /\ ~HasLast(s) => ReplayFrom(s) = Len(buf)
         /\ HasLast(s) => \A i \in 1..Len(buf) :
              /\ i > ReplayFrom(s) => Before(Last(seen[s]), buf[i])
              /\ i <= ReplayFrom(s) => Last(seen[s]).boot = boot /\ buf[i].n <= Last(seen[s]).n
<1>1. /\ seq \in Nat /\ boot \in Int /\ Len(buf) \in Nat /\ Len(buf) <= seq
      /\ \A e \in Event : e.n \in Nat /\ e.n # 0 /\ e.boot \in Int
  BY Counted DEF Inv
<1>2. CASE ~HasLast(s)
  BY <1>1, <1>2 DEF ReplayFrom
<1>3. ASSUME HasLast(s)
      PROVE  /\ ReplayFrom(s) \in 0..Len(buf)
             /\ \A i \in 1..Len(buf) :
                  /\ i > ReplayFrom(s) => Before(Last(seen[s]), buf[i])
                  /\ i <= ReplayFrom(s) =>
                       Last(seen[s]).boot = boot /\ buf[i].n <= Last(seen[s]).n
  <2> DEFINE l == Last(seen[s])
  <2>1. l \in Event /\ Known(l)
    <3>1. seen[s] \in Seq(Event) /\ seen[s] # <<>>
      BY <1>3 DEF Inv, TypeOK, HasLast
    <3>2. l \in ToSet(seen[s]) /\ ToSet(seen[s]) \subseteq Event
      BY <3>1, ToSetFacts
    <3> QED BY <3>2 DEF Inv, Streams
  <2> HIDE DEF l
  <2>2. \A i \in 1..Len(buf) : /\ buf[i] \in Event /\ buf[i].boot = boot
                               /\ buf[i].n = seq - Len(buf) + i
    BY RingFacts DEF Inv
  <2>3. CASE l \in ToSet(buf)
    <3>1. ReplayFrom(s) = IndexOf(l)
      BY <1>3, <2>3 DEF ReplayFrom, l
    <3>2. \E i \in DOMAIN buf : buf[i] = l
      BY <2>3 DEF ToSet
    <3>3. IndexOf(l) \in DOMAIN buf /\ buf[IndexOf(l)] = l
      BY <3>2 DEF IndexOf
    <3>4. IndexOf(l) \in 1..Len(buf)
      BY <3>3 DEF Inv, TypeOK
    <3>5. l.boot = boot /\ l.n = seq - Len(buf) + IndexOf(l)
      BY <2>2, <3>3, <3>4
    <3>6. ASSUME NEW i \in 1..Len(buf), i > IndexOf(l) PROVE Before(l, buf[i])
      <4>1. l.n < buf[i].n
        BY <1>1, <2>2, <3>4, <3>5, <3>6
      <4> QED BY <2>1, <2>2, <3>5, <4>1, BeforeFacts
    <3>7. ASSUME NEW i \in 1..Len(buf), i <= IndexOf(l) PROVE buf[i].n <= l.n
      BY <1>1, <2>2, <3>4, <3>5, <3>7
    <3> QED BY <1>1, <3>1, <3>4, <3>5, <3>6, <3>7 DEF l
  <2>4. CASE l \notin ToSet(buf)
    <3>1. ReplayFrom(s) = 0
      BY <1>3, <2>4 DEF ReplayFrom, l
    <3>2. ASSUME NEW i \in 1..Len(buf) PROVE Before(l, buf[i])
      <4>1. CASE l.boot = boot
        <5>1. l.n \in 1..seq /\ l = Numbered(l.n, types[l.n])
          BY <1>1, <2>1, <4>1, NumberedFacts DEF Known
        <5>2. ~(l.n > seq - Len(buf))
          BY <2>4, <5>1, RingFacts DEF Inv
        <5>3. l.n < buf[i].n
          BY <1>1, <2>2, <5>1, <5>2
        <5> QED BY <2>1, <2>2, <4>1, <5>3, BeforeFacts
      <4>2. CASE l.boot # boot
        BY <1>1, <2>1, <2>2, <4>2 DEF Known, Before
      <4> QED BY <4>1, <4>2
    <3> QED BY <1>1, <3>1, <3>2 DEF l
  <2> QED BY <2>3, <2>4
<1> QED BY <1>2, <1>3

LEMMA ReplayedFacts ==
  ASSUME Inv, NEW s \in Subs
  PROVE  /\ Replayed(s) \in Seq(Event) /\ Ascending(Replayed(s))
         /\ \A e : e \in ToSet(Replayed(s)) <=>
              \E i \in 1..Len(buf) : i > ReplayFrom(s) /\ Matches(s, buf[i]) /\ e = buf[i]
<1> DEFINE I == {i \in DOMAIN buf : i > ReplayFrom(s) /\ Matches(s, buf[i])}
<1>1. buf \in Seq(Event) /\ DOMAIN buf = 1..Len(buf)
  BY DEF Inv, TypeOK
<1>2. I \in SUBSET (1..Len(buf))
  BY <1>1
<1>3. \A i : i \in I <=> i \in 1..Len(buf) /\ i > ReplayFrom(s) /\ Matches(s, buf[i])
  BY <1>1
<1>4. Replayed(s) = Pick(buf, I)
  BY DEF Replayed
<1> HIDE DEF I
<1> DEFINE r == Pick(buf, I)
<1>5. /\ r \in Seq(Event) /\ ToSet(r) = {buf[i] : i \in I}
      /\ \A k, l \in 1..Len(r) : k < l =>
           \E i, j \in I : i < j /\ r[k] = buf[i] /\ r[l] = buf[j]
  BY <1>1, <1>2, PickFacts
<1> HIDE DEF r
<1>6. \A i, j \in 1..Len(buf) : i < j => Before(buf[i], buf[j])
  <2> SUFFICES ASSUME NEW i \in 1..Len(buf), NEW j \in 1..Len(buf), i < j
               PROVE  Before(buf[i], buf[j])
    OBVIOUS
  <2>1. /\ buf[i] \in Event /\ buf[i].boot = boot /\ buf[i].n = seq - Len(buf) + i
        /\ buf[j] \in Event /\ buf[j].boot = boot /\ buf[j].n = seq - Len(buf) + j
    BY RingFacts DEF Inv
  <2>2. buf[i].n < buf[j].n
    BY <2>1, Counted DEF Inv
  <2> QED BY <2>1, <2>2, BeforeFacts
<1>7. Ascending(r)
  BY <1>2, <1>5, <1>6 DEF Ascending
<1> QED BY <1>3, <1>4, <1>5, <1>7 DEF r

-----------------------------------------------------------------------------
(* The hub and its clients *)

\* An event is numbered next, and the ring gives up its oldest for it.
LEMMA RingGrows ==
  ASSUME Inv, NEW type \in Types, Emit(type)
  PROVE  /\ Numbered(seq + 1, type) \in Event
         /\ seq' = seq + 1 /\ types' = Append(types, type) /\ types' \in Seq(Types)
         /\ Len(types') = seq'
         /\ types'[seq + 1] = type /\ \A n \in 1..seq : types'[n] = types[n]
         /\ buf' \in Seq(Event) /\ Len(buf') = IF seq' < MaxRing THEN seq' ELSE MaxRing
         /\ RingRuns'
<1> DEFINE e == Numbered(seq + 1, type)
<1>1. /\ seq < MaxEvents /\ seq' = seq + 1 /\ types' = Append(types, type)
      /\ buf' = Push(e) /\ boot' = boot
  BY DEF Emit
<1>2. /\ seq \in Nat /\ Len(buf) \in Nat /\ Len(buf) <= seq /\ MaxEvents \in Nat
      /\ MaxRing \in Nat /\ MaxRing # 0
      /\ types \in Seq(Types) /\ Len(types) = seq /\ buf \in Seq(Event)
  BY Counted DEF Inv, TypeOK
<1>3. e \in Event
  BY <1>1, <1>2 DEF Inv, TypeOK, Event, Numbered
<1>4. /\ types' \in Seq(Types) /\ Len(types') = seq + 1
      /\ types'[seq + 1] = type /\ \A n \in 1..seq : types'[n] = types[n]
  BY <1>1, <1>2
<1>5. Len(buf) = IF seq < MaxRing THEN seq ELSE MaxRing
  BY DEF Inv, TypeOK
<1>6. \A i \in 1..Len(buf) : buf[i] = Numbered(seq - Len(buf) + i, types'[seq - Len(buf) + i])
  <2> SUFFICES ASSUME NEW i \in 1..Len(buf)
               PROVE  buf[i] = Numbered(seq - Len(buf) + i, types'[seq - Len(buf) + i])
    OBVIOUS
  <2>1. seq - Len(buf) + i \in 1..seq
    BY <1>2
  <2> QED BY <1>4, <2>1 DEF Inv, RingRuns
<1>7. e = Numbered(seq + 1, types'[seq + 1])
  BY <1>4
<1> HIDE DEF e
<1>8. CASE Len(buf) < MaxRing
  <2>1. buf' = Append(buf, e)
    BY <1>1, <1>8 DEF Push
  <2>2. /\ buf' \in Seq(Event) /\ Len(buf') = Len(buf) + 1 /\ buf'[Len(buf) + 1] = e
        /\ \A i \in 1..Len(buf) : buf'[i] = buf[i]
    BY <1>2, <1>3, <2>1
  <2>3. Len(buf') = IF seq' < MaxRing THEN seq' ELSE MaxRing
    BY <1>1, <1>2, <1>5, <1>8, <2>2
  <2>4. \A i \in 1..Len(buf') :
          buf'[i] = Numbered(seq' - Len(buf') + i, types'[seq' - Len(buf') + i])
    <3> SUFFICES ASSUME NEW i \in 1..Len(buf')
                 PROVE  buf'[i] = Numbered(seq' - Len(buf') + i, types'[seq' - Len(buf') + i])
      OBVIOUS
    <3>1. seq' - Len(buf') + i = seq - Len(buf) + i
      BY <1>1, <1>2, <2>2
    <3>2. i \in 1..Len(buf) \/ (i = Len(buf) + 1 /\ seq - Len(buf) + i = seq + 1)
      BY <1>2, <2>2
    <3> QED BY <1>6, <1>7, <2>2, <3>1, <3>2
  <2> QED BY <1>1, <1>3, <1>4, <2>2, <2>3, <2>4 DEF RingRuns, Numbered, e
<1>9. CASE ~(Len(buf) < MaxRing)
  <2> DEFINE t == Tail(buf)
  <2>1. Len(buf) = MaxRing /\ buf # <<>>
    BY <1>2, <1>5, <1>9
  <2>2. /\ t \in Seq(Event) /\ Len(t) = Len(buf) - 1
        /\ \A i \in 1..Len(t) : t[i] = buf[i + 1]
    BY <1>2, <2>1
  <2>3. buf' = Append(t, e)
    BY <1>1, <1>9 DEF Push
  <2> HIDE DEF t
  <2>4. /\ buf' \in Seq(Event) /\ Len(buf') = Len(buf) /\ buf'[Len(buf)] = e
        /\ \A i \in 1..Len(t) : buf'[i] = t[i]
    BY <1>2, <1>3, <2>2, <2>3
  <2>5. Len(buf') = IF seq' < MaxRing THEN seq' ELSE MaxRing
    BY <1>1, <1>2, <1>5, <2>1, <2>4
  <2>6. \A i \in 1..Len(buf') :
          buf'[i] = Numbered(seq' - Len(buf') + i, types'[seq' - Len(buf') + i])
    <3> SUFFICES ASSUME NEW i \in 1..Len(buf')
                 PROVE  buf'[i] = Numbered(seq' - Len(buf') + i, types'[seq' - Len(buf') + i])
      OBVIOUS
    <3>1. seq' - Len(buf') + i = seq - Len(buf) + (i + 1)
      BY <1>1, <1>2, <2>4
    <3>2. CASE i \in 1..Len(t)
      <4>1. i + 1 \in 1..Len(buf) /\ buf'[i] = buf[i + 1]
        BY <1>2, <2>2, <2>4, <3>2
      <4> QED BY <1>6, <3>1, <4>1
    <3>3. CASE i = Len(buf)
      <4>1. seq - Len(buf) + (i + 1) = seq + 1
        BY <1>2, <3>3
      <4> QED BY <1>7, <2>4, <3>1, <3>3, <4>1
    <3> QED BY <1>2, <2>2, <2>4, <3>2, <3>3
  <2> QED BY <1>1, <1>3, <1>4, <2>4, <2>5, <2>6 DEF RingRuns, Numbered, e
<1> QED BY <1>8, <1>9

LEMMA EmitKeeps ==
  ASSUME Inv, NEW type \in Types, Emit(type)
  PROVE  Inv'
<1>0. PICK e : e = Numbered(seq + 1, type)
  OBVIOUS
<1>1. /\ e \in Event /\ e.boot = boot /\ e.n = seq + 1 /\ e.type = type
      /\ seq' = seq + 1 /\ types' \in Seq(Types) /\ Len(types') = seq'
      /\ types'[seq + 1] = type /\ \A n \in 1..seq : types'[n] = types[n]
      /\ buf' \in Seq(Event) /\ Len(buf') = IF seq' < MaxRing THEN seq' ELSE MaxRing
      /\ RingRuns'
  BY <1>0, RingGrows, NumberedFacts
<1>2. /\ wire' = [s \in Subs |-> IF s \in open /\ Matches(s, e)
                                 THEN Append(wire[s], e) ELSE wire[s]]
      /\ seq < MaxEvents
      /\ UNCHANGED <<boot, open, seen, since, excused>>
  BY <1>0 DEF Emit
<1>3. /\ seq \in Nat /\ boot \in Int
      /\ \A f \in Event : f.n \in Nat /\ f.n # 0 /\ f.boot \in Int
  BY Counted DEF Inv
<1>4. \A s \in Subs : wire[s] \in Seq(Event) /\ seen[s] \in Seq(Event)
  BY DEF Inv, TypeOK
<1>5. \A s \in Subs : /\ wire'[s] \in Seq(Event)
                      /\ \/ wire'[s] = wire[s] /\ (s \in open => ~Matches(s, e))
                         \/ /\ wire'[s] = Append(wire[s], e) /\ s \in open
                            /\ ToSet(wire'[s]) = ToSet(wire[s]) \cup {e}
  <2> SUFFICES ASSUME NEW s \in Subs
               PROVE  /\ wire'[s] \in Seq(Event)
                      /\ \/ wire'[s] = wire[s] /\ (s \in open => ~Matches(s, e))
                         \/ /\ wire'[s] = Append(wire[s], e) /\ s \in open
                            /\ ToSet(wire'[s]) = ToSet(wire[s]) \cup {e}
    OBVIOUS
  <2>1. Append(wire[s], e) \in Seq(Event) /\ ToSet(Append(wire[s], e)) = ToSet(wire[s]) \cup {e}
    BY <1>1, <1>4, ToSetFacts
  <2> QED BY <1>2, <1>4, <2>1
<1>6. TypeOK'
  <2>1. seq' \in 0..MaxEvents
    BY <1>1, <1>2, Counted DEF Inv
  <2>2. wire' \in [Subs -> Seq(Event)]
    BY <1>2, <1>5
  <2> QED BY <1>1, <1>2, <2>1, <2>2 DEF Inv, TypeOK
<1>7. \A f \in Event : Known(f) => Known(f)' /\ Before(f, e)
  <2> SUFFICES ASSUME NEW f \in Event, Known(f) PROVE Known(f)' /\ Before(f, e)
    OBVIOUS
  <2>1. CASE f.boot = boot
    <3>1. f.n \in 1..seq
      BY <1>3, <2>1 DEF Known
    <3> QED BY <1>1, <1>2, <1>3, <2>1, <3>1 DEF Known, Before
  <2>2. CASE f.boot # boot
    BY <1>1, <1>2, <1>3, <2>2 DEF Known, Before
  <2> QED BY <2>1, <2>2
<1>8. Known(e)'
  BY <1>1, <1>2, <1>3 DEF Known
<1>9. \A s \in Subs : ToSet(wire[s]) \subseteq Event /\ ToSet(seen[s]) \subseteq Event
  BY <1>4, ToSetFacts
<1>10. Streams'
  <2> SUFFICES ASSUME NEW s \in Subs
               PROVE  /\ s \notin open' => wire'[s] = <<>>
                      /\ \A f \in ToSet(wire'[s]) : Known(f)' /\ f.boot = boot'
                      /\ \A f \in ToSet(seen'[s]) : Known(f)'
    BY DEF Streams, Known, ToSet
  <2>1. \A f \in ToSet(wire[s]) : Known(f)' /\ f.boot = boot
    BY <1>7, <1>9 DEF Inv, Streams
  <2>2. \A f \in ToSet(seen[s]) : Known(f)'
    BY <1>7, <1>9 DEF Inv, Streams
  <2>3. s \notin open => wire'[s] = <<>>
    BY <1>5 DEF Inv, Streams
  <2>4. \A f \in ToSet(wire'[s]) : f \in ToSet(wire[s]) \/ f = e
    BY <1>5
  <2>5. \A f \in ToSet(wire'[s]) : Known(f)' /\ f.boot = boot
    BY <1>1, <1>8, <2>1, <2>4
  <2> QED BY <1>2, <2>2, <2>3, <2>5
<1>11. InOrder'
  <2> SUFFICES ASSUME NEW s \in Subs
               PROVE  /\ Ascending(seen'[s]) /\ Ascending(wire'[s])
                      /\ \A f \in ToSet(seen'[s]), g \in ToSet(wire'[s]) : Before(f, g)
    BY DEF InOrder, Ascending, ToSet, Before
  <2>1. \A f \in ToSet(wire[s]) \cup ToSet(seen[s]) : Before(f, e)
    BY <1>7, <1>9 DEF Inv, Streams
  <2>2. Ascending(Append(wire[s], e))
    BY <1>1, <1>4, <2>1, AscendingAppend DEF Inv, InOrder
  <2> QED BY <1>2, <1>5, <2>1, <2>2 DEF Inv, InOrder
<1>12. \A s \in Subs, n \in 1..seq :
         (Owed(s, n)' => Owed(s, n)) /\ Numbered(n, types[n])' = Numbered(n, types[n])
  BY <1>1, <1>2 DEF Owed, Numbered
<1>13. Settled'
  <2> SUFFICES ASSUME NEW s \in Subs, NEW f \in ToSet(seen[s]), f.boot = boot,
                      NEW n \in 1..f.n, Owed(s, n)'
               PROVE  Numbered(n, types[n])' \in ToSet(seen[s])
    BY <1>2 DEF Settled, ToSet, Owed, Numbered
  <2>1. n \in 1..seq
    BY <1>3, <1>9 DEF Inv, Streams, Known
  <2> QED BY <1>12, <2>1 DEF Inv, Settled
<1>14. Served'
  <2> SUFFICES ASSUME NEW s \in open', NEW n \in 1..seq', Owed(s, n)'
               PROVE  Numbered(n, types[n])' \in ToSet(seen'[s]) \cup ToSet(wire'[s])
    BY DEF Served, ToSet
  <2>1. s \in Subs /\ s \in open /\ seen' = seen
    BY <1>2 DEF Inv, TypeOK
  <2>2. CASE n \in 1..seq
    <3>1. Numbered(n, types[n])' \in ToSet(seen[s]) \cup ToSet(wire[s])
      BY <1>12, <2>1, <2>2 DEF Inv, Served
    <3> QED BY <1>5, <2>1, <3>1
  <2>3. CASE n = seq + 1
    <3>1. Matches(s, e) /\ Numbered(n, types[n])' = e
      BY <1>0, <1>1, <1>2, <2>3 DEF Owed, Matches, Numbered
    <3> QED BY <1>5, <2>1, <3>1
  <2> QED BY <1>1, <1>3, <2>2, <2>3
<1> QED BY <1>1, <1>6, <1>10, <1>11, <1>13, <1>14 DEF Inv

\* What a new stream leaves out the client has seen, or the ring has lost.
LEMMA SubscribeKeeps ==
  ASSUME Inv, NEW s \in Subs, Subscribe(s)
  PROVE  Inv'
<1>0. PICK r : r = Replayed(s)
  OBVIOUS
<1>1. /\ open' = open \cup {s} /\ wire' = [wire EXCEPT ![s] = r]
      /\ since' = [since EXCEPT ![s] = IF HasLast(s) THEN since[s] ELSE seq]
      /\ excused' = [excused EXCEPT ![s] =
                       excused[s] \cup {n \in 1..seq : \A e \in ToSet(buf) : e.n # n}]
      /\ UNCHANGED <<boot, seq, buf, seen, types>>
  BY <1>0 DEF Subscribe
<1>2. /\ r \in Seq(Event) /\ Ascending(r)
      /\ \A e : e \in ToSet(r) <=>
           \E i \in 1..Len(buf) : i > ReplayFrom(s) /\ Matches(s, buf[i]) /\ e = buf[i]
  BY <1>0, ReplayedFacts
<1>3. /\ wire'[s] = r /\ \A q \in Subs : q # s => wire'[q] = wire[q]
      /\ since'[s] = (IF HasLast(s) THEN since[s] ELSE seq)
      /\ \A q \in Subs : q # s => since'[q] = since[q] /\ excused'[q] = excused[q]
      /\ excused'[s] = excused[s] \cup {n \in 1..seq : \A e \in ToSet(buf) : e.n # n}
  BY <1>1 DEF Inv, TypeOK
<1>4. /\ seq \in Nat /\ boot \in Int
      /\ \A n \in 1..seq : n \in 1..MaxEvents
      /\ \A f \in Event : f.n \in Nat /\ f.n # 0 /\ f.boot \in Int
  BY Counted DEF Inv
<1>5. TypeOK'
  <2>1. wire' \in [Subs -> Seq(Event)]
    BY <1>1, <1>2 DEF Inv, TypeOK
  <2>2. since' \in [Subs -> 0..MaxEvents]
    BY <1>1 DEF Inv, TypeOK
  <2>3. excused' \in [Subs -> SUBSET (1..MaxEvents)]
    <3>1. {n \in 1..seq : \A e \in ToSet(buf) : e.n # n} \subseteq 1..MaxEvents
      BY <1>4
    <3> QED BY <1>1, <3>1 DEF Inv, TypeOK
  <2> QED BY <1>1, <2>1, <2>2, <2>3 DEF Inv, TypeOK
<1>6. RingRuns'
  BY <1>1 DEF Inv, RingRuns, Numbered
<1>7. \A f : Known(f)' <=> Known(f)
  BY <1>1 DEF Known
<1>8. \A f \in ToSet(r) : Known(f) /\ f.boot = boot
  BY <1>2, RingFacts DEF Inv
<1>9. Streams'
  <2> SUFFICES ASSUME NEW q \in Subs
               PROVE  /\ q \notin open' => wire'[q] = <<>>
                      /\ \A f \in ToSet(wire'[q]) : Known(f)' /\ f.boot = boot'
                      /\ \A f \in ToSet(seen'[q]) : Known(f)'
    BY DEF Streams, Known, ToSet
  <2>1. CASE q = s
    BY <1>1, <1>3, <1>7, <1>8, <2>1 DEF Inv, Streams
  <2>2. CASE q # s
    BY <1>1, <1>3, <1>7, <2>2 DEF Inv, Streams
  <2> QED BY <2>1, <2>2
<1>10. HasLast(s) => /\ seen[s] \in Seq(Event) /\ Last(seen[s]) \in ToSet(seen[s])
                     /\ Last(seen[s]) \in Event
                     /\ \A e \in ToSet(seen[s]) : e \in Event /\
                          (e = Last(seen[s]) \/ Before(e, Last(seen[s])))
  <2>1. seen[s] \in Seq(Event) /\ Ascending(seen[s])
    BY DEF Inv, TypeOK, InOrder
  <2>2. HasLast(s) => Last(seen[s]) \in ToSet(seen[s]) /\ ToSet(seen[s]) \subseteq Event
    BY <2>1, ToSetFacts DEF HasLast
  <2>3. ASSUME HasLast(s), NEW e \in ToSet(seen[s])
        PROVE  e = Last(seen[s]) \/ Before(e, Last(seen[s]))
    BY <2>1, <2>3, LastIsLatest DEF HasLast
  <2> QED BY <2>1, <2>2, <2>3
<1>11. ~HasLast(s) => ToSet(seen[s]) = {}
  BY DEF HasLast, ToSet
<1>12. InOrder'
  <2> SUFFICES ASSUME NEW q \in Subs
               PROVE  /\ Ascending(seen'[q]) /\ Ascending(wire'[q])
                      /\ \A f \in ToSet(seen'[q]), g \in ToSet(wire'[q]) : Before(f, g)
    BY DEF InOrder, Ascending, ToSet, Before
  <2>1. CASE q = s
    <3>1. ASSUME NEW f \in ToSet(seen[s]), NEW g \in ToSet(r) PROVE Before(f, g)
      <4>1. HasLast(s)
        BY <1>11
      <4>2. g \in Event /\ Before(Last(seen[s]), g)
        BY <1>2, <4>1, ReplayFromFacts, RingFacts DEF Inv
      <4> QED BY <1>10, <4>1, <4>2, BeforeFacts
    <3> QED BY <1>1, <1>2, <1>3, <2>1, <3>1 DEF Inv, InOrder
  <2>2. CASE q # s
    BY <1>1, <1>3, <2>2 DEF Inv, InOrder
  <2> QED BY <2>1, <2>2
<1>13. \A q \in Subs : \A n : (q # s \/ HasLast(s)) /\ Owed(q, n)' => Owed(q, n)
  BY <1>1, <1>3 DEF Owed
<1>14. \A n : Numbered(n, types[n])' = Numbered(n, types[n])
  BY <1>1 DEF Numbered
<1>15. Settled'
  <2> SUFFICES ASSUME NEW q \in Subs, NEW f \in ToSet(seen[q]), f.boot = boot,
                      NEW n \in 1..f.n, Owed(q, n)'
               PROVE  Numbered(n, types[n])' \in ToSet(seen[q])
    BY <1>1 DEF Settled, ToSet, Owed, Numbered
  <2>1. q # s \/ HasLast(s)
    BY <1>11
  <2> QED BY <1>13, <1>14, <2>1 DEF Inv, Settled
<1>16. Served'
  <2> SUFFICES ASSUME NEW q \in open', NEW n \in 1..seq', Owed(q, n)'
               PROVE  Numbered(n, types[n])' \in ToSet(seen'[q]) \cup ToSet(wire'[q])
    BY DEF Served, ToSet
  <2>1. CASE q # s
    <3>1. q \in open /\ q \in Subs /\ n \in 1..seq
      BY <1>1, <2>1 DEF Inv, TypeOK
    <3>2. Numbered(n, types[n]) \in ToSet(seen[q]) \cup ToSet(wire[q])
      BY <1>13, <2>1, <3>1 DEF Inv, Served
    <3> QED BY <1>1, <1>3, <1>14, <2>1, <3>1, <3>2
  <2>2. CASE q = s
    <3>1. /\ n > since'[s] /\ types[n] \in Filter[s] /\ n \notin excused'[s] /\ n \in 1..seq
      BY <1>1, <2>2 DEF Owed
    <3>2. PICK i \in 1..Len(buf) : buf[i].n = n
      <4>1. \E e \in ToSet(buf) : e.n = n
        BY <1>3, <3>1
      <4> QED BY <4>1, RingFacts DEF Inv
    <3>3. buf[i] = Numbered(n, types[n])
      BY <3>2, RingFacts, NumberedFacts DEF Inv, Known
    <3>4. CASE i > ReplayFrom(s)
      <4>1. Matches(s, buf[i])
        BY <3>1, <3>3, NumberedFacts DEF Matches
      <4> QED BY <1>2, <1>3, <1>14, <2>2, <3>3, <3>4, <4>1
    <3>5. CASE ~(i > ReplayFrom(s))
      <4>1. HasLast(s)
        <5>1. ~HasLast(s) => since'[s] = seq
          BY <1>3
        <5> QED BY <1>4, <3>1, <5>1
      <4>2. i <= ReplayFrom(s)
        BY <3>5, ReplayFromFacts
      <4>3. Last(seen[s]).boot = boot /\ n <= Last(seen[s]).n
        BY <3>2, <4>1, <4>2, ReplayFromFacts
      <4>4. n \in 1..Last(seen[s]).n
        BY <1>4, <1>10, <3>1, <4>1, <4>3
      <4>5. Owed(s, n)
        BY <1>13, <2>2, <4>1
      <4>6. Numbered(n, types[n]) \in ToSet(seen[s])
        BY <1>10, <4>1, <4>3, <4>4, <4>5 DEF Inv, Settled
      <4> QED BY <1>1, <1>14, <2>2, <4>6
    <3> QED BY <3>4, <3>5
  <2> QED BY <2>1, <2>2
<1> QED BY <1>5, <1>6, <1>9, <1>12, <1>15, <1>16 DEF Inv

\* What was on its way is seen, the next event first: nothing is left out
\* up to it, for what is still on its way comes later.
LEMMA ReadKeeps ==
  ASSUME Inv, NEW s \in Subs, Read(s)
  PROVE  Inv'
<1>0. PICK h, t, a : h = Head(wire[s]) /\ t = Tail(wire[s]) /\ a = Append(seen[s], h)
  OBVIOUS
<1>1. /\ wire[s] # <<>>
      /\ seen' = [seen EXCEPT ![s] = a] /\ wire' = [wire EXCEPT ![s] = t]
      /\ UNCHANGED <<boot, seq, buf, open, types, since, excused>>
  BY <1>0 DEF Read
<1>2. /\ seen'[s] = a /\ wire'[s] = t
      /\ \A q \in Subs : q # s => seen'[q] = seen[q] /\ wire'[q] = wire[q]
  BY <1>1 DEF Inv, TypeOK
<1>3. /\ seq \in Nat /\ \A f \in Event : f.n \in Nat /\ f.n # 0 /\ f.boot \in Int
  BY Counted DEF Inv
<1>4. \A q \in Subs : wire[q] \in Seq(Event) /\ seen[q] \in Seq(Event)
  BY DEF Inv, TypeOK
<1>5. h \in ToSet(wire[s]) /\ h \in Event /\ t \in Seq(Event) /\ ToSet(wire[s]) = {h} \cup ToSet(t)
  BY <1>0, <1>1, <1>4, ToSetFacts
<1>6. a \in Seq(Event) /\ ToSet(a) = ToSet(seen[s]) \cup {h}
  BY <1>0, <1>4, <1>5, ToSetFacts
<1>7. TypeOK'
  <2>1. wire' \in [Subs -> Seq(Event)] /\ seen' \in [Subs -> Seq(Event)]
    BY <1>1, <1>5, <1>6 DEF Inv, TypeOK
  <2> QED BY <1>1, <2>1 DEF Inv, TypeOK
<1>8. RingRuns'
  BY <1>1 DEF Inv, RingRuns, Numbered
<1>9. /\ \A f : Known(f)' <=> Known(f)
      /\ \A q, n : Owed(q, n)' <=> Owed(q, n)
      /\ \A n : Numbered(n, types[n])' = Numbered(n, types[n])
  BY <1>1 DEF Known, Owed, Numbered
<1>10. Known(h) /\ h.boot = boot /\ s \in open
  BY <1>1, <1>5 DEF Inv, Streams
<1>11. Streams'
  <2> SUFFICES ASSUME NEW q \in Subs
               PROVE  /\ q \notin open' => wire'[q] = <<>>
                      /\ \A f \in ToSet(wire'[q]) : Known(f)' /\ f.boot = boot'
                      /\ \A f \in ToSet(seen'[q]) : Known(f)'
    BY DEF Streams, Known, ToSet
  <2>1. CASE q = s
    BY <1>1, <1>2, <1>5, <1>6, <1>9, <1>10, <2>1 DEF Inv, Streams
  <2>2. CASE q # s
    BY <1>1, <1>2, <1>9, <2>2 DEF Inv, Streams
  <2> QED BY <2>1, <2>2
<1>12. Ascending(wire[s]) /\ Ascending(seen[s])
  BY DEF Inv, InOrder
<1>13. Ascending(t) /\ \A f \in ToSet(t) : Before(h, f)
  BY <1>0, <1>1, <1>4, <1>12, AscendingTail
<1>14. InOrder'
  <2> SUFFICES ASSUME NEW q \in Subs
               PROVE  /\ Ascending(seen'[q]) /\ Ascending(wire'[q])
                      /\ \A f \in ToSet(seen'[q]), g \in ToSet(wire'[q]) : Before(f, g)
    BY DEF InOrder, Ascending, ToSet, Before
  <2>1. CASE q = s
    <3>1. \A f \in ToSet(seen[s]), g \in ToSet(wire[s]) : Before(f, g)
      BY DEF Inv, InOrder
    <3>2. Ascending(a)
      BY <1>0, <1>4, <1>5, <1>12, <3>1, AscendingAppend
    <3> QED BY <1>2, <1>5, <1>6, <1>13, <2>1, <3>1, <3>2
  <2>2. CASE q # s
    BY <1>2, <2>2 DEF Inv, InOrder
  <2> QED BY <2>1, <2>2
<1>15. Settled'
  <2> SUFFICES ASSUME NEW q \in Subs, NEW f \in ToSet(seen'[q]), f.boot = boot,
                      NEW n \in 1..f.n, Owed(q, n)
               PROVE  Numbered(n, types[n]) \in ToSet(seen'[q])
    BY <1>1, <1>9 DEF Settled, ToSet, Owed, Numbered
  <2>1. CASE q = s /\ f = h
    <3>1. h.n \in Nat /\ h.n <= seq /\ n \in 1..seq /\ n <= h.n
      BY <1>3, <1>5, <1>10, <2>1 DEF Known
    <3>2. Numbered(n, types[n]) \in ToSet(seen[s]) \cup ToSet(wire[s])
      BY <1>10, <2>1, <3>1 DEF Inv, Served
    <3>3. Numbered(n, types[n]) \notin ToSet(t)
      <4>1. ~Before(h, Numbered(n, types[n]))
        BY <1>3, <1>5, <1>10, <3>1, NumberedFacts DEF Before
      <4> QED BY <1>13, <4>1
    <3> QED BY <1>2, <1>5, <1>6, <2>1, <3>2, <3>3
  <2>2. CASE q = s /\ f # h
    BY <1>2, <1>6, <2>2 DEF Inv, Settled
  <2>3. CASE q # s
    BY <1>2, <2>3 DEF Inv, Settled
  <2> QED BY <2>1, <2>2, <2>3
<1>16. Served'
  <2> SUFFICES ASSUME NEW q \in open, NEW n \in 1..seq, Owed(q, n)
               PROVE  Numbered(n, types[n]) \in ToSet(seen'[q]) \cup ToSet(wire'[q])
    BY <1>1, <1>9 DEF Served, ToSet, Owed, Numbered
  <2>1. q \in Subs /\ Numbered(n, types[n]) \in ToSet(seen[q]) \cup ToSet(wire[q])
    BY DEF Inv, TypeOK, Served
  <2> QED BY <1>2, <1>5, <1>6, <2>1
<1> QED BY <1>7, <1>8, <1>11, <1>14, <1>15, <1>16 DEF Inv

LEMMA CloseKeeps ==
  ASSUME Inv, NEW s \in Subs, Close(s)
  PROVE  Inv'
<1>1. /\ open' = open \ {s} /\ wire' = [wire EXCEPT ![s] = <<>>]
      /\ UNCHANGED <<boot, seq, buf, seen, types, since, excused>>
  BY DEF Close
<1>2. wire'[s] = <<>> /\ \A q \in Subs : q # s => wire'[q] = wire[q]
  BY <1>1 DEF Inv, TypeOK
<1>3. <<>> \in Seq(Event) /\ ToSet(<<>>) = {} /\ Ascending(<<>>)
  BY DEF ToSet, Ascending
<1>4. TypeOK'
  <2>1. wire' \in [Subs -> Seq(Event)]
    BY <1>1, <1>3 DEF Inv, TypeOK
  <2> QED BY <1>1, <2>1 DEF Inv, TypeOK
<1>5. RingRuns'
  BY <1>1 DEF Inv, RingRuns, Numbered
<1>6. /\ \A f : Known(f)' <=> Known(f)
      /\ \A q, n : Owed(q, n)' <=> Owed(q, n)
      /\ \A n : Numbered(n, types[n])' = Numbered(n, types[n])
  BY <1>1 DEF Known, Owed, Numbered
<1>7. Streams'
  <2> SUFFICES ASSUME NEW q \in Subs
               PROVE  /\ q \notin open' => wire'[q] = <<>>
                      /\ \A f \in ToSet(wire'[q]) : Known(f)' /\ f.boot = boot'
                      /\ \A f \in ToSet(seen'[q]) : Known(f)'
    BY DEF Streams, Known, ToSet
  <2>1. CASE q = s
    BY <1>1, <1>2, <1>3, <1>6, <2>1 DEF Inv, Streams
  <2>2. CASE q # s
    BY <1>1, <1>2, <1>6, <2>2 DEF Inv, Streams
  <2> QED BY <2>1, <2>2
<1>8. InOrder'
  <2> SUFFICES ASSUME NEW q \in Subs
               PROVE  /\ Ascending(seen'[q]) /\ Ascending(wire'[q])
                      /\ \A f \in ToSet(seen'[q]), g \in ToSet(wire'[q]) : Before(f, g)
    BY DEF InOrder, Ascending, ToSet, Before
  <2>1. CASE q = s
    BY <1>1, <1>2, <1>3, <2>1 DEF Inv, InOrder
  <2>2. CASE q # s
    BY <1>1, <1>2, <2>2 DEF Inv, InOrder
  <2> QED BY <2>1, <2>2
<1>9. Settled'
  BY <1>1, <1>6 DEF Inv, Settled
<1>10. Served'
  <2> SUFFICES ASSUME NEW q \in open', NEW n \in 1..seq, Owed(q, n)
               PROVE  Numbered(n, types[n]) \in ToSet(seen[q]) \cup ToSet(wire'[q])
    BY <1>1, <1>6 DEF Served, ToSet, Owed, Numbered
  <2>1. q \in open /\ q \in Subs /\ q # s
    BY <1>1 DEF Inv, TypeOK
  <2> QED BY <1>2, <2>1 DEF Inv, Served
<1> QED BY <1>4, <1>5, <1>7, <1>8, <1>9, <1>10 DEF Inv

\* What the clients saw is now of an earlier process.
LEMMA RestartKeeps ==
  ASSUME Inv, Restart
  PROVE  Inv'
<1>1. /\ boot < MaxBoots /\ boot' = boot + 1 /\ seq' = 0 /\ buf' = <<>> /\ open' = {}
      /\ wire' = [s \in Subs |-> <<>>] /\ types' = <<>> /\ since' = [s \in Subs |-> 0]
      /\ excused' = [s \in Subs |-> {}] /\ seen' = seen
  BY DEF Restart
<1>2. /\ boot \in 1..MaxBoots /\ MaxBoots \in Nat /\ MaxRing \in Nat /\ MaxRing # 0
      /\ MaxEvents \in Nat /\ \A f \in Event : f.boot \in Int
  BY Counted DEF Inv, TypeOK
<1>3. \A s \in Subs : seen[s] \in Seq(Event) /\ ToSet(seen[s]) \subseteq Event
  <2> SUFFICES ASSUME NEW s \in Subs
               PROVE  seen[s] \in Seq(Event) /\ ToSet(seen[s]) \subseteq Event
    OBVIOUS
  <2>1. seen[s] \in Seq(Event)
    BY DEF Inv, TypeOK
  <2> QED BY <2>1, ToSetFacts
<1>4. Ascending(<<>>) /\ ToSet(<<>>) = {} /\ <<>> \in Seq(Event) /\ <<>> \in Seq(Types)
  BY DEF ToSet, Ascending
<1>5. TypeOK'
  <2>1. boot' \in 1..MaxBoots /\ seq' \in 0..MaxEvents
    BY <1>1, <1>2
  <2>2. Len(buf') = IF seq' < MaxRing THEN seq' ELSE MaxRing
    BY <1>1, <1>2
  <2>3. since' \in [Subs -> 0..MaxEvents]
    BY <1>1, <1>2
  <2>4. excused' \in [Subs -> SUBSET (1..MaxEvents)]
    BY <1>1
  <2>5. types' \in Seq(Types) /\ Len(types') = seq'
    BY <1>1, <1>4
  <2>6. wire' \in [Subs -> Seq(Event)] /\ buf' \in Seq(Event) /\ open' \subseteq Subs
    BY <1>1, <1>4
  <2> QED BY <1>1, <2>1, <2>2, <2>3, <2>4, <2>5, <2>6 DEF Inv, TypeOK
<1>6. RingRuns'
  <2>1. 1..Len(buf') = {}
    BY <1>1
  <2> QED BY <2>1 DEF RingRuns
<1>7. \A s \in Subs : \A f \in ToSet(seen[s]) : f.boot <= boot /\ f.boot # boot' /\ f.boot <= boot'
  <2> SUFFICES ASSUME NEW s \in Subs, NEW f \in ToSet(seen[s])
               PROVE  f.boot <= boot /\ f.boot # boot' /\ f.boot <= boot'
    OBVIOUS
  <2>1. f.boot <= boot /\ f.boot \in Int
    BY <1>2, <1>3 DEF Inv, Streams, Known
  <2> QED BY <1>1, <1>2, <2>1
<1>8. Streams'
  BY <1>1, <1>4, <1>7 DEF Streams, Known
<1>9. InOrder'
  BY <1>1, <1>4 DEF Inv, InOrder
<1>10. Settled'
  BY <1>1, <1>7 DEF Settled
<1>11. Served'
  BY <1>1 DEF Served
<1> QED BY <1>5, <1>6, <1>8, <1>9, <1>10, <1>11 DEF Inv

LEMMA InvPreserved == Inv /\ [Next]_vars => Inv'
<1> SUFFICES ASSUME Inv, [Next]_vars PROVE Inv'
  OBVIOUS
<1>1. ASSUME NEW type \in Types, Emit(type) PROVE Inv'
  BY <1>1, EmitKeeps
<1>2. ASSUME NEW s \in Subs, Subscribe(s) PROVE Inv'
  BY <1>2, SubscribeKeeps
<1>3. ASSUME NEW s \in Subs, Read(s) PROVE Inv'
  BY <1>3, ReadKeeps
<1>4. ASSUME NEW s \in Subs, Close(s) PROVE Inv'
  BY <1>4, CloseKeeps
<1>5. CASE Restart
  BY <1>5, RestartKeeps
<1>6. CASE UNCHANGED vars
  BY <1>6 DEF vars, Inv, TypeOK, RingRuns, Streams, InOrder, Settled, Served,
              Known, Owed, Numbered
<1> QED BY <1>1, <1>2, <1>3, <1>4, <1>5, <1>6 DEF Next

LEMMA InitInv == Init => Inv
<1> SUFFICES ASSUME Init PROVE Inv
  OBVIOUS
<1>1. Ascending(<<>>) /\ ToSet(<<>>) = {} /\ <<>> \in Seq(Event) /\ <<>> \in Seq(Types)
  BY DEF ToSet, Ascending
<1>2. /\ boot = 1 /\ seq = 0 /\ buf = <<>> /\ open = {} /\ types = <<>>
      /\ wire = [s \in Subs |-> <<>>] /\ seen = [s \in Subs |-> <<>>]
      /\ since = [s \in Subs |-> 0] /\ excused = [s \in Subs |-> {}]
  BY DEF Init
<1>3. TypeOK
  <2>1. boot \in 1..MaxBoots /\ seq \in 0..MaxEvents
    BY <1>2, BoundsAssumption
  <2>2. Len(buf) = IF seq < MaxRing THEN seq ELSE MaxRing
    BY <1>2, BoundsAssumption
  <2>3. since \in [Subs -> 0..MaxEvents]
    BY <1>2, BoundsAssumption
  <2>4. types \in Seq(Types) /\ Len(types) = seq /\ buf \in Seq(Event) /\ open \subseteq Subs
    BY <1>1, <1>2
  <2>5. wire \in [Subs -> Seq(Event)] /\ seen \in [Subs -> Seq(Event)]
    BY <1>1, <1>2
  <2>6. excused \in [Subs -> SUBSET (1..MaxEvents)]
    BY <1>2
  <2> QED BY <2>1, <2>2, <2>3, <2>4, <2>5, <2>6 DEF TypeOK
<1>4. RingRuns
  <2>1. 1..Len(buf) = {}
    BY <1>2
  <2> QED BY <2>1 DEF RingRuns
<1>5. Streams /\ InOrder /\ Settled /\ Served
  BY <1>1, <1>2 DEF Streams, InOrder, Settled, Served
<1> QED BY <1>3, <1>4, <1>5 DEF Inv

LEMMA Invariance == Spec => []Inv
BY InitInv, InvPreserved, PTL DEF Spec

-----------------------------------------------------------------------------
(* What the clients get *)

\* The two halves of a stream in order, all of it is.
LEMMA InvOrders ==
  ASSUME Inv, NEW s \in Subs
  PROVE  OrderedOnce(s)
<1> DEFINE q == seen[s]
           r == wire[s]
           c == q \o r
<1>1. /\ q \in Seq(Event) /\ r \in Seq(Event) /\ Ascending(q) /\ Ascending(r)
      /\ \A e \in ToSet(q), f \in ToSet(r) : Before(e, f)
  BY DEF Inv, TypeOK, InOrder
<1> HIDE DEF q, r
<1>2. /\ Len(q) \in Nat /\ Len(r) \in Nat /\ DOMAIN c = 1..(Len(q) + Len(r))
      /\ \A i \in 1..Len(q) : c[i] = q[i]
      /\ \A i \in 1..(Len(q) + Len(r)) : i > Len(q) => c[i] = r[i - Len(q)]
  BY <1>1
<1> HIDE DEF c
<1>3. ASSUME NEW i \in DOMAIN c, NEW j \in DOMAIN c, i < j
      PROVE  Before(c[i], c[j])
  <2>1. i \in 1..(Len(q) + Len(r)) /\ j \in 1..(Len(q) + Len(r))
    BY <1>2
  <2>2. CASE j <= Len(q)
    <3>1. i \in 1..Len(q) /\ j \in 1..Len(q)
      BY <1>2, <1>3, <2>1, <2>2
    <3> QED BY <1>1, <1>2, <1>3, <3>1 DEF Ascending
  <2>3. CASE i <= Len(q) /\ j > Len(q)
    <3>1. i \in 1..Len(q) /\ j - Len(q) \in 1..Len(r)
      BY <1>2, <2>1, <2>3
    <3>2. q[i] \in ToSet(q) /\ r[j - Len(q)] \in ToSet(r)
      BY <1>1, <3>1, ToSetFacts
    <3> QED BY <1>1, <1>2, <2>1, <2>3, <3>1, <3>2
  <2>4. CASE i > Len(q)
    <3>1. /\ i - Len(q) \in 1..Len(r) /\ j - Len(q) \in 1..Len(r)
          /\ i - Len(q) < j - Len(q) /\ j > Len(q)
      BY <1>2, <1>3, <2>1, <2>4
    <3> QED BY <1>1, <1>2, <2>1, <2>4, <3>1 DEF Ascending
  <2> QED BY <1>2, <2>1, <2>2, <2>3, <2>4
<1> QED BY <1>3 DEF OrderedOnce, c, q, r

LEMMA InvFills ==
  ASSUME Inv, NEW s \in open
  PROVE  NoGap(s)
<1>1. /\ s \in Subs /\ since[s] \in Nat /\ seq \in Nat
      /\ seen[s] \in Seq(Event) /\ wire[s] \in Seq(Event)
  BY Counted DEF Inv, TypeOK
<1>2. ToSet(seen[s] \o wire[s]) = ToSet(seen[s]) \cup ToSet(wire[s])
  BY <1>1, ToSetFacts
<1>3. \A n \in (since[s] + 1)..seq : n \in 1..seq /\ n > since[s]
  BY <1>1
<1> QED BY <1>2, <1>3 DEF Inv, Served, NoGap, Owed

LEMMA InvResumes == Inv => ResumesExactly
BY InvOrders, InvFills DEF ResumesExactly

-----------------------------------------------------------------------------

\* Every field keeps its type, and the ring holds MAX_EVENTS events or, while
\* there were fewer, one for each.
THEOREM TypeCorrect == Spec => []TypeOK
BY Invariance, PTL DEF Inv

\* A client that keeps coming back with the id of the last event it saw gets
\* every matching event the ring still had when it came back, in their order
\* and none twice, over any number of broken streams and restarts.
THEOREM Resumes == Spec => []ResumesExactly
BY Invariance, InvResumes, PTL
=============================================================================
