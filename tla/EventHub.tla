------------------------------- MODULE EventHub -------------------------------
(***************************************************************************)
(* The event hub (src/src/events.js): a ring of the latest events, and the *)
(* server-sent event streams fed from it.  A stream may break with events  *)
(* still on their way; its client comes back with the id of the last event *)
(* it saw (Last-Event-ID).  Ids carry the boot epoch of the process.       *)
(***************************************************************************)
EXTENDS Naturals, SequencesExt

CONSTANTS
  Subs,       \* stream clients
  Types,      \* event types, as far as filters tell them apart
  Filter,     \* per client: the types it asks for
  MaxRing,    \* MAX_EVENTS
  MaxEvents,  \* bound: events emitted in one boot
  MaxBoots    \* bound: processes

ASSUME FilterAssumption == Filter \in [Subs -> SUBSET Types]
ASSUME BoundsAssumption ==
  MaxRing \in Nat \ {0} /\ MaxEvents \in Nat /\ MaxBoots \in Nat \ {0}

VARIABLES
  boot,      \* #boot
  seq,       \* #seq
  buf,       \* #buf
  open,      \* the clients in #subs
  wire,      \* per client: events written to its stream and not yet seen
  seen,      \* per client: the events seen, in order
  types,     \* history: the types of the events of this boot
  since,     \* history, per client: the event after which it is to see all
  excused    \* history, per client: numbers evicted before it came back

vars == <<boot, seq, buf, open, wire, seen, types, since,
          excused>>

Event == [boot : 1..MaxBoots, n : 1..MaxEvents, type : Types]

Numbered(n, type) == [boot |-> boot, n |-> n, type |-> type]
Matches(s, e) == e.type \in Filter[s]

\* Last-Event-ID: a client that has seen an event sends its id.
HasLast(s) == seen[s] # <<>>
IndexOf(e) == CHOOSE i \in DOMAIN buf : buf[i] = e

\* The ring is replayed from behind the last event seen; all of it if that is
\* of another boot or evicted; nothing without an id.
ReplayFromKnownOnly(s) ==                                         \* mutant
  IF HasLast(s) /\ Last(seen[s]) \in ToSet(buf) THEN IndexOf(Last(seen[s])) ELSE Len(buf)
ReplayFrom(s) ==
  IF ~HasLast(s) THEN Len(buf)
  ELSE IF Last(seen[s]) \in ToSet(buf) THEN IndexOf(Last(seen[s]))
  ELSE 0

\* The elements of es at the indices I, in their order: the k-th is the one with
\* k indices up to its own.
Pick(es, I) ==
  LET Rank(i) == Cardinality({j \in I : j <= i})
  IN  [k \in 1..Cardinality(I) |-> es[CHOOSE i \in I : Rank(i) = k]]

\* What a stream starts with.
Replayed(s) == Pick(buf, {i \in DOMAIN buf : i > ReplayFrom(s) /\ Matches(s, buf[i])})

Init ==
  /\ boot = 1
  /\ seq = 0
  /\ buf = <<>>
  /\ open = {}
  /\ wire = [s \in Subs |-> <<>>]
  /\ seen = [s \in Subs |-> <<>>]
  /\ types = <<>>
  /\ since = [s \in Subs |-> 0]
  /\ excused = [s \in Subs |-> {}]

\* emit(): into the ring, and out on every open stream that matches.
PushUnbounded(e) == Append(buf, e)                                \* mutant
Push(e) == IF Len(buf) < MaxRing THEN Append(buf, e) ELSE Append(Tail(buf), e)

Emit(type) ==
  /\ seq < MaxEvents
  /\ seq' = seq + 1
  /\ types' = Append(types, type)
  /\ LET e == Numbered(seq + 1, type)
     IN  /\ buf' = Push(e)
         /\ wire' = [s \in Subs |-> IF s \in open /\ Matches(s, e)
                                    THEN Append(wire[s], e) ELSE wire[s]]
  /\ UNCHANGED <<boot, open, seen, since, excused>>

\* subscribe(): the replay and the registration, in one turn of the loop.
Subscribe(s) ==
  /\ s \notin open
  /\ open' = open \cup {s}
  /\ wire' = [wire EXCEPT ![s] = Replayed(s)]
  /\ since' = [since EXCEPT ![s] = IF HasLast(s) THEN @ ELSE seq]
  /\ excused' = [excused EXCEPT ![s] =
                   @ \cup {n \in 1..seq : \A e \in ToSet(buf) : e.n # n}]
  /\ UNCHANGED <<boot, seq, buf, seen, types>>

\* The client reads the next event of its stream.
Read(s) ==
  /\ wire[s] # <<>>
  /\ seen' = [seen EXCEPT ![s] = Append(@, Head(wire[s]))]
  /\ wire' = [wire EXCEPT ![s] = Tail(@)]
  /\ UNCHANGED <<boot, seq, buf, open, types, since, excused>>

\* The request closes: what is on its way is lost.
Close(s) ==
  /\ s \in open
  /\ open' = open \ {s}
  /\ wire' = [wire EXCEPT ![s] = <<>>]
  /\ UNCHANGED <<boot, seq, buf, seen, types, since, excused>>

\* The process stops or crashes and another one starts.
Restart ==
  /\ boot < MaxBoots
  /\ boot' = boot + 1
  /\ seq' = 0
  /\ buf' = <<>>
  /\ open' = {}
  /\ wire' = [s \in Subs |-> <<>>]
  /\ types' = <<>>
  /\ since' = [s \in Subs |-> 0]
  /\ excused' = [s \in Subs |-> {}]
  /\ UNCHANGED seen

Next ==
  \/ \E type \in Types : Emit(type)
  \/ \E s \in Subs : Subscribe(s) \/ Read(s) \/ Close(s)
  \/ Restart

Spec == Init /\ [][Next]_vars

-----------------------------------------------------------------------------
TypeOK ==
  /\ boot \in 1..MaxBoots
  /\ seq \in 0..MaxEvents
  /\ buf \in Seq(Event)
  /\ Len(buf) = IF seq < MaxRing THEN seq ELSE MaxRing
  /\ open \subseteq Subs
  /\ wire \in [Subs -> Seq(Event)]
  /\ seen \in [Subs -> Seq(Event)]
  /\ types \in Seq(Types) /\ Len(types) = seq
  /\ since \in [Subs -> 0..MaxEvents]
  /\ excused \in [Subs -> SUBSET (1..MaxEvents)]

Before(d, e) == d.boot < e.boot \/ (d.boot = e.boot /\ d.n < e.n)

\* In the order they were emitted, and none twice (events.js:68-79).
OrderedOnce(s) ==
  LET all == seen[s] \o wire[s]
  IN  \A i, j \in DOMAIN all : i < j => Before(all[i], all[j])

\* Every matching event of this process, except what the ring had lost.
NoGap(s) ==
  \A n \in (since[s] + 1)..seq :
    types[n] \in Filter[s] /\ n \notin excused[s] =>
      Numbered(n, types[n]) \in ToSet(seen[s] \o wire[s])

(***************************************************************************)
(* events.js:1-4, 68-79, openapi.json:3381: however often the stream       *)
(* breaks, the ring turns over or the gateway restarts, a client that      *)
(* comes back with the id of the last event it saw, of this process or of  *)
(* an earlier one, has seen or is about to see every matching event of     *)
(* this process that the ring still had, in their order and none twice.    *)
(***************************************************************************)
ResumesExactly ==
  /\ \A s \in Subs : OrderedOnce(s)
  /\ \A s \in open : NoGap(s)
=============================================================================
