------------------------ MODULE ConnectionEventsProofs ------------------------
(***************************************************************************)
(* Proofs about ConnectionEvents, for any connections, values and bounds.  *)
(* That a connection is created once, and reported deleted only when it is *)
(* gone, depends on what the deltas on their way can still do: the keys of *)
(* a connection appear before any of them goes, and the cache lags behind  *)
(* the realm by nothing but the deltas in between.  The inductive          *)
(* invariant says so of each key and each delta.                           *)
(***************************************************************************)
EXTENDS ConnectionEvents, TLAPS

\* The two kinds of deltas: keys that appear or change, and keys that go.
Adds(d) == \A key \in KeyNames : Has(d, key) <=> d.new[key] # None
Wipes(d) == d.new = NoKeys

Waiting == 1..Len(inbox)

\* Of a connection, no delta that adds comes after one that wipes.
InboxOK ==
  /\ \A i \in Waiting : Adds(inbox[i]) \/ Wipes(inbox[i])
  /\ \A i, j \in Waiting :
       i < j /\ inbox[i].conn = inbox[j].conn /\ Wipes(inbox[i]) => Wipes(inbox[j])
  /\ \A i \in Waiting :
       Wipes(inbox[i]) => life[inbox[i].conn] \in {"ending", "severed"}

LivesOK ==
  \A c \in Conns : /\ life[c] = "ending" => Exists(realm[c])
                   /\ life[c] = "severed" => ~Exists(realm[c])

\* A key the realm has is in the cache or on its way, and stays.
CatchesUp ==
  session # "down" =>
    \A c \in Conns, key \in KeyNames : realm[c][key] # None =>
      /\ \A i \in Waiting : inbox[i].conn = c /\ Wipes(inbox[i]) => ~Has(inbox[i], key)
      /\ \/ cache[c][key] # None
         \/ \E i \in Waiting : inbox[i].conn = c /\ Adds(inbox[i]) /\ Has(inbox[i], key)

\* Nothing will bring the connection back.
Over(c) ==
  /\ life[c] = "severed"
  /\ ~Exists(cache[c])
  /\ c \notin pending
  /\ \A i \in Waiting : inbox[i].conn = c => Wipes(inbox[i])

AnnouncedOnce == \A c \in Conns : creations[c] # 0 => c \in known \/ Over(c)

Inv ==
  /\ TypeOK
  /\ InboxOK /\ LivesOK /\ CatchesUp
  /\ NoneMissed /\ PrevMirrorsCache
  /\ CreatedOnce /\ AnnouncedOnce

-----------------------------------------------------------------------------
(* Keys and deltas *)

LEMMA KeysFacts ==
  /\ NoKeys \in Record
  /\ \A r \in Record : Exists(r) <=> \E key \in KeyNames : r[key] # None
  /\ \A key \in KeyNames : NoKeys[key] = None
BY DEF NoKeys, Record, Exists, KeyNames

LEMMA MergeFacts ==
  ASSUME NEW r \in Record, NEW d \in Delta
  PROVE  /\ Merge(r, d) \in Record
         /\ \A key \in KeyNames :
              Merge(r, d)[key] = IF Has(d, key) THEN d.new[key] ELSE r[key]
BY DEF Record, Merge, KeyNames, Delta

LEMMA DeltaFacts ==
  ASSUME NEW d \in Delta
  PROVE  /\ d.conn \in Conns /\ d.new \in Record
         /\ \E key \in KeyNames : Has(d, key)
         /\ Adds(d) => ~Wipes(d)
<1>1. d.conn \in Conns /\ d.new \in Record /\ d.names \in Orders
  BY DEF Delta
<1>2. \E key \in KeyNames : Has(d, key)
  BY <1>1 DEF Orders, Has, ToSet, KeyNames
<1> QED BY <1>1, <1>2, KeysFacts DEF Adds, Wipes

-----------------------------------------------------------------------------
(* What tracking keys does to one connection *)

Told == {"nothing", "changed", "created", "deleted"}
Views == [known : BOOLEAN, pending : BOOLEAN, prev : Values \cup {None},
          told : Told, creations : 0..2]

\* A key with a value, or a grace timer, announces the connection or sees to it
\* that it will be.
Announces(v, w) ==
  /\ v.known => w.known
  /\ w.known \/ w.pending
  /\ w.creations = v.creations \/ (~v.known /\ w.known /\ w.creations <= v.creations + 1)
  /\ w.told = "deleted" => v.told = "deleted"
  /\ ~(v.known /\ v.pending) => ~(w.known /\ w.pending)

\* A key that goes can only report the end of the connection, at its end.
Retracts(v, w, keys) ==
  /\ w.creations = v.creations
  /\ w.pending = v.pending
  /\ w.known = v.known \/ (v.known /\ ~w.known /\ ~Exists(keys))
  /\ w.told = "deleted" => v.told = "deleted" \/ ~Exists(keys)

LEMMA ViewFacts ==
  ASSUME TypeOK, NEW c \in Conns
  PROVE  /\ View(c) \in Views
         /\ View(c).known = (c \in known) /\ View(c).pending = (c \in pending)
         /\ View(c).prev = prev[c] /\ View(c).told = told[c]
         /\ View(c).creations = creations[c]
<1> DEFINE k == c \in known
           p == c \in pending
<1>1. k \in BOOLEAN /\ p \in BOOLEAN
  OBVIOUS
<1>2. prev[c] \in Values \cup {None} /\ told[c] \in Told /\ creations[c] \in 0..2
  BY DEF TypeOK, Told
<1>3. View(c) = [known |-> k, pending |-> p, prev |-> prev[c], told |-> told[c],
                 creations |-> creations[c]]
  BY DEF View
<1> HIDE DEF k, p
<1>4. /\ View(c) \in Views
      /\ View(c).known = k /\ View(c).pending = p
      /\ View(c).prev = prev[c] /\ View(c).told = told[c]
      /\ View(c).creations = creations[c]
  BY <1>1, <1>2, <1>3 DEF Views
<1> QED BY <1>4 DEF k, p

LEMMA FireFacts ==
  ASSUME NEW v \in Views
  PROVE  /\ Fire(v) \in Views /\ Announces(v, Fire(v))
         /\ Fire(v).known /\ ~Fire(v).pending /\ Fire(v).prev = v.prev
<1>1. CASE v.known
  BY <1>1 DEF Fire, Views, Announces
<1>2. CASE ~v.known
  <2> DEFINE n == IF v.creations < 2 THEN v.creations + 1 ELSE 2
  <2>1. n \in 0..2 /\ n <= v.creations + 1
    BY DEF Views
  <2>2. Fire(v) = [v EXCEPT !.known = TRUE, !.pending = FALSE, !.told = "created",
                            !.creations = n]
    BY <1>2 DEF Fire
  <2> HIDE DEF n
  <2> QED BY <1>2, <2>1, <2>2 DEF Views, Announces, Told
<1> QED BY <1>1, <1>2

LEMMA ScheduleFacts ==
  ASSUME NEW v \in Views, NEW keys, ~v.known
  PROVE  /\ Schedule(v, keys) \in Views /\ Announces(v, Schedule(v, keys))
         /\ Schedule(v, keys).prev = v.prev
<1>1. CASE keys.peer # None
  BY <1>1, FireFacts DEF Schedule
<1>2. CASE ~(keys.peer # None)
  BY <1>2 DEF Schedule, Views, Announces
<1> QED BY <1>1, <1>2

LEMMA ChangeFacts ==
  ASSUME NEW v \in Views, NEW value
  PROVE  /\ Change(v, value) \in Views
         /\ Change(v, value).known = v.known /\ Change(v, value).pending = v.pending
         /\ Change(v, value).prev = v.prev /\ Change(v, value).creations = v.creations
         /\ Change(v, value).told = "deleted" => v.told = "deleted"
<1>1. CASE value \in {None, v.prev}
  BY <1>1 DEF Change
<1>2. CASE value \notin {None, v.prev}
  <2> DEFINE t == IF v.told = "nothing" THEN "changed" ELSE v.told
  <2>1. t \in Told /\ (t = "deleted" => v.told = "deleted")
    BY DEF Views, Told
  <2>2. Change(v, value) = [v EXCEPT !.told = t]
    BY <1>2 DEF Change, Views
  <2> HIDE DEF t
  <2> QED BY <2>1, <2>2 DEF Views
<1> QED BY <1>1, <1>2

LEMMA AppearFacts ==
  ASSUME NEW v \in Views, NEW value, NEW keys, NEW w, w = Appear(v, value, keys)
  PROVE  /\ w \in Views /\ w.prev = v.prev
         /\ value # None => Announces(v, w)
         /\ value = None => Retracts(v, w, keys)
<1>1. CASE value # None /\ ~v.known
  BY <1>1, ScheduleFacts DEF Appear
<1>2. CASE value = None /\ v.known /\ ~Exists(keys)
  <2>1. w = [v EXCEPT !.known = FALSE, !.told = "deleted"]
    BY <1>2 DEF Appear, Sever
  <2> QED BY <1>2, <2>1 DEF Views, Retracts, Told
<1>3. CASE (value # None /\ v.known) \/ (value = None /\ ~(v.known /\ ~Exists(keys)))
  <2>1. w = v
    BY <1>3 DEF Appear, Sever
  <2> QED BY <1>3, <2>1 DEF Announces, Retracts, Views
<1> QED BY <1>1, <1>2, <1>3

LEMMA UpdateFacts ==
  ASSUME NEW v \in Views, NEW key \in KeyNames, NEW value,
         key = "prop" => value \in Values \cup {None}, NEW keys,
         NEW w, w = Update(v, key, value, keys)
  PROVE  /\ w \in Views
         /\ w.prev = IF key = "prop" THEN value ELSE v.prev
         /\ value # None => Announces(v, w)
         /\ value = None => Retracts(v, w, keys)
<1> DEFINE a == Appear(v, value, keys)
           b == Change(a, value)
<1>1. /\ a \in Views /\ a.prev = v.prev
      /\ value # None => Announces(v, a)
      /\ value = None => Retracts(v, a, keys)
  BY AppearFacts
<1>2. CASE key # "prop"
  BY <1>1, <1>2 DEF Update, Track
<1>3. CASE key = "prop"
  <2>1. /\ b \in Views /\ b.known = a.known /\ b.pending = a.pending
        /\ b.creations = a.creations /\ (b.told = "deleted" => a.told = "deleted")
    BY <1>1, ChangeFacts
  <2>2. w = [b EXCEPT !.prev = value]
    BY <1>3 DEF Update, Track
  <2> HIDE DEF a, b
  <2>3. /\ w \in Views /\ w.prev = value /\ w.known = a.known /\ w.pending = a.pending
        /\ w.creations = a.creations /\ (w.told = "deleted" => a.told = "deleted")
    BY <1>3, <2>1, <2>2 DEF Views
  <2> QED BY <1>1, <1>3, <2>3 DEF Announces, Retracts
<1> QED BY <1>2, <1>3

LEMMA AnnouncesTwice ==
  ASSUME NEW v \in Views, NEW w \in Views, NEW x \in Views,
         Announces(v, w), Announces(w, x)
  PROVE  Announces(v, x)
BY DEF Announces, Views

LEMMA RetractsTwice ==
  ASSUME NEW v \in Views, NEW w \in Views, NEW x \in Views, NEW keys,
         Retracts(v, w, keys), Retracts(w, x, keys)
  PROVE  Retracts(v, x, keys)
BY DEF Retracts, Views

\* A delta that adds announces its connection, one that wipes can only retract
\* it, and prevKeys follows the cache through both.
LEMMA OnUpdateFacts ==
  ASSUME TypeOK, NEW d \in Delta, Adds(d) \/ Wipes(d), NEW keys,
         NEW w, w = OnUpdate(d.conn, d, keys), NEW v, v = View(d.conn)
  PROVE  /\ v \in Views /\ w \in Views
         /\ w.prev = IF Has(d, "prop") THEN d.new.prop ELSE v.prev
         /\ Adds(d) => Announces(v, w)
         /\ Wipes(d) => Retracts(v, w, keys)
<1> DEFINE With(u, key) == Update(u, key, d.new[key], keys)
           first == With(v, d.names[1])
           second == With(first, d.names[2])
<1>1. /\ v \in Views /\ d.names \in Orders /\ d.new \in Record
      /\ "peer" \in KeyNames /\ "prop" \in KeyNames
  BY ViewFacts, DeltaFacts DEF Delta, KeyNames
<1>2. w = IF Len(d.names) = 1 THEN first ELSE second
  BY DEF OnUpdate
<1>3. /\ \A key \in KeyNames : Adds(d) /\ Has(d, key) => d.new[key] # None
      /\ \A key \in KeyNames : Wipes(d) => d.new[key] = None
      /\ d.new["prop"] \in Values \cup {None}
  BY <1>1, KeysFacts DEF Adds, Wipes, Record
<1>4. ASSUME NEW u \in Views, NEW key \in KeyNames, Has(d, key)
      PROVE  /\ With(u, key) \in Views
             /\ With(u, key).prev = IF key = "prop" THEN d.new[key] ELSE u.prev
             /\ Adds(d) => Announces(u, With(u, key))
             /\ Wipes(d) => Retracts(u, With(u, key), keys)
  BY <1>3, <1>4, UpdateFacts
<1> HIDE DEF With
<1>5. CASE d.names = <<"peer">> \/ d.names = <<"prop">>
  <2>1. /\ Len(d.names) = 1 /\ d.names[1] \in KeyNames
        /\ \A key \in KeyNames : Has(d, key) <=> key = d.names[1]
    BY <1>5 DEF Has, ToSet, KeyNames
  <2>2. w = With(v, d.names[1])
    BY <1>2, <2>1
  <2> QED BY <1>1, <1>4, <2>1, <2>2
<1>6. CASE d.names = <<"peer", "prop">> \/ d.names = <<"prop", "peer">>
  <2>1. /\ Len(d.names) = 2 /\ d.names[1] \in KeyNames /\ d.names[2] \in KeyNames
        /\ d.names[1] = "prop" <=> d.names[2] # "prop"
        /\ \A key \in KeyNames : Has(d, key)
    BY <1>6 DEF Has, ToSet, KeyNames
  <2>2. w = second
    BY <1>2, <2>1
  <2>3. /\ first \in Views
        /\ first.prev = IF d.names[1] = "prop" THEN d.new[d.names[1]] ELSE v.prev
        /\ Adds(d) => Announces(v, first)
        /\ Wipes(d) => Retracts(v, first, keys)
    BY <1>1, <1>4, <2>1
  <2> HIDE DEF first
  <2>4. /\ second \in Views
        /\ second.prev = IF d.names[2] = "prop" THEN d.new[d.names[2]] ELSE first.prev
        /\ Adds(d) => Announces(first, second)
        /\ Wipes(d) => Retracts(first, second, keys)
    BY <1>4, <2>1, <2>3
  <2> HIDE DEF second
  <2>5. second.prev = d.new.prop
    BY <2>1, <2>3, <2>4
  <2> QED BY <1>1, <2>1, <2>2, <2>3, <2>4, <2>5, AnnouncesTwice, RetractsTwice
<1> QED BY <1>1, <1>5, <1>6 DEF Orders

\* What becomes of the state when the view of one connection is installed.
LEMMA InstallFacts ==
  ASSUME TypeOK, NEW c \in Conns, NEW v \in Views, Install(c, v)
  PROVE  /\ known' \subseteq Conns /\ pending' \subseteq Conns
         /\ prev' \in [Conns -> Values \cup {None}] /\ told' \in [Conns -> Told]
         /\ creations' \in [Conns -> 0..2]
         /\ (c \in known') = v.known /\ (c \in pending') = v.pending
         /\ prev'[c] = v.prev /\ told'[c] = v.told /\ creations'[c] = v.creations
         /\ \A e \in Conns : e # c =>
              /\ e \in known' <=> e \in known
              /\ e \in pending' <=> e \in pending
              /\ prev'[e] = prev[e] /\ told'[e] = told[e] /\ creations'[e] = creations[e]
<1>1. v.prev \in Values \cup {None} /\ v.told \in Told /\ v.creations \in 0..2
  BY DEF Views
<1>2. v.known \in BOOLEAN /\ v.pending \in BOOLEAN
  BY DEF Views
<1>3. /\ prev' \in [Conns -> Values \cup {None}] /\ told' \in [Conns -> Told]
      /\ creations' \in [Conns -> 0..2]
      /\ prev'[c] = v.prev /\ told'[c] = v.told /\ creations'[c] = v.creations
      /\ \A e \in Conns : e # c =>
           prev'[e] = prev[e] /\ told'[e] = told[e] /\ creations'[e] = creations[e]
  BY <1>1 DEF Install, TypeOK, Told
<1>4. /\ known' \subseteq Conns /\ (c \in known') = v.known
      /\ \A e \in Conns : e # c => (e \in known' <=> e \in known)
  BY <1>2 DEF Install, TypeOK
<1>5. /\ pending' \subseteq Conns /\ (c \in pending') = v.pending
      /\ \A e \in Conns : e # c => (e \in pending' <=> e \in pending)
  BY <1>2 DEF Install, TypeOK
<1> QED BY <1>3, <1>4, <1>5

-----------------------------------------------------------------------------
(* The steps of the realm *)

\* A delta sets out: the last of those that wait, if a session listens.
LEMMA TellFacts ==
  ASSUME TypeOK, NEW d \in Delta, Tell(d)
  PROVE  /\ realm' \in [Conns -> Record]
         /\ realm'[d.conn] = Merge(realm[d.conn], d)
         /\ \A c \in Conns : c # d.conn => realm'[c] = realm[c]
         /\ inbox' \in Seq(Delta) /\ Len(inbox') <= MaxInFlight
         /\ session = "down" => inbox' = inbox
         /\ \A i \in Waiting : i \in Waiting' /\ inbox'[i] = inbox[i]
         /\ \A i \in Waiting' : i \in Waiting \/ inbox'[i] = d
         /\ \A i \in Waiting, j \in Waiting' : j \notin Waiting => i < j
         /\ \A i \in Waiting' : i \notin Waiting => \A j \in Waiting' : j <= i
         /\ session # "down" => \E i \in Waiting' : inbox'[i] = d
<1>1. d.conn \in Conns /\ Merge(realm[d.conn], d) \in Record
  BY DeltaFacts, MergeFacts DEF TypeOK
<1>2. /\ realm' \in [Conns -> Record]
      /\ realm'[d.conn] = Merge(realm[d.conn], d)
      /\ \A c \in Conns : c # d.conn => realm'[c] = realm[c]
  BY <1>1 DEF Tell, TypeOK
<1>3. inbox \in Seq(Delta) /\ Len(inbox) \in Nat /\ Len(inbox) <= MaxInFlight
  BY DEF TypeOK
<1>4. CASE session = "down"
  <2>1. inbox' = inbox
    BY <1>4 DEF Tell
  <2> QED BY <1>2, <1>3, <1>4, <2>1 DEF Waiting
<1>5. CASE session # "down"
  <2>1. inbox' = Append(inbox, d) /\ Len(inbox) < MaxInFlight
    BY <1>5 DEF Tell
  <2>2. /\ inbox' \in Seq(Delta) /\ Len(inbox') = Len(inbox) + 1
        /\ \A i \in 1..Len(inbox) : inbox'[i] = inbox[i]
        /\ inbox'[Len(inbox) + 1] = d
    BY <1>3, <2>1
  <2>3. Len(inbox') <= MaxInFlight
    BY <1>3, <2>1, <2>2, BoundsAssumption
  <2> QED BY <1>2, <1>3, <1>5, <2>2, <2>3 DEF Waiting
<1> QED BY <1>4, <1>5

\* The rest of the invariant, where the realm only speaks and nobody listens yet.
LEMMA RealmLeavesViews ==
  ASSUME Inv, NEW d \in Delta, Tell(d), UNCHANGED <<session, cache, derived>>,
         life[d.conn] # "severed",
         \A c \in Conns : c # d.conn => life'[c] = life[c]
  PROVE  NoneMissed' /\ PrevMirrorsCache' /\ CreatedOnce' /\ AnnouncedOnce'
<1>1. UNCHANGED <<session, cache, prev, known, pending, creations>>
  BY DEF derived
<1>2. NoneMissed' /\ PrevMirrorsCache' /\ CreatedOnce'
  BY <1>1 DEF Inv, NoneMissed, PrevMirrorsCache, CreatedOnce
<1>3. ASSUME NEW c \in Conns, Over(c) PROVE Over(c)'
  <2>1. c # d.conn /\ life'[c] = "severed"
    BY <1>3 DEF Over
  <2>2. ASSUME NEW i \in Waiting', inbox'[i].conn = c PROVE Wipes(inbox'[i])
    <3>1. i \in Waiting /\ inbox'[i] = inbox[i]
      BY <2>1, <2>2, TellFacts DEF Inv
    <3> QED BY <1>3, <2>2, <3>1 DEF Over
  <2> QED BY <1>1, <1>3, <2>1, <2>2 DEF Over, Wipes
<1> QED BY <1>1, <1>2, <1>3 DEF Inv, AnnouncedOnce

LEMMA RealmWritesKeeps ==
  ASSUME Inv, NEW d \in Delta, RealmWrites(d)
  PROVE  Inv'
<1>1. /\ Tell(d) /\ Adds(d) /\ UNCHANGED <<session, cache, derived, drops>>
      /\ life[d.conn] \in {"unborn", "bound"}
      /\ life' = [life EXCEPT ![d.conn] = "bound"]
  BY DEF RealmWrites, Adds
<1>2. /\ realm' \in [Conns -> Record] /\ realm'[d.conn] = Merge(realm[d.conn], d)
      /\ \A c \in Conns : c # d.conn => realm'[c] = realm[c]
      /\ inbox' \in Seq(Delta) /\ Len(inbox') <= MaxInFlight
      /\ session = "down" => inbox' = inbox
      /\ \A i \in Waiting : i \in Waiting' /\ inbox'[i] = inbox[i]
      /\ \A i \in Waiting' : i \in Waiting \/ inbox'[i] = d
      /\ \A i \in Waiting, j \in Waiting' : j \notin Waiting => i < j
      /\ session # "down" => \E i \in Waiting' : inbox'[i] = d
  BY <1>1, TellFacts DEF Inv
<1>3. /\ life' \in [Conns -> Lives] /\ life'[d.conn] = "bound"
      /\ \A c \in Conns : c # d.conn => life'[c] = life[c]
      /\ d.conn \in Conns /\ d.new \in Record /\ ~Wipes(d)
  BY <1>1, DeltaFacts DEF Inv, TypeOK, Lives
<1>4. \A i \in Waiting : inbox[i].conn = d.conn => ~Wipes(inbox[i])
  BY <1>1 DEF Inv, InboxOK
<1>5. TypeOK'
  BY <1>1, <1>2, <1>3 DEF Inv, TypeOK, derived
<1>6. InboxOK'
  <2>1. \A i \in Waiting' : Adds(inbox'[i]) \/ Wipes(inbox'[i])
    BY <1>1, <1>2 DEF Inv, InboxOK
  <2>2. ASSUME NEW i \in Waiting', Wipes(inbox'[i])
        PROVE  /\ i \in Waiting /\ inbox'[i] = inbox[i]
               /\ inbox[i].conn # d.conn
               /\ inbox[i].conn \in Conns
    <3>1. i \in Waiting /\ inbox'[i] = inbox[i]
      BY <1>2, <1>3, <2>2
    <3>2. inbox[i] \in Delta
      BY <3>1 DEF Inv, TypeOK, Waiting
    <3> QED BY <1>4, <2>2, <3>1, <3>2, DeltaFacts
  <2>3. ASSUME NEW i \in Waiting', NEW j \in Waiting', i < j,
               inbox'[i].conn = inbox'[j].conn, Wipes(inbox'[i])
        PROVE  Wipes(inbox'[j])
    <3>1. i \in Waiting /\ inbox'[i] = inbox[i] /\ inbox[i].conn # d.conn
      BY <2>2, <2>3
    <3>2. j \in Waiting /\ inbox'[j] = inbox[j]
      BY <1>2, <2>3, <3>1
    <3> QED BY <2>3, <3>1, <3>2 DEF Inv, InboxOK
  <2>4. \A i \in Waiting' : Wipes(inbox'[i]) => life'[inbox'[i].conn] \in {"ending", "severed"}
    BY <1>3, <2>2 DEF Inv, InboxOK
  <2> QED BY <2>1, <2>3, <2>4 DEF InboxOK, Adds, Wipes
<1>7. LivesOK'
  BY <1>2, <1>3 DEF Inv, LivesOK, Exists
<1>8. CatchesUp'
  <2> SUFFICES ASSUME session # "down", NEW c \in Conns, NEW key \in KeyNames,
                      realm'[c][key] # None
               PROVE  /\ \A i \in Waiting' : inbox'[i].conn = c /\ Wipes(inbox'[i])
                                             => ~Has(inbox'[i], key)
                      /\ \/ cache[c][key] # None
                         \/ \E i \in Waiting' : /\ inbox'[i].conn = c
                                                /\ Adds(inbox'[i]) /\ Has(inbox'[i], key)
    BY <1>1 DEF CatchesUp, Adds, Wipes, Has
  <2>1. CASE c = d.conn /\ Has(d, key)
    BY <1>1, <1>2, <1>3, <1>4, <2>1
  <2>2. CASE ~(c = d.conn /\ Has(d, key))
    <3>1. realm[c][key] # None
      <4>1. realm[c] \in Record
        BY DEF Inv, TypeOK
      <4> QED BY <1>2, <2>2, <4>1, MergeFacts
    <3>2. /\ \A i \in Waiting : inbox[i].conn = c /\ Wipes(inbox[i]) => ~Has(inbox[i], key)
          /\ \/ cache[c][key] # None
             \/ \E i \in Waiting : inbox[i].conn = c /\ Adds(inbox[i]) /\ Has(inbox[i], key)
      BY <3>1 DEF Inv, CatchesUp
    <3> QED BY <1>2, <1>3, <3>2
  <2> QED BY <2>1, <2>2
<1>9. NoneMissed' /\ PrevMirrorsCache' /\ CreatedOnce' /\ AnnouncedOnce'
  BY <1>1, <1>3, RealmLeavesViews
<1> QED BY <1>5, <1>6, <1>7, <1>8, <1>9 DEF Inv

LEMMA RealmSeversKeeps ==
  ASSUME Inv, NEW d \in Delta, RealmSevers(d)
  PROVE  Inv'
<1> DEFINE keys == Merge(realm[d.conn], d)
           next == IF Exists(keys) THEN "ending" ELSE "severed"
<1>1. /\ Tell(d) /\ Wipes(d) /\ UNCHANGED <<session, cache, derived, drops>>
      /\ life[d.conn] \in {"bound", "ending"}
      /\ life' = [life EXCEPT ![d.conn] = next]
      /\ \A key \in KeyNames : Has(d, key) => realm[d.conn][key] # None
  BY DEF RealmSevers, Wipes, Has
<1>2. /\ realm' \in [Conns -> Record] /\ realm'[d.conn] = keys
      /\ \A c \in Conns : c # d.conn => realm'[c] = realm[c]
      /\ inbox' \in Seq(Delta) /\ Len(inbox') <= MaxInFlight
      /\ session = "down" => inbox' = inbox
      /\ \A i \in Waiting : i \in Waiting' /\ inbox'[i] = inbox[i]
      /\ \A i \in Waiting' : i \in Waiting \/ inbox'[i] = d
      /\ \A i \in Waiting' : i \notin Waiting => \A j \in Waiting' : j <= i
  BY <1>1, TellFacts DEF Inv
<1>3. next \in {"ending", "severed"} /\ next \in Lives
  BY DEF Lives
<1>4. /\ life' \in [Conns -> Lives] /\ life'[d.conn] = next
      /\ \A c \in Conns : c # d.conn => life'[c] = life[c]
      /\ d.conn \in Conns
  BY <1>1, <1>3, DeltaFacts DEF Inv, TypeOK
<1>5. TypeOK'
  BY <1>1, <1>2, <1>4 DEF Inv, TypeOK, derived
<1>6. InboxOK'
  <2>1. \A i \in Waiting' : Adds(inbox'[i]) \/ Wipes(inbox'[i])
    BY <1>1, <1>2 DEF Inv, InboxOK
  <2>2. ASSUME NEW i \in Waiting', NEW j \in Waiting', i < j,
               inbox'[i].conn = inbox'[j].conn, Wipes(inbox'[i])
        PROVE  Wipes(inbox'[j])
    <3>1. i \in Waiting /\ inbox'[i] = inbox[i]
      <4>1. ~(j <= i)
        BY <2>2 DEF Waiting
      <4> QED BY <1>2, <4>1
    <3>2. CASE j \in Waiting
      BY <1>2, <2>2, <3>1, <3>2 DEF Inv, InboxOK
    <3>3. CASE j \notin Waiting
      BY <1>1, <1>2, <3>3
    <3> QED BY <3>2, <3>3
  <2>3. ASSUME NEW i \in Waiting', Wipes(inbox'[i])
        PROVE  life'[inbox'[i].conn] \in {"ending", "severed"}
    <3>1. CASE inbox'[i].conn = d.conn
      BY <1>3, <1>4, <3>1
    <3>2. CASE inbox'[i].conn # d.conn
      <4>1. i \in Waiting /\ inbox'[i] = inbox[i]
        BY <1>2, <3>2
      <4>2. inbox[i] \in Delta
        BY <4>1 DEF Inv, TypeOK, Waiting
      <4> QED BY <1>4, <2>3, <3>2, <4>1, <4>2, DeltaFacts DEF Inv, InboxOK
    <3> QED BY <3>1, <3>2
  <2> QED BY <2>1, <2>2, <2>3 DEF InboxOK, Adds, Wipes
<1>7. LivesOK'
  BY <1>2, <1>4 DEF Inv, LivesOK, Exists
<1>8. CatchesUp'
  <2> SUFFICES ASSUME session # "down", NEW c \in Conns, NEW key \in KeyNames,
                      realm'[c][key] # None
               PROVE  /\ \A i \in Waiting' : inbox'[i].conn = c /\ Wipes(inbox'[i])
                                             => ~Has(inbox'[i], key)
                      /\ \/ cache[c][key] # None
                         \/ \E i \in Waiting' : /\ inbox'[i].conn = c
                                                /\ Adds(inbox'[i]) /\ Has(inbox'[i], key)
    BY <1>1 DEF CatchesUp, Adds, Wipes, Has
  <2>1. realm[c] \in Record
    BY DEF Inv, TypeOK
  <2>2. c = d.conn => ~Has(d, key)
    BY <1>1, <1>2, <2>1, MergeFacts, KeysFacts DEF Wipes
  <2>3. realm[c][key] # None
    BY <1>2, <2>1, <2>2, MergeFacts
  <2>4. /\ \A i \in Waiting : inbox[i].conn = c /\ Wipes(inbox[i]) => ~Has(inbox[i], key)
        /\ \/ cache[c][key] # None
           \/ \E i \in Waiting : inbox[i].conn = c /\ Adds(inbox[i]) /\ Has(inbox[i], key)
    BY <2>3 DEF Inv, CatchesUp
  <2> QED BY <1>2, <2>2, <2>4
<1>9. NoneMissed' /\ PrevMirrorsCache' /\ CreatedOnce' /\ AnnouncedOnce'
  BY <1>1, <1>4, RealmLeavesViews
<1> QED BY <1>5, <1>6, <1>7, <1>8, <1>9 DEF Inv

-----------------------------------------------------------------------------
(* The steps of the session *)

LEMMA SnapshotKeeps == Inv /\ Snapshot => Inv'
<1> SUFFICES ASSUME Inv, Snapshot PROVE Inv'
  OBVIOUS
<1>1. /\ session = "down" /\ session' = "registering" /\ cache' = realm /\ inbox = <<>>
      /\ UNCHANGED <<realm, life, inbox, prev, known, pending, told, creations, stray, drops>>
  BY DEF Snapshot, derived, Inv, TypeOK
<1>2. Waiting = {} /\ Waiting' = {}
  BY <1>1 DEF Waiting
<1>3. TypeOK'
  BY <1>1 DEF Inv, TypeOK
<1>4. InboxOK' /\ LivesOK' /\ CatchesUp'
  BY <1>1, <1>2 DEF Inv, InboxOK, LivesOK, CatchesUp
<1>5. NoneMissed' /\ PrevMirrorsCache' /\ CreatedOnce'
  BY <1>1 DEF Inv, NoneMissed, PrevMirrorsCache, CreatedOnce
<1>6. AnnouncedOnce'
  BY <1>1, <1>2 DEF Inv, AnnouncedOnce, Over, LivesOK
<1> QED BY <1>3, <1>4, <1>5, <1>6 DEF Inv

LEMMA SessionLostKeeps == Inv /\ SessionLost => Inv'
<1> SUFFICES ASSUME Inv, SessionLost PROVE Inv'
  OBVIOUS
<1>1. /\ session' = "down" /\ cache' = [c \in Conns |-> NoKeys] /\ inbox' = <<>>
      /\ drops' \in 0..MaxDrops
      /\ UNCHANGED <<realm, life, prev, known, pending, told, creations, stray>>
  BY BoundsAssumption DEF SessionLost, derived, Inv, TypeOK
<1>2. Waiting' = {}
  BY <1>1 DEF Waiting
<1>3. TypeOK'
  <2>1. inbox' \in Seq(Delta) /\ Len(inbox') <= MaxInFlight
    BY <1>1, BoundsAssumption
  <2>2. cache' \in [Conns -> Record] /\ \A c \in Conns : ~Exists(cache'[c])
    BY <1>1, KeysFacts DEF Exists
  <2> QED BY <1>1, <2>1, <2>2 DEF Inv, TypeOK
<1>4. InboxOK' /\ LivesOK' /\ CatchesUp'
  BY <1>1, <1>2 DEF Inv, InboxOK, LivesOK, CatchesUp
<1>5. NoneMissed' /\ PrevMirrorsCache' /\ CreatedOnce'
  BY <1>1 DEF Inv, NoneMissed, PrevMirrorsCache, CreatedOnce
<1>6. AnnouncedOnce'
  BY <1>1, <1>2 DEF Inv, AnnouncedOnce, Over, Exists
<1> QED BY <1>3, <1>4, <1>5, <1>6 DEF Inv

\* The scan announces what the cache has and nobody knows of.
LEMMA ScanFacts ==
  ASSUME Inv, NEW c \in Conns, NEW s, s = Scan(c)
  PROVE  /\ s \in Views
         /\ c \in known => s.known
         /\ Exists(cache[c]) => s.known \/ s.pending
         /\ ~(s.known /\ s.pending)
         /\ s.creations <= 1
         /\ s.creations # 0 => s.known \/ (s = View(c) /\ c \notin known /\ creations[c] # 0)
         /\ s.told = "deleted" => told[c] = "deleted"
<1> DEFINE v == View(c)
<1>1. /\ v \in Views /\ v.known = (c \in known) /\ v.pending = (c \in pending)
      /\ v.told = told[c] /\ v.creations = creations[c]
  BY ViewFacts DEF Inv
<1>2. ~(c \in known /\ c \in pending) /\ creations[c] <= 1
  BY DEF Inv, CreatedOnce
<1> HIDE DEF v
<1>3. CASE Exists(cache[c]) /\ c \notin known
  <2>1. s = Schedule(v, cache[c])
    BY <1>3 DEF Scan, v
  <2>2. s \in Views /\ Announces(v, s)
    BY <1>1, <1>3, <2>1, ScheduleFacts
  <2>3. creations[c] = 0
    BY <1>3 DEF Inv, AnnouncedOnce, Over, TypeOK
  <2> QED BY <1>1, <1>2, <1>3, <2>2, <2>3 DEF Announces, Views
<1>4. CASE ~(Exists(cache[c]) /\ c \notin known)
  <2>1. s = v
    BY <1>4 DEF Scan, v
  <2> QED BY <1>1, <1>2, <1>4, <2>1 DEF v
<1> QED BY <1>3, <1>4

LEMMA SessionUpKeeps == Inv /\ SessionUp => Inv'
<1> SUFFICES ASSUME Inv, SessionUp PROVE Inv'
  OBVIOUS
<1>1. /\ session = "registering" /\ session' = "connected"
      /\ prev' = [c \in Conns |-> cache[c].prop]
      /\ known' = {c \in Conns : Scan(c).known}
      /\ pending' = {c \in Conns : Scan(c).pending}
      /\ told' = [c \in Conns |-> Scan(c).told]
      /\ creations' = [c \in Conns |-> Scan(c).creations]
      /\ stray' \subseteq Conns
      /\ UNCHANGED <<realm, life, cache, inbox, drops>>
  BY DEF SessionUp, Inv, TypeOK
<1>2. TypeOK'
  <2>1. told' \in [Conns -> Told] /\ creations' \in [Conns -> 0..2]
    BY <1>1, ScanFacts DEF Views
  <2>2. prev' \in [Conns -> Values \cup {None}]
    BY <1>1 DEF Inv, TypeOK, Record
  <2> QED BY <1>1, <2>1, <2>2 DEF Inv, TypeOK, Told
<1>3. InboxOK' /\ LivesOK' /\ CatchesUp'
  BY <1>1 DEF Inv, InboxOK, LivesOK, CatchesUp, Waiting
<1>4. NoneMissed' /\ PrevMirrorsCache' /\ CreatedOnce'
  BY <1>1, ScanFacts DEF NoneMissed, PrevMirrorsCache, CreatedOnce
<1>5. AnnouncedOnce'
  <2> SUFFICES ASSUME NEW c \in Conns, creations'[c] # 0, c \notin known'
               PROVE  Over(c)'
    BY DEF AnnouncedOnce
  <2>1. /\ creations'[c] = Scan(c).creations /\ ~Scan(c).known
        /\ (c \in pending') = Scan(c).pending
    BY <1>1, ScanFacts DEF Views
  <2>2. Scan(c) = View(c) /\ c \notin known /\ creations[c] # 0
    BY <2>1, ScanFacts
  <2>3. Over(c) /\ View(c).pending = (c \in pending)
    BY <2>2, ViewFacts DEF Inv, AnnouncedOnce
  <2> QED BY <1>1, <2>1, <2>2, <2>3 DEF Over, Waiting
<1> QED BY <1>2, <1>3, <1>4, <1>5 DEF Inv

LEMMA GraceEndsKeeps ==
  ASSUME Inv, NEW c \in Conns, GraceEnds(c)
  PROVE  /\ Inv'
         /\ \A e \in Conns : told'[e] = "deleted" => told[e] = "deleted"
<1> DEFINE v == View(c)
           w == Fire(v)
<1>1. /\ v \in Views /\ v.known = (c \in known) /\ v.pending = (c \in pending)
      /\ v.prev = prev[c] /\ v.told = told[c] /\ v.creations = creations[c]
  BY ViewFacts DEF Inv
<1>2. w \in Views /\ Announces(v, w) /\ w.known /\ ~w.pending /\ w.prev = v.prev
  BY <1>1, FireFacts
<1>3. /\ c \in pending /\ c \notin known /\ creations[c] = 0
      /\ Install(c, w) /\ stray' \subseteq Conns
      /\ UNCHANGED <<realm, life, session, cache, inbox, drops>>
  BY DEF GraceEnds, Inv, TypeOK, CreatedOnce, AnnouncedOnce, Over
<1> HIDE DEF v, w
<1>4. /\ known' \subseteq Conns /\ pending' \subseteq Conns
      /\ prev' \in [Conns -> Values \cup {None}] /\ told' \in [Conns -> Told]
      /\ creations' \in [Conns -> 0..2]
      /\ (c \in known') = w.known /\ (c \in pending') = w.pending
      /\ prev'[c] = w.prev /\ told'[c] = w.told /\ creations'[c] = w.creations
      /\ \A e \in Conns : e # c =>
           /\ e \in known' <=> e \in known
           /\ e \in pending' <=> e \in pending
           /\ prev'[e] = prev[e] /\ told'[e] = told[e] /\ creations'[e] = creations[e]
  BY <1>2, <1>3, InstallFacts DEF Inv
<1>5. TypeOK'
  BY <1>3, <1>4 DEF Inv, TypeOK, Told
<1>6. InboxOK' /\ LivesOK' /\ CatchesUp'
  BY <1>3 DEF Inv, InboxOK, LivesOK, CatchesUp, Waiting
<1>7. /\ c \in known' /\ c \notin pending' /\ prev'[c] = prev[c]
      /\ creations'[c] <= 1 /\ (told'[c] = "deleted" => told[c] = "deleted")
  <2>1. c \in known' /\ c \notin pending'
    BY <1>2, <1>4
  <2>2. prev'[c] = prev[c]
    BY <1>1, <1>2, <1>4
  <2>3. w.told = "deleted" => v.told = "deleted"
    BY <1>2 DEF Announces
  <2>4. v.creations = 0 /\ w.creations \in 0..2
    BY <1>1, <1>2, <1>3 DEF Views
  <2>5. w.creations <= 1
    BY <1>2, <2>4 DEF Announces
  <2> QED BY <1>1, <1>4, <2>1, <2>2, <2>3, <2>5
<1>8. NoneMissed' /\ PrevMirrorsCache' /\ CreatedOnce'
  BY <1>3, <1>4, <1>7 DEF Inv, NoneMissed, PrevMirrorsCache, CreatedOnce
<1>9. AnnouncedOnce'
  <2> SUFFICES ASSUME NEW e \in Conns, creations'[e] # 0, e \notin known'
               PROVE  Over(e)'
    BY DEF AnnouncedOnce
  <2>1. e # c
    BY <1>7
  <2>2. Over(e) /\ (e \in pending' <=> e \in pending)
    BY <1>4, <2>1 DEF Inv, AnnouncedOnce
  <2> QED BY <1>3, <2>2 DEF Over, Waiting
<1>10. \A e \in Conns : told'[e] = "deleted" => told[e] = "deleted"
  BY <1>4, <1>7
<1> QED BY <1>5, <1>6, <1>8, <1>9, <1>10 DEF Inv

-----------------------------------------------------------------------------
(* A delta arrives *)

\* The first delta that waits leaves, the others move up.
LEMMA ShiftFacts ==
  ASSUME TypeOK, inbox # <<>>, inbox' = Tail(inbox)
  PROVE  /\ Head(inbox) \in Delta /\ Head(inbox) = inbox[1] /\ 1 \in Waiting
         /\ inbox' \in Seq(Delta) /\ Len(inbox') <= MaxInFlight
         /\ \A i \in Waiting' : i + 1 \in Waiting /\ inbox'[i] = inbox[i + 1] /\ 1 < i + 1
         /\ \A i \in Waiting : i = 1 \/ (i - 1 \in Waiting' /\ inbox'[i - 1] = inbox[i])
         /\ \A i, j \in Waiting' : i < j => i + 1 < j + 1
<1>1. inbox \in Seq(Delta) /\ Len(inbox) \in Nat /\ Len(inbox) # 0 /\ Len(inbox) <= MaxInFlight
  BY DEF TypeOK
<1>2. /\ Head(inbox) \in Delta /\ Head(inbox) = inbox[1]
      /\ inbox' \in Seq(Delta) /\ Len(inbox') = Len(inbox) - 1
      /\ \A i \in 1..(Len(inbox) - 1) : inbox'[i] = inbox[i + 1]
  BY <1>1
<1>3. Len(inbox') <= MaxInFlight
  BY <1>1, <1>2, BoundsAssumption
<1> QED BY <1>1, <1>2, <1>3 DEF Waiting

\* A connection whose last key goes has no other in the realm: nothing that it
\* wrote is on its way any more.
LEMMA LastKeyGoes ==
  ASSUME Inv, session # "down", inbox # <<>>, NEW d, d = Head(inbox), Wipes(d),
         NEW keys, keys = Merge(cache[d.conn], d), ~Exists(keys)
  PROVE  /\ life[d.conn] = "severed"
         /\ \A i \in Waiting : inbox[i].conn = d.conn => Wipes(inbox[i])
<1>1. inbox \in Seq(Delta) /\ d \in Delta /\ d = inbox[1] /\ 1 \in Waiting
  BY DEF Inv, TypeOK, Waiting
<1>2. d.conn \in Conns /\ life[d.conn] \in {"ending", "severed"}
  BY <1>1, DeltaFacts DEF Inv, InboxOK
<1>3. cache[d.conn] \in Record /\ realm[d.conn] \in Record /\ keys \in Record
  BY <1>1, <1>2, MergeFacts DEF Inv, TypeOK
<1>4. ASSUME NEW i \in Waiting, inbox[i].conn = d.conn PROVE Wipes(inbox[i])
  <2>1. i = 1 \/ 1 < i
    BY DEF Waiting
  <2> QED BY <1>1, <1>4, <2>1 DEF Inv, InboxOK
<1>5. ASSUME NEW key \in KeyNames PROVE realm[d.conn][key] = None
  <2> SUFFICES ASSUME realm[d.conn][key] # None PROVE FALSE
    OBVIOUS
  <2>1. ~Has(d, key)
    BY <1>1, <1>2 DEF Inv, CatchesUp
  <2>2. cache[d.conn][key] # None
    <3>1. \A i \in Waiting : inbox[i].conn = d.conn => ~Adds(inbox[i])
      BY <1>1, <1>4, DeltaFacts DEF Waiting
    <3> QED BY <1>2, <3>1 DEF Inv, CatchesUp
  <2>3. keys[key] # None
    BY <1>1, <1>3, <2>1, <2>2, MergeFacts
  <2> QED BY <1>3, <2>3, KeysFacts
<1>6. ~Exists(realm[d.conn])
  BY <1>3, <1>5, KeysFacts
<1> QED BY <1>2, <1>4, <1>6 DEF Inv, LivesOK

\* What a delta makes of what the realm and the cache have.
LEMMA ArrivalKeepsStream ==
  ASSUME Inv, inbox # <<>>, inbox' = Tail(inbox), NEW d, d = Head(inbox),
         cache' = [cache EXCEPT ![d.conn] = Merge(cache[d.conn], d)],
         UNCHANGED <<realm, life, session>>
  PROVE  /\ InboxOK' /\ LivesOK' /\ CatchesUp'
         /\ cache' \in [Conns -> Record] /\ session # "down"
         /\ \A c \in Conns : Over(c) /\ (c \in pending' => c \in pending) => Over(c)'
<1>1. /\ d \in Delta /\ d = inbox[1] /\ 1 \in Waiting
      /\ \A i \in Waiting' : i + 1 \in Waiting /\ inbox'[i] = inbox[i + 1] /\ 1 < i + 1
      /\ \A i \in Waiting : i = 1 \/ (i - 1 \in Waiting' /\ inbox'[i - 1] = inbox[i])
      /\ \A i, j \in Waiting' : i < j => i + 1 < j + 1
  BY ShiftFacts DEF Inv
<1>2. /\ d.conn \in Conns /\ cache[d.conn] \in Record
      /\ Merge(cache[d.conn], d) \in Record
  BY <1>1, DeltaFacts, MergeFacts DEF Inv, TypeOK
<1>3. /\ cache' \in [Conns -> Record] /\ session # "down"
      /\ cache'[d.conn] = Merge(cache[d.conn], d)
      /\ \A c \in Conns : c # d.conn => cache'[c] = cache[c]
  BY <1>2 DEF Inv, TypeOK
<1>4. InboxOK'
  <2>1. \A i \in Waiting' : Adds(inbox'[i]) \/ Wipes(inbox'[i])
    BY <1>1 DEF Inv, InboxOK
  <2>2. ASSUME NEW i \in Waiting', NEW j \in Waiting', i < j,
               inbox'[i].conn = inbox'[j].conn, Wipes(inbox'[i])
        PROVE  Wipes(inbox'[j])
    <3>1. /\ i + 1 \in Waiting /\ j + 1 \in Waiting /\ i + 1 < j + 1
          /\ inbox'[i] = inbox[i + 1] /\ inbox'[j] = inbox[j + 1]
      BY <1>1, <2>2
    <3>2. inbox[i + 1].conn = inbox[j + 1].conn /\ Wipes(inbox[i + 1])
      BY <2>2, <3>1
    <3>3. Wipes(inbox[j + 1])
      BY <3>1, <3>2 DEF Inv, InboxOK
    <3> QED BY <3>1, <3>3
  <2>3. \A i \in Waiting' :
          Wipes(inbox'[i]) => life'[inbox'[i].conn] \in {"ending", "severed"}
    BY <1>1 DEF Inv, InboxOK
  <2> QED BY <2>1, <2>2, <2>3 DEF InboxOK, Adds, Wipes
<1>5. LivesOK'
  BY DEF Inv, LivesOK
<1>6. CatchesUp'
  <2> SUFFICES ASSUME NEW c \in Conns, NEW key \in KeyNames, realm[c][key] # None
               PROVE  /\ \A i \in Waiting' : inbox'[i].conn = c /\ Wipes(inbox'[i])
                                             => ~Has(inbox'[i], key)
                      /\ \/ cache'[c][key] # None
                         \/ \E i \in Waiting' : /\ inbox'[i].conn = c
                                                /\ Adds(inbox'[i]) /\ Has(inbox'[i], key)
    BY DEF CatchesUp, Adds, Wipes, Has
  <2>1. /\ \A i \in Waiting : inbox[i].conn = c /\ Wipes(inbox[i]) => ~Has(inbox[i], key)
        /\ \/ cache[c][key] # None
           \/ \E i \in Waiting : inbox[i].conn = c /\ Adds(inbox[i]) /\ Has(inbox[i], key)
    BY <1>3 DEF Inv, CatchesUp
  <2>2. ASSUME NEW i \in Waiting', inbox'[i].conn = c, Wipes(inbox'[i])
        PROVE  ~Has(inbox'[i], key)
    <3>1. i + 1 \in Waiting /\ inbox'[i] = inbox[i + 1]
      BY <1>1
    <3> QED BY <2>1, <2>2, <3>1
  <2>3. CASE c = d.conn /\ Has(d, key)
    <3>1. Adds(d)
      BY <1>1, <2>1, <2>3 DEF Inv, InboxOK
    <3>2. d.new[key] # None
      BY <2>3, <3>1 DEF Adds
    <3>3. cache'[c][key] # None
      BY <1>1, <1>2, <1>3, <2>3, <3>2, MergeFacts
    <3> QED BY <2>2, <3>3
  <2>4. CASE ~(c = d.conn /\ Has(d, key))
    <3>1. cache'[c][key] = cache[c][key]
      BY <1>1, <1>2, <1>3, <2>4, MergeFacts
    <3>2. ASSUME NEW i \in Waiting, inbox[i].conn = c, Adds(inbox[i]), Has(inbox[i], key)
          PROVE  i - 1 \in Waiting' /\ inbox'[i - 1] = inbox[i]
      BY <1>1, <2>4, <3>2
    <3> QED BY <2>1, <2>2, <3>1, <3>2
  <2> QED BY <2>3, <2>4
<1>7. ASSUME NEW c \in Conns, Over(c), c \in pending' => c \in pending PROVE Over(c)'
  <2>1. ~Exists(cache'[c])
    <3>1. CASE c = d.conn
      <4>1. Wipes(d) /\ ~Exists(cache[d.conn])
        BY <1>1, <1>7, <3>1 DEF Over
      <4>2. \A key \in KeyNames : Merge(cache[d.conn], d)[key] = None
        BY <1>1, <1>2, <4>1, MergeFacts, KeysFacts DEF Wipes
      <4> QED BY <1>2, <1>3, <3>1, <4>2, KeysFacts
    <3>2. CASE c # d.conn
      BY <1>3, <1>7, <3>2 DEF Over
    <3> QED BY <3>1, <3>2
  <2>2. \A i \in Waiting' : inbox'[i].conn = c => Wipes(inbox'[i])
    BY <1>1, <1>7 DEF Over
  <2> QED BY <1>7, <2>1, <2>2 DEF Over, Exists, Wipes
<1> QED BY <1>3, <1>4, <1>5, <1>6, <1>7

\* What the delta does to its own connection, when a session looks at it.
LEMMA DeltaIsTracked ==
  ASSUME Inv, session = "connected", inbox # <<>>, NEW d, d = Head(inbox),
         NEW keys, keys = Merge(cache[d.conn], d),
         Install(d.conn, OnUpdate(d.conn, d, keys))
  PROVE  /\ prev'[d.conn] = keys.prop
         /\ Exists(keys) => d.conn \in known' \cup pending'
         /\ creations'[d.conn] <= 1 /\ ~(d.conn \in known' /\ d.conn \in pending')
         /\ creations'[d.conn] # 0 /\ d.conn \notin known' =>
              /\ d.conn \in pending' => d.conn \in pending
              /\ Over(d.conn) \/ (~Exists(keys) /\ Wipes(d) /\ d.conn \notin pending')
         /\ told[d.conn] # "deleted" /\ told'[d.conn] = "deleted"
              => Wipes(d) /\ ~Exists(keys)
<1> DEFINE v == View(d.conn)
           w == OnUpdate(d.conn, d, keys)
<1>1. /\ inbox \in Seq(Delta) /\ d \in Delta /\ d = inbox[1] /\ 1 \in Waiting
  BY DEF Inv, TypeOK, Waiting
<1>2. /\ d.conn \in Conns /\ (Adds(d) \/ Wipes(d)) /\ (Adds(d) => ~Wipes(d))
      /\ cache[d.conn] \in Record /\ keys \in Record
  BY <1>1, DeltaFacts, MergeFacts DEF Inv, TypeOK, InboxOK
<1>3. /\ v.known = (d.conn \in known) /\ v.pending = (d.conn \in pending)
      /\ v.prev = prev[d.conn] /\ v.told = told[d.conn]
      /\ v.creations = creations[d.conn]
  BY <1>2, ViewFacts DEF Inv
<1>4. /\ v \in Views /\ w \in Views
      /\ w.prev = IF Has(d, "prop") THEN d.new.prop ELSE v.prev
      /\ Adds(d) => Announces(v, w)
      /\ Wipes(d) => Retracts(v, w, keys)
  BY <1>1, <1>2, OnUpdateFacts DEF Inv
<1> HIDE DEF v, w
<1>5. /\ (d.conn \in known') = w.known /\ (d.conn \in pending') = w.pending
      /\ prev'[d.conn] = w.prev /\ told'[d.conn] = w.told
      /\ creations'[d.conn] = w.creations
  BY <1>2, <1>4, InstallFacts DEF Inv, w
<1>6. prev'[d.conn] = keys.prop
  <2>1. prev[d.conn] = cache[d.conn].prop
    BY <1>2 DEF Inv, PrevMirrorsCache
  <2>2. keys["prop"] = IF Has(d, "prop") THEN d.new["prop"] ELSE cache[d.conn]["prop"]
    BY <1>1, <1>2, MergeFacts DEF KeyNames
  <2> QED BY <1>3, <1>4, <1>5, <2>1, <2>2
<1>7. ~(v.known /\ v.pending) /\ v.creations <= 1 /\ v.creations \in 0..2 /\ w.creations \in 0..2
  BY <1>2, <1>3, <1>4 DEF Inv, CreatedOnce, Views
<1>8. v.creations # 0 => v.known \/ Over(d.conn)
  BY <1>2, <1>3 DEF Inv, AnnouncedOnce
<1>9. CASE Adds(d)
  <2>1. /\ v.known => w.known
        /\ w.known \/ w.pending
        /\ w.creations = v.creations \/ (~v.known /\ w.known /\ w.creations <= v.creations + 1)
        /\ w.told = "deleted" => v.told = "deleted"
        /\ ~(w.known /\ w.pending)
    BY <1>4, <1>7, <1>9 DEF Announces
  <2>2. ~Over(d.conn)
    BY <1>1, <1>2, <1>9 DEF Over
  <2>3. w.creations <= 1 /\ (w.creations # 0 => w.known)
    <3>1. CASE w.creations = v.creations
      BY <1>7, <1>8, <2>1, <2>2, <3>1
    <3>2. CASE w.creations # v.creations
      <4>1. ~v.known /\ w.known /\ w.creations <= v.creations + 1
        BY <2>1, <3>2
      <4>2. v.creations = 0
        BY <1>8, <2>2, <4>1
      <4> QED BY <1>7, <4>1, <4>2
    <3> QED BY <3>1, <3>2
  <2> QED BY <1>3, <1>5, <1>6, <2>1, <2>3
<1>10. CASE Wipes(d)
  <2>1. /\ w.creations = v.creations
        /\ w.pending = v.pending
        /\ w.known = v.known \/ (v.known /\ ~w.known /\ ~Exists(keys))
        /\ w.told = "deleted" => v.told = "deleted" \/ ~Exists(keys)
    BY <1>4, <1>10 DEF Retracts
  <2>2. Exists(keys) => d.conn \in known' \cup pending'
    <3>1. Exists(keys) => Exists(cache[d.conn])
      <4>1. ASSUME NEW key \in KeyNames, keys[key] # None
            PROVE  cache[d.conn][key] # None
        <5>1. keys[key] = IF Has(d, key) THEN d.new[key] ELSE cache[d.conn][key]
          BY <1>1, <1>2, MergeFacts
        <5>2. d.new[key] = None
          BY <1>10, KeysFacts DEF Wipes
        <5> QED BY <4>1, <5>1, <5>2
      <4> QED BY <1>2, <4>1, KeysFacts
    <3>2. Exists(cache[d.conn]) => v.known \/ v.pending
      BY <1>2, <1>3 DEF Inv, NoneMissed
    <3> QED BY <1>5, <2>1, <3>1, <3>2
  <2>3. ~(w.known /\ w.pending)
    BY <1>7, <2>1
  <2>4. w.creations <= 1
    BY <1>7, <2>1
  <2>5. w.creations # 0 /\ ~w.known
          => Over(d.conn) \/ (~Exists(keys) /\ ~w.pending)
    BY <1>7, <1>8, <2>1
  <2>6. d.conn \in pending' => d.conn \in pending
    BY <1>3, <1>5, <2>1
  <2>7. told[d.conn] # "deleted" /\ told'[d.conn] = "deleted" => ~Exists(keys)
    BY <1>3, <1>5, <2>1
  <2> QED BY <1>5, <1>6, <1>10, <2>2, <2>3, <2>4, <2>5, <2>6, <2>7
<1> QED BY <1>2, <1>9, <1>10

LEMMA DeltaArrivesKeeps ==
  ASSUME Inv, DeltaArrives
  PROVE  /\ Inv'
         /\ \A c \in Conns : told[c] # "deleted" /\ told'[c] = "deleted"
                               => ~Exists(cache'[c]) /\ life[c] = "severed"
<1> DEFINE d == Head(inbox)
           keys == Merge(cache[d.conn], d)
<1>1. /\ inbox # <<>> /\ inbox' = Tail(inbox)
      /\ cache' = [cache EXCEPT ![d.conn] = keys]
      /\ UNCHANGED <<realm, life, session, drops, stray>>
      /\ session # "connected" =>
           UNCHANGED <<prev, known, pending, told, creations>>
      /\ session = "connected" => Install(d.conn, OnUpdate(d.conn, d, keys))
  BY DEF DeltaArrives, derived
<1>2. /\ InboxOK' /\ LivesOK' /\ CatchesUp'
      /\ cache' \in [Conns -> Record] /\ session # "down"
      /\ \A c \in Conns : Over(c) /\ (c \in pending' => c \in pending) => Over(c)'
  BY <1>1, ArrivalKeepsStream
<1>3. /\ d \in Delta /\ d = inbox[1] /\ 1 \in Waiting /\ d.conn \in Conns
      /\ inbox' \in Seq(Delta) /\ Len(inbox') <= MaxInFlight
      /\ \A i \in Waiting' : i + 1 \in Waiting /\ inbox'[i] = inbox[i + 1] /\ 1 < i + 1
  BY <1>1, ShiftFacts, DeltaFacts DEF Inv
<1>4. /\ cache'[d.conn] = keys
      /\ \A c \in Conns : c # d.conn => cache'[c] = cache[c]
  BY <1>1, <1>3 DEF Inv, TypeOK
<1>5. CASE session # "connected"
  <2>1. UNCHANGED <<prev, known, pending, told, creations>>
    BY <1>1, <1>5
  <2>2. TypeOK'
    BY <1>1, <1>2, <1>3, <2>1 DEF Inv, TypeOK
  <2>3. NoneMissed' /\ PrevMirrorsCache' /\ CreatedOnce'
    BY <1>1, <1>5, <2>1 DEF Inv, NoneMissed, PrevMirrorsCache, CreatedOnce
  <2>4. AnnouncedOnce'
    BY <1>2, <2>1 DEF Inv, AnnouncedOnce
  <2> QED BY <1>2, <2>1, <2>2, <2>3, <2>4 DEF Inv
<1>6. CASE session = "connected"
  <2> DEFINE w == OnUpdate(d.conn, d, keys)
  <2>1. w \in Views
    BY <1>3, OnUpdateFacts DEF Inv, InboxOK
  <2>2. Install(d.conn, w)
    BY <1>1, <1>6
  <2> HIDE DEF w
  <2>3. /\ known' \subseteq Conns /\ pending' \subseteq Conns
        /\ prev' \in [Conns -> Values \cup {None}] /\ told' \in [Conns -> Told]
        /\ creations' \in [Conns -> 0..2]
        /\ \A e \in Conns : e # d.conn =>
             /\ e \in known' <=> e \in known
             /\ e \in pending' <=> e \in pending
             /\ prev'[e] = prev[e] /\ told'[e] = told[e] /\ creations'[e] = creations[e]
    BY <1>3, <2>1, <2>2, InstallFacts DEF Inv
  <2>4. /\ prev'[d.conn] = keys.prop
        /\ Exists(keys) => d.conn \in known' \cup pending'
        /\ creations'[d.conn] <= 1 /\ ~(d.conn \in known' /\ d.conn \in pending')
        /\ creations'[d.conn] # 0 /\ d.conn \notin known' =>
             /\ d.conn \in pending' => d.conn \in pending
             /\ Over(d.conn) \/ (~Exists(keys) /\ Wipes(d) /\ d.conn \notin pending')
        /\ told[d.conn] # "deleted" /\ told'[d.conn] = "deleted"
             => Wipes(d) /\ ~Exists(keys)
    BY <1>1, <1>6, DeltaIsTracked
  <2>5. ~Exists(keys) /\ Wipes(d) =>
          /\ life[d.conn] = "severed"
          /\ \A i \in Waiting : inbox[i].conn = d.conn => Wipes(inbox[i])
    BY <1>1, <1>2, LastKeyGoes
  <2> HIDE DEF d, keys
  <2>6. TypeOK'
    BY <1>1, <1>2, <1>3, <1>6, <2>3 DEF Inv, TypeOK, Told
  <2>7. NoneMissed'
    <3> SUFFICES ASSUME NEW c \in Conns, Exists(cache'[c])
                 PROVE  c \in known' \cup pending'
      BY DEF NoneMissed, Exists, NoKeys
    <3>1. CASE c = d.conn
      BY <1>4, <2>4, <3>1
    <3>2. CASE c # d.conn
      BY <1>4, <1>6, <2>3, <3>2 DEF Inv, NoneMissed
    <3> QED BY <3>1, <3>2
  <2>8. PrevMirrorsCache'
    BY <1>4, <1>6, <2>3, <2>4 DEF Inv, PrevMirrorsCache
  <2>9. CreatedOnce'
    BY <2>3, <2>4 DEF Inv, CreatedOnce
  <2>10. AnnouncedOnce'
    <3> SUFFICES ASSUME NEW c \in Conns, creations'[c] # 0, c \notin known'
                 PROVE  Over(c)'
      BY DEF AnnouncedOnce
    <3>1. CASE c # d.conn
      <4>1. Over(c)
        BY <2>3, <3>1 DEF Inv, AnnouncedOnce
      <4> QED BY <1>2, <2>3, <3>1, <4>1
    <3>2. CASE c = d.conn /\ Over(d.conn)
      BY <1>2, <2>4, <3>2
    <3>3. CASE c = d.conn /\ ~Over(d.conn)
      <4>1. ~Exists(keys) /\ Wipes(d) /\ d.conn \notin pending'
        BY <2>4, <3>3
      <4>2. \A i \in Waiting' : inbox'[i].conn = c => Wipes(inbox'[i])
        BY <1>3, <2>5, <3>3, <4>1
      <4> QED BY <1>1, <1>4, <2>5, <3>3, <4>1, <4>2 DEF Over, Exists, Wipes
    <3> QED BY <3>1, <3>2, <3>3
  <2>11. ASSUME NEW c \in Conns, told[c] # "deleted", told'[c] = "deleted"
         PROVE  ~Exists(cache'[c]) /\ life[c] = "severed"
    <3>1. c = d.conn
      BY <2>3, <2>11
    <3> QED BY <1>4, <2>4, <2>5, <2>11, <3>1
  <2> QED BY <1>2, <2>6, <2>7, <2>8, <2>9, <2>10, <2>11 DEF Inv
<1> QED BY <1>5, <1>6

-----------------------------------------------------------------------------
LEMMA InitInv == Init => Inv
<1> SUFFICES ASSUME Init PROVE Inv
  OBVIOUS
<1>1. Waiting = {} /\ inbox = <<>> /\ session = "down"
  BY DEF Init, Waiting
<1>2. TypeOK
  <2>1. inbox \in Seq(Delta) /\ Len(inbox) <= MaxInFlight
    BY <1>1, BoundsAssumption
  <2>2. \A c \in Conns : ~Exists(cache[c])
    BY DEF Init, Exists
  <2>3. drops \in 0..MaxDrops
    BY BoundsAssumption DEF Init
  <2> QED BY <2>1, <2>2, <2>3, KeysFacts DEF Init, TypeOK, Lives
<1>3. InboxOK /\ LivesOK /\ CatchesUp
  BY <1>1 DEF Init, InboxOK, LivesOK, CatchesUp
<1>4. NoneMissed /\ PrevMirrorsCache /\ CreatedOnce /\ AnnouncedOnce
  BY <1>1 DEF Init, NoneMissed, PrevMirrorsCache, CreatedOnce, AnnouncedOnce
<1> QED BY <1>2, <1>3, <1>4 DEF Inv

\* Every step keeps the invariant, and reports as deleted only what is gone.
LEMMA StepKeeps ==
  ASSUME Inv, [Next]_vars
  PROVE  /\ Inv'
         /\ \A c \in Conns : told[c] # "deleted" /\ told'[c] = "deleted"
                               => ~Exists(cache'[c]) /\ life[c] = "severed"
<1>1. ASSUME NEW d \in Delta, RealmWrites(d) PROVE Inv' /\ told' = told
  BY <1>1, RealmWritesKeeps DEF RealmWrites, derived
<1>2. ASSUME NEW d \in Delta, RealmSevers(d) PROVE Inv' /\ told' = told
  BY <1>2, RealmSeversKeeps DEF RealmSevers, derived
<1>3. ASSUME Snapshot PROVE Inv' /\ told' = told
  BY <1>3, SnapshotKeeps DEF Snapshot, derived
<1>4. ASSUME SessionUp PROVE Inv' /\ \A c \in Conns : told'[c] = "deleted" => told[c] = "deleted"
  BY <1>4, SessionUpKeeps, ScanFacts DEF SessionUp
<1>5. ASSUME NEW c \in Conns, GraceEnds(c)
      PROVE  Inv' /\ \A e \in Conns : told'[e] = "deleted" => told[e] = "deleted"
  BY <1>5, GraceEndsKeeps
<1>6. ASSUME SessionLost PROVE Inv' /\ told' = told
  BY <1>6, SessionLostKeeps DEF SessionLost, derived
<1>7. ASSUME UNCHANGED vars PROVE Inv' /\ told' = told
  <2>1. UNCHANGED <<realm, life, session, cache, inbox, prev, known, pending, told,
                    creations, stray, drops>>
    BY <1>7 DEF vars
  <2>2. TypeOK' /\ InboxOK' /\ LivesOK' /\ CatchesUp'
    BY <2>1 DEF Inv, TypeOK, InboxOK, LivesOK, CatchesUp, Waiting
  <2>3. NoneMissed' /\ PrevMirrorsCache' /\ CreatedOnce' /\ AnnouncedOnce'
    BY <2>1 DEF Inv, NoneMissed, PrevMirrorsCache, CreatedOnce, AnnouncedOnce, Over, Waiting
  <2> QED BY <2>1, <2>2, <2>3 DEF Inv
<1> QED BY <1>1, <1>2, <1>3, <1>4, <1>5, <1>6, <1>7, DeltaArrivesKeeps DEF Next

LEMMA Invariance == Spec => []Inv
BY InitInv, StepKeeps, PTL DEF Spec

-----------------------------------------------------------------------------
(* Theorems *)

\* The state has its types (#knownConns and the maps of realm.js).
THEOREM TypeCorrect == Spec => []TypeOK
<1>1. Inv => TypeOK
  BY DEF Inv
<1> QED BY <1>1, Invariance, PTL

\* With the session up, every connection of the cache is announced or has its
\* grace timer running (realm.js:115-117, 424-430).
THEOREM NoneIsMissed == Spec => []NoneMissed
<1>1. Inv => NoneMissed
  BY DEF Inv
<1> QED BY <1>1, Invariance, PTL

\* With the session up, prevKeys holds what the cache holds (realm.js:108, 386).
THEOREM PrevMirrors == Spec => []PrevMirrorsCache
<1>1. Inv => PrevMirrorsCache
  BY DEF Inv
<1> QED BY <1>1, Invariance, PTL

\* connection.created fires at most once per connection (realm.js:450), however
\* the session, the deltas and the grace timers interleave.
THEOREM CreatedAtMostOnce == Spec => []CreatedOnce
<1>1. Inv => CreatedOnce
  BY DEF Inv
<1> QED BY <1>1, Invariance, PTL

\* connection.deleted is for a connection that is severed and of which no key is
\* left (realm.js:405-407).
THEOREM DeletedIsGone == Spec => DeletedMeansGone
<1>1. Inv /\ [Next]_vars =>
        [\A c \in Conns : told[c] # "deleted" /\ told'[c] = "deleted"
                            => ~Exists(cache'[c]) /\ life[c] = "severed"]_vars
  BY StepKeeps
<1> QED BY <1>1, Invariance, PTL DEF Spec, DeletedMeansGone
=============================================================================
