--------------------------- MODULE ConnectionEvents ---------------------------
(***************************************************************************)
(* The events a RealmConnection derives from its key cache                 *)
(* (src/src/realm.js, "event derivation").  The realm binds and severs     *)
(* connections; their keys reach the gateway in deltas that hold some of   *)
(* the keys in some order.  connection.created waits for the key that      *)
(* names the peer, or for a grace timer; what is known and what is pending *)
(* outlives the session, and the timers fire whatever the session does.    *)
(*                                                                         *)
(* A connection has two keys: the attribute naming its peer, and one       *)
(* property.  A connection id is used once.                                *)
(***************************************************************************)
EXTENDS Naturals, FiniteSets, SequencesExt

CONSTANTS
  Conns,
  Values,       \* values of the property
  None,         \* a key that is absent
  MaxDrops,     \* bound: sessions lost
  MaxInFlight   \* bound: deltas on their way

ASSUME DataAssumption == None \notin Values
ASSUME BoundsAssumption == MaxDrops \in Nat /\ MaxInFlight \in Nat \ {0}

VARIABLES
  realm,        \* per connection: its keys in the realm
  life,         \* per connection: its life in the realm
  session,      \* "down", "registering" or "connected"
  cache,        \* per connection: its keys in this.client.keys, if a client is
  inbox,        \* deltas between the realm and the client
  prev,         \* per connection: the property in prevKeys
  known,        \* the connections in knownConns
  pending,      \* the connections in pendingConns: their grace timer runs
  told,         \* history, per connection: the last of its events emitted
  creations,    \* history, per connection: connection.created emitted
  stray,        \* history: connections known when a session did not have them
  drops         \* sessions lost

vars == <<realm, life, session, cache, inbox, prev, known, pending, told,
          creations, stray, drops>>

KeyNames == {"peer", "prop"}
Record == [peer : {None, "named"}, prop : Values \cup {None}]
NoKeys == [peer |-> None, prop |-> None]

\* One delta: the names of the keys of one connection it holds, in the order
\* Object.entries gives them, and the values.
Orders == {<<"peer">>, <<"prop">>, <<"peer", "prop">>, <<"prop", "peer">>}
Delta == [conn : Conns, names : Orders, new : Record]

Lives == {"unborn", "bound", "ending", "severed"}

Exists(r) == r # NoKeys
Has(d, key) == key \in ToSet(d.names)
Merge(r, d) == [key \in KeyNames |-> IF Has(d, key) THEN d.new[key] ELSE r[key]]

-----------------------------------------------------------------------------
(* Deriving events: what tracking keys does to one connection of the       *)
(* gateway, given its keys in the cache.                                   *)

View(c) == [known |-> c \in known, pending |-> c \in pending, prev |-> prev[c],
            told |-> told[c], creations |-> creations[c]]

Install(c, v) ==
  /\ known' = IF v.known THEN known \cup {c} ELSE known \ {c}
  /\ pending' = IF v.pending THEN pending \cup {c} ELSE pending \ {c}
  /\ prev' = [prev EXCEPT ![c] = v.prev]
  /\ told' = [told EXCEPT ![c] = v.told]
  /\ creations' = [creations EXCEPT ![c] = v.creations]

\* #fireConnectionCreated, without what keeps it from firing again
FireAgain(v) ==                                                   \* mutant
  [v EXCEPT !.known = TRUE, !.told = "created",
            !.creations = IF @ < 2 THEN @ + 1 ELSE 2]
\* #fireConnectionCreated, the pending timer taken out of the map
Fire(v) ==
  IF v.known THEN [v EXCEPT !.pending = FALSE]
  ELSE [v EXCEPT !.known = TRUE, !.pending = FALSE, !.told = "created",
                 !.creations = IF @ < 2 THEN @ + 1 ELSE 2]

\* #scheduleConnectionCreated
Schedule(v, keys) ==
  IF keys.peer # None THEN Fire(v) ELSE [v EXCEPT !.pending = TRUE]

\* The last key of the connection goes: connection.deleted.
SeverAtFirstKey(v, keys) ==                                       \* mutant
  [v EXCEPT !.known = FALSE, !.told = "deleted"]
Sever(v, keys) ==
  IF Exists(keys) THEN v ELSE [v EXCEPT !.known = FALSE, !.told = "deleted"]

\* A new value of the property: property.changed unless it is the same.
Change(v, value) ==
  IF value \in {None, v.prev} THEN v
  ELSE [v EXCEPT !.told = IF @ = "nothing" THEN "changed" ELSE @]

\* #trackKey for a key with this value, and #onUpdate's record of it.
AppearOnly(v, value, keys) ==                                     \* mutant
  IF value # None /\ ~v.known THEN Schedule(v, keys) ELSE v
Appear(v, value, keys) ==
  IF value # None /\ ~v.known THEN Schedule(v, keys)
  ELSE IF value = None /\ v.known THEN Sever(v, keys) ELSE v
Track(v, key, value, keys) ==
  LET seen == Appear(v, value, keys)
  IN  IF key = "prop" THEN Change(seen, value) ELSE seen
UpdateForgetting(v, key, value, keys) == Track(v, key, value, keys) \* mutant
Update(v, key, value, keys) ==
  IF key = "prop" THEN [Track(v, key, value, keys) EXCEPT !.prev = value]
  ELSE Track(v, key, value, keys)

\* #onUpdate: the delta is merged in the cache before its keys, one or two,
\* are looked at.
OnUpdate(c, d, keys) ==
  LET With(v, key) == Update(v, key, d.new[key], keys)
      first == With(View(c), d.names[1])
  IN  IF Len(d.names) = 1 THEN first ELSE With(first, d.names[2])

-----------------------------------------------------------------------------
Init ==
  /\ realm = [c \in Conns |-> NoKeys]
  /\ life = [c \in Conns |-> "unborn"]
  /\ session = "down"
  /\ cache = [c \in Conns |-> NoKeys]
  /\ inbox = <<>>
  /\ prev = [c \in Conns |-> None]
  /\ known = {}
  /\ pending = {}
  /\ told = [c \in Conns |-> "nothing"]
  /\ creations = [c \in Conns |-> 0]
  /\ stray = {}
  /\ drops = 0

derived == <<prev, known, pending, told, creations, stray>>

\* The realm tells a gateway that has a snapshot of it.
Tell(d) ==
  /\ realm' = [realm EXCEPT ![d.conn] = Merge(@, d)]
  /\ IF session = "down" THEN UNCHANGED inbox
     ELSE Len(inbox) < MaxInFlight /\ inbox' = Append(inbox, d)

\* The orchestrator binds a connection or the peer writes it: one or both keys.
RealmWrites(d) ==
  /\ life[d.conn] \in {"unborn", "bound"}
  /\ \A key \in KeyNames : Has(d, key) <=> d.new[key] # None
  /\ Merge(realm[d.conn], d) # realm[d.conn]
  /\ Tell(d)
  /\ life' = [life EXCEPT ![d.conn] = "bound"]
  /\ UNCHANGED <<session, cache, derived, drops>>

\* The orchestrator severs it: keys go, at once or one after the other.
RealmSevers(d) ==
  /\ life[d.conn] \in {"bound", "ending"}
  /\ d.new = NoKeys
  /\ \A key \in ToSet(d.names) : realm[d.conn][key] # None
  /\ Tell(d)
  /\ life' = [life EXCEPT ![d.conn] = IF Exists(Merge(realm[d.conn], d))
                                      THEN "ending" ELSE "severed"]
  /\ UNCHANGED <<session, cache, derived, drops>>

\* connect(): a new client has its snapshot; registering begins.
Snapshot ==
  /\ session = "down"
  /\ session' = "registering"
  /\ cache' = realm
  /\ UNCHANGED <<realm, life, inbox, derived, drops>>

\* Registering is done: the baseline of prevKeys, then the initial scan, which
\* meets the keys the cache has and emits no property.changed.
Scan(c) ==
  IF Exists(cache[c]) /\ c \notin known
  THEN Schedule(View(c), cache[c]) ELSE View(c)
SessionUpWithoutScan ==                                           \* mutant
  /\ session = "registering"
  /\ session' = "connected"
  /\ prev' = [c \in Conns |-> cache[c].prop]
  /\ UNCHANGED <<realm, life, cache, inbox, known, pending, told, creations,
                 stray, drops>>
SessionUp ==
  /\ session = "registering"
  /\ session' = "connected"
  /\ prev' = [c \in Conns |-> cache[c].prop]
  /\ known' = {c \in Conns : Scan(c).known}
  /\ pending' = {c \in Conns : Scan(c).pending}
  /\ told' = [c \in Conns |-> Scan(c).told]
  /\ creations' = [c \in Conns |-> Scan(c).creations]
  /\ stray' = stray \cup {c \in known : ~Exists(cache[c])}
  /\ UNCHANGED <<realm, life, cache, inbox, drops>>

\* A delta arrives.  Until the session is up it is merged and not looked at.
DeltaArrives ==
  /\ inbox # <<>>
  /\ LET d == Head(inbox)
         keys == Merge(cache[d.conn], d)
     IN  /\ cache' = [cache EXCEPT ![d.conn] = keys]
         /\ IF session = "connected"
            THEN Install(d.conn, OnUpdate(d.conn, d, keys)) /\ UNCHANGED stray
            ELSE UNCHANGED derived
  /\ inbox' = Tail(inbox)
  /\ UNCHANGED <<realm, life, session, drops>>

\* The grace period is over: created, with a guess for the peer or none.
GraceEnds(c) ==
  /\ c \in pending
  /\ Install(c, Fire(View(c)))
  /\ stray' = IF session = "connected" /\ ~Exists(cache[c])
              THEN stray \cup {c} ELSE stray
  /\ UNCHANGED <<realm, life, session, cache, inbox, drops>>

\* #onDown or stop(): the client and its cache go, the timers do not.
SessionLostKeepingClient ==                                       \* mutant
  /\ session # "down"
  /\ drops < MaxDrops
  /\ drops' = drops + 1
  /\ session' = "down"
  /\ UNCHANGED <<realm, life, cache, inbox, derived>>
SessionLost ==
  /\ session # "down"
  /\ drops < MaxDrops
  /\ drops' = drops + 1
  /\ session' = "down"
  /\ cache' = [c \in Conns |-> NoKeys]
  /\ inbox' = <<>>
  /\ UNCHANGED <<realm, life, derived>>

\* The process ends and another one starts (Gateway): only the realm is left.
Restarted ==
  /\ session' = "down"
  /\ cache' = [c \in Conns |-> NoKeys]
  /\ inbox' = <<>>
  /\ prev' = [c \in Conns |-> None]
  /\ known' = {} /\ pending' = {} /\ stray' = {}
  /\ told' = [c \in Conns |-> "nothing"]
  /\ creations' = [c \in Conns |-> 0]
  /\ UNCHANGED <<realm, life, drops>>

Next ==
  \/ \E d \in Delta : RealmWrites(d) \/ RealmSevers(d)
  \/ Snapshot
  \/ SessionUp
  \/ DeltaArrives
  \/ \E c \in Conns : GraceEnds(c)
  \/ SessionLost

\* The gateway keeps connecting, the realm delivers, timers fire.
Fairness ==
  /\ WF_vars(Snapshot)
  /\ WF_vars(SessionUp)
  /\ WF_vars(DeltaArrives)
  /\ \A c \in Conns : WF_vars(GraceEnds(c))

Spec == Init /\ [][Next]_vars
FairSpec == Spec /\ Fairness

-----------------------------------------------------------------------------
TypeOK ==
  /\ realm \in [Conns -> Record]
  /\ life \in [Conns -> Lives]
  /\ session \in {"down", "registering", "connected"}
  /\ cache \in [Conns -> Record]
  /\ inbox \in Seq(Delta) /\ Len(inbox) <= MaxInFlight
  /\ prev \in [Conns -> Values \cup {None}]
  /\ known \subseteq Conns
  /\ pending \subseteq Conns
  /\ told \in [Conns -> {"nothing", "changed", "created", "deleted"}]
  /\ creations \in [Conns -> 0..2]
  /\ stray \subseteq Conns
  /\ drops \in 0..MaxDrops
  /\ session = "down" => inbox = <<>> /\ \A c \in Conns : ~Exists(cache[c])

(***************************************************************************)
(* While connected, every connection the cache holds was announced or has  *)
(* a grace timer that will announce it (realm.js:115-117, 424-430): none   *)
(* is missed between the snapshot, the scan and the deltas.                *)
(***************************************************************************)
NoneMissed ==
  session = "connected" =>
    \A c \in Conns : Exists(cache[c]) => c \in known \cup pending

(***************************************************************************)
(* While connected, prevKeys agrees with the cache (realm.js:108, 386-387):*)
(* a property.changed names the right previous value and is emitted for    *)
(* every change, and only for a change.                                    *)
(***************************************************************************)
PrevMirrorsCache ==
  session = "connected" => \A c \in Conns : prev[c] = cache[c].prop

(***************************************************************************)
(* "Fires at most once per connection" (realm.js:450), and a pending       *)
(* announcement is never one that was made already: whatever timers,       *)
(* scans, deltas and reconnections do, connection.created comes once.      *)
(***************************************************************************)
CreatedOnce ==
  \A c \in Conns : creations[c] <= 1 /\ ~(c \in known /\ c \in pending)

(***************************************************************************)
(* connection.deleted is emitted when the last key of the connection goes  *)
(* and not before (realm.js:405-407), so that a subscriber never drops a   *)
(* connection which still has keys.                                        *)
(***************************************************************************)
DeletedMeansGone ==
  [][\A c \in Conns : told[c] # "deleted" /\ told'[c] = "deleted"
                        => ~Exists(cache'[c]) /\ life[c] = "severed"]_vars

(***************************************************************************)
(* A connection that stays bound is announced in the end, and the end of   *)
(* one that was announced is reported (realm.js:115-117, 405-407),         *)
(* whatever sessions are lost on the way and wherever in its life.  What   *)
(* is not reported is exactly what no delta was left for: a connection     *)
(* that went while no session was up, or before its announcement.          *)
(***************************************************************************)
EventuallyTold ==
  \A c \in Conns :
    []<>(/\ life[c] = "bound" => creations[c] # 0
         /\ life[c] = "severed" /\ c \notin stray => told[c] # "created")

-----------------------------------------------------------------------------
(* What the comments and documents say and the code does not do *)

(***************************************************************************)
(* realm.js:115: connection.created is for "connections that already       *)
(* exist": with the session up, it is not emitted for a connection that    *)
(* the cache no longer has.                                                *)
(***************************************************************************)
NoPhantom ==
  [][\A c \in Conns : session = "connected" /\ creations'[c] # creations[c]
                        => Exists(cache'[c])]_vars

(***************************************************************************)
(* README.md:165-167: "the connection's keys disappear and the gateway     *)
(* emits once, when the last one goes": a connection severed while the     *)
(* session was down is reported once the session is up again.              *)
(***************************************************************************)
SeveredIsReported ==
  [][\A c \in Conns : session = "registering" /\ session' = "connected"
                        /\ told[c] = "created" /\ life[c] = "severed"
                        /\ inbox = <<>>
                        => told'[c] = "deleted"]_vars

(***************************************************************************)
(* local-api-v0.1.md:134, "strict per-connection ordering": the first      *)
(* event of a connection is connection.created.                            *)
(***************************************************************************)
CreatedFirst == \A c \in Conns : told[c] # "changed"
=============================================================================
