----------------------------- MODULE Declarations -----------------------------
(***************************************************************************)
(* The declaration tree of one realm and its way onto the realm: the       *)
(* store's tree (store.js), the API handlers that change it (api.js), the  *)
(* replay in #register and declareOnWire (realm.js), and the realm that    *)
(* executes the commands and answers in the order they were sent.          *)
(*                                                                         *)
(* The gateway is single-threaded.  One action is everything that runs     *)
(* between two awaits; a handler or the replay that awaits a reply is      *)
(* overtaken by whatever else happens meanwhile.  A lost session and a     *)
(* crashed and restarted gateway look the same here: what is stored        *)
(* survives, what is in flight does not.                                   *)
(***************************************************************************)
EXTENDS Naturals, Sequences

CONSTANTS
  Nodes, Contexts, Decls,   \* the paths of the tree, by level
  Parent,                   \* Contexts -> Nodes and Decls -> Contexts
  Handlers,                 \* API requests in progress at one time
  Replay,                   \* the replay coroutine, as the owner of a command
  MaxFaults,                \* bound: lost sessions and refused commands
  DeltaFirst                \* the key deltas of a command precede its reply

Paths == Nodes \cup Contexts \cup Decls

ASSUME TreeAssumption ==
  /\ Parent \in [Contexts \cup Decls -> Nodes \cup Contexts]
  /\ \A c \in Contexts : Parent[c] \in Nodes
  /\ \A d \in Decls : Parent[d] \in Contexts
  /\ Nodes \cap Contexts = {} /\ Contexts \cap Decls = {} /\ Nodes \cap Decls = {}

ASSUME OwnerAssumption == Replay \notin Handlers

ASSUME BoundAssumption == MaxFaults \in Nat /\ DeltaFirst \in BOOLEAN

VARIABLES
  stored,    \* the paths in the store's tree
  phase,     \* of the connection: "down", "replaying" or "up"
  cache,     \* declarations whose version key is in the client's key cache
  agenda,    \* what the replay has captured of the tree and not yet done
  replaying, \* what the replay coroutine awaits, or Nothing
  handler,   \* per handler: what it is doing, for which path
  wire,      \* commands sent and not yet executed
  inbox,     \* deltas and replies sent back and not yet delivered
  declared,  \* realm: the paths registered or declared there
  value,     \* realm: the property value of each declaration
  faults,    \* faults charged so far
  wiped,     \* history: owners whose declare command reset a value
  acked,     \* history: declarations last reported as `declared'
  late,      \* history: paths first stored while a replay was running
  stale,     \* history: declarations skipped on the key of one that was gone
  refused,   \* history: paths one of whose commands was refused
  cut,       \* history: declarations whose initial values did not get through
  overtaken  \* history: paths last written to behind a DELETE over them

gatewayVars == <<stored, phase, cache, agenda, replaying, handler>>
realmVars == <<declared, value>>
ghostVars == <<wiped, acked, late, stale, refused, cut, overtaken>>
vars == <<gatewayVars, wire, inbox, realmVars, faults, ghostVars>>

Owners == Handlers \cup {Replay}

Nothing == [op |-> "none", path |-> "none"]
Doing(op, p) == [op |-> op, path |-> p]
Commands == {"register", "declare", "init", "property", "purge"}
Work == {Nothing} \cup [op : Commands \cup {"body"}, path : Paths]

NoAgenda == [nodes |-> {}, contexts |-> {}, decls |-> {}]

Children(p) == {q \in Contexts \cup Decls : Parent[q] = p}
Under(p) == {p} \cup Children(p) \cup UNION {Children(q) : q \in Children(p)}

\* The store keeps a path only below its parent.
Storable(p) == p \notin Nodes => Parent[p] \in stored

Idle(h) == handler[h] = Nothing

\* A property write whose body, or whose profile, has not arrived.
AwaitsBody(h) == handler[h].op = "body"
Resting(h) == Idle(h) \/ AwaitsBody(h)

\* Between two awaits of the replay nothing else runs on the event loop.
LoopFree == ~(phase = "replaying" /\ replaying = Nothing)

\* tryWire and requireClient: is the session usable?
ConnectedOrReplaying == phase # "down"                            \* mutant
Connected == phase = "up"

Send(op, p, owner) == wire' = Append(wire, [op |-> op, path |-> p, owner |-> owner])

Fault ==
  /\ faults < MaxFaults
  /\ faults' = faults + 1

Quiet == wire = <<>> /\ inbox = <<>> /\ \A h \in Handlers : Resting(h)

Init ==
  /\ stored = {}
  /\ phase = "down"
  /\ cache = {}
  /\ agenda = NoAgenda
  /\ replaying = Nothing
  /\ handler = [h \in Handlers |-> Nothing]
  /\ wire = <<>>
  /\ inbox = <<>>
  /\ declared = {}
  /\ value = [d \in Decls |-> "absent"]
  /\ faults = 0
  /\ wiped = {}
  /\ acked = {}
  /\ late = {}
  /\ stale = {}
  /\ refused = {}
  /\ cut = {}
  /\ overtaken = {}

-----------------------------------------------------------------------------
(* The session *)

\* The snapshot has filled the key cache and this system is registered: the
\* replay captures the nodes of the tree.
Connect ==
  /\ phase = "down"
  /\ phase' = "replaying"
  /\ cache' = declared \cap Decls
  /\ agenda' = [NoAgenda EXCEPT !.nodes = stored \cap Nodes]
  /\ late' = {}
  /\ stale' = {}
  /\ refused' = {}
  /\ UNCHANGED <<stored, replaying, handler, wire, inbox, realmVars, faults,
                 wiped, acked, cut, overtaken>>

\* onDown, or the process dies: commands not yet executed are lost, and so are
\* the replies and the key cache.  dispose() settles no promise, so a handler
\* that waits for a reply never goes on and its request is never answered: all
\* that is left of it is a place for another request.  (A process that dies
\* takes the bodies it waits for along: BodyFails, one by one.)
Declaring(work) == {d \in Decls : work = Doing("declare", d) \/ work = Doing("init", d)}
Uninitialised ==
  declared \cap (Declaring(replaying) \cup UNION {Declaring(handler[h]) : h \in Handlers})

LoseSession ==
  /\ cut' = cut \cup Uninitialised
  /\ phase' = "down"
  /\ cache' = {}
  /\ agenda' = NoAgenda
  /\ replaying' = Nothing
  /\ handler' = [h \in Handlers |-> IF AwaitsBody(h) THEN handler[h] ELSE Nothing]
  /\ wire' = <<>>
  /\ inbox' = <<>>

Drop ==
  /\ phase # "down"
  /\ LoopFree
  /\ Fault
  /\ LoseSession
  /\ UNCHANGED <<stored, realmVars, wiped, acked, late, stale, refused, overtaken>>

-----------------------------------------------------------------------------
(* The replay: #register's three nested loops.  Each loop captures its      *)
(* entries when it is entered, that is after the parent's command returned. *)

AwaitReplay(op, p) ==
  /\ replaying' = Doing(op, p)
  /\ Send(op, p, Replay)

\* declareOnWire for the replay: skip when the version key is in the cache.
AlreadyDeclaredNever(d) == FALSE                                  \* mutant
AlreadyDeclaredAlways(d) == TRUE                                  \* mutant
AlreadyAnswered(d) == d \in cache \cup acked                       \* mutant
AlreadyDeclared(d) == d \in cache

ReplayDeclaration(d) ==
  /\ d \in agenda.decls
  /\ agenda' = [agenda EXCEPT !.decls = @ \ {d}]
  /\ IF AlreadyDeclared(d)
     THEN UNCHANGED <<replaying, wire>>
     ELSE AwaitReplay("declare", d)

ReplayContext(c) ==
  /\ agenda.decls = {}
  /\ c \in agenda.contexts
  /\ agenda' = [agenda EXCEPT !.contexts = @ \ {c}]
  /\ AwaitReplay("register", c)

ReplayNode(n) ==
  /\ agenda.decls = {} /\ agenda.contexts = {}
  /\ n \in agenda.nodes
  /\ agenda' = [agenda EXCEPT !.nodes = @ \ {n}]
  /\ AwaitReplay("register", n)

ReplayStep ==
  /\ ~LoopFree
  /\ \E p \in Paths : ReplayDeclaration(p) \/ ReplayContext(p) \/ ReplayNode(p)
  /\ UNCHANGED <<stored, phase, cache, handler, inbox, realmVars, faults, ghostVars>>

\* connect() after #register: the state becomes connected.
ReplayDone ==
  /\ ~LoopFree
  /\ agenda = NoAgenda
  /\ phase' = "up"
  /\ UNCHANGED <<stored, cache, agenda, replaying, handler, wire, inbox, realmVars,
                 faults, ghostVars>>

\* The awaited command of the replay returned: enter the next loop, over the
\* entries one level below.
EntriesBelow(p) == stored \cap (Under(p) \ {p})                    \* mutant
Entries(p) == stored \cap Children(p)

ReplayContinues(w) ==
  /\ \/ /\ w.op = "register" /\ w.path \in Nodes
        /\ agenda' = [agenda EXCEPT !.contexts = Entries(w.path)]
        /\ replaying' = Nothing
        /\ UNCHANGED wire
     \/ /\ w.op = "register" /\ w.path \in Contexts
        /\ agenda' = [agenda EXCEPT !.decls = Entries(w.path)]
        /\ replaying' = Nothing
        /\ UNCHANGED wire
     \/ /\ w.op = "declare"
        /\ AwaitReplay("init", w.path)
        /\ UNCHANGED agenda
     \/ /\ w.op = "init"
        /\ replaying' = Nothing
        /\ UNCHANGED <<agenda, wire>>
  /\ UNCHANGED <<phase, cache, handler>>

-----------------------------------------------------------------------------
(* The API handlers *)

\* A command about p is sent, not a purge: history of whether a DELETE over p,
\* answered or awaited, is ahead of it.
Overtaken(p) ==
  \/ p \notin stored'
  \/ \E h \in Handlers : handler[h].op = "purge" /\ p \in Under(handler[h].path)
Write(op, p, h) ==
  /\ Send(op, p, h)
  /\ overtaken' = IF Overtaken(p) THEN overtaken \cup {p} ELSE overtaken \ {p}

\* PUT of a node, context or declaration while the session is not up: stored,
\* answered 202 `pending', left to the next replay.
PutPending(p) ==
  /\ LoopFree
  /\ ~Connected
  /\ Storable(p)
  /\ p \notin stored
  /\ stored' = stored \cup {p}
  /\ late' = IF phase = "replaying" THEN late \cup {p} ELSE late
  /\ UNCHANGED <<phase, cache, agenda, replaying, handler, wire, inbox, realmVars,
                 faults, wiped, acked, stale, refused, cut, overtaken>>

\* The same while the session is up: stored, then registered on the wire.
PutOnWire(h, p) ==
  /\ Connected
  /\ Idle(h)
  /\ Storable(p)
  /\ p \in Nodes \cup Contexts
  /\ stored' = stored \cup {p}
  /\ handler' = [handler EXCEPT ![h] = Doing("register", p)]
  /\ Write("register", p, h)
  /\ UNCHANGED <<phase, cache, agenda, replaying, inbox, realmVars, faults,
                 wiped, acked, late, stale, refused, cut>>

\* A new declaration: declareOnWire skips a version key that is in the cache
\* and the handler answers 201 at once.
PutDeclaration(h, d) ==
  /\ Connected
  /\ Idle(h)
  /\ d \in Decls /\ Storable(d) /\ d \notin stored
  /\ stored' = stored \cup {d}
  /\ IF AlreadyDeclared(d)
     THEN /\ acked' = acked \cup {d}
          /\ stale' = stale \cup ({d} \ declared)
          /\ UNCHANGED <<handler, wire, overtaken>>
     ELSE /\ handler' = [handler EXCEPT ![h] = Doing("declare", d)]
          /\ Write("declare", d, h)
          /\ UNCHANGED <<acked, stale>>
  /\ UNCHANGED <<phase, cache, agenda, replaying, inbox, realmVars, faults,
                 wiped, late, refused, cut>>

\* An identical redeclaration: 200, `declared' if the session is up, no wire.
PutDeclarationAgain(d) ==
  /\ Connected
  /\ d \in Decls \cap stored
  /\ acked' = acked \cup {d}
  /\ UNCHANGED <<gatewayVars, wire, inbox, realmVars, faults, wiped, late,
                 stale, refused, cut, overtaken>>

\* PUT .../properties/{prop} of a stored declaration: its body is awaited, and
\* the registry; by then the session has to be up, or it is answered 503.
PropertyRequested(h, d) ==
  /\ LoopFree
  /\ Idle(h)
  /\ d \in Decls \cap stored
  /\ handler' = [handler EXCEPT ![h] = Doing("body", d)]
  /\ UNCHANGED <<stored, phase, cache, agenda, replaying, wire, inbox, realmVars,
                 faults, ghostVars>>

PutProperty(h) ==
  /\ Connected
  /\ AwaitsBody(h)
  /\ UNCHANGED stored
  /\ handler' = [handler EXCEPT ![h] = Doing("property", handler[h].path)]
  /\ Write("property", handler[h].path, h)
  /\ UNCHANGED <<phase, cache, agenda, replaying, inbox, realmVars, faults,
                 wiped, acked, late, stale, refused, cut>>

\* No session, no body, or a property that may not be written.
BodyFails(h) ==
  /\ LoopFree
  /\ AwaitsBody(h)
  /\ handler' = [handler EXCEPT ![h] = Nothing]
  /\ UNCHANGED <<stored, phase, cache, agenda, replaying, wire, inbox, realmVars,
                 faults, ghostVars>>

\* DELETE: purge on the realm first, the store only once that returned.  For a
\* declaration only its context has to be stored.
Deletable(p) == IF p \in Decls THEN Storable(p) ELSE p \in stored

Delete(h, p) ==
  /\ Connected
  /\ Idle(h)
  /\ Deletable(p)
  /\ handler' = [handler EXCEPT ![h] = Doing("purge", p)]
  /\ Send("purge", p, h)
  /\ UNCHANGED <<stored, phase, cache, agenda, replaying, inbox, realmVars, faults,
                 ghostVars>>

\* The awaited command of handler h returned.
Forgotten(p) == Under(p)

\* A refused command throws: the store stays as it is.
ForgottenAnyway(w) ==                                             \* mutant
  IF w.op = "purge" THEN stored \ Forgotten(w.path) ELSE stored
KeptWhenRefused(w) == stored

\* A fresh declaration is followed by its initial values.
InitialValuesNever(w) == FALSE                                    \* mutant
InitialValuesNext(w) == w.op = "declare"

HandlerContinues(h, w) ==
  /\ stored' = IF w.op = "purge" THEN stored \ Forgotten(w.path) ELSE stored
  /\ IF InitialValuesNext(w)
     THEN /\ handler' = [handler EXCEPT ![h] = Doing("init", w.path)]
          /\ Write("init", w.path, h)
     ELSE /\ handler' = [handler EXCEPT ![h] = Nothing]
          /\ UNCHANGED <<wire, overtaken>>
  /\ acked' = CASE w.op = "init" -> acked \cup {w.path}
                [] w.op = "purge" -> acked \ Under(w.path)
                [] OTHER -> acked
  /\ UNCHANGED <<phase, cache, agenda, replaying, late, stale, refused>>

-----------------------------------------------------------------------------
(* The realm, and what it sends back *)

NoDelta == [add |-> {}, remove |-> {}]

\* A command is executed: its key deltas reach the cache before or after the
\* reply wakes the caller.
Answer(m, ok, delta) ==
  LET reply == [kind |-> "reply", work |-> m, ok |-> ok, delta |-> NoDelta]
      keys  == [kind |-> "delta", work |-> m, ok |-> ok, delta |-> delta]
  IN  \/ delta = NoDelta /\ inbox' = Append(inbox, reply)
      \/ delta # NoDelta /\ inbox' = Append(Append(inbox, keys), reply)
      \/ delta # NoDelta /\ ~DeltaFirst /\ inbox' = Append(Append(inbox, reply), keys)

\* Re-issuing a declaration resets its values to empty strings (realm.js:4-9).
\* A value is put wherever the key says, declared or not.
Execute(m) ==
  \/ /\ m.op = "register"
     /\ declared' = declared \cup {m.path}
     /\ Answer(m, TRUE, NoDelta)
     /\ UNCHANGED <<value, wiped, cut>>
  \/ /\ m.op = "declare"
     /\ declared' = declared \cup {m.path}
     /\ value' = [value EXCEPT ![m.path] = "empty"]
     /\ wiped' = IF m.path \in declared /\ value[m.path] # "empty"
                 THEN wiped \cup {m.owner} ELSE wiped
     /\ cut' = cut \ {m.path}
     /\ Answer(m, TRUE, [add |-> {m.path}, remove |-> {}])
  \/ /\ m.op \in {"init", "property"}
     /\ value' = [value EXCEPT ![m.path] = m.op]
     /\ Answer(m, TRUE, NoDelta)
     /\ UNCHANGED <<declared, wiped, cut>>
  \/ /\ m.op = "purge"
     /\ declared' = declared \ Under(m.path)
     /\ value' = [d \in Decls |-> IF d \in Under(m.path) THEN "absent"
                                  ELSE value[d]]
     /\ Answer(m, TRUE, [add |-> {}, remove |-> Under(m.path) \cap Decls])
     /\ cut' = cut \ Under(m.path)
     /\ UNCHANGED wiped

RealmExecutes ==
  /\ LoopFree
  /\ wire # <<>>
  /\ Execute(Head(wire))
  /\ wire' = Tail(wire)
  /\ UNCHANGED <<gatewayVars, faults, acked, late, stale, refused, overtaken>>

RealmRefuses ==
  /\ LoopFree
  /\ wire # <<>>
  /\ Fault
  /\ Answer(Head(wire), FALSE, NoDelta)
  /\ wire' = Tail(wire)
  /\ UNCHANGED <<gatewayVars, realmVars, ghostVars>>

\* A delta is merged into the key cache.
DeliverDelta(m) ==
  /\ m.kind = "delta"
  /\ inbox' = Tail(inbox)
  /\ cache' = (cache \cup m.delta.add) \ m.delta.remove
  /\ UNCHANGED <<stored, phase, agenda, replaying, handler, wire, realmVars, faults,
                 ghostVars>>

\* A reply wakes whoever sent the command.  An error ends a handler with a 500
\* and its store change stands; it ends the replay and with it the session.
DeliverReply(m) ==
  /\ m.kind = "reply"
  /\ \/ /\ m.ok /\ m.work.owner = Replay
        /\ ReplayContinues(m.work)
        /\ inbox' = Tail(inbox)
        /\ UNCHANGED <<stored, acked, late, stale, refused, cut, overtaken>>
     \/ /\ m.ok /\ m.work.owner # Replay
        /\ HandlerContinues(m.work.owner, m.work)
        /\ inbox' = Tail(inbox)
        /\ UNCHANGED cut
     \/ /\ ~m.ok /\ m.work.owner = Replay
        /\ LoseSession
        /\ UNCHANGED <<stored, acked, late, stale, refused, overtaken>>
     \/ /\ ~m.ok /\ m.work.owner # Replay
        /\ handler' = [handler EXCEPT ![m.work.owner] = Nothing]
        /\ inbox' = Tail(inbox)
        /\ refused' = refused \cup {m.work.path}
        /\ acked' = acked \ {m.work.path}
        /\ cut' = IF m.work.op = "init" THEN cut \cup {m.work.path} ELSE cut
        /\ stored' = KeptWhenRefused(m.work)
        /\ UNCHANGED <<phase, cache, agenda, replaying, wire, late, stale, overtaken>>
  /\ UNCHANGED <<realmVars, faults, wiped>>

Deliver ==
  /\ LoopFree
  /\ inbox # <<>>
  /\ DeliverDelta(Head(inbox)) \/ DeliverReply(Head(inbox))

-----------------------------------------------------------------------------
Next ==
  \/ Connect \/ Drop
  \/ ReplayStep \/ ReplayDone
  \/ \E p \in Paths : PutPending(p)
  \/ \E h \in Handlers, p \in Paths : PutOnWire(h, p)
  \/ \E h \in Handlers, d \in Decls : PutDeclaration(h, d)
  \/ \E d \in Decls : PutDeclarationAgain(d)
  \/ \E h \in Handlers, d \in Decls : PropertyRequested(h, d)
  \/ \E h \in Handlers : PutProperty(h) \/ BodyFails(h)
  \/ \E h \in Handlers, p \in Paths : Delete(h, p)
  \/ RealmExecutes \/ RealmRefuses \/ Deliver

\* The event loop turns, the socket delivers, the realm answers commands, and
\* the lifecycle (RealmConnection) keeps reconnecting.
Fairness ==
  /\ WF_vars(Connect)
  /\ WF_vars(ReplayStep) /\ WF_vars(ReplayDone)
  /\ WF_vars(RealmExecutes)
  /\ WF_vars(Deliver)

Spec == Init /\ [][Next]_vars
FairSpec == Spec /\ Fairness

-----------------------------------------------------------------------------
Messages ==
  [kind : {"reply", "delta"},
   work : [op : Commands, path : Paths, owner : Owners],
   ok : BOOLEAN,
   delta : [add : SUBSET Decls, remove : SUBSET Decls]]

Typed ==
  /\ stored \subseteq Paths
  /\ \A p \in stored : Storable(p)
  /\ phase \in {"down", "replaying", "up"}
  /\ cache \subseteq Decls
  /\ agenda \in [nodes : SUBSET Nodes, contexts : SUBSET Contexts,
                 decls : SUBSET Decls]
  /\ replaying \in Work /\ replaying.op # "body"
  /\ handler \in [Handlers -> Work]
  /\ wire \in Seq([op : Commands, path : Paths, owner : Owners])
  /\ inbox \in Seq(Messages)
  /\ declared \subseteq Paths
  /\ value \in [Decls -> {"absent", "empty", "init", "property"}]
  /\ faults \in Nat
  /\ wiped \subseteq Owners
  /\ acked \subseteq Decls
  /\ late \subseteq Paths
  /\ stale \subseteq Decls
  /\ refused \subseteq Paths
  /\ cut \subseteq Decls

TypeOK == Typed /\ overtaken \subseteq Paths

(***************************************************************************)
(* Value-wiper protection (realm.js:4-9, README.md:92-99): however often   *)
(* the session is lost or the gateway restarts, no declare command of a    *)
(* replay ever meets a capability that already holds values.               *)
(***************************************************************************)
ReplayNeverWipes == Replay \notin wiped

(***************************************************************************)
(* A replay command is about something that is still stored, and its       *)
(* parent is already on the realm: no retraction overtakes the replay      *)
(* (realm.js:232, api.js:263) and the levels go out in order.              *)
(***************************************************************************)
ReplayFollowsTree ==
  \A i \in DOMAIN wire :
    wire[i].owner = Replay =>
      /\ wire[i].path \in stored
      /\ wire[i].path \notin Nodes => Parent[wire[i].path] \in declared

(***************************************************************************)
(* With the session up and nothing in flight, whatever is stored is on the *)
(* realm, except what was first stored while the replay was running, what  *)
(* the realm refused since, and a declaration that was made again before   *)
(* the version key of its retracted predecessor had left the cache.        *)
(***************************************************************************)
NothingForgotten ==
  Connected /\ Quiet => stored \subseteq declared \cup late \cup refused \cup stale

(***************************************************************************)
(* The initial values are applied on a fresh declaration (realm.js:222-226,*)
(* openapi.json:3212): with nothing in flight no declaration is left with  *)
(* empty values, whoever declared it, and whether it was skipped or        *)
(* replayed since, except where the values were refused or the session was *)
(* lost between the declare command and the values.                        *)
(***************************************************************************)
InitialValuesKept ==
  Connected /\ Quiet =>
    \A d \in (Decls \cap declared) \ cut : value[d] # "empty"

(***************************************************************************)
(* A path that stays stored ends up on the realm, through any lost         *)
(* sessions, unless it was late, refused or skipped: the app declares once *)
(* and forgets (local-api-v0.1.md:80).                                     *)
(***************************************************************************)
EventuallyDeclared ==
  \A p \in Paths :
    <>[](p \in stored /\ p \notin late \cup refused \cup stale) => <>[](p \in declared)

(***************************************************************************)
(* Nothing is on the realm that the store does not know, no declaration    *)
(* and no value, so nothing survives there that no DELETE and no GET can   *)
(* reach any more (api.js:262-264, 301-304, 332-334, 349-363): whatever    *)
(* the requests, the refusals, the lost sessions and the replays, except   *)
(* where the last write was sent behind another request's DELETE over it,  *)
(* one it had not waited for or one it did not see.                        *)
(***************************************************************************)
OnRealm == declared \cup {d \in Decls : value[d] # "absent"}
OrphansWereOvertaken == OnRealm \subseteq stored \cup overtaken

(***************************************************************************)
(* The same with no exception for requests that overtake each other.       *)
(***************************************************************************)
NoOrphans == OnRealm \subseteq stored

(***************************************************************************)
(* local-api-v0.1.md:80: "replays them on gateway restart and realm        *)
(* reconnect -- the app declares once and forgets".                        *)
(***************************************************************************)
DeclaredAndForgotten == Connected /\ Quiet => stored \subseteq declared

(***************************************************************************)
(* local-api-v0.1.md:36: every operation is idempotent under retry, so a   *)
(* declaration that was answered as `declared' is on the realm.            *)
(***************************************************************************)
AckedIsDeclared == Connected /\ Quiet => acked \subseteq declared \cup late

(***************************************************************************)
(* openapi.json:3212: the initial values are applied on a fresh            *)
(* declaration: with no exception for a session lost in between.           *)
(***************************************************************************)
InitialValuesApplied ==
  Connected /\ Quiet =>
    \A d \in (Decls \cap declared) \ refused : value[d] # "empty"

(***************************************************************************)
(* realm.js:210-211: "existing property values are never wiped": not by    *)
(* the initial values of a declaration either.                             *)
(***************************************************************************)
WritesOutlastInitial ==
  [][\A d \in Decls : value[d] = "property" => value'[d] # "init"]_vars
=============================================================================
