--------------------------- MODULE RealmConnection ---------------------------
(***************************************************************************)
(* The lifecycle of one RealmConnection (src/src/realm.js): a chain of     *)
(* single-use SDK clients, at most one of them current.  connect() is a    *)
(* coroutine per client with three await points; the client's socket       *)
(* events, the snapshot timer, the retry timer and stop() all run between  *)
(* them.  A coroutine of a client that is no longer current is stale: it   *)
(* may still wake up, and must not touch the connection.                   *)
(*                                                                         *)
(* The realm, its socket and the SDK promises are the environment; what    *)
(* goes wrong there is charged to a budget of faults.                      *)
(***************************************************************************)
EXTENDS Naturals

CONSTANTS
  MaxClients,               \* bound: clients ever constructed
  MaxFaults,                \* bound: failures of the realm or the network
  BackoffStart,             \* BACKOFF_START
  BackoffMax,               \* BACKOFF_MAX
  BackoffMaxUnauthorized    \* BACKOFF_MAX_UNAUTHORIZED

ASSUME BoundsAssumption ==
  /\ MaxClients \in Nat \ {0}
  /\ MaxFaults \in Nat

ASSUME BackoffAssumption ==
  /\ BackoffStart \in Nat \ {0}
  /\ BackoffMax \in Nat
  /\ BackoffMaxUnauthorized \in Nat
  /\ BackoffStart <= BackoffMax
  /\ BackoffMax <= BackoffMaxUnauthorized

VARIABLES
  stopped,    \* this._stopped
  state,      \* this.state
  client,     \* this.client: the number of the current client, 0 for null
  made,       \* how many clients were constructed; the last one is `made'
  lastError,  \* this.lastError, by what /401|403/ makes of it
  backoff,    \* this.backoff
  armed,      \* setTimeout(connect) timers that have not fired or been cleared
  delay,      \* the delay of the last one armed
  sock,       \* per client: the life of its socket
  pc,         \* per client: where its connect() coroutine waits
  snap,       \* per client: the snapshot promise
  ups, downs, \* realm.connected and realm.disconnected events emitted
  faults,     \* faults charged so far
  uncapped,   \* history: the next wait if no cap limited it, BackoffStart doubled
              \* by every failed attempt or lost session since the last one up
  climb,      \* history: the same, started at the last ordinary failure from
              \* the wait its cap left
  failed,     \* history: the class of the last failure since a session was up
  errOf       \* history: how each client's own attempt failed

ownVars == <<stopped, state, client, made, lastError, backoff, armed, delay>>
clientVars == <<sock, pc, snap>>
schedule == <<uncapped, climb, failed>>
ghostVars == <<faults, schedule, errOf>>
vars == <<ownVars, clientVars, ups, downs, ghostVars>>

Clients == 1..MaxClients

\* An error is `refused' when its text matches /401|403/.
ErrorClass == {"refused", "other"}
Errors == ErrorClass \cup {"none"}

\* dialing: handshake under way      stalled: it never completes
\* open: the socket is open          mute: open, but no message comes any more
\* failing: an error event was emitted, the close event follows
\* gone: closed or disposed, no event will be emitted any more
Sockets == {"none", "dialing", "stalled", "open", "mute", "failing", "gone"}
Places == {"none", "waitOpen", "waitSnapshot", "registering", "ended"}

Live(c) == sock[c] \notin {"none", "gone"}

\* const stale = () => this.client !== c || this._stopped
StaleIfStopped(c) == stopped                                      \* mutant
NeverStale(c) == FALSE                                            \* mutant
Stale(c) == client # c \/ stopped

MinimumSwapped(a, b) == IF a < b THEN b ELSE a                    \* mutant
Minimum(a, b) == IF a < b THEN a ELSE b

CapsSwapped(err) ==                                               \* mutant
  IF err = "refused" THEN BackoffMax ELSE BackoffMaxUnauthorized
BackoffCap(err) ==
  IF err = "refused" THEN BackoffMaxUnauthorized ELSE BackoffMax

\* Disconnected events after the state is left: one if a session was up.
Disconnects == IF state = "connected" THEN downs + 1 ELSE downs

\* The wait after the next one.
NextBackoff(err) == Minimum(2 * backoff, BackoffCap(err))

Fault ==
  /\ faults < MaxFaults
  /\ faults' = faults + 1

\* History: the failures since the last session.
CountFailure(err) ==
  /\ uncapped' = 2 * uncapped
  /\ climb' = IF err = "refused" THEN 2 * climb
              ELSE Minimum(2 * uncapped, BackoffMax)
  /\ failed' = IF err = "refused" THEN "refused" ELSE "other"

ForgetFailures ==
  /\ uncapped' = BackoffStart
  /\ climb' = BackoffStart
  /\ failed' = "none"

\* History: what went wrong for client c; a refusal is never forgotten.
Record(c, err) ==
  errOf' = [errOf EXCEPT ![c] = IF @ = "refused" THEN @ ELSE err]

-----------------------------------------------------------------------------
(* Building and disposing of clients *)

DisposedNot == sock                                               \* mutant
Disposed == IF client = 0 THEN sock ELSE [sock EXCEPT ![client] = "gone"]

\* connect(), up to its first await, with c the new client.
Connect(c) ==
  /\ state' = "connecting"
  /\ client' = c
  /\ made' = c
  /\ sock' = [sock EXCEPT ![c] = "dialing"]
  /\ pc' = [pc EXCEPT ![c] = "waitOpen"]
  /\ snap' = [snap EXCEPT ![c] = "pending"]

\* The constructor ends in connect(), so a connection starts with a client.
Init ==
  /\ stopped = FALSE
  /\ state = "connecting"
  /\ client = 1
  /\ made = 1
  /\ lastError = "none"
  /\ backoff = BackoffStart
  /\ armed = 0
  /\ delay = 0
  /\ sock = [c \in Clients |-> IF c = 1 THEN "dialing" ELSE "none"]
  /\ pc = [c \in Clients |-> IF c = 1 THEN "waitOpen" ELSE "none"]
  /\ snap = [c \in Clients |-> "pending"]
  /\ ups = 0
  /\ downs = 0
  /\ faults = 0
  /\ uncapped = BackoffStart
  /\ climb = BackoffStart
  /\ failed = "none"
  /\ errOf = [c \in Clients |-> "none"]

\* #onDown, entered with this.lastError = err.  Every caller has just checked
\* that its client is not stale, so _stopped is false throughout.
OnDown(err) ==
  /\ sock' = Disposed
  /\ client' = 0
  /\ downs' = Disconnects
  /\ lastError' = err
  /\ state' = IF err = "refused" THEN "error" ELSE "connecting"
  /\ armed' = armed + 1
  /\ delay' = backoff
  /\ backoff' = NextBackoff(err)
  /\ CountFailure(err)
  /\ UNCHANGED <<stopped, made, ups>>

\* The end of connect(): the session is up and the schedule starts afresh.
SessionUp ==
  /\ state' = "connected"
  /\ backoff' = BackoffStart
  /\ ups' = ups + 1
  /\ ForgetFailures

\* The catch blocks of connect(): lastError is written whether or not the
\* client is stale, everything else only when it is not.
Abandon(c, err) ==
  /\ pc' = [pc EXCEPT ![c] = "ended"]
  /\ IF Stale(c)
     THEN /\ lastError' = err
          /\ UNCHANGED <<stopped, state, client, made, backoff, armed, delay,
                         sock, ups, downs, schedule>>
     ELSE OnDown(err)

-----------------------------------------------------------------------------
(* The socket and the realm behind it *)

SocketOpens(c) ==
  /\ sock[c] = "dialing"
  /\ sock' = [sock EXCEPT ![c] = "open"]
  /\ UNCHANGED <<ownVars, pc, snap, ups, downs, ghostVars>>

\* The handshake hangs, or the realm falls silent: at once, after some
\* messages, in the middle of a registration.
SocketGoesSilent(c) ==
  /\ Fault
  /\ \/ /\ sock[c] = "dialing"
        /\ sock' = [sock EXCEPT ![c] = "stalled"]
     \/ /\ sock[c] \in {"dialing", "open"}
        /\ sock' = [sock EXCEPT ![c] = "mute"]
  /\ UNCHANGED <<ownVars, pc, snap, ups, downs, schedule, errOf>>

\* The first message makes the SDK emit 'open', which settles the snapshot.
FirstMessage(c) ==
  /\ sock[c] = "open"
  /\ snap[c] = "pending"
  /\ snap' = [snap EXCEPT ![c] = "ok"]
  /\ UNCHANGED <<ownVars, sock, pc, ups, downs, ghostVars>>

\* An 'error' event: the handler records its text and the SDK closes the
\* socket, whose close event comes later.
SocketError(c, err) ==
  /\ sock[c] \in {"dialing", "stalled", "open", "mute"}
  /\ Fault
  /\ sock' = [sock EXCEPT ![c] = "failing"]
  /\ lastError' = IF Stale(c) THEN lastError ELSE err
  /\ Record(c, err)
  /\ UNCHANGED <<stopped, state, client, made, backoff, armed, delay, pc, snap,
                 ups, downs, schedule>>

\* The 'close' event.  The handler in connect() runs first and disposes of the
\* client, which removes every listener: whether the snapshot promise's own
\* close handler still runs in that same emit is the emitter's choice.
SocketCloses(c) ==
  /\ \/ /\ sock[c] = "failing"
        /\ UNCHANGED <<faults, errOf>>
     \/ /\ sock[c] \in {"dialing", "stalled", "open", "mute"}
        /\ Fault
        /\ Record(c, "other")
  /\ snap' \in IF snap[c] = "pending"
               THEN {snap, [snap EXCEPT ![c] = IF lastError = "none"
                                               THEN "other" ELSE lastError]}
               ELSE {snap}
  /\ IF Stale(c)
     THEN /\ sock' = [sock EXCEPT ![c] = "gone"]
          /\ UNCHANGED <<ownVars, ups, downs, schedule>>
     ELSE OnDown(lastError)
  /\ UNCHANGED pc

\* The 12 s snapshot timer; it is not cleared when the client is disposed of.
SnapshotNeverTimesOut(c) == FALSE                                 \* mutant
SnapshotTimesOut(c) ==
  /\ snap[c] = "pending"
  /\ sock[c] \in {"stalled", "mute", "failing", "gone"}
  /\ snap' = [snap EXCEPT ![c] = "other"]
  /\ UNCHANGED <<ownVars, sock, pc, ups, downs, ghostVars>>

-----------------------------------------------------------------------------
(* The connect() coroutine of client c *)

\* await c.waitForOpen(8000) polls the socket.
OpenSeen(c) ==
  /\ pc[c] = "waitOpen"
  /\ sock[c] \in {"open", "mute"}
  /\ pc' = [pc EXCEPT ![c] = "waitSnapshot"]
  /\ UNCHANGED <<ownVars, sock, snap, ups, downs, ghostVars>>

OpenTimesOut(c) ==
  /\ pc[c] = "waitOpen"
  /\ sock[c] \in {"stalled", "failing", "gone"}
  /\ Abandon(c, "other")
  /\ Record(c, "other")
  /\ UNCHANGED <<snap, faults>>

\* await snapshot, then the first stale() check and into #register.
SnapshotSeen(c) ==
  /\ pc[c] = "waitSnapshot"
  /\ snap[c] = "ok"
  /\ pc' = [pc EXCEPT ![c] = IF Stale(c) THEN "ended" ELSE "registering"]
  /\ UNCHANGED <<ownVars, sock, snap, ups, downs, ghostVars>>

SnapshotRejects(c) ==
  /\ pc[c] = "waitSnapshot"
  /\ snap[c] \in ErrorClass
  /\ Abandon(c, snap[c])
  /\ Record(c, "other")
  /\ UNCHANGED <<snap, faults>>

\* await this.#register(c), the second stale() check, and the session is up.
\* The commands have no timeout of the gateway's: a silent realm answers none.
Registered(c) ==
  /\ pc[c] = "registering"
  /\ sock[c] # "mute"
  /\ pc' = [pc EXCEPT ![c] = "ended"]
  /\ IF Stale(c)
     THEN UNCHANGED <<state, backoff, ups, schedule>>
     ELSE SessionUp
  /\ UNCHANGED <<stopped, client, made, lastError, armed, delay, sock, snap,
                 downs, faults, errOf>>

\* A command of the replay is refused, or is sent on a client that is gone.
RegisterRejects(c, err) ==
  /\ pc[c] = "registering"
  /\ \/ sock[c] = "gone" /\ UNCHANGED faults
     \/ sock[c] # "gone" /\ Fault
  /\ Abandon(c, err)
  /\ Record(c, err)
  /\ UNCHANGED snap

-----------------------------------------------------------------------------
(* Timers and the owner *)

RetryFires ==
  /\ armed > 0
  /\ made < MaxClients
  /\ armed' = armed - 1
  /\ IF stopped
     THEN UNCHANGED <<state, client, made, clientVars>>
     ELSE Connect(made + 1)
  /\ UNCHANGED <<stopped, lastError, backoff, delay, ups, downs, ghostVars>>

\* stop(): clearTimeout covers only the timer armed last.
Stop ==
  /\ ~stopped
  /\ stopped' = TRUE
  /\ armed' = IF armed > 0 THEN armed - 1 ELSE 0
  /\ sock' = Disposed
  /\ client' = 0
  /\ downs' = Disconnects
  /\ state' = "detached"
  /\ UNCHANGED <<made, lastError, backoff, delay, pc, snap, ups, ghostVars>>

Socket(c) ==
  \/ SocketOpens(c)
  \/ FirstMessage(c)
  \/ SnapshotTimesOut(c)
  \/ sock[c] = "failing" /\ SocketCloses(c)

Coroutine(c) ==
  \/ OpenSeen(c) \/ OpenTimesOut(c)
  \/ SnapshotSeen(c) \/ SnapshotRejects(c)
  \/ Registered(c)
  \/ \E err \in ErrorClass : RegisterRejects(c, err)

Next ==
  \/ \E c \in Clients :
       \/ SocketOpens(c) \/ SocketGoesSilent(c) \/ FirstMessage(c)
       \/ \E err \in ErrorClass : SocketError(c, err)
       \/ SocketCloses(c) \/ SnapshotTimesOut(c)
       \/ OpenSeen(c) \/ OpenTimesOut(c)
       \/ SnapshotSeen(c) \/ SnapshotRejects(c)
       \/ Registered(c)
       \/ \E err \in ErrorClass : RegisterRejects(c, err)
  \/ RetryFires
  \/ Stop

\* Timers fire, a socket that is dialing opens and then speaks, a closing one
\* closes, and a promise that is ready wakes its coroutine.  Nothing is assumed
\* of faults or of stop().
Fairness ==
  /\ \A c \in Clients : WF_vars(Socket(c)) /\ WF_vars(Coroutine(c))
  /\ WF_vars(RetryFires)

Spec == Init /\ [][Next]_vars
FairSpec == Spec /\ Fairness

-----------------------------------------------------------------------------
TypeOK ==
  /\ stopped \in BOOLEAN
  /\ state \in {"connecting", "connected", "error", "detached"}
  /\ client \in 0..MaxClients
  /\ made \in Clients
  /\ lastError \in Errors
  /\ backoff \in BackoffStart..BackoffMaxUnauthorized
  /\ armed \in Nat
  /\ delay \in Nat
  /\ sock \in [Clients -> Sockets]
  /\ pc \in [Clients -> Places]
  /\ snap \in [Clients -> {"pending", "ok"} \cup Errors]
  /\ ups \in Nat
  /\ downs \in Nat
  /\ faults \in Nat
  /\ uncapped \in Nat
  /\ climb \in Nat
  /\ failed \in Errors
  /\ errOf \in [Clients -> Errors]

(***************************************************************************)
(* A connection that is not stopped always has exactly one thing that will *)
(* carry it on: one armed retry timer or one current client, never both,   *)
(* never two timers (two would end in two chains of clients), never none   *)
(* (the realm would be silently given up).  A stopped one has nothing.     *)
(***************************************************************************)
SingleLifeline ==
  armed + (IF client = 0 THEN 0 ELSE 1) = IF stopped THEN 0 ELSE 1

(***************************************************************************)
(* No zombie clients (realm.js:13): the only client whose socket can still *)
(* produce events is the current one, and the current one is either still  *)
(* inside connect() or is the session.                                     *)
(***************************************************************************)
NoZombieClient ==
  /\ \A c \in Clients : Live(c) => c = client
  /\ client # 0 => /\ Live(client)
                   /\ state = "connected" <=> pc[client] = "ended"

(***************************************************************************)
(* Not a five-second loop, and prompt after a session (realm.js:15,        *)
(* 111-112, 151-157): the next wait is BACKOFF_START after a session and   *)
(* doubles with every failure since.  An ordinary failure cuts it at       *)
(* BACKOFF_MAX, whatever refusals came before; a refusal lets it climb,    *)
(* from what the last ordinary failure left, up to the five minutes.  (The *)
(* timer armed at a failure still waits what the one before it earned.)    *)
(***************************************************************************)
BacksOff ==
  /\ failed = "none" => backoff = BackoffStart
  /\ failed = "other" => backoff = Minimum(uncapped, BackoffMax)
  /\ failed = "refused" => backoff = Minimum(climb, BackoffMaxUnauthorized)

\* What the connection shows of its session.
phase == CASE state = "connected" -> "up"
           [] state = "detached" -> "detached"
           [] OTHER -> "down"

Session == INSTANCE RealmSession WITH phase <- phase, ups <- ups, downs <- downs

(***************************************************************************)
(* The detailed connection implements the session it promises: connected   *)
(* and disconnected events alternate, and a detached realm stays detached  *)
(* and silent even though coroutines of its last client still wake up.     *)
(***************************************************************************)
ImplementsSession == Session!Safety

\* connected / disconnected events balance (realm.js:113, 127-131, 142-147).
BalancedEvents == Session!BalancedEvents

(***************************************************************************)
(* Once the realm stops failing, the connection comes up and stays up,     *)
(* whatever the failures left behind (a mute realm, a stalled handshake, a *)
(* stale coroutine), unless it is stopped.  One thing can hold it up for   *)
(* ever, and nothing else can: a command of the registration that a realm  *)
(* fallen silent does not answer (realm.js:96-97).                         *)
(***************************************************************************)
AwaitsSilentRealm ==
  client # 0 /\ pc[client] = "registering" /\ sock[client] = "mute"
Recovers == Session!Settles \/ <>[]AwaitsSilentRealm

(***************************************************************************)
(* README.md:102 and realm.js:15: the `error' state with its five-minute   *)
(* cap is for 401 and 403.  Here for the loss of an established session:   *)
(* it ends in `error' only if that very client met such an answer.         *)
(***************************************************************************)
ErrorMeansRefused ==
  state = "error" /\ ups > 0 /\ uncapped = 2 * BackoffStart => errOf[made] = "refused"
=============================================================================
