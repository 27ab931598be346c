------------------------ MODULE RealmConnectionProofs ------------------------
(***************************************************************************)
(* Proofs about RealmConnection, for any number of clients, any number of  *)
(* faults and any backoff constants.  The inductive invariant is Inv: the  *)
(* single lifeline and the absence of zombie clients need each other, and  *)
(* both need to know what `stopped' and a missing client say of the state. *)
(***************************************************************************)
EXTENDS RealmConnection, TLAPS

\* A stopped connection is the detached one, and a session needs a client.
StateAgrees ==
  /\ stopped <=> state = "detached"
  /\ client = 0 => state # "connected"

Inv ==
  /\ TypeOK
  /\ SingleLifeline
  /\ NoZombieClient
  /\ StateAgrees
  /\ BalancedEvents

-----------------------------------------------------------------------------
(* Types *)

\* The backoff schedule stays between its start and its largest cap.
LEMMA BackoffInRange ==
  ASSUME TypeOK, NEW err \in Errors
  PROVE  NextBackoff(err) \in BackoffStart..BackoffMaxUnauthorized
BY BackoffAssumption
   DEF TypeOK, NextBackoff, Minimum, BackoffCap

\* Losing the current client keeps every field in its type.
LEMMA OnDownTypes ==
  ASSUME TypeOK, NEW err \in Errors, OnDown(err)
  PROVE  /\ stopped' \in BOOLEAN
         /\ state' \in {"connecting", "connected", "error", "detached"}
         /\ client' \in 0..MaxClients
         /\ made' \in Clients
         /\ lastError' \in Errors
         /\ backoff' \in BackoffStart..BackoffMaxUnauthorized
         /\ armed' \in Nat
         /\ delay' \in Nat
         /\ sock' \in [Clients -> Sockets]
         /\ ups' \in Nat
         /\ downs' \in Nat
         /\ uncapped' \in Nat
         /\ climb' \in Nat
         /\ failed' \in Errors
<1>1. NextBackoff(err) \in BackoffStart..BackoffMaxUnauthorized
  BY BackoffInRange
<1>2. sock' \in [Clients -> Sockets]
  BY DEF TypeOK, OnDown, Disposed, Sockets
<1>3. downs' \in Nat
  BY DEF TypeOK, OnDown, Disconnects
<1>4. delay' \in Nat
  BY BackoffAssumption DEF TypeOK, OnDown
<1>5. uncapped' \in Nat /\ climb' \in Nat /\ failed' \in Errors
  BY BackoffAssumption
     DEF TypeOK, OnDown, CountFailure, Minimum, Errors, ErrorClass
<1> QED BY <1>1, <1>2, <1>3, <1>4, <1>5, BoundsAssumption
        DEF TypeOK, OnDown, Clients

\* So does either way out of a catch block of connect().
LEMMA AbandonTypes ==
  ASSUME TypeOK, NEW c \in Clients, NEW err \in ErrorClass, Abandon(c, err),
         Record(c, err) \/ Record(c, "other"), snap' = snap, faults' \in Nat
  PROVE  TypeOK'
<1>1. err \in Errors
  BY DEF Errors
<1>2. pc' \in [Clients -> Places]
  BY DEF TypeOK, Abandon, Places
<1>3. errOf' \in [Clients -> Errors]
  BY <1>1 DEF TypeOK, Record, Errors, ErrorClass
<1>4. CASE Stale(c)
  BY <1>1, <1>2, <1>3, <1>4 DEF TypeOK, Abandon, schedule
<1>5. CASE ~Stale(c)
  <2>1. OnDown(err)
    BY <1>5 DEF Abandon
  <2> QED BY <1>1, <1>2, <1>3, <2>1, OnDownTypes DEF TypeOK
<1> QED BY <1>4, <1>5

LEMMA TypesPreserved == TypeOK /\ [Next]_vars => TypeOK'
<1> SUFFICES ASSUME TypeOK, [Next]_vars PROVE TypeOK'
  OBVIOUS
<1> USE BoundsAssumption, BackoffAssumption
<1>1. ASSUME NEW c \in Clients, SocketOpens(c) PROVE TypeOK'
  BY <1>1 DEF TypeOK, SocketOpens, ownVars, ghostVars, schedule, Sockets
<1>2. ASSUME NEW c \in Clients, SocketGoesSilent(c) PROVE TypeOK'
  BY <1>2 DEF TypeOK, SocketGoesSilent, Fault, ownVars, schedule, Sockets
<1>3. ASSUME NEW c \in Clients, FirstMessage(c) PROVE TypeOK'
  BY <1>3 DEF TypeOK, FirstMessage, ownVars, ghostVars, schedule
<1>4. ASSUME NEW c \in Clients, NEW err \in ErrorClass, SocketError(c, err)
      PROVE  TypeOK'
  BY <1>4 DEF TypeOK, SocketError, Fault, Record, schedule, Sockets, Errors
<1>5. ASSUME NEW c \in Clients, SocketCloses(c) PROVE TypeOK'
  <2>1. /\ errOf' \in [Clients -> Errors]
        /\ faults' \in Nat
    BY <1>5 DEF TypeOK, SocketCloses, Fault, Record, Errors, ErrorClass
  <2>2. snap' \in [Clients -> {"pending", "ok"} \cup Errors]
    BY <1>5 DEF TypeOK, SocketCloses, Errors, ErrorClass
  <2>3. CASE Stale(c)
    BY <1>5, <2>1, <2>2, <2>3
       DEF TypeOK, SocketCloses, ownVars, schedule, Sockets
  <2>4. CASE ~Stale(c)
    <3>1. OnDown(lastError) /\ UNCHANGED pc
      BY <1>5, <2>4 DEF SocketCloses
    <3>2. lastError \in Errors
      BY DEF TypeOK
    <3> QED BY <2>1, <2>2, <3>1, <3>2, OnDownTypes DEF TypeOK
  <2> QED BY <2>3, <2>4
<1>6. ASSUME NEW c \in Clients, SnapshotTimesOut(c) PROVE TypeOK'
  BY <1>6 DEF TypeOK, SnapshotTimesOut, ownVars, ghostVars, schedule, Errors, ErrorClass
<1>7. ASSUME NEW c \in Clients, OpenSeen(c) PROVE TypeOK'
  BY <1>7 DEF TypeOK, OpenSeen, ownVars, ghostVars, schedule, Places
<1>8. ASSUME NEW c \in Clients, OpenTimesOut(c) PROVE TypeOK'
  BY <1>8, AbandonTypes DEF TypeOK, OpenTimesOut, ErrorClass
<1>9. ASSUME NEW c \in Clients, SnapshotSeen(c) PROVE TypeOK'
  BY <1>9 DEF TypeOK, SnapshotSeen, ownVars, ghostVars, schedule, Places
<1>10. ASSUME NEW c \in Clients, SnapshotRejects(c) PROVE TypeOK'
  BY <1>10, AbandonTypes DEF TypeOK, SnapshotRejects
<1>11. ASSUME NEW c \in Clients, Registered(c) PROVE TypeOK'
  <2>1. uncapped' \in Nat /\ climb' \in Nat /\ failed' \in Errors
    BY <1>11 DEF TypeOK, Registered, SessionUp, ForgetFailures, schedule, Errors
  <2> QED BY <1>11, <2>1 DEF TypeOK, Registered, SessionUp, Places
<1>12. ASSUME NEW c \in Clients, NEW err \in ErrorClass, RegisterRejects(c, err)
       PROVE  TypeOK'
  <2>1. faults' \in Nat
    BY <1>12 DEF TypeOK, RegisterRejects, Fault
  <2> QED BY <1>12, <2>1, AbandonTypes DEF RegisterRejects
<1>13. CASE RetryFires
  <2>1. CASE stopped
    BY <1>13, <2>1 DEF TypeOK, RetryFires, clientVars, ghostVars, schedule
  <2>2. CASE ~stopped
    <3> DEFINE d == made + 1
    <3>1. d \in Clients /\ d \in 0..MaxClients
      BY <1>13 DEF TypeOK, RetryFires, Clients
    <3>2. Connect(d) /\ armed' \in Nat
      BY <1>13, <2>2 DEF TypeOK, RetryFires
    <3>3. /\ sock' \in [Clients -> Sockets]
          /\ pc' \in [Clients -> Places]
          /\ snap' \in [Clients -> {"pending", "ok"} \cup Errors]
      BY <3>1, <3>2 DEF TypeOK, Connect, Sockets, Places
    <3>4. UNCHANGED <<stopped, lastError, backoff, delay, ups, downs, faults,
                      uncapped, climb, failed, errOf>>
      BY <1>13 DEF RetryFires, ghostVars, schedule
    <3>5. made' = d /\ client' = d /\ state' = "connecting"
      BY <3>2 DEF Connect
    <3> HIDE DEF d
    <3> QED BY <3>1, <3>2, <3>3, <3>4, <3>5 DEF TypeOK
  <2> QED BY <2>1, <2>2
<1>14. CASE Stop
  <2>1. sock' \in [Clients -> Sockets]
    BY <1>14 DEF TypeOK, Stop, Disposed, Sockets
  <2>2. downs' \in Nat /\ armed' \in Nat
    BY <1>14 DEF TypeOK, Stop, Disconnects
  <2>3. client' \in 0..MaxClients
    BY <1>14 DEF Stop
  <2>4. stopped' \in BOOLEAN /\ state' \in {"detached"}
    BY <1>14 DEF Stop
  <2>5. UNCHANGED <<made, lastError, backoff, delay, pc, snap, ups, faults,
                    uncapped, climb, failed, errOf>>
    BY <1>14 DEF Stop, ghostVars, schedule
  <2> QED BY <2>1, <2>2, <2>3, <2>4, <2>5 DEF TypeOK
<1>15. CASE UNCHANGED vars
  BY <1>15 DEF TypeOK, vars, ownVars, clientVars, ghostVars, schedule
<1> QED BY <1>1, <1>2, <1>3, <1>4, <1>5, <1>6, <1>7, <1>8, <1>9, <1>10, <1>11,
           <1>12, <1>13, <1>14, <1>15 DEF Next

LEMMA InitTypes == Init => TypeOK
<1> SUFFICES ASSUME Init PROVE TypeOK
  OBVIOUS
<1>1. /\ 1 \in Clients /\ client \in 0..MaxClients /\ made \in Clients
      /\ backoff \in BackoffStart..BackoffMaxUnauthorized
      /\ armed \in Nat /\ delay \in Nat
      /\ ups \in Nat /\ downs \in Nat /\ faults \in Nat
      /\ uncapped \in Nat /\ climb \in Nat
  BY BoundsAssumption, BackoffAssumption DEF Init, Clients
<1>2. /\ sock \in [Clients -> Sockets]
      /\ pc \in [Clients -> Places]
      /\ snap \in [Clients -> {"pending", "ok"} \cup Errors]
      /\ errOf \in [Clients -> Errors]
      /\ lastError \in Errors /\ failed \in Errors
  BY DEF Init, Sockets, Places, Errors
<1>3. stopped \in BOOLEAN /\ state \in {"connecting"}
  BY DEF Init
<1> QED BY <1>1, <1>2, <1>3 DEF TypeOK

\* Every field keeps its type; in particular the backoff never leaves
\* BackoffStart..BackoffMaxUnauthorized.
THEOREM TypeCorrect == Spec => []TypeOK
BY InitTypes, TypesPreserved, PTL DEF Spec

-----------------------------------------------------------------------------
(* The schedule *)

\* What the three cases of BacksOff have in common: the next wait is the climb
\* cut at the larger cap, and the climb never falls behind the ordinary cap.
Schedule ==
  /\ backoff = Minimum(climb, BackoffMaxUnauthorized)
  /\ climb <= uncapped
  /\ Minimum(uncapped, BackoffMax) <= climb
  /\ failed = "none" => climb = BackoffStart
  /\ failed = "other" => climb = Minimum(uncapped, BackoffMax)

LEMMA ScheduleSuffices == TypeOK /\ Schedule => BacksOff
BY BackoffAssumption DEF TypeOK, Schedule, BacksOff, Minimum

\* A failure doubles the wait, up to the cap of its own class.
LEMMA OnDownKeepsSchedule ==
  ASSUME TypeOK, Schedule, NEW err, OnDown(err)
  PROVE  Schedule'
<1>1. uncapped \in Nat /\ climb \in Nat /\ backoff \in Nat
  BY BackoffAssumption DEF TypeOK
<1>2. uncapped' = 2 * uncapped /\ backoff' = Minimum(2 * backoff, BackoffCap(err))
  BY DEF OnDown, CountFailure, NextBackoff
<1>3. CASE err = "refused"
  <2>1. /\ climb' = 2 * climb /\ failed' = "refused"
        /\ BackoffCap(err) = BackoffMaxUnauthorized
    BY <1>3 DEF OnDown, CountFailure, BackoffCap
  <2> QED BY <1>1, <1>2, <2>1, BackoffAssumption DEF Schedule, Minimum
<1>4. CASE err # "refused"
  <2>1. /\ climb' = Minimum(2 * uncapped, BackoffMax) /\ failed' = "other"
        /\ BackoffCap(err) = BackoffMax
    BY <1>4 DEF OnDown, CountFailure, BackoffCap
  <2> QED BY <1>1, <1>2, <2>1, BackoffAssumption DEF Schedule, Minimum
<1> QED BY <1>3, <1>4

LEMMA SchedulePreserved == TypeOK /\ Schedule /\ [Next]_vars => Schedule'
<1> SUFFICES ASSUME TypeOK, Schedule, [Next]_vars PROVE Schedule'
  OBVIOUS
<1>1. ASSUME UNCHANGED <<backoff, schedule>> PROVE Schedule'
  BY <1>1 DEF Schedule, schedule
<1>2. ASSUME NEW c \in Clients, NEW err, Abandon(c, err) PROVE Schedule'
  BY <1>1, <1>2, OnDownKeepsSchedule DEF Abandon
<1>3. ASSUME NEW c \in Clients, NEW err,
             \/ OpenTimesOut(c) \/ SnapshotRejects(c) \/ RegisterRejects(c, err)
      PROVE  Schedule'
  BY <1>2, <1>3 DEF OpenTimesOut, SnapshotRejects, RegisterRejects
<1>4. ASSUME NEW c \in Clients, SocketCloses(c) PROVE Schedule'
  BY <1>1, <1>4, OnDownKeepsSchedule DEF SocketCloses, ownVars
<1>5. ASSUME NEW c \in Clients, Registered(c) PROVE Schedule'
  <2>1. CASE Stale(c)
    BY <1>1, <1>5, <2>1 DEF Registered
  <2>2. CASE ~Stale(c)
    <3>1. /\ backoff' = BackoffStart /\ uncapped' = BackoffStart
          /\ climb' = BackoffStart /\ failed' = "none"
      BY <1>5, <2>2 DEF Registered, SessionUp, ForgetFailures
    <3> QED BY <3>1, BackoffAssumption DEF Schedule, Minimum
  <2> QED BY <2>1, <2>2
<1>6. ASSUME NEW c \in Clients, NEW err,
             \/ SocketOpens(c) \/ SocketGoesSilent(c) \/ FirstMessage(c)
             \/ SocketError(c, err) \/ SnapshotTimesOut(c)
             \/ OpenSeen(c) \/ SnapshotSeen(c)
      PROVE  Schedule'
  BY <1>1, <1>6
     DEF SocketOpens, SocketGoesSilent, FirstMessage, SocketError,
         SnapshotTimesOut, OpenSeen, SnapshotSeen, ownVars, ghostVars
<1>7. CASE RetryFires \/ Stop
  BY <1>1, <1>7 DEF RetryFires, Stop, ghostVars
<1>8. CASE UNCHANGED vars
  BY <1>1, <1>8 DEF vars, ownVars, ghostVars
<1> QED BY <1>3, <1>4, <1>5, <1>6, <1>7, <1>8 DEF Next

\* Whatever mixture of errors the attempts since the last session met, every
\* one of them has doubled the wait, up to the cap of its own class, and a
\* session resets it (realm.js:111-112, 151-157).
THEOREM ScheduleHolds == Spec => []BacksOff
<1>1. Init => Schedule
  BY BackoffAssumption DEF Init, Schedule, Minimum
<1> QED BY <1>1, InitTypes, TypesPreserved, SchedulePreserved, ScheduleSuffices,
           PTL DEF Spec

-----------------------------------------------------------------------------
(* The lifeline *)

\* A client that is not stale is the current one.
LEMMA NotStale ==
  ASSUME Inv, NEW c \in Clients, ~Stale(c)
  PROVE  client = c /\ c # 0 /\ ~stopped /\ armed = 0
BY BoundsAssumption DEF Inv, TypeOK, Stale, SingleLifeline, Clients

LEMMA OnDownKeepsInv ==
  ASSUME Inv, NEW c \in Clients, ~Stale(c), NEW err, OnDown(err)
  PROVE  /\ SingleLifeline'
         /\ NoZombieClient'
         /\ StateAgrees'
         /\ BalancedEvents'
<1>1. client = c /\ c # 0 /\ ~stopped /\ armed = 0
  BY NotStale
<1>2. SingleLifeline'
  BY <1>1 DEF OnDown, SingleLifeline
<1>3. NoZombieClient'
  BY <1>1 DEF OnDown, NoZombieClient, Live, Disposed, Inv, TypeOK
<1>4. StateAgrees'
  BY <1>1 DEF OnDown, StateAgrees
<1>5. BalancedEvents'
  BY <1>1 DEF OnDown, Disconnects, BalancedEvents, Session!BalancedEvents, phase,
              Inv, TypeOK, StateAgrees
<1> QED BY <1>2, <1>3, <1>4, <1>5

\* A stale coroutine that ends in a catch block changes nothing that matters.
LEMMA AbandonKeepsInv ==
  ASSUME Inv, NEW c \in Clients, NEW err, Abandon(c, err)
  PROVE  /\ SingleLifeline'
         /\ NoZombieClient'
         /\ StateAgrees'
         /\ BalancedEvents'
<1>1. CASE Stale(c)
  <2>1. /\ UNCHANGED <<stopped, state, client, armed, sock, ups, downs>>
        /\ pc' = [pc EXCEPT ![c] = "ended"]
    BY <1>1 DEF Abandon
  <2>2. client # 0 => client # c
    BY <1>1 DEF Stale, Inv, SingleLifeline, TypeOK
  <2> QED BY <2>1, <2>2
          DEF Inv, TypeOK, SingleLifeline, NoZombieClient, Live, StateAgrees,
              BalancedEvents, Session!BalancedEvents, phase
<1>2. CASE ~Stale(c)
  BY <1>2, OnDownKeepsInv DEF Abandon
<1> QED BY <1>1, <1>2

LEMMA InvPreserved == Inv /\ [Next]_vars => Inv'
<1> SUFFICES ASSUME Inv, [Next]_vars
             PROVE  /\ SingleLifeline'
                    /\ NoZombieClient'
                    /\ StateAgrees'
                    /\ BalancedEvents'
  BY TypesPreserved DEF Inv
<1> DEFINE Goal == SingleLifeline' /\ NoZombieClient' /\ StateAgrees' /\ BalancedEvents'
<1> USE BoundsAssumption
    DEF SingleLifeline, NoZombieClient, StateAgrees, BalancedEvents,
        Session!BalancedEvents, phase, Live
<1>1. ASSUME NEW c \in Clients, SocketOpens(c) PROVE Goal
  BY <1>1 DEF Inv, TypeOK, SocketOpens, ownVars
<1>2. ASSUME NEW c \in Clients, SocketGoesSilent(c) PROVE Goal
  BY <1>2 DEF Inv, TypeOK, SocketGoesSilent, ownVars
<1>3. ASSUME NEW c \in Clients, FirstMessage(c) PROVE Goal
  BY <1>3 DEF Inv, TypeOK, FirstMessage, ownVars
<1>4. ASSUME NEW c \in Clients, NEW err \in ErrorClass, SocketError(c, err)
      PROVE  Goal
  BY <1>4 DEF Inv, TypeOK, SocketError
<1>5. ASSUME NEW c \in Clients, SocketCloses(c) PROVE Goal
  <2>1. Live(c) /\ client = c
    BY <1>5 DEF Inv, TypeOK, SocketCloses
  <2>2. ~Stale(c)
    BY <2>1 DEF Inv, TypeOK, Stale, Clients
  <2>3. OnDown(lastError)
    BY <1>5, <2>2 DEF SocketCloses
  <2> QED BY <2>2, <2>3, OnDownKeepsInv
<1>6. ASSUME NEW c \in Clients, SnapshotTimesOut(c) PROVE Goal
  BY <1>6 DEF Inv, TypeOK, SnapshotTimesOut, ownVars
<1>7. ASSUME NEW c \in Clients, OpenSeen(c) PROVE Goal
  BY <1>7 DEF Inv, TypeOK, OpenSeen, ownVars
<1>8. ASSUME NEW c \in Clients, OpenTimesOut(c) PROVE Goal
  BY <1>8, AbandonKeepsInv DEF OpenTimesOut
<1>9. ASSUME NEW c \in Clients, SnapshotSeen(c) PROVE Goal
  <2>1. UNCHANGED <<stopped, state, client, armed, sock, ups, downs>>
    BY <1>9 DEF SnapshotSeen, ownVars
  <2>2. client = c => pc[c] # "ended" /\ pc'[c] # "ended"
    BY <1>9 DEF SnapshotSeen, Inv, TypeOK, Stale, Clients
  <2>3. \A d \in Clients \ {c} : pc'[d] = pc[d]
    BY <1>9 DEF SnapshotSeen, Inv, TypeOK
  <2> QED BY <2>1, <2>2, <2>3 DEF Inv, TypeOK, Clients
<1>10. ASSUME NEW c \in Clients, SnapshotRejects(c) PROVE Goal
  BY <1>10, AbandonKeepsInv DEF SnapshotRejects
<1>11. ASSUME NEW c \in Clients, Registered(c) PROVE Goal
  <2>1. CASE Stale(c)
    <3>1. client # 0 => client # c
      BY <2>1 DEF Stale, Inv, TypeOK
    <3> QED BY <1>11, <2>1, <3>1 DEF Registered, Inv, TypeOK
  <2>2. CASE ~Stale(c)
    <3>1. client = c /\ c # 0 /\ ~stopped /\ armed = 0
      BY <2>2, NotStale
    <3>2. state # "connected" /\ state # "detached"
      BY <1>11, <3>1 DEF Registered, Inv
    <3> QED BY <1>11, <2>2, <3>1, <3>2 DEF Registered, SessionUp, Inv, TypeOK
  <2> QED BY <2>1, <2>2
<1>12. ASSUME NEW c \in Clients, NEW err \in ErrorClass, RegisterRejects(c, err)
       PROVE  Goal
  BY <1>12, AbandonKeepsInv DEF RegisterRejects
<1>13. CASE RetryFires
  <2>1. ~stopped /\ client = 0 /\ armed = 1 /\ state \notin {"connected", "detached"}
    BY <1>13 DEF RetryFires, Inv, TypeOK
  <2> DEFINE d == made + 1
  <2>2. d \in Clients /\ d # 0
    BY <1>13 DEF RetryFires, Inv, TypeOK, Clients
  <2>3. Connect(d) /\ armed' = 0 /\ UNCHANGED <<stopped, ups, downs>>
    BY <1>13, <2>1 DEF RetryFires
  <2>5. state' = "connecting" /\ client' = d
    BY <2>3 DEF Connect
  <2>6. /\ sock' = [sock EXCEPT ![d] = "dialing"]
        /\ pc' = [pc EXCEPT ![d] = "waitOpen"]
    BY <2>3 DEF Connect
  <2> HIDE DEF d
  <2>7. \A c \in Clients : sock[c] \in {"none", "gone"}
    BY <2>1 DEF Inv, TypeOK, Clients
  <2>4. /\ \A c \in Clients : sock'[c] \notin {"none", "gone"} => c = d
        /\ sock'[d] = "dialing"
        /\ pc'[d] = "waitOpen"
    BY <2>2, <2>6, <2>7 DEF Inv, TypeOK
  <2> QED BY <2>1, <2>2, <2>3, <2>4, <2>5 DEF Inv, TypeOK
<1>14. CASE Stop
  BY <1>14 DEF Stop, Disposed, Disconnects, Inv, TypeOK
<1>15. CASE UNCHANGED vars
  BY <1>15 DEF vars, ownVars, clientVars, Inv
<1> QED BY <1>1, <1>2, <1>3, <1>4, <1>5, <1>6, <1>7, <1>8, <1>9, <1>10, <1>11,
           <1>12, <1>13, <1>14, <1>15 DEF Next

LEMMA InitInv == Init => Inv
<1> SUFFICES ASSUME Init PROVE SingleLifeline /\ NoZombieClient /\ StateAgrees
                                /\ BalancedEvents
  BY InitTypes DEF Inv
<1> QED BY BoundsAssumption
        DEF Init, SingleLifeline, NoZombieClient, StateAgrees, BalancedEvents,
            Session!BalancedEvents, phase, Live, Clients

LEMMA Invariance == Spec => []Inv
BY InitInv, InvPreserved, PTL DEF Spec

\* Whatever fails and however late a coroutine wakes up, a connection that is
\* not stopped has exactly one retry timer or one client to carry it on.
THEOREM OneLifeline == Spec => []SingleLifeline
BY Invariance, PTL DEF Inv

\* No client but the current one can ever produce another event.
THEOREM NoZombies == Spec => []NoZombieClient
BY Invariance, PTL DEF Inv

\* Every realm.connected is matched by one realm.disconnected.
THEOREM EventsBalance == Spec => []BalancedEvents
BY Invariance, PTL DEF Inv

-----------------------------------------------------------------------------
(* Refinement *)

LEMMA StepRefines ==
  ASSUME Inv, Inv', [Next]_vars
  PROVE  [Session!Next]_<<phase, ups, downs>>
<1> DEFINE Maps == [Session!Next]_<<phase, ups, downs>>
<1> USE DEF phase, Session!Next, Session!ComeUp, Session!GoDown, Session!Detach
<1>1. ASSUME UNCHANGED <<state, ups, downs>> PROVE Maps
  BY <1>1
<1>2. ASSUME NEW c \in Clients, ~Stale(c), NEW err, OnDown(err) PROVE Maps
  <2>1. ~stopped /\ state # "detached"
    BY <1>2, NotStale DEF Inv, StateAgrees
  <2>2. /\ state' \in {"error", "connecting"}
        /\ downs' = IF state = "connected" THEN downs + 1 ELSE downs
        /\ UNCHANGED ups
    BY <1>2 DEF OnDown, Disconnects
  <2> QED BY <2>1, <2>2
<1>3. ASSUME NEW c \in Clients, NEW err, Abandon(c, err) PROVE Maps
  <2>1. CASE Stale(c)
    BY <1>1, <1>3, <2>1 DEF Abandon
  <2>2. CASE ~Stale(c)
    BY <1>2, <1>3, <2>2 DEF Abandon
  <2> QED BY <2>1, <2>2
<1>4. ASSUME NEW c \in Clients, Registered(c) PROVE Maps
  <2>1. CASE Stale(c)
    BY <1>1, <1>4, <2>1 DEF Registered
  <2>2. CASE ~Stale(c)
    <3>1. client = c /\ c # 0 /\ ~stopped
      BY <2>2, NotStale
    <3>2. state # "connected" /\ state # "detached"
      BY <1>4, <3>1 DEF Registered, Inv, NoZombieClient, StateAgrees
    <3>3. state' = "connected" /\ ups' = ups + 1 /\ UNCHANGED downs
      BY <1>4, <2>2 DEF Registered, SessionUp
    <3> QED BY <3>2, <3>3
  <2> QED BY <2>1, <2>2
<1>5. CASE RetryFires
  <2>1. client = 0 /\ ~stopped /\ state \notin {"connected", "detached"}
    BY <1>5 DEF RetryFires, Inv, TypeOK, SingleLifeline, StateAgrees
  <2>2. state' = "connecting" /\ UNCHANGED <<ups, downs>>
    BY <1>5, <2>1 DEF RetryFires, Connect
  <2> QED BY <2>1, <2>2
<1>6. CASE Stop
  <2>1. /\ state # "detached" /\ state' = "detached"
        /\ downs' = IF state = "connected" THEN downs + 1 ELSE downs
        /\ UNCHANGED ups
    BY <1>6 DEF Stop, Disconnects, Inv, StateAgrees
  <2> QED BY <2>1
<1>7. ASSUME NEW c \in Clients, SocketCloses(c) PROVE Maps
  <2>1. CASE Stale(c)
    BY <1>1, <1>7, <2>1 DEF SocketCloses, ownVars
  <2>2. CASE ~Stale(c)
    BY <1>2, <1>7, <2>2 DEF SocketCloses
  <2> QED BY <2>1, <2>2
<1>8. ASSUME NEW c \in Clients,
             \/ SocketOpens(c) \/ SocketGoesSilent(c) \/ FirstMessage(c)
             \/ SnapshotTimesOut(c) \/ OpenSeen(c) \/ SnapshotSeen(c)
      PROVE  Maps
  BY <1>1, <1>8
     DEF SocketOpens, SocketGoesSilent, FirstMessage, SnapshotTimesOut, OpenSeen,
         SnapshotSeen, ownVars
<1>9. ASSUME NEW c \in Clients, NEW err, SocketError(c, err) PROVE Maps
  BY <1>1, <1>9 DEF SocketError
<1>10. ASSUME NEW c \in Clients, NEW err,
              \/ OpenTimesOut(c) \/ SnapshotRejects(c) \/ RegisterRejects(c, err)
       PROVE  Maps
  BY <1>3, <1>10 DEF OpenTimesOut, SnapshotRejects, RegisterRejects
<1>11. CASE UNCHANGED vars
  BY <1>1, <1>11 DEF vars, ownVars
<1> QED BY <1>4, <1>5, <1>6, <1>7, <1>8, <1>9, <1>10, <1>11 DEF Next

\* The connection implements the session it promises: every step is a session
\* step or a stutter, so events alternate and a detached realm stays silent.
THEOREM Refinement == Spec => ImplementsSession
<1>1. Init => Session!Init
  BY DEF Init, Session!Init, phase
<1>2. Inv /\ Inv' /\ [Next]_vars => [Session!Next]_(Session!sessionVars)
  BY StepRefines DEF Session!sessionVars
<1> QED BY <1>1, <1>2, Invariance, PTL DEF Spec, ImplementsSession, Session!Safety
=============================================================================
