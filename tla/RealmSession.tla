---------------------------- MODULE RealmSession ----------------------------
(***************************************************************************)
(* What one RealmConnection promises the rest of the gateway about its     *)
(* realm: the session is down, up or detached; the event stream carries    *)
(* one realm.connected per session that comes up and one                   *)
(* realm.disconnected per session that ends; detaching is final.           *)
(***************************************************************************)
EXTENDS Naturals

VARIABLES
  phase,   \* "down", "up" or "detached"
  ups,     \* realm.connected events emitted so far
  downs    \* realm.disconnected events emitted so far

sessionVars == <<phase, ups, downs>>

Phases == {"down", "up", "detached"}

Init ==
  /\ phase = "down"
  /\ ups = 0
  /\ downs = 0

\* The realm is reached and this system is registered in it.
ComeUp ==
  /\ phase = "down"
  /\ phase' = "up"
  /\ ups' = ups + 1
  /\ UNCHANGED downs

\* An established session is lost.
GoDown ==
  /\ phase = "up"
  /\ phase' = "down"
  /\ downs' = downs + 1
  /\ UNCHANGED ups

\* The realm is detached, or the gateway shuts down.
Detach ==
  /\ phase # "detached"
  /\ phase' = "detached"
  /\ downs' = IF phase = "up" THEN downs + 1 ELSE downs
  /\ UNCHANGED ups

Next == ComeUp \/ GoDown \/ Detach

\* Every session that comes up is closed by exactly one disconnect event
\* before the next one, and a detached realm owes none.
BalancedEvents == ups = downs + (IF phase = "up" THEN 1 ELSE 0)

\* If sessions are lost only finitely often, one is eventually there to stay
\* unless the realm is detached.
Settles == <>[](phase = "up" \/ phase = "detached")

Safety == Init /\ [][Next]_sessionVars
Spec == Safety /\ Settles
=============================================================================
