------------------------------- MODULE Gateway -------------------------------
(***************************************************************************)
(* From the realm to the receiver: event derivation (ConnectionEvents) and *)
(* webhook delivery (Webhooks) in one process.  hub.emit calls the fanout  *)
(* of the webhooks before it returns (src/src/events.js, webhooks.js), so  *)
(* that one step of a realm's key cache that emits an event also enqueues  *)
(* it for every hook registered by then.  A restart of the process ends    *)
(* both: the queues are gone, and so is what was known of connections.     *)
(*                                                                         *)
(* There is one connection whose created and deleted events are told       *)
(* apart, of which one step emits one at most; hooks select these.  The    *)
(* events of other connections, of webhooks and tests are `other': they    *)
(* share the queues, push events out of them and are in flight in turn.    *)
(***************************************************************************)
EXTENDS Naturals, SequencesExt

CONSTANTS
  Conns, Values, None, MaxDrops, MaxInFlight,     \* of ConnectionEvents
  Hooks, MaxQueue, MaxEvents, MaxBoxes,           \* of Webhooks
  MaxOthers,                                      \* bound: other events
  MaxBoots                                        \* bound: processes

ASSUME OneConnection == \E c \in Conns : Conns = {c}
ASSUME QueueAssumption == MaxQueue \in Nat \ {0}
ASSUME BoundsAssumption == MaxEvents \in Nat /\ MaxBoxes \in Nat \ {0}

VARIABLES
  realm, life, session, cache, inbox, prev, known, pending, told, creations,
  stray, drops,                                   \* of ConnectionEvents
  registered, made, box, emitted, old,            \* of Webhooks
  subject,      \* per event emitted: "created", "deleted" or "other"
  latecomers,   \* the hooks registered after an event of this process
  boots         \* processes so far

CE == INSTANCE ConnectionEvents
WH == INSTANCE Webhooks

ceVars == <<realm, life, session, cache, inbox, prev, known, pending, told,
            creations, stray, drops>>
whVars == <<registered, made, box, emitted, old>>
vars == <<ceVars, whVars, subject, latecomers, boots>>

Init ==
  /\ CE!Init
  /\ WH!Init
  /\ subject = <<>>
  /\ latecomers = {}
  /\ boots = 1

\* hub.emit in a step of the event derivation: fanout, before the step ends.
News(c) == told'[c] # told[c] /\ told'[c] \in {"created", "deleted"}
Fanout ==
  /\ IF \E c \in Conns : News(c)
     THEN /\ WH!Emit(registered)
          /\ subject' = Append(subject, told'[CHOOSE c \in Conns : News(c)])
     ELSE UNCHANGED <<whVars, subject>>
  /\ UNCHANGED <<latecomers, boots>>

\* Another event: hooks may select it, and test() selects one.
Others == {e \in 1..emitted : subject[e] = "other"}
OtherEvent ==
  /\ Cardinality(Others) < MaxOthers
  /\ \E matching \in SUBSET registered : WH!Emit(matching)
  /\ subject' = Append(subject, "other")
  /\ UNCHANGED <<ceVars, latecomers, boots>>

\* PUT of a hook: it hears what is emitted from now on.
Register(h) ==
  /\ WH!Put(h)
  /\ latecomers' = IF \E c \in Conns : told[c] \in {"created", "deleted"}
                   THEN latecomers \cup {h} ELSE latecomers \ {h}
  /\ UNCHANGED <<ceVars, subject, boots>>

Delivery(h, g) == WH!Answered(h, g) \/ WH!Failed(h, g)
DeliveryStep ==
  /\ \/ \E h \in Hooks : WH!Delete(h)
     \/ \E h \in Hooks, g \in 1..MaxBoxes : Delivery(h, g) \/ WH!TimerFires(h, g)
     \/ WH!Age
  /\ UNCHANGED <<ceVars, subject, latecomers, boots>>

\* The process stops or crashes and another one starts.  Hooks come back from
\* the store before any realm is started, connections from the realm.
Restart ==
  /\ boots < MaxBoots
  /\ boots' = boots + 1
  /\ WH!Restart
  /\ CE!Restarted
  /\ latecomers' = {}
  /\ UNCHANGED subject

Next ==
  \/ CE!Next /\ Fanout
  \/ OtherEvent
  \/ \E h \in Hooks : Register(h)
  \/ DeliveryStep
  \/ Restart

\* As in the two components: the session is kept up, deltas and timers come,
\* requests end, and time passes.
Fairness ==
  /\ WF_vars(CE!Snapshot /\ Fanout)
  /\ WF_vars(CE!SessionUp /\ Fanout)
  /\ WF_vars(CE!DeltaArrives /\ Fanout)
  /\ \A c \in Conns : WF_vars(CE!GraceEnds(c) /\ Fanout)
  /\ \A h \in Hooks, g \in 1..MaxBoxes :
       /\ WF_vars(Delivery(h, g) /\ DeliveryStep)
       /\ WF_vars(WH!TimerFires(h, g) /\ DeliveryStep)
  /\ SF_vars(WH!Age /\ DeliveryStep)

Spec == Init /\ [][Next]_vars
FairSpec == Spec /\ Fairness

-----------------------------------------------------------------------------
\* What the receiver of h was told by this process, or that was counted.
Heard(h) ==
  LET b == box[WH!Current(h)]
  IN  {subject[e] : e \in b.delivered \cup b.dropped}

\* What left the queue of h without either: possible only once an event was
\* pushed out in the middle of its delivery (NeverSilentlyLost is refuted).
Crossed(h) ==
  LET b == box[WH!Current(h)]
  IN  {subject[e] : e \in {f \in b.offered : b.crossed /\ f \notin ToSet(b.queue)}}

Informed(h) ==
  \A c \in Conns :
    /\ life[c] = "bound" => "created" \in Heard(h) \cup Crossed(h)
    /\ life[c] = "severed" /\ told[c] = "deleted"
         => "deleted" \in Heard(h) \cup Crossed(h)

(***************************************************************************)
(* A receiver that was there in time never has to make sense of the end of *)
(* a connection it was not told of, through retries, lost sessions,        *)
(* restarts and whatever else is in its queue (local-api-v0.1.md:134),     *)
(* unless its beginning was counted as dropped, or went uncounted when the *)
(* queue overflowed with a delivery in flight (webhooks.js:143-148, 176).  *)
(* Even then the beginning has left the queue before the end did.          *)
(***************************************************************************)
CreatedBeforeDeleted ==
  \A h \in registered \ latecomers :
    "deleted" \in Heard(h) => "created" \in Heard(h) \cup Crossed(h)

(***************************************************************************)
(* End to end (webhooks.js:6-8): whatever sessions are lost and however    *)
(* often the gateway restarts with events in its queues, a hook that was   *)
(* there in time is told in the end that the connection is bound, or that  *)
(* it was deleted, or the event was counted as dropped, or crossed: what a *)
(* restart drops is derived again by the scan of the next session.         *)
(***************************************************************************)
EndToEnd == \A h \in Hooks : []<>(h \in registered \ latecomers => Informed(h))

-----------------------------------------------------------------------------
(* What the documentation says and the code does not do *)

(***************************************************************************)
(* webhooks.js:7-8, "losing a connection.created silently is worse than    *)
(* seeing it twice", and README.md:195, "oldest dropped, counted": the end *)
(* of a connection is delivered only if its beginning was, or was counted. *)
(***************************************************************************)
CountedBeforeDeleted ==
  \A h \in registered \ latecomers :
    "deleted" \in Heard(h) => "created" \in Heard(h)
=============================================================================
