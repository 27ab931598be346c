------------------------------- MODULE Webhooks -------------------------------
(***************************************************************************)
(* Webhook delivery (src/src/webhooks.js).  Every registration owns a box: *)
(* a queue, at most one delivery in flight and a retry timer.  pump() is a *)
(* coroutine that holds its box across the await of the HTTP request, so a *)
(* box outlives the DELETE of its registration for as long as a delivery   *)
(* is in flight; registering the same hook again makes a new box.          *)
(* Events are numbered in the order the hub emits them.                    *)
(***************************************************************************)
EXTENDS Naturals, Sequences, FiniteSets

CONSTANTS
  Hooks,
  MaxQueue,         \* MAX_QUEUE
  MaxEvents,        \* bound: events emitted
  MaxBoxes          \* bound: boxes made per hook

ASSUME QueueAssumption == MaxQueue \in Nat \ {0}
ASSUME BoundsAssumption == MaxEvents \in Nat /\ MaxBoxes \in Nat \ {0}

VARIABLES
  registered,  \* the hooks in #hooks and in the store
  made,        \* per hook: boxes made so far; the last one is the hook's box
  box,         \* per hook and number: the box
  emitted,     \* events emitted so far
  old          \* events up to this number were queued more than 24 h ago

vars == <<registered, made, box, emitted, old>>

Events == 1..MaxEvents
Boxes == Hooks \X (1..MaxBoxes)

\* item is the event in flight, 0 for none; again: the head of the queue has
\* failed before; timer is `cleared' once clearTimeout met an armed one (the
\* field keeps the dead handle).  The last four fields are history.
Box == [queue : Seq(Events), item : 0..MaxEvents, again : BOOLEAN,
        timer : {"none", "armed", "cleared"},
        offered : SUBSET Events, delivered : SUBSET Events,
        dropped : SUBSET Events, crossed : BOOLEAN]

Blank == [queue |-> <<>>, item |-> 0, again |-> FALSE, timer |-> "none",
          offered |-> {}, delivered |-> {}, dropped |-> {}, crossed |-> FALSE]

Current(h) == <<h, made[h]>>
Sending(b) == b.item # 0

-----------------------------------------------------------------------------
(* What happens to one box *)

\* pump(), up to the request: nothing while sending, while a timer is pending
\* or with an empty queue.
PumpBlockedIgnoringTimer(b) == Sending(b) \/ b.queue = <<>>       \* mutant
PumpBlocked(b) == Sending(b) \/ b.timer # "none" \/ b.queue = <<>>

Pump(b) == IF PumpBlocked(b) THEN b ELSE [b EXCEPT !.item = Head(b.queue)]

\* A full queue loses its oldest entry.  When that one is in flight, or was
\* pushed out in flight before, the answer will cross the queue: `crossed'.
Trim(b) ==
  IF Len(b.queue) < MaxQueue THEN b
  ELSE [b EXCEPT !.queue = Tail(@), !.again = FALSE, !.crossed = @ \/ Sending(b),
                 !.dropped = @ \cup {Head(b.queue)}]

Enqueue(b, e) ==
  Pump([Trim(b) EXCEPT !.queue = Append(@, e), !.offered = @ \cup {e}])

\* A 2xx answer: shift the head, whatever it is by now, and go on.
Succeed(b) ==
  Pump([b EXCEPT !.queue = Tail(@), !.item = 0, !.again = FALSE,
                 !.delivered = @ \cup {b.item}])

\* A failure after 24 h: give the event up and go on.
NeverTooOld(b) == FALSE                                           \* mutant
TooOld(b) == b.item <= old

GiveUpUncounted(b) ==                                             \* mutant
  Pump([b EXCEPT !.queue = Tail(@), !.item = 0, !.again = FALSE])
GiveUp(b) ==
  Pump([b EXCEPT !.queue = Tail(@), !.item = 0, !.again = FALSE,
                 !.dropped = @ \cup {b.item}])

\* Any other failure: the head of the queue waits for the backoff timer.
RetryNext(b) == [b EXCEPT !.item = 0, !.timer = "armed",          \* mutant
                          !.queue = Append(Tail(@), Head(@)), !.again = TRUE]
RetryLater(b) ==
  [b EXCEPT !.item = 0, !.timer = "armed", !.again = Head(b.queue) = b.item]

Due(b) == Pump([b EXCEPT !.timer = "none"])

ClearTimer(b) == [b EXCEPT !.timer = IF @ = "armed" THEN "cleared" ELSE @]

-----------------------------------------------------------------------------
Init ==
  /\ registered = {}
  /\ made = [h \in Hooks |-> 0]
  /\ box = [b \in Boxes |-> Blank]
  /\ emitted = 0
  /\ old = 0

\* PUT /webhooks/{hook}: an update keeps the box and is of no consequence here.
PutWithoutBox(h) ==                                               \* mutant
  /\ h \notin registered
  /\ registered' = registered \cup {h}
  /\ UNCHANGED <<made, box, emitted, old>>
Put(h) ==
  /\ h \notin registered
  /\ made[h] < MaxBoxes
  /\ registered' = registered \cup {h}
  /\ made' = [made EXCEPT ![h] = @ + 1]
  /\ UNCHANGED <<box, emitted, old>>

\* DELETE /webhooks/{hook}: the box leaves the map, its pump goes on.
Delete(h) ==
  /\ h \in registered
  /\ registered' = registered \ {h}
  /\ box' = [box EXCEPT ![Current(h)] = ClearTimer(@)]
  /\ UNCHANGED <<made, emitted, old>>

\* fanout of an event to the registered hooks whose selection it matches; and
\* test(), which is the same for one hook.
Emit(matching) ==
  /\ matching \subseteq registered
  /\ emitted < MaxEvents
  /\ emitted' = emitted + 1
  /\ box' = [b \in Boxes |->
               IF b[1] \in matching /\ b = Current(b[1])
               THEN Enqueue(box[b], emitted + 1) ELSE box[b]]
  /\ UNCHANGED <<registered, made, old>>

\* The receiver answers 2xx.
Answered(h, g) ==
  /\ Sending(box[<<h, g>>])
  /\ box' = [box EXCEPT ![<<h, g>>] = Succeed(@)]
  /\ UNCHANGED <<registered, made, emitted, old>>

\* Any other status, a connection error or the 10 s timeout.
Failed(h, g) ==
  /\ Sending(box[<<h, g>>])
  /\ box' = [box EXCEPT ![<<h, g>>] = IF TooOld(@) THEN GiveUp(@)
                                             ELSE RetryLater(@)]
  /\ UNCHANGED <<registered, made, emitted, old>>

TimerFires(h, g) ==
  /\ box[<<h, g>>].timer = "armed"
  /\ box' = [box EXCEPT ![<<h, g>>] = Due(@)]
  /\ UNCHANGED <<registered, made, emitted, old>>

\* Time passes: the oldest event not yet 24 h old becomes so.  A request takes
\* ten seconds at most, so its first one does not last until then.
Age ==
  /\ old < emitted
  /\ \A b \in Boxes : box[b].item = old + 1 => box[b].again
  /\ old' = old + 1
  /\ UNCHANGED <<registered, made, box, emitted>>

\* The gateway stops or crashes and starts again: the registrations come back
\* from the store with blank boxes, the queues are gone.
Restart ==
  /\ \A h \in registered : made[h] < MaxBoxes
  /\ made' = [h \in Hooks |-> IF h \in registered THEN made[h] + 1 ELSE made[h]]
  /\ box' = [b \in Boxes |-> Blank]
  /\ UNCHANGED <<registered, emitted, old>>

Next ==
  \/ \E h \in Hooks : Put(h) \/ Delete(h)
  \/ \E matching \in SUBSET Hooks : Emit(matching)
  \/ \E h \in Hooks, g \in 1..MaxBoxes :
       Answered(h, g) \/ Failed(h, g) \/ TimerFires(h, g)
  \/ Age
  \/ Restart

\* Requests end within their timeout, timers fire and time passes, between the
\* requests too (strong fairness).  A receiver may fail for ever.
Fairness ==
  /\ \A h \in Hooks, g \in 1..MaxBoxes :
       WF_vars(Answered(h, g) \/ Failed(h, g)) /\ WF_vars(TimerFires(h, g))
  /\ SF_vars(Age)

Spec == Init /\ [][Next]_vars
FairSpec == Spec /\ Fairness

-----------------------------------------------------------------------------
TypeOK ==
  /\ registered \subseteq Hooks
  /\ made \in [Hooks -> 0..MaxBoxes]
  /\ box \in [Boxes -> Box]
  /\ emitted \in 0..MaxEvents
  /\ old \in 0..emitted
  /\ \A h \in registered : made[h] # 0

(***************************************************************************)
(* A registered hook never stalls: while its queue holds anything, a       *)
(* delivery is in flight or a live timer will start one, never both.       *)
(***************************************************************************)
NeverStalls ==
  \A h \in registered :
    LET b == box[Current(h)]
    IN  /\ b.queue # <<>> => Sending(b) \/ b.timer = "armed"
        /\ ~(Sending(b) /\ b.timer # "none")
        /\ b.timer # "cleared"

(***************************************************************************)
(* BOUNDED, and in order (webhooks.js:15-16, 195): every box is a mailbox  *)
(* (Mailbox.tla), through retries, give-ups, overflow, deletion with a     *)
(* delivery in flight, and restarts: it never grows beyond its cap, events *)
(* leave it in the order they happened, and unless an overflow hits while  *)
(* a delivery is in flight none leaves it but delivered or counted.        *)
(***************************************************************************)
Mail(h, g) ==
  INSTANCE Mailbox WITH
    Event <- Events, Cap <- MaxQueue,
    queue <- box[<<h, g>>].queue,
    delivered <- box[<<h, g>>].delivered,
    dropped <- box[<<h, g>>].dropped,
    crossed <- box[<<h, g>>].crossed

MailboxStep(h, g) == [Mail(h, g)!Next]_(Mail(h, g)!mailboxVars)

ImplementsMailbox ==
  /\ \A h \in Hooks, g \in 1..MaxBoxes : Mail(h, g)!Init
  /\ [][\A h \in Hooks, g \in 1..MaxBoxes : MailboxStep(h, g)]_vars

(***************************************************************************)
(* Every queue drains, even against a receiver that fails for ever: after  *)
(* 24 h each event is given up (webhooks.js:16).                           *)
(***************************************************************************)
Drains == \A h \in Hooks : <>[](h \in registered => box[Current(h)].queue = <<>>)

-----------------------------------------------------------------------------
(* What the documentation says and the code does not do *)

(***************************************************************************)
(* README.md:195: "capped queue per hook (oldest dropped, counted)", and   *)
(* webhooks.js:7-8: "losing a connection.created silently is worse than    *)
(* seeing it twice": every event is delivered or counted as dropped, with  *)
(* no exception for a full queue.                                          *)
(***************************************************************************)
Accounted(b) ==
  b.offered = b.delivered \cup b.dropped \cup {b.queue[i] : i \in DOMAIN b.queue}
NeverSilentlyLost == \A b \in Boxes : Accounted(box[b])

(***************************************************************************)
(* webhooks.js:9: "one delivery in flight per hook".                       *)
(***************************************************************************)
OneInFlight ==
  \A h \in Hooks : Cardinality({g \in 1..MaxBoxes : Sending(box[<<h, g>>])}) <= 1
=============================================================================
