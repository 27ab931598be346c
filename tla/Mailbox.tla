------------------------------- MODULE Mailbox -------------------------------
(***************************************************************************)
(* What one registration of a webhook promises (src/src/webhooks.js:1-18): *)
(* a mailbox of at most Cap events that are offered in their order and     *)
(* leave in that order, each because the receiver took it or because it    *)
(* was given up and counted.  Only after an event was pushed out of a full *)
(* mailbox in the middle of its delivery may one be lost uncounted.        *)
(***************************************************************************)
EXTENDS Naturals, Sequences

CONSTANTS Event, Cap

VARIABLES
  queue,      \* offered and not yet done with, oldest first
  delivered,  \* taken by the receiver
  dropped,    \* given up or pushed out, and counted
  crossed     \* an event has been pushed out while it was being delivered

mailboxVars == <<queue, delivered, dropped, crossed>>

Init ==
  /\ queue = <<>>
  /\ delivered = {}
  /\ dropped = {}
  /\ crossed = FALSE

Newer(e, s) == \A i \in DOMAIN s : s[i] < e

\* An event happens.
Offer(e) ==
  /\ Newer(e, queue)
  /\ \A d \in delivered \cup dropped : d < e
  /\ \/ /\ Len(queue) < Cap
        /\ queue' = Append(queue, e)
        /\ UNCHANGED <<dropped, crossed>>
     \/ /\ Len(queue) = Cap
        /\ queue' = Append(Tail(queue), e)
        /\ dropped' = dropped \cup {Head(queue)}
        /\ crossed' \in {crossed, TRUE}
  /\ UNCHANGED delivered

\* The receiver takes the oldest event.
Take ==
  /\ queue # <<>>
  /\ queue' = Tail(queue)
  /\ delivered' = delivered \cup {Head(queue)}
  /\ UNCHANGED <<dropped, crossed>>

\* The oldest event is given up.
GiveUp ==
  /\ queue # <<>>
  /\ queue' = Tail(queue)
  /\ dropped' = dropped \cup {Head(queue)}
  /\ UNCHANGED <<delivered, crossed>>

\* An event pushed out while it was being delivered is settled in the place of
\* the oldest, which is lost.
Misplace(e) ==
  /\ crossed
  /\ queue # <<>>
  /\ e \in dropped
  /\ queue' = Tail(queue)
  /\ delivered' \in {delivered, delivered \cup {e}}
  /\ UNCHANGED <<dropped, crossed>>

\* The process ends, and its queues with it.
Lose ==
  /\ queue' = <<>>
  /\ delivered' = {}
  /\ dropped' = {}
  /\ crossed' = FALSE

Next ==
  \/ \E e \in Event : Offer(e) \/ Misplace(e)
  \/ Take \/ GiveUp \/ Lose

Spec == Init /\ [][Next]_mailboxVars
=============================================================================
