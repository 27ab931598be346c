------------------------------ MODULE MCEventHub ------------------------------
EXTENDS EventHub, TLC

CONSTANTS p, q, t, u

\* p asks for every type, q for one of the two.
MCFilter == (p :> {t, u}) @@ (q :> {t})

\* Pick, checked against the library on every short sequence of events.
Short == UNION {[1..n -> Event] : n \in 0..3}
ASSUME PickSelects ==
  \A s \in Subs, es \in Short :
    Pick(es, {i \in DOMAIN es : Matches(s, es[i])}) = SelectSeq(es, LAMBDA e : Matches(s, e))
=============================================================================
