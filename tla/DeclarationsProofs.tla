-------------------------- MODULE DeclarationsProofs --------------------------
(***************************************************************************)
(* Proofs about Declarations, for any tree, any number of handlers and any *)
(* bound on the faults.  That a replay wipes no value and forgets no path  *)
(* depends on what its coroutine still has to do: a declaration it has not *)
(* come to and that is on the realm has its version key in the cache, and  *)
(* a stored path that is not on the realm is one it will come to.  That it *)
(* is alone on the wire rests on who awaits what: every command under way  *)
(* and every reply belongs to one owner that awaits just this one.  That   *)
(* every orphan was overtaken rests on the order of the wire: a purge that *)
(* is under way comes after the writes it has to undo.                     *)
(***************************************************************************)
EXTENDS Declarations, TLAPS

Command == [op : Commands, path : Paths, owner : Owners]

Elems(s) == {s[i] : i \in 1..Len(s)}
Going == Elems(wire)
Coming == Elems(inbox)
Replies == {m \in Coming : m.kind = "reply"}

-----------------------------------------------------------------------------
(* Who awaits what: w are commands sent, b messages sent back, f the work   *)
(* that each owner awaits.                                                  *)

Awaits == [o \in Owners |-> IF o = Replay THEN replaying ELSE handler[o]]

Alone(w, b) ==
  /\ \A i, j \in 1..Len(w) : w[i].owner = w[j].owner => i = j
  /\ \A i, j \in 1..Len(b) :
       b[i].kind = "reply" /\ b[j].kind = "reply"
         /\ b[i].work.owner = b[j].work.owner => i = j
  /\ \A i \in 1..Len(w), j \in 1..Len(b) :
       b[j].kind = "reply" => w[i].owner # b[j].work.owner

Held(w, b, f) ==
  /\ \A m \in Elems(w) : f[m.owner] = Doing(m.op, m.path)
  /\ \A m \in Elems(b) :
       m.kind = "reply" => f[m.work.owner] = Doing(m.work.op, m.work.path)

Free(o, w, b) ==
  /\ \A m \in Elems(w) : m.owner # o
  /\ \A m \in Elems(b) : m.kind = "reply" => m.work.owner # o

\* A request for a property or a declaration names a declaration.
OnTarget(work) ==
  /\ work.op \in {"declare", "init", "property", "body"} => work.path \in Decls
  /\ work.op = "register" => work.path \in Nodes \cup Contexts

Flight ==
  /\ Alone(wire, inbox)
  /\ Held(wire, inbox, Awaits)
  /\ \A o \in Owners : OnTarget(Awaits[o])

\* Nobody awaits the realm while the session is down, only the replay while it
\* runs, and the replay no more once it is done.
Sessions ==
  /\ phase = "down" => wire = <<>> /\ inbox = <<>>
  /\ phase # "up" => \A h \in Handlers : Resting(h)
  /\ phase # "replaying" => agenda = NoAgenda /\ replaying = Nothing
  /\ replaying.op \in {"none", "register", "declare", "init"}

-----------------------------------------------------------------------------
(* What the replay still has to do *)

Listed(p) == p \in agenda.nodes \cup agenda.contexts \cup agenda.decls
Opening(p) == replaying = Doing("register", p)
Busy(p) == replaying # Nothing /\ replaying.path = p
Above(p) ==
  {q \in Paths : \/ p \notin Nodes /\ q = Parent[p]
                 \/ p \in Decls /\ q = Parent[Parent[p]]}
ToCome(p) == Listed(p) \/ \E q \in Above(p) : Listed(q) \/ Opening(q)

\* It goes down the tree, and comes to nothing twice.
Descends ==
  /\ \A p \in Paths : Listed(p) \/ Busy(p) => \A q \in Above(p) : ~Listed(q) /\ ~Opening(q)
  /\ \A p \in Paths : Busy(p) => ~Listed(p)
  /\ \A p \in Paths : Opening(p) => agenda.decls = {} /\ (p \in Nodes => agenda.contexts = {})

\* What it lists is stored, and the parent of what it lists or does is there.
Rooted ==
  \A p \in Paths : Listed(p) \/ Busy(p) =>
    p \in stored /\ (p \notin Nodes => Parent[p] \in declared)

\* What comes back to it says what is on the realm.
Reported ==
  phase = "replaying" =>
    /\ cache \subseteq declared
    /\ \A m \in Coming : m.delta.remove = {} /\ m.delta.add \subseteq declared
    /\ \A m \in Replies : m.ok /\ m.work.op # "init" => m.work.path \in declared
    /\ \A p \in Paths : replaying = Doing("init", p) => p \in declared

\* What is on the realm and to come is skipped; what is declared is new.
Spared ==
  phase = "replaying" =>
    /\ \A d \in Decls : ToCome(d) /\ d \in declared => d \in cache
    /\ \A m \in Going : m.op = "declare" => m.path \notin declared

\* What is stored and not on the realm is on its way there.
Remembered ==
  /\ phase = "replaying" =>
       \A p \in stored : \/ p \in declared \cup late
                         \/ ToCome(p)
                         \/ replaying \in {Doing("register", p), Doing("declare", p)}
  /\ phase = "up" =>
       \A p \in stored :
         \/ p \in declared \cup late \cup refused \cup stale
         \/ \E m \in Going : m.op \in {"register", "declare"} /\ m.path = p
         \/ \E m \in Replies : m.ok /\ m.work.op = "purge" /\ p \in Under(m.work.path)
         \/ \E m \in Replies : ~m.ok /\ m.work.path = p

\* What was declared and has no value has one coming.
Promised ==
  \A d \in (Decls \cap declared) \ cut : value[d] = "empty" =>
    \/ \E m \in Going : m.op = "init" /\ m.path = d
    \/ \E m \in Replies : /\ m.work.path = d
                          /\ IF m.ok THEN m.work.op = "declare" ELSE m.work.op = "init"

Inv ==
  /\ Typed /\ ReplayNeverWipes
  /\ Flight /\ Sessions
  /\ Descends /\ Rooted /\ Reported /\ Spared
  /\ Remembered /\ Promised

-----------------------------------------------------------------------------
(* Work, the tree and sequences *)

LEMMA DoingFacts ==
  /\ \A a, p : Doing(a, p).op = a /\ Doing(a, p).path = p
  /\ \A a, p, b, q : Doing(a, p) = Doing(b, q) => a = b /\ p = q
  /\ \A a \in Commands \cup {"body"} : \A p : Doing(a, p) # Nothing
  /\ \A a \in Commands \cup {"body"}, p \in Paths : Doing(a, p) \in Work
  /\ Nothing \in Work /\ Nothing.op = "none"
<1>1. /\ \A a, p : Doing(a, p).op = a /\ Doing(a, p).path = p
      /\ Nothing.op = "none"
  BY DEF Doing, Nothing
<1>2. \A a \in Commands \cup {"body"} : a # "none"
  BY DEF Commands
<1>3. \A a, p, b, q : Doing(a, p) = Doing(b, q) => a = b /\ p = q
  BY <1>1
<1>4. \A a \in Commands \cup {"body"} : \A p : Doing(a, p) # Nothing
  BY <1>1, <1>2
<1>5. \A a \in Commands \cup {"body"}, p \in Paths : Doing(a, p) \in Work
  BY DEF Doing, Work
<1> QED BY <1>1, <1>3, <1>4, <1>5 DEF Work

LEMMA WorkFacts ==
  ASSUME NEW w \in Work
  PROVE  w = Nothing \/ (w.op \in Commands \cup {"body"} /\ w.path \in Paths
                          /\ w = Doing(w.op, w.path))
BY DEF Work, Doing

LEMMA TreeFacts ==
  /\ \A c \in Contexts : Parent[c] \in Nodes /\ c \notin Nodes /\ c \notin Decls
  /\ \A d \in Decls : Parent[d] \in Contexts /\ d \notin Nodes /\ d \notin Contexts
  /\ \A p \in Paths : p \in Nodes \/ p \in Contexts \/ p \in Decls
  /\ \A p \in Paths : p \notin Nodes => Parent[p] \in Paths
BY TreeAssumption DEF Paths

LEMMA AboveFacts ==
  /\ \A p \in Nodes : Above(p) = {}
  /\ \A p \in Contexts : Above(p) = {Parent[p]}
  /\ \A p \in Decls : Above(p) = {Parent[p], Parent[Parent[p]]}
  /\ \A p \in Paths : Above(p) \subseteq Paths
<1>1. \A p \in Nodes : Above(p) = {}
  BY TreeFacts DEF Above
<1>2. \A p \in Contexts : Above(p) = {Parent[p]}
  BY TreeFacts DEF Above, Paths
<1>3. \A p \in Decls : Above(p) = {Parent[p], Parent[Parent[p]]}
  BY TreeFacts DEF Above, Paths
<1> QED BY <1>1, <1>2, <1>3 DEF Above

LEMMA ChildrenFacts ==
  ASSUME NEW p
  PROVE  /\ \A q : q \in Children(p) <=> q \in Contexts \cup Decls /\ Parent[q] = p
         /\ p \in Nodes => Children(p) \subseteq Contexts
         /\ p \in Contexts => Children(p) \subseteq Decls
         /\ p \in Decls => Children(p) = {}
<1>1. \A q : q \in Children(p) <=> q \in Contexts \cup Decls /\ Parent[q] = p
  BY DEF Children
<1> QED BY <1>1, TreeFacts

\* A subtree is closed below, so that what is left of the tree is one.
LEMMA UnderFacts ==
  ASSUME NEW p \in Paths
  PROVE  /\ p \in Under(p) /\ Under(p) \subseteq Paths
         /\ \A q \in Paths : q \notin Nodes /\ Parent[q] \in Under(p) => q \in Under(p)
<1>1. /\ p \in Under(p) /\ Children(p) \subseteq Under(p)
      /\ \A r \in Children(p) : Children(r) \subseteq Under(p)
      /\ \A q \in Under(p) : \/ q = p \/ q \in Children(p)
                             \/ \E r \in Children(p) : q \in Children(r)
  BY DEF Under
<1>2. Under(p) \subseteq Paths
  BY <1>1, ChildrenFacts DEF Paths
<1>3. ASSUME NEW q \in Paths, q \notin Nodes, Parent[q] \in Under(p)
      PROVE  q \in Under(p)
  <2>1. q \in Contexts \cup Decls /\ q \in Children(Parent[q])
    BY <1>3, ChildrenFacts, TreeFacts
  <2>2. CASE Parent[q] = p \/ Parent[q] \in Children(p)
    BY <1>1, <2>1, <2>2
  <2>3. ASSUME NEW r \in Children(p), Parent[q] \in Children(r) PROVE FALSE
    <3>1. r \in Contexts \/ r \in Decls
      BY ChildrenFacts
    <3>2. r \in Contexts
      BY <2>3, <3>1, ChildrenFacts
    <3>3. Parent[q] \in Decls
      BY <2>3, <3>2, ChildrenFacts
    <3> QED BY <2>1, <3>3, TreeFacts
  <2> QED BY <1>1, <1>3, <2>2, <2>3
<1> QED BY <1>1, <1>2, <1>3

LEMMA AppendFacts ==
  ASSUME NEW S, NEW s \in Seq(S), NEW e \in S
  PROVE  /\ Append(s, e) \in Seq(S) /\ Len(Append(s, e)) = Len(s) + 1
         /\ \A i \in 1..Len(s) : Append(s, e)[i] = s[i]
         /\ Append(s, e)[Len(s) + 1] = e
         /\ Elems(Append(s, e)) = Elems(s) \cup {e}
<1> DEFINE t == Append(s, e)
<1>1. /\ t \in Seq(S) /\ Len(t) = Len(s) + 1 /\ Len(s) \in Nat
      /\ \A i \in 1..Len(s) : t[i] = s[i]
      /\ t[Len(s) + 1] = e
  OBVIOUS
<1> HIDE DEF t
<1>3. \A i \in 1..Len(t) : i \in 1..Len(s) \/ i = Len(s) + 1
  BY <1>1
<1>4. \A i \in 1..Len(s) : i \in 1..Len(t)
  BY <1>1
<1>5. Len(s) + 1 \in 1..Len(t)
  BY <1>1
<1>6. Elems(t) = Elems(s) \cup {e}
  BY <1>1, <1>3, <1>4, <1>5 DEF Elems
<1> QED BY <1>1, <1>6 DEF t

LEMMA TailFacts ==
  ASSUME NEW S, NEW s \in Seq(S), s # <<>>, NEW t, t = Tail(s)
  PROVE  /\ t \in Seq(S) /\ Len(t) = Len(s) - 1
         /\ \A i \in 1..Len(t) : i + 1 \in 1..Len(s) /\ i + 1 # 1 /\ t[i] = s[i + 1]
         /\ 1 \in 1..Len(s) /\ Head(s) = s[1]
         /\ Elems(s) = Elems(t) \cup {Head(s)}
         /\ Elems(s) \subseteq S /\ Head(s) \in S
<1>1. /\ t \in Seq(S) /\ Len(t) = Len(s) - 1 /\ Len(s) \in Nat /\ Len(s) # 0
      /\ \A i \in 1..Len(t) : t[i] = s[i + 1]
      /\ Head(s) = s[1]
  OBVIOUS
<1>2. \A i \in 1..Len(t) : i + 1 \in 1..Len(s) /\ i + 1 # 1
  BY <1>1
<1>3. 1 \in 1..Len(s)
  BY <1>1
<1>4. Elems(s) \subseteq S /\ Head(s) \in S
  BY <1>1, <1>3 DEF Elems
<1>5. \A i \in 1..Len(s) : i = 1 \/ (i - 1 \in 1..Len(t) /\ t[i - 1] = s[i])
  BY <1>1
<1>6. Elems(s) = Elems(t) \cup {Head(s)}
  BY <1>1, <1>2, <1>3, <1>5 DEF Elems
<1> QED BY <1>1, <1>2, <1>3, <1>4, <1>6

LEMMA ElemsFacts ==
  ASSUME NEW S, NEW s \in Seq(S)
  PROVE  /\ Elems(s) \subseteq S
         /\ \A e \in S : Append(s, e) \in Seq(S) /\ Elems(Append(s, e)) = Elems(s) \cup {e}
         /\ s # <<>> => /\ Tail(s) \in Seq(S) /\ Elems(s) = Elems(Tail(s)) \cup {Head(s)}
                        /\ Head(s) \in S
<1>1. Elems(s) \subseteq S
  BY DEF Elems
<1>2. ASSUME NEW e \in S
      PROVE  Append(s, e) \in Seq(S) /\ Elems(Append(s, e)) = Elems(s) \cup {e}
  BY AppendFacts
<1>3. s # <<>> => /\ Tail(s) \in Seq(S) /\ Elems(s) = Elems(Tail(s)) \cup {Head(s)}
                  /\ Head(s) \in S
  BY TailFacts
<1> QED BY <1>1, <1>2, <1>3

-----------------------------------------------------------------------------
(* Commands and replies keep to their owners *)

LEMMA AloneSend ==
  ASSUME NEW w \in Seq(Command), NEW b \in Seq(Messages), NEW m \in Command,
         Alone(w, b), Free(m.owner, w, b)
  PROVE  Alone(Append(w, m), b)
<1> DEFINE t == Append(w, m)
<1>1. /\ Len(t) = Len(w) + 1 /\ Len(w) \in Nat
      /\ \A i \in 1..Len(w) : t[i] = w[i] /\ w[i].owner # m.owner
      /\ t[Len(w) + 1] = m
      /\ \A i \in 1..Len(t) : i \in 1..Len(w) \/ i = Len(w) + 1
  <2>1. \A i \in 1..Len(w) : w[i] \in Elems(w)
    BY DEF Elems
  <2>2. \A i \in 1..Len(w) : w[i].owner # m.owner
    BY <2>1 DEF Free
  <2>3. /\ Len(t) = Len(w) + 1 /\ Len(w) \in Nat
        /\ \A i \in 1..Len(w) : t[i] = w[i]
        /\ t[Len(w) + 1] = m
    BY AppendFacts
  <2>4. \A i \in 1..Len(t) : i \in 1..Len(w) \/ i = Len(w) + 1
    BY <2>3
  <2> QED BY <2>2, <2>3, <2>4
<1> HIDE DEF t
<1>2. ASSUME NEW i \in 1..Len(t), NEW j \in 1..Len(t), t[i].owner = t[j].owner
      PROVE  i = j
  <2>1. CASE i \in 1..Len(w) /\ j \in 1..Len(w)
    <3>1. w[i].owner = w[j].owner
      BY <1>1, <1>2, <2>1
    <3> QED BY <2>1, <3>1 DEF Alone
  <2>2. CASE i = Len(w) + 1 \/ j = Len(w) + 1
    BY <1>1, <1>2, <2>2
  <2> QED BY <1>1, <2>1, <2>2
<1>3. \A j \in 1..Len(b) : b[j].kind = "reply" => b[j].work.owner # m.owner
  BY DEF Free, Elems
<1>4. \A i \in 1..Len(t), j \in 1..Len(b) :
        b[j].kind = "reply" => t[i].owner # b[j].work.owner
  BY <1>1, <1>3 DEF Alone
<1>5. \A i, j \in 1..Len(b) :
        b[i].kind = "reply" /\ b[j].kind = "reply"
          /\ b[i].work.owner = b[j].work.owner => i = j
  BY DEF Alone
<1> QED BY <1>2, <1>4, <1>5 DEF Alone, t

LEMMA AloneBack ==
  ASSUME NEW w \in Seq(Command), NEW b \in Seq(Messages), NEW m \in Messages,
         Alone(w, b), m.kind = "reply" => Free(m.work.owner, w, b)
  PROVE  Alone(w, Append(b, m))
<1> DEFINE t == Append(b, m)
<1>1. /\ Len(t) = Len(b) + 1 /\ Len(b) \in Nat
      /\ \A i \in 1..Len(b) : t[i] = b[i]
      /\ t[Len(b) + 1] = m
      /\ \A i \in 1..Len(t) : i \in 1..Len(b) \/ i = Len(b) + 1
  BY AppendFacts
<1> HIDE DEF t
<1>2. \A j \in 1..Len(b) :
        m.kind = "reply" /\ b[j].kind = "reply" => b[j].work.owner # m.work.owner
  BY DEF Free, Elems
<1>3. \A i \in 1..Len(w) : m.kind = "reply" => w[i].owner # m.work.owner
  BY DEF Free, Elems
<1>4. ASSUME NEW i \in 1..Len(t), NEW j \in 1..Len(t),
             t[i].kind = "reply", t[j].kind = "reply",
             t[i].work.owner = t[j].work.owner
      PROVE  i = j
  <2>1. CASE i \in 1..Len(b) /\ j \in 1..Len(b)
    <3>1. t[i] = b[i] /\ t[j] = b[j]
      BY <1>1, <2>1
    <3> QED BY <1>4, <2>1, <3>1 DEF Alone
  <2>2. CASE i = Len(b) + 1 \/ j = Len(b) + 1
    BY <1>1, <1>2, <1>4, <2>2
  <2> QED BY <1>1, <2>1, <2>2
<1>5. \A i \in 1..Len(w), j \in 1..Len(t) :
        t[j].kind = "reply" => w[i].owner # t[j].work.owner
  BY <1>1, <1>3 DEF Alone
<1>6. \A i, j \in 1..Len(w) : w[i].owner = w[j].owner => i = j
  BY DEF Alone
<1> QED BY <1>4, <1>5, <1>6 DEF Alone, t

\* A command that is taken from the wire leaves its owner with none.
LEMMA AloneTaken ==
  ASSUME NEW w \in Seq(Command), NEW b \in Seq(Messages), w # <<>>, Alone(w, b)
  PROVE  Alone(Tail(w), b) /\ Free(Head(w).owner, Tail(w), b)
<1> DEFINE t == Tail(w)
<1>1. /\ \A i \in 1..Len(t) : i + 1 \in 1..Len(w) /\ i + 1 # 1 /\ t[i] = w[i + 1]
      /\ \A i, j \in 1..Len(t) : i + 1 = j + 1 => i = j
      /\ 1 \in 1..Len(w) /\ Head(w) = w[1]
  BY TailFacts
<1> HIDE DEF t
<1>2. Alone(t, b)
  <2>1. ASSUME NEW i \in 1..Len(t), NEW j \in 1..Len(t), t[i].owner = t[j].owner
        PROVE  i = j
    <3>1. /\ i + 1 \in 1..Len(w) /\ j + 1 \in 1..Len(w)
          /\ w[i + 1].owner = w[j + 1].owner
      BY <1>1, <2>1
    <3>2. i + 1 = j + 1
      BY <3>1 DEF Alone
    <3> QED BY <1>1, <3>2
  <2>2. ASSUME NEW i \in 1..Len(t), NEW j \in 1..Len(b), b[j].kind = "reply"
        PROVE  t[i].owner # b[j].work.owner
    <3>1. i + 1 \in 1..Len(w) /\ t[i] = w[i + 1]
      BY <1>1
    <3> QED BY <2>2, <3>1 DEF Alone
  <2>3. \A i, j \in 1..Len(b) :
          b[i].kind = "reply" /\ b[j].kind = "reply"
            /\ b[i].work.owner = b[j].work.owner => i = j
    BY DEF Alone
  <2> QED BY <2>1, <2>2, <2>3 DEF Alone
<1>3. \A i \in 1..Len(t) : t[i].owner # Head(w).owner
  BY <1>1 DEF Alone
<1>4. \A j \in 1..Len(b) : b[j].kind = "reply" => b[j].work.owner # Head(w).owner
  BY <1>1 DEF Alone
<1> QED BY <1>2, <1>3, <1>4 DEF Free, Elems, t

\* A reply that is delivered leaves its owner with none.
LEMMA AloneDelivered ==
  ASSUME NEW w \in Seq(Command), NEW b \in Seq(Messages), b # <<>>, Alone(w, b)
  PROVE  /\ Alone(w, Tail(b))
         /\ Head(b).kind = "reply" => Free(Head(b).work.owner, w, Tail(b))
<1> DEFINE t == Tail(b)
<1>1. /\ \A i \in 1..Len(t) : i + 1 \in 1..Len(b) /\ i + 1 # 1 /\ t[i] = b[i + 1]
      /\ \A i, j \in 1..Len(t) : i + 1 = j + 1 => i = j
      /\ 1 \in 1..Len(b) /\ Head(b) = b[1]
  BY TailFacts
<1> HIDE DEF t
<1>2. Alone(w, t)
  <2>1. ASSUME NEW i \in 1..Len(t), NEW j \in 1..Len(t),
               t[i].kind = "reply", t[j].kind = "reply",
               t[i].work.owner = t[j].work.owner
        PROVE  i = j
    <3>1. /\ i + 1 \in 1..Len(b) /\ j + 1 \in 1..Len(b)
          /\ t[i] = b[i + 1] /\ t[j] = b[j + 1]
      BY <1>1
    <3>2. i + 1 = j + 1
      BY <2>1, <3>1 DEF Alone
    <3> QED BY <1>1, <3>2
  <2>2. ASSUME NEW i \in 1..Len(w), NEW j \in 1..Len(t), t[j].kind = "reply"
        PROVE  w[i].owner # t[j].work.owner
    <3>1. j + 1 \in 1..Len(b) /\ t[j] = b[j + 1]
      BY <1>1
    <3> QED BY <2>2, <3>1 DEF Alone
  <2>3. \A i, j \in 1..Len(w) : w[i].owner = w[j].owner => i = j
    BY DEF Alone
  <2> QED BY <2>1, <2>2, <2>3 DEF Alone
<1>3. Head(b).kind = "reply" => \A i \in 1..Len(w) : w[i].owner # Head(b).work.owner
  BY <1>1 DEF Alone
<1>4. Head(b).kind = "reply" => \A j \in 1..Len(t) :
        t[j].kind = "reply" => t[j].work.owner # Head(b).work.owner
  BY <1>1 DEF Alone
<1> QED BY <1>2, <1>3, <1>4 DEF Free, Elems, t

LEMMA HeldFacts ==
  ASSUME NEW w \in Seq(Command), NEW b \in Seq(Messages), NEW f, Held(w, b, f)
  PROVE  /\ \A m \in Command : f[m.owner] = Doing(m.op, m.path) => Held(Append(w, m), b, f)
         /\ \A m \in Messages :
              (m.kind = "reply" => f[m.work.owner] = Doing(m.work.op, m.work.path))
                => Held(w, Append(b, m), f)
         /\ w # <<>> => Held(Tail(w), b, f)
         /\ b # <<>> => Held(w, Tail(b), f)
         /\ \A g : \A o \in Owners :
              Free(o, w, b) /\ (\A q \in Owners : q # o => g[q] = f[q]) => Held(w, b, g)
<1>1. ASSUME NEW m \in Command, f[m.owner] = Doing(m.op, m.path)
      PROVE  Held(Append(w, m), b, f)
  <2>1. Elems(Append(w, m)) = Elems(w) \cup {m}
    BY ElemsFacts
  <2> QED BY <1>1, <2>1 DEF Held
<1>2. ASSUME NEW m \in Messages,
             m.kind = "reply" => f[m.work.owner] = Doing(m.work.op, m.work.path)
      PROVE  Held(w, Append(b, m), f)
  <2>1. Elems(Append(b, m)) = Elems(b) \cup {m}
    BY ElemsFacts
  <2> QED BY <1>2, <2>1 DEF Held
<1>3. ASSUME w # <<>> PROVE Held(Tail(w), b, f)
  <2>1. Elems(Tail(w)) \subseteq Elems(w)
    BY <1>3, ElemsFacts
  <2> QED BY <2>1 DEF Held
<1>4. ASSUME b # <<>> PROVE Held(w, Tail(b), f)
  <2>1. Elems(Tail(b)) \subseteq Elems(b)
    BY <1>4, ElemsFacts
  <2> QED BY <2>1 DEF Held
<1>5. ASSUME NEW g, NEW o \in Owners, Free(o, w, b), \A q \in Owners : q # o => g[q] = f[q]
      PROVE  Held(w, b, g)
  <2>1. \A m \in Elems(w) : m \in Command
    BY ElemsFacts
  <2>2. \A m \in Elems(b) : m \in Messages
    BY ElemsFacts
  <2>3. \A m \in Elems(w) : g[m.owner] = f[m.owner]
    BY <1>5, <2>1 DEF Free, Command
  <2>4. \A m \in Elems(b) : m.kind = "reply" => g[m.work.owner] = f[m.work.owner]
    BY <1>5, <2>2 DEF Free, Messages
  <2> QED BY <2>3, <2>4 DEF Held
<1> QED BY <1>1, <1>2, <1>3, <1>4, <1>5

\* An owner that nothing is under way for takes up something else, and sends a
\* command if that is what it awaits.
LEMMA FlightStep ==
  ASSUME Typed, NEW o \in Owners, inbox' \in Seq(Messages),
         Alone(wire, inbox'), Held(wire, inbox', Awaits), Free(o, wire, inbox'),
         \A q \in Owners : OnTarget(Awaits[q]),
         \A q \in Owners : q # o => Awaits'[q] = Awaits[q],
         OnTarget(Awaits'[o]),
         \/ wire' = wire
         \/ \E a \in Commands, p \in Paths : Send(a, p, o) /\ Awaits'[o] = Doing(a, p)
  PROVE  Flight'
<1>1. wire \in Seq(Command)
  BY DEF Typed, Command
<1>2. \A q \in Owners : OnTarget(Awaits'[q])
  OBVIOUS
<1>3. Held(wire, inbox', Awaits')
  BY <1>1, HeldFacts
<1>4. CASE wire' = wire
  BY <1>2, <1>3, <1>4 DEF Flight, Alone, Held, Elems, OnTarget, Doing
<1>5. ASSUME NEW a \in Commands, NEW p \in Paths, Send(a, p, o), Awaits'[o] = Doing(a, p)
      PROVE  Flight'
  <2> DEFINE m == [op |-> a, path |-> p, owner |-> o]
  <2>1. m \in Command /\ m.owner = o /\ m.op = a /\ m.path = p /\ wire' = Append(wire, m)
    BY <1>5 DEF Command, Send
  <2> HIDE DEF m
  <2>2. Alone(wire', inbox')
    BY <1>1, <2>1, AloneSend
  <2>3. Held(wire', inbox', Awaits')
    BY <1>1, <1>3, <1>5, <2>1, HeldFacts
  <2> QED BY <1>2, <2>2, <2>3 DEF Flight, Alone, Held, Elems, OnTarget, Doing
<1> QED BY <1>4, <1>5

LEMMA ElementsTyped ==
  ASSUME Typed
  PROVE  /\ wire \in Seq(Command) /\ inbox \in Seq(Messages)
         /\ Going \subseteq Command /\ Coming \subseteq Messages
<1>1. wire \in Seq(Command) /\ inbox \in Seq(Messages)
  BY DEF Typed, Command
<1> QED BY <1>1, ElemsFacts DEF Going, Coming

\* Who awaits no command has none under way.
LEMMA RestingIsFree ==
  ASSUME Typed, Flight, NEW o \in Owners, Awaits[o].op \notin Commands
  PROVE  Free(o, wire, inbox)
<1>1. /\ \A m \in Going : m.op \in Commands /\ Awaits[m.owner] = Doing(m.op, m.path)
      /\ \A m \in Replies : /\ m.work.op \in Commands
                            /\ Awaits[m.work.owner] = Doing(m.work.op, m.work.path)
  <2>1. Going \subseteq Command /\ Coming \subseteq Messages
    BY ElementsTyped
  <2>2. \A m \in Going : Awaits[m.owner] = Doing(m.op, m.path)
    BY DEF Flight, Held, Going
  <2>3. \A m \in Replies : Awaits[m.work.owner] = Doing(m.work.op, m.work.path)
    BY DEF Flight, Held, Coming, Replies
  <2> QED BY <2>1, <2>2, <2>3 DEF Command, Messages, Replies
<1>2. \A m \in Going : m.owner # o
  BY <1>1, DoingFacts
<1>3. \A m \in Replies : m.work.owner # o
  BY <1>1, DoingFacts
<1> QED BY <1>2, <1>3 DEF Free, Going, Coming, Replies

LEMMA AwaitsFacts ==
  /\ Replay \in Owners /\ Awaits[Replay] = replaying
  /\ \A h \in Handlers : h \in Owners /\ h # Replay /\ Awaits[h] = handler[h]
  /\ \A o \in Owners : o = Replay \/ o \in Handlers
BY OwnerAssumption DEF Awaits, Owners

LEMMA RestingFacts ==
  ASSUME NEW h \in Handlers, Resting(h)
  PROVE  Awaits[h].op \notin Commands
BY AwaitsFacts, DoingFacts DEF Resting, Idle, AwaitsBody, Commands

\* What is under way, by what the session is at.
LEMMA UnderWay ==
  ASSUME Inv
  PROVE  /\ Going \subseteq Command /\ Coming \subseteq Messages
         /\ \A m \in Going : Awaits[m.owner] = Doing(m.op, m.path) /\ OnTarget(m)
         /\ \A m \in Replies : /\ Awaits[m.work.owner] = Doing(m.work.op, m.work.path)
                               /\ OnTarget(m.work)
         /\ phase # "up" =>
              /\ \A m \in Going : m.owner = Replay /\ replaying = Doing(m.op, m.path)
                                    /\ m.op \in {"register", "declare", "init"}
              /\ \A m \in Replies : /\ m.work.owner = Replay
                                    /\ replaying = Doing(m.work.op, m.work.path)
                                    /\ m.work.op \in {"register", "declare", "init"}
         /\ phase # "replaying" =>
              /\ \A m \in Going : m.owner \in Handlers
              /\ \A m \in Replies : m.work.owner \in Handlers
              /\ \A p : ~Listed(p) /\ ~Opening(p) /\ ~Busy(p) /\ ~ToCome(p)
<1>1. Going \subseteq Command /\ Coming \subseteq Messages
  BY ElementsTyped DEF Inv
<1>2. /\ \A m \in Going : /\ m.op \in Commands /\ m.owner \in Owners
                          /\ Awaits[m.owner] = Doing(m.op, m.path)
      /\ \A m \in Replies : /\ m.work.op \in Commands /\ m.work.owner \in Owners
                            /\ Awaits[m.work.owner] = Doing(m.work.op, m.work.path)
  <2>1. \A m \in Going : Awaits[m.owner] = Doing(m.op, m.path)
    BY DEF Inv, Flight, Held, Going
  <2>2. \A m \in Replies : Awaits[m.work.owner] = Doing(m.work.op, m.work.path)
    BY DEF Inv, Flight, Held, Coming, Replies
  <2> QED BY <1>1, <2>1, <2>2 DEF Command, Messages, Replies
<1>3. /\ \A m \in Going : OnTarget(m)
      /\ \A m \in Replies : OnTarget(m.work)
  <2>1. \A o \in Owners : OnTarget(Awaits[o])
    BY DEF Inv, Flight
  <2> QED BY <1>2, <2>1, DoingFacts DEF OnTarget
<1>4. ASSUME phase # "up"
      PROVE  /\ \A m \in Going : m.owner = Replay /\ replaying = Doing(m.op, m.path)
                                   /\ m.op \in {"register", "declare", "init"}
             /\ \A m \in Replies : /\ m.work.owner = Replay
                                   /\ replaying = Doing(m.work.op, m.work.path)
                                   /\ m.work.op \in {"register", "declare", "init"}
  <2>1. \A h \in Handlers : Awaits[h].op \notin Commands
    BY <1>4, RestingFacts DEF Inv, Sessions
  <2>2. /\ \A m \in Going : m.owner = Replay
        /\ \A m \in Replies : m.work.owner = Replay
    BY <1>2, <2>1, AwaitsFacts, DoingFacts
  <2>3. replaying.op \in {"none", "register", "declare", "init"}
    BY DEF Inv, Sessions
  <2>4. "none" \notin Commands
    BY DEF Commands
  <2> QED BY <1>2, <2>2, <2>3, <2>4, AwaitsFacts, DoingFacts
<1>5. ASSUME phase # "replaying"
      PROVE  /\ \A m \in Going : m.owner \in Handlers
             /\ \A m \in Replies : m.work.owner \in Handlers
             /\ \A p : ~Listed(p) /\ ~Opening(p) /\ ~Busy(p) /\ ~ToCome(p)
  <2>1. agenda = NoAgenda /\ replaying = Nothing
    BY <1>5 DEF Inv, Sessions
  <2>2. \A p : ~Listed(p) /\ ~Opening(p) /\ ~Busy(p)
    BY <2>1, DoingFacts DEF Listed, Opening, Busy, NoAgenda, Commands
  <2>3. \A p : ~ToCome(p)
    BY <2>2 DEF ToCome
  <2> QED BY <1>2, <2>1, <2>2, <2>3, AwaitsFacts, DoingFacts
<1> QED BY <1>1, <1>2, <1>3, <1>4, <1>5

\* What the realm answers comes back in a reply, and in keys that changed.
ReplyTo(m, ok) == [kind |-> "reply", work |-> m, ok |-> ok, delta |-> NoDelta]
KeysOf(m, ok, delta) == [kind |-> "delta", work |-> m, ok |-> ok, delta |-> delta]

LEMMA ReplyFacts ==
  ASSUME NEW m \in Command, NEW ok \in BOOLEAN,
         NEW delta \in [add : SUBSET Decls, remove : SUBSET Decls]
  PROVE  /\ ReplyTo(m, ok) \in Messages /\ ReplyTo(m, ok).kind = "reply"
         /\ ReplyTo(m, ok).work = m /\ ReplyTo(m, ok).ok = ok
         /\ ReplyTo(m, ok).delta.remove = {} /\ ReplyTo(m, ok).delta.add = {}
         /\ KeysOf(m, ok, delta) \in Messages /\ KeysOf(m, ok, delta).kind = "delta"
         /\ KeysOf(m, ok, delta).delta = delta
<1>1. NoDelta \in [add : SUBSET Decls, remove : SUBSET Decls]
      /\ NoDelta.remove = {} /\ NoDelta.add = {}
  BY DEF NoDelta
<1> HIDE DEF NoDelta
<1>2. ReplyTo(m, ok) \in Messages /\ KeysOf(m, ok, delta) \in Messages
  BY <1>1 DEF ReplyTo, KeysOf, Messages, Command
<1> QED BY <1>1, <1>2 DEF ReplyTo, KeysOf

LEMMA AnswerFacts ==
  ASSUME Typed, NEW m \in Command, NEW ok \in BOOLEAN,
         NEW delta \in [add : SUBSET Decls, remove : SUBSET Decls],
         Answer(m, ok, delta),
         NEW w \in Seq(Command), Alone(w, inbox), Held(w, inbox, Awaits),
         Free(m.owner, w, inbox), Awaits[m.owner] = Doing(m.op, m.path)
  PROVE  /\ inbox' \in Seq(Messages)
         /\ Replies' = Replies \cup {ReplyTo(m, ok)}
         /\ \A e \in Coming' : e \in Coming \cup {ReplyTo(m, ok), KeysOf(m, ok, delta)}
         /\ Alone(w, inbox') /\ Held(w, inbox', Awaits)
<1> DEFINE r == ReplyTo(m, ok)
           k == KeysOf(m, ok, delta)
<1>1. /\ inbox \in Seq(Messages) /\ r \in Messages /\ k \in Messages
      /\ r.kind = "reply" /\ r.work = m /\ k.kind # "reply"
  BY ReplyFacts DEF Typed
<1>2. \/ inbox' = Append(inbox, r)
      \/ inbox' = Append(Append(inbox, k), r)
      \/ inbox' = Append(Append(inbox, r), k)
  BY DEF Answer, ReplyTo, KeysOf
<1> HIDE DEF r, k
<1>3. /\ Append(inbox, k) \in Seq(Messages) /\ Elems(Append(inbox, k)) = Coming \cup {k}
      /\ Append(inbox, r) \in Seq(Messages) /\ Elems(Append(inbox, r)) = Coming \cup {r}
  BY <1>1, ElemsFacts DEF Coming
<1>4. /\ Alone(w, Append(inbox, r)) /\ Held(w, Append(inbox, r), Awaits)
      /\ Alone(w, Append(inbox, k)) /\ Held(w, Append(inbox, k), Awaits)
  BY <1>1, AloneBack, HeldFacts
<1>5. Free(m.owner, w, Append(inbox, k))
  BY <1>1, <1>3 DEF Free, Coming
<1>6. CASE inbox' = Append(inbox, r)
  <2>1. Coming' = Coming \cup {r}
    BY <1>3, <1>6 DEF Coming, Elems
  <2> QED BY <1>1, <1>3, <1>4, <1>6, <2>1 DEF Replies, r, k
<1>7. CASE inbox' = Append(Append(inbox, k), r)
  <2>1. inbox' \in Seq(Messages) /\ Elems(inbox') = Coming \cup {k, r}
    <3> DEFINE a == Append(inbox, k)
    <3>1. a \in Seq(Messages) /\ Elems(a) = Coming \cup {k} /\ inbox' = Append(a, r)
      BY <1>3, <1>7
    <3> HIDE DEF a
    <3>2. inbox' \in Seq(Messages) /\ Elems(inbox') = Elems(a) \cup {r}
      BY <1>1, <3>1, ElemsFacts
    <3> QED BY <3>1, <3>2
  <2>2. Coming' = Coming \cup {k, r}
    BY <2>1 DEF Coming, Elems
  <2>3. Alone(w, inbox') /\ Held(w, inbox', Awaits)
    BY <1>1, <1>3, <1>4, <1>5, <1>7, AloneBack, HeldFacts
  <2> QED BY <1>1, <2>1, <2>2, <2>3 DEF Replies, r, k
<1>8. CASE inbox' = Append(Append(inbox, r), k)
  <2>1. inbox' \in Seq(Messages) /\ Elems(inbox') = Coming \cup {k, r}
    <3> DEFINE a == Append(inbox, r)
    <3>1. a \in Seq(Messages) /\ Elems(a) = Coming \cup {r} /\ inbox' = Append(a, k)
      BY <1>3, <1>8
    <3> HIDE DEF a
    <3>2. inbox' \in Seq(Messages) /\ Elems(inbox') = Elems(a) \cup {k}
      BY <1>1, <3>1, ElemsFacts
    <3> QED BY <3>1, <3>2
  <2>2. Coming' = Coming \cup {k, r}
    BY <2>1 DEF Coming, Elems
  <2>3. Alone(w, inbox') /\ Held(w, inbox', Awaits)
    BY <1>1, <1>3, <1>4, <1>8, AloneBack, HeldFacts
  <2> QED BY <1>1, <2>1, <2>2, <2>3 DEF Replies, r, k
<1> QED BY <1>2, <1>6, <1>7, <1>8

-----------------------------------------------------------------------------
(* The handlers *)

LEMMA ReplayAtRest ==
  ASSUME agenda' = NoAgenda, replaying' = Nothing, phase' # "replaying"
  PROVE  Descends' /\ Rooted' /\ Reported' /\ Spared'
<1>1. \A p : ~Listed(p)' /\ ~Opening(p)' /\ ~Busy(p)'
  BY DoingFacts DEF Listed, Opening, Busy, NoAgenda, Commands
<1> QED BY <1>1 DEF Descends, Rooted, Reported, Spared

\* A new path below a stored parent.
LEMMA StoreFacts ==
  ASSUME Typed, NEW p \in Paths, Storable(p), stored' = stored \cup {p}
  PROVE  stored' \subseteq Paths /\ \A q \in stored' : Storable(q)'
BY DEF Typed, Storable

\* With the session up, a handler sends a command, for a path that is stored now
\* or was before.
LEMMA HandlerSends ==
  ASSUME Inv, phase = "up", NEW h \in Handlers, Resting(h),
         NEW a \in Commands, NEW p \in Paths, OnTarget(Doing(a, p)),
         handler' = [handler EXCEPT ![h] = Doing(a, p)], Send(a, p, h),
         \/ stored' = stored
         \/ stored' = stored \cup {p} /\ Storable(p) /\ a \in {"register", "declare"},
         UNCHANGED <<phase, cache, agenda, replaying, inbox, declared, value, faults,
                     wiped, acked, late, stale, refused, cut>>
  PROVE  Inv'
<1> DEFINE m == [op |-> a, path |-> p, owner |-> h]
<1>1. m \in Command /\ m.op = a /\ m.path = p /\ wire' = Append(wire, m)
  BY AwaitsFacts DEF Command, Send
<1> HIDE DEF m
<1>2. /\ wire \in Seq(Command) /\ inbox \in Seq(Messages)
      /\ wire' \in Seq(Command) /\ Elems(wire') = Going \cup {m}
  BY <1>1, ElementsTyped, ElemsFacts DEF Inv, Going
<1>3. Going' = Going \cup {m} /\ Replies' = Replies /\ Coming' = Coming
  BY <1>2 DEF Going, Coming, Replies, Elems
<1>4. stored' \subseteq Paths /\ \A q \in stored' : Storable(q)'
  BY StoreFacts DEF Inv, Typed, Storable
<1>5. handler' \in [Handlers -> Work]
  BY DoingFacts DEF Inv, Typed
<1>6. Typed'
  BY <1>2, <1>4, <1>5 DEF Inv, Typed, Command
<1>7. ReplayNeverWipes'
  BY DEF Inv, ReplayNeverWipes
<1>8. Flight'
  <2>1. Free(h, wire, inbox)
    BY RestingFacts, RestingIsFree, AwaitsFacts DEF Inv
  <2>2. /\ Awaits'[h] = Doing(a, p)
        /\ \A q \in Owners : q # h => Awaits'[q] = Awaits[q]
    BY AwaitsFacts DEF Inv, Typed, Awaits
  <2> QED BY <1>2, <2>1, <2>2, FlightStep, AwaitsFacts DEF Inv, Flight
<1>9. Sessions'
  BY DEF Inv, Sessions
<1>10. Descends' /\ Rooted' /\ Reported' /\ Spared'
  BY ReplayAtRest DEF Inv, Sessions
<1>11. Remembered'
  BY <1>1, <1>3 DEF Inv, Remembered
<1>12. Promised'
  BY <1>3 DEF Inv, Promised
<1> QED BY <1>6, <1>7, <1>8, <1>9, <1>10, <1>11, <1>12 DEF Inv

\* A handler that awaits no reply goes on to await no reply.
LEMMA HandlerRests ==
  ASSUME Inv, NEW h \in Handlers, Resting(h), NEW w \in Work,
         w = Nothing \/ w.op = "body", OnTarget(w),
         handler' = [handler EXCEPT ![h] = w],
         UNCHANGED <<stored, phase, cache, agenda, replaying, wire, inbox, declared,
                     value, faults, wiped, acked, late, stale, refused, cut>>
  PROVE  Inv'
<1>1. Typed'
  BY DEF Inv, Typed, Storable
<1>2. Going' = Going /\ Coming' = Coming /\ Replies' = Replies
  BY DEF Going, Coming, Replies, Elems
<1>3. Flight'
  <2>1. Free(h, wire, inbox)
    BY RestingFacts, RestingIsFree, AwaitsFacts DEF Inv
  <2>2. Awaits'[h] = w /\ \A q \in Owners : q # h => Awaits'[q] = Awaits[q]
    BY AwaitsFacts DEF Inv, Typed, Awaits
  <2>3. OnTarget(Awaits'[h])
    BY <2>2 DEF OnTarget
  <2>4. inbox' \in Seq(Messages)
    BY DEF Inv, Typed
  <2> QED BY <2>1, <2>2, <2>3, <2>4, FlightStep, AwaitsFacts DEF Inv, Flight
<1>4. Sessions'
  <2>1. \A g \in Handlers : Resting(g) => Resting(g)'
    BY DEF Inv, Typed, Resting, Idle, AwaitsBody
  <2> QED BY <2>1 DEF Inv, Sessions
<1>5. Descends' /\ Rooted'
  BY DEF Inv, Descends, Rooted, Listed, Opening, Busy
<1>6. Reported' /\ Spared' /\ Remembered' /\ Promised' /\ ReplayNeverWipes'
  BY <1>2 DEF Inv, Reported, Spared, Remembered, Promised, ReplayNeverWipes,
              ToCome, Listed, Opening
<1> QED BY <1>1, <1>3, <1>4, <1>5, <1>6 DEF Inv

LEMMA PutOnWireKeeps ==
  ASSUME Inv, NEW h \in Handlers, NEW p \in Paths, PutOnWire(h, p)
  PROVE  Inv'
<1>1. OnTarget(Doing("register", p)) /\ "register" \in Commands
  BY DoingFacts DEF PutOnWire, OnTarget, Commands
<1> QED BY <1>1, HandlerSends DEF PutOnWire, Write, Connected, Resting, realmVars, ghostVars

LEMMA DeleteKeeps ==
  ASSUME Inv, NEW h \in Handlers, NEW p \in Paths, Delete(h, p)
  PROVE  Inv'
<1>1. OnTarget(Doing("purge", p)) /\ "purge" \in Commands
  BY DoingFacts DEF OnTarget, Commands
<1> QED BY <1>1, HandlerSends DEF Delete, Connected, Resting, realmVars, ghostVars

LEMMA PutPropertyKeeps ==
  ASSUME Inv, NEW h \in Handlers, PutProperty(h)
  PROVE  Inv'
<1> DEFINE p == handler[h].path
<1>1. OnTarget(handler[h]) /\ handler[h] \in Work /\ handler[h].op = "body"
  BY AwaitsFacts DEF Inv, Typed, Flight, PutProperty, AwaitsBody
<1>2. p \in Decls /\ p \in Paths
  BY <1>1 DEF OnTarget, Paths
<1>3. OnTarget(Doing("property", p)) /\ "property" \in Commands
  BY <1>2, DoingFacts DEF OnTarget, Commands
<1> QED BY <1>2, <1>3, HandlerSends
       DEF PutProperty, Write, Connected, Resting, realmVars, ghostVars

LEMMA PropertyRequestedKeeps ==
  ASSUME Inv, NEW h \in Handlers, NEW d \in Decls, PropertyRequested(h, d)
  PROVE  Inv'
<1>1. Doing("body", d) \in Work /\ Doing("body", d).op = "body" /\ OnTarget(Doing("body", d))
  BY DoingFacts DEF OnTarget, Paths
<1> QED BY <1>1, HandlerRests DEF PropertyRequested, Resting, realmVars, ghostVars

LEMMA BodyFailsKeeps ==
  ASSUME Inv, NEW h \in Handlers, BodyFails(h)
  PROVE  Inv'
<1>1. Nothing \in Work /\ OnTarget(Nothing)
  BY DoingFacts DEF OnTarget
<1> QED BY <1>1, HandlerRests DEF BodyFails, Resting, realmVars, ghostVars

\* What only reports, or stores what needs no command.
LEMMA PutDeclarationAgainKeeps ==
  ASSUME Inv, NEW d \in Decls, PutDeclarationAgain(d)
  PROVE  Inv'
<1>1. /\ acked' \subseteq Decls
      /\ UNCHANGED <<stored, phase, cache, agenda, replaying, handler, wire, inbox,
                     declared, value, faults, wiped, late, stale, refused, cut>>
  BY DEF PutDeclarationAgain, gatewayVars, realmVars, Inv, Typed
<1>2. Typed'
  BY <1>1 DEF Inv, Typed, Storable
<1>3. Going' = Going /\ Coming' = Coming /\ Replies' = Replies /\ Awaits' = Awaits
  BY <1>1 DEF Going, Coming, Replies, Elems, Awaits
<1>4. Flight'
  BY <1>1, <1>3 DEF Inv, Flight, Alone, Held, Elems, OnTarget, Doing
<1>5. Sessions' /\ Descends' /\ Rooted'
  BY <1>1 DEF Inv, Sessions, Resting, Idle, AwaitsBody, Descends, Rooted, Listed, Opening, Busy
<1>6. Reported' /\ Spared' /\ Remembered' /\ Promised' /\ ReplayNeverWipes'
  BY <1>1, <1>3 DEF Inv, Reported, Spared, Remembered, Promised, ReplayNeverWipes,
                    ToCome, Listed, Opening
<1> QED BY <1>2, <1>4, <1>5, <1>6 DEF Inv

LEMMA PutDeclarationKeeps ==
  ASSUME Inv, NEW h \in Handlers, NEW d \in Decls, PutDeclaration(h, d)
  PROVE  Inv'
<1>1. d \in Paths /\ phase = "up" /\ Resting(h) /\ Storable(d) /\ stored' = stored \cup {d}
  BY DEF PutDeclaration, Connected, Resting, Paths
<1>2. CASE AlreadyDeclared(d)
  <2>1. /\ acked' = acked \cup {d} /\ stale' = stale \cup ({d} \ declared)
        /\ UNCHANGED <<phase, cache, agenda, replaying, handler, wire, inbox, declared,
                       value, faults, wiped, late, refused, cut>>
    BY <1>2 DEF PutDeclaration, realmVars
  <2>2. Typed'
    BY <1>1, <2>1, StoreFacts DEF Inv, Typed
  <2>3. Going' = Going /\ Coming' = Coming /\ Replies' = Replies /\ Awaits' = Awaits
    BY <2>1 DEF Going, Coming, Replies, Elems, Awaits
  <2>4. Flight'
    BY <2>1, <2>3 DEF Inv, Flight, Alone, Held, Elems, OnTarget, Doing
  <2>5. Sessions' /\ Promised' /\ ReplayNeverWipes'
    BY <2>1, <2>3 DEF Inv, Sessions, Resting, Idle, AwaitsBody, Promised, ReplayNeverWipes
  <2>6. Descends' /\ Rooted' /\ Reported' /\ Spared'
    BY <1>1, <2>1, ReplayAtRest DEF Inv, Sessions
  <2>7. Remembered'
    BY <1>1, <2>1, <2>3 DEF Inv, Remembered
  <2> QED BY <2>2, <2>4, <2>5, <2>6, <2>7 DEF Inv
<1>3. CASE ~AlreadyDeclared(d)
  <2>1. OnTarget(Doing("declare", d)) /\ "declare" \in Commands
    BY DoingFacts DEF OnTarget, Commands
  <2> QED BY <1>1, <1>3, <2>1, HandlerSends DEF PutDeclaration, Write, realmVars
<1> QED BY <1>2, <1>3

LEMMA PutPendingKeeps ==
  ASSUME Inv, NEW p \in Paths, PutPending(p)
  PROVE  Inv'
<1>1. /\ phase # "up" /\ Storable(p) /\ stored' = stored \cup {p}
      /\ late' = IF phase = "replaying" THEN late \cup {p} ELSE late
      /\ UNCHANGED <<phase, cache, agenda, replaying, handler, wire, inbox, declared,
                     value, faults, wiped, acked, stale, refused, cut>>
  BY DEF PutPending, Connected, realmVars
<1>2. Typed'
  BY <1>1, StoreFacts DEF Inv, Typed
<1>3. Going' = Going /\ Coming' = Coming /\ Replies' = Replies /\ Awaits' = Awaits
  BY <1>1 DEF Going, Coming, Replies, Elems, Awaits
<1>4. Flight'
  BY <1>1, <1>3 DEF Inv, Flight, Alone, Held, Elems, OnTarget, Doing
<1>5. Sessions' /\ Promised' /\ ReplayNeverWipes' /\ Descends' /\ Rooted'
  BY <1>1, <1>3 DEF Inv, Sessions, Resting, Idle, AwaitsBody, Promised, ReplayNeverWipes,
                    Descends, Rooted, Listed, Opening, Busy
<1>6. Reported' /\ Spared' /\ Remembered'
  BY <1>1, <1>3 DEF Inv, Reported, Spared, Remembered, ToCome, Listed, Opening
<1> QED BY <1>2, <1>4, <1>5, <1>6 DEF Inv

-----------------------------------------------------------------------------
(* The session *)

\* The replay captures the nodes of the tree: every stored path is below one.
LEMMA ConnectKeeps ==
  ASSUME Inv, Connect
  PROVE  Inv'
<1>1. /\ phase = "down" /\ phase' = "replaying" /\ cache' = declared \cap Decls
      /\ agenda' = [nodes |-> stored \cap Nodes, contexts |-> {}, decls |-> {}]
      /\ late' = {} /\ stale' = {} /\ refused' = {}
      /\ UNCHANGED <<stored, replaying, handler, wire, inbox, declared, value, faults,
                     wiped, acked, cut>>
  BY DEF Connect, realmVars, NoAgenda
<1>2. /\ wire = <<>> /\ inbox = <<>> /\ replaying = Nothing
      /\ Going = {} /\ Coming = {} /\ Replies = {}
  BY <1>1 DEF Inv, Sessions, Going, Coming, Replies, Elems
<1>3. Going' = {} /\ Coming' = {} /\ Replies' = {} /\ Awaits' = Awaits
  BY <1>1, <1>2 DEF Going, Coming, Replies, Elems, Awaits
<1>4. Typed'
  <2>1. agenda' \in [nodes : SUBSET Nodes, contexts : SUBSET Contexts, decls : SUBSET Decls]
    BY <1>1
  <2> QED BY <1>1, <2>1 DEF Inv, Typed, Storable
<1>5. Flight'
  BY <1>1, <1>3 DEF Inv, Flight, Alone, Held, Elems, OnTarget, Doing
<1>6. Sessions' /\ Promised' /\ ReplayNeverWipes'
  BY <1>1, <1>2, <1>3 DEF Inv, Sessions, Resting, Idle, AwaitsBody, Promised, ReplayNeverWipes
<1>7. \A p : ~Opening(p)' /\ ~Busy(p)'
  BY <1>1, <1>2, DoingFacts DEF Opening, Busy, Commands
<1>8. \A p : Listed(p)' <=> p \in stored \cap Nodes
  BY <1>1 DEF Listed
<1>9. Descends' /\ Rooted'
  <2>1. \A p \in Nodes : Above(p)' = {}
    BY AboveFacts DEF Above
  <2> QED BY <1>1, <1>7, <1>8, <2>1 DEF Descends, Rooted
<1>10. Reported' /\ Spared'
  BY <1>1, <1>2, <1>3, DoingFacts DEF Reported, Spared, Commands
<1>11. Remembered'
  <2>1. ASSUME NEW p \in stored PROVE ToCome(p)'
    <3>1. p \in Paths /\ (p \notin Nodes => Parent[p] \in stored)
      BY DEF Inv, Typed, Storable
    <3>2. CASE p \in Nodes
      BY <1>8, <2>1, <3>2 DEF ToCome
    <3>3. CASE p \in Contexts
      <4>1. Parent[p] \in stored \cap Nodes /\ Parent[p] \in Above(p)
        BY <3>1, <3>3, TreeFacts, AboveFacts
      <4> QED BY <1>8, <4>1 DEF ToCome, Above
    <3>4. CASE p \in Decls
      <4>1. Parent[p] \in stored /\ Parent[p] \in Contexts
        BY <3>1, <3>4, TreeFacts
      <4>2. Parent[Parent[p]] \in stored \cap Nodes
        BY <4>1, TreeFacts DEF Inv, Typed, Storable
      <4>3. Parent[Parent[p]] \in Above(p)
        BY <3>4, AboveFacts
      <4> QED BY <1>8, <4>2, <4>3 DEF ToCome, Above
    <3> QED BY <3>1, <3>2, <3>3, <3>4, TreeFacts
  <2> QED BY <1>1, <2>1 DEF Remembered
<1> QED BY <1>4, <1>5, <1>6, <1>9, <1>10, <1>11 DEF Inv

\* Whoever declares or gives initial values when the session goes is cut short.
LEMMA LoseSessionKeeps ==
  ASSUME Inv, LoseSession, faults' \in Nat,
         UNCHANGED <<stored, declared, value, wiped, acked, late, stale, refused>>
  PROVE  Inv'
<1> DEFINE lost == Uninitialised
<1>1. /\ cut' = cut \cup lost /\ phase' = "down" /\ cache' = {} /\ agenda' = NoAgenda
      /\ replaying' = Nothing /\ wire' = <<>> /\ inbox' = <<>>
      /\ handler' = [h \in Handlers |-> IF AwaitsBody(h) THEN handler[h] ELSE Nothing]
  BY DEF LoseSession
<1>2. lost \subseteq Decls
  BY DEF Uninitialised, Declaring
<1>3. \A h \in Handlers : handler'[h] \in Work /\ OnTarget(handler'[h]) /\ Resting(h)'
  <2>1. ASSUME NEW h \in Handlers, AwaitsBody(h)
        PROVE  handler'[h] = handler[h] /\ OnTarget(handler[h])
    BY <1>1, <2>1, AwaitsFacts DEF Inv, Flight
  <2>2. ASSUME NEW h \in Handlers, ~AwaitsBody(h)
        PROVE  handler'[h] = Nothing
    BY <1>1, <2>2
  <2>3. OnTarget(Nothing)
    BY DoingFacts DEF OnTarget
  <2> QED BY <2>1, <2>2, <2>3, DoingFacts DEF Inv, Typed, Resting, Idle, AwaitsBody
<1>4. Going' = {} /\ Coming' = {} /\ Replies' = {}
  BY <1>1 DEF Going, Coming, Replies, Elems
<1> HIDE DEF lost
<1>5. Typed'
  <2>1. wire' \in Seq([op : Commands, path : Paths, owner : Owners]) /\ inbox' \in Seq(Messages)
    BY <1>1
  <2>2. agenda' \in [nodes : SUBSET Nodes, contexts : SUBSET Contexts, decls : SUBSET Decls]
    BY <1>1 DEF NoAgenda
  <2>3. handler' \in [Handlers -> Work] /\ replaying' \in Work /\ replaying'.op # "body"
    BY <1>1, <1>3, DoingFacts
  <2> QED BY <1>1, <1>2, <2>1, <2>2, <2>3 DEF Inv, Typed, Storable
<1>6. Flight'
  <2>1. \A o \in Owners : OnTarget(Awaits'[o])
    BY <1>1, <1>3, AwaitsFacts, DoingFacts DEF Awaits, OnTarget
  <2>2. Alone(wire', inbox') /\ Held(wire', inbox', Awaits')
    BY <1>1 DEF Alone, Held, Elems
  <2> QED BY <2>1, <2>2 DEF Flight, Alone, Held, Elems, OnTarget, Doing
<1>7. Sessions'
  BY <1>1, <1>3, DoingFacts DEF Sessions
<1>8. Descends' /\ Rooted' /\ Reported' /\ Spared'
  BY <1>1, ReplayAtRest
<1>9. Remembered' /\ ReplayNeverWipes'
  BY <1>1 DEF Inv, Remembered, ReplayNeverWipes
<1>10. Promised'
  <2> SUFFICES ASSUME NEW d \in (Decls \cap declared) \ cut, value[d] = "empty"
               PROVE  d \in lost
    BY <1>1 DEF Promised
  <2>1. PICK o \in Owners : \E a \in {"declare", "init"} : Awaits[o] = Doing(a, d)
    <3>1. CASE \E m \in Going : m.op = "init" /\ m.path = d
      BY <3>1, UnderWay DEF Command
    <3>2. CASE \E m \in Replies : m.work.path = d /\ m.work.op \in {"declare", "init"}
      BY <3>2, UnderWay DEF Messages, Replies
    <3> QED BY <3>1, <3>2 DEF Inv, Promised
  <2>2. d \in Declaring(Awaits[o])
    BY <2>1 DEF Declaring
  <2> QED BY <2>2, AwaitsFacts DEF lost, Uninitialised
<1> QED BY <1>5, <1>6, <1>7, <1>8, <1>9, <1>10 DEF Inv

LEMMA DropKeeps ==
  ASSUME Inv, Drop
  PROVE  Inv'
<1>1. faults' \in Nat
  BY DEF Drop, Fault, Inv, Typed
<1> QED BY <1>1, LoseSessionKeeps DEF Drop, realmVars

LEMMA ReplayDoneKeeps ==
  ASSUME Inv, ReplayDone
  PROVE  Inv'
<1>1. /\ phase = "replaying" /\ phase' = "up" /\ agenda = NoAgenda /\ replaying = Nothing
      /\ UNCHANGED <<stored, cache, agenda, replaying, handler, wire, inbox, declared,
                     value, faults, wiped, acked, late, stale, refused, cut>>
  BY DEF ReplayDone, LoopFree, realmVars, ghostVars
<1>2. Typed'
  BY <1>1 DEF Inv, Typed, Storable
<1>3. Going' = Going /\ Coming' = Coming /\ Replies' = Replies /\ Awaits' = Awaits
  BY <1>1 DEF Going, Coming, Replies, Elems, Awaits
<1>4. Flight'
  BY <1>1, <1>3 DEF Inv, Flight, Alone, Held, Elems, OnTarget, Doing
<1>5. Sessions' /\ Promised' /\ ReplayNeverWipes'
  BY <1>1, <1>3 DEF Inv, Sessions, Resting, Idle, AwaitsBody, Promised, ReplayNeverWipes
<1>6. Descends' /\ Rooted' /\ Reported' /\ Spared'
  BY <1>1, ReplayAtRest
<1>7. Remembered'
  <2>1. \A p : ~Listed(p) /\ ~Opening(p) /\ ~ToCome(p)
    BY <1>1, DoingFacts DEF Listed, Opening, ToCome, NoAgenda, Commands
  <2>2. \A p : replaying \notin {Doing("register", p), Doing("declare", p)}
    BY <1>1, DoingFacts DEF Commands
  <2> QED BY <1>1, <2>1, <2>2 DEF Inv, Remembered
<1> QED BY <1>2, <1>4, <1>5, <1>6, <1>7 DEF Inv

-----------------------------------------------------------------------------
(* The replay *)

LEMMA AboveLevels ==
  /\ \A p \in Paths : p \notin Above(p)
  /\ \A q \in Paths : \A p \in Above(q) : p \in Nodes \cup Contexts
  /\ \A p \in Paths : \A q \in Children(p) : Above(q) = {p} \cup Above(p)
  /\ \A p \in Paths : \A q \in Children(p) : q \in Paths /\ q # p /\ q \notin Above(p)
  /\ \A q \in Paths : \A p \in Above(q) :
       q \in Children(p) \/ (q \in Decls /\ Parent[q] \in Children(p) /\ Parent[q] \in Above(q))
<1>2. ASSUME NEW q \in Paths, NEW p \in Above(q)
      PROVE  p \in Nodes \cup Contexts /\ p # q
  <2>1. CASE q \in Contexts
    BY <1>2, <2>1, AboveFacts, TreeFacts
  <2>2. CASE q \in Decls
    BY <1>2, <2>2, AboveFacts, TreeFacts
  <2> QED BY <1>2, <2>1, <2>2, AboveFacts, TreeFacts
<1>1. \A p \in Paths : p \notin Above(p)
  BY <1>2
<1>3. ASSUME NEW p \in Paths, NEW q \in Children(p)
      PROVE  /\ Above(q) = {p} \cup Above(p)
             /\ q \in Paths /\ q # p /\ q \notin Above(p)
  <2>1. q \in Contexts \cup Decls /\ Parent[q] = p
    BY ChildrenFacts
  <2>2. CASE q \in Contexts
    BY <2>1, <2>2, AboveFacts, TreeFacts DEF Paths
  <2>3. CASE q \in Decls
    BY <2>1, <2>3, AboveFacts, TreeFacts DEF Paths
  <2> QED BY <2>1, <2>2, <2>3
<1>4. ASSUME NEW q \in Paths, NEW p \in Above(q)
      PROVE  q \in Children(p) \/ (q \in Decls /\ Parent[q] \in Children(p) /\ Parent[q] \in Above(q))
  <2>1. CASE q \in Contexts
    BY <1>4, <2>1, AboveFacts, ChildrenFacts
  <2>2. CASE q \in Decls
    BY <1>4, <2>2, AboveFacts, ChildrenFacts, TreeFacts
  <2> QED BY <1>4, <2>1, <2>2, AboveFacts, TreeFacts
<1> QED BY <1>1, <1>2, <1>3, <1>4

LEMMA ListedFacts ==
  ASSUME Typed
  PROVE  /\ \A p \in Nodes : Listed(p) <=> p \in agenda.nodes
         /\ \A p \in Contexts : Listed(p) <=> p \in agenda.contexts
         /\ \A p \in Decls : Listed(p) <=> p \in agenda.decls
         /\ \A p : Listed(p) => p \in Paths
<1>1. /\ agenda.nodes \subseteq Nodes /\ agenda.contexts \subseteq Contexts
      /\ agenda.decls \subseteq Decls
  BY DEF Typed
<1> QED BY <1>1, TreeFacts DEF Listed, Paths

\* The replay takes a path off its list: it skips it, or sends its command.
LEMMA ReplayTakes ==
  ASSUME Inv, phase = "replaying", replaying = Nothing,
         NEW p \in Paths, Listed(p),
         \A q \in Paths : p \in Above(q) => ~Listed(q),
         agenda' \in [nodes : SUBSET Nodes, contexts : SUBSET Contexts, decls : SUBSET Decls],
         \A q : Listed(q)' <=> Listed(q) /\ q # p,
         p \notin Decls => agenda'.decls = {} /\ (p \in Nodes => agenda'.contexts = {}),
         \/ p \in cache /\ p \in Decls /\ UNCHANGED <<replaying, wire>>
         \/ p \notin cache /\ p \in Decls /\ AwaitReplay("declare", p)
         \/ p \notin Decls /\ AwaitReplay("register", p),
         UNCHANGED <<stored, phase, cache, handler, inbox, declared, value, faults,
                     wiped, acked, late, stale, refused, cut>>
  PROVE  Inv'
<1> DEFINE op == IF p \in Decls THEN "declare" ELSE "register"
           m == [op |-> op, path |-> p, owner |-> Replay]
<1>1. \/ p \in cache /\ p \in Decls /\ replaying' = Nothing /\ wire' = wire
      \/ replaying' = Doing(op, p) /\ Send(op, p, Replay) /\ (p \in Decls => p \notin cache)
  BY DEF AwaitReplay
<1>2. op \in Commands /\ OnTarget(Doing(op, p)) /\ op \in {"declare", "register"}
  BY DoingFacts, TreeFacts DEF Commands, OnTarget
<1>3. /\ m \in Command /\ m.op = op /\ m.path = p
      /\ Send(op, p, Replay) => wire' = Append(wire, m)
  BY <1>2, AwaitsFacts DEF Command, Send
<1> HIDE DEF m, op
<1>4. /\ wire' \in Seq(Command) /\ (Going' = Going \/ (Going' = Going \cup {m} /\ replaying' = Doing(op, p)
                                                        /\ (p \in Decls => p \notin cache)))
      /\ Coming' = Coming /\ Replies' = Replies
  <2>1. wire \in Seq(Command) /\ Append(wire, m) \in Seq(Command)
        /\ Elems(Append(wire, m)) = Going \cup {m}
    BY <1>3, ElementsTyped, ElemsFacts DEF Inv, Going
  <2>2. Going' = Elems(wire')
    BY DEF Going, Elems
  <2>3. Coming' = Coming /\ Replies' = Replies
    BY DEF Coming, Replies, Elems
  <2> QED BY <1>1, <1>3, <2>1, <2>2, <2>3 DEF Going
<1>5. Typed'
  <2>1. replaying' \in Work /\ replaying'.op # "body"
    BY <1>1, <1>2, DoingFacts
  <2> QED BY <1>4, <2>1 DEF Inv, Typed, Storable, Command
<1>6. Flight'
  <2>1. Free(Replay, wire, inbox)
    BY RestingIsFree, AwaitsFacts, DoingFacts DEF Inv, Commands
  <2>2. /\ Awaits'[Replay] = replaying'
        /\ \A q \in Owners : q # Replay => Awaits'[q] = Awaits[q]
    BY AwaitsFacts DEF Awaits
  <2>3. OnTarget(Awaits'[Replay])
    BY <1>1, <1>2, <2>2, DoingFacts DEF OnTarget
  <2>4. inbox' \in Seq(Messages)
    BY DEF Inv, Typed
  <2>5. \/ wire' = wire
        \/ \E a \in Commands, q \in Paths : Send(a, q, Replay) /\ Awaits'[Replay] = Doing(a, q)
    BY <1>1, <1>2, <2>2
  <2>6. Alone(wire, inbox') /\ Held(wire, inbox', Awaits) /\ Free(Replay, wire, inbox')
    BY <2>1 DEF Inv, Flight
  <2> QED BY <2>2, <2>3, <2>4, <2>5, <2>6, FlightStep, AwaitsFacts DEF Inv, Flight
<1>7. Sessions'
  BY <1>1, <1>2, DoingFacts DEF Inv, Sessions, Resting, Idle, AwaitsBody
<1>8. /\ \A q : ~Opening(q) /\ ~Busy(q)
      /\ \A q : Opening(q)' => q = p /\ p \notin Decls
      /\ \A q : Busy(q)' => q = p
      /\ p \notin Decls => Opening(p)'
  <2>1. \A q : ~Opening(q) /\ ~Busy(q)
    BY DoingFacts DEF Opening, Busy, Commands
  <2>2. \A q : Opening(q)' => q = p /\ p \notin Decls
    BY <1>1, DoingFacts DEF Opening, Commands, op
  <2>3. \A q : Busy(q)' => q = p
    BY <1>1, DoingFacts DEF Busy
  <2>4. p \notin Decls => Opening(p)'
    BY <1>1 DEF Opening, op
  <2> QED BY <2>1, <2>2, <2>3, <2>4
<1>9. Descends'
  <2>1. ASSUME NEW q \in Paths, Listed(q)' \/ Busy(q)', NEW r \in Above(q)
        PROVE  ~Listed(r)' /\ ~Opening(r)'
    <3>1. Listed(q) /\ ~Listed(r)
      BY <1>8, <2>1 DEF Inv, Descends
    <3>2. Opening(r)' => FALSE
      BY <1>8, <3>1
    <3> QED BY <3>1, <3>2
  <2>2. \A q \in Paths : Busy(q)' => ~Listed(q)'
    BY <1>8
  <2>3. \A q \in Paths : Opening(q)' => agenda'.decls = {} /\ (q \in Nodes => agenda'.contexts = {})
    BY <1>8
  <2> QED BY <2>1, <2>2, <2>3 DEF Descends, Above
<1>10. Rooted'
  BY <1>8 DEF Inv, Rooted
<1>11. \A q \in Paths : ToCome(q)' => ToCome(q)
  BY <1>8 DEF ToCome, Above
<1>12. \A q \in Paths : ToCome(q) /\ q # p => ToCome(q)'
  <2>1. \A q \in Paths : \A r \in Above(q) : r = p => p \notin Decls
    BY AboveLevels, TreeFacts
  <2> QED BY <1>8, <2>1 DEF ToCome, Above
<1>13. Reported'
  BY <1>1, <1>2, <1>4, DoingFacts DEF Inv, Reported, Commands
<1>14. Spared'
  <2>1. ToCome(p)
    BY DEF ToCome
  <2>2. \A d \in Decls : ToCome(d)' /\ d \in declared => d \in cache
    BY <1>11 DEF Inv, Spared, Paths
  <2>3. p \in Decls /\ p \notin cache => p \notin declared
    BY <2>1 DEF Inv, Spared
  <2>4. m.op = "declare" => p \in Decls
    BY <1>3 DEF op
  <2> QED BY <1>3, <1>4, <2>2, <2>3, <2>4 DEF Inv, Spared
<1>15. Remembered'
  <2> SUFFICES ASSUME NEW q \in stored
               PROVE  \/ q \in declared \cup late
                      \/ ToCome(q)'
                      \/ replaying' \in {Doing("register", q), Doing("declare", q)}
    BY DEF Remembered
  <2>1. q \in Paths
    BY DEF Inv, Typed
  <2>2. q \in declared \cup late \/ ToCome(q)
    BY DoingFacts DEF Inv, Remembered, Commands
  <2>3. p \in cache => p \in declared
    BY DEF Inv, Reported
  <2> QED BY <1>1, <1>2, <1>12, <2>1, <2>2, <2>3
<1>16. Promised' /\ ReplayNeverWipes'
  BY <1>4 DEF Inv, Promised, ReplayNeverWipes
<1> QED BY <1>5, <1>6, <1>7, <1>9, <1>10, <1>13, <1>14, <1>15, <1>16 DEF Inv

LEMMA ReplayStepKeeps ==
  ASSUME Inv, ReplayStep
  PROVE  Inv'
<1>1. /\ phase = "replaying" /\ replaying = Nothing
      /\ UNCHANGED <<stored, phase, cache, handler, inbox, declared, value, faults,
                     wiped, acked, late, stale, refused, cut>>
  BY DEF ReplayStep, LoopFree, realmVars, ghostVars
<1>2. agenda \in [nodes : SUBSET Nodes, contexts : SUBSET Contexts, decls : SUBSET Decls]
  BY DEF Inv, Typed
<1>3. PICK p \in Paths : ReplayDeclaration(p) \/ ReplayContext(p) \/ ReplayNode(p)
  BY DEF ReplayStep
<1>4. CASE ReplayDeclaration(p)
  <2>1. /\ p \in Decls /\ Listed(p)
        /\ agenda' = [agenda EXCEPT !.decls = agenda.decls \ {p}]
    BY <1>2, <1>4 DEF ReplayDeclaration, Listed
  <2>2. /\ agenda' \in [nodes : SUBSET Nodes, contexts : SUBSET Contexts, decls : SUBSET Decls]
        /\ agenda'.decls = agenda.decls \ {p} /\ agenda'.contexts = agenda.contexts
        /\ agenda'.nodes = agenda.nodes
    BY <1>2, <2>1
  <2>3. \A q : Listed(q)' <=> Listed(q) /\ q # p
    BY <1>2, <2>1, <2>2, TreeFacts DEF Listed
  <2>4. \A q \in Paths : p \in Above(q) => ~Listed(q)
    BY <2>1, AboveLevels, TreeFacts
  <2>5. \/ p \in cache /\ UNCHANGED <<replaying, wire>>
        \/ p \notin cache /\ AwaitReplay("declare", p)
    BY <1>4 DEF ReplayDeclaration, AlreadyDeclared
  <2> QED BY <1>1, <2>1, <2>2, <2>3, <2>4, <2>5, ReplayTakes
<1>5. CASE ReplayContext(p)
  <2>1. /\ p \in Contexts /\ p \notin Decls /\ p \notin Nodes /\ Listed(p) /\ agenda.decls = {}
        /\ agenda' = [agenda EXCEPT !.contexts = agenda.contexts \ {p}]
        /\ AwaitReplay("register", p)
    BY <1>2, <1>5, TreeFacts DEF ReplayContext, Listed
  <2>2. /\ agenda' \in [nodes : SUBSET Nodes, contexts : SUBSET Contexts, decls : SUBSET Decls]
        /\ agenda'.decls = {} /\ agenda'.contexts = agenda.contexts \ {p}
        /\ agenda'.nodes = agenda.nodes
    BY <1>2, <2>1
  <2>3. \A q : Listed(q)' <=> Listed(q) /\ q # p
    BY <1>2, <2>1, <2>2 DEF Listed
  <2>4. \A q \in Paths : p \in Above(q) => ~Listed(q)
    BY <2>1, AboveFacts, TreeFacts, ListedFacts DEF Inv
  <2> QED BY <1>1, <2>1, <2>2, <2>3, <2>4, ReplayTakes
<1>6. CASE ReplayNode(p)
  <2>1. /\ p \in Nodes /\ p \notin Decls /\ Listed(p)
        /\ agenda.decls = {} /\ agenda.contexts = {}
        /\ agenda' = [agenda EXCEPT !.nodes = agenda.nodes \ {p}]
        /\ AwaitReplay("register", p)
    BY <1>2, <1>6, TreeFacts DEF ReplayNode, Listed
  <2>2. /\ agenda' \in [nodes : SUBSET Nodes, contexts : SUBSET Contexts, decls : SUBSET Decls]
        /\ agenda'.decls = {} /\ agenda'.contexts = {}
        /\ agenda'.nodes = agenda.nodes \ {p}
    BY <1>2, <2>1
  <2>3. \A q : Listed(q)' <=> Listed(q) /\ q # p
    BY <1>2, <2>1, <2>2 DEF Listed
  <2>4. \A q \in Paths : p \in Above(q) => ~Listed(q)
    BY <2>1, AboveFacts, TreeFacts, ListedFacts DEF Inv
  <2> QED BY <1>1, <2>1, <2>2, <2>3, <2>4, ReplayTakes
<1> QED BY <1>3, <1>4, <1>5, <1>6

-----------------------------------------------------------------------------
(* The realm *)

\* The first command is taken off the wire and answered.
LEMMA Answered ==
  ASSUME Inv, wire # <<>>, NEW m, m = Head(wire), NEW ok \in BOOLEAN,
         NEW delta \in [add : SUBSET Decls, remove : SUBSET Decls],
         Answer(m, ok, delta), wire' = Tail(wire),
         UNCHANGED <<phase, agenda, replaying, handler>>
  PROVE  /\ m \in Command /\ m \in Going /\ OnTarget(m)
         /\ wire' \in Seq(Command) /\ inbox' \in Seq(Messages)
         /\ Going = Going' \cup {m}
         /\ Replies' = Replies \cup {ReplyTo(m, ok)}
         /\ \A e \in Coming' : e \in Coming \cup {ReplyTo(m, ok), KeysOf(m, ok, delta)}
         /\ Flight' /\ Sessions' /\ Descends'
         /\ phase # "down"
         /\ phase = "replaying" => /\ m.owner = Replay /\ replaying = Doing(m.op, m.path)
                                   /\ m.op \in {"register", "declare", "init"}
                                   /\ Going' = {}
         /\ phase = "up" => m.owner \in Handlers
<1> DEFINE w == Tail(wire)
<1>1. wire \in Seq(Command) /\ inbox \in Seq(Messages) /\ Typed
  BY ElementsTyped DEF Inv
<1>2. w \in Seq(Command) /\ Elems(wire) = Elems(w) \cup {m} /\ m \in Command
  BY <1>1, TailFacts
<1>3. m \in Going /\ OnTarget(m) /\ Awaits[m.owner] = Doing(m.op, m.path)
  BY <1>2, UnderWay DEF Going
<1>4. Alone(w, inbox) /\ Held(w, inbox, Awaits) /\ Free(m.owner, w, inbox)
  BY <1>1, AloneTaken, HeldFacts DEF Inv, Flight
<1> HIDE DEF w
<1>5. /\ inbox' \in Seq(Messages)
      /\ Replies' = Replies \cup {ReplyTo(m, ok)}
      /\ \A e \in Coming' : e \in Coming \cup {ReplyTo(m, ok), KeysOf(m, ok, delta)}
      /\ Alone(w, inbox') /\ Held(w, inbox', Awaits)
  BY <1>1, <1>2, <1>3, <1>4, AnswerFacts
<1>6. wire' = w /\ Awaits' = Awaits
  BY DEF w, Awaits
<1>7. Going = Going' \cup {m} /\ Going' = Elems(w)
  BY <1>2, <1>6 DEF Going, Elems
<1>8. Flight'
  <2>1. \A o \in Owners : OnTarget(Awaits'[o])
    BY <1>6 DEF Inv, Flight
  <2>2. Alone(wire', inbox') /\ Held(wire', inbox', Awaits')
    BY <1>5, <1>6
  <2> QED BY <2>1, <2>2 DEF Flight, Alone, Held, Elems, OnTarget, Doing
<1>9. phase # "down"
  BY DEF Inv, Sessions
<1>10. Sessions' /\ Descends'
  BY <1>9 DEF Inv, Sessions, Resting, Idle, AwaitsBody, Descends, Listed, Opening, Busy
<1>11. phase = "replaying" => /\ m.owner = Replay /\ replaying = Doing(m.op, m.path)
                              /\ m.op \in {"register", "declare", "init"}
  BY <1>3, UnderWay
<1>12. phase = "replaying" => Going' = {}
  <2>1. \A e \in Going' : e.owner # m.owner
    BY <1>4, <1>7 DEF Free
  <2>2. phase = "replaying" => \A e \in Going' : e.owner = Replay
    BY <1>7, UnderWay
  <2> QED BY <1>11, <2>1, <2>2
<1>13. phase = "up" => m.owner \in Handlers
  BY <1>3, UnderWay
<1> QED BY <1>1, <1>2, <1>3, <1>5, <1>6, <1>7, <1>8, <1>9, <1>10, <1>11, <1>12, <1>13

\* What is on the realm grows: what the replay was told of it stays true.
LEMMA ReportedGrows ==
  ASSUME Inv, NEW m \in Command, NEW ok \in BOOLEAN, declared \subseteq declared',
         NEW delta \in [add : SUBSET Decls, remove : SUBSET Decls],
         \A e \in Coming' : e \in Coming \cup {ReplyTo(m, ok), KeysOf(m, ok, delta)},
         Replies' = Replies \cup {ReplyTo(m, ok)},
         phase = "replaying" =>
           /\ delta.remove = {} /\ delta.add \subseteq declared'
           /\ ok /\ m.op # "init" => m.path \in declared',
         UNCHANGED <<stored, phase, cache, agenda, replaying>>
  PROVE  Reported' /\ Rooted'
<1>1. Rooted'
  BY DEF Inv, Rooted, Listed, Busy
<1>2. ASSUME phase = "replaying" PROVE Reported'
  <2>1. /\ ReplyTo(m, ok).delta.remove = {} /\ ReplyTo(m, ok).delta.add = {}
        /\ KeysOf(m, ok, delta).delta = delta
        /\ ReplyTo(m, ok).ok = ok /\ ReplyTo(m, ok).work = m
    BY ReplyFacts
  <2>2. \A e \in Coming' : e.delta.remove = {} /\ e.delta.add \subseteq declared'
    BY <1>2, <2>1 DEF Inv, Reported
  <2>3. \A e \in Replies' : e.ok /\ e.work.op # "init" => e.work.path \in declared'
    BY <1>2, <2>1 DEF Inv, Reported
  <2> QED BY <1>2, <2>2, <2>3 DEF Inv, Reported
<1>3. phase # "replaying" => Reported'
  BY DEF Reported
<1> QED BY <1>1, <1>2, <1>3

LEMMA NoDeltaTyped == NoDelta \in [add : SUBSET Decls, remove : SUBSET Decls]
                        /\ NoDelta.add = {} /\ NoDelta.remove = {}
BY DEF NoDelta

LEMMA RegisterKeeps ==
  ASSUME Inv, wire # <<>>, NEW m, m = Head(wire), m.op = "register",
         declared' = declared \cup {m.path}, Answer(m, TRUE, NoDelta), wire' = Tail(wire),
         UNCHANGED <<stored, phase, cache, agenda, replaying, handler, value, faults,
                     wiped, acked, late, stale, refused, cut>>
  PROVE  Inv'
<1> DEFINE r == ReplyTo(m, TRUE)
<1>1. /\ m \in Command /\ m \in Going /\ OnTarget(m)
      /\ wire' \in Seq(Command) /\ inbox' \in Seq(Messages)
      /\ Going = Going' \cup {m} /\ Replies' = Replies \cup {r}
      /\ \A e \in Coming' : e \in Coming \cup {r, KeysOf(m, TRUE, NoDelta)}
      /\ Flight' /\ Sessions' /\ Descends'
      /\ phase = "replaying" => Going' = {}
  BY Answered, NoDeltaTyped
<1>2. m.path \in Paths /\ m.path \notin Decls
  BY <1>1, TreeFacts DEF OnTarget, Command
<1>3. Typed'
  BY <1>1, <1>2 DEF Inv, Typed, Storable, Command
<1>4. Reported' /\ Rooted'
  BY <1>1, ReportedGrows, NoDeltaTyped
<1>5. Spared'
  BY <1>1, <1>2 DEF Inv, Spared, ToCome, Listed, Opening
<1>6. Remembered'
  BY <1>1 DEF Inv, Remembered, ToCome, Listed, Opening
<1>7. Promised'
  BY <1>1, <1>2 DEF Inv, Promised
<1>8. ReplayNeverWipes'
  BY DEF Inv, ReplayNeverWipes
<1> QED BY <1>1, <1>3, <1>4, <1>5, <1>6, <1>7, <1>8 DEF Inv

\* A replay declares what is not on the realm: Spared.
LEMMA DeclareKeeps ==
  ASSUME Inv, wire # <<>>, NEW m, m = Head(wire), m.op = "declare",
         declared' = declared \cup {m.path},
         value' = [value EXCEPT ![m.path] = "empty"],
         wiped' = IF m.path \in declared /\ value[m.path] # "empty"
                  THEN wiped \cup {m.owner} ELSE wiped,
         Answer(m, TRUE, [add |-> {m.path}, remove |-> {}]), wire' = Tail(wire),
         cut' = cut \ {m.path},
         UNCHANGED <<stored, phase, cache, agenda, replaying, handler, faults,
                     acked, late, stale, refused>>
  PROVE  Inv'
<1> DEFINE r == ReplyTo(m, TRUE)
           delta == [add |-> {m.path}, remove |-> {}]
<1>1. m \in Command /\ OnTarget(m) /\ m \in Going
  <2>1. m \in Going
    BY ElementsTyped, ElemsFacts DEF Inv, Going
  <2> QED BY <2>1, UnderWay
<1>2. m.path \in Decls /\ m.path \in Paths /\ m.owner \in Owners
  BY <1>1 DEF OnTarget, Command
<1>3. /\ delta \in [add : SUBSET Decls, remove : SUBSET Decls]
      /\ delta.add = {m.path} /\ delta.remove = {}
  BY <1>2
<1> HIDE DEF delta
<1>4. Answer(m, TRUE, delta)
  BY DEF delta
<1>5. /\ wire' \in Seq(Command) /\ inbox' \in Seq(Messages)
      /\ Going = Going' \cup {m} /\ Replies' = Replies \cup {r}
      /\ \A e \in Coming' : e \in Coming \cup {r, KeysOf(m, TRUE, delta)}
      /\ Flight' /\ Sessions' /\ Descends'
      /\ phase # "down"
      /\ phase = "replaying" => Going' = {} /\ replaying = Doing(m.op, m.path)
      /\ phase = "up" => m.owner \in Handlers
  BY <1>3, <1>4, Answered
<1>6. r.work = m /\ r.ok = TRUE
  BY DEF ReplyTo
<1> HIDE DEF r
<1>7. phase = "replaying" => m.path \notin declared
  BY <1>1 DEF Inv, Spared
<1>8. Typed'
  <2>1. value' \in [Decls -> {"absent", "empty", "init", "property"}]
    BY DEF Inv, Typed
  <2> QED BY <1>2, <1>5, <2>1 DEF Inv, Typed, Storable, Command
<1>9. ReplayNeverWipes'
  <2>1. phase \in {"replaying", "up"}
    BY <1>5 DEF Inv, Typed
  <2>2. CASE phase = "replaying"
    BY <1>7, <2>2 DEF Inv, ReplayNeverWipes
  <2>3. CASE phase = "up"
    BY <1>5, <2>3, OwnerAssumption DEF Inv, ReplayNeverWipes
  <2> QED BY <2>1, <2>2, <2>3
<1>10. Reported' /\ Rooted'
  BY <1>1, <1>3, <1>5, ReportedGrows DEF r
<1>11. Spared'
  <2>1. ASSUME phase = "replaying" PROVE ~ToCome(m.path)
    <3>1. Busy(m.path)
      BY <1>1, <1>5, <2>1, DoingFacts DEF Busy, Command
    <3> QED BY <1>2, <3>1 DEF Inv, Descends, ToCome
  <2>2. \A d \in Decls : ToCome(d)' => ToCome(d)
    BY DEF ToCome, Listed, Opening, Above
  <2> QED BY <1>5, <2>1, <2>2 DEF Inv, Spared
<1>12. Remembered'
  BY <1>5 DEF Inv, Remembered, ToCome, Listed, Opening
<1>13. Promised'
  <2> SUFFICES ASSUME NEW d \in (Decls \cap declared') \ cut', value'[d] = "empty"
               PROVE  \/ \E e \in Going' : e.op = "init" /\ e.path = d
                      \/ \E e \in Replies' :
                           /\ e.work.path = d
                           /\ IF e.ok THEN e.work.op = "declare" ELSE e.work.op = "init"
    BY DEF Promised
  <2>1. CASE d = m.path
    BY <1>5, <1>6, <2>1
  <2>2. CASE d # m.path
    <3>1. d \in declared /\ d \notin cut /\ value[d] = "empty"
      BY <2>2 DEF Inv, Typed
    <3> QED BY <1>5, <3>1 DEF Inv, Promised
  <2> QED BY <2>1, <2>2
<1> QED BY <1>5, <1>8, <1>9, <1>10, <1>11, <1>12, <1>13 DEF Inv

LEMMA PutValueKeeps ==
  ASSUME Inv, wire # <<>>, NEW m, m = Head(wire), m.op \in {"init", "property"},
         value' = [value EXCEPT ![m.path] = m.op],
         Answer(m, TRUE, NoDelta), wire' = Tail(wire),
         UNCHANGED <<stored, phase, cache, agenda, replaying, handler, declared, faults,
                     wiped, acked, late, stale, refused, cut>>
  PROVE  Inv'
<1> DEFINE r == ReplyTo(m, TRUE)
<1>1. /\ m \in Command /\ m \in Going
      /\ wire' \in Seq(Command) /\ inbox' \in Seq(Messages)
      /\ Going = Going' \cup {m} /\ Replies' = Replies \cup {r}
      /\ \A e \in Coming' : e \in Coming \cup {r, KeysOf(m, TRUE, NoDelta)}
      /\ Flight' /\ Sessions' /\ Descends'
      /\ phase = "replaying" => Going' = {} /\ m.op = "init"
  BY Answered, NoDeltaTyped
<1>2. Typed'
  <2>1. value' \in [Decls -> {"absent", "empty", "init", "property"}]
    BY DEF Inv, Typed
  <2> QED BY <1>1, <2>1 DEF Inv, Typed, Storable, Command
<1>3. Reported' /\ Rooted'
  BY <1>1, ReportedGrows, NoDeltaTyped
<1>4. Spared'
  BY <1>1 DEF Inv, Spared, ToCome, Listed, Opening
<1>5. Remembered'
  BY <1>1 DEF Inv, Remembered, ToCome, Listed, Opening
<1>6. Promised'
  <2> SUFFICES ASSUME NEW d \in (Decls \cap declared) \ cut, value'[d] = "empty"
               PROVE  \/ \E e \in Going' : e.op = "init" /\ e.path = d
                      \/ \E e \in Replies' :
                           /\ e.work.path = d
                           /\ IF e.ok THEN e.work.op = "declare" ELSE e.work.op = "init"
    BY DEF Promised
  <2>1. d # m.path /\ value[d] = "empty"
    BY DEF Inv, Typed
  <2> QED BY <1>1, <2>1 DEF Inv, Promised
<1>7. ReplayNeverWipes'
  BY DEF Inv, ReplayNeverWipes
<1> QED BY <1>1, <1>2, <1>3, <1>4, <1>5, <1>6, <1>7 DEF Inv

\* Only a handler purges, and it will forget what it purged.
LEMMA PurgeKeeps ==
  ASSUME Inv, wire # <<>>, NEW m, m = Head(wire), m.op = "purge",
         declared' = declared \ Under(m.path),
         value' = [d \in Decls |-> IF d \in Under(m.path) THEN "absent" ELSE value[d]],
         Answer(m, TRUE, [add |-> {}, remove |-> Under(m.path) \cap Decls]),
         cut' = cut \ Under(m.path), wire' = Tail(wire),
         UNCHANGED <<stored, phase, cache, agenda, replaying, handler, faults,
                     wiped, acked, late, stale, refused>>
  PROVE  Inv'
<1> DEFINE r == ReplyTo(m, TRUE)
           delta == [add |-> {}, remove |-> Under(m.path) \cap Decls]
<1>1. delta \in [add : SUBSET Decls, remove : SUBSET Decls] /\ Answer(m, TRUE, delta)
  OBVIOUS
<1> HIDE DEF delta
<1>2. /\ m \in Command /\ m \in Going
      /\ wire' \in Seq(Command) /\ inbox' \in Seq(Messages)
      /\ Going = Going' \cup {m} /\ Replies' = Replies \cup {r}
      /\ Flight' /\ Sessions' /\ Descends'
      /\ phase # "down"
      /\ phase = "replaying" => m.op \in {"register", "declare", "init"}
  BY <1>1, Answered
<1>3. r.work = m /\ r.ok = TRUE
  BY DEF ReplyTo
<1> HIDE DEF r
<1>4. phase = "up"
  BY <1>2 DEF Inv, Typed
<1>5. Typed'
  <2>1. value' \in [Decls -> {"absent", "empty", "init", "property"}]
    BY DEF Inv, Typed
  <2> QED BY <1>2, <2>1 DEF Inv, Typed, Storable, Command
<1>6. Rooted' /\ Reported' /\ Spared'
  BY <1>4, ReplayAtRest DEF Inv, Sessions
<1>7. Remembered'
  BY <1>2, <1>3, <1>4 DEF Inv, Remembered
<1>8. Promised'
  <2> SUFFICES ASSUME NEW d \in (Decls \cap declared') \ cut', value'[d] = "empty"
               PROVE  \/ \E e \in Going' : e.op = "init" /\ e.path = d
                      \/ \E e \in Replies' :
                           /\ e.work.path = d
                           /\ IF e.ok THEN e.work.op = "declare" ELSE e.work.op = "init"
    BY DEF Promised
  <2>1. d \in (Decls \cap declared) \ cut /\ value[d] = "empty"
    OBVIOUS
  <2> QED BY <1>2, <2>1 DEF Inv, Promised
<1>9. ReplayNeverWipes'
  BY DEF Inv, ReplayNeverWipes
<1> QED BY <1>2, <1>5, <1>6, <1>7, <1>8, <1>9 DEF Inv

LEMMA RealmExecutesKeeps ==
  ASSUME Inv, RealmExecutes
  PROVE  Inv'
<1> DEFINE m == Head(wire)
<1>1. /\ wire # <<>> /\ Execute(m) /\ wire' = Tail(wire)
      /\ UNCHANGED <<stored, phase, cache, agenda, replaying, handler, faults,
                     acked, late, stale, refused>>
  BY DEF RealmExecutes, gatewayVars
<1> HIDE DEF m
<1>2. m = Head(wire)
  BY DEF m
<1>3. \/ /\ m.op = "register"
         /\ declared' = declared \cup {m.path} /\ Answer(m, TRUE, NoDelta)
         /\ UNCHANGED <<value, wiped, cut>>
      \/ /\ m.op = "declare"
         /\ declared' = declared \cup {m.path}
         /\ value' = [value EXCEPT ![m.path] = "empty"]
         /\ wiped' = IF m.path \in declared /\ value[m.path] # "empty"
                     THEN wiped \cup {m.owner} ELSE wiped
         /\ Answer(m, TRUE, [add |-> {m.path}, remove |-> {}])
         /\ cut' = cut \ {m.path}
      \/ /\ m.op \in {"init", "property"}
         /\ value' = [value EXCEPT ![m.path] = m.op] /\ Answer(m, TRUE, NoDelta)
         /\ UNCHANGED <<declared, wiped, cut>>
      \/ /\ m.op = "purge"
         /\ declared' = declared \ Under(m.path)
         /\ value' = [d \in Decls |-> IF d \in Under(m.path) THEN "absent" ELSE value[d]]
         /\ Answer(m, TRUE, [add |-> {}, remove |-> Under(m.path) \cap Decls])
         /\ cut' = cut \ Under(m.path)
         /\ UNCHANGED wiped
  BY <1>1 DEF Execute
<1>4. CASE m.op = "register"
  BY <1>1, <1>2, <1>3, <1>4, RegisterKeeps
<1>5. CASE m.op = "declare"
  BY <1>1, <1>2, <1>3, <1>5, DeclareKeeps
<1>6. CASE m.op \in {"init", "property"}
  BY <1>1, <1>2, <1>3, <1>6, PutValueKeeps
<1>7. CASE m.op = "purge"
  BY <1>1, <1>2, <1>3, <1>7, PurgeKeeps
<1> QED BY <1>3, <1>4, <1>5, <1>6, <1>7

\* A refusal changes nothing on the realm, and says so in its reply.
LEMMA RealmRefusesKeeps ==
  ASSUME Inv, RealmRefuses
  PROVE  Inv'
<1> DEFINE m == Head(wire)
           r == ReplyTo(m, FALSE)
<1>1. /\ wire # <<>> /\ Answer(m, FALSE, NoDelta) /\ wire' = Tail(wire) /\ faults' \in Nat
      /\ UNCHANGED <<stored, phase, cache, agenda, replaying, handler, declared, value,
                     wiped, acked, late, stale, refused, cut>>
  <2>1. faults' \in Nat
    BY DEF RealmRefuses, Fault, Inv, Typed
  <2> QED BY <2>1 DEF RealmRefuses, gatewayVars, realmVars, ghostVars
<1>2. m = Head(wire) /\ r.work = m /\ r.ok = FALSE
  BY DEF ReplyTo
<1> HIDE DEF m
<1>3. /\ m \in Command /\ m \in Going
      /\ wire' \in Seq(Command) /\ inbox' \in Seq(Messages)
      /\ Going = Going' \cup {m} /\ Replies' = Replies \cup {r}
      /\ \A e \in Coming' : e \in Coming \cup {r, KeysOf(m, FALSE, NoDelta)}
      /\ Flight' /\ Sessions' /\ Descends'
  BY <1>1, <1>2, Answered, NoDeltaTyped
<1>4. Typed'
  BY <1>1, <1>3 DEF Inv, Typed, Storable, Command
<1>5. Reported' /\ Rooted'
  BY <1>1, <1>3, ReportedGrows, NoDeltaTyped
<1> HIDE DEF r
<1>6. Spared'
  BY <1>1, <1>3 DEF Inv, Spared, ToCome, Listed, Opening
<1>7. Remembered'
  BY <1>1, <1>2, <1>3 DEF Inv, Remembered, ToCome, Listed, Opening
<1>8. Promised'
  BY <1>1, <1>2, <1>3 DEF Inv, Promised
<1>9. ReplayNeverWipes'
  BY <1>1 DEF Inv, ReplayNeverWipes
<1> QED BY <1>3, <1>4, <1>5, <1>6, <1>7, <1>8, <1>9 DEF Inv

-----------------------------------------------------------------------------
(* What comes back *)

LEMMA Delivered ==
  ASSUME Inv, inbox # <<>>, NEW m, m = Head(inbox)
  PROVE  /\ m \in Messages /\ m \in Coming
         /\ Tail(inbox) \in Seq(Messages) /\ Coming = Elems(Tail(inbox)) \cup {m}
         /\ Alone(wire, Tail(inbox)) /\ Held(wire, Tail(inbox), Awaits)
         /\ phase # "down"
         /\ m.kind = "reply" =>
              /\ m \in Replies /\ m.work \in Command
              /\ m.work.op \in Commands /\ m.work.path \in Paths /\ m.work.owner \in Owners
              /\ Free(m.work.owner, wire, Tail(inbox))
              /\ Awaits[m.work.owner] = Doing(m.work.op, m.work.path) /\ OnTarget(m.work)
<1>1. wire \in Seq(Command) /\ inbox \in Seq(Messages)
  BY ElementsTyped DEF Inv
<1>2. /\ Tail(inbox) \in Seq(Messages) /\ Coming = Elems(Tail(inbox)) \cup {m}
      /\ m \in Messages
  BY <1>1, ElemsFacts DEF Coming
<1>3. Alone(wire, Tail(inbox)) /\ (m.kind = "reply" => Free(m.work.owner, wire, Tail(inbox)))
  BY <1>1, AloneDelivered DEF Inv, Flight
<1>4. Held(wire, Tail(inbox), Awaits)
  BY <1>1, HeldFacts DEF Inv, Flight
<1>5. phase # "down"
  BY DEF Inv, Sessions
<1>6. m.kind = "reply" =>
        /\ m \in Replies /\ m.work \in Command
        /\ m.work.op \in Commands /\ m.work.path \in Paths /\ m.work.owner \in Owners
  BY <1>2 DEF Replies, Messages, Command
<1>7. m.kind = "reply" =>
        Awaits[m.work.owner] = Doing(m.work.op, m.work.path) /\ OnTarget(m.work)
  BY <1>6, UnderWay
<1> QED BY <1>2, <1>3, <1>4, <1>5, <1>6, <1>7

\* The deltas of a replay add keys of what is on the realm.
LEMMA DeliverDeltaKeeps ==
  ASSUME Inv, inbox # <<>>, NEW m, m = Head(inbox), DeliverDelta(m)
  PROVE  Inv'
<1>1. /\ m.kind = "delta" /\ inbox' = Tail(inbox)
      /\ cache' = (cache \cup m.delta.add) \ m.delta.remove
      /\ UNCHANGED <<stored, phase, agenda, replaying, handler, wire, declared, value,
                     faults, wiped, acked, late, stale, refused, cut>>
  BY DEF DeliverDelta, realmVars, ghostVars
<1>2. /\ m \in Messages /\ m \in Coming /\ inbox' \in Seq(Messages)
      /\ Coming = Elems(Tail(inbox)) \cup {m}
      /\ Alone(wire, inbox') /\ Held(wire, inbox', Awaits)
  BY <1>1, Delivered
<1>3. Coming' \subseteq Coming /\ Replies' = Replies /\ Going' = Going /\ Awaits' = Awaits
  <2>1. Coming' = Elems(Tail(inbox))
    BY <1>1 DEF Coming, Elems
  <2>2. Coming = Coming' \cup {m}
    BY <1>2, <2>1
  <2>3. Replies' = Replies
    BY <1>1, <2>2 DEF Replies
  <2> QED BY <1>1, <2>2, <2>3 DEF Going, Elems, Awaits
<1>4. Typed'
  <2>1. cache' \subseteq Decls
    BY <1>1, <1>2 DEF Inv, Typed, Messages
  <2> QED BY <1>1, <1>2, <2>1 DEF Inv, Typed, Storable
<1>5. Flight'
  <2>1. \A o \in Owners : OnTarget(Awaits'[o])
    BY <1>3 DEF Inv, Flight
  <2>2. Alone(wire', inbox') /\ Held(wire', inbox', Awaits')
    BY <1>1, <1>2, <1>3
  <2> QED BY <2>1, <2>2 DEF Flight, Alone, Held, Elems, OnTarget, Doing
<1>6. Sessions'
  <2>1. phase # "down"
    BY Delivered
  <2> QED BY <1>1, <2>1 DEF Inv, Sessions, Resting, Idle, AwaitsBody
<1>7. Descends' /\ Rooted' /\ ReplayNeverWipes'
  BY <1>1 DEF Inv, Descends, Rooted, Listed, Opening, Busy, ReplayNeverWipes
<1>8. phase = "replaying" => cache \subseteq cache' /\ cache' \subseteq declared
  BY <1>1, <1>2 DEF Inv, Reported
<1>9. Reported' /\ Spared'
  BY <1>1, <1>3, <1>8 DEF Inv, Reported, Spared, ToCome, Listed, Opening
<1>10. Remembered' /\ Promised'
  BY <1>1, <1>3 DEF Inv, Remembered, Promised, ToCome, Listed, Opening
<1> QED BY <1>4, <1>5, <1>6, <1>7, <1>9, <1>10 DEF Inv

\* The owner of a reply takes up something else, and may send a command for it.
LEMMA Woken ==
  ASSUME Inv, inbox # <<>>, NEW m, m = Head(inbox), m.kind = "reply", inbox' = Tail(inbox),
         OnTarget(Awaits'[m.work.owner]),
         \A o \in Owners : o # m.work.owner => Awaits'[o] = Awaits[o],
         \/ wire' = wire
         \/ \E a \in Commands, p \in Paths :
              Send(a, p, m.work.owner) /\ Awaits'[m.work.owner] = Doing(a, p)
  PROVE  /\ Flight' /\ wire' \in Seq(Command) /\ inbox' \in Seq(Messages)
         /\ Coming' \subseteq Coming
         /\ Replies' \subseteq Replies /\ \A r \in Replies : r = m \/ r \in Replies'
         /\ wire' = wire => Going' = Going
         /\ \A a \in Commands, p \in Paths :
              Send(a, p, m.work.owner) =>
                Going' = Going \cup {[op |-> a, path |-> p, owner |-> m.work.owner]}
<1> DEFINE o == m.work.owner
<1>1. /\ inbox' \in Seq(Messages) /\ o \in Owners
      /\ Alone(wire, inbox') /\ Held(wire, inbox', Awaits) /\ Free(o, wire, inbox')
      /\ Coming = Elems(Tail(inbox)) \cup {m}
  BY Delivered
<1> HIDE DEF o
<1>2. OnTarget(Awaits'[o]) /\ \A q \in Owners : q # o => Awaits'[q] = Awaits[q]
  BY DEF o
<1>3. \/ wire' = wire
      \/ \E a \in Commands, p \in Paths : Send(a, p, o) /\ Awaits'[o] = Doing(a, p)
  BY DEF o
<1>4. Flight'
  <2>1. \A q \in Owners : OnTarget(Awaits[q])
    BY DEF Inv, Flight
  <2> QED BY <1>1, <1>2, <1>3, <2>1, FlightStep DEF Inv
<1>5. ASSUME NEW a \in Commands, NEW p \in Paths, Send(a, p, o)
      PROVE  /\ wire' \in Seq(Command)
             /\ Going' = Going \cup {[op |-> a, path |-> p, owner |-> o]}
  <2> DEFINE c == [op |-> a, path |-> p, owner |-> o]
  <2>1. c \in Command /\ wire' = Append(wire, c)
    BY <1>1, <1>5 DEF Command, Send
  <2> HIDE DEF c
  <2>2. wire' \in Seq(Command) /\ Elems(wire') = Going \cup {c}
    BY <2>1, ElementsTyped, ElemsFacts DEF Inv, Going
  <2>3. Going' = Elems(wire')
    BY DEF Going, Elems
  <2> QED BY <2>2, <2>3 DEF c
<1>6. wire' = wire => wire' \in Seq(Command) /\ Going' = Going
  BY ElementsTyped DEF Inv, Going, Elems
<1>7. wire' \in Seq(Command)
  BY <1>3, <1>5, <1>6
<1>8. /\ Coming' \subseteq Coming
      /\ Replies' \subseteq Replies /\ \A r \in Replies : r = m \/ r \in Replies'
  <2>1. Coming' = Elems(Tail(inbox))
    BY DEF Coming, Elems
  <2>2. Coming = Coming' \cup {m}
    BY <1>1, <2>1
  <2> QED BY <2>2 DEF Replies
<1> QED BY <1>1, <1>4, <1>5, <1>6, <1>7, <1>8 DEF o

\* The awaited command of the replay returned.
LEMMA ReplayWoken ==
  ASSUME Inv, inbox # <<>>, NEW m, m = Head(inbox), m.kind = "reply", m.ok,
         m.work.owner = Replay
  PROVE  /\ phase = "replaying" /\ replaying = Doing(m.work.op, m.work.path)
         /\ m.work.op \in {"register", "declare", "init"} /\ m.work.path \in Paths
         /\ OnTarget(m.work)
         /\ Going = {}
         /\ m.work.op # "init" => m.work.path \in declared
         /\ Busy(m.work.path) /\ Awaits[Replay] = replaying
<1>1. /\ m \in Replies /\ Free(Replay, wire, Tail(inbox)) /\ OnTarget(m.work)
      /\ m.work.op \in Commands /\ m.work.path \in Paths
      /\ phase # "down"
  BY Delivered
<1>2. phase = "replaying"
  BY <1>1, UnderWay, OwnerAssumption DEF Inv, Typed
<1>3. /\ replaying = Doing(m.work.op, m.work.path)
      /\ m.work.op \in {"register", "declare", "init"}
      /\ \A c \in Going : c.owner = Replay
  BY <1>1, <1>2, UnderWay
<1>4. Going = {}
  BY <1>1, <1>3 DEF Free, Going
<1>5. m.work.op # "init" => m.work.path \in declared
  BY <1>1, <1>2 DEF Inv, Reported
<1>6. Busy(m.work.path)
  BY <1>1, <1>3, DoingFacts DEF Busy
<1> QED BY <1>1, <1>2, <1>3, <1>4, <1>5, <1>6, AwaitsFacts

LEMMA AboveTransitive ==
  ASSUME NEW q \in Paths, NEW r \in Above(q), NEW p \in Above(r)
  PROVE  p \in Above(q)
<1>1. CASE q \in Contexts
  BY <1>1, AboveFacts, TreeFacts
<1>2. CASE q \in Decls
  BY <1>2, AboveFacts, TreeFacts
<1> QED BY <1>1, <1>2, AboveFacts, TreeFacts

\* It opens the path it has registered: the children that are stored now.
LEMMA ReplayOpens ==
  ASSUME Inv, inbox # <<>>, NEW m, m = Head(inbox), m.kind = "reply", m.ok,
         m.work.owner = Replay, m.work.op = "register",
         agenda' \in [nodes : SUBSET Nodes, contexts : SUBSET Contexts, decls : SUBSET Decls],
         \A q : Listed(q)' <=> Listed(q) \/ q \in Children(m.work.path) \cap stored,
         replaying' = Nothing, inbox' = Tail(inbox),
         UNCHANGED <<stored, phase, cache, handler, wire, declared, value, faults,
                     wiped, acked, late, stale, refused, cut>>
  PROVE  Inv'
<1> DEFINE p == m.work.path
<1>1. /\ phase = "replaying" /\ replaying = Doing("register", p)
      /\ p \in Paths /\ p \in declared /\ Going = {}
      /\ Opening(p) /\ Busy(p)
  BY ReplayWoken DEF Opening
<1>2. /\ \A o \in Owners : o # Replay => Awaits'[o] = Awaits[o]
      /\ Awaits'[Replay] = Nothing /\ OnTarget(Nothing)
  BY AwaitsFacts, DoingFacts DEF Awaits, OnTarget
<1>3. /\ Flight' /\ wire' \in Seq(Command) /\ inbox' \in Seq(Messages)
      /\ Coming' \subseteq Coming /\ Replies' \subseteq Replies
      /\ \A r \in Replies : r = m \/ r \in Replies'
      /\ Going' = {}
  BY <1>1, <1>2, Woken DEF OnTarget
<1> HIDE DEF p
<1>4. \A q : Listed(q)' <=> Listed(q) \/ q \in stored \cap Children(p)
  BY DEF p
<1>5. /\ \A q : ~Opening(q)' /\ ~Busy(q)'
      /\ \A q : Opening(q) => q = p
  BY <1>1, DoingFacts DEF Opening, Busy, Commands
<1>6. \A q \in Paths, r \in Paths : r \in Above(q) /\ r \in Children(p) => p \in Above(q)
  <2> SUFFICES ASSUME NEW q \in Paths, NEW r \in Paths, r \in Above(q), r \in Children(p)
               PROVE  p \in Above(q)
    OBVIOUS
  <2>1. p \in Above(r)
    BY <1>1, AboveLevels
  <2> QED BY <2>1, AboveTransitive
<1>7. \A q \in Paths : \A r \in Above(q) : r \in Paths
  BY AboveFacts
<1>8. Typed'
  BY <1>3, DoingFacts DEF Inv, Typed, Storable, Command
<1>9. Sessions'
  BY <1>1, DoingFacts DEF Inv, Sessions, Resting, Idle, AwaitsBody
<1>10. Descends'
  <2>1. ASSUME NEW q \in Paths, Listed(q)', NEW r \in Above(q)
        PROVE  ~Listed(r)'
    <3>1. CASE Listed(q)
      <4>1. ~Listed(r) /\ p \notin Above(q)
        BY <1>1, <3>1 DEF Inv, Descends
      <4> QED BY <1>4, <1>6, <1>7, <4>1
    <3>2. CASE q \in Children(p)
      <4>1. Above(q) = {p} \cup Above(p) /\ q # p /\ q \notin Above(p)
        BY <1>1, <3>2, AboveLevels
      <4>2. ~Listed(p) /\ \A s \in Above(p) : ~Listed(s)
        BY <1>1 DEF Inv, Descends
      <4>3. r \notin Children(p)
        BY <1>1, <4>1, AboveLevels
      <4> QED BY <1>4, <4>1, <4>2, <4>3
    <3> QED BY <1>4, <2>1, <3>1, <3>2
  <2> QED BY <1>5, <2>1 DEF Descends, Above
<1>11. Rooted'
  <2>1. ASSUME NEW q \in Paths, Listed(q)'
        PROVE  q \in stored /\ (q \notin Nodes => Parent[q] \in declared)
    <3>1. CASE Listed(q)
      BY <3>1 DEF Inv, Rooted
    <3>2. CASE q \in stored \cap Children(p)
      BY <1>1, <3>2, ChildrenFacts
    <3> QED BY <1>4, <2>1, <3>1, <3>2
  <2> QED BY <1>5, <2>1 DEF Rooted
<1>12. Reported'
  BY <1>1, <1>3, DoingFacts DEF Inv, Reported, Commands
<1>13. \A q \in Paths : ToCome(q)' => ToCome(q)
  <2>1. ASSUME NEW q \in Paths, Listed(q)' PROVE ToCome(q)
    <3>1. q \in Children(p) => p \in Above(q)
      BY <1>1, AboveLevels
    <3> QED BY <1>1, <1>4, <2>1, <3>1 DEF ToCome
  <2>2. ASSUME NEW q \in Paths, NEW r \in Above(q), Listed(r)' PROVE ToCome(q)
    BY <1>1, <1>4, <1>6, <1>7, <2>2 DEF ToCome
  <2> QED BY <1>5, <2>1, <2>2 DEF ToCome, Above
<1>14. Spared'
  BY <1>1, <1>3, <1>13 DEF Inv, Spared, Paths
<1>15. Remembered'
  <2>1. ASSUME NEW q \in stored, ToCome(q) PROVE ToCome(q)'
    <3>1. q \in Paths /\ (q \notin Nodes => Parent[q] \in stored)
      BY DEF Inv, Typed, Storable
    <3>2. CASE Listed(q)
      BY <1>4, <3>2 DEF ToCome
    <3>3. CASE \E r \in Above(q) : Listed(r)
      BY <1>4, <3>3 DEF ToCome, Above
    <3>4. CASE p \in Above(q)
      <4>1. CASE q \in Children(p)
        BY <1>4, <4>1 DEF ToCome
      <4>2. CASE q \in Decls /\ Parent[q] \in Children(p) /\ Parent[q] \in Above(q)
        <5>1. Listed(Parent[q])'
          BY <1>4, <3>1, <4>2, TreeFacts
        <5> QED BY <4>2, <5>1 DEF ToCome, Above
      <4> QED BY <3>1, <3>4, <4>1, <4>2, AboveLevels
    <3> QED BY <1>5, <2>1, <3>2, <3>3, <3>4 DEF ToCome
  <2>2. ASSUME NEW q \in stored PROVE q \in declared \cup late \/ ToCome(q)
    <3>1. replaying \in {Doing("register", q), Doing("declare", q)} => q = p
      BY <1>1, DoingFacts
    <3> QED BY <1>1, <3>1 DEF Inv, Remembered
  <2> QED BY <1>1, <2>1, <2>2 DEF Remembered
<1>16. Promised' /\ ReplayNeverWipes'
  BY <1>1, <1>3 DEF Inv, Promised, ReplayNeverWipes
<1> QED BY <1>3, <1>8, <1>9, <1>10, <1>11, <1>12, <1>14, <1>15, <1>16 DEF Inv

\* A declaration of the replay is followed by its initial values.
LEMMA ReplayInitialises ==
  ASSUME Inv, inbox # <<>>, NEW m, m = Head(inbox), m.kind = "reply", m.ok,
         m.work.owner = Replay, m.work.op = "declare",
         AwaitReplay("init", m.work.path), inbox' = Tail(inbox),
         UNCHANGED <<stored, phase, cache, agenda, handler, declared, value, faults,
                     wiped, acked, late, stale, refused, cut>>
  PROVE  Inv'
<1> DEFINE p == m.work.path
           c == [op |-> "init", path |-> p, owner |-> Replay]
<1>1. /\ phase = "replaying" /\ replaying = Doing("declare", p) /\ OnTarget(m.work)
      /\ p \in Paths /\ p \in declared /\ Going = {} /\ Busy(p)
  BY ReplayWoken
<1>2. replaying' = Doing("init", p) /\ Send("init", p, Replay) /\ "init" \in Commands
  BY DEF AwaitReplay, Commands
<1>3. /\ \A o \in Owners : o # Replay => Awaits'[o] = Awaits[o]
      /\ Awaits'[Replay] = Doing("init", p) /\ OnTarget(Doing("init", p))
  BY <1>1, <1>2, AwaitsFacts, DoingFacts DEF Awaits, OnTarget
<1>4. /\ Flight' /\ wire' \in Seq(Command) /\ inbox' \in Seq(Messages)
      /\ Coming' \subseteq Coming /\ Replies' \subseteq Replies
      /\ \A r \in Replies : r = m \/ r \in Replies'
      /\ Going' = {c}
  <2>1. OnTarget(Awaits'[Replay])
    BY <1>3 DEF OnTarget
  <2>2. Going' = Going \cup {c}
    BY <1>1, <1>2, <1>3, <2>1, Woken
  <2> QED BY <1>1, <1>2, <1>3, <2>1, <2>2, Woken
<1>5. c.op = "init" /\ c.path = p
  OBVIOUS
<1> HIDE DEF p, c
<1>6. /\ \A q : ~Opening(q) /\ ~Opening(q)'
      /\ \A q : (Busy(q)' <=> q = p) /\ (Busy(q) <=> q = p)
      /\ \A q : Listed(q)' <=> Listed(q)
  <2>1. \A q : ~Opening(q) /\ ~Opening(q)'
    BY <1>1, <1>2, DoingFacts DEF Opening
  <2>2. Doing("init", p) # Nothing /\ Doing("declare", p) # Nothing
    BY DoingFacts DEF Commands
  <2>3. \A q : (Busy(q)' <=> q = p) /\ (Busy(q) <=> q = p)
    BY <1>1, <1>2, <2>2, DoingFacts DEF Busy
  <2> QED BY <2>1, <2>3 DEF Listed
<1>7. Typed'
  <2>1. replaying' \in Work /\ replaying'.op # "body"
    BY <1>1, <1>2, DoingFacts
  <2> QED BY <1>4, <2>1 DEF Inv, Typed, Storable, Command
<1>8. Sessions'
  BY <1>1, <1>2, DoingFacts DEF Inv, Sessions, Resting, Idle, AwaitsBody
<1>9. Descends' /\ Rooted'
  BY <1>6 DEF Inv, Descends, Rooted, Above
<1>10. Reported'
  BY <1>1, <1>2, <1>4, DoingFacts DEF Inv, Reported
<1>11. \A q \in Paths : ToCome(q)' <=> ToCome(q)
  BY <1>6 DEF ToCome, Above
<1>12. Spared'
  BY <1>4, <1>5, <1>11 DEF Inv, Spared, Paths
<1>13. Remembered'
  <2>1. \A q : replaying \in {Doing("register", q), Doing("declare", q)} => q = p
    BY <1>1, DoingFacts
  <2>2. stored \subseteq Paths
    BY DEF Inv, Typed
  <2> QED BY <1>1, <1>11, <2>1, <2>2 DEF Inv, Remembered
<1>14. Promised'
  BY <1>1, <1>4, <1>5 DEF Inv, Promised, p
<1>15. ReplayNeverWipes'
  BY DEF Inv, ReplayNeverWipes
<1> QED BY <1>4, <1>7, <1>8, <1>9, <1>10, <1>12, <1>13, <1>14, <1>15 DEF Inv

LEMMA ReplayGoesOn ==
  ASSUME Inv, inbox # <<>>, NEW m, m = Head(inbox), m.kind = "reply", m.ok,
         m.work.owner = Replay, m.work.op = "init",
         replaying' = Nothing, inbox' = Tail(inbox),
         UNCHANGED <<stored, phase, cache, agenda, handler, wire, declared, value, faults,
                     wiped, acked, late, stale, refused, cut>>
  PROVE  Inv'
<1> DEFINE p == m.work.path
<1>1. /\ phase = "replaying" /\ replaying = Doing("init", p) /\ p \in Paths /\ Going = {}
  BY ReplayWoken
<1>2. /\ \A o \in Owners : o # Replay => Awaits'[o] = Awaits[o]
      /\ Awaits'[Replay] = Nothing /\ OnTarget(Nothing)
  BY AwaitsFacts, DoingFacts DEF Awaits, OnTarget
<1>3. /\ Flight' /\ wire' \in Seq(Command) /\ inbox' \in Seq(Messages)
      /\ Coming' \subseteq Coming /\ Replies' \subseteq Replies
      /\ \A r \in Replies : r = m \/ r \in Replies'
      /\ Going' = {}
  BY <1>1, <1>2, Woken DEF OnTarget
<1> HIDE DEF p
<1>4. /\ \A q : ~Opening(q) /\ ~Opening(q)' /\ ~Busy(q)'
      /\ \A q : Listed(q)' <=> Listed(q)
      /\ \A q : replaying \notin {Doing("register", q), Doing("declare", q)}
  BY <1>1, DoingFacts DEF Opening, Busy, Commands, Listed
<1>5. Typed'
  BY <1>3, DoingFacts DEF Inv, Typed, Storable, Command
<1>6. Sessions'
  BY <1>1, DoingFacts DEF Inv, Sessions, Resting, Idle, AwaitsBody
<1>7. Descends' /\ Rooted'
  BY <1>4 DEF Inv, Descends, Rooted, Above
<1>8. Reported'
  BY <1>1, <1>3, DoingFacts DEF Inv, Reported, Commands
<1>9. \A q \in Paths : ToCome(q)' <=> ToCome(q)
  BY <1>4 DEF ToCome, Above
<1>10. Spared'
  BY <1>3, <1>9 DEF Inv, Spared, Paths
<1>11. Remembered'
  <2>1. stored \subseteq Paths
    BY DEF Inv, Typed
  <2> QED BY <1>1, <1>4, <1>9, <2>1 DEF Inv, Remembered
<1>12. Promised' /\ ReplayNeverWipes'
  BY <1>1, <1>3 DEF Inv, Promised, ReplayNeverWipes
<1> QED BY <1>3, <1>5, <1>6, <1>7, <1>8, <1>10, <1>11, <1>12 DEF Inv

\* A handler that is woken goes on, gives up, or forgets what it has purged.
LEMMA HandlerWoken ==
  ASSUME Inv, inbox # <<>>, NEW m, m = Head(inbox), m.kind = "reply",
         m.work.owner # Replay, inbox' = Tail(inbox),
         NEW w \in Work, handler' = [handler EXCEPT ![m.work.owner] = w],
         \/ w = Nothing /\ wire' = wire
         \/ /\ w = Doing("init", m.work.path) /\ Send("init", m.work.path, m.work.owner)
            /\ m.work.op = "declare",
         stored' = IF m.ok /\ m.work.op = "purge" THEN stored \ Under(m.work.path) ELSE stored,
         acked' \subseteq Decls,
         refused \subseteq refused' /\ refused' \subseteq Paths,
         cut \subseteq cut' /\ cut' \subseteq Decls,
         ~m.ok => m.work.path \in refused' /\ (m.work.op = "init" => m.work.path \in cut'),
         m.ok /\ m.work.op = "declare" => w # Nothing,
         UNCHANGED <<phase, cache, agenda, replaying, declared, value, faults, wiped,
                     late, stale>>
  PROVE  Inv'
<1> DEFINE h == m.work.owner
           p == m.work.path
           c == [op |-> "init", path |-> p, owner |-> h]
<1>1. /\ m \in Replies /\ OnTarget(m.work) /\ p \in Paths
      /\ h \in Handlers /\ phase # "down" /\ m.work.op \in Commands
  BY Delivered, AwaitsFacts
<1>2. phase = "up"
  BY <1>1, UnderWay DEF Inv, Typed
<1>3. /\ \A o \in Owners : o # h => Awaits'[o] = Awaits[o]
      /\ Awaits'[h] = w
  BY <1>1, AwaitsFacts DEF Awaits, Inv, Typed
<1>4. OnTarget(Nothing) /\ "init" \in Commands
      /\ (m.work.op = "declare" => OnTarget(Doing("init", p)))
  BY <1>1, DoingFacts DEF OnTarget, Commands
<1>5. /\ Flight' /\ wire' \in Seq(Command) /\ inbox' \in Seq(Messages)
      /\ Replies' \subseteq Replies /\ \A r \in Replies : r = m \/ r \in Replies'
      /\ Going \subseteq Going' /\ (w # Nothing => c \in Going')
  <2>1. OnTarget(Awaits'[h])
    BY <1>3, <1>4 DEF OnTarget
  <2>2. \/ wire' = wire
        \/ \E a \in Commands, q \in Paths : Send(a, q, h) /\ Awaits'[h] = Doing(a, q)
    BY <1>1, <1>3, <1>4
  <2>3. /\ Flight' /\ wire' \in Seq(Command) /\ inbox' \in Seq(Messages)
        /\ Replies' \subseteq Replies /\ \A r \in Replies : r = m \/ r \in Replies'
        /\ wire' = wire => Going' = Going
        /\ Send("init", p, h) => Going' = Going \cup {c}
    BY <1>1, <1>3, <1>4, <2>1, <2>2, Woken
  <2> QED BY <2>3
<1>6. c.op = "init" /\ c.path = p
  OBVIOUS
<1> HIDE DEF h, p, c
<1>7. Typed'
  <2>1. stored' \subseteq Paths /\ \A q \in stored' : Storable(q)'
    <3>1. \A q \in stored : q \in Paths /\ (q \notin Nodes => Parent[q] \in stored)
      BY DEF Inv, Typed, Storable
    <3>2. \A q \in Paths : q \notin Nodes /\ Parent[q] \in Under(p) => q \in Under(p)
      BY <1>1, UnderFacts
    <3>3. CASE stored' = stored
      BY <3>1, <3>3 DEF Storable
    <3>4. CASE stored' = stored \ Under(p)
      BY <3>1, <3>2, <3>4 DEF Storable
    <3> QED BY <3>3, <3>4 DEF p
  <2>2. handler' \in [Handlers -> Work]
    BY DEF Inv, Typed
  <2> QED BY <1>5, <2>1, <2>2 DEF Inv, Typed, Command
<1>8. Sessions'
  BY <1>2 DEF Inv, Sessions
<1>9. Descends' /\ Rooted' /\ Reported' /\ Spared'
  BY <1>2, ReplayAtRest DEF Inv, Sessions
<1>10. Remembered'
  BY <1>2, <1>5 DEF Inv, Remembered
<1>11. Promised'
  BY <1>5, <1>6 DEF Inv, Promised, p
<1>12. ReplayNeverWipes'
  BY DEF Inv, ReplayNeverWipes
<1> QED BY <1>5, <1>7, <1>8, <1>9, <1>10, <1>11, <1>12 DEF Inv

LEMMA ReplayContinuesKeeps ==
  ASSUME Inv, inbox # <<>>, NEW m, m = Head(inbox), m.kind = "reply", m.ok,
         m.work.owner = Replay, ReplayContinues(m.work), inbox' = Tail(inbox),
         UNCHANGED <<stored, declared, value, faults, wiped, acked, late, stale,
                     refused, cut>>
  PROVE  Inv'
<1> DEFINE p == m.work.path
<1>1. agenda \in [nodes : SUBSET Nodes, contexts : SUBSET Contexts, decls : SUBSET Decls]
  BY DEF Inv, Typed
<1>2. UNCHANGED <<phase, cache, handler>>
  BY DEF ReplayContinues
<1>3. /\ m.work.op = "register" => replaying = Doing("register", p)
      /\ p \in Paths
  BY ReplayWoken
<1>4. ASSUME m.work.op = "register", p \in Nodes,
             agenda' = [agenda EXCEPT !.contexts = stored \cap Children(p)],
             replaying' = Nothing, UNCHANGED wire
      PROVE  Inv'
  <2>1. agenda.contexts = {}
    BY <1>3, <1>4 DEF Inv, Descends, Opening
  <2>2. stored \cap Children(p) \subseteq Contexts
    BY <1>4, ChildrenFacts
  <2>3. /\ agenda' \in [nodes : SUBSET Nodes, contexts : SUBSET Contexts, decls : SUBSET Decls]
        /\ agenda'.nodes = agenda.nodes /\ agenda'.contexts = stored \cap Children(p)
        /\ agenda'.decls = agenda.decls
    BY <1>1, <1>4, <2>2
  <2>4. \A q : Listed(q)' <=> Listed(q) \/ q \in stored \cap Children(p)
    BY <2>1, <2>3 DEF Listed
  <2> QED BY <1>2, <1>4, <2>3, <2>4, ReplayOpens
<1>5. ASSUME m.work.op = "register", p \in Contexts,
             agenda' = [agenda EXCEPT !.decls = stored \cap Children(p)],
             replaying' = Nothing, UNCHANGED wire
      PROVE  Inv'
  <2>1. agenda.decls = {}
    BY <1>3, <1>5 DEF Inv, Descends, Opening
  <2>2. stored \cap Children(p) \subseteq Decls
    BY <1>5, ChildrenFacts
  <2>3. /\ agenda' \in [nodes : SUBSET Nodes, contexts : SUBSET Contexts, decls : SUBSET Decls]
        /\ agenda'.nodes = agenda.nodes /\ agenda'.contexts = agenda.contexts
        /\ agenda'.decls = stored \cap Children(p)
    BY <1>1, <1>5, <2>2
  <2>4. \A q : Listed(q)' <=> Listed(q) \/ q \in stored \cap Children(p)
    BY <2>1, <2>3 DEF Listed
  <2> QED BY <1>2, <1>5, <2>3, <2>4, ReplayOpens
<1>6. ASSUME m.work.op = "declare", AwaitReplay("init", p), UNCHANGED agenda
      PROVE  Inv'
  BY <1>2, <1>6, ReplayInitialises
<1>7. ASSUME m.work.op = "init", replaying' = Nothing, UNCHANGED <<agenda, wire>>
      PROVE  Inv'
  BY <1>2, <1>7, ReplayGoesOn
<1> QED BY <1>4, <1>5, <1>6, <1>7 DEF ReplayContinues, Entries

LEMMA HandlerContinuesKeeps ==
  ASSUME Inv, inbox # <<>>, NEW m, m = Head(inbox), m.kind = "reply", m.ok,
         m.work.owner # Replay, HandlerContinues(m.work.owner, m.work),
         inbox' = Tail(inbox),
         UNCHANGED <<declared, value, faults, wiped, cut>>
  PROVE  Inv'
<1> DEFINE h == m.work.owner
           p == m.work.path
<1>1. p \in Paths /\ OnTarget(m.work)
  BY Delivered
<1>2. /\ stored' = IF m.work.op = "purge" THEN stored \ Under(p) ELSE stored
      /\ UNCHANGED <<phase, cache, agenda, replaying, late, stale, refused>>
  BY DEF HandlerContinues, Forgotten
<1>3. acked' \subseteq Decls
  <2>1. m.work.op = "init" => p \in Decls
    BY <1>1 DEF OnTarget
  <2> QED BY <2>1 DEF HandlerContinues, Inv, Typed
<1>4. refused' \subseteq Paths /\ cut' \subseteq Decls
  BY <1>2 DEF Inv, Typed
<1>5. CASE m.work.op = "declare"
  <2>1. handler' = [handler EXCEPT ![h] = Doing("init", p)] /\ Send("init", p, h)
    BY <1>5 DEF HandlerContinues, InitialValuesNext, Write
  <2>2. Doing("init", p) \in Work /\ Doing("init", p) # Nothing
    BY <1>1, DoingFacts DEF Commands
  <2> QED BY <1>2, <1>3, <1>4, <1>5, <2>1, <2>2, HandlerWoken
<1>6. CASE m.work.op # "declare"
  <2>1. handler' = [handler EXCEPT ![h] = Nothing] /\ wire' = wire
    BY <1>6 DEF HandlerContinues, InitialValuesNext
  <2> QED BY <1>2, <1>3, <1>4, <1>6, <2>1, DoingFacts, HandlerWoken
<1> QED BY <1>5, <1>6

\* An error ends a handler, and the replay with its session.
LEMMA DeliverReplyKeeps ==
  ASSUME Inv, inbox # <<>>, NEW m, m = Head(inbox), DeliverReply(m)
  PROVE  Inv'
<1>1. m.kind = "reply" /\ UNCHANGED <<declared, value, faults, wiped>>
  BY DEF DeliverReply, realmVars
<1>2. m.work.path \in Paths /\ m.work.op \in Commands /\ OnTarget(m.work)
  BY <1>1, Delivered
<1>3. ASSUME m.ok, m.work.owner = Replay, ReplayContinues(m.work), inbox' = Tail(inbox),
             UNCHANGED <<stored, acked, late, stale, refused, cut>>
      PROVE  Inv'
  BY <1>1, <1>3, ReplayContinuesKeeps
<1>4. ASSUME m.ok, m.work.owner # Replay, HandlerContinues(m.work.owner, m.work),
             inbox' = Tail(inbox), UNCHANGED cut
      PROVE  Inv'
  BY <1>1, <1>4, HandlerContinuesKeeps
<1>5. ASSUME LoseSession, UNCHANGED <<stored, acked, late, stale, refused>>
      PROVE  Inv'
  <2>1. faults' \in Nat
    BY <1>1 DEF Inv, Typed
  <2> QED BY <1>1, <1>5, <2>1, LoseSessionKeeps
<1>6. ASSUME ~m.ok, m.work.owner # Replay,
             handler' = [handler EXCEPT ![m.work.owner] = Nothing],
             inbox' = Tail(inbox),
             refused' = refused \cup {m.work.path},
             acked' = acked \ {m.work.path},
             cut' = IF m.work.op = "init" THEN cut \cup {m.work.path} ELSE cut,
             stored' = KeptWhenRefused(m.work),
             UNCHANGED <<phase, cache, agenda, replaying, wire, late, stale>>
      PROVE  Inv'
  <2>1. /\ acked' \subseteq Decls
        /\ refused \subseteq refused' /\ refused' \subseteq Paths /\ m.work.path \in refused'
    BY <1>2, <1>6 DEF Inv, Typed
  <2>2. /\ cut \subseteq cut' /\ cut' \subseteq Decls
        /\ m.work.op = "init" => m.work.path \in cut'
    BY <1>2, <1>6 DEF Inv, Typed, OnTarget
  <2> QED BY <1>1, <1>6, <2>1, <2>2, DoingFacts, HandlerWoken DEF KeptWhenRefused
<1> QED BY <1>3, <1>4, <1>5, <1>6 DEF DeliverReply

-----------------------------------------------------------------------------
LEMMA InitInv == Init => Inv
<1> SUFFICES ASSUME Init PROVE Inv
  OBVIOUS
<1>1. Going = {} /\ Coming = {} /\ Replies = {}
  BY DEF Init, Going, Coming, Replies, Elems
<1>2. \A p : ~Listed(p) /\ ~Opening(p) /\ ~Busy(p) /\ ~ToCome(p)
  <2>1. \A p : ~Listed(p) /\ ~Opening(p) /\ ~Busy(p)
    BY DoingFacts DEF Init, Listed, Opening, Busy, NoAgenda, Commands
  <2> QED BY <2>1 DEF ToCome
<1>3. Typed
  <2>1. agenda \in [nodes : SUBSET Nodes, contexts : SUBSET Contexts, decls : SUBSET Decls]
    BY DEF Init, NoAgenda
  <2>2. replaying \in Work /\ replaying.op # "body" /\ handler \in [Handlers -> Work]
    BY DoingFacts DEF Init
  <2>3. value \in [Decls -> {"absent", "empty", "init", "property"}]
    BY DEF Init
  <2> QED BY <2>1, <2>2, <2>3 DEF Init, Typed, Storable
<1>4. Flight
  <2>1. \A o \in Owners : OnTarget(Awaits[o])
    BY AwaitsFacts, DoingFacts DEF Init, OnTarget
  <2> QED BY <2>1 DEF Init, Flight, Alone, Held, Elems
<1>5. Sessions
  BY DoingFacts DEF Init, Sessions, Resting, Idle
<1>6. Descends /\ Rooted /\ Reported /\ Spared /\ Remembered /\ Promised /\ ReplayNeverWipes
  BY <1>2 DEF Init, Descends, Rooted, Reported, Spared, Remembered, Promised, ReplayNeverWipes
<1> QED BY <1>3, <1>4, <1>5, <1>6 DEF Inv

LEMMA StutterKeeps ==
  ASSUME Inv, UNCHANGED vars
  PROVE  Inv'
<1>1. UNCHANGED <<stored, phase, cache, agenda, replaying, handler, wire, inbox, declared,
                  value, faults, wiped, acked, late, stale, refused, cut>>
  BY DEF vars, gatewayVars, realmVars, ghostVars
<1>2. Going' = Going /\ Coming' = Coming /\ Replies' = Replies /\ Awaits' = Awaits
  BY <1>1 DEF Going, Coming, Replies, Elems, Awaits
<1>3. Typed'
  BY <1>1 DEF Inv, Typed, Storable
<1>4. Flight'
  BY <1>1, <1>2 DEF Inv, Flight, Alone, Held, Elems, OnTarget, Doing
<1>5. Sessions' /\ Descends' /\ Rooted'
  BY <1>1 DEF Inv, Sessions, Resting, Idle, AwaitsBody, Descends, Rooted, Listed, Opening, Busy
<1>6. Reported' /\ Spared' /\ Remembered' /\ Promised' /\ ReplayNeverWipes'
  BY <1>1, <1>2 DEF Inv, Reported, Spared, Remembered, Promised, ReplayNeverWipes,
                    ToCome, Listed, Opening
<1> QED BY <1>3, <1>4, <1>5, <1>6 DEF Inv

LEMMA InvPreserved == Inv /\ [Next]_vars => Inv'
<1> SUFFICES ASSUME Inv, [Next]_vars PROVE Inv'
  OBVIOUS
<1>1. CASE Connect BY <1>1, ConnectKeeps
<1>2. CASE Drop BY <1>2, DropKeeps
<1>3. CASE ReplayStep BY <1>3, ReplayStepKeeps
<1>4. CASE ReplayDone BY <1>4, ReplayDoneKeeps
<1>5. CASE \E p \in Paths : PutPending(p) BY <1>5, PutPendingKeeps
<1>6. CASE \E h \in Handlers, p \in Paths : PutOnWire(h, p) BY <1>6, PutOnWireKeeps
<1>7. CASE \E h \in Handlers, d \in Decls : PutDeclaration(h, d) BY <1>7, PutDeclarationKeeps
<1>8. CASE \E d \in Decls : PutDeclarationAgain(d) BY <1>8, PutDeclarationAgainKeeps
<1>9. CASE \E h \in Handlers, d \in Decls : PropertyRequested(h, d)
  BY <1>9, PropertyRequestedKeeps
<1>10. CASE \E h \in Handlers : PutProperty(h) BY <1>10, PutPropertyKeeps
<1>11. CASE \E h \in Handlers : BodyFails(h) BY <1>11, BodyFailsKeeps
<1>12. CASE \E h \in Handlers, p \in Paths : Delete(h, p) BY <1>12, DeleteKeeps
<1>13. CASE RealmExecutes BY <1>13, RealmExecutesKeeps
<1>14. CASE RealmRefuses BY <1>14, RealmRefusesKeeps
<1>15. CASE Deliver BY <1>15, DeliverDeltaKeeps, DeliverReplyKeeps DEF Deliver
<1>16. CASE UNCHANGED vars BY <1>16, StutterKeeps
<1> QED BY <1>1, <1>2, <1>3, <1>4, <1>5, <1>6, <1>7, <1>8, <1>9, <1>10, <1>11, <1>12,
           <1>13, <1>14, <1>15, <1>16 DEF Next

LEMMA Invariance == Spec => []Inv
BY InitInv, InvPreserved, PTL DEF Spec

-----------------------------------------------------------------------------
(***************************************************************************)
(* Value-wiper protection, for every tree and any number of lost sessions  *)
(* and refusals: the replay of #register declares only what is not on the  *)
(* realm, since the cache holds the key of what is (realm.js:4-9,          *)
(* 210-214).                                                               *)
(***************************************************************************)
THEOREM NeverWiped == Spec => []ReplayNeverWipes
<1>1. Inv => ReplayNeverWipes
  BY DEF Inv
<1> QED BY <1>1, Invariance, PTL

(***************************************************************************)
(* A command of the replay is about a path that is still stored, and its   *)
(* parent is on the realm when it is sent and until it is executed.        *)
(***************************************************************************)
THEOREM FollowsTree == Spec => []ReplayFollowsTree
<1>1. ASSUME Inv PROVE ReplayFollowsTree
  <2> SUFFICES ASSUME NEW i \in DOMAIN wire, wire[i].owner = Replay
               PROVE  /\ wire[i].path \in stored
                      /\ wire[i].path \notin Nodes => Parent[wire[i].path] \in declared
    BY DEF ReplayFollowsTree
  <2>1. wire \in Seq(Command)
    BY <1>1, ElementsTyped DEF Inv
  <2>2. wire[i] \in Going
    BY <2>1 DEF Going, Elems
  <2>3. /\ wire[i].op \in Commands /\ wire[i].path \in Paths
        /\ replaying = Doing(wire[i].op, wire[i].path)
    BY <1>1, <2>2, UnderWay, AwaitsFacts DEF Command
  <2>4. Busy(wire[i].path)
    BY <2>3, DoingFacts DEF Busy
  <2> QED BY <1>1, <2>3, <2>4 DEF Inv, Rooted
<1> QED BY <1>1, Invariance, PTL

(***************************************************************************)
(* With the session up and nothing in flight, the realm has whatever is    *)
(* stored, except what was late, refused or skipped.                       *)
(***************************************************************************)
THEOREM NothingIsForgotten == Spec => []NothingForgotten
<1>1. ASSUME Inv PROVE NothingForgotten
  <2>1. Quiet => Going = {} /\ Replies = {}
    BY DEF Quiet, Going, Coming, Replies, Elems
  <2> QED BY <1>1, <2>1 DEF Inv, Remembered, NothingForgotten, Connected
<1> QED BY <1>1, Invariance, PTL

(***************************************************************************)
(* With the session up and nothing in flight, no declaration is left       *)
(* without its initial values, unless they were refused or cut off.        *)
(***************************************************************************)
THEOREM InitialKept == Spec => []InitialValuesKept
<1>1. ASSUME Inv PROVE InitialValuesKept
  <2>1. Quiet => Going = {} /\ Replies = {}
    BY DEF Quiet, Going, Coming, Replies, Elems
  <2> QED BY <1>1, <2>1 DEF Inv, Promised, InitialValuesKept
<1> QED BY <1>1, Invariance, PTL

-----------------------------------------------------------------------------
(* Requests that overtake each other: what was not sent behind a DELETE over *)
(* it is stored as long as its command is under way, is executed before any  *)
(* DELETE over it that is, and is gone when the answer of one comes back.    *)

Gone(p) == p \notin declared /\ (p \in Decls => value[p] = "absent")

Kept == \A e \in Going : e.op # "purge" /\ e.path \notin overtaken => e.path \in stored

Emptied ==
  \A r \in Replies : r.ok /\ r.work.op = "purge" =>
    \A p \in Under(r.work.path) \ overtaken :
      Gone(p) /\ \A e \in Going : e.path = p => e.op = "purge"

InOrder ==
  \A i, j \in 1..Len(wire) :
    wire[i].op = "purge" /\ wire[j].op # "purge"
      /\ wire[j].path \in Under(wire[i].path) \ overtaken => j < i

Tidy ==
  /\ overtaken \subseteq Paths
  /\ OrphansWereOvertaken
  /\ Kept /\ Emptied /\ InOrder

\* A DELETE under way, or one whose answer is, is awaited by a handler.
LEMMA PurgeIsAwaited ==
  ASSUME Inv, NEW p,
         \A h \in Handlers : ~(handler[h].op = "purge" /\ p \in Under(handler[h].path))
  PROVE  /\ \A e \in Going : ~(e.op = "purge" /\ p \in Under(e.path))
         /\ \A r \in Replies : ~(r.work.op = "purge" /\ p \in Under(r.work.path))
<1>1. ASSUME NEW o \in Owners, NEW a \in Commands, NEW q \in Paths,
             Awaits[o] = Doing(a, q), a = "purge"
      PROVE  p \notin Under(q)
  <2>1. o # Replay
    BY <1>1, AwaitsFacts, DoingFacts DEF Inv, Sessions
  <2>2. handler[o].op = a /\ handler[o].path = q /\ o \in Handlers
    BY <1>1, <2>1, AwaitsFacts, DoingFacts
  <2> QED BY <1>1, <2>2
<1>2. /\ \A e \in Going : /\ e.op \in Commands /\ e.path \in Paths /\ e.owner \in Owners
                          /\ Awaits[e.owner] = Doing(e.op, e.path)
      /\ \A r \in Replies : /\ r.work.op \in Commands /\ r.work.path \in Paths
                            /\ r.work.owner \in Owners
                            /\ Awaits[r.work.owner] = Doing(r.work.op, r.work.path)
  BY UnderWay DEF Command, Messages, Replies
<1> QED BY <1>1, <1>2

\* Nothing is sent, nothing executed, and the store does not shrink.
LEMMA SilentTidily ==
  ASSUME Tidy, wire' = wire \/ wire' = <<>>, Replies' \subseteq Replies,
         stored \subseteq stored', UNCHANGED <<declared, value, overtaken>>
  PROVE  Tidy'
<1>1. Going' \subseteq Going
  <2>1. CASE wire' = wire
    BY <2>1 DEF Going, Elems
  <2>2. CASE wire' = <<>>
    BY <2>2 DEF Going, Elems
  <2> QED BY <2>1, <2>2
<1>2. OrphansWereOvertaken' /\ Kept'
  BY <1>1 DEF Tidy, OrphansWereOvertaken, OnRealm, Kept
<1>3. Emptied'
  BY <1>1 DEF Tidy, Emptied, Gone
<1>4. InOrder'
  <2>1. CASE wire' = wire
    BY <2>1 DEF Tidy, InOrder
  <2>2. CASE wire' = <<>>
    BY <2>2 DEF InOrder
  <2> QED BY <2>1, <2>2
<1> QED BY <1>2, <1>3, <1>4 DEF Tidy

\* A command is sent: a DELETE, a write that is marked as overtaken, or one of
\* a stored path that no DELETE awaited is over.
LEMMA SendsTidily ==
  ASSUME Inv, Tidy, NEW a \in Commands, NEW p \in Paths, NEW o \in Owners, Send(a, p, o),
         Replies' \subseteq Replies, stored \subseteq stored',
         UNCHANGED <<declared, value>>, overtaken' \subseteq Paths,
         \A q : q # p => (q \in overtaken' <=> q \in overtaken),
         a = "purge" => overtaken' = overtaken,
         a # "purge" /\ p \notin overtaken' =>
           /\ p \in stored'
           /\ \A h \in Handlers : ~(handler[h].op = "purge" /\ p \in Under(handler[h].path))
  PROVE  Tidy'
<1> DEFINE m == [op |-> a, path |-> p, owner |-> o]
<1>1. m \in Command /\ m.op = a /\ m.path = p /\ wire' = Append(wire, m)
  BY DEF Command, Send
<1> HIDE DEF m
<1>2. wire \in Seq(Command) /\ Len(wire) \in Nat
  BY ElementsTyped DEF Inv
<1>3. /\ Len(wire') = Len(wire) + 1
      /\ \A i \in 1..Len(wire) : wire'[i] = wire[i]
      /\ wire'[Len(wire) + 1] = m
      /\ Going' = Going \cup {m}
  BY <1>1, <1>2, AppendFacts DEF Going, Elems
<1>4. a # "purge" /\ p \notin overtaken' =>
        /\ \A e \in Going : ~(e.op = "purge" /\ p \in Under(e.path))
        /\ \A r \in Replies : ~(r.work.op = "purge" /\ p \in Under(r.work.path))
  BY PurgeIsAwaited
<1>5. OrphansWereOvertaken'
  BY DEF Tidy, OrphansWereOvertaken, OnRealm
<1>6. Kept'
  BY <1>1, <1>3 DEF Tidy, Kept
<1>7. Emptied'
  <2> SUFFICES ASSUME NEW r \in Replies, r.ok, r.work.op = "purge",
                      NEW q \in Under(r.work.path) \ overtaken'
               PROVE  Gone(q) /\ \A e \in Going' : e.path = q => e.op = "purge"
    BY DEF Emptied, Gone
  <2>1. q \notin overtaken
    BY <1>4
  <2>2. Gone(q) /\ \A e \in Going : e.path = q => e.op = "purge"
    BY <2>1 DEF Tidy, Emptied
  <2>3. m.path = q => m.op = "purge"
    BY <1>1, <1>4
  <2> QED BY <1>3, <2>2, <2>3
<1>8. InOrder'
  <2> SUFFICES ASSUME NEW i \in 1..Len(wire'), NEW j \in 1..Len(wire'),
                      wire'[i].op = "purge", wire'[j].op # "purge",
                      wire'[j].path \in Under(wire'[i].path), wire'[j].path \notin overtaken'
               PROVE  j < i
    BY DEF InOrder
  <2>1. /\ i \in 1..Len(wire) \/ i = Len(wire) + 1
        /\ j \in 1..Len(wire) \/ j = Len(wire) + 1
    BY <1>2, <1>3
  <2>2. CASE i \in 1..Len(wire) /\ j \in 1..Len(wire)
    <3>1. wire'[i] = wire[i] /\ wire'[j] = wire[j] /\ wire[i] \in Going
      BY <1>3, <2>2 DEF Going, Elems
    <3>2. wire[j].path \notin overtaken
      BY <1>4, <3>1
    <3> QED BY <2>2, <3>1, <3>2 DEF Tidy, InOrder
  <2>3. CASE i = Len(wire) + 1
    <3>1. j # Len(wire) + 1
      BY <2>3
    <3> QED BY <1>2, <2>1, <2>3, <3>1
  <2>4. CASE i \in 1..Len(wire) /\ j = Len(wire) + 1
    <3>1. wire'[i] = wire[i] /\ wire'[j] = m /\ wire[i] \in Going
      BY <1>3, <2>4 DEF Going, Elems
    <3> QED BY <1>1, <1>4, <3>1
  <2> QED BY <2>1, <2>2, <2>3, <2>4
<1> QED BY <1>5, <1>6, <1>7, <1>8 DEF Tidy

\* What Write records is what SendsTidily asks for.
LEMMA WritesTidily ==
  ASSUME Inv, Tidy, NEW a \in Commands \ {"purge"}, NEW p \in Paths, NEW h \in Handlers,
         Write(a, p, h), Replies' \subseteq Replies, stored \subseteq stored',
         UNCHANGED <<declared, value>>
  PROVE  Tidy'
<1>1. /\ Send(a, p, h) /\ h \in Owners /\ overtaken' \subseteq Paths
      /\ \A q : q # p => (q \in overtaken' <=> q \in overtaken)
  BY AwaitsFacts DEF Write, Tidy
<1>2. p \notin overtaken' =>
        /\ p \in stored'
        /\ \A g \in Handlers : ~(handler[g].op = "purge" /\ p \in Under(handler[g].path))
  BY DEF Write, Overtaken
<1> QED BY <1>1, <1>2, SendsTidily

\* So does the replay: it is alone, and what it sends is stored.
LEMMA ReplaySendsTidily ==
  ASSUME Inv, Tidy, phase = "replaying", NEW a \in Commands \ {"purge"}, NEW p \in stored,
         AwaitReplay(a, p), Replies' \subseteq Replies,
         UNCHANGED <<stored, declared, value, overtaken>>
  PROVE  Tidy'
<1>1. p \in Paths /\ Send(a, p, Replay) /\ overtaken' \subseteq Paths
  BY DEF Inv, Typed, AwaitReplay, Tidy
<1>2. \A h \in Handlers : handler[h].op # "purge"
  BY DoingFacts DEF Inv, Sessions, Resting, Idle, AwaitsBody
<1> QED BY <1>1, <1>2, AwaitsFacts, SendsTidily

\* What is left of the wire, and where it was.
LEMMA WireTail ==
  ASSUME wire \in Seq(Command), wire # <<>>, NEW t, t = Tail(wire)
  PROVE  /\ t \in Seq(Command) /\ Len(t) = Len(wire) - 1
         /\ \A i \in 1..Len(t) : i + 1 \in 1..Len(wire) /\ i + 1 # 1 /\ t[i] = wire[i + 1]
         /\ 1 \in 1..Len(wire) /\ Head(wire) = wire[1]
         /\ Elems(wire) = Elems(t) \cup {Head(wire)}
<1>1. t \in Seq(Command)
  BY TailFacts
<1>2. Len(t) = Len(wire) - 1
  BY TailFacts
<1>3. \A i \in 1..Len(t) : i + 1 \in 1..Len(wire) /\ i + 1 # 1 /\ t[i] = wire[i + 1]
  BY TailFacts
<1>4. 1 \in 1..Len(wire) /\ Head(wire) = wire[1]
  BY TailFacts
<1>5. Elems(wire) = Elems(t) \cup {Head(wire)}
  BY TailFacts
<1> QED BY <1>1, <1>2, <1>3, <1>4, <1>5

\* The realm executes a command, or refuses it.
LEMMA AnswersTidily ==
  ASSUME Inv, Tidy, wire # <<>>, NEW m, m = Head(wire), NEW ok \in BOOLEAN,
         Replies' = Replies \cup {ReplyTo(m, ok)}, wire' = Tail(wire),
         UNCHANGED <<stored, overtaken>>,
         \A p : Gone(p) /\ ~(p = m.path /\ m.op # "purge") => Gone(p)',
         OnRealm' \subseteq OnRealm \cup (IF m.op = "purge" THEN {} ELSE {m.path}),
         ok /\ m.op = "purge" => \A p \in Under(m.path) : Gone(p)'
  PROVE  Tidy'
<1>1. wire \in Seq(Command) /\ Len(wire) \in Nat
  BY ElementsTyped DEF Inv
<1>12. \E t : t = Tail(wire)
  OBVIOUS
<1>13. PICK t : t = Tail(wire)
  BY <1>12
<1>14. /\ t \in Seq(Command) /\ Len(t) = Len(wire) - 1
       /\ \A i \in 1..Len(t) : i + 1 \in 1..Len(wire) /\ i + 1 # 1 /\ t[i] = wire[i + 1]
       /\ 1 \in 1..Len(wire) /\ Head(wire) = wire[1]
       /\ Elems(wire) = Elems(t) \cup {Head(wire)}
  BY <1>1, <1>13, WireTail
<1>15. wire' = t
  BY <1>13
<1>16. /\ Len(wire') = Len(wire) - 1
       /\ \A i \in 1..Len(wire') : i + 1 \in 1..Len(wire) /\ i + 1 # 1 /\ wire'[i] = wire[i + 1]
  BY <1>14, <1>15
<1>17. Going' = Elems(t)
  BY <1>15 DEF Going, Elems
<1>18. Going = Elems(t) \cup {m}
  BY <1>14 DEF Going
<1>2. /\ Len(wire') = Len(wire) - 1
      /\ \A i \in 1..Len(wire') : i + 1 \in 1..Len(wire) /\ i + 1 # 1 /\ wire'[i] = wire[i + 1]
      /\ 1 \in 1..Len(wire) /\ m = wire[1]
      /\ Going = Going' \cup {m}
  BY <1>14, <1>16, <1>17, <1>18
<1>3. ReplyTo(m, ok).work = m /\ ReplyTo(m, ok).ok = ok
  BY DEF ReplyTo
<1>4. OrphansWereOvertaken'
  <2>1. m.op # "purge" => m.path \in stored \cup overtaken
    BY <1>2 DEF Tidy, Kept
  <2> QED BY <2>1 DEF Tidy, OrphansWereOvertaken
<1>5. Kept'
  BY <1>2 DEF Tidy, Kept
<1>6. Emptied'
  <2> SUFFICES ASSUME NEW r \in Replies', r.ok, r.work.op = "purge",
                      NEW p \in Under(r.work.path), p \notin overtaken
               PROVE  Gone(p)' /\ \A e \in Going' : e.path = p => e.op = "purge"
    BY DEF Emptied
  <2>1. CASE r \in Replies
    <3>1. Gone(p) /\ \A e \in Going : e.path = p => e.op = "purge"
      BY <2>1 DEF Tidy, Emptied
    <3> QED BY <1>2, <3>1
  <2>2. CASE r = ReplyTo(m, ok)
    <3>1. m.op = "purge" /\ ok /\ p \in Under(m.path)
      BY <1>3, <2>2
    <3>2. ASSUME NEW e \in Going', e.path = p, e.op # "purge" PROVE FALSE
      <4>1. PICK i \in 1..Len(wire') : wire'[i] = e
        BY DEF Going, Elems
      <4>2. wire[i + 1] = e /\ i + 1 \in 1..Len(wire) /\ ~(i + 1 < 1)
        BY <1>1, <1>2, <4>1
      <4> HIDE DEF OrphansWereOvertaken
      <4> QED BY <1>2, <3>1, <3>2, <4>2 DEF Tidy, InOrder
    <3> QED BY <3>1, <3>2
  <2> QED BY <2>1, <2>2
<1>7. InOrder'
  <2> SUFFICES ASSUME NEW i \in 1..Len(wire'), NEW j \in 1..Len(wire'),
                      wire'[i].op = "purge", wire'[j].op # "purge",
                      wire'[j].path \in Under(wire'[i].path), wire'[j].path \notin overtaken
               PROVE  j < i
    BY DEF InOrder
  <2>1. /\ wire'[i] = wire[i + 1] /\ i + 1 \in 1..Len(wire)
        /\ wire'[j] = wire[j + 1] /\ j + 1 \in 1..Len(wire)
    BY <1>2
  <2>2. j + 1 < i + 1
    BY <2>1 DEF Tidy, InOrder
  <2> QED BY <2>2
<1> QED BY <1>4, <1>5, <1>6, <1>7 DEF Tidy

LEMMA ExecutesTidily ==
  ASSUME Inv, Tidy, RealmExecutes
  PROVE  Tidy'
<1> DEFINE m == Head(wire)
<1>1. /\ wire # <<>> /\ Execute(m) /\ wire' = Tail(wire)
      /\ UNCHANGED <<stored, phase, agenda, replaying, handler, overtaken>>
  BY DEF RealmExecutes, gatewayVars
<1>2. m \in Command /\ OnTarget(m)
  <2>1. wire \in Seq(Command)
    BY ElementsTyped DEF Inv
  <2>2. m \in Command /\ m \in Elems(wire)
    BY <1>1, <2>1, TailFacts
  <2> QED BY <2>1, <2>2, UnderWay DEF Going
<1>3. value \in [Decls -> {"absent", "empty", "init", "property"}]
  BY DEF Inv, Typed
<1>4. PICK delta \in [add : SUBSET Decls, remove : SUBSET Decls] : Answer(m, TRUE, delta)
  <2>1. m.op = "declare" => m.path \in Decls
    BY <1>2 DEF OnTarget
  <2> HIDE DEF m
  <2>2. CASE m.op = "declare"
    BY <1>1, <2>1, <2>2 DEF Execute
  <2>3. CASE m.op = "purge"
    BY <1>1, <2>3 DEF Execute
  <2>4. CASE m.op \notin {"declare", "purge"}
    BY <1>1, <2>4, NoDeltaTyped DEF Execute
  <2> QED BY <2>2, <2>3, <2>4
<1>5. Replies' = Replies \cup {ReplyTo(m, TRUE)}
  BY <1>1, <1>2, <1>4, Answered
<1> HIDE DEF m
<1>6. m = Head(wire)
  BY DEF m
<1>7. /\ \A p : p \notin declared /\ ~(p = m.path /\ m.op # "purge") => p \notin declared'
      /\ \A d \in Decls : value'[d] # "absent" =>
           value[d] # "absent" \/ (d = m.path /\ m.op # "purge")
  BY <1>1, <1>3 DEF Execute
<1>8. \A p : Gone(p) /\ ~(p = m.path /\ m.op # "purge") => Gone(p)'
  BY <1>7 DEF Gone
<1>9. OnRealm' \subseteq OnRealm \cup (IF m.op = "purge" THEN {} ELSE {m.path})
  BY <1>7 DEF OnRealm
<1>10. m.op = "purge" => \A p \in Under(m.path) : Gone(p)'
  BY <1>1 DEF Execute, Gone
<1> QED BY <1>1, <1>5, <1>6, <1>8, <1>9, <1>10, AnswersTidily

LEMMA RefusesTidily ==
  ASSUME Inv, Tidy, RealmRefuses
  PROVE  Tidy'
<1> DEFINE m == Head(wire)
<1>1. /\ wire # <<>> /\ Answer(m, FALSE, NoDelta) /\ wire' = Tail(wire)
      /\ UNCHANGED <<stored, phase, agenda, replaying, handler, declared, value, overtaken>>
  BY DEF RealmRefuses, gatewayVars, realmVars, ghostVars
<1>2. Replies' = Replies \cup {ReplyTo(m, FALSE)}
  BY <1>1, Answered, NoDeltaTyped
<1>3. OnRealm' = OnRealm /\ \A p : Gone(p)' <=> Gone(p)
  BY <1>1 DEF OnRealm, Gone
<1> HIDE DEF m
<1>4. m = Head(wire)
  BY DEF m
<1> QED BY <1>1, <1>2, <1>3, <1>4, AnswersTidily

\* A reply is delivered: of a DELETE, the store drops what is gone.
LEMMA ForgetsTidily ==
  ASSUME Inv, Tidy, NEW m \in Replies, m.ok, m.work.op = "purge",
         stored' = stored \ Under(m.work.path), Replies' \subseteq Replies,
         UNCHANGED <<wire, declared, value, overtaken>>
  PROVE  Tidy'
<1>1. Going' = Going
  BY DEF Going, Elems
<1>2. \A p \in Under(m.work.path) \ overtaken :
        Gone(p) /\ \A e \in Going : e.path = p => e.op = "purge"
  BY DEF Tidy, Emptied
<1>3. OrphansWereOvertaken'
  BY <1>2 DEF Tidy, OrphansWereOvertaken, OnRealm, Gone
<1>4. Kept'
  BY <1>1, <1>2 DEF Tidy, Kept
<1>5. Emptied'
  BY <1>1 DEF Tidy, Emptied, Gone
<1>6. InOrder'
  BY DEF Tidy, InOrder
<1> QED BY <1>3, <1>4, <1>5, <1>6 DEF Tidy

LEMMA DeliversTidily ==
  ASSUME Inv, Tidy, Deliver
  PROVE  Tidy'
<1> DEFINE m == Head(inbox)
<1>1. inbox # <<>> /\ (DeliverDelta(m) \/ DeliverReply(m)) /\ UNCHANGED <<declared, value>>
  BY DEF Deliver, DeliverDelta, DeliverReply, realmVars
<1>2. /\ m \in Coming /\ Coming = Elems(Tail(inbox)) \cup {m}
      /\ m.kind = "reply" =>
           /\ m \in Replies /\ m.work.owner \in Owners /\ m.work.path \in Paths
           /\ Awaits[m.work.owner] = Doing(m.work.op, m.work.path)
  BY <1>1, Delivered
<1>3. inbox' = Tail(inbox) \/ inbox' = <<>>
  BY <1>1 DEF DeliverDelta, DeliverReply, LoseSession
<1>4. Replies' \subseteq Replies
  <2>1. CASE inbox' = Tail(inbox)
    BY <1>2, <2>1 DEF Replies, Coming, Elems
  <2>2. CASE inbox' = <<>>
    BY <2>2 DEF Replies, Coming, Elems
  <2> QED BY <1>3, <2>1, <2>2
<1> HIDE DEF m
<1>5. CASE DeliverDelta(m)
  BY <1>1, <1>4, <1>5, SilentTidily DEF DeliverDelta, ghostVars
<1>6. CASE DeliverReply(m) /\ m.work.owner = Replay
  <2>1. stored' = stored /\ overtaken' = overtaken /\ m.kind = "reply"
    BY <1>6 DEF DeliverReply
  <2>2. CASE wire' = wire \/ wire' = <<>>
    BY <1>1, <1>4, <2>1, <2>2, SilentTidily
  <2>3. CASE ~(wire' = wire \/ wire' = <<>>)
    <3>1. m.work.op = "declare" /\ AwaitReplay("init", m.work.path)
      BY <1>6, <2>3 DEF DeliverReply, ReplayContinues, LoseSession
    <3>2. replaying = Doing("declare", m.work.path)
      BY <1>2, <1>6, <2>1, <3>1, AwaitsFacts
    <3>3. phase = "replaying" /\ Busy(m.work.path)
      BY <3>2, DoingFacts DEF Inv, Sessions, Busy, Commands
    <3>4. m.work.path \in stored /\ "init" \in Commands \ {"purge"}
      BY <1>2, <2>1, <3>3 DEF Inv, Rooted, Commands
    <3> QED BY <1>1, <1>4, <2>1, <3>1, <3>3, <3>4, ReplaySendsTidily
  <2> QED BY <2>2, <2>3
<1>7. CASE DeliverReply(m) /\ m.work.owner # Replay
  <2>1. m.work.owner \in Handlers /\ m.kind = "reply" /\ m \in Replies
    BY <1>2, <1>7, AwaitsFacts DEF DeliverReply
  <2>2. CASE ~m.ok
    <3>1. UNCHANGED <<stored, wire, overtaken>>
      BY <1>7, <2>2 DEF DeliverReply, KeptWhenRefused
    <3> QED BY <1>1, <1>4, <3>1, SilentTidily
  <2>3. CASE m.ok /\ m.work.op = "purge"
    <3>1. stored' = stored \ Under(m.work.path) /\ UNCHANGED <<wire, overtaken>>
      BY <1>7, <2>3 DEF DeliverReply, HandlerContinues, InitialValuesNext, Forgotten
    <3> QED BY <1>1, <1>4, <2>1, <2>3, <3>1, ForgetsTidily
  <2>4. CASE m.ok /\ m.work.op # "purge"
    <3>1. stored' = stored
      BY <1>7, <2>4 DEF DeliverReply, HandlerContinues
    <3>2. \/ Write("init", m.work.path, m.work.owner)
          \/ UNCHANGED <<wire, overtaken>>
      BY <1>7, <2>4 DEF DeliverReply, HandlerContinues
    <3>3. "init" \in Commands \ {"purge"}
      BY DEF Commands
    <3>4. CASE Write("init", m.work.path, m.work.owner)
      BY <1>1, <1>2, <1>4, <2>1, <3>1, <3>3, <3>4, WritesTidily
    <3>5. CASE UNCHANGED <<wire, overtaken>>
      BY <1>1, <1>4, <3>1, <3>5, SilentTidily
    <3> QED BY <3>2, <3>4, <3>5
  <2> QED BY <2>2, <2>3, <2>4
<1> QED BY <1>1, <1>5, <1>6, <1>7

LEMMA TidyPreserved == Inv /\ Tidy /\ [Next]_vars => Tidy'
<1> SUFFICES ASSUME Inv, Tidy, [Next]_vars PROVE Tidy'
  OBVIOUS
<1> USE DEF realmVars, ghostVars, gatewayVars
<1>1. CASE /\ UNCHANGED <<inbox, declared, value, overtaken>> /\ stored \subseteq stored'
           /\ wire' = wire
  BY <1>1, SilentTidily DEF Replies, Coming, Elems
<1>2. CASE Connect
  BY <1>1, <1>2 DEF Connect
<1>3. CASE Drop
  <2>1. inbox' = <<>> /\ wire' = <<>> /\ UNCHANGED <<stored, declared, value, overtaken>>
    BY <1>3 DEF Drop, LoseSession
  <2>2. Replies' = {}
    BY <2>1 DEF Replies, Coming, Elems
  <2> QED BY <2>1, <2>2, SilentTidily
<1>4. CASE ReplayStep
  <2>1. UNCHANGED <<stored, inbox, declared, value, overtaken>> /\ phase = "replaying"
    BY <1>4 DEF ReplayStep, LoopFree
  <2>2. \/ wire' = wire
        \/ \E a \in {"register", "declare"}, p \in Paths : Listed(p) /\ AwaitReplay(a, p)
    BY <1>4 DEF ReplayStep, ReplayDeclaration, ReplayContext, ReplayNode, Listed
  <2>3. ASSUME NEW a \in {"register", "declare"}, NEW p \in Paths, Listed(p), AwaitReplay(a, p)
        PROVE  Tidy'
    <3>1. p \in stored /\ a \in Commands \ {"purge"}
      BY <2>3 DEF Inv, Rooted, Commands
    <3>2. Replies' = Replies
      BY <2>1 DEF Replies, Coming, Elems
    <3> QED BY <2>1, <2>3, <3>1, <3>2, ReplaySendsTidily
  <2> QED BY <1>1, <2>1, <2>2, <2>3
<1>5. CASE ReplayDone
  BY <1>1, <1>5 DEF ReplayDone
<1>6. CASE \E p \in Paths : PutPending(p)
  BY <1>1, <1>6 DEF PutPending
<1>7. ASSUME NEW h \in Handlers, NEW a \in Commands \ {"purge"}, NEW p \in Paths,
             Write(a, p, h), stored \subseteq stored', UNCHANGED <<inbox, declared, value>>
      PROVE  Tidy'
  BY <1>7, WritesTidily DEF Replies, Coming, Elems
<1>8. /\ "register" \in Commands \ {"purge"} /\ "declare" \in Commands \ {"purge"}
      /\ "property" \in Commands \ {"purge"} /\ "purge" \in Commands
  BY DEF Commands
<1>9. ASSUME NEW h \in Handlers, NEW p \in Paths, PutOnWire(h, p) PROVE Tidy'
  BY <1>7, <1>8, <1>9 DEF PutOnWire
<1>10. ASSUME NEW h \in Handlers, NEW d \in Decls, PutDeclaration(h, d) PROVE Tidy'
  <2>1. d \in Paths /\ stored \subseteq stored' /\ UNCHANGED <<inbox, declared, value>>
    BY <1>10 DEF PutDeclaration, Paths
  <2>2. UNCHANGED <<wire, overtaken>> \/ Write("declare", d, h)
    BY <1>10 DEF PutDeclaration
  <2> QED BY <1>1, <1>7, <1>8, <2>1, <2>2
<1>11. CASE \E d \in Decls : PutDeclarationAgain(d)
  BY <1>1, <1>11 DEF PutDeclarationAgain
<1>12. CASE \E h \in Handlers, d \in Decls : PropertyRequested(h, d)
  BY <1>1, <1>12 DEF PropertyRequested
<1>13. ASSUME NEW h \in Handlers, PutProperty(h) PROVE Tidy'
  <2>1. handler[h].path \in Paths
    <3>1. handler[h] \in Work /\ handler[h].op = "body"
      BY <1>13 DEF PutProperty, AwaitsBody, Inv, Typed
    <3> QED BY <3>1, WorkFacts, DoingFacts
  <2>2. /\ Write("property", handler[h].path, h)
        /\ UNCHANGED <<stored, inbox, declared, value>>
    BY <1>13 DEF PutProperty
  <2> QED BY <1>7, <1>8, <2>1, <2>2
<1>14. CASE \E h \in Handlers : BodyFails(h)
  BY <1>1, <1>14 DEF BodyFails
<1>15. ASSUME NEW h \in Handlers, NEW p \in Paths, Delete(h, p) PROVE Tidy'
  <2>1. Send("purge", p, h) /\ UNCHANGED <<stored, inbox, declared, value, overtaken>>
    BY <1>15 DEF Delete
  <2>2. Replies' = Replies /\ overtaken' \subseteq Paths
    BY <2>1 DEF Replies, Coming, Elems, Tidy
  <2> QED BY <1>8, <2>1, <2>2, AwaitsFacts, SendsTidily
<1>16. CASE RealmExecutes
  BY <1>16, ExecutesTidily
<1>17. CASE RealmRefuses
  BY <1>17, RefusesTidily
<1>18. CASE Deliver
  BY <1>18, DeliversTidily
<1>19. CASE UNCHANGED vars
  BY <1>1, <1>19 DEF vars
<1> QED BY <1>2, <1>3, <1>4, <1>5, <1>6, <1>9, <1>10, <1>11, <1>12, <1>13, <1>14, <1>15,
           <1>16, <1>17, <1>18, <1>19 DEF Next

LEMMA Tidiness == Spec => []Tidy
<1>1. Init => Tidy
  BY DEF Init, Tidy, OrphansWereOvertaken, OnRealm, Kept, Emptied, InOrder, Going, Replies,
         Coming, Elems
<1> QED BY <1>1, TidyPreserved, Invariance, PTL DEF Spec

(***************************************************************************)
(* Nothing is on the realm that the store does not know, for any number of *)
(* concurrent requests and through replays, refusals and lost sessions,    *)
(* except what a request wrote behind another one's DELETE over it: a PUT  *)
(* stores before it sends, and a DELETE drops from the store only what is  *)
(* gone (api.js:262-264, 301-304, 332-334).                                *)
(***************************************************************************)
THEOREM OnlyOvertakenOrphaned == Spec => []OrphansWereOvertaken
<1>1. Tidy => OrphansWereOvertaken
  BY DEF Tidy
<1> QED BY <1>1, Tidiness, PTL

(***************************************************************************)
(* Every value the store, the session, the replay, the handlers, the       *)
(* socket and the realm go through has its type, and a stored path always  *)
(* has a stored parent (store.js).                                         *)
(***************************************************************************)
THEOREM TypeCorrect == Spec => []TypeOK
<1>1. Inv /\ Tidy => TypeOK
  BY DEF Inv, Tidy, TypeOK
<1> QED BY <1>1, Invariance, Tidiness, PTL
=============================================================================
