-------------------------- MODULE CapabilitiesProofs --------------------------
(***************************************************************************)
(* Proofs about Registry and Capabilities, for any callers, capabilities,  *)
(* connections, properties and revisions of the profile.                   *)
(*                                                                         *)
(* The registry's half of the inductive invariant says where every answer  *)
(* comes from: nothing is remembered, kept on disk or on its way that the  *)
(* registry did not publish, and what is on its way was published in the   *)
(* life of this process.  The other half is what a request in progress     *)
(* still owes to the capability it found when it began.                    *)
(***************************************************************************)
EXTENDS Capabilities, TLAPS

\* What the gateway knows of the profile was published.
Published ==
  /\ cache <= published /\ disk <= published
  /\ \A l \in Callers : lookup[l] <= published

\* An answer on its way was sent in the life of this process.
AnswersFresh == \A l \in Callers : lookup[l] >= 0 => lookup[l] >= floor

\* A profile that was learnt has a file, if a damaged one.
Kept == learnt => disk # Unknown

RegistryInv ==
  /\ RegistryTypeOK
  /\ Published
  /\ AnswersFresh
  /\ Kept
  /\ FreshSinceStart

\* A write made with a token, when it began, was granted by it.
GrantedBy(g, w) ==
  /\ g # NoGrant
  /\ g.conn = w.conn
  /\ w.prop \in g.props
  /\ g.direction # "read"
  /\ w.timely

\* One of the first n versions of the profile gives the role the property.
Allows(n, prop) == \E v \in 1..n : Writes(Role, v, prop)

\* What a request in progress relies on, under the grants gs and n versions.
Sound(gs, n, w) ==
  /\ w \in Device => GrantedBy(gs[w.cap], w)
  /\ w \in Minting => \A p \in w.grant.props \ w.todo : Allows(n, p)

Kinds == Device \cup Asking \cup Minting \cup {Other, NoRequest}

\* What is minted, kept, in force and written.
Tokens ==
  /\ grant \in [CapIds -> Grant \cup {NoGrant}]
  /\ stored \cup kept \cup shown \cup expired \cup withdrawn
       \subseteq {k \in CapIds : grant[k] # NoGrant}
  /\ revoked \subseteq withdrawn
  /\ bound \subseteq Conns
  /\ wrote \in Write \cup {NoWrite}
  /\ WithinGrant
  /\ Attenuated
  /\ RevokedStaysRevoked
  /\ TokensLast

\* What is under way.
Requests ==
  /\ request \in [Callers -> Kinds]
  /\ \A r \in Callers : Sound(grant, published, request[r])

Waiting == \A r \in Callers : lookup[r] # Idle <=> request[r].at = "registry"

Inv ==
  /\ RegistryInv
  /\ Tokens
  /\ Requests
  /\ Waiting
  /\ up \in BOOLEAN /\ boots \in 1..MaxBoots

-----------------------------------------------------------------------------
(* The registry *)

LEMMA RecordsFacts ==
  /\ Records \subseteq Nat
  /\ \A v \in Records : v >= 1
  /\ Unknown \notin Records /\ Damaged \notin Records /\ NotRegistered \notin Records
  /\ Idle \notin Records /\ Asked \notin Records
BY RevisionsAssumption DEF Records, Unknown, Damaged, NotRegistered, Idle, Asked

LEMMA Ranges ==
  ASSUME RegistryTypeOK
  PROVE  /\ published \in Nat /\ floor \in Nat /\ floor <= published
         /\ cache \in Int /\ disk \in Int
         /\ \A l \in Callers : lookup[l] \in Int
<1>1. Records \subseteq Int /\ Records \subseteq Nat
  BY RecordsFacts
<1>2. /\ Unknown \in Int /\ Damaged \in Int /\ NotRegistered \in Nat
      /\ NotRegistered \in Int /\ Idle \in Int /\ Asked \in Int
  BY DEF Unknown, Damaged, NotRegistered, Idle, Asked
<1>3. published \in Nat
  BY <1>1, <1>2 DEF RegistryTypeOK
<1>4. cache \in Int
  BY <1>1, <1>2 DEF RegistryTypeOK
<1>5. disk \in Int
  BY <1>1, <1>2 DEF RegistryTypeOK
<1>6. ASSUME NEW l \in Callers PROVE lookup[l] \in Int
  BY <1>1, <1>2 DEF RegistryTypeOK
<1>7. floor \in Nat /\ floor <= published
  BY <1>3 DEF RegistryTypeOK
<1> QED BY <1>3, <1>4, <1>5, <1>6, <1>7

LEMMA RegistryInitInv == RegistryInit => RegistryInv
<1> SUFFICES ASSUME RegistryInit PROVE RegistryInv
  OBVIOUS
<1>1. /\ published = 0 /\ floor = 0 /\ cache = Unknown /\ disk = Unknown
      /\ lookup = [l \in Callers |-> Idle] /\ offline = FALSE /\ learnt = FALSE
  BY DEF RegistryInit, NotRegistered
<1>2. RegistryTypeOK
  <2>1. lookup \in [Callers -> {Idle, Asked, NotRegistered} \cup Records]
    BY <1>1
  <2>2. published = NotRegistered /\ floor \in 0..published
    BY <1>1 DEF NotRegistered
  <2>3. cache \notin Records /\ disk \notin Records
    BY <1>1, RecordsFacts
  <2> QED BY <1>1, <2>1, <2>2, <2>3 DEF RegistryTypeOK
<1>3. Published /\ AnswersFresh /\ Kept /\ FreshSinceStart
  BY <1>1 DEF Published, AnswersFresh, Kept, FreshSinceStart, Unknown, Idle
<1> QED BY <1>2, <1>3 DEF RegistryInv

LEMMA PublishKeeps == RegistryInv /\ Publish => RegistryInv' /\ published <= published'
<1> SUFFICES ASSUME RegistryInv, Publish
             PROVE  RegistryInv' /\ published <= published'
  OBVIOUS
<1>1. /\ published \in Nat /\ published' = published + 1 /\ published' \in Records
      /\ UNCHANGED <<cache, disk, lookup, floor, offline, learnt>>
  BY RevisionsAssumption
     DEF Publish, RegistryInv, RegistryTypeOK, Records, NotRegistered
<1>2. cache \in Int /\ disk \in Int /\ \A l \in Callers : lookup[l] \in Int
  BY Ranges DEF RegistryInv
<1>3. RegistryTypeOK'
  BY <1>1, RecordsFacts DEF RegistryInv, RegistryTypeOK, NotRegistered
<1>4. Published'
  BY <1>1, <1>2 DEF RegistryInv, Published
<1> QED BY <1>1, <1>3, <1>4 DEF RegistryInv, AnswersFresh, Kept, FreshSinceStart

LEMMA AskKeeps ==
  ASSUME RegistryInv, NEW l \in Callers, Ask(l)
  PROVE  RegistryInv'
BY DEF Ask, RegistryInv, RegistryTypeOK, Published, AnswersFresh, Kept,
       FreshSinceStart, Asked, Records, NotRegistered

LEMMA ServeKeeps ==
  ASSUME RegistryInv, NEW l \in Callers, Serve(l)
  PROVE  RegistryInv'
BY DEF Serve, RegistryInv, RegistryTypeOK, Published, AnswersFresh, Kept,
       FreshSinceStart, Asked, Records, NotRegistered

\* What a resolved entry is worth: one of the profiles published since the
\* process started, or the file's.
Recent(entry, fellBack) ==
  entry \in Records => entry \in (IF fellBack THEN 1 ELSE floor)..published

LEMMA CacheRecent == RegistryInv => Recent(cache, offline)
BY RecordsFacts DEF RegistryInv, RegistryTypeOK, Published, FreshSinceStart, Recent

LEMMA FallBackFacts ==
  ASSUME RegistryInv, NEW file \in {Unknown, Damaged} \cup Records,
         file = Damaged \/ file = disk, NEW got, FallBack(file, got)
  PROVE  /\ got \in {Failed} \cup Records /\ Recent(got, TRUE)
         /\ cache' \in {cache, got} /\ cache' \in {Unknown, NotRegistered} \cup Records
         /\ cache' <= published
         /\ offline' = TRUE /\ UNCHANGED learnt
         /\ file \in Records => cache' # Unknown /\ published # NotRegistered
         /\ cache' \in Records => published # NotRegistered
<1>1. /\ cache \in {Unknown, NotRegistered} \cup Records /\ cache <= published
      /\ published \in Nat /\ file <= published
      /\ cache \in Records \/ disk \in Records => published # NotRegistered
  BY RecordsFacts DEF RegistryInv, RegistryTypeOK, Published, Damaged, NotRegistered
<1>2. CASE file \in Records
  <2>1. got = file /\ got # Failed /\ cache' = got
    BY <1>2, RecordsFacts DEF FallBack, Failed
  <2>2. file = disk
    BY <1>2, RecordsFacts
  <2> QED BY <1>1, <1>2, <2>1, <2>2, RecordsFacts DEF FallBack, Recent
<1>3. CASE file \notin Records
  <2>1. got = Failed /\ cache' = cache
    BY <1>3 DEF FallBack
  <2> QED BY <1>1, <1>3, <2>1, RecordsFacts DEF FallBack, Recent, Failed, Unknown
<1> QED BY <1>2, <1>3

LEMMA ResolveFacts ==
  ASSUME RegistryInv, NEW l \in Callers, NEW got, Resolve(l, got)
  PROVE  /\ RegistryInv'
         /\ Recent(got, offline')
         /\ lookup' = [lookup EXCEPT ![l] = Idle] /\ UNCHANGED <<published, floor>>
         /\ cache' # Unknown \/ ~learnt \/ disk' = Damaged
<1>1. /\ lookup \in [Callers -> {Idle, Asked, NotRegistered} \cup Records]
      /\ lookup' = [lookup EXCEPT ![l] = Idle] /\ UNCHANGED <<published, floor>>
      /\ published \in Nat /\ floor \in 0..published
      /\ published \in {NotRegistered} \cup Records
      /\ disk \in {Unknown, Damaged} \cup Records
  BY RecordsFacts DEF RegistryInv, RegistryTypeOK, Resolve, NotRegistered
<1>2. /\ lookup' \in [Callers -> {Idle, Asked, NotRegistered} \cup Records]
      /\ \A k \in Callers : lookup'[k] <= published
      /\ AnswersFresh'
  BY <1>1 DEF RegistryInv, Published, AnswersFresh, Idle
<1>3. ASSUME /\ cache' \in {Unknown, NotRegistered} \cup Records /\ cache' <= published
             /\ disk' \in {Unknown, Damaged} \cup Records /\ disk' <= published
             /\ offline' \in BOOLEAN /\ learnt' \in BOOLEAN
             /\ cache' \in Records \/ disk' \in Records => published # NotRegistered
             /\ learnt' => disk' # Unknown
             /\ ~offline' => cache' >= floor
      PROVE  RegistryInv'
  BY <1>1, <1>2, <1>3
     DEF RegistryInv, RegistryTypeOK, Published, Kept, FreshSinceStart
<1>4. CASE NotFound(l, got)
  BY <1>1, <1>3, <1>4, RecordsFacts
     DEF NotFound, RegistryInv, RegistryTypeOK, Published, AnswersFresh, Kept,
         Recent, NotRegistered, Unknown
<1>5. CASE Found(l, got)
  <2>1. got \in Records /\ got = lookup[l]
    BY <1>5 DEF Found
  <2>2. got \in Nat /\ got >= 1
    BY <2>1, RecordsFacts
  <2>3. got >= floor /\ got <= published
    BY <2>1, <2>2 DEF RegistryInv, Published, AnswersFresh
  <2>4. published # NotRegistered
    BY <1>1, <2>2, <2>3 DEF NotRegistered
  <2>5. /\ cache' = got /\ disk' = got /\ learnt' = TRUE
        /\ offline' = offline /\ offline \in BOOLEAN
    BY <1>5 DEF Found, RegistryInv, RegistryTypeOK
  <2>6. got # Unknown
    BY <2>2 DEF Unknown
  <2>7. RegistryInv'
    BY <1>3, <2>1, <2>3, <2>4, <2>5, <2>6
  <2>8. Recent(got, offline')
    BY <1>1, <2>2, <2>3 DEF Recent
  <2> QED BY <1>1, <2>5, <2>6, <2>7, <2>8
<1>6. ASSUME disk' = Damaged \/ disk' = disk, FallBack(disk', got)
      PROVE  /\ RegistryInv'
             /\ Recent(got, offline')
             /\ cache' # Unknown \/ ~learnt \/ disk' = Damaged
  <2>1. disk' \in {Unknown, Damaged} \cup Records
    BY <1>1, <1>6
  <2>2. /\ Recent(got, offline')
        /\ cache' \in {Unknown, NotRegistered} \cup Records
        /\ cache' <= published
        /\ offline' = TRUE /\ UNCHANGED learnt
        /\ disk' \in Records => cache' # Unknown /\ published # NotRegistered
        /\ cache' \in Records => published # NotRegistered
    BY <1>6, <2>1, FallBackFacts
  <2>3. learnt => disk' # Unknown
    BY <1>6 DEF RegistryInv, Kept, Damaged, Unknown
  <2>4. disk' <= published
    BY <1>1, <1>6 DEF RegistryInv, Published, Damaged
  <2>5. learnt \in BOOLEAN
    BY DEF RegistryInv, RegistryTypeOK
  <2> QED BY <1>3, <2>1, <2>2, <2>3, <2>4, <2>5
<1>7. CASE GivesUp(l, got)
  BY <1>1, <1>6, <1>7 DEF GivesUp
<1>8. CASE WriteFails(l, got)
  BY <1>1, <1>6, <1>8 DEF WriteFails
<1> QED BY <1>1, <1>4, <1>5, <1>7, <1>8 DEF Resolve

LEMMA RegistryRestartKeeps == RegistryInv /\ RegistryRestart => RegistryInv'
<1> SUFFICES ASSUME RegistryInv, RegistryRestart PROVE RegistryInv'
  OBVIOUS
<1>1. /\ cache' = Unknown /\ lookup' = [k \in Callers |-> Idle]
      /\ disk' = disk \/ disk' = Damaged
      /\ floor' = published /\ offline' = FALSE /\ UNCHANGED <<published, learnt>>
  BY DEF RegistryRestart
<1>2. published \in Nat /\ published \in {NotRegistered} \cup Records
  BY RecordsFacts DEF RegistryInv, RegistryTypeOK, NotRegistered
<1>3. disk' \in {Unknown, Damaged} \cup Records /\ disk' <= published
  BY <1>1, <1>2 DEF RegistryInv, RegistryTypeOK, Published, Damaged
<1>4. disk' \in Records => disk \in Records
  BY <1>1, RecordsFacts
<1>5. RegistryTypeOK'
  <2>1. cache' \notin Records
    BY <1>1, RecordsFacts
  <2>3. lookup' \in [Callers -> {Idle, Asked, NotRegistered} \cup Records]
    BY <1>1
  <2>4. published' = published /\ floor' \in 0..published'
    BY <1>1, <1>2
  <2>5. offline' \in BOOLEAN /\ learnt' \in BOOLEAN
    BY <1>1 DEF RegistryInv, RegistryTypeOK
  <2>2. disk \in Records => published # NotRegistered
    BY DEF RegistryInv, RegistryTypeOK
  <2> QED BY <1>1, <1>2, <1>3, <1>4, <2>1, <2>2, <2>3, <2>4, <2>5
          DEF RegistryTypeOK
<1>6. Published' /\ AnswersFresh' /\ FreshSinceStart'
  BY <1>1, <1>2, <1>3 DEF Published, AnswersFresh, FreshSinceStart, Unknown, Idle
<1>7. Kept'
  BY <1>1 DEF RegistryInv, Kept, Unknown, Damaged
<1> QED BY <1>5, <1>6, <1>7 DEF RegistryInv

LEMMA RegistryRests == RegistryInv /\ UNCHANGED registryVars => RegistryInv'
BY DEF registryVars, RegistryInv, RegistryTypeOK, Published, AnswersFresh, Kept,
       FreshSinceStart

-----------------------------------------------------------------------------
(* The requests *)

\* No step takes a grant or a version of the profile back.
Grows ==
  /\ \A k \in CapIds : grant[k] # NoGrant => grant'[k] = grant[k]
  /\ published' \in Nat /\ published <= published'

LEMMA DeviceShape ==
  ASSUME NEW w \in Device
  PROVE  /\ DOMAIN w = {"at", "cap", "conn", "prop", "timely"}
         /\ w.at \in {"body", "registry", "realm", "lost"} /\ w.cap \in CapIds
BY DEF Device

LEMMA MintingShape ==
  ASSUME NEW w \in Minting
  PROVE  /\ DOMAIN w = {"at", "grant", "todo"}
         /\ w.at \in {"checks", "registry"} /\ w.grant \in Grant
         /\ w.todo \subseteq Props
BY DEF Minting

LEMMA AskingShape ==
  ASSUME NEW w \in Asking
  PROVE  DOMAIN w = {"at", "conn"} /\ w.at = "body"
BY DEF Asking

LEMMA PlainShape ==
  /\ NoRequest.at = "idle" /\ Other.at = "registry"
  /\ DOMAIN NoRequest = {"at"} /\ DOMAIN Other = {"at"}
BY DEF NoRequest, Other

\* A request is of one kind.
LEMMA KindFacts ==
  /\ \A w \in Device : w \notin Minting /\ w # Other /\ w # NoRequest
  /\ \A w \in Minting : w \notin Device /\ w # Other /\ w # NoRequest
  /\ \A w \in Asking : w \notin Device /\ w \notin Minting
  /\ Other \notin Device /\ Other \notin Minting
  /\ NoRequest \notin Device /\ NoRequest \notin Minting
<1>1. \A w \in Device : DOMAIN w = {"at", "cap", "conn", "prop", "timely"}
  BY DeviceShape
<1>2. \A w \in Minting : DOMAIN w = {"at", "grant", "todo"}
  BY MintingShape
<1>3. \A w \in Asking : DOMAIN w = {"at", "conn"}
  BY AskingShape
<1> QED BY <1>1, <1>2, <1>3, PlainShape

LEMMA PlainSound ==
  ASSUME NEW gs, NEW n
  PROVE  /\ Sound(gs, n, NoRequest) /\ Sound(gs, n, Other)
         /\ \A w \in Asking : Sound(gs, n, w)
BY KindFacts DEF Sound

\* A request that moves to another await remains what it was.
LEMMA MovedShape ==
  ASSUME NEW gs, NEW n, NEW a \in {"registry", "realm", "lost"}, NEW w, Sound(gs, n, w),
         w \in Device \/ (w \in Minting /\ a = "registry"),
         NEW x, x = [w EXCEPT !.at = a]
  PROVE  x \in Kinds /\ x.at = a /\ Sound(gs, n, x)
<1>1. CASE w \in Device
  <2>1. x \in Device /\ x.at = a
    BY <1>1 DEF Device
  <2>2. x.cap = w.cap /\ x.conn = w.conn /\ x.prop = w.prop /\ x.timely = w.timely
    BY <1>1 DEF Device
  <2> QED BY <1>1, <2>1, <2>2, KindFacts DEF Sound, GrantedBy, Kinds
<1>2. CASE w \in Minting /\ a = "registry"
  <2>1. x \in Minting /\ x.at = a
    BY <1>2 DEF Minting
  <2>2. x.grant = w.grant /\ x.todo = w.todo
    BY <1>2 DEF Minting
  <2> QED BY <1>2, <2>1, <2>2, KindFacts DEF Sound, Kinds
<1> QED BY <1>1, <1>2

\* What a request relies on stays.
LEMMA SoundStays ==
  ASSUME Inv, Grows, NEW w \in Kinds, Sound(grant, published, w)
  PROVE  Sound(grant', published', w)
<1>1. published \in Nat /\ 1..published \subseteq 1..published'
  BY Ranges DEF Inv, RegistryInv, Grows
<1>2. CASE w \in Device
  <2>1. w.cap \in CapIds
    BY <1>2, DeviceShape
  <2> QED BY <1>2, <2>1, KindFacts DEF Sound, GrantedBy, Grows
<1>3. CASE w \in Minting
  BY <1>1, <1>3, KindFacts DEF Sound, Allows
<1> QED BY <1>2, <1>3 DEF Sound

LEMMA RequestsAll ==
  ASSUME Inv, Grows, request' \in [Callers -> Kinds],
         \A r \in Callers : Sound(grant, published, request'[r])
  PROVE  Requests'
<1>1. \A r \in Callers : Sound(grant', published', request'[r])
  BY SoundStays
<1> QED BY <1>1 DEF Requests

LEMMA RequestsStep ==
  ASSUME Inv, Grows, NEW r \in Callers, NEW x \in Kinds,
         request' = [request EXCEPT ![r] = x], Sound(grant, published, x)
  PROVE  Requests'
<1>1. request' \in [Callers -> Kinds]
  BY DEF Inv, Requests
<1>2. \A q \in Callers : Sound(grant, published, request'[q])
  BY DEF Inv, Requests
<1> QED BY <1>1, <1>2, RequestsAll

\* The caller's step ends, and whether it waits for the registry is in order.
LEMMA WaitingStep ==
  ASSUME Inv, NEW r \in Callers, NEW x, request' = [request EXCEPT ![r] = x],
         NEW a, lookup' = [lookup EXCEPT ![r] = a],
         a # Idle <=> x.at = "registry"
  PROVE  Waiting'
BY DEF Inv, Waiting, Requests, RegistryInv, RegistryTypeOK

-----------------------------------------------------------------------------
(* The tokens *)

LEMMA GrantShape == NoGrant \notin Grant /\ \A g \in Grant : g # NoGrant /\ g.props # {}
<1>1. NoGrant.props = {}
  BY DEF NoGrant
<1>2. \A g \in Grant : g.props # {} /\ g.props \subseteq Props /\ g.conn \in Conns
  BY DEF Grant
<1> QED BY <1>1, <1>2

\* What is written was granted, and its grant stays.
LEMMA WithinGrantStays ==
  ASSUME Inv, Grows, UNCHANGED wrote
  PROVE  WithinGrant'
BY DEF Inv, Tokens, WithinGrant, Grows

LEMMA AttenuatedStays ==
  ASSUME Inv, Grows, stored' \cup kept' \subseteq stored \cup kept
  PROVE  Attenuated'
<1>1. published \in Nat /\ 1..published \subseteq 1..published'
  BY Ranges DEF Inv, RegistryInv, Grows
<1>2. \A k \in stored' \cup kept' : k \in stored \cup kept /\ grant'[k] = grant[k]
  BY DEF Inv, Tokens, Grows
<1> QED BY <1>1, <1>2 DEF Inv, Tokens, Attenuated

\* A step that leaves the tokens alone.
LEMMA TokensRest ==
  ASSUME Inv, UNCHANGED <<tokenVars, wrote>>, bound' \subseteq Conns,
         published' \in Nat, published <= published'
  PROVE  Tokens' /\ Grows
<1>1. UNCHANGED <<grant, stored, kept, shown, expired, withdrawn, revoked, wrote>>
  BY DEF tokenVars
<1>2. Grows
  BY <1>1 DEF Grows
<1>3. WithinGrant' /\ Attenuated'
  BY <1>1, <1>2, WithinGrantStays, AttenuatedStays
<1>4. RevokedStaysRevoked' /\ TokensLast'
  BY <1>1 DEF Inv, Tokens, RevokedStaysRevoked, TokensLast
<1> QED BY <1>1, <1>2, <1>3, <1>4 DEF Inv, Tokens

\* A step that saves, or whose save fails.
LEMMA TokensSaved ==
  ASSUME Inv, UNCHANGED <<grant, shown, wrote, published>>, bound' \subseteq Conns,
         stored' \subseteq stored \cup kept, kept' \in {kept, stored'},
         expired' \cup withdrawn' \subseteq {k \in CapIds : grant[k] # NoGrant},
         revoked' \subseteq withdrawn', withdrawn \subseteq withdrawn',
         revoked' \cap (stored' \cup kept') = {},
         shown \ withdrawn' \subseteq stored'
  PROVE  Tokens' /\ Grows
<1>1. published \in Nat
  BY Ranges DEF Inv, RegistryInv
<1>2. Grows
  BY <1>1 DEF Grows
<1>3. WithinGrant' /\ Attenuated'
  BY <1>2, WithinGrantStays, AttenuatedStays
<1>4. RevokedStaysRevoked' /\ TokensLast'
  BY DEF Inv, Tokens, RevokedStaysRevoked, TokensLast
<1> QED BY <1>2, <1>3, <1>4 DEF Inv, Tokens

\* A mint: versions of the profile give the role each of the grant's properties.
LEMMA MintsKeeps ==
  ASSUME Inv, UNCHANGED <<published, bound>>, NEW g \in Grant, Mints(g),
         g.direction # "read" => \A p \in g.props : Allows(published, p)
  PROVE  Tokens' /\ Grows
<1>1. PICK k \in CapIds, ok \in BOOLEAN :
        /\ grant[k] = NoGrant
        /\ grant' = [grant EXCEPT ![k] = g]
        /\ stored' = stored \cup {k}
        /\ Save(ok)
        /\ shown' = IF ok THEN shown \cup {k} ELSE shown
        /\ UNCHANGED <<expired, wrote, withdrawn, revoked>>
  BY DEF Mints
<1>2. /\ grant' \in [CapIds -> Grant \cup {NoGrant}]
      /\ grant'[k] = g /\ \A j \in CapIds : j # k => grant'[j] = grant[j]
      /\ k \notin stored /\ k \notin kept /\ k \notin withdrawn /\ k \notin revoked
      /\ g # NoGrant
  BY <1>1, GrantShape DEF Inv, Tokens
<1>3. Grows
  BY <1>1, <1>2, Ranges DEF Grows, Inv, RegistryInv
<1>4. \/ kept' = stored \cup {k} /\ shown' = shown \cup {k}
      \/ kept' = kept /\ shown' = shown
  BY <1>1 DEF Save
<1>5. /\ stored' \cup kept' \cup shown' \cup expired' \cup withdrawn'
           \subseteq {j \in CapIds : grant'[j] # NoGrant}
      /\ revoked' \subseteq withdrawn'
      /\ bound' \subseteq Conns /\ wrote' \in Write \cup {NoWrite}
  <2>1. stored' \cup kept' \cup shown' \cup expired' \cup withdrawn'
          \subseteq {k} \cup stored \cup kept \cup shown \cup expired \cup withdrawn
    BY <1>1, <1>4
  <2>2. \A j \in stored \cup kept \cup shown \cup expired \cup withdrawn :
          j \in CapIds /\ grant[j] # NoGrant
    BY DEF Inv, Tokens
  <2> QED BY <1>1, <1>2, <2>1, <2>2 DEF Inv, Tokens
<1>6. WithinGrant'
  BY <1>1, <1>3, WithinGrantStays
<1>7. Attenuated'
  <2> SUFFICES ASSUME NEW j \in stored' \cup kept', grant'[j].direction # "read",
                      NEW p \in grant'[j].props
               PROVE  Allows(published, p)
    BY DEF Attenuated, Allows
  <2>1. CASE j = k
    BY <1>2, <2>1
  <2>2. CASE j # k
    <3>1. j \in stored \cup kept /\ j \in CapIds /\ grant'[j] = grant[j]
      BY <1>1, <1>2, <1>4, <2>2 DEF Inv, Tokens
    <3> QED BY <3>1 DEF Inv, Tokens, Attenuated, Allows
  <2> QED BY <2>1, <2>2
<1>8. RevokedStaysRevoked' /\ TokensLast'
  BY <1>1, <1>2, <1>4 DEF Inv, Tokens, RevokedStaysRevoked, TokensLast
<1> QED BY <1>2, <1>3, <1>5, <1>6, <1>7, <1>8 DEF Tokens

\* An entry that allows a write was published in time.
LEMMA WritesFacts ==
  ASSUME Inv, NEW off \in BOOLEAN, NEW entry, Recent(entry, off), NEW prop,
         Writes(Role, entry, prop)
  PROVE  /\ entry \in Records /\ entry \in (IF off THEN 1 ELSE floor)..published
         /\ Allows(published, prop)
<1>1. entry \in Records /\ entry \in (IF off THEN 1 ELSE floor)..published
  BY DEF Writes, Recent
<1>2. entry \in 1..published
  BY <1>1, RecordsFacts, Ranges DEF Inv, RegistryInv
<1> QED BY <1>1, <1>2 DEF Allows

LEMMA PutKeeps ==
  ASSUME Inv, UNCHANGED <<published, bound>>, offline' \in BOOLEAN, NEW r \in Callers,
         NEW w \in Device, Sound(grant, published, w), Put(r, w), Allowed(w.prop)
  PROVE  Tokens' /\ Grows
<1> DEFINE n == [cap |-> w.cap, conn |-> w.conn, prop |-> w.prop,
                 timely |-> w.timely, allowed |-> Allowed(w.prop),
                 there |-> w.conn \in bound]
<1>1. /\ w.cap \in CapIds /\ w.conn \in Conns /\ w.prop \in Props
      /\ w.timely \in BOOLEAN
  BY DEF Device
<1>2. /\ UNCHANGED <<grant, stored, kept, shown, expired, withdrawn, revoked>>
      /\ wrote' = n
  BY DEF Put, Sends, tokenVars
<1>3. Grows
  BY <1>2, Ranges DEF Grows, Inv, RegistryInv
<1>4. n \in Write
  <2>1. Allowed(w.prop) \in BOOLEAN /\ (w.conn \in bound) \in BOOLEAN
    BY DEF Allowed
  <2> QED BY <1>1, <2>1 DEF Write
<1>5. /\ n.cap = w.cap /\ n.conn = w.conn /\ n.prop = w.prop
      /\ n.timely = w.timely /\ n.allowed
  OBVIOUS
<1> HIDE DEF n
<1>6. WithinGrant'
  BY <1>1, <1>2, <1>5 DEF WithinGrant, Sound, GrantedBy
<1>7. Attenuated'
  BY <1>2, <1>3, AttenuatedStays
<1>8. RevokedStaysRevoked' /\ TokensLast'
  BY <1>2 DEF Inv, Tokens, RevokedStaysRevoked, TokensLast
<1> QED BY <1>2, <1>3, <1>4, <1>6, <1>7, <1>8 DEF Inv, Tokens

\* The request the caller is left with is in order and asks no registry.
Left(r) ==
  \E x \in Kinds : /\ request' = [request EXCEPT ![r] = x]
                   /\ x.at # "registry"
                   /\ Sound(grant, published, x)

LEMMA EndsLeft ==
  ASSUME NEW r, Ends(r)
  PROVE  Left(r)
<1>1. NoRequest \in Kinds /\ NoRequest.at # "registry" /\ Sound(grant, published, NoRequest)
  BY PlainShape, PlainSound DEF Kinds
<1> QED BY <1>1 DEF Ends, Left

\* The loop over the properties goes on, or mints.
LEMMA ContinueKeeps ==
  ASSUME Inv, UNCHANGED <<published, bound>>, NEW r \in Callers, NEW g \in Grant,
         NEW todo \in SUBSET Props, \A p \in g.props \ todo : Allows(published, p),
         Continue(r, g, todo)
  PROVE  Tokens' /\ Grows /\ Left(r)
<1>1. CASE todo = {} /\ Mints(g) /\ Ends(r)
  BY <1>1, MintsKeeps, EndsLeft
<1>2. CASE /\ todo # {} /\ UNCHANGED <<tokenVars, wrote>>
           /\ request' = [request EXCEPT ![r] = [at |-> "checks", grant |-> g, todo |-> todo]]
  <2> DEFINE x == [at |-> "checks", grant |-> g, todo |-> todo]
  <2>1. x \in Minting /\ x.at = "checks" /\ x.grant = g /\ x.todo = todo
    BY <1>2 DEF Minting
  <2>2. request' = [request EXCEPT ![r] = x]
    BY <1>2
  <2> HIDE DEF x
  <2>3. Sound(grant, published, x)
    BY <2>1, KindFacts DEF Sound
  <2>4. Left(r)
    BY <2>1, <2>2, <2>3 DEF Left, Kinds
  <2>5. Tokens' /\ Grows
    BY <1>2, TokensRest, Ranges DEF Inv, RegistryInv, Tokens
  <2> QED BY <2>4, <2>5
<1> QED BY <1>1, <1>2 DEF Continue

LEMMA RefuseKeeps ==
  ASSUME Inv, UNCHANGED <<published, bound>>, NEW r \in Callers, Refuse(r)
  PROVE  Tokens' /\ Grows /\ Left(r)
<1>1. Tokens' /\ Grows
  BY TokensRest, Ranges DEF Refuse, Inv, RegistryInv, Tokens
<1> QED BY <1>1, EndsLeft DEF Refuse

\* What a request does once the profile is resolved.
LEMMA CheckedKeeps ==
  ASSUME Inv, UNCHANGED <<published, bound, floor>>, offline' \in BOOLEAN, NEW r \in Callers,
         NEW entry, Recent(entry, offline'), NEW w, Sound(grant, published, w),
         Checked(r, w, entry)
  PROVE  Tokens' /\ Grows /\ Left(r)
<1>1. CASE Refuse(r)
  BY <1>1, RefuseKeeps
<1>2. CASE w \in Device /\ Writes(Role, entry, w.prop) /\ Put(r, w)
  <2>1. /\ entry \in Records /\ entry \in (IF offline' THEN 1 ELSE floor)..published
    BY <1>2, WritesFacts
  <2>2. Allowed(w.prop)
    BY <1>2, <2>1 DEF Allowed
  <2>3. Left(r)
    <3>1. PICK x : x = [w EXCEPT !.at = "realm"]
      OBVIOUS
    <3>2. x \in Kinds /\ x.at = "realm" /\ Sound(grant, published, x)
      BY <1>2, <3>1, MovedShape
    <3>3. request' = [request EXCEPT ![r] = x]
      BY <1>2, <3>1 DEF Put, Sends
    <3> QED BY <3>2, <3>3 DEF Left
  <2> QED BY <1>2, <2>2, <2>3, PutKeeps
<1>3. ASSUME w \in Minting, NEW p \in w.todo, Writes(Role, entry, p),
             Continue(r, w.grant, w.todo \ {p})
      PROVE  Tokens' /\ Grows /\ Left(r)
  <2>1. w.grant \in Grant /\ w.todo \ {p} \in SUBSET Props
    BY <1>3, MintingShape
  <2>2. \A q \in w.grant.props \ (w.todo \ {p}) : Allows(published, q)
    BY <1>3, WritesFacts DEF Sound
  <2> QED BY <1>3, <2>1, <2>2, ContinueKeeps
<1> QED BY <1>1, <1>2, <1>3 DEF Checked

LEMMA CheckKeeps ==
  ASSUME Inv, NEW r \in Callers, request[r].at # "registry", NEW w,
         w \in Device \cup Minting, Sound(grant, published, w),
         Check(r, w), UNCHANGED <<up, bound, boots>>
  PROVE  /\ Inv' /\ Grows
         /\ \A l \in Callers : lookup[l] # Idle => lookup'[l] # Idle
<1>1. lookup[r] = Idle /\ lookup \in [Callers -> {Idle, Asked, NotRegistered} \cup Records]
  BY DEF Inv, Waiting, RegistryInv, RegistryTypeOK
<1>2. CASE cache # Unknown /\ UNCHANGED registryVars /\ Checked(r, w, cache)
  <2>1. /\ UNCHANGED <<published, cache, lookup, offline, floor>> /\ offline \in BOOLEAN
        /\ RegistryInv'
    BY <1>2, RegistryRests DEF registryVars, Inv, RegistryInv, RegistryTypeOK
  <2>2. Recent(cache, offline')
    BY <2>1, CacheRecent DEF Inv
  <2>3. Tokens' /\ Grows /\ Left(r)
    BY <1>2, <2>1, <2>2, CheckedKeeps
  <2>4. PICK x \in Kinds : /\ request' = [request EXCEPT ![r] = x]
                           /\ x.at # "registry" /\ Sound(grant, published, x)
    BY <2>3 DEF Left
  <2>5. Requests' /\ Waiting'
    <3>1. lookup' = [lookup EXCEPT ![r] = Idle]
      BY <1>1, <2>1
    <3> QED BY <2>3, <2>4, <3>1, RequestsStep, WaitingStep
  <2> QED BY <2>1, <2>3, <2>5 DEF Inv
<1>3. CASE /\ Ask(r) /\ UNCHANGED <<tokenVars, wrote>>
           /\ request' = [request EXCEPT ![r] = [w EXCEPT !.at = "registry"]]
  <2>1. PICK x : x = [w EXCEPT !.at = "registry"]
    OBVIOUS
  <2>2. x \in Kinds /\ x.at = "registry" /\ Sound(grant, published, x)
    BY <2>1, MovedShape
  <2>3. request' = [request EXCEPT ![r] = x]
    BY <1>3, <2>1
  <2>4. Tokens' /\ Grows
    BY <1>3, TokensRest, Ranges DEF Ask, Inv, RegistryInv, Tokens
  <2>5. RegistryInv' /\ lookup' = [lookup EXCEPT ![r] = Asked] /\ Asked # Idle
    <3>1. RegistryInv'
      BY <1>3, AskKeeps DEF Inv
    <3> QED BY <1>3, <3>1 DEF Ask, Asked, Idle
  <2>6. Requests' /\ Waiting'
    BY <2>2, <2>3, <2>4, <2>5, RequestsStep, WaitingStep
  <2> QED BY <1>1, <2>4, <2>5, <2>6 DEF Inv
<1> QED BY <1>2, <1>3 DEF Check

-----------------------------------------------------------------------------
(* The steps *)

\* A step that touches neither the requests nor the registry.
LEMMA QuietStep ==
  ASSUME Inv, UNCHANGED <<registryVars, request, boots>>, up' \in BOOLEAN,
         Tokens', Grows
  PROVE  Inv' /\ UNCHANGED lookup
<1>1. RegistryInv' /\ UNCHANGED <<published, lookup>>
  BY RegistryRests DEF Inv, registryVars
<1>2. Requests'
  BY RequestsAll DEF Inv, Requests
<1>3. Waiting'
  BY <1>1 DEF Inv, Waiting
<1> QED BY <1>1, <1>2, <1>3 DEF Inv

\* A step of the caller that asks the registry nothing.
LEMMA RequestStep ==
  ASSUME Inv, UNCHANGED <<registryVars, boots>>, up' \in BOOLEAN, Tokens', Grows,
         NEW r \in Callers, request[r].at # "registry", Left(r)
  PROVE  Inv' /\ UNCHANGED lookup
<1>1. RegistryInv' /\ UNCHANGED <<published, lookup>>
  BY RegistryRests DEF Inv, registryVars
<1>2. PICK x \in Kinds : /\ request' = [request EXCEPT ![r] = x]
                         /\ x.at # "registry" /\ Sound(grant, published, x)
  BY DEF Left
<1>3. Requests'
  BY <1>2, RequestsStep
<1>4. Waiting'
  <2>1. lookup[r] = Idle /\ lookup' = [lookup EXCEPT ![r] = Idle]
    BY <1>1 DEF Inv, Waiting, RegistryInv, RegistryTypeOK
  <2> QED BY <1>2, <2>1, WaitingStep
<1> QED BY <1>1, <1>3, <1>4 DEF Inv

LEMMA TouchKeeps ==
  ASSUME Inv, UNCHANGED <<published, bound, wrote>>, NEW ok \in BOOLEAN, Touch(ok)
  PROVE  Tokens' /\ Grows
<1>1. UNCHANGED <<grant, stored, shown, expired, withdrawn, revoked>> /\ kept' \in {kept, stored'}
  BY DEF Touch, Save
<1>2. /\ bound' \subseteq Conns
      /\ expired' \cup withdrawn' \subseteq {k \in CapIds : grant[k] # NoGrant}
      /\ revoked' \cap (stored' \cup kept') = {}
      /\ shown \ withdrawn' \subseteq stored' /\ revoked' \subseteq withdrawn'
  BY <1>1 DEF Inv, Tokens, RevokedStaysRevoked, TokensLast
<1> QED BY <1>1, <1>2, TokensSaved

LEMMA DeviceWritesKeeps ==
  ASSUME Inv, NEW r \in Callers, NEW k \in CapIds, NEW c \in Conns, NEW prop \in Props,
         DeviceWrites(r, k, c, prop)
  PROVE  Inv' /\ Grows /\ UNCHANGED lookup
<1> DEFINE timely == k \in stored \ expired /\ up /\ c \in bound
           x == [at |-> "body", cap |-> k, conn |-> c, prop |-> prop, timely |-> timely]
<1>1. timely \in BOOLEAN /\ timely
  BY DEF DeviceWrites, Usable, Resolves, Inv
<1>2. /\ UNCHANGED <<registryVars, up, bound, boots, wrote>> /\ k \in stored
      /\ Permits(grant[k], c, {prop}, "write")
      /\ \/ Touch(TRUE) /\ Begins(r, x)
         \/ Touch(FALSE) /\ UNCHANGED request
  BY DEF DeviceWrites, Usable, Resolves
<1> HIDE DEF timely
<1>3. x \in Device /\ x.at = "body" /\ x.cap = k /\ x.conn = c /\ x.prop = prop
      /\ x.timely
  BY <1>1 DEF Device
<1> HIDE DEF x
<1>4. Sound(grant, published, x)
  <2>1. grant[k] # NoGrant
    BY <1>2 DEF Inv, Tokens
  <2>2. grant[k].conn = c /\ prop \in grant[k].props /\ grant[k].direction # "read"
    BY <1>2 DEF Permits
  <2> QED BY <1>3, <2>1, <2>2, KindFacts DEF Sound, GrantedBy
<1>5. UNCHANGED published /\ up' \in BOOLEAN
  BY <1>2 DEF registryVars, Inv
<1>6. Tokens' /\ Grows
  BY <1>2, <1>5, TouchKeeps
<1>7. CASE Begins(r, x)
  <2>1. Left(r) /\ request[r].at # "registry"
    BY <1>3, <1>4, <1>7, PlainShape DEF Begins, Left, Kinds
  <2> QED BY <1>2, <1>5, <1>6, <2>1, RequestStep
<1>8. CASE UNCHANGED request
  BY <1>2, <1>5, <1>6, <1>8, QuietStep
<1> QED BY <1>2, <1>7, <1>8

LEMMA AppAsksKeeps ==
  ASSUME Inv, NEW r \in Callers, AppAsks(r)
  PROVE  Inv' /\ Grows /\ \A l \in Callers : lookup[l] # Idle => lookup'[l] # Idle
<1>1. /\ request[r] = NoRequest /\ request' = [request EXCEPT ![r] = Other] /\ Ask(r)
      /\ UNCHANGED <<tokenVars, up, bound, boots, wrote>>
  BY DEF AppAsks, Begins
<1>2. Tokens' /\ Grows
  BY <1>1, TokensRest, Ranges DEF Ask, Inv, RegistryInv, Tokens
<1>3. RegistryInv' /\ lookup' = [lookup EXCEPT ![r] = Asked] /\ Asked # Idle
  <2>1. RegistryInv'
    BY <1>1, AskKeeps DEF Inv
  <2> QED BY <1>1, <2>1 DEF Ask, Asked, Idle
<1>4. Other \in Kinds /\ Sound(grant, published, Other)
  BY PlainSound DEF Kinds
<1>5. Requests' /\ Waiting'
  BY <1>1, <1>2, <1>3, <1>4, RequestsStep, WaitingStep, PlainShape
<1>6. lookup \in [Callers -> {Idle, Asked, NotRegistered} \cup Records]
  BY DEF Inv, RegistryInv, RegistryTypeOK
<1> QED BY <1>1, <1>2, <1>3, <1>5, <1>6 DEF Inv

LEMMA MintArrivesKeeps ==
  ASSUME Inv, NEW r \in Callers, MintArrives(r)
  PROVE  Inv' /\ Grows /\ \A l \in Callers : lookup[l] # Idle => lookup'[l] # Idle
<1>1. request[r].at # "registry" /\ UNCHANGED <<up, bound, boots>>
  BY AskingShape DEF MintArrives
<1>2. PICK g \in Grant :
         \/ Check(r, [at |-> "checks", grant |-> g, todo |-> g.props])
         \/ /\ g.direction = "read" /\ Mints(g) /\ Ends(r) /\ UNCHANGED registryVars
  BY DEF MintArrives
<1>3. CASE Check(r, [at |-> "checks", grant |-> g, todo |-> g.props])
  <2> DEFINE w == [at |-> "checks", grant |-> g, todo |-> g.props]
  <2>1. w \in Minting /\ w.grant = g /\ w.todo = g.props
    BY GrantShape DEF Minting, Grant
  <2>2. Check(r, w)
    BY <1>3
  <2> HIDE DEF w
  <2>3. Sound(grant, published, w)
    BY <2>1, KindFacts DEF Sound
  <2> QED BY <1>1, <2>1, <2>2, <2>3, CheckKeeps
<1>4. CASE g.direction = "read" /\ Mints(g) /\ Ends(r) /\ UNCHANGED registryVars
  <2>1. UNCHANGED published
    BY <1>4 DEF registryVars
  <2>2. Tokens' /\ Grows
    BY <1>1, <1>4, <2>1, MintsKeeps
  <2>3. Left(r) /\ up' \in BOOLEAN
    BY <1>1, <1>4, EndsLeft DEF Inv
  <2> QED BY <1>1, <1>4, <2>2, <2>3, RequestStep
<1> QED BY <1>2, <1>3, <1>4

LEMMA ProfileResolvedKeeps ==
  ASSUME Inv, NEW r \in Callers, ProfileResolved(r)
  PROVE  /\ Inv' /\ Grows
         /\ cache' # Unknown \/ ~learnt \/ disk' = Damaged
<1>1. PICK got \in {Failed, NotRegistered} \cup Records :
        Resolve(r, got) /\ Checked(r, request[r], got)
  BY DEF ProfileResolved
<1>2. request[r].at = "registry" /\ UNCHANGED <<up, bound, boots>>
  BY DEF ProfileResolved
<1>3. /\ RegistryInv' /\ Recent(got, offline')
      /\ lookup' = [lookup EXCEPT ![r] = Idle] /\ UNCHANGED <<published, floor>>
      /\ cache' # Unknown \/ ~learnt \/ disk' = Damaged
  BY <1>1, ResolveFacts DEF Inv
<1>4. offline' \in BOOLEAN
  BY <1>3 DEF RegistryInv, RegistryTypeOK
<1>5. Sound(grant, published, request[r])
  BY DEF Inv, Requests
<1>6. Tokens' /\ Grows /\ Left(r)
  BY <1>1, <1>2, <1>3, <1>4, <1>5, CheckedKeeps
<1>7. PICK x \in Kinds : /\ request' = [request EXCEPT ![r] = x]
                         /\ x.at # "registry" /\ Sound(grant, published, x)
  BY <1>6 DEF Left
<1>8. Requests' /\ Waiting'
  BY <1>3, <1>6, <1>7, RequestsStep, WaitingStep
<1> QED BY <1>2, <1>3, <1>6, <1>8 DEF Inv

LEMMA RealmAnswersKeeps ==
  ASSUME Inv, NEW r \in Callers, RealmAnswers(r)
  PROVE  Inv' /\ Grows /\ UNCHANGED lookup
<1>1. /\ request[r].at = "realm" /\ Ends(r)
      /\ bound' \in {bound, bound \cup {request[r].conn}}
      /\ UNCHANGED <<registryVars, tokenVars, up, boots, wrote>>
  BY DEF RealmAnswers
<1>2. request[r] \in Device
  BY <1>1, AskingShape, MintingShape, PlainShape DEF Inv, Requests, Kinds
<1>3. bound' \subseteq Conns
  BY <1>1, <1>2 DEF Device, Inv, Tokens
<1>4. Tokens' /\ Grows
  BY <1>1, <1>3, TokensRest, Ranges DEF registryVars, Inv, RegistryInv
<1>5. up' \in BOOLEAN /\ Left(r)
  BY <1>1, EndsLeft DEF Inv
<1> QED BY <1>1, <1>4, <1>5, RequestStep

LEMMA RevokeKeeps ==
  ASSUME Inv, NEW k \in CapIds, Revoke(k)
  PROVE  Inv' /\ Grows /\ UNCHANGED lookup
<1>1. PICK ok \in BOOLEAN :
        Save(ok) /\ revoked' = IF ok THEN revoked \cup {k} ELSE revoked
  BY DEF Revoke
<1>2. /\ stored' = stored \ {k} /\ withdrawn' = withdrawn \cup {k} /\ k \in stored
      /\ UNCHANGED <<registryVars, grant, shown, expired, up, bound, request, boots, wrote>>
  BY DEF Revoke
<1>3. /\ kept' \in {kept, stored'} /\ stored' \subseteq stored \cup kept
      /\ bound' \subseteq Conns
      /\ expired' \cup withdrawn' \subseteq {j \in CapIds : grant[j] # NoGrant}
      /\ revoked' \subseteq withdrawn' /\ withdrawn \subseteq withdrawn'
      /\ revoked' \cap (stored' \cup kept') = {}
      /\ shown \ withdrawn' \subseteq stored'
  <2>1. \/ kept' = stored' /\ revoked' = revoked \cup {k}
        \/ kept' = kept /\ revoked' = revoked
    BY <1>1 DEF Save
  <2> QED BY <1>2, <2>1 DEF Inv, Tokens, RevokedStaysRevoked, TokensLast
<1>4. UNCHANGED published /\ up' \in BOOLEAN
  BY <1>2 DEF registryVars, Inv
<1>5. Tokens' /\ Grows
  BY <1>2, <1>3, <1>4, TokensSaved
<1> QED BY <1>2, <1>4, <1>5, QuietStep

LEMMA SessionLostKeeps ==
  ASSUME Inv, SessionLost
  PROVE  Inv' /\ Grows /\ UNCHANGED lookup
<1>1. /\ UNCHANGED <<registryVars, tokenVars, boots, wrote>> /\ up' = FALSE
      /\ request' = [r \in Callers |-> Lost(request[r])]
  BY DEF SessionLost
<1>2. \A r \in Callers : request[r].at = "realm" => request[r] \in Device
  BY AskingShape, MintingShape, PlainShape DEF Inv, Requests, Kinds
<1>3. bound' \subseteq Conns
  BY <1>2 DEF SessionLost, Device, Inv, Tokens
<1>4. Tokens' /\ Grows
  BY <1>1, <1>3, TokensRest, Ranges DEF registryVars, Inv, RegistryInv
<1>5. ASSUME NEW r \in Callers
      PROVE  /\ request'[r] \in Kinds /\ Sound(grant, published, request'[r])
             /\ request'[r].at = "registry" <=> request[r].at = "registry"
  <2>1. request[r] \in Kinds /\ Sound(grant, published, request[r])
    BY DEF Inv, Requests
  <2>2. CASE request[r].at = "realm"
    <3>1. PICK x : x = [request[r] EXCEPT !.at = "lost"]
      OBVIOUS
    <3>2. x \in Kinds /\ x.at = "lost" /\ Sound(grant, published, x)
      BY <1>2, <2>1, <2>2, <3>1, MovedShape
    <3>3. request'[r] = x
      BY <1>1, <2>2, <3>1 DEF Lost
    <3> QED BY <2>2, <3>2, <3>3
  <2>3. CASE request[r].at # "realm"
    <3>1. request'[r] = request[r]
      BY <1>1, <2>3 DEF Lost
    <3> QED BY <2>1, <3>1
  <2> QED BY <2>2, <2>3
<1>6. Requests'
  BY <1>1, <1>4, <1>5, RequestsAll
<1>7. RegistryInv' /\ UNCHANGED lookup
  BY <1>1, RegistryRests DEF Inv, registryVars
<1>8. Waiting'
  BY <1>5, <1>7 DEF Inv, Waiting
<1> QED BY <1>1, <1>4, <1>6, <1>7, <1>8 DEF Inv

LEMMA WorldKeeps ==
  ASSUME Inv, World
  PROVE  /\ Inv' /\ Grows
         /\ \A l \in Callers : lookup[l] # Idle => lookup'[l] # Idle
<1>1. UNCHANGED <<tokenVars, up, bound, request, boots, wrote>>
  BY DEF World
<1>2. /\ RegistryInv' /\ published <= published'
      /\ \A l \in Callers : lookup[l] # Idle <=> lookup'[l] # Idle
  <2>1. CASE Publish
    <3>1. UNCHANGED lookup
      BY <2>1 DEF Publish
    <3> QED BY <2>1, <3>1, PublishKeeps DEF Inv
  <2>2. ASSUME NEW l \in Callers, Serve(l)
        PROVE  /\ RegistryInv' /\ published <= published'
               /\ \A k \in Callers : lookup[k] # Idle <=> lookup'[k] # Idle
    <3>1. RegistryInv'
      BY <2>2, ServeKeeps DEF Inv
    <3>2. /\ lookup[l] = Asked /\ lookup' = [lookup EXCEPT ![l] = published]
          /\ UNCHANGED published /\ published \in Nat
          /\ lookup \in [Callers -> {Idle, Asked, NotRegistered} \cup Records]
      BY <2>2, Ranges DEF Serve, Inv, RegistryInv, RegistryTypeOK
    <3>3. published # Idle /\ Asked # Idle
      BY <3>2 DEF Idle, Asked
    <3> QED BY <3>1, <3>2, <3>3
  <2> QED BY <2>1, <2>2 DEF World
<1>3. published' \in Nat
  <2>1. published' \in {NotRegistered} \cup Records
    BY <1>2 DEF RegistryInv, RegistryTypeOK
  <2> QED BY <2>1, RecordsFacts DEF NotRegistered
<1>4. Tokens' /\ Grows
  BY <1>1, <1>2, <1>3, TokensRest DEF Inv, Tokens
<1>5. Requests'
  BY <1>1, <1>4, RequestsAll DEF Inv, Requests
<1>6. Waiting'
  BY <1>1, <1>2 DEF Inv, Waiting
<1> QED BY <1>1, <1>2, <1>4, <1>5, <1>6 DEF Inv

LEMMA RestartKeeps == Inv /\ Restart => Inv' /\ Grows
<1> SUFFICES ASSUME Inv, Restart PROVE Inv' /\ Grows
  OBVIOUS
<1>1. /\ UNCHANGED <<grant, kept, shown, expired, withdrawn, revoked, bound, wrote>>
      /\ RegistryRestart /\ UNCHANGED published
      /\ stored' = kept
      /\ request' = [r \in Callers |-> NoRequest]
      /\ lookup' = [r \in Callers |-> Idle]
  BY DEF Restart, RegistryRestart
<1>2. Tokens' /\ Grows
  <2>1. /\ stored' \subseteq stored \cup kept /\ kept' \in {kept, stored'}
        /\ expired' \cup withdrawn' \subseteq {k \in CapIds : grant[k] # NoGrant}
        /\ revoked' \subseteq withdrawn' /\ withdrawn \subseteq withdrawn'
        /\ revoked' \cap (stored' \cup kept') = {}
        /\ shown \ withdrawn' \subseteq stored' /\ bound' \subseteq Conns
    BY <1>1 DEF Inv, Tokens, RevokedStaysRevoked, TokensLast
  <2> QED BY <1>1, <2>1, TokensSaved
<1>3. RegistryInv'
  BY <1>1, RegistryRestartKeeps DEF Inv
<1>4. Requests' /\ Waiting'
  <2>1. request' \in [Callers -> Kinds] /\ \A r \in Callers : request'[r] = NoRequest
    BY <1>1 DEF Kinds
  <2>2. Requests'
    BY <1>2, <2>1, PlainSound, RequestsAll
  <2> QED BY <1>1, <2>1, <2>2, PlainShape DEF Waiting
<1>5. up' \in BOOLEAN
  BY DEF Restart
<1>6. boots' \in 1..MaxBoots
  BY BootsAssumption DEF Restart, Inv
<1> QED BY <1>2, <1>3, <1>4, <1>5, <1>6 DEF Inv

\* Every step keeps the invariant, and a lookup that ends finds what has been
\* learnt.
LookupsFind ==
  \A r \in Callers : lookup[r] # Idle /\ lookup'[r] = Idle /\ boots' = boots
       => cache' # Unknown \/ ~learnt \/ disk' = Damaged

LEMMA StepFacts == Inv /\ [Next]_vars => Inv' /\ LookupsFind
<1> SUFFICES ASSUME Inv, [Next]_vars PROVE Inv' /\ LookupsFind
  OBVIOUS
<1> DEFINE Goal == Inv' /\ LookupsFind
<1>1. ASSUME NEW k \in CapIds, NEW c \in Conns, NEW props, DeviceReads(k, c, props)
      PROVE  Goal
  <2>1. /\ UNCHANGED <<registryVars, up, bound, request, boots, wrote>>
        /\ \E ok \in BOOLEAN : Touch(ok)
    BY <1>1 DEF DeviceReads
  <2>2. UNCHANGED published /\ up' \in BOOLEAN
    BY <2>1 DEF registryVars, Inv
  <2>3. Tokens' /\ Grows
    BY <2>1, <2>2, TouchKeeps
  <2> QED BY <2>1, <2>2, <2>3, QuietStep DEF LookupsFind
<1>2. ASSUME NEW k \in CapIds, NEW c \in Conns, NEW r \in Callers, NEW p \in Props,
             DeviceWrites(r, k, c, p)
      PROVE  Goal
  BY <1>2, DeviceWritesKeeps DEF LookupsFind
<1>3. ASSUME NEW r \in Callers, NEW c \in Conns, MintBegins(r, c) PROVE Goal
  <2> DEFINE x == [at |-> "body", conn |-> c]
  <2>1. x \in Asking /\ x.at # "registry"
    BY DEF Asking
  <2>2. /\ request[r] = NoRequest /\ request' = [request EXCEPT ![r] = x]
        /\ UNCHANGED <<registryVars, tokenVars, up, bound, boots, wrote>>
    BY <1>3 DEF MintBegins, Begins
  <2> HIDE DEF x
  <2>3. Left(r) /\ request[r].at # "registry"
    BY <2>1, <2>2, PlainSound, PlainShape DEF Left, Kinds
  <2>4. Tokens' /\ Grows /\ up' \in BOOLEAN
    BY <2>2, TokensRest, Ranges DEF registryVars, Inv, RegistryInv, Tokens
  <2> QED BY <2>2, <2>3, <2>4, RequestStep DEF LookupsFind
<1>4. ASSUME NEW r \in Callers, AppAsks(r) PROVE Goal
  BY <1>4, AppAsksKeeps DEF LookupsFind
<1>5. ASSUME NEW r \in Callers, WriteArrives(r) \/ MintContinues(r) PROVE Goal
  <2>1. /\ request[r].at \in {"body", "checks"} /\ Check(r, request[r])
        /\ UNCHANGED <<up, bound, boots>>
        /\ request[r] \in Device \/ request[r].at = "checks"
    BY <1>5 DEF WriteArrives, MintContinues
  <2>2. request[r] \in Device \cup Minting /\ Sound(grant, published, request[r])
    BY <2>1, AskingShape, PlainShape DEF Inv, Requests, Kinds
  <2> QED BY <2>1, <2>2, CheckKeeps DEF LookupsFind
<1>6. ASSUME NEW r \in Callers, MintArrives(r) PROVE Goal
  BY <1>6, MintArrivesKeeps DEF LookupsFind
<1>7. ASSUME NEW r \in Callers, BodyFails(r) PROVE Goal
  <2>1. /\ request[r].at = "body" /\ Ends(r)
        /\ UNCHANGED <<registryVars, tokenVars, up, bound, boots, wrote>>
    BY <1>7 DEF BodyFails
  <2>2. Tokens' /\ Grows /\ up' \in BOOLEAN
    BY <2>1, TokensRest, Ranges DEF registryVars, Inv, RegistryInv, Tokens
  <2> QED BY <2>1, <2>2, EndsLeft, RequestStep DEF LookupsFind
<1>8. ASSUME NEW r \in Callers, ProfileResolved(r) PROVE Goal
  BY <1>8, ProfileResolvedKeeps DEF LookupsFind
<1>9. ASSUME NEW r \in Callers, RealmAnswers(r) PROVE Goal
  BY <1>9, RealmAnswersKeeps DEF LookupsFind
<1>10. ASSUME NEW k \in CapIds, Revoke(k) PROVE Goal
  BY <1>10, RevokeKeeps DEF LookupsFind
<1>11. ASSUME NEW k \in CapIds, Expire(k) PROVE Goal
  <2>1. /\ UNCHANGED <<registryVars, grant, stored, kept, shown, withdrawn, revoked,
                       up, bound, request, boots, wrote>>
        /\ expired' = expired \cup {k} /\ grant[k] # NoGrant
    BY <1>11 DEF Expire
  <2>2. /\ UNCHANGED published /\ up' \in BOOLEAN /\ bound' \subseteq Conns
        /\ expired' \cup withdrawn' \subseteq {j \in CapIds : grant[j] # NoGrant}
        /\ revoked' \cap (stored' \cup kept') = {} /\ revoked' \subseteq withdrawn'
        /\ shown \ withdrawn' \subseteq stored'
    BY <2>1 DEF registryVars, Inv, Tokens, RevokedStaysRevoked, TokensLast
  <2>3. Tokens' /\ Grows
    BY <2>1, <2>2, TokensSaved
  <2> QED BY <2>1, <2>2, <2>3, QuietStep DEF LookupsFind
<1>12. ASSUME (\E c \in Conns : RealmSevers(c)) \/ SessionUp \/ UNCHANGED vars PROVE Goal
  <2>1. /\ UNCHANGED <<registryVars, tokenVars, request, boots, wrote>>
        /\ up' \in BOOLEAN /\ bound' \subseteq bound
    BY <1>12 DEF RealmSevers, SessionUp, vars, Inv
  <2>2. bound' \subseteq Conns
    BY <2>1 DEF Inv, Tokens
  <2>3. Tokens' /\ Grows
    BY <2>1, <2>2, TokensRest, Ranges DEF registryVars, Inv, RegistryInv
  <2> QED BY <2>1, <2>3, QuietStep DEF LookupsFind
<1>13. CASE OthersSave
  <2>1. /\ UNCHANGED <<registryVars, up, bound, request, boots, wrote>> /\ Touch(TRUE)
    BY <1>13 DEF OthersSave, Touch
  <2>2. UNCHANGED published /\ up' \in BOOLEAN
    BY <2>1 DEF registryVars, Inv
  <2>3. Tokens' /\ Grows
    BY <2>1, <2>2, TouchKeeps
  <2> QED BY <2>1, <2>2, <2>3, QuietStep DEF LookupsFind
<1>14. CASE SessionLost
  BY <1>14, SessionLostKeeps DEF LookupsFind
<1>15. CASE World
  BY <1>15, WorldKeeps DEF LookupsFind
<1>16. CASE Restart
  <2>1. boots' # boots
    BY <1>16, BootsAssumption DEF Restart, Inv
  <2> QED BY <1>16, <2>1, RestartKeeps DEF LookupsFind
<1> QED BY <1>1, <1>2, <1>3, <1>4, <1>5, <1>6, <1>7, <1>8, <1>9, <1>10, <1>11,
           <1>12, <1>13, <1>14, <1>15, <1>16 DEF Next

LEMMA InitInv == Init => Inv
<1> SUFFICES ASSUME Init PROVE Inv
  OBVIOUS
<1>1. RegistryInv /\ \A r \in Callers : lookup[r] = Idle
  BY RegistryInitInv DEF Init, RegistryInit
<1>2. Tokens
  BY DEF Init, Tokens, WithinGrant, Attenuated, RevokedStaysRevoked, TokensLast
<1>3. Requests /\ Waiting
  BY <1>1, PlainShape, PlainSound DEF Init, Requests, Waiting, Kinds
<1>4. up \in BOOLEAN
  BY DEF Init
<1>5. boots \in 1..MaxBoots
  BY BootsAssumption DEF Init
<1> QED BY <1>1, <1>2, <1>3, <1>4, <1>5 DEF Inv

LEMMA Invariance == Spec => []Inv
BY InitInv, StepFacts, PTL DEF Spec

LEMMA InvTypes == Inv => TypeOK
BY DEF Inv, RegistryInv, Tokens, Requests, Kinds, Waiting, TypeOK

-----------------------------------------------------------------------------

\* Every field keeps its type; a request waits for the registry exactly while
\* its lookup is under way.
THEOREM TypeCorrect == Spec => []TypeOK
BY Invariance, InvTypes, PTL

\* Whatever answers of the registry overtake each other, what this process
\* remembers is no older than the process, unless it fell back on the file.
THEOREM Fresh == Spec => []FreshSinceStart
BY Invariance, PTL DEF Inv, RegistryInv

\* A device writes what its capability was minted for, while it was in force
\* when the request began, and nothing an app could not have written.
THEOREM Narrow == Spec => []WithinGrant
BY Invariance, PTL DEF Inv, Tokens

\* Whatever the profile in memory becomes between two checks, no capability
\* that can write exceeds what the published versions allow.
THEOREM NeverWidens == Spec => []Attenuated
BY Invariance, PTL DEF Inv, Tokens

\* A revocation that was answered with success holds in memory and on disk,
\* whichever saves fail and whenever the process ends.
THEOREM Revoked == Spec => []RevokedStaysRevoked
BY Invariance, PTL DEF Inv, Tokens

\* A token that was handed out has its record in memory and on disk until
\* somebody asks for its revocation.
THEOREM TokensKept == Spec => []TokensLast
BY Invariance, PTL DEF Inv, Tokens

\* Once the profile has been learnt, a lookup fails only if its file is damaged.
THEOREM WorksOffline == Spec => OfflineRestart
<1>1. Inv /\ [Next]_vars => [LookupsFind]_vars
  BY StepFacts
<1>2. OfflineRestart <=> [][LookupsFind]_vars
  BY DEF OfflineRestart, LookupsFind
<1> QED BY <1>1, <1>2, Invariance, PTL DEF Spec
=============================================================================
