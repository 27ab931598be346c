---------------------------- MODULE Capabilities ----------------------------
(***************************************************************************)
(* Capability tokens (src/src/capabilities.js) and the requests that mint, *)
(* use and revoke them (src/src/api.js, src/src/server.js).  A request     *)
(* runs without a break up to its first await and then from one await to   *)
(* the next: its body, the registry (Registry.tla) for each property it is *)
(* about, the realm's answer to a write.                                   *)
(*                                                                         *)
(* A connection stands for its whole scope, realm to connection id; all    *)
(* are on this gateway's side in the role Role of one profile.  bound is   *)
(* what the key cache shows while the session is up.  What a record counts *)
(* (uses, lastUsedAt) is left out, but not that touch() saves it.          *)
(***************************************************************************)
EXTENDS Registry, FiniteSets

CONSTANTS
  CapIds, Conns, Props,
  Directions,       \* of "read", "write", "readwrite"
  Role,             \* "provider" or "consumer"
  MaxBoots          \* bound: processes

ASSUME BootsAssumption == MaxBoots \in Nat \ {0}

VARIABLES
  grant,        \* per capability: what it was minted for, or NoGrant
  stored,       \* the capabilities in the store's memory
  kept,         \* those in state.json
  shown,        \* those whose token was returned: only these are presented
  expired,      \* those whose expiresAt has passed
  up,           \* the realm is attached and its session connected
  bound,        \* the connections that have keys in the realm
  request,      \* per caller: the request in progress, or NoRequest
  boots,        \* processes so far
  wrote,        \* history: the last write made with a capability
  withdrawn,    \* history: the capabilities that were asked to be revoked
  revoked       \* history: those whose revocation was answered with success

tokenVars == <<grant, stored, kept, shown, expired, withdrawn, revoked>>
vars == <<registryVars, tokenVars, up, bound, request, boots, wrote>>

NoGrant == [props |-> {}]
Grant == [conn : Conns, props : (SUBSET Props) \ {{}}, direction : Directions]

\* A device's write names its capability, a mint what its body asks for and,
\* in todo, which of the properties are still to be checked.  Other requests
\* that look the profile up only matter for what they leave in memory.
NoRequest == [at |-> "idle"]
Other == [at |-> "registry"]
Device == [at : {"body", "registry", "realm", "lost"}, cap : CapIds, conn : Conns,
           prop : Props, timely : BOOLEAN]
Asking == [at : {"body"}, conn : Conns]
Minting == [at : {"checks", "registry"}, grant : Grant, todo : (SUBSET Props) \ {{}}]

NoWrite == [prop |-> "none"]
Write == [cap : CapIds, conn : Conns, prop : Props, timely : BOOLEAN,
          allowed : BOOLEAN, there : BOOLEAN]

\* CapabilityManager.resolve: the token is known and has not expired.
Resolves(k) == k \in stored /\ k \notin expired

\* CapabilityManager.permits
PermitsAnywhere(g, c, props, direction) ==                        \* mutant
  /\ props \subseteq g.props
  /\ g.direction \in {direction, "readwrite"}
Permits(g, c, props, direction) ==
  /\ g.conn = c
  /\ props \subseteq g.props
  /\ g.direction \in {direction, "readwrite"}

\* The gates of handleCapabilityRequest up to its first await.
Usable(k, c) == k \in shown /\ Resolves(k) /\ up /\ c \in bound

\* Store.save writes the whole state to a file of its own and renames that: it
\* succeeds, or it throws and leaves state.json as it was.
Save(ok) == kept' = IF ok THEN stored' ELSE kept

-----------------------------------------------------------------------------
Init ==
  /\ RegistryInit
  /\ grant = [k \in CapIds |-> NoGrant]
  /\ stored = {}
  /\ kept = {}
  /\ shown = {}
  /\ expired = {}
  /\ up = FALSE
  /\ bound = Conns
  /\ request = [r \in Callers |-> NoRequest]
  /\ boots = 1
  /\ wrote = NoWrite
  /\ withdrawn = {}
  /\ revoked = {}

Begins(r, w) == request[r] = NoRequest /\ request' = [request EXCEPT ![r] = w]
Ends(r) == request' = [request EXCEPT ![r] = NoRequest]

\* touch(): the use is recorded and saved; if that throws, so does the request.
Touch(ok) ==
  /\ UNCHANGED <<grant, stored, shown, expired, withdrawn, revoked>>
  /\ Save(ok)

\* GET of the properties with a token: what it names of what is there.
DeviceReads(k, c, props) ==
  /\ Usable(k, c)
  /\ Permits(grant[k], c, props, "read")
  /\ \E ok \in BOOLEAN : Touch(ok)
  /\ UNCHANGED <<registryVars, up, bound, request, boots, wrote>>

\* PUT of a property with a token.
DeviceWrites(r, k, c, prop) ==
  /\ Usable(k, c)
  /\ Permits(grant[k], c, {prop}, "write")
  /\ \/ /\ Touch(TRUE)
        /\ Begins(r, [at |-> "body", cap |-> k, conn |-> c, prop |-> prop,
                      timely |-> k \in stored \ expired /\ up /\ c \in bound])
     \/ Touch(FALSE) /\ UNCHANGED request
  /\ UNCHANGED <<registryVars, up, bound, boots, wrote>>

\* POST .../capabilities by an app.  (Ids are not used up: a bound.)
MintBegins(r, c) ==
  /\ Cardinality({q \in Callers : request[q] \in Asking \cup Minting})
       < Cardinality({k \in CapIds : grant[k] = NoGrant})
  /\ up /\ c \in bound
  /\ Begins(r, [at |-> "body", conn |-> c])
  /\ UNCHANGED <<registryVars, tokenVars, up, bound, boots, wrote>>

\* PUT of a declaration or of a property by an app, with nothing in memory.
AppAsks(r) ==
  /\ Begins(r, Other)
  /\ Ask(r)
  /\ UNCHANGED <<tokenVars, up, bound, boots, wrote>>

\* putConnectionProperty, if the session is up: the write goes to the realm,
\* and the request awaits its answer.
Allowed(prop) ==
  \E k \in Records \cap ((IF offline' THEN 1 ELSE floor)..published) :
    Writes(Role, k, prop)
Sends(r, w) ==
  /\ up
  /\ wrote' = [cap |-> w.cap, conn |-> w.conn, prop |-> w.prop,
               timely |-> w.timely, allowed |-> Allowed(w.prop),
               there |-> w.conn \in bound]
  /\ request' = [request EXCEPT ![r] = [w EXCEPT !.at = "realm"]]
PutAndTouch(r, w) ==                                              \* mutant
  /\ Sends(r, w)
  /\ stored' = stored \cup {w.cap}
  /\ Save(TRUE)
  /\ UNCHANGED <<grant, shown, expired, withdrawn, revoked>>
Put(r, w) == Sends(r, w) /\ UNCHANGED tokenVars

\* CapabilityManager.mint, under a new id; without the save no token is shown.
MintsUnsaved(g) ==                                                \* mutant
  \E k \in CapIds :
    /\ grant[k] = NoGrant
    /\ grant' = [grant EXCEPT ![k] = g]
    /\ stored' = stored \cup {k}
    /\ shown' = shown \cup {k}
    /\ \E ok \in BOOLEAN : Save(ok)
    /\ UNCHANGED <<expired, wrote, withdrawn, revoked>>
Mints(g) ==
  \E k \in CapIds, ok \in BOOLEAN :
    /\ grant[k] = NoGrant
    /\ grant' = [grant EXCEPT ![k] = g]
    /\ stored' = stored \cup {k}
    /\ Save(ok)
    /\ shown' = IF ok THEN shown \cup {k} ELSE shown
    /\ UNCHANGED <<expired, wrote, withdrawn, revoked>>

\* The loop over the properties of a mint: mint() at its end.
Continue(r, g, todo) ==
  \/ /\ todo = {}
     /\ Mints(g)
     /\ Ends(r)
  \/ /\ todo # {}
     /\ request' = [request EXCEPT ![r] = [at |-> "checks", grant |-> g, todo |-> todo]]
     /\ UNCHANGED <<tokenVars, wrote>>

Refuse(r) == Ends(r) /\ UNCHANGED <<tokenVars, wrote>>

\* checkPropertyWrite once the profile is resolved to entry, and what follows.
CheckedFirst(r, w, entry) ==                                      \* mutant
  \/ w = Other /\ Refuse(r)
  \/ /\ w \in Device
     /\ IF Writes(Role, entry, w.prop) /\ up THEN Put(r, w) ELSE Refuse(r)
  \/ \E p \in {q \in Props : w \in Minting /\ q \in w.todo} :
       IF Writes(Role, entry, p) THEN Continue(r, w.grant, {}) ELSE Refuse(r)
Checked(r, w, entry) ==
  \/ w = Other /\ Refuse(r)
  \/ /\ w \in Device
     /\ IF Writes(Role, entry, w.prop) /\ up THEN Put(r, w) ELSE Refuse(r)
  \/ \E p \in {q \in Props : w \in Minting /\ q \in w.todo} :
       IF Writes(Role, entry, p) THEN Continue(r, w.grant, w.todo \ {p}) ELSE Refuse(r)

\* checkPropertyWrite: at once if the profile is in memory, else when the
\* registry has been asked.  Other requests go on between two checks.
Check(r, w) ==
  \/ /\ cache # Unknown
     /\ UNCHANGED registryVars
     /\ Checked(r, w, cache)
  \/ /\ Ask(r)
     /\ request' = [request EXCEPT ![r] = [w EXCEPT !.at = "registry"]]
     /\ UNCHANGED <<tokenVars, wrote>>

\* The body of a device's write has been read.
WriteArrives(r) ==
  /\ request[r] \in Device /\ request[r].at = "body"
  /\ Check(r, request[r])
  /\ UNCHANGED <<up, bound, boots>>

\* The body of a mint has been read: only one that may write is checked.
MintArrives(r) ==
  /\ request[r] \in Asking
  /\ \E g \in Grant :
       /\ g.conn = request[r].conn
       /\ \/ /\ g.direction # "read"
             /\ Check(r, [at |-> "checks", grant |-> g, todo |-> g.props])
          \/ /\ g.direction = "read"
             /\ Mints(g)
             /\ Ends(r)
             /\ UNCHANGED registryVars
  /\ UNCHANGED <<up, bound, boots>>

\* The loop comes to its next property.
MintContinues(r) ==
  /\ request[r].at = "checks"
  /\ Check(r, request[r])
  /\ UNCHANGED <<up, bound, boots>>

\* The body never comes, or is not JSON.
BodyFails(r) ==
  /\ request[r].at = "body"
  /\ Ends(r)
  /\ UNCHANGED <<registryVars, tokenVars, up, bound, boots, wrote>>

\* resolve() returns or throws.
ProfileThrown(r) ==                                               \* mutant
  /\ request[r].at = "registry"
  /\ \E got \in {Failed, NotRegistered} \cup Records :
       /\ Resolve(r, got)
       /\ IF got = Failed THEN UNCHANGED <<request, tokenVars, wrote>>
                          ELSE Checked(r, request[r], got)
  /\ UNCHANGED <<up, bound, boots>>
ProfileResolved(r) ==
  /\ request[r].at = "registry"
  /\ \E got \in {Failed, NotRegistered} \cup Records :
       Resolve(r, got) /\ Checked(r, request[r], got)
  /\ UNCHANGED <<up, bound, boots>>

\* The realm refuses the write or takes it: then its key may bring a connection
\* back that has been severed meanwhile.
RealmAnswers(r) ==
  /\ request[r].at = "realm"
  /\ bound' \in {bound, bound \cup {request[r].conn}}
  /\ Ends(r)
  /\ UNCHANGED <<registryVars, tokenVars, up, boots, wrote>>

\* DELETE .../capabilities/{cap}: reachable while the connection is there.
Revoke(k) ==
  /\ up
  /\ k \in stored /\ grant[k].conn \in bound
  /\ stored' = stored \ {k}
  /\ withdrawn' = withdrawn \cup {k}
  /\ \E ok \in BOOLEAN :
       /\ Save(ok)
       /\ revoked' = IF ok THEN revoked \cup {k} ELSE revoked
  /\ UNCHANGED <<registryVars, grant, shown, expired, up, bound, request, boots,
                 wrote>>

\* Another change of the gateway's state is saved, and with it the whole state.
OthersSave ==
  /\ UNCHANGED <<registryVars, grant, stored, shown, expired, withdrawn, revoked,
                 up, bound, request, boots, wrote>>
  /\ Save(TRUE)

Expire(k) ==
  /\ grant[k] # NoGrant /\ k \notin expired
  /\ expired' = expired \cup {k}
  /\ UNCHANGED <<registryVars, grant, stored, kept, shown, withdrawn, revoked,
                 up, bound, request, boots, wrote>>

\* The realm severs a connection: its keys leave the key cache.
RealmSevers(c) ==
  /\ c \in bound
  /\ bound' = bound \ {c}
  /\ UNCHANGED <<registryVars, tokenVars, up, request, boots, wrote>>

SessionUp ==
  /\ ~up
  /\ up' = TRUE
  /\ UNCHANGED <<registryVars, tokenVars, bound, request, boots, wrote>>

\* The session is lost, or the realm detached: a write under way has come to
\* the realm or not, and nothing settles the promise its request awaits.
Lost(w) == IF w.at = "realm" THEN [w EXCEPT !.at = "lost"] ELSE w
SessionLost ==
  /\ up
  /\ up' = FALSE
  /\ \E took \in SUBSET {r \in Callers : request[r].at = "realm"} :
       bound' = bound \cup {request[r].conn : r \in took}
  /\ request' = [r \in Callers |-> Lost(request[r])]
  /\ UNCHANGED <<registryVars, tokenVars, boots, wrote>>

World ==
  /\ Publish \/ \E r \in Callers : Serve(r)
  /\ UNCHANGED <<tokenVars, up, bound, request, boots, wrote>>

\* The process stops or crashes and another one reads state.json.
Restart ==
  /\ boots < MaxBoots
  /\ boots' = boots + 1
  /\ RegistryRestart
  /\ stored' = kept
  /\ up' = FALSE
  /\ request' = [r \in Callers |-> NoRequest]
  /\ UNCHANGED <<grant, kept, shown, expired, withdrawn, revoked, bound, wrote>>

Next ==
  \/ \E k \in CapIds, c \in Conns :
       \/ \E props \in {{}} \cup {{p} : p \in Props} : DeviceReads(k, c, props)
       \/ \E r \in Callers, p \in Props : DeviceWrites(r, k, c, p)
  \/ \E r \in Callers, c \in Conns : MintBegins(r, c)
  \/ \E r \in Callers :
       \/ AppAsks(r)
       \/ WriteArrives(r) \/ MintArrives(r) \/ MintContinues(r) \/ BodyFails(r)
       \/ ProfileResolved(r) \/ RealmAnswers(r)
  \/ \E k \in CapIds : Revoke(k) \/ Expire(k)
  \/ \E c \in Conns : RealmSevers(c)
  \/ OthersSave \/ SessionUp \/ SessionLost \/ World \/ Restart

Spec == Init /\ [][Next]_vars

-----------------------------------------------------------------------------
TypeOK ==
  /\ RegistryTypeOK
  /\ grant \in [CapIds -> Grant \cup {NoGrant}]
  /\ stored \cup kept \cup shown \cup expired \cup withdrawn
       \subseteq {k \in CapIds : grant[k] # NoGrant}
  /\ revoked \subseteq withdrawn
  /\ up \in BOOLEAN
  /\ bound \subseteq Conns
  /\ request \in [Callers -> Device \cup Asking \cup Minting \cup {Other, NoRequest}]
  /\ boots \in 1..MaxBoots
  /\ wrote \in Write \cup {NoWrite}
  /\ \A r \in Callers : lookup[r] # Idle <=> request[r].at = "registry"

(***************************************************************************)
(* NARROW (capabilities.js:14, api.js:187-198): whatever a device writes   *)
(* with a token was granted by it: this connection, this property, this    *)
(* direction, by a capability that was in force, for a connection that was *)
(* there, when the request began.  And it never exceeds what an app may    *)
(* write (api.js:229): some profile published since the process started    *)
(* gives the property to this role, unless the registry was out of reach.  *)
(* What happens to the capability after the request began stops no write.  *)
(***************************************************************************)
WithinGrant ==
  wrote # NoWrite =>
    /\ wrote.cap \in CapIds /\ grant[wrote.cap] # NoGrant
    /\ LET g == grant[wrote.cap]
       IN  g.conn = wrote.conn /\ wrote.prop \in g.props /\ g.direction # "read"
    /\ wrote.timely
    /\ wrote.allowed

(***************************************************************************)
(* ATTENUATING (capabilities.js:10-12): whatever the profile in memory     *)
(* becomes between the checks of two properties (api.js:405-407), a        *)
(* capability that can write names only properties that the gateway may    *)
(* write itself on that connection, each by a version of the profile that  *)
(* was published.                                                          *)
(***************************************************************************)
Attenuated ==
  \A k \in stored \cup kept :
    grant[k].direction # "read" =>
      \A p \in grant[k].props : \E v \in 1..published : Writes(Role, v, p)

(***************************************************************************)
(* A revocation that was answered with success holds (api.js:418-424): no  *)
(* request that found the capability before puts its record back, and no   *)
(* process after a crash finds it, whichever other saves have failed.      *)
(***************************************************************************)
RevokedStaysRevoked == revoked \cap (stored \cup kept) = {}

(***************************************************************************)
(* A token that was handed out works for this process and for the next one *)
(* until somebody asks for its revocation: a record that only the memory   *)
(* has, or only the file, is not behind any token in use.                  *)
(***************************************************************************)
TokensLast == shown \ withdrawn \subseteq stored \cap kept

(***************************************************************************)
(* registry.js:3, "disk cache for offline restart": once a profile has     *)
(* been learnt, no lookup of this process or a later one fails for want of *)
(* the registry, unless the writing of the file was cut short.             *)
(***************************************************************************)
OfflineRestart ==
  [][\A r \in Callers : lookup[r] # Idle /\ lookup'[r] = Idle /\ boots' = boots
       => cache' # Unknown \/ ~learnt \/ disk' = Damaged]_vars

-----------------------------------------------------------------------------
(* What the comments or a reader would say and the code does not do *)

(***************************************************************************)
(* capabilities.js:18: "the connection must still exist at use time".      *)
(***************************************************************************)
BoundAtUse == wrote # NoWrite => wrote.there

(***************************************************************************)
(* What the store has dropped stays away: a revocation whose save throws   *)
(* (store.js:81-85) leaves the record in the file for the next process.    *)
(***************************************************************************)
NeverRevived ==
  [][\A k \in CapIds : grant[k] # NoGrant /\ k \notin stored
                          => k \notin stored']_vars

(***************************************************************************)
(* One version of the profile allows all that a capability can write: each *)
(* property is checked against what is in memory by then.                  *)
(***************************************************************************)
OneVersion ==
  \A k \in stored :
    grant[k].direction # "read" =>
      \E v \in 1..published : \A p \in grant[k].props : Writes(Role, v, p)
=============================================================================
