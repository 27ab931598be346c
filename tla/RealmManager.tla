----------------------------- MODULE RealmManager -----------------------------
(***************************************************************************)
(* The realm handles of the gateway (src/src/realm-manager.js) and what    *)
(* the store keeps of them (src/src/store.js): config-declared realms and  *)
(* realms attached over the API, which are persisted; the same-host guard; *)
(* restarts, which read the file back and config.json anew, as the         *)
(* operator has left it meanwhile (src/src/server.js); and saves that      *)
(* fail, which end a request after memory was changed.                     *)
(*                                                                         *)
(* A RealmConnection is here its name and the count of those built for it  *)
(* so far; its life is that of module RealmConnection.                     *)
(***************************************************************************)
EXTENDS Naturals

CONSTANTS
  Names, Hosts, Tokens,
  Configs,      \* what config.json may say: per name a configuration, or None
  None,
  Detached,     \* an answer: the realm was detached
  MaxBuilt,     \* bound: connections built for a name
  MaxFaults     \* bound: saves that fail

Cfgs == [host : Hosts, token : Tokens]
Handle == [cfg : Cfgs, source : {"config", "api"}]

ASSUME ConfigAssumption == Configs \subseteq [Names -> Cfgs \cup {None}]
ASSUME NoneAssumption ==
  None \notin Cfgs \cup Handle \cup {Detached} /\ Detached \notin Cfgs
ASSUME BoundsAssumption == MaxBuilt \in Nat /\ MaxFaults \in Nat

VARIABLES
  running,    \* is the process up?
  config,     \* config.json as this process, or else the last one, has read it
  realms,     \* #realms: per name a handle, or None
  built,      \* per name: connections built so far, the last is the handle's
  live,       \* the connections that were not stopped
  memory,     \* the store's state: realms, and the names with declarations
  disk,       \* state.json
  writers,    \* names with a declaration request under way
  faults,     \* saves that failed
  answered,   \* history, per name: what the last PUT or DELETE was answered
  straggled,  \* history: names detached while a declaration was under way
  dropped,    \* history: names removed from config.json, not detached since
  hidden      \* history: names a process started on a host of config.json
              \* although another one was stored, not attached or detached since

vars == <<running, config, realms, built, live, memory, disk, writers, faults,
          answered, straggled, dropped, hidden>>

State == [realms : [Names -> Cfgs \cup {None}], trees : SUBSET Names]
Empty == [realms |-> [n \in Names |-> None], trees |-> {}]

Present(n) == realms[n] # None
Configured == {n \in Names : config[n] # None}
Latest(n) == <<n, built[n]>>
Fresh(n) == <<n, built[n] + 1>>

\* The same-host guard: a handle of another name already connects there.
TakenNever(n, cfg) == FALSE                                       \* mutant
Taken(n, cfg) ==
  \E m \in Names \ {n} : Present(m) /\ realms[m].cfg.host = cfg.host

\* save() puts the whole of memory in place of the file, or throws and leaves
\* the file as it was, since it writes another file and renames it.
SaveInPlace(ok) ==                                                \* mutant
  \/ ok /\ disk' = memory' /\ UNCHANGED faults
  \/ ~ok /\ faults < MaxFaults /\ faults' = faults + 1 /\ disk' = Empty
Save(ok) ==
  \/ ok /\ disk' = memory' /\ UNCHANGED faults
  \/ ~ok /\ faults < MaxFaults /\ faults' = faults + 1 /\ UNCHANGED disk

Init ==
  /\ running = FALSE
  /\ config = [n \in Names |-> None]
  /\ realms = [n \in Names |-> None]
  /\ built = [n \in Names |-> 0]
  /\ live = {}
  /\ memory = Empty
  /\ disk = Empty
  /\ writers = {}
  /\ faults = 0
  /\ answered = [n \in Names |-> None]
  /\ straggled = {}
  /\ dropped = {}
  /\ hidden = {}

\* loadConfig(), new Store() and startFromConfig(): the configured realms, then
\* the stored ones whose name is free.  Hosts are not compared.
RestoredStoredFirst(n, said) ==                                   \* mutant
  IF disk.realms[n] # None
  THEN [cfg |-> disk.realms[n], source |-> IF said # None THEN "config" ELSE "api"]
  ELSE IF said # None THEN [cfg |-> said, source |-> "config"] ELSE None
Restored(n, said) ==
  IF said # None THEN [cfg |-> said, source |-> "config"]
  ELSE IF disk.realms[n] # None
       THEN [cfg |-> disk.realms[n], source |-> "api"] ELSE None

Start ==
  /\ ~running
  /\ \A n \in Names : built[n] < MaxBuilt
  /\ running' = TRUE
  /\ memory' = disk
  /\ config' \in Configs
  /\ realms' = [n \in Names |-> Restored(n, config'[n])]
  /\ LET started == {n \in Names : Restored(n, config'[n]) # None}
     IN  /\ built' = [n \in Names |-> IF n \in started THEN built[n] + 1 ELSE built[n]]
         /\ live' = {Fresh(n) : n \in started}
  /\ dropped' = dropped \cup {n \in Configured : config'[n] = None}
  /\ hidden' = hidden \cup {n \in Names : /\ config'[n] # None /\ disk.realms[n] # None
                                          /\ config'[n].host # disk.realms[n].host}
  /\ UNCHANGED <<disk, writers, faults, answered, straggled>>

\* A signal, which stops every connection, or a crash.
Exit ==
  /\ running
  /\ running' = FALSE
  /\ realms' = [n \in Names |-> None]
  /\ live' = {}
  /\ memory' = Empty
  /\ writers' = {}
  /\ UNCHANGED <<config, built, disk, faults, answered, straggled, dropped, hidden>>

\* PUT /realms/{name}: 409 if the host is taken; else the connection the name
\* has is stopped, the configuration stored and a connection built.  When the
\* save throws, the old connection is gone and there is no new one.
StoppedNever(n) == live                                           \* mutant
Stopped(n) == live \ {Latest(n)}

Attach(n, cfg, ok) ==
  /\ running
  /\ built[n] < MaxBuilt
  /\ ~Taken(n, cfg)
  /\ memory' = [memory EXCEPT !.realms[n] = cfg]
  /\ Save(ok)
  /\ IF ok
     THEN /\ realms' = [realms EXCEPT ![n] = [cfg |-> cfg, source |-> "api"]]
          /\ built' = [built EXCEPT ![n] = @ + 1]
          /\ live' = Stopped(n) \cup {Fresh(n)}
          /\ answered' = [answered EXCEPT ![n] = cfg]
          /\ hidden' = hidden \ {n}
     ELSE /\ realms' = [realms EXCEPT ![n] = None]
          /\ live' = Stopped(n)
          /\ answered' = [answered EXCEPT ![n] = None]
          /\ UNCHANGED <<built, hidden>>
  /\ UNCHANGED <<running, config, writers, straggled, dropped>>

\* DELETE /realms/{name}: 404 without a handle, 409 for a configured realm;
\* else the connection is stopped, its realm and declarations are dropped.
ForgetRealmOnly(n) == [memory EXCEPT !.realms[n] = None]          \* mutant
Forget(n) == [realms |-> [memory.realms EXCEPT ![n] = None],
              trees |-> memory.trees \ {n}]

Detach(n, ok) ==
  /\ running
  /\ Present(n)
  /\ realms[n].source = "api"
  /\ live' = Stopped(n)
  /\ realms' = [realms EXCEPT ![n] = None]
  /\ memory' = Forget(n)
  /\ Save(ok)
  /\ answered' = [answered EXCEPT ![n] = IF ok THEN Detached ELSE None]
  /\ straggled' = IF n \in writers THEN straggled \cup {n} ELSE straggled
  /\ dropped' = IF ok THEN dropped \ {n} ELSE dropped
  /\ hidden' = IF ok THEN hidden \ {n} ELSE hidden
  /\ UNCHANGED <<running, config, built, writers>>

\* A PUT in the declaration tree has found the realm's handle and waits for
\* its body; when that is there, it writes the tree of that name.
DeclareBegins(n) ==
  /\ running
  /\ Present(n)
  /\ n \notin writers
  /\ writers' = writers \cup {n}
  /\ UNCHANGED <<running, config, realms, built, live, memory, disk, faults,
                 answered, straggled, dropped, hidden>>

DeclareStores(n, ok) ==
  /\ n \in writers
  /\ writers' = writers \ {n}
  /\ memory' = [memory EXCEPT !.trees = @ \cup {n}]
  /\ Save(ok)
  /\ UNCHANGED <<running, config, realms, built, live, answered, straggled,
                 dropped, hidden>>

Next ==
  \/ Start \/ Exit
  \/ \E n \in Names, ok \in BOOLEAN :
       \/ \E cfg \in Cfgs : Attach(n, cfg, ok)
       \/ Detach(n, ok)
       \/ DeclareStores(n, ok)
  \/ \E n \in Names : DeclareBegins(n)

Spec == Init /\ [][Next]_vars

-----------------------------------------------------------------------------
TypeOK ==
  /\ running \in BOOLEAN
  /\ config \in [Names -> Cfgs \cup {None}]
  /\ realms \in [Names -> Handle \cup {None}]
  /\ \A n \in Names :
       Present(n) /\ realms[n].source = "config" =>
         n \in Configured /\ realms[n].cfg = config[n]
  /\ built \in [Names -> 0..MaxBuilt]
  /\ live \subseteq Names \X (1..MaxBuilt)
  /\ memory \in State /\ disk \in State
  /\ writers \subseteq Names
  /\ faults \in 0..MaxFaults
  /\ answered \in [Names -> Cfgs \cup {None, Detached}]
  /\ straggled \cup dropped \cup hidden \subseteq Names

(***************************************************************************)
(* One system identity, one session per handle (realm-manager.js:42-58):   *)
(* the connections that were not stopped are exactly those of the handles, *)
(* whatever save failed: none runs that no request can reach.              *)
(***************************************************************************)
NoStrayConnection == live = {Latest(n) : n \in {m \in Names : Present(m)}}

(***************************************************************************)
(* What a PUT or DELETE of a realm was answered with success is in the     *)
(* file, whatever other requests failed or were lost in a crash since.     *)
(***************************************************************************)
Durable ==
  \A n \in Names :
    /\ answered[n] \in Cfgs => disk.realms[n] = answered[n]
    /\ answered[n] = Detached => disk.realms[n] = None

(***************************************************************************)
(* store.js:42-46: declarations go with their realm: none is kept, to be   *)
(* replayed to another realm of that name, for a name that is not attached *)
(* (or stored by a request that failed), except for declarations that were *)
(* under way when their realm was detached, and for realms that were       *)
(* removed from config.json: nothing forgets the declarations of those.    *)
(***************************************************************************)
TreeFollowsRealm ==
  running => \A n \in memory.trees :
               Present(n) \/ memory.realms[n] # None \/ n \in straggled \cup dropped

(***************************************************************************)
(* The same-host guard of attach() (realm-manager.js:35-47) keeps handles  *)
(* apart across restarts, which start realms without comparing hosts       *)
(* (realm-manager.js:14-21) and under any change of config.json: two       *)
(* handles share a host only if config.json names it for one of them, if   *)
(* one was stored while config.json hid that behind another host, or after *)
(* a save has failed.                                                      *)
(***************************************************************************)
OneHandlePerHost ==
  faults = 0 =>
    \A m, n \in Names :
      m # n /\ Present(m) /\ Present(n) /\ realms[m].cfg.host = realms[n].cfg.host
        => \E k \in {m, n} : realms[k].source = "config" \/ k \in hidden

-----------------------------------------------------------------------------
(* What the documentation says and the code does not do *)

(***************************************************************************)
(* openapi.json:422: "config-declared realms are removed via config.json": *)
(* while the gateway runs, a realm of config.json has its handle.          *)
(***************************************************************************)
ConfigRealmStays == running /\ faults = 0 => \A n \in Configured : Present(n)

(***************************************************************************)
(* README.md:121-122: "Same-host duplicate realm handles are refused (409) *)
(* to prevent double registration": two realms that were both attached     *)
(* over the API, with every save a success, have different hosts.          *)
(***************************************************************************)
AttachedApart ==
  faults = 0 =>
    \A m, n \in Names :
      /\ m # n /\ Present(m) /\ Present(n)
      /\ realms[m].source = "api" /\ realms[n].source = "api"
      => realms[m].cfg.host # realms[n].cfg.host

(***************************************************************************)
(* openapi.json:422 and realm-manager.js:66 name config.json as the way to *)
(* remove a realm of it: its declarations go with it as with a DELETE.     *)
(***************************************************************************)
NoTreeAlone ==
  running /\ faults = 0 => \A n \in memory.trees : Present(n) \/ n \in straggled

(***************************************************************************)
(* realm-manager.js:53: a re-PUT reconnects "only if changed".             *)
(***************************************************************************)
RePutKeepsConnection ==
  [][\A n \in Names :
       running /\ running' /\ Present(n) /\ realms'[n] # None
         /\ realms'[n].cfg = realms[n].cfg
         => built'[n] = built[n]]_vars
=============================================================================
