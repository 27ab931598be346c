-------------------------- MODULE RealmManagerProofs --------------------------
(***************************************************************************)
(* Proofs about RealmManager, for any set of names, hosts and tokens, any  *)
(* changes of config.json between two processes and any number of saves    *)
(* that fail.  What makes the invariants inductive is what they leave      *)
(* unsaid of the store: while the process runs, memory knows whatever was  *)
(* answered, and until a save has failed it is the file, and each realm in *)
(* it has a handle, on its own host or hidden behind config.json's.        *)
(***************************************************************************)
EXTENDS RealmManager, TLAPS

\* A request under way belongs to a process.
WritersRun == ~running => writers = {}

\* Whatever was answered is in memory too, so that the next save keeps it.
Remembered ==
  running =>
    \A n \in Names :
      /\ answered[n] \in Cfgs => memory.realms[n] = answered[n]
      /\ answered[n] = Detached => memory.realms[n] = None

\* A tree in the file is of a realm in the file, or of config.json, unless it
\* was left behind.
TreesStored ==
  \A n \in disk.trees :
    disk.realms[n] # None \/ n \in Configured \cup straggled \cup dropped

\* A declaration under way is for a realm that is there, or straggles.
WritersHaveRealm ==
  \A n \in writers :
    Present(n) \/ memory.realms[n] # None \/ n \in straggled \cup dropped

\* A handle that memory does not know is one of config.json.
HandlesStored ==
  running => \A n \in Names : Present(n) /\ memory.realms[n] = None
                                => n \in Configured

\* Until a save has failed, memory is the file, and a realm in it has a handle,
\* on its own host unless that is hidden.
InStep ==
  running /\ faults = 0 =>
    /\ disk = memory
    /\ \A n \in Names : memory.realms[n] # None =>
         /\ Present(n)
         /\ realms[n].cfg.host = memory.realms[n].host \/ n \in hidden

\* And two realms of the file have different hosts, unless one was hidden.
HostsStored ==
  faults = 0 =>
    \A m, n \in Names :
      m # n /\ disk.realms[m] # None /\ disk.realms[n] # None
        => disk.realms[m].host # disk.realms[n].host \/ m \in hidden \/ n \in hidden

Inv ==
  /\ TypeOK
  /\ NoStrayConnection
  /\ WritersRun /\ Remembered /\ Durable
  /\ TreesStored /\ WritersHaveRealm /\ HandlesStored /\ TreeFollowsRealm
  /\ InStep /\ HostsStored /\ OneHandlePerHost

-----------------------------------------------------------------------------
(* Types *)

LEMMA RestoredType ==
  ASSUME TypeOK, NEW n \in Names, NEW said \in Cfgs \cup {None}
  PROVE  /\ Restored(n, said) \in Handle \cup {None}
         /\ Restored(n, said) # None /\ Restored(n, said).source = "config" =>
              said # None /\ Restored(n, said).cfg = said
BY NoneAssumption DEF TypeOK, Restored, Handle, State

LEMMA SaveTypes ==
  ASSUME TypeOK, memory' \in State, NEW ok \in BOOLEAN, Save(ok)
  PROVE  disk' \in State /\ faults' \in 0..MaxFaults
BY BoundsAssumption DEF TypeOK, Save

LEMMA TypesPreserved == TypeOK /\ [Next]_vars => TypeOK'
<1> SUFFICES ASSUME TypeOK, [Next]_vars PROVE TypeOK'
  OBVIOUS
<1> USE BoundsAssumption, NoneAssumption DEF TypeOK
<1>1. CASE Start
  <2>0. /\ config' \in [Names -> Cfgs \cup {None}]
        /\ \A n \in Names : config'[n] \in Cfgs \cup {None}
    BY <1>1, ConfigAssumption DEF Start
  <2>1. realms' \in [Names -> Handle \cup {None}]
    BY <1>1, <2>0, RestoredType DEF Start
  <2>2. \A n \in Names :
          Present(n)' /\ realms'[n].source = "config" =>
            n \in Configured' /\ realms'[n].cfg = config'[n]
    BY <1>1, <2>0, RestoredType DEF Start, Present, Configured
  <2>3. built' \in [Names -> 0..MaxBuilt]
    BY <1>1 DEF Start
  <2>4. live' \subseteq Names \X (1..MaxBuilt)
    BY <1>1 DEF Start, Fresh
  <2>5. straggled' \cup dropped' \cup hidden' \subseteq Names
    BY <1>1 DEF Start, Configured
  <2> QED BY <1>1, <2>0, <2>1, <2>2, <2>3, <2>4, <2>5 DEF Start
<1>2. CASE Exit
  BY <1>2 DEF Exit, Empty, State, Present, Configured
<1>3. ASSUME NEW n \in Names, NEW ok \in BOOLEAN, NEW cfg \in Cfgs,
             Attach(n, cfg, ok)
      PROVE  TypeOK'
  <2>1. memory' \in State
    BY <1>3 DEF Attach, State
  <2>2. disk' \in State /\ faults' \in 0..MaxFaults
    BY <1>3, <2>1, SaveTypes DEF Attach
  <2>3. CASE ok
    <3>1. live' \subseteq Names \X (1..MaxBuilt)
      BY <1>3, <2>3 DEF Attach, Stopped, Fresh
    <3>2. realms' = [realms EXCEPT ![n] = [cfg |-> cfg, source |-> "api"]]
      BY <1>3, <2>3 DEF Attach
    <3> QED BY <1>3, <2>1, <2>2, <2>3, <3>1, <3>2 DEF Attach, Handle, Present, Configured
  <2>4. CASE ~ok
    BY <1>3, <2>1, <2>2, <2>4 DEF Attach, Stopped, Present, Configured
  <2> QED BY <2>3, <2>4
<1>4. ASSUME NEW n \in Names, NEW ok \in BOOLEAN, Detach(n, ok) PROVE TypeOK'
  <2>1. memory' \in State
    BY <1>4 DEF Detach, Forget, State
  <2>2. disk' \in State /\ faults' \in 0..MaxFaults
    BY <1>4, <2>1, SaveTypes DEF Detach
  <2> QED BY <1>4, <2>1, <2>2 DEF Detach, Stopped, Present, Configured
<1>5. ASSUME NEW n \in Names, NEW ok \in BOOLEAN, DeclareStores(n, ok)
      PROVE  TypeOK'
  <2>1. memory' \in State
    BY <1>5 DEF DeclareStores, State
  <2>2. disk' \in State /\ faults' \in 0..MaxFaults
    BY <1>5, <2>1, SaveTypes DEF DeclareStores
  <2> QED BY <1>5, <2>1, <2>2 DEF DeclareStores, Present, Configured
<1>6. ASSUME NEW n \in Names, DeclareBegins(n) PROVE TypeOK'
  BY <1>6 DEF DeclareBegins, Present, Configured
<1>7. CASE UNCHANGED vars
  BY <1>7 DEF vars, Present, Configured
<1> QED BY <1>1, <1>2, <1>3, <1>4, <1>5, <1>6, <1>7 DEF Next

LEMMA InitTypes == Init => TypeOK
<1> SUFFICES ASSUME Init PROVE TypeOK
  OBVIOUS
<1>1. memory \in State /\ disk \in State
  BY DEF Init, Empty, State
<1>2. /\ built \in [Names -> 0..MaxBuilt]
      /\ faults \in 0..MaxFaults
  BY BoundsAssumption DEF Init
<1> QED BY <1>1, <1>2 DEF Init, TypeOK, Present, Configured

\* Every field keeps its type, and a handle that says it is of config.json
\* connects as config.json says.
THEOREM TypeCorrect == Spec => []TypeOK
BY InitTypes, TypesPreserved, PTL DEF Spec

-----------------------------------------------------------------------------
(* The invariants *)

\* The part of the invariant that is not about types.
Rest ==
  /\ NoStrayConnection
  /\ WritersRun /\ Remembered /\ Durable
  /\ TreesStored /\ WritersHaveRealm /\ HandlesStored /\ TreeFollowsRealm
  /\ InStep /\ HostsStored /\ OneHandlePerHost

\* What the start of the process makes of config.json and of the file.
LEMMA RestoredIs ==
  ASSUME TypeOK, NEW n \in Names, NEW said \in Cfgs \cup {None}
  PROVE  /\ said # None => /\ Restored(n, said) # None
                           /\ Restored(n, said).cfg = said
                           /\ Restored(n, said).source = "config"
         /\ said = None /\ disk.realms[n] = None => Restored(n, said) = None
         /\ said = None /\ disk.realms[n] # None =>
              /\ Restored(n, said) # None
              /\ Restored(n, said).cfg = disk.realms[n]
<1>1. CASE said # None
  <2> DEFINE r == [cfg |-> said, source |-> "config"]
  <2>1. r \in Handle /\ r.cfg = said /\ r.source = "config"
    BY <1>1 DEF Handle
  <2>2. Restored(n, said) = r
    BY <1>1 DEF Restored
  <2> HIDE DEF r
  <2> QED BY <1>1, <2>1, <2>2, NoneAssumption
<1>2. CASE said = None /\ disk.realms[n] # None
  <2> DEFINE r == [cfg |-> disk.realms[n], source |-> "api"]
  <2>1. disk.realms[n] \in Cfgs
    BY <1>2 DEF TypeOK, State
  <2>2. r \in Handle /\ r.cfg = disk.realms[n]
    BY <2>1 DEF Handle
  <2>3. Restored(n, said) = r
    BY <1>2 DEF Restored
  <2> HIDE DEF r
  <2> QED BY <1>2, <2>2, <2>3, NoneAssumption
<1>3. CASE said = None /\ disk.realms[n] = None
  BY <1>3 DEF Restored
<1> QED BY <1>1, <1>2, <1>3

LEMMA StartKeeps == Inv /\ Start => Rest'
<1> SUFFICES ASSUME Inv, Start PROVE Rest'
  OBVIOUS
<1>1. /\ running' /\ memory' = disk
      /\ UNCHANGED <<disk, writers, faults, answered, straggled>>
      /\ \A n \in Names : realms'[n] = Restored(n, config'[n])
      /\ \A n \in Names : config'[n] \in Cfgs \cup {None}
      /\ writers = {}
      /\ \A n \in Names : n \in Configured /\ config'[n] = None => n \in dropped'
      /\ dropped \subseteq dropped' /\ hidden \subseteq hidden'
      /\ \A n \in Names : /\ config'[n] # None /\ disk.realms[n] # None
                          /\ config'[n].host # disk.realms[n].host
                          => n \in hidden'
  BY ConfigAssumption DEF Inv, Start, WritersRun
<1>2. NoStrayConnection'
  BY DEF Inv, TypeOK, Start, NoStrayConnection, Latest, Fresh, Present
<1>3. WritersRun' /\ Remembered' /\ Durable'
  BY <1>1 DEF Inv, WritersRun, Remembered, Durable
<1>4. \A n \in Names :
        /\ Present(n)' <=> config'[n] # None \/ disk.realms[n] # None
        /\ config'[n] # None => /\ realms'[n].cfg = config'[n]
                                /\ realms'[n].source = "config"
        /\ config'[n] = None /\ disk.realms[n] # None => realms'[n].cfg = disk.realms[n]
  BY <1>1, RestoredIs DEF Inv, Present
<1>5. WritersHaveRealm' /\ TreesStored'
  <2>1. \A n \in disk.trees : n \in Names
    BY DEF Inv, TypeOK, State
  <2> QED BY <1>1, <2>1 DEF Inv, WritersHaveRealm, TreesStored, Configured
<1>6. HandlesStored' /\ TreeFollowsRealm'
  <2>1. HandlesStored'
    BY <1>1, <1>4 DEF HandlesStored, Configured
  <2>2. TreeFollowsRealm'
    BY <1>1, <1>4, <1>5 DEF Inv, TypeOK, TreeFollowsRealm, TreesStored, State, Configured
  <2> QED BY <2>1, <2>2
<1>7. InStep' /\ HostsStored'
  BY <1>1, <1>4 DEF Inv, InStep, HostsStored
<1>8. OneHandlePerHost'
  <2> SUFFICES ASSUME faults = 0, NEW m \in Names, NEW n \in Names, m # n,
                      Present(m)', Present(n)',
                      realms'[m].cfg.host = realms'[n].cfg.host
               PROVE  \E k \in {m, n} : realms'[k].source = "config" \/ k \in hidden'
    BY <1>1 DEF OneHandlePerHost
  <2>1. CASE config'[m] # None \/ config'[n] # None
    BY <1>4, <2>1
  <2>2. CASE config'[m] = None /\ config'[n] = None
    BY <1>1, <1>4, <2>2 DEF Inv, HostsStored
  <2> QED BY <2>1, <2>2
<1> QED BY <1>2, <1>3, <1>5, <1>6, <1>7, <1>8 DEF Rest

LEMMA ExitKeeps == Inv /\ Exit => Rest'
<1> SUFFICES ASSUME Inv, Exit PROVE Rest'
  OBVIOUS
<1>1. /\ ~running' /\ writers' = {} /\ live' = {}
      /\ UNCHANGED <<config, disk, faults, answered, straggled, dropped, hidden>>
      /\ \A n \in Names : ~Present(n)'
  BY DEF Exit, Present
<1> QED BY <1>1
        DEF Inv, TypeOK, Rest, NoStrayConnection, WritersRun, Remembered, Durable,
            TreesStored, WritersHaveRealm, HandlesStored, TreeFollowsRealm, InStep,
            HostsStored, OneHandlePerHost, Configured

\* What a save does to the file while a process runs.
LEMMA Saved ==
  ASSUME Inv, NEW ok \in BOOLEAN, Save(ok)
  PROVE  /\ ok => disk' = memory' /\ faults' = faults
         /\ ~ok => disk' = disk /\ faults' # 0
BY BoundsAssumption DEF Save, Inv, TypeOK

LEMMA AttachKeeps ==
  ASSUME Inv, NEW n \in Names, NEW ok \in BOOLEAN, NEW cfg \in Cfgs,
         Attach(n, cfg, ok)
  PROVE  Rest'
<1> USE NoneAssumption DEF Inv, TypeOK
<1>1. /\ running /\ running' /\ UNCHANGED <<config, writers, straggled, dropped>>
      /\ hidden' = IF ok THEN hidden \ {n} ELSE hidden
      /\ memory'.trees = memory.trees
      /\ memory'.realms = [memory.realms EXCEPT ![n] = cfg]
      /\ answered' = [answered EXCEPT ![n] = IF ok THEN cfg ELSE None]
      /\ realms' = [realms EXCEPT ![n] =
                      IF ok THEN [cfg |-> cfg, source |-> "api"] ELSE None]
  BY DEF Attach, State
<1>2. /\ ok => disk' = memory' /\ faults' = faults
      /\ ~ok => disk' = disk /\ faults' # 0
  BY Saved DEF Attach
<1>3. memory \in State /\ disk \in State /\ memory.realms[n]' = cfg
  BY <1>1 DEF State
<1>4. \A m \in Names : Present(m)' <=> IF m = n THEN ok ELSE Present(m)
  BY <1>1 DEF Present, Handle
<1>5. NoStrayConnection'
  BY <1>4 DEF NoStrayConnection, Attach, Stopped, Fresh, Latest
<1>6. WritersRun' /\ Remembered' /\ Durable'
  BY <1>1, <1>2 DEF WritersRun, Remembered, Durable, State
<1>7. TreesStored' /\ WritersHaveRealm' /\ HandlesStored' /\ TreeFollowsRealm'
  BY <1>1, <1>2, <1>4
     DEF TreesStored, WritersHaveRealm, HandlesStored, TreeFollowsRealm, State,
         Configured
<1>8. InStep' /\ HostsStored'
  <2> SUFFICES ASSUME ok, faults = 0 PROVE InStep' /\ HostsStored'
    BY <1>2 DEF InStep, HostsStored
  <2>1. disk' = memory' /\ disk = memory
    BY <1>1, <1>2 DEF InStep
  <2>2. \A m \in Names : m # n =>
          /\ memory'.realms[m] = memory.realms[m] /\ realms'[m] = realms[m]
          /\ m \in hidden' <=> m \in hidden
    BY <1>1, <1>3 DEF State
  <2>3. realms'[n].cfg = cfg /\ memory'.realms[n] = cfg /\ Present(n)'
    BY <1>1, <1>3, <1>4
  <2>5. InStep'
    <3> SUFFICES ASSUME NEW m \in Names, memory'.realms[m] # None
                 PROVE  /\ Present(m)'
                        /\ realms'[m].cfg.host = memory'.realms[m].host \/ m \in hidden'
      BY <2>1 DEF InStep
    <3>1. CASE m = n
      BY <2>3, <3>1
    <3>2. CASE m # n
      BY <1>1, <1>4, <2>2, <3>2 DEF InStep
    <3> QED BY <3>1, <3>2
  <2>6. \A m \in Names :
          m # n /\ memory.realms[m] # None =>
            memory.realms[m].host # cfg.host \/ m \in hidden
    BY <1>1 DEF InStep, Attach, Taken
  <2>7. HostsStored'
    BY <1>3, <2>1, <2>2, <2>3, <2>6 DEF HostsStored
  <2> QED BY <2>5, <2>7
<1>9. OneHandlePerHost'
  <2> SUFFICES ASSUME ok, faults = 0, NEW m \in Names, NEW k \in Names, m # k,
                      Present(m)', Present(k)',
                      realms'[m].cfg.host = realms'[k].cfg.host
               PROVE  \E j \in {m, k} : realms'[j].source = "config" \/ j \in hidden'
    BY <1>2 DEF OneHandlePerHost
  <2>1. \A j \in Names : j # n => /\ realms'[j] = realms[j] /\ (Present(j)' <=> Present(j))
                                  /\ j \in hidden' <=> j \in hidden
    BY <1>1, <1>4
  <2>2. realms'[n].cfg = cfg
    BY <1>1
  <2>3. m # n /\ k # n
    BY <2>1, <2>2 DEF Attach, Taken
  <2> QED BY <2>1, <2>3 DEF OneHandlePerHost
<1> QED BY <1>5, <1>6, <1>7, <1>8, <1>9 DEF Rest

LEMMA DetachKeeps ==
  ASSUME Inv, NEW n \in Names, NEW ok \in BOOLEAN, Detach(n, ok)
  PROVE  Rest'
<1> USE NoneAssumption DEF Inv, TypeOK
<1>1. /\ running /\ running' /\ UNCHANGED <<config, writers>>
      /\ dropped' = IF ok THEN dropped \ {n} ELSE dropped
      /\ hidden' = IF ok THEN hidden \ {n} ELSE hidden
      /\ memory'.trees = memory.trees \ {n}
      /\ memory'.realms = [memory.realms EXCEPT ![n] = None]
      /\ answered' = [answered EXCEPT ![n] = IF ok THEN Detached ELSE None]
      /\ realms' = [realms EXCEPT ![n] = None]
      /\ straggled' = IF n \in writers THEN straggled \cup {n} ELSE straggled
  BY DEF Detach, Forget, State
<1>2. /\ ok => disk' = memory' /\ faults' = faults
      /\ ~ok => disk' = disk /\ faults' # 0
  BY Saved DEF Detach
<1>4. \A m \in Names : Present(m)' <=> m # n /\ Present(m)
  BY <1>1 DEF Present
<1>5. NoStrayConnection'
  BY <1>4 DEF NoStrayConnection, Detach, Stopped, Latest
<1>6. WritersRun' /\ Remembered' /\ Durable'
  BY <1>1, <1>2 DEF WritersRun, Remembered, Durable, State
<1>7. TreesStored' /\ WritersHaveRealm' /\ HandlesStored' /\ TreeFollowsRealm'
  BY <1>1, <1>2, <1>4
     DEF TreesStored, WritersHaveRealm, HandlesStored, TreeFollowsRealm, State,
         Configured
<1>8. InStep' /\ HostsStored'
  BY <1>1, <1>2, <1>4 DEF InStep, HostsStored, State
<1>9. OneHandlePerHost'
  BY <1>1, <1>2, <1>4 DEF OneHandlePerHost
<1> QED BY <1>5, <1>6, <1>7, <1>8, <1>9 DEF Rest

LEMMA DeclareBeginsKeeps ==
  ASSUME Inv, NEW n \in Names, DeclareBegins(n)
  PROVE  Rest'
BY DEF Inv, TypeOK, Rest, DeclareBegins, Present, NoStrayConnection, Latest,
       WritersRun, Remembered, Durable, TreesStored, WritersHaveRealm,
       HandlesStored, TreeFollowsRealm, InStep, HostsStored, OneHandlePerHost,
       Configured

LEMMA DeclareStoresKeeps ==
  ASSUME Inv, NEW n \in Names, NEW ok \in BOOLEAN, DeclareStores(n, ok)
  PROVE  Rest'
<1>1. /\ running
      /\ writers' = writers \ {n}
      /\ memory'.trees = memory.trees \cup {n}
      /\ memory'.realms = memory.realms
      /\ UNCHANGED <<running, config, realms, built, live, answered, straggled,
                     dropped, hidden>>
  BY DEF DeclareStores, Inv, TypeOK, State, WritersRun
<1>2. /\ ok => disk' = memory' /\ faults' = faults
      /\ ~ok => disk' = disk /\ faults' # 0
  BY Saved DEF DeclareStores
<1>3. \A m \in Names : Present(m)' <=> Present(m)
  BY <1>1 DEF Present
<1>4. n \in writers
  BY DEF DeclareStores
<1>5. NoStrayConnection'
  BY <1>1, <1>3 DEF NoStrayConnection, Latest, Inv
<1>6. WritersRun' /\ Remembered' /\ Durable'
  BY <1>1, <1>2 DEF WritersRun, Remembered, Durable, Inv
<1>7. TreesStored' /\ WritersHaveRealm' /\ HandlesStored' /\ TreeFollowsRealm'
  BY <1>1, <1>2, <1>3, <1>4
     DEF TreesStored, WritersHaveRealm, HandlesStored, TreeFollowsRealm, State,
         Inv, TypeOK, Configured
<1>8. InStep' /\ HostsStored'
  BY <1>1, <1>2, <1>3 DEF InStep, HostsStored, Inv
<1>9. OneHandlePerHost'
  BY <1>1, <1>2, <1>3 DEF OneHandlePerHost, Inv, Present
<1> QED BY <1>5, <1>6, <1>7, <1>8, <1>9 DEF Rest

LEMMA InvPreserved == Inv /\ [Next]_vars => Inv'
<1> SUFFICES ASSUME Inv, [Next]_vars PROVE TypeOK' /\ Rest'
  BY DEF Inv, Rest
<1>1. TypeOK'
  BY TypesPreserved DEF Inv
<1>2. CASE UNCHANGED vars
  <2>1. UNCHANGED <<running, config, realms, built, live, memory, disk, writers,
                    faults, answered, straggled, dropped, hidden>>
    BY <1>2 DEF vars
  <2> QED BY <1>1, <2>1
          DEF Inv, Rest, Present, NoStrayConnection, Latest, WritersRun, Remembered,
              Durable, TreesStored, WritersHaveRealm, HandlesStored, TreeFollowsRealm,
              InStep, HostsStored, OneHandlePerHost, Configured
<1>3. CASE Start \/ Exit
  BY <1>1, <1>3, StartKeeps, ExitKeeps
<1>4. ASSUME NEW n \in Names, NEW ok \in BOOLEAN, NEW cfg \in Cfgs, Attach(n, cfg, ok)
      PROVE  Rest'
  BY <1>4, AttachKeeps
<1>5. ASSUME NEW n \in Names, NEW ok \in BOOLEAN, Detach(n, ok) \/ DeclareStores(n, ok)
      PROVE  Rest'
  BY <1>5, DetachKeeps, DeclareStoresKeeps
<1>6. ASSUME NEW n \in Names, DeclareBegins(n) PROVE Rest'
  BY <1>6, DeclareBeginsKeeps
<1> QED BY <1>1, <1>2, <1>3, <1>4, <1>5, <1>6 DEF Next

LEMMA InitInv == Init => Inv
<1> SUFFICES ASSUME Init PROVE Inv
  OBVIOUS
<1>1. /\ ~running /\ live = {} /\ writers = {} /\ disk.trees = {} /\ memory.trees = {}
      /\ \A n \in Names : ~Present(n) /\ answered[n] = None /\ disk.realms[n] = None
  BY DEF Init, Empty, Present
<1> QED BY <1>1, InitTypes, NoneAssumption
        DEF Inv, TypeOK, NoStrayConnection, WritersRun, Remembered, Durable, TreesStored,
            WritersHaveRealm, HandlesStored, TreeFollowsRealm, InStep, HostsStored,
            OneHandlePerHost

LEMMA Invariance == Spec => []Inv
BY InitInv, InvPreserved, PTL DEF Spec

\* Whatever save fails, the connections that run are those of the handles.
THEOREM NoStray == Spec => []NoStrayConnection
BY Invariance, PTL DEF Inv

\* What was answered with success is in the file, through failed saves and
\* restarts.
THEOREM AnsweredIsDurable == Spec => []Durable
BY Invariance, PTL DEF Inv

\* No declarations are left for a name whose realm is gone, but those that
\* were under way when it was detached and those of a realm that was removed
\* from config.json.
THEOREM TreesFollow == Spec => []TreeFollowsRealm
BY Invariance, PTL DEF Inv

\* However config.json changes from one process to the next, two handles share
\* a host only where config.json names it, where one of the realms was stored
\* while config.json hid that, or after a failed save.
THEOREM HostsApart == Spec => []OneHandlePerHost
BY Invariance, PTL DEF Inv
=============================================================================
