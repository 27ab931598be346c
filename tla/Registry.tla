------------------------------ MODULE Registry ------------------------------
(***************************************************************************)
(* The client of the profile registry (src/src/registry.js), for one       *)
(* profile.  resolve() answers from memory, else asks the registry and     *)
(* falls back on the file of an earlier run; callers that ask at the same  *)
(* time each send a request of their own, whose answers come in any order. *)
(* The actions here are steps of a caller: the module that extends this    *)
(* one says what the caller does with the outcome.                         *)
(*                                                                         *)
(* What the registry publishes is a number: 0 while the profile is not     *)
(* registered, k once Revisions[k] is.                                     *)
(***************************************************************************)
EXTENDS Integers, Sequences, FiniteSetsExt

CONSTANTS
  Callers,      \* requests of the gateway's API that may look the profile up
  Revisions     \* the profile as published over time: per revision a sequence
                \* of versions, each from property names to the `server' flag

ASSUME RevisionsAssumption ==      \* versions are additive (registry.js:72)
  /\ Len(Revisions) \in Nat
  /\ \A k \in 1..(Len(Revisions) - 1) :
       SubSeq(Revisions[k + 1], 1, Len(Revisions[k])) = Revisions[k]

VARIABLES
  published,    \* what the registry publishes
  cache,        \* the entry in memory, or Unknown
  disk,         \* the file: a revision, Unknown if there is none, or Damaged
  lookup,       \* per caller: Idle, Asked, or the answer on its way
  floor,        \* history: published when the process started
  offline,      \* history: this process has fallen back on the file
  learnt        \* history: some process has kept a record of the profile

registryVars == <<published, cache, disk, lookup, floor, offline, learnt>>

NotRegistered == 0
Records == 1..Len(Revisions)
Unknown == -1
Damaged == -2
Idle == -1
Asked == -2
Failed == -1      \* the outcome of a lookup that throws (502, or 500)

\* extractFlags: later versions override, property by property.
FlagsOf(cp) ==
  [prop \in UNION {DOMAIN cp[i] : i \in DOMAIN cp} |->
     cp[Max({i \in DOMAIN cp : prop \in DOMAIN cp[i]})][prop]]

WriterRole(server) == IF server THEN "provider" ELSE "consumer"

\* checkPropertyWrite, for an entry that was resolved.
Writes(role, entry, prop) ==
  /\ entry \in Records
  /\ LET flags == FlagsOf(Revisions[entry])
     IN  prop \in DOMAIN flags /\ WriterRole(flags[prop]) = role

-----------------------------------------------------------------------------
RegistryInit ==
  /\ published = NotRegistered
  /\ cache = Unknown
  /\ disk = Unknown
  /\ lookup = [l \in Callers |-> Idle]
  /\ floor = published
  /\ offline = FALSE
  /\ learnt = FALSE

\* The registry registers the profile, or adds a version to it.
Publish ==
  /\ published < Len(Revisions)
  /\ published' = published + 1
  /\ UNCHANGED <<cache, disk, lookup, floor, offline, learnt>>

\* Nothing in memory: a request goes out.
Ask(l) ==
  /\ cache = Unknown
  /\ lookup' = [lookup EXCEPT ![l] = Asked]
  /\ UNCHANGED <<published, cache, disk, floor, offline, learnt>>

\* The registry answers with what it publishes now.
Serve(l) ==
  /\ lookup[l] = Asked
  /\ lookup' = [lookup EXCEPT ![l] = published]
  /\ UNCHANGED <<published, cache, disk, floor, offline, learnt>>

\* A 404: remembered for the life of the process.
NotFound(l, got) ==
  /\ lookup[l] = NotRegistered
  /\ got = NotRegistered
  /\ cache' = NotRegistered
  /\ UNCHANGED <<disk, offline, learnt>>

\* A record: written to its file, then remembered.
FoundUnwritten(l, got) ==                                         \* mutant
  /\ lookup[l] \in Records
  /\ got = lookup[l]
  /\ cache' = got
  /\ learnt' = TRUE
  /\ UNCHANGED <<disk, offline>>
Found(l, got) ==
  /\ lookup[l] \in Records
  /\ got = lookup[l]
  /\ disk' = got
  /\ cache' = got
  /\ learnt' = TRUE
  /\ UNCHANGED offline

\* The catch block: the file of an earlier run if it is there and parses.
FallBack(file, got) ==
  /\ got = IF file \in Records THEN file ELSE Failed
  /\ cache' = IF got = Failed THEN cache ELSE got
  /\ offline' = TRUE
  /\ UNCHANGED learnt

\* Nothing within 8 s, another status, or a connection that fails.
GivesUp(l, got) ==
  /\ FallBack(disk, got)
  /\ UNCHANGED disk

\* A record whose file cannot be written, or only in part.
WriteFails(l, got) ==
  /\ lookup[l] \in Records
  /\ disk' \in {disk, Damaged}
  /\ FallBack(disk', got)

Resolve(l, got) ==
  /\ lookup[l] # Idle
  /\ NotFound(l, got) \/ Found(l, got) \/ GivesUp(l, got) \/ WriteFails(l, got)
  /\ lookup' = [lookup EXCEPT ![l] = Idle]
  /\ UNCHANGED <<published, floor>>

\* The process ends, perhaps in the middle of writing the file, and starts.
RegistryPreloaded ==                                              \* mutant
  /\ cache' = IF disk \in Records THEN disk ELSE Unknown
  /\ lookup' = [l \in Callers |-> Idle]
  /\ floor' = published
  /\ offline' = FALSE
  /\ UNCHANGED <<published, disk, learnt>>
RegistryRestart ==
  /\ cache' = Unknown
  /\ lookup' = [l \in Callers |-> Idle]
  /\ disk' \in IF \E l \in Callers : lookup[l] \in Records
               THEN {disk, Damaged} ELSE {disk}
  /\ floor' = published
  /\ offline' = FALSE
  /\ UNCHANGED <<published, learnt>>

-----------------------------------------------------------------------------
RegistryTypeOK ==
  /\ published \in {NotRegistered} \cup Records
  /\ cache \in {Unknown, NotRegistered} \cup Records
  /\ disk \in {Unknown, Damaged} \cup Records
  /\ lookup \in [Callers -> {Idle, Asked, NotRegistered} \cup Records]
  /\ floor \in 0..published
  /\ offline \in BOOLEAN
  /\ learnt \in BOOLEAN
  /\ cache \in Records \/ disk \in Records => published # NotRegistered

(***************************************************************************)
(* registry.js:1-3: every profile is resolved from the registry.  What     *)
(* this process remembers was published at some time since it started,     *)
(* whatever answers overtook each other, unless it fell back on the file.  *)
(***************************************************************************)
FreshSinceStart ==
  cache # Unknown /\ ~offline => cache >= floor
=============================================================================
