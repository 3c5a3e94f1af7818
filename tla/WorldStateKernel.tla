-------------------------- MODULE WorldStateKernel --------------------------
(***************************************************************************)
(* world/state_kernel.py with world/version_manager.py: the only owner of  *)
(* the physical facts.  Every operation runs to its end under the kernel   *)
(* lock, so an operation is one step; what its callers do between two      *)
(* operations is in the modules that extend this one.                      *)
(*                                                                         *)
(* The machines, people, zones, tasks, routes, reservations, the weather   *)
(* and the freeze flag are all "entities": each has a content that an      *)
(* update replaces as a whole.                                             *)
(***************************************************************************)
EXTENDS Integers, Sequences

CONSTANTS
  Entities,    \* the entities of the initial world
  Contents,    \* what an entity may hold
  Keys,        \* deduplication keys of events
  Unknown,     \* an entity id the world does not have
  MaxVersion   \* bound: last world version

ASSUME WorldStateKernelAssumption ==
  /\ Unknown \notin Entities
  /\ Contents # {} /\ MaxVersion \in Nat

VARIABLES
  facts,       \* _state: entity -> content
  version,     \* _version_manager
  processed,   \* _processed_deduplication_keys
  past,        \* history: past[v + 1] is what version v stood for
  commits      \* history: key -> how many events of that key were committed

kernelVars == <<facts, version, processed, past, commits>>

Events == [key : Keys, entity : Entities \cup {Unknown}, content : Contents]

---------------------------------------------------------------------------
\* Mutant: an update that changes nothing is committed as well.
ChangesAlways(e, c) == e \in Entities

\* An unknown entity and an invalid candidate raise before anything changes; an
\* equal content is a no-op.
Changes(e, c) == e \in Entities /\ facts[e] # c

\* VersionManager: only the next version can be committed; under the kernel lock
\* the next version asked for is still the next when it is committed.
NextVersion == version + 1

\* The candidate gets the next version and is published with it.
Commit(e, c) ==
  /\ version < MaxVersion
  /\ facts' = [facts EXCEPT ![e] = c]
  /\ version' = NextVersion
  /\ past' = Append(past, facts')

\* update_machine, update_person, update_zone, update_weather,
\* update_new_tasks_frozen: one body for all.
Update(e, c) ==
  IF Changes(e, c) THEN Commit(e, c) ELSE UNCHANGED <<facts, version, past>>

\* Mutant: the key is kept although nothing was committed.
KeptAlways(k) == processed \cup {k}

\* A key is consumed by a commit only: a failed or empty event may come again.
Kept(k) == IF version' > version THEN processed \cup {k} ELSE processed

IsDuplicate(ev) == ev.key \in processed   \* DuplicateEventError

Apply(ev) ==
  /\ ~IsDuplicate(ev)
  /\ Update(ev.entity, ev.content)
  /\ processed' = Kept(ev.key)
  /\ commits' = [commits EXCEPT ![ev.key] = @ + (version' - version)]

---------------------------------------------------------------------------
\* The writers of the runtime and its event sources.
Write(e, c) == Update(e, c) /\ UNCHANGED <<processed, commits>>

KernelInit ==
  /\ facts \in [Entities -> Contents]
  /\ version = 0
  /\ processed = {}
  /\ past = <<facts>>
  /\ commits = [k \in Keys |-> 0]

Init == KernelInit

Next ==
  \/ \E e \in Entities \cup {Unknown}, c \in Contents : Write(e, c)
  \/ \E ev \in Events : Apply(ev)

Spec == Init /\ [][Next]_kernelVars

---------------------------------------------------------------------------
(* Properties *)

\* The type invariant of the kernel; the published version is the last one.
TypeOK ==
  /\ facts \in [Entities -> Contents]
  /\ version \in 0..MaxVersion
  /\ processed \subseteq Keys
  /\ past \in Seq([Entities -> Contents]) /\ Len(past) = version + 1
  /\ commits \in [Keys -> Nat]

\* "Illegal updates, duplicate events and no-ops must not wrongly increase
\* world_version": each version stands for one content, the published content
\* is that of the published version, and a new version is a new content.
VersionsNameContents ==
  /\ facts = past[version + 1]
  /\ \A v \in 1..version : past[v] # past[v + 1]

\* However often and in whatever order an event is delivered, at most one
\* delivery is committed; and a delivery that failed or changed nothing does
\* not use the key up.
KeysCommitOnce ==
  \A k \in Keys : commits[k] = IF k \in processed THEN 1 ELSE 0
============================================================================
