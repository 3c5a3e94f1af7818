---------------------------- MODULE WorldProofs -----------------------------
(***************************************************************************)
(* Proofs about WorldStateKernel and WorldObservers, for every world, any  *)
(* set of contents, people, incidents and keys, any number of threads and  *)
(* every bound.  The steps of the observers are kernel operations, and     *)
(* what is made of several of them is consistent all the same.             *)
(***************************************************************************)
EXTENDS WorldObservers, TLAPS

---------------------------------------------------------------------------
(* The kernel *)

IInv == TypeOK /\ VersionsNameContents /\ KeysCommitOnce

LEMMA InitialState == Init => IInv
  <1> SUFFICES ASSUME Init PROVE IInv
    OBVIOUS
  <1>1. facts \in [Entities -> Contents] /\ past = <<facts>> /\ version = 0
    BY DEF Init, KernelInit
  <1>2. TypeOK
    BY <1>1, WorldStateKernelAssumption DEF Init, KernelInit, TypeOK
  <1>3. VersionsNameContents
    BY <1>1 DEF VersionsNameContents
  <1>4. KeysCommitOnce
    BY DEF Init, KernelInit, KeysCommitOnce
  <1>5. QED
    BY <1>2, <1>3, <1>4 DEF IInv

\* An update publishes the next version with a new content, or nothing.
LEMMA UpdateIsCommitOrNothing ==
  ASSUME IInv, NEW e \in Entities \cup {Unknown}, NEW c \in Contents, Update(e, c)
  PROVE  /\ \/ version' = version + 1 \/ UNCHANGED <<facts, version, past>>
         /\ facts' \in [Entities -> Contents] /\ version' \in 0..MaxVersion
         /\ past' \in Seq([Entities -> Contents]) /\ Len(past') = version' + 1
         /\ VersionsNameContents'
  <1>1. /\ version \in Nat /\ MaxVersion \in Nat /\ version <= MaxVersion
        /\ facts \in [Entities -> Contents]
        /\ past \in Seq([Entities -> Contents]) /\ Len(past) = version + 1
        /\ facts = past[version + 1] /\ \A v \in 1..version : past[v] # past[v + 1]
    BY WorldStateKernelAssumption DEF IInv, TypeOK, VersionsNameContents
  <1>2. CASE UNCHANGED <<facts, version, past>>
    BY <1>1, <1>2 DEF VersionsNameContents
  <1>3. CASE Changes(e, c) /\ Commit(e, c)
    <2>1. /\ e \in Entities /\ facts[e] # c /\ version < MaxVersion
          /\ facts' = [facts EXCEPT ![e] = c] /\ version' = version + 1
          /\ past' = Append(past, facts')
      BY <1>3 DEF Changes, Commit, NextVersion
    <2>2. facts' \in [Entities -> Contents] /\ facts' # facts
      BY <1>1, <2>1
    <2>3. /\ past' \in Seq([Entities -> Contents]) /\ Len(past') = version' + 1
          /\ past'[version' + 1] = facts'
          /\ \A v \in 1..(version + 1) : past'[v] = past[v]
      BY <1>1, <2>1, <2>2
    <2>4. \A v \in 1..version' : past'[v] # past'[v + 1]
      <3> SUFFICES ASSUME NEW v \in 1..version' PROVE past'[v] # past'[v + 1]
        OBVIOUS
      <3>1. CASE v \in 1..version
        BY <1>1, <2>3, <3>1
      <3>2. CASE v = version + 1
        BY <1>1, <2>1, <2>2, <2>3, <3>2
      <3>3. QED
        BY <1>1, <2>1, <3>1, <3>2
    <2>5. QED
      BY <1>1, <2>1, <2>2, <2>3, <2>4 DEF VersionsNameContents
  <1>4. QED
    BY <1>2, <1>3 DEF Update

LEMMA KernelStep == IInv /\ [Next]_kernelVars => IInv'
  <1> SUFFICES ASSUME IInv, [Next]_kernelVars PROVE IInv'
    OBVIOUS
  <1>1. ASSUME NEW e \in Entities \cup {Unknown}, NEW c \in Contents, Write(e, c)
        PROVE  IInv'
    <2>1. Update(e, c) /\ processed' = processed /\ commits' = commits
      BY <1>1 DEF Write
    <2>2. TypeOK' /\ VersionsNameContents'
      BY <2>1, UpdateIsCommitOrNothing DEF IInv, TypeOK
    <2>3. KeysCommitOnce'
      BY <2>1 DEF IInv, KeysCommitOnce
    <2>4. QED
      BY <2>2, <2>3 DEF IInv
  <1>2. ASSUME NEW ev \in Events, Apply(ev) PROVE IInv'
    <2>1. /\ Update(ev.entity, ev.content) /\ ev.key \notin processed /\ ev.key \in Keys
          /\ processed' = Kept(ev.key)
          /\ commits' = [commits EXCEPT ![ev.key] = commits[ev.key] + (version' - version)]
          /\ ev.entity \in Entities \cup {Unknown} /\ ev.content \in Contents
      BY <1>2 DEF Apply, IsDuplicate, Events
    <2>2. TypeOK /\ VersionsNameContents
      BY DEF IInv
    <2>3. /\ facts \in [Entities -> Contents] /\ version \in 0..MaxVersion
          /\ past \in Seq([Entities -> Contents]) /\ Len(past) = version + 1
          /\ commits \in [Keys -> Nat] /\ processed \subseteq Keys
      BY <2>2 DEF TypeOK
    <2>4. /\ version' = version + 1 \/ version' = version
          /\ VersionsNameContents'
          /\ facts' \in [Entities -> Contents] /\ version' \in 0..MaxVersion
          /\ past' \in Seq([Entities -> Contents]) /\ Len(past') = version' + 1
      BY <2>1, <2>2, <2>3, UpdateIsCommitOrNothing
    <2>5. commits[ev.key] = 0
      BY <2>1, <2>3 DEF IInv, KeysCommitOnce
    <2>6. CASE version' = version + 1
      <3>1. version' - version = 1 /\ version' > version
        BY <2>3, <2>6
      <3>2. commits[ev.key] + (version' - version) = 1
        BY <2>5, <3>1
      <3>3. processed' = processed \cup {ev.key} /\ commits' = [commits EXCEPT ![ev.key] = 1]
        BY <2>1, <3>1, <3>2 DEF Kept
      <3>4. KeysCommitOnce'
        BY <2>1, <2>3, <3>3 DEF IInv, KeysCommitOnce
      <3>5. commits' \in [Keys -> Nat] /\ processed' \subseteq Keys
        BY <2>1, <2>3, <3>3
      <3>6. QED
        BY <2>4, <3>4, <3>5 DEF IInv, TypeOK
    <2>7. CASE version' = version
      <3>1. version' - version = 0 /\ ~(version' > version)
        BY <2>3, <2>7
      <3>2. commits[ev.key] + (version' - version) = 0
        BY <2>5, <3>1
      <3>3. processed' = processed /\ commits' = [commits EXCEPT ![ev.key] = 0]
        BY <2>1, <3>1, <3>2 DEF Kept
      <3>4. KeysCommitOnce'
        BY <2>1, <2>3, <2>5, <3>3 DEF IInv, KeysCommitOnce
      <3>5. commits' \in [Keys -> Nat] /\ processed' \subseteq Keys
        BY <2>1, <2>3, <3>3
      <3>6. QED
        BY <2>4, <3>4, <3>5 DEF IInv, TypeOK
    <2>8. QED
      BY <2>4, <2>6, <2>7
  <1>3. CASE UNCHANGED kernelVars
    BY <1>3 DEF kernelVars, IInv, TypeOK, VersionsNameContents, KeysCommitOnce
  <1>4. QED
    BY <1>1, <1>2, <1>3 DEF Next

---------------------------------------------------------------------------
(* What a state knows of its history *)

Worlds == [Entities -> Contents]

LEMMA KernelKnown ==
  ASSUME IInv
  PROVE  /\ version \in Nat /\ facts \in Worlds
         /\ past \in Seq(Worlds) /\ Len(past) = version + 1
         /\ facts = past[version + 1] /\ past[1] \in Worlds
  <1>1. /\ version \in Nat /\ facts \in Worlds
        /\ past \in Seq(Worlds) /\ Len(past) = version + 1
        /\ facts = past[version + 1]
    BY WorldStateKernelAssumption DEF IInv, TypeOK, VersionsNameContents, Worlds
  <1>2. 1 \in 1..Len(past)
    BY <1>1
  <1>3. QED
    BY <1>1, <1>2

\* Versions only grow, and what an old one stands for stays.
LEMMA HistoryStays ==
  ASSUME IInv, [Next]_kernelVars
  PROVE  /\ version' \in Nat /\ version <= version'
         /\ \A v \in 1..(version + 1) : past'[v] = past[v]
  <1>1. /\ version \in Nat /\ facts \in Worlds
        /\ past \in Seq(Worlds) /\ Len(past) = version + 1
    BY KernelKnown
  <1>2. ASSUME NEW e \in Entities \cup {Unknown}, NEW c \in Contents, Update(e, c)
        PROVE  /\ version' \in Nat /\ version <= version'
               /\ \A v \in 1..(version + 1) : past'[v] = past[v]
    <2>1. CASE UNCHANGED <<facts, version, past>>
      BY <1>1, <2>1
    <2>2. CASE Commit(e, c)
      <3>1. /\ version' = version + 1 /\ past' = Append(past, facts')
            /\ facts' = [facts EXCEPT ![e] = c]
        BY <2>2 DEF Commit, NextVersion
      <3>2. facts' \in Worlds
        BY <1>1, <3>1 DEF Worlds
      <3>3. QED
        BY <1>1, <3>1, <3>2
    <2>3. QED
      BY <1>2, <2>1, <2>2 DEF Update
  <1>3. CASE UNCHANGED kernelVars
    BY <1>1, <1>3 DEF kernelVars
  <1>4. ASSUME NEW e \in Entities \cup {Unknown}, NEW c \in Contents, Write(e, c)
        PROVE  /\ version' \in Nat /\ version <= version'
               /\ \A v \in 1..(version + 1) : past'[v] = past[v]
    BY <1>2, <1>4 DEF Write
  <1>5. ASSUME NEW ev \in Events, Apply(ev)
        PROVE  /\ version' \in Nat /\ version <= version'
               /\ \A v \in 1..(version + 1) : past'[v] = past[v]
    BY <1>2, <1>5 DEF Apply, Events
  <1>6. QED
    BY <1>3, <1>4, <1>5 DEF Next

---------------------------------------------------------------------------
(* The theorems *)

\* Every kernel operation keeps the kernel's variables in their types.
THEOREM KernelTypes == Spec => []TypeOK
  <1>1. IInv => TypeOK
    BY DEF IInv
  <1>2. QED
    BY <1>1, InitialState, KernelStep, PTL DEF Spec

\* A version never stands for two contents, and is never spent on a no-op.
THEOREM VersionsAreMeaningful == Spec => []VersionsNameContents
  <1>1. IInv => VersionsNameContents
    BY DEF IInv
  <1>2. QED
    BY <1>1, InitialState, KernelStep, PTL DEF Spec

\* At most one delivery of an event is committed, and only a commit uses its
\* key up.
THEOREM EventsCommitOnce == Spec => []KeysCommitOnce
  <1>1. IInv => KeysCommitOnce
    BY DEF IInv
  <1>2. QED
    BY <1>1, InitialState, KernelStep, PTL DEF Spec

---------------------------------------------------------------------------
(* Snapshots, sensor bridge, safety monitor *)

\* A copy that carries a version is the content of that version.
Copied(c) ==
  /\ c.version \in Nat /\ c.version <= version
  /\ c.facts = past[c.version + 1]

Taking == [step : {"idle", "copied", "stamped"}, version : Nat, facts : Worlds, at : Nat]
Snapshots == [version : Nat, facts : Worlds, at : Nat]

SnapshotInv ==
  /\ clock \in Nat
  /\ taking \in [Takers -> Taking]
  /\ \A t \in Takers : Copied(taking[t])
  /\ snapshots \in Seq(Snapshots)
  /\ \A i \in DOMAIN snapshots : Copied(snapshots[i])

BridgeInv ==
  /\ ingesting \in [Bridges -> [event : Events \cup {NoEvent}, previous : Nat]]
  /\ \A b \in Bridges : /\ ingesting[b].previous <= version
                        /\ ingesting[b] = NotIngesting \/ ingesting[b].event \in Events
  /\ reports \in [Bridges -> [changed : BOOLEAN, committed : BOOLEAN]]
  /\ CommitsAreReported

MonitorInv ==
  /\ \A m \in Monitors : applying[m] # NotApplying =>
       /\ monitorLock = m
       /\ applying[m].signal \in Signals /\ applying[m].content \in Contents
       /\ KeyOf(applying[m].signal) \notin signalKeys
       /\ applying[m].signal.person \in Entities
  /\ applications = [s \in Signals |-> IF KeyOf(s) \in signalKeys THEN 1 ELSE 0]
  /\ DOMAIN applying = Monitors

ObserversInv == IInv /\ SnapshotInv /\ BridgeInv /\ MonitorInv

---------------------------------------------------------------------------
(* Copies and the kernel *)

LEMMA CopyStays ==
  ASSUME IInv, [Next]_kernelVars, NEW c, Copied(c)
  PROVE  Copied(c)'
  <1>1. /\ version' \in Nat /\ version <= version' /\ version \in Nat
        /\ \A v \in 1..(version + 1) : past'[v] = past[v]
    BY HistoryStays, KernelKnown
  <1>2. c.version + 1 \in 1..(version + 1) /\ c.version <= version'
    BY <1>1 DEF Copied
  <1>3. QED
    BY <1>1, <1>2 DEF Copied

---------------------------------------------------------------------------
(* The initial state and what the kernel's steps leave alone *)

LEMMA ObserversStart == ObserversInit => ObserversInv
  <1> SUFFICES ASSUME ObserversInit
               PROVE  ObserversInv
    OBVIOUS
  <1>1. IInv
    BY InitialState DEF ObserversInit, Init
  <1>2. version = 0 /\ facts \in Worlds /\ past = <<facts>> /\ past[1] = facts
    BY KernelKnown, <1>1 DEF ObserversInit, KernelInit
  <1>3. /\ NotTaking \in Taking /\ Copied(NotTaking)
    BY <1>2 DEF NotTaking, Taking, Copied
  <1>4. SnapshotInv
    BY <1>3 DEF ObserversInit, SnapshotInv
  <1>5. BridgeInv
    BY <1>2 DEF ObserversInit, BridgeInv, NotIngesting, CommitsAreReported
  <1>6. MonitorInv
    BY DEF ObserversInit, MonitorInv
  <1>7. QED
    BY <1>1, <1>4, <1>5, <1>6 DEF ObserversInv

LEMMA SnapshotsStay ==
  ASSUME ObserversInv, [Next]_kernelVars, UNCHANGED snapshotVars
  PROVE  SnapshotInv'
  <1>1. UNCHANGED <<clock, taking, snapshots>>
    BY DEF snapshotVars
  <1>2. \A t \in Takers : Copied(taking[t])'
    BY <1>1, CopyStays DEF ObserversInv, SnapshotInv
  <1>3. \A i \in DOMAIN snapshots : Copied(snapshots[i])'
    BY <1>1, CopyStays DEF ObserversInv, SnapshotInv
  <1>4. QED
    BY <1>1, <1>2, <1>3 DEF ObserversInv, SnapshotInv

LEMMA BridgesStay ==
  ASSUME ObserversInv, [Next]_kernelVars, UNCHANGED bridgeVars
  PROVE  BridgeInv'
  <1>1. UNCHANGED <<ingesting, reports>>
    BY DEF bridgeVars
  <1>2. /\ ingesting \in [Bridges -> [event : Events \cup {NoEvent}, previous : Nat]]
        /\ \A b \in Bridges : ingesting[b].previous <= version
        /\ version \in Nat /\ version' \in Nat /\ version <= version'
    BY HistoryStays, KernelKnown DEF ObserversInv, BridgeInv
  <1>3. \A b \in Bridges : ingesting[b].previous <= version'
    BY <1>2
  <1>4. QED
    BY <1>1, <1>3 DEF ObserversInv, BridgeInv, CommitsAreReported, NotIngesting

LEMMA MonitorsStay ==
  ASSUME ObserversInv, UNCHANGED monitorVars
  PROVE  MonitorInv'
  <1>1. UNCHANGED <<monitorLock, applying, signalKeys, applications>>
    BY DEF monitorVars
  <1>2. QED
    BY <1>1 DEF ObserversInv, MonitorInv, NotApplying

---------------------------------------------------------------------------
(* The observers' steps *)

LEMMA TakerStep ==
  ASSUME ObserversInv, NEW t \in Takers, CopyState(t) \/ StampSnapshot(t) \/ Store(t)
  PROVE  [Next]_kernelVars /\ ObserversInv'
  <1>1. UNCHANGED <<kernelVars, bridgeVars, monitorVars>>
    BY DEF CopyState, StampSnapshot, Store
  <1>2. [Next]_kernelVars /\ IInv'
    BY <1>1, KernelStep DEF ObserversInv
  <1>3. BridgeInv' /\ MonitorInv'
    BY <1>1, <1>2, BridgesStay, MonitorsStay
  <1>4. /\ IInv /\ clock \in Nat /\ taking \in [Takers -> Taking] /\ snapshots \in Seq(Snapshots)
        /\ \A u \in Takers : Copied(taking[u])
        /\ \A i \in DOMAIN snapshots : Copied(snapshots[i])
    BY DEF ObserversInv, SnapshotInv
  <1>5. /\ version \in Nat /\ facts \in Worlds /\ facts = past[version + 1]
        /\ past[1] \in Worlds /\ UNCHANGED <<version, past, facts>>
    BY <1>1, <1>4, KernelKnown DEF kernelVars
  <1>6. \A c : Copied(c) => Copied(c)'
    BY <1>5 DEF Copied
  <1>7. CASE CopyState(t)
    <2> DEFINE copy == [step |-> "copied", version |-> version, facts |-> facts, at |-> 0]
    <2>1. /\ taking' = [taking EXCEPT ![t] = copy] /\ UNCHANGED <<clock, snapshots>>
      BY <1>7 DEF CopyState
    <2>2. copy \in Taking /\ Copied(copy)
      BY <1>5 DEF Taking, Copied
    <2> HIDE DEF copy
    <2>3. taking' \in [Takers -> Taking] /\ \A u \in Takers : Copied(taking'[u])
      BY <1>4, <2>1, <2>2
    <2>4. SnapshotInv'
      BY <1>4, <1>5, <1>6, <2>1, <2>3 DEF SnapshotInv, Copied
    <2>5. QED
      BY <1>2, <1>3, <2>4 DEF ObserversInv
  <1>8. CASE StampSnapshot(t)
    <2> DEFINE copy == [taking[t] EXCEPT !.step = "stamped", !.at = clock + 1]
    <2>1. /\ taking' = [taking EXCEPT ![t].step = "stamped", ![t].version = VersionCopied(t),
                                      ![t].at = clock + 1]
          /\ clock' = clock + 1 /\ UNCHANGED snapshots
      BY <1>8 DEF StampSnapshot
    <2>2. taking' = [taking EXCEPT ![t] = copy]
      BY <1>4, <2>1 DEF VersionCopied, Taking
    <2>3. copy \in Taking /\ Copied(copy)
      <3>1. taking[t] \in Taking /\ Copied(taking[t])
        BY <1>4
      <3>2. /\ copy \in Taking /\ copy.version = taking[t].version
            /\ copy.facts = taking[t].facts
        <4>1. \A c \in Taking : \A n \in Nat :
                /\ [c EXCEPT !.step = "stamped", !.at = n] \in Taking
                /\ [c EXCEPT !.step = "stamped", !.at = n].version = c.version
                /\ [c EXCEPT !.step = "stamped", !.at = n].facts = c.facts
          BY DEF Taking
        <4>2. clock + 1 \in Nat
          BY <1>4
        <4>3. QED
          BY <3>1, <4>1, <4>2
      <3> HIDE DEF copy
      <3>3. QED
        BY <3>1, <3>2 DEF Copied
    <2> HIDE DEF copy
    <2>4. taking' \in [Takers -> Taking] /\ \A u \in Takers : Copied(taking'[u])
      BY <1>4, <2>2, <2>3
    <2>5. SnapshotInv'
      BY <1>4, <1>5, <1>6, <2>1, <2>4 DEF SnapshotInv, Copied
    <2>6. QED
      BY <1>2, <1>3, <2>5 DEF ObserversInv
  <1>9. CASE Store(t)
    <2> DEFINE stored == [version |-> taking[t].version, facts |-> taking[t].facts,
                          at |-> taking[t].at]
    <2>1. /\ snapshots' = Append(snapshots, stored) /\ UNCHANGED clock
          /\ taking' = [taking EXCEPT ![t] = NotTaking]
      BY <1>9 DEF Store
    <2>2. stored \in Snapshots /\ Copied(stored)
      BY <1>4 DEF Taking, Snapshots, Copied
    <2>3. NotTaking \in Taking /\ Copied(NotTaking)
      <3>1. NotTaking \in Taking
        BY <1>5 DEF NotTaking, Taking
      <3>2. 0 <= version
        BY <1>5
      <3>3. QED
        BY <3>1, <3>2 DEF NotTaking, Copied
    <2> HIDE DEF stored
    <2>4. taking' \in [Takers -> Taking] /\ \A u \in Takers : Copied(taking'[u])
      BY <1>4, <2>1, <2>3
    <2>5. /\ snapshots' \in Seq(Snapshots)
          /\ \A i \in DOMAIN snapshots' : Copied(snapshots'[i])
      <3>1. /\ snapshots' \in Seq(Snapshots) /\ DOMAIN snapshots' = 1..(Len(snapshots) + 1)
            /\ snapshots'[Len(snapshots) + 1] = stored
            /\ \A i \in 1..Len(snapshots) : snapshots'[i] = snapshots[i]
            /\ DOMAIN snapshots = 1..Len(snapshots) /\ Len(snapshots) \in Nat
        BY <1>4, <2>1, <2>2
      <3>2. QED
        BY <1>4, <2>2, <3>1
    <2>6. SnapshotInv'
      BY <1>4, <1>5, <1>6, <2>1, <2>4, <2>5 DEF SnapshotInv, Copied
    <2>7. QED
      BY <1>2, <1>3, <2>6 DEF ObserversInv
  <1>10. QED
    BY <1>7, <1>8, <1>9

LEMMA BridgeStep ==
  ASSUME ObserversInv, NEW b \in Bridges, ReadPrevious(b) \/ Ingest(b)
  PROVE  [Next]_kernelVars /\ ObserversInv'
  <1>1. /\ IInv /\ version \in Nat
        /\ ingesting \in [Bridges -> [event : Events \cup {NoEvent}, previous : Nat]]
        /\ \A c \in Bridges : /\ ingesting[c].previous <= version
                              /\ ingesting[c] = NotIngesting \/ ingesting[c].event \in Events
        /\ reports \in [Bridges -> [changed : BOOLEAN, committed : BOOLEAN]]
        /\ \A c \in Bridges : reports[c].committed => reports[c].changed
    BY KernelKnown DEF ObserversInv, BridgeInv, CommitsAreReported
  <1>2. UNCHANGED <<snapshotVars, monitorVars>>
    BY DEF ReadPrevious, Ingest
  <1>3. CASE ReadPrevious(b)
    <2>1. UNCHANGED <<kernelVars, reports>>
      BY <1>3 DEF ReadPrevious
    <2>2. PICK ev \in Events :
            ingesting' = [ingesting EXCEPT ![b] = [event |-> ev, previous |-> version]]
      BY <1>3 DEF ReadPrevious
    <2>3. [Next]_kernelVars /\ IInv' /\ version' = version
      BY <1>1, <2>1, KernelStep DEF kernelVars
    <2>4. BridgeInv'
      BY <1>1, <2>1, <2>2, <2>3 DEF BridgeInv, CommitsAreReported, NotIngesting
    <2>5. QED
      BY <1>2, <2>3, <2>4, SnapshotsStay, MonitorsStay DEF ObserversInv
  <1>4. CASE Ingest(b)
    <2> DEFINE ev == ingesting[b].event
    <2>1. /\ ev \in Events /\ ingesting' = [ingesting EXCEPT ![b] = NotIngesting]
          /\ \/ /\ Apply(ev)
                /\ reports' = IF ev.entity \notin Entities THEN reports
                              ELSE [reports EXCEPT ![b] = [changed |-> version' > Previous(b),
                                                           committed |-> version' > version]]
             \/ UNCHANGED <<kernelVars, reports>>
      BY <1>1, <1>4 DEF Ingest
    <2>2. [Next]_kernelVars
      BY <2>1 DEF Next
    <2>3. IInv' /\ version' \in Nat /\ version <= version'
      BY <1>1, <2>2, KernelStep, HistoryStays
    <2>4. /\ reports' \in [Bridges -> [changed : BOOLEAN, committed : BOOLEAN]]
          /\ \A c \in Bridges : reports'[c].committed => reports'[c].changed
      <3>1. CASE reports' = reports
        BY <1>1, <3>1
      <3>2. CASE reports' = [reports EXCEPT ![b] = [changed |-> version' > Previous(b),
                                                    committed |-> version' > version]]
        <4>1. version' > version => version' > Previous(b)
          BY <1>1, <2>3 DEF Previous
        <4>2. /\ (version' > Previous(b)) \in BOOLEAN
              /\ (version' > version) \in BOOLEAN
          OBVIOUS
        <4>3. QED
          BY <1>1, <3>2, <4>1, <4>2
      <3>3. QED
        BY <2>1, <3>1, <3>2
    <2>5. /\ ingesting' \in [Bridges -> [event : Events \cup {NoEvent}, previous : Nat]]
          /\ \A c \in Bridges :
               /\ ingesting'[c].previous <= version'
               /\ ingesting'[c] = NotIngesting \/ ingesting'[c].event \in Events
      BY <1>1, <2>1, <2>3 DEF NotIngesting
    <2>6. BridgeInv'
      BY <2>4, <2>5 DEF BridgeInv, CommitsAreReported, NotIngesting
    <2>7. QED
      BY <1>2, <2>2, <2>3, <2>6, SnapshotsStay, MonitorsStay DEF ObserversInv
  <1>5. QED
    BY <1>3, <1>4

LEMMA MonitorStep ==
  ASSUME ObserversInv, NEW m \in Monitors, ReadPerson(m) \/ WritePerson(m)
  PROVE  [Next]_kernelVars /\ ObserversInv'
  <1>1. /\ IInv /\ facts \in Worlds /\ DOMAIN applying = Monitors
        /\ \A n \in Monitors : applying[n] # NotApplying =>
             /\ monitorLock = n
             /\ applying[n].signal \in Signals /\ applying[n].content \in Contents
             /\ KeyOf(applying[n].signal) \notin signalKeys
             /\ applying[n].signal.person \in Entities
        /\ applications = [s \in Signals |-> IF KeyOf(s) \in signalKeys THEN 1 ELSE 0]
    BY KernelKnown DEF ObserversInv, MonitorInv
  <1>2. UNCHANGED <<snapshotVars, bridgeVars>>
    BY DEF ReadPerson, WritePerson
  <1>3. CASE ReadPerson(m)
    <2>1. UNCHANGED <<kernelVars, signalKeys, applications>> /\ monitorLock' = m
          /\ monitorLock = NoThread
      BY <1>3 DEF ReadPerson
    <2>2. PICK s \in Signals :
            /\ KeyOf(s) \notin signalKeys /\ s.person \in Entities
            /\ applying' = [applying EXCEPT ![m] = [signal |-> s, content |-> NewContent(s)]]
      BY <1>3 DEF ReadPerson
    <2>3. NewContent(s) \in Contents
      <3>1. facts[s.person] \in Contents
        BY <1>1, <2>2 DEF Worlds
      <3>2. QED
        BY <3>1, WorldObserversAssumption DEF NewContent
    <2>4. \A n \in Monitors : n # m => applying'[n] = NotApplying
      BY <1>1, <2>1, <2>2, WorldObserversAssumption
    <2>5. MonitorInv'
      BY <1>1, <2>1, <2>2, <2>3, <2>4 DEF MonitorInv, NotApplying
    <2>6. [Next]_kernelVars /\ IInv'
      BY <1>1, <2>1, KernelStep
    <2>7. QED
      BY <1>2, <2>5, <2>6, SnapshotsStay, BridgesStay DEF ObserversInv
  <1>4. CASE WritePerson(m)
    <2> DEFINE s == applying[m].signal
    <2>1. /\ Write(s.person, applying[m].content)
          /\ signalKeys' = signalKeys \cup {KeyOf(s)}
          /\ applications' = [applications EXCEPT ![s] = @ + 1]
          /\ applying' = [applying EXCEPT ![m] = NotApplying] /\ monitorLock' = NoThread
      BY <1>4 DEF WritePerson
    <2>2. /\ s \in Signals /\ applying[m].content \in Contents /\ s.person \in Entities
          /\ KeyOf(s) \notin signalKeys /\ monitorLock = m
      BY <1>1, <1>4 DEF WritePerson
    <2> HIDE DEF s
    <2>3. [Next]_kernelVars /\ IInv'
      BY <1>1, <2>1, <2>2, KernelStep DEF Next
    <2>4. \A n \in Monitors : applying'[n] = NotApplying
      BY <1>1, <2>1, <2>2
    <2>5. \A r \in Signals : KeyOf(r) = KeyOf(s) <=> r = s
      BY <2>2 DEF KeyOf, Signals
    <2>6. applications' = [r \in Signals |-> IF KeyOf(r) \in signalKeys' THEN 1 ELSE 0]
      BY <1>1, <2>1, <2>2, <2>5
    <2>7. MonitorInv'
      BY <1>1, <2>1, <2>4, <2>6 DEF MonitorInv, NotApplying
    <2>8. QED
      BY <1>2, <2>3, <2>7, SnapshotsStay, BridgesStay DEF ObserversInv
  <1>5. QED
    BY <1>3, <1>4

LEMMA ObserversStep == ObserversInv /\ [ObserversNext]_worldVars => [Next]_kernelVars /\ ObserversInv'
  <1> SUFFICES ASSUME ObserversInv, [ObserversNext]_worldVars
               PROVE  [Next]_kernelVars /\ ObserversInv'
    OBVIOUS
  <1>1. ASSUME NEW t \in Takers, CopyState(t) \/ StampSnapshot(t) \/ Store(t)
        PROVE  [Next]_kernelVars /\ ObserversInv'
    BY <1>1, TakerStep
  <1>2. ASSUME NEW b \in Bridges, ReadPrevious(b) \/ Ingest(b)
        PROVE  [Next]_kernelVars /\ ObserversInv'
    BY <1>2, BridgeStep
  <1>3. ASSUME NEW m \in Monitors, ReadPerson(m) \/ WritePerson(m)
        PROVE  [Next]_kernelVars /\ ObserversInv'
    BY <1>3, MonitorStep
  <1>4. CASE OtherWriter \/ UNCHANGED worldVars
    <2>1. [Next]_kernelVars /\ UNCHANGED <<snapshotVars, bridgeVars, monitorVars>>
      BY <1>4 DEF OtherWriter, observerVars, worldVars, Next
    <2>2. QED
      BY <2>1, KernelStep, SnapshotsStay, BridgesStay, MonitorsStay DEF ObserversInv
  <1>5. QED
    BY <1>1, <1>2, <1>3, <1>4 DEF ObserversNext

\* The inductive invariant of snapshots, sensor bridge and safety monitor.
THEOREM ObserversInvariant == ObserversSpec => []ObserversInv
  <1>1. QED
    BY ObserversStart, ObserversStep, PTL DEF ObserversSpec

---------------------------------------------------------------------------
(* The theorems *)

\* Snapshots, the sensor bridge and the safety monitor do to the world only
\* what the kernel allows, each step one of its operations or none.
THEOREM ObserversImplementKernel == ObserversSpec => Spec
  <1>1. ObserversInit => Init
    BY DEF ObserversInit, Init
  <1>2. QED
    BY <1>1, ObserversInvariant, ObserversStep, PTL DEF ObserversSpec, Spec

\* A stored snapshot is the content of the version it carries.
THEOREM SnapshotsAreVersions == ObserversSpec => []SnapshotIsOneVersion
  <1>1. ObserversInv => SnapshotIsOneVersion
    BY DEF ObserversInv, SnapshotInv, SnapshotIsOneVersion, Copied
  <1>2. QED
    BY <1>1, ObserversInvariant, PTL

\* The sensor bridge never says "unchanged" of a message that was committed.
THEOREM CommitsAreSeen == ObserversSpec => []CommitsAreReported
  <1>1. ObserversInv => CommitsAreReported
    BY DEF ObserversInv, BridgeInv
  <1>2. QED
    BY <1>1, ObserversInvariant, PTL

\* A person-safety signal is applied at most once.
THEOREM SignalsCountOnce == ObserversSpec => []SignalsApplyOnce
  <1>1. ObserversInv => SignalsApplyOnce
    BY DEF ObserversInv, MonitorInv, SignalsApplyOnce
  <1>2. QED
    BY <1>1, ObserversInvariant, PTL

=============================================================================
