------------------------ MODULE ProposalBoardProofs ------------------------
(***************************************************************************)
(* Proofs about ProposalBoard, for every set of ids and roles and every    *)
(* value of the bounds.                                                    *)
(***************************************************************************)
EXTENDS ProposalBoard, FiniteSetTheorems, TLAPS

\* Versions and the clock only grow, and one org version has one mode.
NoLater(m, n) ==
  /\ m.world <= n.world /\ m.org <= n.org /\ m.time <= n.time
  /\ m.org = n.org => m.mode = n.mode

\* No stored proposal is ahead of the runtime it was planned for.
Planned(p, m) == p.world <= m.world /\ p.org <= m.org

StoredArePlanned == \A id \in ProposalIds : Planned(entries[id].proposal, moment)

\* Inside a call: everything stored was planned before the world read.
CallIsPlanned ==
  call.step # "idle" =>
    /\ NoLater(call.began, moment)
    /\ \A id \in ProposalIds : Planned(entries[id].proposal, call.began)
    /\ Planned(call.proposal, call.began)

\* The three reads happen in order, none before the call began.
ReadsAreOrdered ==
  /\ call.step # "idle" =>
       call.kind \in {"submit", "validate", "sweep"} /\ call.read.world = call.began.world
  /\ call.step \notin {"idle", "organization"} =>
       /\ call.began.org <= call.read.org /\ call.read.org <= moment.org
       /\ call.began.org = call.read.org => call.began.mode = call.read.mode
       /\ call.read.org = moment.org => call.read.mode = moment.mode
  /\ call.step \in {"sweep", "append", "publish"} =>
       call.began.time <= call.read.time /\ call.read.time <= moment.time

\* What a call is about to record or publish follows from what it read.
DecisionFollowsReads ==
  /\ call.step # "idle" /\ call.kind = "validate" =>
       call.proposal = entries[call.id].proposal
  /\ call.step \in {"append", "publish"} =>
       /\ call.code # "DUPLICATE_PROPOSAL" => call.code = StaleCode(call.proposal, call.read)
       /\ call.kind # "submit" =>
            /\ call.code \in StaleCodes
            /\ entries[call.id].status = "ACCEPTED"
            /\ call.proposal = entries[call.id].proposal

\* What is about to be published is the last thing the ledger acknowledged.
PublishesLastRecord ==
  call.step = "publish" => Len(ledger) > 0 /\ ledger[Len(ledger)] = Record(TRUE)

IInv ==
  /\ TypeOK
  /\ StoredArePlanned
  /\ CallIsPlanned
  /\ ReadsAreOrdered
  /\ DecisionFollowsReads
  /\ PublishesLastRecord
  /\ AcceptedWasCurrent
  /\ TerminalStaysUnusable
  /\ PublishedIsAudited

---------------------------------------------------------------------------
(* Facts about the values *)

LEMMA ValueTypes ==
  /\ StartMoment \in Moment
  /\ Blank \in Proposal
  /\ Idle \in Activation
  /\ \A p \in Proposal, m \in Moment : StaleCode(p, m) \in StaleCodes \cup {"NONE"}
  <1>1. StartMoment \in Moment
    BY DEF StartMoment, Moment, Modes
  <1>2. Blank \in Proposal
    BY ProposalBoardAssumption DEF Blank, Proposal
  <1>3. Idle \in Activation
    BY <1>1, <1>2 DEF Idle, Activation, Steps, Codes
  <1>4. ASSUME NEW p \in Proposal, NEW m \in Moment
        PROVE  StaleCode(p, m) \in StaleCodes \cup {"NONE"}
    BY DEF StaleCode, StaleCodes
  <1>5. QED
    BY <1>1, <1>2, <1>3, <1>4

\* What StaleCode answers: "NONE" exactly when every check holds.
LEMMA StaleCodeIsCurrent ==
  ASSUME NEW p \in Proposal, NEW m \in Moment
  PROVE  StaleCode(p, m) = "NONE" <=> Current(p, m)
  BY DEF StaleCode, Current, Proposal, Moment

---------------------------------------------------------------------------
(* Type correctness *)

LEMMA NextCursorType == \A c \in Nat : NextCursor(c) \in Nat
  BY DEF NextCursor

LEMMA TypeInit == Init => TypeOK
  <1> SUFFICES ASSUME Init PROVE TypeOK
    OBVIOUS
  <1>1. entries \in [ProposalIds -> [status : Statuses, proposal : Proposal]]
    BY ValueTypes DEF Init, Statuses
  <1>2. seen \in Seq(ProposalIds) /\ rejections \in Seq(ProposalIds \X Codes)
        /\ ledger \in Seq(Records)
    BY DEF Init
  <1>3. QED
    BY <1>1, <1>2, ValueTypes DEF Init, TypeOK, Idle

LEMMA TypeStep == TypeOK /\ [Next]_vars => TypeOK'
  <1> SUFFICES ASSUME TypeOK, [Next]_vars PROVE TypeOK'
    OBVIOUS
  <1> USE ValueTypes
  <1>1. ASSUME NEW id \in ProposalIds, Submit(id) PROVE TypeOK'
    <2>1. PICK p \in Plannable : Begin("submit", id, p)
      BY <1>1 DEF Submit
    <2>2. p \in Proposal
      <3>1. moment.world \in Nat /\ moment.org \in Nat /\ MaxTime + 1 \in Nat
        BY ProposalBoardAssumption DEF TypeOK, Moment
      <3>2. /\ 0..moment.world \subseteq Nat /\ 1..moment.org \subseteq Nat \ {0}
            /\ 1..(MaxTime + 1) \subseteq Nat
        BY <3>1
      <3>3. QED
        BY <2>1, <3>2 DEF Plannable, Proposal
    <2>3. call' \in Activation
      BY <2>1, <2>2 DEF Begin, Idle, Activation, TypeOK, Moment, Steps
    <2>4. QED
      BY <2>1, <2>3 DEF Begin, TypeOK
  <1>2. ASSUME NEW id \in ProposalIds, ValidateForUse(id) PROVE TypeOK'
    <2>1. entries[id].proposal \in Proposal
      BY DEF TypeOK
    <2>2. call' \in Activation
      BY <1>2, <2>1 DEF ValidateForUse, Begin, Idle, Activation, TypeOK, Moment, Steps
    <2>3. QED
      BY <1>2, <2>2 DEF ValidateForUse, Begin, TypeOK
  <1>3. CASE InvalidateStale
    <2>1. call' \in Activation
      BY <1>3 DEF InvalidateStale, Begin, Idle, Activation, TypeOK, Moment, Steps
    <2>2. QED
      BY <1>3, <2>1 DEF InvalidateStale, Begin, TypeOK
  <1>4. CASE ReadOrganization
    <2>1. call' \in Activation
      BY <1>4 DEF ReadOrganization, Activation, TypeOK, Moment, Steps
    <2>2. QED
      BY <1>4, <2>1 DEF ReadOrganization, TypeOK
  <1>5. CASE ReadClock
    <2> DEFINE m == [call.read EXCEPT !.time = moment.time]
    <2>1. m \in Moment /\ call.proposal \in Proposal /\ call.began \in Moment
      BY DEF TypeOK, Activation, Moment
    <2>2. StaleCode(call.proposal, m) \in StaleCodes \cup {"NONE"}
      BY <2>1
    <2> HIDE DEF m
    <2>3. DecideAdmission(m) \/ DecideUse(m) \/ StartSweep(m)
      BY <1>5 DEF ReadClock, m
    <2>4. call' \in Activation /\ vouched' \in [ProposalIds -> Moment]
      <3>1. CASE DecideAdmission(m)
        BY <2>1, <2>2, <3>1
        DEF DecideAdmission, AdmissionCode, Activation, TypeOK, Steps, Codes
      <3>2. CASE DecideUse(m)
        BY <2>1, <2>2, <3>2 DEF DecideUse, Activation, TypeOK, Steps, Codes
      <3>3. CASE StartSweep(m)
        BY <2>1, <3>3 DEF StartSweep, Activation, TypeOK, Steps
      <3>4. QED
        BY <2>3, <3>1, <3>2, <3>3
    <2>5. QED
      <3>1. call.kind = "submit" \/ call.kind = "validate" \/ call'.step \notin {"append", "publish"}
        BY <2>3, <2>1 DEF DecideAdmission, DecideUse, StartSweep, TypeOK, Activation
      <3>2. \/ call' = Idle
            \/ call'.kind = call.kind /\ call'.id = call.id
        BY <2>3 DEF DecideAdmission, DecideUse, StartSweep, TypeOK, Activation
      <3>3. QED
        BY <1>5, <2>4, <3>1, <3>2 DEF ReadClock, TypeOK, Idle
  <1>6. CASE SweepEntry
    <2>1. call' \in Activation
      <3> DEFINE id == seen[call.cursor]
                 p == entries[id].proposal
      <3>1. id \in ProposalIds /\ p \in Proposal /\ call.read \in Moment
        BY <1>6 DEF SweepEntry, TypeOK, Activation
      <3>2. StaleCode(p, call.read) \in StaleCodes \cup {"NONE"}
        BY <3>1
      <3> HIDE DEF id, p
      <3>3. \/ call' = [call EXCEPT !.cursor = NextCursor(@)]
            \/ call' = [call EXCEPT !.step = "append", !.id = id, !.proposal = p,
                                    !.code = StaleCode(p, call.read)]
        BY <1>6 DEF SweepEntry, id, p
      <3>4. CASE call' = [call EXCEPT !.cursor = NextCursor(@)]
        BY <3>4, NextCursorType DEF Activation, TypeOK
      <3>5. CASE call' = [call EXCEPT !.step = "append", !.id = id, !.proposal = p,
                                     !.code = StaleCode(p, call.read)]
        BY <3>1, <3>2, <3>5 DEF Activation, TypeOK, Steps, Codes
      <3>6. QED
        BY <3>3, <3>4, <3>5
    <2>2. \/ call'.id = call.id /\ call'.kind = call.kind /\ call'.step = call.step
          \/ call'.id \in ProposalIds
      <3>1. call \in Activation /\ seen[call.cursor] \in ProposalIds
        BY <1>6 DEF SweepEntry, TypeOK
      <3>2. QED
        BY <1>6, <3>1 DEF SweepEntry, Activation
    <2>3. QED
      BY <1>6, <2>1, <2>2 DEF SweepEntry, TypeOK
  <1>7. CASE SweepReturns
    BY <1>7 DEF SweepReturns, TypeOK, Idle
  <1>8. CASE AppendAudit
    <2>1. call' \in Activation
      BY <1>8 DEF AppendAudit, AfterFailedAppend, TypeOK, Activation, Steps
    <2>2. ledger' \in Seq(Records)
      <3>1. CASE UNCHANGED ledger
        BY <3>1 DEF TypeOK
      <3>2. ASSUME NEW acked \in BOOLEAN, ledger' = Append(ledger, Record(acked))
            PROVE  ledger' \in Seq(Records)
        <4>1. call.id \in ProposalIds
          BY <1>8 DEF AppendAudit, TypeOK
        <4>2. Record(acked) \in Records
          BY <4>1 DEF Record, RecordType, Records, TypeOK, Activation
        <4>3. QED
          BY <3>2, <4>2 DEF TypeOK
      <3>3. QED
        BY <1>8, <3>1, <3>2 DEF AppendAudit
    <2>3. QED
      <3>1. call' = Idle \/ call'.id = call.id
        BY <1>8 DEF AppendAudit, AfterFailedAppend, TypeOK, Activation
      <3>2. QED
        BY <1>8, <2>1, <2>2, <3>1 DEF AppendAudit, Idle, TypeOK
  <1>9. CASE PublishDuplicate
    BY <1>9 DEF PublishDuplicate, TypeOK, Idle, Activation
  <1>10. CASE PublishAdmission
    <2>1. call.id \in ProposalIds /\ call.proposal \in Proposal /\ call.began \in Moment
          /\ call.code \in Codes
      BY <1>10 DEF PublishAdmission, TypeOK, Activation
    <2>2. entries' \in [ProposalIds -> [status : Statuses, proposal : Proposal]]
      BY <1>10, <2>1 DEF PublishAdmission, TypeOK, Statuses, Terminal
    <2>3. rejections' \in Seq(ProposalIds \X Codes) /\ seen' \in Seq(ProposalIds)
      BY <1>10, <2>1 DEF PublishAdmission, TypeOK
    <2>4. vouched' \in [ProposalIds -> Moment]
      BY <1>10, <2>1 DEF PublishAdmission, TypeOK
    <2>5. QED
      BY <1>10, <2>2, <2>3, <2>4 DEF PublishAdmission, TypeOK, Idle
  <1>11. CASE PublishRetirement
    <2>1. entries' \in [ProposalIds -> [status : Statuses, proposal : Proposal]]
      BY <1>11 DEF PublishRetirement, RetiredStatus, TypeOK, Statuses, Terminal
    <2>2. call' \in Activation
      <3>1. call \in Activation /\ "sweep" \in Steps
        BY DEF TypeOK, Steps
      <3>2. \/ call' = Idle
            \/ call' = [call EXCEPT !.step = "sweep", !.cursor = NextCursor(@)]
        BY <1>11 DEF PublishRetirement
      <3>3. QED
        BY <3>1, <3>2, NextCursorType DEF Activation
    <2>3. call' = Idle \/ (call'.kind = "sweep" /\ call'.step = "sweep")
      BY <1>11 DEF PublishRetirement, TypeOK, Activation
    <2>4. QED
      BY <1>11, <2>1, <2>2, <2>3 DEF PublishRetirement, TypeOK, Idle
  <1>12. CASE CommitWorld
    <2>1. moment' \in Moment
      <3>1. moment \in Moment /\ moment.world + 1 \in Nat
        BY DEF TypeOK, Moment
      <3>2. QED
        BY <1>12, <3>1 DEF CommitWorld, Moment
    <2>2. QED
      BY <1>12, <2>1 DEF CommitWorld, boardVars, TypeOK
  <1>13. ASSUME NEW m \in Modes, TransitionMode(m) PROVE TypeOK'
    <2>1. moment' \in Moment
      <3>1. moment \in Moment /\ moment.org + 1 \in Nat \ {0}
        BY DEF TypeOK, Moment
      <3>2. QED
        BY <1>13, <3>1 DEF TransitionMode, Moment
    <2>2. QED
      BY <1>13, <2>1 DEF TransitionMode, boardVars, TypeOK
  <1>14. CASE Tick
    <2>1. moment' \in Moment
      <3>1. moment \in Moment /\ moment.time + 1 \in Nat
        BY DEF TypeOK, Moment
      <3>2. QED
        BY <1>14, <3>1 DEF Tick, Moment
    <2>2. QED
      BY <1>14, <2>1 DEF Tick, boardVars, TypeOK
  <1>15. CASE UNCHANGED vars
    BY <1>15 DEF vars, boardVars, TypeOK
  <1>16. QED
    BY <1>1, <1>2, <1>3, <1>4, <1>5, <1>6, <1>7, <1>8, <1>9, <1>10, <1>11, <1>12, <1>13,
       <1>14, <1>15
    DEF Next, Proceed

\* Every step of the board keeps every variable in its type.
THEOREM TypeCorrect == Spec => []TypeOK
  BY TypeInit, TypeStep, PTL DEF Spec

---------------------------------------------------------------------------
(* Time and versions *)

LEMMA NoLaterTransitive ==
  ASSUME NEW a \in Moment, NEW b \in Moment, NEW c \in Moment,
         NoLater(a, b), NoLater(b, c)
  PROVE  NoLater(a, c)
  BY DEF NoLater, Moment

LEMMA NoLaterReflexive == ASSUME NEW a \in Moment PROVE NoLater(a, a)
  BY DEF NoLater, Moment

LEMMA PlannedStays ==
  ASSUME NEW p \in Proposal, NEW a \in Moment, NEW b \in Moment,
         Planned(p, a), NoLater(a, b)
  PROVE  Planned(p, b)
  BY DEF NoLater, Planned, Moment, Proposal

Elsewhere == CommitWorld \/ (\E m \in Modes : TransitionMode(m)) \/ Tick

\* The board reads versions and the clock; only the rest of the runtime moves
\* them, and only forward.
LEMMA MomentAdvances ==
  ASSUME TypeOK, [Next]_vars
  PROVE  /\ moment' \in Moment /\ NoLater(moment, moment')
         /\ Elsewhere => UNCHANGED boardVars
         /\ ~Elsewhere => moment' = moment
  <1>1. moment \in Moment /\ moment' \in Moment
    BY TypeStep DEF TypeOK
  <1>2. CASE CommitWorld
    BY <1>1, <1>2 DEF CommitWorld, NoLater, Moment, Elsewhere
  <1>3. ASSUME NEW m \in Modes, TransitionMode(m)
        PROVE  NoLater(moment, moment') /\ UNCHANGED boardVars /\ Elsewhere
    <2>1. moment'.world = moment.world /\ moment'.time = moment.time
          /\ moment'.org = moment.org + 1
      BY <1>1, <1>3 DEF TransitionMode, Moment
    <2>2. NoLater(moment, moment')
      BY <1>1, <2>1 DEF NoLater, Moment
    <2>3. QED
      BY <1>3, <2>2 DEF TransitionMode, Elsewhere
  <1>4. CASE Tick
    BY <1>1, <1>4 DEF Tick, NoLater, Moment, Elsewhere
  <1>5. CASE ~Elsewhere
    <2>1. moment' = moment
      BY <1>5 DEF Next, Proceed, Elsewhere, Submit, ValidateForUse, InvalidateStale, Begin,
         ReadOrganization, ReadClock, SweepEntry, SweepReturns, AppendAudit,
         PublishDuplicate, PublishAdmission, PublishRetirement, vars
    <2>2. QED
      BY <1>1, <1>5, <2>1, NoLaterReflexive
  <1>6. QED
    BY <1>1, <1>2, <1>3, <1>4, <1>5 DEF Elsewhere

---------------------------------------------------------------------------
(* The reads of a call *)

\* Where the variables of a call in progress come from.
Reads == StoredArePlanned /\ CallIsPlanned /\ ReadsAreOrdered

LEMMA ReadsInit == Init => Reads
  BY DEF Init, Reads, StoredArePlanned, CallIsPlanned, ReadsAreOrdered, Planned, Blank, Idle,
     StartMoment

LEMMA ReadsElsewhere == TypeOK /\ Reads /\ [Next]_vars /\ Elsewhere => Reads'
  <1> SUFFICES ASSUME TypeOK, Reads, [Next]_vars, Elsewhere PROVE Reads'
    OBVIOUS
  <1>1. /\ moment \in Moment /\ moment' \in Moment /\ NoLater(moment, moment')
        /\ entries' = entries /\ call' = call
    BY MomentAdvances DEF boardVars, TypeOK
  <1>2. call.began \in Moment /\ call.read \in Moment
    BY DEF TypeOK, Activation
  <1>3. StoredArePlanned'
    <2>1. \A id \in ProposalIds : entries[id].proposal \in Proposal
      BY DEF TypeOK
    <2>2. QED
      BY <1>1, <2>1, PlannedStays DEF Reads, StoredArePlanned
  <1>4. CallIsPlanned'
    BY <1>1, <1>2, NoLaterTransitive DEF Reads, CallIsPlanned
  <1>5. ReadsAreOrdered'
    BY <1>1, <1>2 DEF Reads, ReadsAreOrdered, NoLater, Moment
  <1>6. QED
    BY <1>3, <1>4, <1>5 DEF Reads

LEMMA BeginReads ==
  ASSUME TypeOK, Reads, [Next]_vars,
         NEW kind \in {"submit", "validate", "sweep"}, NEW id, NEW p \in Proposal,
         Begin(kind, id, p), Planned(p, moment)
  PROVE  Reads'
  <1>1. /\ moment \in Moment /\ moment' = moment /\ entries' = entries
        /\ call' = [Idle EXCEPT !.kind = kind, !.step = "organization", !.id = id,
                                !.proposal = p, !.began = moment,
                                !.read.world = moment.world]
    BY DEF Begin, TypeOK
  <1>2. /\ call'.kind = kind /\ call'.step = "organization" /\ call'.proposal = p
        /\ call'.began = moment /\ call'.read.world = moment.world
    BY <1>1 DEF Idle, StartMoment
  <1>3. NoLater(moment, moment)
    BY <1>1, NoLaterReflexive
  <1>4. StoredArePlanned' /\ CallIsPlanned'
    BY <1>1, <1>2, <1>3 DEF Reads, StoredArePlanned, CallIsPlanned
  <1>5. ReadsAreOrdered'
    BY <1>1, <1>2 DEF ReadsAreOrdered
  <1>6. QED
    BY <1>4, <1>5 DEF Reads

\* A step inside a call that keeps the values planned and read so far.
LEMMA KeepsReads ==
  ASSUME TypeOK, Reads, moment' = moment, call.step # "idle",
         \A id \in ProposalIds : entries'[id].proposal = entries[id].proposal,
         \/ call' = Idle
         \/ /\ call'.kind = call.kind /\ call'.began = call.began
            /\ call'.read = call.read /\ Planned(call'.proposal, call.began)
            /\ call'.step \in {"sweep", "append", "publish"}
            /\ call.step \in {"sweep", "append", "publish"}
  PROVE  Reads'
  <1>1. StoredArePlanned'
    BY DEF Reads, StoredArePlanned
  <1>2. CallIsPlanned'
    BY DEF Reads, CallIsPlanned, Idle
  <1>3. ReadsAreOrdered'
    BY DEF Reads, ReadsAreOrdered, Idle
  <1>4. QED
    BY <1>1, <1>2, <1>3 DEF Reads

LEMMA ReadsStep == TypeOK /\ Reads /\ [Next]_vars => Reads'
  <1> SUFFICES ASSUME TypeOK, Reads, [Next]_vars PROVE Reads'
    OBVIOUS
  <1>1. /\ moment \in Moment
        /\ call.began \in Moment /\ call.read \in Moment /\ call.proposal \in Proposal
        /\ \A id \in ProposalIds : entries[id].proposal \in Proposal
    BY DEF TypeOK, Activation
  <1>2. CASE Elsewhere
    BY <1>2, ReadsElsewhere
  <1>3. ASSUME NEW id \in ProposalIds, Submit(id) PROVE Reads'
    <2>1. PICK p \in Plannable : Begin("submit", id, p)
      BY <1>3 DEF Submit
    <2>2. p \in Proposal /\ Planned(p, moment)
      BY <1>1, ProposalBoardAssumption DEF Plannable, Proposal, Planned, Moment
    <2>3. QED
      BY <2>1, <2>2, BeginReads
  <1>4. ASSUME NEW id \in ProposalIds, ValidateForUse(id) PROVE Reads'
    <2>1. Planned(entries[id].proposal, moment)
      BY DEF Reads, StoredArePlanned
    <2>2. QED
      BY <1>1, <1>4, <2>1, BeginReads DEF ValidateForUse
  <1>5. CASE InvalidateStale
    <2>1. Planned(Blank, moment)
      BY <1>1 DEF Planned, Blank, Moment
    <2>2. QED
      BY <1>5, <2>1, ValueTypes, BeginReads DEF InvalidateStale
  <1>6. CASE ReadOrganization
    <2>1. /\ call'.kind = call.kind /\ call'.began = call.began /\ call'.step = "clock"
          /\ call'.proposal = call.proposal /\ call'.read.world = call.read.world
          /\ call'.read.org = moment.org /\ call'.read.mode = moment.mode
      BY <1>1, <1>6 DEF ReadOrganization, TypeOK, Activation, Moment
    <2>2. moment' = moment /\ entries' = entries
      BY <1>6 DEF ReadOrganization
    <2>3. StoredArePlanned' /\ CallIsPlanned'
      BY <1>6, <2>1, <2>2 DEF ReadOrganization, Reads, StoredArePlanned, CallIsPlanned
    <2>4. ReadsAreOrdered'
      BY <1>1, <1>6, <2>1, <2>2
      DEF ReadOrganization, Reads, ReadsAreOrdered, CallIsPlanned, NoLater, Moment
    <2>5. QED
      BY <2>3, <2>4 DEF Reads
  <1>7. CASE ReadClock
    <2> DEFINE m == [call.read EXCEPT !.time = moment.time]
    <2>1. moment' = moment /\ entries' = entries /\ call.step = "clock"
      BY <1>7 DEF ReadClock
    <2>2. /\ m.world = call.read.world /\ m.org = call.read.org /\ m.mode = call.read.mode
          /\ m.time = moment.time
      BY <1>1 DEF Moment
    <2> HIDE DEF m
    <2>3. \/ call' = Idle
          \/ /\ call'.kind = call.kind /\ call'.began = call.began /\ call'.read = m
             /\ call'.proposal = call.proposal /\ call'.step \in {"sweep", "append"}
      BY <1>7 DEF ReadClock, DecideAdmission, DecideUse, StartSweep, TypeOK, Activation, m
    <2>4. StoredArePlanned'
      BY <2>1 DEF Reads, StoredArePlanned
    <2>5. CallIsPlanned'
      BY <2>1, <2>3 DEF Reads, CallIsPlanned, Idle
    <2>6. ReadsAreOrdered'
      <3>1. CASE call' = Idle
        BY <3>1 DEF ReadsAreOrdered, Idle
      <3>2. CASE call' # Idle
        BY <1>1, <2>1, <2>2, <2>3, <3>2
        DEF Reads, ReadsAreOrdered, CallIsPlanned, NoLater, Moment
      <3>3. QED
        BY <3>1, <3>2
    <2>7. QED
      BY <2>4, <2>5, <2>6 DEF Reads
  <1>8. CASE SweepEntry
    <2> DEFINE id == seen[call.cursor]
    <2>1. id \in ProposalIds /\ Planned(entries[id].proposal, call.began)
      BY <1>8 DEF SweepEntry, TypeOK, Reads, CallIsPlanned
    <2>2. \/ call' = [call EXCEPT !.cursor = NextCursor(@)]
          \/ call' = [call EXCEPT !.step = "append", !.id = id,
                                  !.proposal = entries[id].proposal,
                                  !.code = StaleCode(entries[id].proposal, call.read)]
      BY <1>8 DEF SweepEntry
    <2> HIDE DEF id
    <2>3. /\ call'.kind = call.kind /\ call'.began = call.began /\ call'.read = call.read
          /\ call'.step \in {"sweep", "append"} /\ Planned(call'.proposal, call.began)
      BY <1>8, <2>1, <2>2 DEF SweepEntry, Reads, CallIsPlanned, TypeOK, Activation
    <2>4. QED
      BY <1>8, <2>3, KeepsReads DEF SweepEntry
  <1>9. CASE SweepReturns
    BY <1>9, KeepsReads DEF SweepReturns
  <1>10. CASE AppendAudit
    <2>1. \/ call' = Idle
          \/ call' = [call EXCEPT !.step = "publish"]
      BY <1>10 DEF AppendAudit, AfterFailedAppend
    <2>2. CASE call' = [call EXCEPT !.step = "publish"]
      <3>1. /\ call'.kind = call.kind /\ call'.began = call.began /\ call'.read = call.read
            /\ call'.step = "publish" /\ Planned(call'.proposal, call.began)
        BY <1>10, <2>2 DEF AppendAudit, Reads, CallIsPlanned, TypeOK, Activation
      <3>2. QED
        BY <1>10, <3>1, KeepsReads DEF AppendAudit
    <2>3. CASE call' = Idle
      BY <1>10, <2>3, KeepsReads DEF AppendAudit
    <2>4. QED
      BY <2>1, <2>2, <2>3
  <1>11. CASE PublishDuplicate
    BY <1>11, KeepsReads DEF PublishDuplicate
  <1>12. CASE PublishAdmission
    <2>1. Planned(call.proposal, moment)
      BY <1>1, <1>12, PlannedStays DEF PublishAdmission, Reads, CallIsPlanned
    <2>2. \A id \in ProposalIds :
            entries'[id].proposal = call.proposal \/ entries'[id] = entries[id]
      BY <1>12 DEF PublishAdmission, TypeOK
    <2>3. StoredArePlanned'
      BY <1>12, <2>1, <2>2 DEF PublishAdmission, Reads, StoredArePlanned
    <2>4. CallIsPlanned' /\ ReadsAreOrdered'
      BY <1>12 DEF PublishAdmission, CallIsPlanned, ReadsAreOrdered, Idle
    <2>5. QED
      BY <2>3, <2>4 DEF Reads
  <1>13. CASE PublishRetirement
    <2>1. \A id \in ProposalIds : entries'[id].proposal = entries[id].proposal
      BY <1>13 DEF PublishRetirement, TypeOK
    <2>2. CASE call.kind = "sweep"
      <3>1. call' = [call EXCEPT !.step = "sweep", !.cursor = NextCursor(@)]
        BY <1>13, <2>2 DEF PublishRetirement
      <3>2. /\ call'.kind = call.kind /\ call'.began = call.began /\ call'.read = call.read
            /\ call'.step = "sweep" /\ Planned(call'.proposal, call.began)
        BY <1>13, <3>1 DEF PublishRetirement, Reads, CallIsPlanned, TypeOK, Activation
      <3>3. QED
        BY <1>13, <2>1, <3>2, KeepsReads DEF PublishRetirement
    <2>3. CASE call.kind # "sweep"
      BY <1>13, <2>1, <2>3, KeepsReads DEF PublishRetirement
    <2>4. QED
      BY <2>2, <2>3
  <1>14. CASE UNCHANGED vars
    BY <1>14 DEF vars, boardVars, Reads, StoredArePlanned, CallIsPlanned, ReadsAreOrdered
  <1>15. QED
    BY <1>2, <1>3, <1>4, <1>5, <1>6, <1>7, <1>8, <1>9, <1>10, <1>11, <1>12, <1>13, <1>14
    DEF Next, Proceed, Elsewhere

---------------------------------------------------------------------------
(* The decision of a call *)

LEMMA DecisionStep == TypeOK /\ DecisionFollowsReads /\ [Next]_vars => DecisionFollowsReads'
  <1> SUFFICES ASSUME TypeOK, DecisionFollowsReads, [Next]_vars PROVE DecisionFollowsReads'
    OBVIOUS
  <1>1. CASE Elsewhere \/ UNCHANGED vars
    <2>1. call' = call /\ entries' = entries
      BY <1>1, MomentAdvances DEF vars, boardVars
    <2>2. QED
      BY <2>1 DEF DecisionFollowsReads
  <1>2. ASSUME NEW id, NEW p, NEW kind, Begin(kind, id, p),
               kind = "validate" => p = entries[id].proposal
        PROVE  DecisionFollowsReads'
    BY <1>2 DEF Begin, Idle, DecisionFollowsReads
  <1>3. ASSUME NEW id \in ProposalIds, Submit(id) PROVE DecisionFollowsReads'
    BY <1>2, <1>3 DEF Submit
  <1>4. ASSUME NEW id \in ProposalIds, ValidateForUse(id) PROVE DecisionFollowsReads'
    BY <1>2, <1>4 DEF ValidateForUse
  <1>5. CASE InvalidateStale
    BY <1>2, <1>5 DEF InvalidateStale
  <1>6. CASE ReadOrganization
    BY <1>6 DEF ReadOrganization, DecisionFollowsReads, TypeOK, Activation
  <1>7. CASE ReadClock
    <2> DEFINE m == [call.read EXCEPT !.time = moment.time]
    <2>1. m \in Moment /\ call.proposal \in Proposal
      BY DEF TypeOK, Activation, Moment
    <2>2. StaleCode(call.proposal, m) \in StaleCodes \cup {"NONE"}
      BY <2>1, ValueTypes
    <2> HIDE DEF m
    <2>3. entries' = entries /\ call.step = "clock"
          /\ (DecideAdmission(m) \/ DecideUse(m) \/ StartSweep(m))
      BY <1>7 DEF ReadClock, m
    <2>4. CASE DecideAdmission(m)
      BY <2>1, <2>2, <2>3, <2>4
      DEF DecideAdmission, AdmissionCode, DecisionFollowsReads, TypeOK, Activation
    <2>5. CASE DecideUse(m)
      <3>1. CASE call' = Idle
        BY <3>1 DEF DecisionFollowsReads, Idle
      <3>2. CASE call' # Idle
        <4>1. /\ entries[call.id].status = "ACCEPTED" /\ call.kind = "validate"
              /\ StaleCode(call.proposal, m) \in StaleCodes
              /\ call' = [call EXCEPT !.step = "append", !.read = m,
                                      !.code = StaleCode(call.proposal, m)]
          BY <2>2, <2>5, <3>2 DEF DecideUse
        <4>2. /\ call'.kind = "validate" /\ call'.step = "append" /\ call'.id = call.id
              /\ call'.proposal = call.proposal /\ call'.read = m
              /\ call'.code = StaleCode(call.proposal, m)
          BY <4>1 DEF TypeOK, Activation
        <4>3. call.proposal = entries[call.id].proposal
          BY <2>3, <4>1 DEF DecisionFollowsReads
        <4>4. QED
          BY <2>3, <4>1, <4>2, <4>3 DEF DecisionFollowsReads
      <3>3. QED
        BY <3>1, <3>2
    <2>6. CASE StartSweep(m)
      BY <2>3, <2>6 DEF StartSweep, DecisionFollowsReads, TypeOK, Activation
    <2>7. QED
      BY <2>3, <2>4, <2>5, <2>6
  <1>8. CASE SweepEntry
    <2> DEFINE id == seen[call.cursor]
               p == entries[id].proposal
    <2>1. p \in Proposal /\ call.read \in Moment
      BY <1>8 DEF SweepEntry, TypeOK, Activation
    <2>2. StaleCode(p, call.read) \in StaleCodes \cup {"NONE"}
      BY <2>1, ValueTypes
    <2> HIDE DEF id, p
    <2>3. entries' = entries /\ call.step = "sweep"
      BY <1>8 DEF SweepEntry
    <2>4. \/ call' = [call EXCEPT !.cursor = NextCursor(@)]
          \/ /\ entries[id].status = "ACCEPTED" /\ StaleCode(p, call.read) # "NONE"
             /\ call' = [call EXCEPT !.step = "append", !.id = id, !.proposal = p,
                                     !.code = StaleCode(p, call.read)]
      BY <1>8 DEF SweepEntry, id, p
    <2>5. CASE call' = [call EXCEPT !.cursor = NextCursor(@)]
      BY <2>3, <2>5 DEF DecisionFollowsReads, TypeOK, Activation
    <2>6. CASE call' # [call EXCEPT !.cursor = NextCursor(@)]
      <3>1. /\ call'.kind = call.kind /\ call'.step = "append" /\ call'.id = id
            /\ call'.proposal = p /\ call'.code = StaleCode(p, call.read)
            /\ call'.read = call.read
        BY <2>4, <2>6 DEF TypeOK, Activation
      <3>2. call'.proposal = entries'[call'.id].proposal
        BY <3>1, <2>3 DEF p
      <3>3. QED
        BY <2>2, <2>3, <2>4, <2>6, <3>1, <3>2 DEF DecisionFollowsReads
    <2>7. QED
      BY <2>5, <2>6
  <1>9. CASE AppendAudit
    <2>1. entries' = entries /\ call.step = "append"
          /\ (call' = Idle \/ call' = [call EXCEPT !.step = "publish"])
      BY <1>9 DEF AppendAudit, AfterFailedAppend
    <2>2. QED
      BY <2>1 DEF DecisionFollowsReads, Idle, TypeOK, Activation
  <1>10. CASE SweepReturns \/ PublishDuplicate \/ PublishAdmission
    BY <1>10 DEF SweepReturns, PublishDuplicate, PublishAdmission, DecisionFollowsReads, Idle
  <1>11. CASE PublishRetirement
    <2>1. call' = Idle \/ (call'.step = "sweep" /\ call'.kind = "sweep")
      BY <1>11 DEF PublishRetirement, TypeOK, Activation
    <2>2. QED
      BY <2>1 DEF DecisionFollowsReads, Idle
  <1>12. QED
    BY <1>1, <1>3, <1>4, <1>5, <1>6, <1>7, <1>8, <1>9, <1>10, <1>11
    DEF Next, Proceed, Elsewhere

---------------------------------------------------------------------------
(* An approval holds at one instant; a refusal holds for good *)

\* The three reads of a call that began at b: world at b, the rest later.
ReadsFrom(b, r) ==
  /\ r.world = b.world /\ b.org <= r.org /\ b.time <= r.time
  /\ b.org = r.org => b.mode = r.mode

LEMMA ApprovalIsAtomic ==
  ASSUME NEW p \in Proposal, NEW b \in Moment, NEW r \in Moment,
         Planned(p, b), ReadsFrom(b, r), Current(p, r)
  PROVE  Current(p, b)
  BY DEF Planned, ReadsFrom, Current, Proposal, Moment

LEMMA RefusalIsFinal ==
  ASSUME NEW p \in Proposal, NEW r \in Moment, NEW n \in Moment,
         Planned(p, r), NoLater(r, n), ~Current(p, r)
  PROVE  ~Current(p, n)
  BY DEF Planned, NoLater, Current, Proposal, Moment

\* At the ledger and at publication the reads of the call are in the past.
LEMMA DecidedInThePast ==
  ASSUME TypeOK, Reads, call.step \in {"append", "publish"}
  PROVE  /\ ReadsFrom(call.began, call.read)
         /\ NoLater(call.read, moment)
         /\ Planned(call.proposal, call.began) /\ Planned(call.proposal, call.read)
  <1>1. /\ moment \in Moment /\ call.began \in Moment /\ call.read \in Moment
        /\ call.proposal \in Proposal
    BY DEF TypeOK, Activation
  <1>2. ReadsFrom(call.began, call.read)
    BY <1>1 DEF Reads, ReadsAreOrdered, ReadsFrom
  <1>3. NoLater(call.read, moment)
    BY <1>1 DEF Reads, ReadsAreOrdered, CallIsPlanned, NoLater, Moment
  <1>4. Planned(call.proposal, call.began)
    BY DEF Reads, CallIsPlanned
  <1>5. Planned(call.proposal, call.read)
    BY <1>1, <1>2, <1>4 DEF ReadsFrom, Planned, Moment, Proposal
  <1>6. QED
    BY <1>2, <1>3, <1>4, <1>5

---------------------------------------------------------------------------
(* Accepted proposals were current, terminal ones stay unusable *)

Statements == AcceptedWasCurrent /\ TerminalStaysUnusable

\* The steps that neither move the moment nor touch a proposal or a voucher.
LEMMA StatementsStay ==
  Statements /\ moment' = moment /\ entries' = entries /\ vouched' = vouched => Statements'
  BY DEF Statements, AcceptedWasCurrent, TerminalStaysUnusable

LEMMA StatementsElsewhere ==
  TypeOK /\ Reads /\ Statements /\ [Next]_vars /\ Elsewhere => Statements'
  <1> SUFFICES ASSUME TypeOK, Reads, Statements, [Next]_vars, Elsewhere PROVE Statements'
    OBVIOUS
  <1>1. /\ moment \in Moment /\ moment' \in Moment /\ NoLater(moment, moment')
        /\ entries' = entries /\ vouched' = vouched
    BY MomentAdvances DEF boardVars, TypeOK
  <1>2. AcceptedWasCurrent'
    BY <1>1 DEF Statements, AcceptedWasCurrent
  <1>3. ASSUME NEW id \in ProposalIds, entries'[id].status \in Terminal
        PROVE  ~Current(entries'[id].proposal, moment')
    <2>1. /\ entries[id].proposal \in Proposal /\ Planned(entries[id].proposal, moment)
          /\ ~Current(entries[id].proposal, moment)
      BY <1>1, <1>3 DEF TypeOK, Reads, StoredArePlanned, Statements, TerminalStaysUnusable
    <2>2. QED
      BY <1>1, <2>1, RefusalIsFinal
  <1>4. QED
    BY <1>2, <1>3 DEF Statements, TerminalStaysUnusable

LEMMA StatementsStep ==
  TypeOK /\ Reads /\ DecisionFollowsReads /\ Statements /\ [Next]_vars => Statements'
  <1> SUFFICES ASSUME TypeOK, Reads, DecisionFollowsReads, Statements, [Next]_vars
               PROVE  Statements'
    OBVIOUS
  <1>1. /\ moment \in Moment
        /\ call.began \in Moment /\ call.read \in Moment /\ call.proposal \in Proposal
    BY DEF TypeOK, Activation
  <1>2. CASE Elsewhere
    BY <1>2, StatementsElsewhere
  <1>3. CASE \/ \E id \in ProposalIds : Submit(id) \/ ValidateForUse(id)
             \/ InvalidateStale
             \/ ReadOrganization \/ SweepEntry \/ SweepReturns \/ AppendAudit
             \/ PublishDuplicate \/ UNCHANGED vars
    BY <1>3, StatementsStay
    DEF Submit, ValidateForUse, InvalidateStale, Begin, ReadOrganization, SweepEntry,
        SweepReturns, AppendAudit, PublishDuplicate, vars, boardVars
  <1>4. CASE ReadClock
    <2> DEFINE m == [call.read EXCEPT !.time = moment.time]
    <2>1. /\ m \in Moment /\ m.world = call.read.world /\ m.org = call.read.org
          /\ m.mode = call.read.mode /\ m.time = moment.time
      BY <1>1 DEF Moment
    <2>2. ReadsFrom(call.began, m)
      <3>1. call.step = "clock" /\ NoLater(call.began, moment)
        BY <1>4 DEF ReadClock, Reads, CallIsPlanned
      <3>2. QED
        BY <2>1, <3>1 DEF Reads, ReadsAreOrdered, ReadsFrom, NoLater
    <2> HIDE DEF m
    <2>3. /\ moment' = moment /\ entries' = entries /\ call.step = "clock"
          /\ (DecideAdmission(m) \/ DecideUse(m) \/ StartSweep(m))
      BY <1>4 DEF ReadClock, m
    <2>4. CASE vouched' = vouched
      BY <2>3, <2>4, StatementsStay
    <2>5. CASE vouched' # vouched
      <3>1. /\ call.kind = "validate" /\ StaleCode(call.proposal, m) = "NONE"
            /\ vouched' = [vouched EXCEPT ![call.id] = call.began]
        BY <2>3, <2>5 DEF DecideAdmission, DecideUse, StartSweep
      <3>2. Current(call.proposal, call.began)
        <4>1. Planned(call.proposal, call.began)
          BY <2>3 DEF Reads, CallIsPlanned
        <4>2. QED
          BY <1>1, <2>1, <2>2, <3>1, <4>1, StaleCodeIsCurrent, ApprovalIsAtomic
      <3>3. call.proposal = entries[call.id].proposal
        BY <2>3, <3>1 DEF DecisionFollowsReads
      <3>4. AcceptedWasCurrent'
        BY <2>3, <3>1, <3>2, <3>3 DEF Statements, AcceptedWasCurrent, TypeOK
      <3>5. TerminalStaysUnusable'
        BY <2>3 DEF Statements, TerminalStaysUnusable
      <3>6. QED
        BY <3>4, <3>5 DEF Statements
    <2>6. QED
      BY <2>4, <2>5
  <1>5. CASE PublishAdmission
    <2>1. /\ call.step = "publish" /\ call.id \in ProposalIds /\ moment' = moment
          /\ call.code = StaleCode(call.proposal, call.read)
      BY <1>5 DEF PublishAdmission, TypeOK, DecisionFollowsReads
    <2>2. /\ ReadsFrom(call.began, call.read) /\ NoLater(call.read, moment)
          /\ Planned(call.proposal, call.began) /\ Planned(call.proposal, call.read)
      BY <2>1, DecidedInThePast
    <2>3. CASE call.code = "NONE"
      <3>1. Current(call.proposal, call.began)
        BY <1>1, <2>1, <2>2, <2>3, StaleCodeIsCurrent, ApprovalIsAtomic
      <3>2. /\ entries' = [entries EXCEPT ![call.id] =
                             [status |-> "ACCEPTED", proposal |-> call.proposal]]
            /\ vouched' = [vouched EXCEPT ![call.id] = call.began]
        BY <1>5, <2>3 DEF PublishAdmission
      <3>3. AcceptedWasCurrent'
        BY <2>1, <3>1, <3>2 DEF Statements, AcceptedWasCurrent, TypeOK
      <3>4. TerminalStaysUnusable'
        BY <2>1, <3>2 DEF Statements, TerminalStaysUnusable, TypeOK, Terminal
      <3>5. QED
        BY <3>3, <3>4 DEF Statements
    <2>4. CASE call.code # "NONE"
      <3>1. ~Current(call.proposal, moment)
        BY <1>1, <2>1, <2>2, <2>4, StaleCodeIsCurrent, RefusalIsFinal
      <3>2. /\ entries' = [entries EXCEPT ![call.id] =
                             [status |-> "REJECTED", proposal |-> call.proposal]]
            /\ vouched' = vouched
        BY <1>5, <2>4 DEF PublishAdmission
      <3>3. AcceptedWasCurrent'
        BY <2>1, <3>2 DEF Statements, AcceptedWasCurrent, TypeOK
      <3>4. TerminalStaysUnusable'
        BY <2>1, <3>1, <3>2 DEF Statements, TerminalStaysUnusable, TypeOK
      <3>5. QED
        BY <3>3, <3>4 DEF Statements
    <2>5. QED
      BY <2>3, <2>4
  <1>6. CASE PublishRetirement
    <2>1. /\ call.step = "publish" /\ call.id \in ProposalIds /\ moment' = moment
          /\ vouched' = vouched
          /\ entries' = [entries EXCEPT ![call.id].status = RetiredStatus(call.code)]
      BY <1>6 DEF PublishRetirement, TypeOK
    <2>2. /\ call.code \in StaleCodes /\ call.code = StaleCode(call.proposal, call.read)
          /\ entries[call.id].status = "ACCEPTED"
          /\ call.proposal = entries[call.id].proposal
      BY <1>6, <2>1 DEF PublishRetirement, DecisionFollowsReads, StaleCodes
    <2>3. NoLater(call.read, moment) /\ Planned(call.proposal, call.read)
      BY <2>1, DecidedInThePast
    <2>4. ~Current(call.proposal, moment)
      BY <1>1, <2>2, <2>3, StaleCodeIsCurrent, RefusalIsFinal DEF StaleCodes
    <2>5. \A id \in ProposalIds :
            /\ entries'[id].proposal = entries[id].proposal
            /\ id # call.id => entries'[id] = entries[id]
      BY <2>1 DEF TypeOK
    <2>6. AcceptedWasCurrent'
      BY <2>1, <2>2, <2>5 DEF Statements, AcceptedWasCurrent
    <2>7. TerminalStaysUnusable'
      BY <2>1, <2>2, <2>4, <2>5 DEF Statements, TerminalStaysUnusable
    <2>8. QED
      BY <2>6, <2>7 DEF Statements
  <1>7. QED
    BY <1>2, <1>3, <1>4, <1>5, <1>6 DEF Next, Proceed, Elsewhere

LEMMA InitialInvariant == Init => TypeOK /\ Reads /\ DecisionFollowsReads /\ Statements
  <1>1. Init => DecisionFollowsReads
    BY DEF Init, Idle, DecisionFollowsReads
  <1>2. Init => Statements
    BY DEF Init, Statements, AcceptedWasCurrent, TerminalStaysUnusable, Terminal
  <1>3. QED
    BY <1>1, <1>2, TypeInit, ReadsInit

\* Whatever the interleaving of the board's three reads with commits, mode
\* changes and the clock, an approval held at one single instant.
THEOREM ApprovalsAreConsistent == Spec => []AcceptedWasCurrent
  <1>1. Statements => AcceptedWasCurrent
    BY DEF Statements
  <1>2. QED
    BY <1>1, InitialInvariant, TypeStep, ReadsStep, DecisionStep, StatementsStep, PTL DEF Spec

\* A proposal that reached a terminal status never satisfies the checks again.
THEOREM RefusalsAreFinal == Spec => []TerminalStaysUnusable
  <1>1. Statements => TerminalStaysUnusable
    BY DEF Statements
  <1>2. QED
    BY <1>1, InitialInvariant, TypeStep, ReadsStep, DecisionStep, StatementsStep, PTL DEF Spec

---------------------------------------------------------------------------
(* Ledger first, memory second *)

Audited == PublishesLastRecord /\ PublishedIsAudited

\* Steps that touch neither file nor entries and are not about publication.
LEMMA AuditedStays ==
  ASSUME Audited, ledger' = ledger, entries' = entries,
         call.step # "publish", call'.step # "publish"
  PROVE  Audited'
  <1>1. \A id \in ProposalIds : Confirmed(id)' = Confirmed(id)
    BY DEF Confirmed, IsLifecycleRecord, Unpublished
  <1>2. QED
    BY <1>1 DEF Audited, PublishesLastRecord, PublishedIsAudited

LEMMA AppendKeepsAudited == TypeOK /\ Audited /\ AppendAudit => Audited'
  <1> SUFFICES ASSUME TypeOK, Audited, AppendAudit PROVE Audited'
    OBVIOUS
  <1>1. call.step = "append" /\ entries' = entries /\ ledger \in Seq(Records)
    BY DEF AppendAudit, TypeOK
  <1>2. CASE ledger' = ledger /\ call' = Idle
    BY <1>1, <1>2, AuditedStays DEF Idle
  <1>3. ASSUME NEW acked \in BOOLEAN, ledger' = Append(ledger, Record(acked)),
               acked => call' = [call EXCEPT !.step = "publish"],
               ~acked => call' = Idle
        PROVE  Audited'
    <2>1. Record(acked).acked = acked /\ Record(acked) \in Records
      <3>1. call.id \in ProposalIds /\ call.code \in Codes
        BY <1>1 DEF TypeOK, Activation
      <3>2. QED
        BY <3>1 DEF Record, RecordType, Records
    <2>2. /\ Len(ledger') = Len(ledger) + 1 /\ Len(ledger) \in Nat
          /\ DOMAIN ledger' = 1..(Len(ledger) + 1) /\ DOMAIN ledger = 1..Len(ledger)
          /\ \A i \in DOMAIN ledger : ledger'[i] = ledger[i]
          /\ ledger'[Len(ledger) + 1] = Record(acked)
      BY <1>1, <1>3, <2>1
    <2>3. IF acked THEN call'.step = "publish" ELSE call'.step = "idle"
      BY <1>3 DEF Idle, TypeOK, Activation
    <2>4. ASSUME NEW id \in ProposalIds PROVE Confirmed(id)' = Confirmed(id)
      <3>1. ASSUME NEW i \in DOMAIN ledger
            PROVE  i \in Confirmed(id)' <=> i \in Confirmed(id)
        BY <1>1, <2>2, <2>3 DEF Confirmed, IsLifecycleRecord, Unpublished
      <3>2. Len(ledger) + 1 \notin Confirmed(id)'
        <4>1. CASE acked
          BY <2>2, <2>3, <4>1 DEF Confirmed, Unpublished
        <4>2. CASE ~acked
          BY <2>1, <2>2, <4>2 DEF Confirmed, IsLifecycleRecord
        <4>3. QED
          BY <4>1, <4>2
      <3>3. DOMAIN ledger' = DOMAIN ledger \cup {Len(ledger) + 1}
        BY <2>2
      <3>4. QED
        BY <3>1, <3>2, <3>3 DEF Confirmed
    <2>5. PublishedIsAudited'
      <3>1. \A id \in ProposalIds : Confirmed(id) \subseteq DOMAIN ledger
        BY DEF Confirmed
      <3>2. \A id \in ProposalIds : \A i \in Confirmed(id) :
              RecordedStatus(ledger'[i]) = RecordedStatus(ledger[i])
        BY <2>2, <3>1
      <3>3. QED
        BY <1>1, <2>4, <3>2 DEF Audited, PublishedIsAudited
    <2>6. PublishesLastRecord'
      <3>1. ASSUME acked PROVE Record(TRUE)' = Record(TRUE)
        BY <1>3, <3>1 DEF Record, RecordType, TypeOK, Activation
      <3>2. CASE acked
        <4>1. Len(ledger') > 0 /\ ledger'[Len(ledger')] = Record(TRUE)
          BY <2>2, <3>2
        <4>2. QED
          BY <3>1, <3>2, <4>1 DEF PublishesLastRecord
      <3>3. CASE ~acked
        BY <2>3, <3>3 DEF PublishesLastRecord
      <3>4. QED
        BY <3>2, <3>3
    <2>7. QED
      BY <2>5, <2>6 DEF Audited
  <1>4. QED
    BY <1>2, <1>3 DEF AppendAudit, AfterFailedAppend

\* Publication confirms exactly the record the ledger acknowledged last.
LEMMA PublishKeepsAudited ==
  ASSUME TypeOK, Audited, DecisionFollowsReads,
         PublishDuplicate \/ PublishAdmission \/ PublishRetirement
  PROVE  Audited'
  <1> DEFINE last == Len(ledger)
  <1>1. /\ call.step = "publish" /\ ledger' = ledger /\ ledger \in Seq(Records)
        /\ call.id \in ProposalIds /\ call'.step # "publish"
    <2>1. /\ call.step = "publish" /\ ledger' = ledger
          /\ (call' = Idle \/ call' = [call EXCEPT !.step = "sweep", !.cursor = NextCursor(@)])
      BY DEF PublishDuplicate, PublishAdmission, PublishRetirement
    <2>2. call \in Activation /\ call.id \in ProposalIds /\ ledger \in Seq(Records)
      BY <2>1 DEF TypeOK
    <2>3. call'.step # "publish"
      <3>1. Idle.step = "idle"
        BY DEF Idle
      <3>2. call' = Idle \/ call'.step = "sweep"
        BY <2>1, <2>2 DEF Activation
      <3>3. QED
        BY <3>1, <3>2
    <2>4. QED
      BY <2>1, <2>2, <2>3
  <1>2. last \in DOMAIN ledger /\ ledger[last] = Record(TRUE) /\ \A i \in DOMAIN ledger : i <= last
    <2>1. Len(ledger) > 0 /\ ledger[Len(ledger)] = Record(TRUE)
      BY <1>1 DEF Audited, PublishesLastRecord
    <2>2. Len(ledger) \in Nat /\ DOMAIN ledger = 1..Len(ledger)
      BY <1>1
    <2>3. QED
      BY <2>1, <2>2
  <1>3. /\ ledger[last].id = call.id /\ ledger[last].code = call.code /\ ledger[last].acked
        /\ ledger[last].type = RecordType
    BY <1>2 DEF Record
  <1> HIDE DEF last
  <1>4. ASSUME NEW id \in ProposalIds
        PROVE  Confirmed(id)' = IF id = call.id /\ call.code # "DUPLICATE_PROPOSAL"
                                THEN Confirmed(id) \cup {last} ELSE Confirmed(id)
    BY <1>1, <1>2, <1>3 DEF Confirmed, IsLifecycleRecord, Unpublished, last
  <1>5. ASSUME NEW id \in ProposalIds PROVE Confirmed(id) \subseteq DOMAIN ledger
    BY DEF Confirmed
  <1>6. PublishesLastRecord'
    BY <1>1 DEF PublishesLastRecord
  <1>7. CASE PublishDuplicate
    <2>1. /\ entries' = entries
          /\ \A id \in ProposalIds : Confirmed(id)' = Confirmed(id)
      BY <1>4, <1>7 DEF PublishDuplicate
    <2>2. QED
      BY <1>1, <1>6, <2>1 DEF Audited, PublishedIsAudited
  <1>8. CASE PublishAdmission \/ PublishRetirement
    <2>1. call.code # "DUPLICATE_PROPOSAL" /\ call.kind \in {"submit", "validate", "sweep"}
      BY <1>1, <1>8 DEF PublishAdmission, PublishRetirement, DecisionFollowsReads, StaleCodes
    <2>2. entries'[call.id].status = RecordedStatus(ledger[last])
      <3>1. CASE PublishAdmission
        BY <1>1, <1>3, <3>1 DEF PublishAdmission, RecordType, RecordedStatus, TypeOK
      <3>2. CASE PublishRetirement
        BY <1>1, <1>3, <3>2 DEF PublishRetirement, RecordType, RecordedStatus, TypeOK
      <3>3. QED
        BY <1>8, <3>1, <3>2
    <2>3. \A id \in ProposalIds : id # call.id => entries'[id] = entries[id]
      BY <1>8 DEF PublishAdmission, PublishRetirement, TypeOK
    <2>4. ASSUME NEW id \in ProposalIds, id = call.id
          PROVE  last \in Confirmed(id)' /\ \A j \in Confirmed(id)' : j <= last
      <3>1. Confirmed(id)' = Confirmed(id) \cup {last} /\ Confirmed(id) \subseteq DOMAIN ledger
        BY <1>4, <1>5, <2>1, <2>4
      <3>2. QED
        BY <1>2, <3>1
    <2>5. PublishedIsAudited'
      <3> SUFFICES ASSUME NEW id \in ProposalIds
                   PROVE  \/ Confirmed(id)' = {} /\ entries'[id].status = "CREATED"
                          \/ \E i \in Confirmed(id)' :
                               /\ \A j \in Confirmed(id)' : j <= i
                               /\ entries'[id].status = RecordedStatus(ledger'[i])
        BY DEF PublishedIsAudited
      <3>1. CASE id = call.id
        BY <1>1, <2>2, <2>4, <3>1
      <3>2. CASE id # call.id
        BY <1>1, <1>4, <2>3, <3>2 DEF Audited, PublishedIsAudited
      <3>3. QED
        BY <3>1, <3>2
    <2>6. QED
      BY <1>6, <2>5 DEF Audited
  <1>9. QED
    BY <1>7, <1>8

LEMMA AuditedStep ==
  TypeOK /\ DecisionFollowsReads /\ Audited /\ [Next]_vars => Audited'
  <1> SUFFICES ASSUME TypeOK, DecisionFollowsReads, Audited, [Next]_vars PROVE Audited'
    OBVIOUS
  <1>1. CASE Elsewhere \/ UNCHANGED vars
    <2>1. call' = call /\ entries' = entries /\ ledger' = ledger
      BY <1>1, MomentAdvances DEF vars, boardVars
    <2>2. Record(TRUE)' = Record(TRUE) /\ \A id \in ProposalIds : Confirmed(id)' = Confirmed(id)
      BY <2>1 DEF Record, RecordType, Confirmed, IsLifecycleRecord, Unpublished
    <2>3. QED
      BY <2>1, <2>2 DEF Audited, PublishesLastRecord, PublishedIsAudited
  <1>2. CASE \/ \E id \in ProposalIds : Submit(id) \/ ValidateForUse(id)
             \/ InvalidateStale
    BY <1>2, AuditedStays DEF Submit, ValidateForUse, InvalidateStale, Begin, Idle
  <1>3. CASE ReadOrganization \/ SweepReturns
    <2>1. /\ ledger' = ledger /\ entries' = entries /\ call.step \in {"organization", "sweep"}
          /\ call'.step \in {"idle", "clock"}
      <3>1. call \in Activation /\ Idle.step = "idle"
        BY DEF TypeOK, Idle
      <3>2. CASE ReadOrganization
        BY <3>1, <3>2 DEF ReadOrganization, Activation
      <3>3. CASE SweepReturns
        BY <3>1, <3>3 DEF SweepReturns
      <3>4. QED
        BY <1>3, <3>2, <3>3
    <2>2. QED
      BY <2>1, AuditedStays
  <1>4. CASE ReadClock
    <2>1. /\ ledger' = ledger /\ entries' = entries /\ call.step = "clock"
          /\ call'.step \in {"idle", "append", "sweep"}
      <3> DEFINE m == [call.read EXCEPT !.time = moment.time]
      <3> HIDE DEF m
      <3>1. /\ ledger' = ledger /\ entries' = entries /\ call.step = "clock"
            /\ (DecideAdmission(m) \/ DecideUse(m) \/ StartSweep(m))
        BY <1>4 DEF ReadClock, m
      <3>2. call \in Activation /\ Idle.step = "idle"
        BY DEF TypeOK, Idle
      <3>3. QED
        BY <3>1, <3>2 DEF DecideAdmission, DecideUse, StartSweep, Activation
    <2>2. QED
      BY <2>1, AuditedStays
  <1>5. CASE SweepEntry
    <2>1. /\ ledger' = ledger /\ entries' = entries /\ call.step = "sweep"
          /\ call'.step \in {"append", "sweep"}
      BY <1>5 DEF SweepEntry, TypeOK, Activation
    <2>2. QED
      BY <2>1, AuditedStays
  <1>6. CASE AppendAudit
    BY <1>6, AppendKeepsAudited
  <1>7. CASE PublishDuplicate \/ PublishAdmission \/ PublishRetirement
    BY <1>7, PublishKeepsAudited
  <1>8. QED
    BY <1>1, <1>2, <1>3, <1>4, <1>5, <1>6, <1>7 DEF Next, Proceed, Elsewhere

\* The status readers see is the one the last acknowledged record states, with
\* appends failing before or after the line reached the file.
THEOREM StatusesAreAudited == Spec => []PublishedIsAudited
  <1>1. Init => Audited
    BY DEF Init, Idle, Audited, PublishesLastRecord, PublishedIsAudited, Confirmed
  <1>2. Audited => PublishedIsAudited
    BY DEF Audited
  <1>3. QED
    BY <1>1, <1>2, InitialInvariant, TypeStep, DecisionStep, AuditedStep, PTL DEF Spec

\* The whole inductive invariant at once.
THEOREM InvariantHolds == Spec => []IInv
  <1>1. Init => Audited
    BY DEF Init, Idle, Audited, PublishesLastRecord, PublishedIsAudited, Confirmed
  <1>2. TypeOK /\ Reads /\ DecisionFollowsReads /\ Statements /\ Audited => IInv
    BY DEF Reads, Statements, Audited, IInv
  <1>3. QED
    BY <1>1, <1>2, InitialInvariant, TypeStep, ReadsStep, DecisionStep, StatementsStep,
       AuditedStep, PTL DEF Spec

---------------------------------------------------------------------------
(* The sweep *)

\* Where a sweep stands, also while it retires the entry at its cursor.
SweepStands ==
  /\ call.step \in {"organization", "clock"} => call.cursor = 1
  /\ call.step = "sweep" => call.kind = "sweep"
  /\ call.kind = "sweep" /\ call.step \in {"append", "publish"} =>
       call.cursor \in DOMAIN seen /\ call.id = seen[call.cursor]

BehindCursor ==
  call.kind = "sweep" /\ call.step \in {"sweep", "append", "publish"} =>
    \A i \in DOMAIN seen :
      i < call.cursor /\ entries[seen[i]].status = "ACCEPTED" =>
        StaleCode(entries[seen[i]].proposal, call.read) = "NONE"

\* Exactly the ids that were admitted have entries, and only an id that was not
\* is given another code than that of a duplicate.
AdmittedOnce ==
  /\ \A id \in ProposalIds : IsSeen(id) <=> entries[id].status # "CREATED"
  /\ call.step \in {"append", "publish"} /\ call.kind = "submit"
       /\ call.code # "DUPLICATE_PROPOSAL" => ~IsSeen(call.id)

SweepInv == SweepStands /\ BehindCursor /\ AdmittedOnce

LEMMA SweepInit == Init => SweepInv
  BY DEF Init, Idle, SweepInv, SweepStands, BehindCursor, AdmittedOnce, IsSeen

\* A call that is over or has just begun.
LEMMA SweepOutside ==
  ASSUME SweepInv, entries' = entries, seen' = seen,
         call'.step \in {"idle", "organization"}, call'.cursor = 1
  PROVE  SweepInv'
  BY DEF SweepInv, SweepStands, BehindCursor, AdmittedOnce, IsSeen

LEMMA SweepStep ==
  TypeOK /\ DecisionFollowsReads /\ SweepInv /\ [Next]_vars => SweepInv'
  <1> SUFFICES ASSUME TypeOK, DecisionFollowsReads, SweepInv, [Next]_vars PROVE SweepInv'
    OBVIOUS
  <1> DEFINE now == [call.read EXCEPT !.time = moment.time]
  <1>0. /\ call \in Activation /\ call.cursor \in Nat /\ seen \in Seq(ProposalIds)
        /\ Idle.step = "idle" /\ Idle.cursor = 1
        /\ \A i \in DOMAIN seen : seen[i] \in ProposalIds
        /\ DOMAIN seen = 1..Len(seen) /\ Len(seen) \in Nat
    BY DEF TypeOK, Activation, Idle
  <1>1. CASE Elsewhere \/ UNCHANGED vars
    <2>1. call' = call /\ entries' = entries /\ seen' = seen
      BY <1>1, MomentAdvances DEF vars, boardVars
    <2>2. QED
      BY <2>1 DEF SweepInv, SweepStands, BehindCursor, AdmittedOnce, IsSeen
  <1>2. ASSUME NEW kind, NEW id, NEW p, Begin(kind, id, p)
        PROVE  SweepInv'
    BY <1>2, SweepOutside DEF Begin, Idle
  <1>3. CASE \/ \E id \in ProposalIds : Submit(id) \/ ValidateForUse(id)
             \/ InvalidateStale
    BY <1>2, <1>3 DEF Submit, ValidateForUse, InvalidateStale
  <1>4. CASE ReadOrganization
    <2>1. /\ call'.step = "clock" /\ call'.cursor = 1
          /\ entries' = entries /\ seen' = seen
      BY <1>0, <1>4 DEF ReadOrganization, Activation, SweepInv, SweepStands
    <2>2. QED
      BY <2>1 DEF SweepInv, SweepStands, BehindCursor, AdmittedOnce, IsSeen
  <1>5. CASE ReadClock
    <2>1. /\ entries' = entries /\ seen' = seen /\ call.step = "clock" /\ call.cursor = 1
          /\ DecideAdmission(now) \/ DecideUse(now) \/ StartSweep(now)
      BY <1>5 DEF ReadClock, SweepInv, SweepStands
    <2> HIDE DEF now
    <2>2. CASE DecideAdmission(now)
      <3>1. /\ call'.step = "append" /\ call'.kind = "submit" /\ call'.id = call.id
            /\ call'.code = AdmissionCode(call.id, call.proposal, now)
        BY <1>0, <2>2 DEF DecideAdmission, Activation
      <3>2. IsSeen(call.id) => call'.code = "DUPLICATE_PROPOSAL"
        BY <3>1 DEF AdmissionCode
      <3>3. QED
        BY <2>1, <3>1, <3>2 DEF SweepInv, SweepStands, BehindCursor, AdmittedOnce, IsSeen
    <2>3. CASE DecideUse(now)
      <3>1. \/ call' = Idle
            \/ call'.step = "append" /\ call'.kind = "validate"
        BY <1>0, <2>3 DEF DecideUse, Activation
      <3>2. CASE call' = Idle
        BY <1>0, <2>1, <3>2, SweepOutside
      <3>3. CASE call'.step = "append" /\ call'.kind = "validate"
        BY <2>1, <3>3 DEF SweepInv, SweepStands, BehindCursor, AdmittedOnce, IsSeen
      <3>4. QED
        BY <3>1, <3>2, <3>3
    <2>4. CASE StartSweep(now)
      <3>1. call'.step = "sweep" /\ call'.kind = "sweep" /\ call'.cursor = 1
        BY <1>0, <2>1, <2>4 DEF StartSweep, Activation
      <3>2. \A i \in DOMAIN seen : ~(i < call'.cursor)
        BY <1>0, <3>1
      <3>3. QED
        BY <2>1, <3>1, <3>2 DEF SweepInv, SweepStands, BehindCursor, AdmittedOnce, IsSeen
    <2>5. QED
      BY <2>1, <2>2, <2>3, <2>4
  <1>6. CASE SweepEntry
    <2> DEFINE id == seen[call.cursor]
               p == entries[id].proposal
               stale == entries[id].status = "ACCEPTED" /\ StaleCode(p, call.read) # "NONE"
    <2>1. /\ call.step = "sweep" /\ call.kind = "sweep" /\ call.cursor \in DOMAIN seen
          /\ UNCHANGED <<entries, seen>>
          /\ \/ ~stale /\ call' = [call EXCEPT !.cursor = NextCursor(@)]
             \/ /\ stale
                /\ call' = [call EXCEPT !.step = "append", !.id = id, !.proposal = p,
                                        !.code = StaleCode(p, call.read)]
      BY <1>6 DEF SweepEntry, SweepInv, SweepStands
    <2>2. CASE ~stale /\ call' = [call EXCEPT !.cursor = NextCursor(@)]
      <3>1. /\ call'.step = "sweep" /\ call'.kind = "sweep" /\ call'.read = call.read
            /\ call'.cursor = call.cursor + 1
        BY <1>0, <2>1, <2>2 DEF Activation, NextCursor
      <3>2. \A i \in DOMAIN seen : i < call'.cursor => i < call.cursor \/ i = call.cursor
        BY <1>0, <3>1
      <3>3. QED
        BY <2>1, <2>2, <3>1, <3>2 DEF SweepInv, SweepStands, BehindCursor, AdmittedOnce, IsSeen
    <2> HIDE DEF p, stale
    <2>3. CASE call' = [call EXCEPT !.step = "append", !.id = id, !.proposal = p,
                                    !.code = StaleCode(p, call.read)]
      <3>1. /\ call'.step = "append" /\ call'.kind = "sweep" /\ call'.read = call.read
            /\ call'.cursor = call.cursor /\ call'.id = id
        BY <1>0, <2>1, <2>3 DEF Activation
      <3>2. QED
        BY <2>1, <3>1 DEF SweepInv, SweepStands, BehindCursor, AdmittedOnce, IsSeen
    <2>4. QED
      BY <2>1, <2>2, <2>3
  <1>7. CASE SweepReturns
    BY <1>0, <1>7, SweepOutside DEF SweepReturns
  <1>8. CASE AppendAudit
    <2>1. /\ entries' = entries /\ seen' = seen /\ call.step = "append"
          /\ call' = Idle \/ call' = [call EXCEPT !.step = "publish"]
      BY <1>8 DEF AppendAudit, AfterFailedAppend
    <2>2. CASE call' = Idle
      BY <1>0, <2>1, <2>2, SweepOutside
    <2>3. CASE call' = [call EXCEPT !.step = "publish"]
      <3>1. /\ call'.step = "publish" /\ call'.kind = call.kind /\ call'.read = call.read
            /\ call'.cursor = call.cursor /\ call'.id = call.id /\ call'.code = call.code
        BY <1>0, <2>3 DEF Activation
      <3>2. QED
        BY <2>1, <3>1 DEF SweepInv, SweepStands, BehindCursor, AdmittedOnce, IsSeen
    <2>4. QED
      BY <2>1, <2>2, <2>3
  <1>9. CASE PublishDuplicate
    BY <1>0, <1>9, SweepOutside DEF PublishDuplicate
  <1>10. CASE PublishAdmission
    <2>1. /\ call' = Idle /\ seen' = Append(seen, call.id) /\ call.id \in ProposalIds
          /\ entries'[call.id].status # "CREATED"
          /\ \A id \in ProposalIds : id # call.id => entries'[id] = entries[id]
      BY <1>10 DEF PublishAdmission, TypeOK
    <2>2. /\ DOMAIN seen' = 1..(Len(seen) + 1) /\ seen'[Len(seen) + 1] = call.id
          /\ \A i \in DOMAIN seen : seen'[i] = seen[i]
      BY <1>0, <2>1
    <2>3. ASSUME NEW id \in ProposalIds
          PROVE  IsSeen(id)' <=> IsSeen(id) \/ id = call.id
      <3>1. \A i \in DOMAIN seen' : i \in DOMAIN seen \/ i = Len(seen) + 1
        BY <1>0, <2>2
      <3>2. DOMAIN seen \subseteq DOMAIN seen' /\ Len(seen) + 1 \in DOMAIN seen'
        BY <1>0, <2>2
      <3>3. QED
        BY <2>2, <3>1, <3>2 DEF IsSeen
    <2>4. AdmittedOnce'
      BY <1>0, <2>1, <2>3 DEF AdmittedOnce, SweepInv
    <2>5. QED
      BY <1>0, <2>1, <2>4 DEF SweepInv, SweepStands, BehindCursor
  <1>11. CASE PublishRetirement
    <2>1. /\ call.step = "publish" /\ call.kind \in {"validate", "sweep"} /\ seen' = seen
          /\ entries' = [entries EXCEPT ![call.id].status = RetiredStatus(call.code)]
          /\ call.id \in ProposalIds /\ entries[call.id].status = "ACCEPTED"
      BY <1>11 DEF PublishRetirement, TypeOK, DecisionFollowsReads
    <2>2. /\ entries'[call.id].status \in {"EXPIRED", "INVALIDATED"}
          /\ \A id \in ProposalIds : id # call.id => entries'[id] = entries[id]
      BY <2>1 DEF RetiredStatus, TypeOK
    <2>3. \A id \in ProposalIds : IsSeen(id)' <=> entries'[id].status # "CREATED"
      BY <2>1, <2>2 DEF SweepInv, AdmittedOnce, IsSeen
    <2>4. CASE call' = Idle
      BY <1>0, <2>3, <2>4 DEF SweepInv, SweepStands, BehindCursor, AdmittedOnce
    <2>5. CASE call.kind = "sweep" /\ call' = [call EXCEPT !.step = "sweep", !.cursor = NextCursor(@)]
      <3>1. /\ call'.step = "sweep" /\ call'.kind = "sweep" /\ call'.read = call.read
            /\ call'.cursor = call.cursor + 1
        BY <1>0, <2>5 DEF Activation, NextCursor
      <3>2. call.id = seen[call.cursor]
        BY <2>1, <2>5 DEF SweepInv, SweepStands
      <3>3. ASSUME NEW i \in DOMAIN seen, i < call'.cursor,
                   entries'[seen[i]].status = "ACCEPTED"
            PROVE  StaleCode(entries'[seen[i]].proposal, call.read) = "NONE"
        <4>1. seen[i] # call.id /\ seen[i] \in ProposalIds
          BY <1>0, <2>2, <3>3
        <4>2. i < call.cursor
          BY <1>0, <3>1, <3>2, <3>3, <4>1
        <4>3. QED
          BY <2>1, <2>2, <2>5, <3>3, <4>1, <4>2 DEF SweepInv, BehindCursor
      <3>4. QED
        BY <2>1, <2>3, <3>1, <3>3 DEF SweepInv, SweepStands, BehindCursor, AdmittedOnce
    <2>6. QED
      BY <1>11, <2>4, <2>5 DEF PublishRetirement
  <1>12. QED
    BY <1>1, <1>3, <1>4, <1>5, <1>6, <1>7, <1>8, <1>9, <1>10, <1>11
    DEF Next, Proceed, Elsewhere

\* The inductive invariant of invalidate_stale(): what the sweep has passed stays
\* retired or current.
THEOREM SweepInvariant == Spec => [](TypeOK /\ DecisionFollowsReads /\ SweepInv)
  BY SweepInit, SweepStep, InitialInvariant, TypeStep, DecisionStep, PTL DEF Spec

\* invalidate_stale() leaves no stale entry behind its cursor, whatever its own
\* retirements, its failing appends and the moving runtime do.
THEOREM SweepsMissNothing == Spec => []SweepLeavesNoStale
  <1>1. SweepInv => SweepLeavesNoStale
    BY DEF SweepInv, SweepStands, BehindCursor, SweepLeavesNoStale
  <1>2. QED
    BY <1>1, SweepInvariant, PTL

---------------------------------------------------------------------------
(* The board implements AuditedPublication *)

\* The status a call that publishes gives to its proposal.
Outcome ==
  IF call.kind # "submit" THEN RetiredStatus(call.code)
  ELSE IF call.code = "NONE" THEN "ACCEPTED" ELSE "REJECTED"

Publishes(id) ==
  call.step = "publish" /\ id = call.id /\ call.code # "DUPLICATE_PROPOSAL"

\* What was recorded last is what readers see, or what is being published.
RecordedIsOutcome ==
  \A id \in ProposalIds :
    LastRecorded(id) = IF Publishes(id) THEN Outcome ELSE entries[id].status

LEMMA LastIsLast ==
  ASSUME ledger \in Seq(Records), NEW id, NEW i \in DOMAIN ledger, IsLifecycleRecord(i, id),
         \A j \in DOMAIN ledger : IsLifecycleRecord(j, id) => j <= i
  PROVE  LastRecorded(id) = RecordedStatus(ledger[i])
  <1> DEFINE mine == {j \in DOMAIN ledger : IsLifecycleRecord(j, id)}
             last == CHOOSE j \in mine : \A k \in mine : k <= j
  <1>1. i \in mine /\ \A k \in mine : k <= i
    OBVIOUS
  <1>2. last \in mine /\ \A k \in mine : k <= last
    BY <1>1
  <1>3. i <= last /\ last <= i /\ i \in Nat /\ last \in Nat
    BY <1>1, <1>2
  <1>4. last = i
    BY <1>3
  <1>5. LastRecorded(id) = RecordedStatus(ledger[last])
    BY <1>1 DEF LastRecorded
  <1>6. QED
    BY <1>4, <1>5

LEMMA RecordedSoFar == TypeOK /\ Audited => RecordedIsOutcome
  <1> SUFFICES ASSUME TypeOK, Audited, NEW id \in ProposalIds
               PROVE  LastRecorded(id) = IF Publishes(id) THEN Outcome ELSE entries[id].status
    BY DEF RecordedIsOutcome
  <1>1. /\ ledger \in Seq(Records) /\ Len(ledger) \in Nat /\ DOMAIN ledger = 1..Len(ledger)
    BY DEF TypeOK
  <1>2. CASE Publishes(id)
    <2>1. Len(ledger) > 0 /\ ledger[Len(ledger)] = Record(TRUE)
      BY <1>2 DEF Audited, PublishesLastRecord, Publishes
    <2>2. /\ Len(ledger) \in DOMAIN ledger /\ \A j \in DOMAIN ledger : j <= Len(ledger)
          /\ IsLifecycleRecord(Len(ledger), id)
      BY <1>1, <1>2, <2>1 DEF IsLifecycleRecord, Record, Publishes
    <2>3. LastRecorded(id) = RecordedStatus(Record(TRUE))
      BY <1>1, <2>1, <2>2, LastIsLast
    <2>4. RecordedStatus(Record(TRUE)) = Outcome
      BY DEF RecordedStatus, Record, RecordType, Outcome
    <2>5. QED
      BY <1>2, <2>3, <2>4
  <1>3. CASE ~Publishes(id)
    <2>1. ASSUME NEW i \in DOMAIN ledger, IsLifecycleRecord(i, id)
          PROVE  ~Unpublished(i)
      <3>1. SUFFICES ASSUME Unpublished(i) PROVE FALSE
        OBVIOUS
      <3>2. ledger[i] = Record(TRUE)
        BY <3>1 DEF Unpublished, Audited, PublishesLastRecord
      <3>3. QED
        BY <1>3, <2>1, <3>1, <3>2 DEF Unpublished, Publishes, IsLifecycleRecord, Record
    <2>2. Confirmed(id) = {i \in DOMAIN ledger : IsLifecycleRecord(i, id)}
      BY <2>1 DEF Confirmed
    <2>3. CASE Confirmed(id) = {} /\ entries[id].status = "CREATED"
      BY <1>3, <2>2, <2>3 DEF LastRecorded
    <2>4. ASSUME NEW i \in Confirmed(id), \A j \in Confirmed(id) : j <= i,
                 entries[id].status = RecordedStatus(ledger[i])
          PROVE  LastRecorded(id) = entries[id].status
      BY <1>1, <2>2, <2>4, LastIsLast
    <2>5. QED
      BY <1>3, <2>3, <2>4 DEF Audited, PublishedIsAudited
  <1>4. QED
    BY <1>2, <1>3

\* What is recorded, as a function of memory and the call.
RecordedMap == [id \in ProposalIds |-> LastRecorded(id)]
PublishedMap == [id \in ProposalIds |-> entries[id].status]

\* A change that is recorded goes along the lifecycle and is a change.
LEMMA OutcomeIsLegal ==
  ASSUME TypeOK, DecisionFollowsReads, SweepInv, call.step \in {"append", "publish"},
         call.code # "DUPLICATE_PROPOSAL"
  PROVE  /\ call.id \in ProposalIds
         /\ <<entries[call.id].status, Outcome>> \in Lifecycle
         /\ entries[call.id].status # Outcome
  <1>1. call.id \in ProposalIds
    BY DEF TypeOK
  <1>2. CASE call.kind = "submit"
    <2>1. entries[call.id].status = "CREATED"
      BY <1>1, <1>2 DEF SweepInv, AdmittedOnce
    <2>2. Outcome \in {"ACCEPTED", "REJECTED"}
      BY <1>2 DEF Outcome
    <2>3. QED
      BY <1>1, <2>1, <2>2 DEF Lifecycle
  <1>3. CASE call.kind # "submit"
    <2>1. entries[call.id].status = "ACCEPTED"
      BY <1>3 DEF DecisionFollowsReads
    <2>2. Outcome \in {"EXPIRED", "INVALIDATED"}
      BY <1>3 DEF Outcome, RetiredStatus
    <2>3. QED
      BY <1>1, <2>1, <2>2 DEF Lifecycle
  <1>4. QED
    BY <1>2, <1>3

LEMMA PublicationStep ==
  ASSUME TypeOK, DecisionFollowsReads, SweepInv, RecordedIsOutcome, RecordedIsOutcome',
         [Next]_vars
  PROVE  \/ \E id \in ProposalIds :
              /\ RecordedMap = PublishedMap /\ UNCHANGED PublishedMap
              /\ <<PublishedMap[id], Outcome>> \in Lifecycle
              /\ RecordedMap' = [RecordedMap EXCEPT ![id] = Outcome]
         \/ RecordedMap # PublishedMap /\ PublishedMap' = RecordedMap /\ UNCHANGED RecordedMap
         \/ UNCHANGED <<RecordedMap, PublishedMap>>
  <1>1. call \in Activation /\ Idle.step = "idle"
    BY DEF TypeOK, Idle
  <1>2. ASSUME entries' = entries,
               \/ call' = call
               \/ call.step # "publish" /\ call'.step # "publish"
               \/ call.code = "DUPLICATE_PROPOSAL" /\ call'.step # "publish"
        PROVE  UNCHANGED <<RecordedMap, PublishedMap>>
    <2>1. ASSUME NEW id \in ProposalIds PROVE LastRecorded(id)' = LastRecorded(id)
      BY <1>2 DEF RecordedIsOutcome, Publishes, Outcome
    <2>2. QED
      BY <1>2, <2>1 DEF RecordedMap, PublishedMap
  <1>3. CASE Elsewhere \/ UNCHANGED vars
    <2>1. call' = call /\ entries' = entries
      BY <1>3, MomentAdvances DEF vars, boardVars
    <2>2. QED
      BY <1>2, <2>1
  <1>4. CASE \/ \E id \in ProposalIds : Submit(id) \/ ValidateForUse(id)
             \/ InvalidateStale
    <2>1. entries' = entries /\ call.step # "publish" /\ call'.step # "publish"
      BY <1>4 DEF Submit, ValidateForUse, InvalidateStale, Begin, Idle
    <2>2. QED
      BY <1>2, <2>1
  <1>5. CASE ReadOrganization \/ ReadClock \/ SweepEntry \/ SweepReturns
    <2>1. entries' = entries /\ call.step # "publish" /\ call'.step # "publish"
      <3>1. CASE ReadOrganization \/ SweepReturns
        BY <1>1, <3>1 DEF ReadOrganization, SweepReturns, Activation
      <3>2. CASE ReadClock
        <4> DEFINE m == [call.read EXCEPT !.time = moment.time]
        <4> HIDE DEF m
        <4>1. /\ entries' = entries /\ call.step = "clock"
              /\ (DecideAdmission(m) \/ DecideUse(m) \/ StartSweep(m))
          BY <3>2 DEF ReadClock, m
        <4>2. QED
          BY <1>1, <4>1 DEF DecideAdmission, DecideUse, StartSweep, Activation
      <3>3. CASE SweepEntry
        BY <1>1, <3>3 DEF SweepEntry, Activation
      <3>4. QED
        BY <1>5, <3>1, <3>2, <3>3
    <2>2. QED
      BY <1>2, <2>1
  <1>6. CASE AppendAudit
    <2>1. entries' = entries /\ call.step = "append"
          /\ (call' = Idle \/ call' = [call EXCEPT !.step = "publish"])
      BY <1>6 DEF AppendAudit, AfterFailedAppend
    <2>2. CASE call' = Idle
      BY <1>1, <1>2, <2>1, <2>2
    <2>3. CASE call' = [call EXCEPT !.step = "publish"]
      <3>1. /\ call'.step = "publish" /\ call'.id = call.id /\ call'.code = call.code
            /\ call'.kind = call.kind /\ Outcome' = Outcome
        BY <1>1, <2>3 DEF Activation, Outcome
      <3>2. \A id \in ProposalIds :
              /\ LastRecorded(id) = entries[id].status
              /\ LastRecorded(id)' = IF id = call.id /\ call.code # "DUPLICATE_PROPOSAL"
                                     THEN Outcome ELSE entries[id].status
        BY <2>1, <3>1 DEF RecordedIsOutcome, Publishes
      <3>3. UNCHANGED PublishedMap /\ RecordedMap = PublishedMap
        BY <2>1, <3>2 DEF RecordedMap, PublishedMap
      <3>4. CASE call.code = "DUPLICATE_PROPOSAL"
        BY <3>2, <3>3, <3>4 DEF RecordedMap
      <3>5. CASE call.code # "DUPLICATE_PROPOSAL"
        <4>1. call.id \in ProposalIds /\ <<entries[call.id].status, Outcome>> \in Lifecycle
          BY <2>1, <3>5, OutcomeIsLegal
        <4>2. RecordedMap' = [RecordedMap EXCEPT ![call.id] = Outcome]
          BY <3>2, <3>5, <4>1 DEF RecordedMap
        <4>3. <<PublishedMap[call.id], Outcome>> \in Lifecycle
          BY <4>1 DEF PublishedMap
        <4>4. QED
          BY <3>3, <4>1, <4>2, <4>3
      <3>6. QED
        BY <3>4, <3>5
    <2>4. QED
      BY <2>1, <2>2, <2>3
  <1>7. CASE PublishDuplicate
    <2>1. entries' = entries /\ call.code = "DUPLICATE_PROPOSAL" /\ call'.step # "publish"
      BY <1>1, <1>7 DEF PublishDuplicate
    <2>2. QED
      BY <1>2, <2>1
  <1>8. CASE PublishAdmission \/ PublishRetirement
    <2>1. call.step = "publish" /\ call.code # "DUPLICATE_PROPOSAL"
          /\ call.kind \in {"submit", "validate", "sweep"}
      BY <1>8 DEF PublishAdmission, PublishRetirement, DecisionFollowsReads, StaleCodes
    <2>2. /\ call.id \in ProposalIds /\ entries[call.id].status # Outcome
      BY <2>1, OutcomeIsLegal
    <2>3. /\ entries'[call.id].status = Outcome
          /\ \A id \in ProposalIds : id # call.id => entries'[id] = entries[id]
          /\ call'.step # "publish"
      <3>1. CASE PublishAdmission
        BY <1>1, <2>2, <3>1 DEF PublishAdmission, Outcome, TypeOK
      <3>2. CASE PublishRetirement
        <4>1. /\ entries' = [entries EXCEPT ![call.id].status = RetiredStatus(call.code)]
              /\ Outcome = RetiredStatus(call.code)
          BY <3>2 DEF PublishRetirement, Outcome
        <4>2. call'.step # "publish"
          BY <1>1, <3>2 DEF PublishRetirement, Activation
        <4>3. QED
          BY <2>2, <4>1, <4>2 DEF TypeOK
      <3>3. QED
        BY <1>8, <3>1, <3>2
    <2>4. \A id \in ProposalIds :
            /\ LastRecorded(id) = IF id = call.id THEN Outcome ELSE entries[id].status
            /\ LastRecorded(id)' = entries'[id].status
            /\ entries'[id].status = IF id = call.id THEN Outcome ELSE entries[id].status
      BY <2>1, <2>3 DEF RecordedIsOutcome, Publishes
    <2>5. PublishedMap' = RecordedMap /\ UNCHANGED RecordedMap
      BY <2>4 DEF RecordedMap, PublishedMap
    <2>6. RecordedMap[call.id] # PublishedMap[call.id]
      BY <2>2, <2>4 DEF RecordedMap, PublishedMap
    <2>7. QED
      BY <2>5, <2>6
  <1>9. QED
    BY <1>3, <1>4, <1>5, <1>6, <1>7, <1>8 DEF Next, Proceed, Elsewhere

\* The board is an audited publication of the proposal lifecycle: under every
\* interleaving and failing append, a status is recorded before it is seen, one
\* at a time and only along the lifecycle.
THEOREM BoardPublishesWhatItRecorded == Spec => Publication!Spec
  <1>1. Init => Publication!Init
    <2>1. Init => \A id \in ProposalIds : LastRecorded(id) = "CREATED"
      BY DEF Init, LastRecorded
    <2>2. QED
      BY <2>1 DEF Init, Publication!Init
  <1>2. ASSUME TypeOK, DecisionFollowsReads, SweepInv, RecordedIsOutcome, RecordedIsOutcome',
               [Next]_vars
        PROVE  [Publication!Next]_(<<RecordedMap, PublishedMap>>)
    BY <1>2, PublicationStep
    DEF Publication!Next, Publication!Record, Publication!Publish, RecordedMap, PublishedMap
  <1>3. Init => Audited
    BY DEF Init, Idle, Audited, PublishesLastRecord, PublishedIsAudited, Confirmed
  <1>4. QED
    BY <1>1, <1>2, <1>3, RecordedSoFar, InitialInvariant, SweepInit, TypeStep, DecisionStep,
       AuditedStep, SweepStep, PTL DEF Spec, Publication!Spec, RecordedMap, PublishedMap

---------------------------------------------------------------------------
(* The rejection history *)

\* How many of these indices come up to i.
Rank(S, i) == Cardinality({j \in S : j <= i})

LEMMA RankOfNext ==
  ASSUME NEW n \in Nat, NEW S \in SUBSET (1..n), NEW m \in Nat, n < m
  PROVE  /\ IsFiniteSet(S)
         /\ Cardinality(S \cup {m}) = Cardinality(S) + 1
         /\ \A i \in S : /\ Rank(S \cup {m}, i) = Rank(S, i)
                         /\ Rank(S, i) \in 1..Cardinality(S)
         /\ Rank(S \cup {m}, m) = Cardinality(S) + 1
  <1>1. IsFiniteSet(S)
    <2>1. IsFiniteSet(1..n)
      BY FS_Interval
    <2>2. QED
      BY <2>1, FS_Subset
  <1>2. m \notin S /\ \A i \in S : i \in Nat /\ i < m
    OBVIOUS
  <1>3. Cardinality(S \cup {m}) = Cardinality(S) + 1 /\ Cardinality(S) \in Nat
    BY <1>1, <1>2, FS_AddElement, FS_CardinalityType
  <1>4. ASSUME NEW i \in S
        PROVE  Rank(S \cup {m}, i) = Rank(S, i) /\ Rank(S, i) \in 1..Cardinality(S)
    <2>0. ~(m <= i)
      BY <1>2
    <2>1. {j \in S \cup {m} : j <= i} = {j \in S : j <= i}
      BY <2>0
    <2>2. {j \in S : j <= i} \in SUBSET S /\ i \in {j \in S : j <= i}
      BY <1>2
    <2>3. /\ IsFiniteSet({j \in S : j <= i})
          /\ Cardinality({j \in S : j <= i}) <= Cardinality(S)
      BY <1>1, <2>2, FS_Subset
    <2>4. Cardinality({j \in S : j <= i}) \in Nat /\ Cardinality({j \in S : j <= i}) # 0
      BY <2>2, <2>3, FS_CardinalityType, FS_EmptySet
    <2>5. QED
      BY <1>3, <2>1, <2>3, <2>4 DEF Rank
  <1>5. {j \in S \cup {m} : j <= m} = S \cup {m}
    <2>1. \A j \in S \cup {m} : j <= m
      BY <1>2
    <2>2. QED
      BY <2>1
  <1>6. QED
    BY <1>1, <1>3, <1>4, <1>5 DEF Rank

\* What keeps the acknowledged rejections and the list keeps their agreement.
LEMMA SameRejections ==
  ASSUME RejectionHistoryMatchesLedger, rejections' = rejections, Rejected' = Rejected,
         \A i \in Rejected : ledger'[i] = ledger[i]
  PROVE  RejectionHistoryMatchesLedger'
  BY DEF RejectionHistoryMatchesLedger

\* Outside a publication the list waits for no record.
LEMMA QuietRejections ==
  ASSUME RejectionHistoryMatchesLedger, UNCHANGED <<rejections, ledger>>,
         call.step # "publish", call'.step # "publish"
  PROVE  RejectionHistoryMatchesLedger'
  <1>1. Rejected' = Rejected
    BY DEF Rejected, Unpublished
  <1>2. QED
    BY <1>1, SameRejections

LEMMA AppendRejections ==
  ASSUME TypeOK, RejectionHistoryMatchesLedger, AppendAudit
  PROVE  RejectionHistoryMatchesLedger'
  <1>1. /\ call.step = "append" /\ rejections' = rejections /\ Idle.step = "idle"
        /\ call \in Activation
    BY DEF AppendAudit, Idle, TypeOK
  <1>2. CASE ledger' = ledger /\ call' = Idle
    BY <1>1, <1>2, QuietRejections
  <1>3. ASSUME NEW r, ledger' = Append(ledger, r),
               ~r.acked \/ call'.step = "publish",
               call'.step = "idle" \/ call'.step = "publish"
        PROVE  RejectionHistoryMatchesLedger'
    <2>1. PICK n \in Nat : n = Len(ledger)
      BY DEF TypeOK
    <2>2. /\ DOMAIN ledger = 1..n /\ DOMAIN ledger' = 1..(n + 1) /\ Len(ledger') = n + 1
          /\ \A i \in 1..n : ledger'[i] = ledger[i]
          /\ ledger'[n + 1] = r
      BY <1>3, <2>1 DEF TypeOK
    <2>3. \A i \in 1..n : ~Unpublished(i) /\ ~Unpublished(i)'
      BY <1>1, <2>2 DEF Unpublished
    <2>4. ~ledger'[n + 1].acked \/ Unpublished(n + 1)'
      BY <1>3, <2>2 DEF Unpublished
    <2>5. \A i \in 1..(n + 1) : i \in 1..n \/ i = n + 1
      BY <2>1
    <2>6. Rejected' = Rejected
      BY <2>2, <2>3, <2>4, <2>5 DEF Rejected
    <2>7. Rejected \subseteq 1..n
      BY <2>2 DEF Rejected
    <2>8. QED
      BY <1>1, <2>2, <2>6, <2>7, SameRejections
  <1>4. QED
    <2>1. Record(FALSE).acked = FALSE
      BY DEF Record
    <2>2. [call EXCEPT !.step = "publish"].step = "publish"
      BY <1>1 DEF Activation
    <2>3. QED
      BY <1>1, <1>2, <1>3, <2>1, <2>2 DEF AppendAudit, AfterFailedAppend

\* A publication that lists a rejection, and one that does not.
LEMMA PublishRejections ==
  ASSUME TypeOK, DecisionFollowsReads, Audited, RejectionHistoryMatchesLedger,
         PublishDuplicate \/ PublishAdmission \/ PublishRetirement
  PROVE  RejectionHistoryMatchesLedger'
  <1>1. /\ call.step = "publish" /\ ledger' = ledger /\ call'.step # "publish"
        /\ call \in Activation /\ Idle.step = "idle"
    <2>1. call \in Activation /\ Idle.step = "idle"
      BY DEF TypeOK, Idle
    <2>2. [call EXCEPT !.step = "sweep", !.cursor = NextCursor(@)].step = "sweep"
      BY <2>1 DEF Activation
    <2>3. QED
      BY <2>1, <2>2 DEF PublishDuplicate, PublishAdmission, PublishRetirement
  <1>2. PICK n \in Nat : n = Len(ledger) /\ n > 0 /\ ledger[n] = Record(TRUE) /\ DOMAIN ledger = 1..n
    <2>1. Len(ledger) \in Nat /\ DOMAIN ledger = 1..Len(ledger)
      BY DEF TypeOK
    <2>2. QED
      BY <1>1, <2>1 DEF Audited, PublishesLastRecord
  <1>3. /\ \A i \in DOMAIN ledger : Unpublished(i) <=> i = n
        /\ \A i \in DOMAIN ledger : ~Unpublished(i)'
    BY <1>1, <1>2 DEF Unpublished
  <1>4. CASE RecordType = "PROPOSAL_REJECTED" /\ rejections' = Append(rejections, <<call.id, call.code>>)
    <2>1. Rejected' = Rejected \cup {n}
      BY <1>1, <1>2, <1>3, <1>4 DEF Rejected, Record
    <2>2. PICK m \in Nat : m + 1 = n
      BY <1>2
    <2>3. PICK S \in SUBSET (1..m) : S = Rejected
      <3>1. Rejected \subseteq 1..n /\ n \notin Rejected
        BY <1>2, <1>3 DEF Rejected
      <3>2. Rejected \subseteq 1..m
        BY <2>2, <3>1
      <3>3. QED
        BY <3>2
    <2>4. /\ Cardinality(Rejected') = Cardinality(Rejected) + 1
          /\ \A i \in Rejected : /\ Rank(Rejected', i) = Rank(Rejected, i)
                                 /\ Rank(Rejected, i) \in 1..Cardinality(Rejected)
          /\ Rank(Rejected', n) = Cardinality(Rejected) + 1
      <3>1. m < n
        BY <2>2
      <3>2. /\ Cardinality(S \cup {n}) = Cardinality(S) + 1
            /\ \A i \in S : /\ Rank(S \cup {n}, i) = Rank(S, i)
                           /\ Rank(S, i) \in 1..Cardinality(S)
            /\ Rank(S \cup {n}, n) = Cardinality(S) + 1
        BY <2>2, <2>3, <3>1, RankOfNext, Zenon
      <3>3. QED
        BY <2>1, <2>3, <3>2
    <2>5. /\ Len(rejections) = Cardinality(Rejected) /\ rejections \in Seq(ProposalIds \X Codes)
          /\ \A i \in Rejected : rejections[Rank(Rejected, i)] = <<ledger[i].id, ledger[i].code>>
      BY DEF RejectionHistoryMatchesLedger, TypeOK, Rank
    <2>6. /\ Len(rejections') = Len(rejections) + 1
          /\ \A k \in 1..Len(rejections) : rejections'[k] = rejections[k]
          /\ rejections'[Len(rejections) + 1] = <<call.id, call.code>>
      BY <1>4, <2>5
    <2>7. ASSUME NEW i \in Rejected'
          PROVE  rejections'[Rank(Rejected', i)] = <<ledger'[i].id, ledger'[i].code>>
      <3>1. CASE i \in Rejected
        BY <1>1, <2>4, <2>5, <2>6, <3>1
      <3>2. CASE i = n
        BY <1>1, <1>2, <2>4, <2>5, <2>6, <3>2 DEF Record
      <3>3. QED
        BY <2>1, <3>1, <3>2
    <2>8. QED
      BY <2>4, <2>5, <2>6, <2>7 DEF RejectionHistoryMatchesLedger, Rank
  <1>5. CASE RecordType # "PROPOSAL_REJECTED" /\ rejections' = rejections
    <2>1. Rejected' = Rejected
      BY <1>1, <1>2, <1>3, <1>5 DEF Rejected, Record
    <2>2. QED
      BY <1>1, <1>5, <2>1, SameRejections
  <1>6. QED
    <2>1. CASE PublishDuplicate
      <3>1. call.kind = "submit"
        BY <1>1, <2>1 DEF PublishDuplicate, DecisionFollowsReads, StaleCodes
      <3>2. QED
        BY <1>4, <2>1, <3>1 DEF PublishDuplicate, RecordType
    <2>2. CASE PublishAdmission
      BY <1>4, <1>5, <2>2 DEF PublishAdmission, RecordType
    <2>3. CASE PublishRetirement
      BY <1>5, <2>3 DEF PublishRetirement, RecordType
    <2>4. QED
      BY <2>1, <2>2, <2>3

LEMMA RejectionStep ==
  ASSUME TypeOK, DecisionFollowsReads, Audited, RejectionHistoryMatchesLedger, [Next]_vars
  PROVE  RejectionHistoryMatchesLedger'
  <1>0. call \in Activation /\ Idle.step = "idle"
    BY DEF TypeOK, Idle
  <1>1. CASE Elsewhere \/ UNCHANGED vars
    <2>1. call' = call /\ rejections' = rejections /\ ledger' = ledger
      BY <1>1, MomentAdvances DEF vars, boardVars
    <2>2. Rejected' = Rejected
      BY <2>1 DEF Rejected, Unpublished
    <2>3. QED
      BY <2>1, <2>2, SameRejections
  <1>2. CASE \/ \E id \in ProposalIds : Submit(id) \/ ValidateForUse(id)
             \/ InvalidateStale
    BY <1>2, QuietRejections DEF Submit, ValidateForUse, InvalidateStale, Begin, Idle
  <1>3. CASE ReadOrganization
    BY <1>0, <1>3, QuietRejections DEF ReadOrganization, Activation
  <1>4. CASE SweepReturns
    BY <1>0, <1>4, QuietRejections DEF SweepReturns
  <1>5. CASE ReadClock
    <2> DEFINE m == [call.read EXCEPT !.time = moment.time]
    <2> HIDE DEF m
    <2>1. /\ UNCHANGED <<rejections, ledger>> /\ call.step = "clock"
          /\ (DecideAdmission(m) \/ DecideUse(m) \/ StartSweep(m))
      BY <1>5 DEF ReadClock, m
    <2>2. call'.step \in {"idle", "append", "sweep"}
      BY <1>0, <2>1 DEF DecideAdmission, DecideUse, StartSweep, Activation
    <2>3. QED
      BY <2>1, <2>2, QuietRejections
  <1>6. CASE SweepEntry
    <2>1. UNCHANGED <<rejections, ledger>> /\ call.step = "sweep" /\ call'.step \in {"append", "sweep"}
      BY <1>6 DEF SweepEntry, TypeOK, Activation
    <2>2. QED
      BY <2>1, QuietRejections
  <1>7. CASE AppendAudit
    BY <1>7, AppendRejections
  <1>8. CASE PublishDuplicate \/ PublishAdmission \/ PublishRetirement
    BY <1>8, PublishRejections
  <1>9. QED
    BY <1>1, <1>2, <1>3, <1>4, <1>5, <1>6, <1>7, <1>8 DEF Next, Proceed, Elsewhere

\* The list of rejections is the acknowledged rejections of the ledger, one for
\* one and in order, whichever appends failed and however ids were used again.
THEOREM RejectionsAreTold == Spec => []RejectionHistoryMatchesLedger
  <1>1. Init => Audited
    BY DEF Init, Idle, Audited, PublishesLastRecord, PublishedIsAudited, Confirmed
  <1>2. Init => RejectionHistoryMatchesLedger
    <2>1. Init => Rejected = {} /\ Len(rejections) = 0
      BY DEF Init, Rejected
    <2>2. QED
      BY <2>1, FS_EmptySet DEF RejectionHistoryMatchesLedger
  <1>3. QED
    BY <1>1, <1>2, InitialInvariant, TypeStep, DecisionStep, AuditedStep, RejectionStep, PTL DEF Spec
===========================================================================
