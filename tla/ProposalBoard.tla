--------------------------- MODULE ProposalBoard ---------------------------
(***************************************************************************)
(* coordination/proposal_board.py at the granularity of its locks.         *)
(*                                                                         *)
(* Every board call runs under the board's RLock, so at most one call is   *)
(* in progress: the variable "call" is the activation of the thread that   *)
(* holds the lock.  That lock excludes nobody else: WorldStateKernel and   *)
(* ModeManager have locks of their own and the clock has none, so between  *)
(* two reads of one call the world may be committed, the mode changed and  *)
(* the time move on.  A call therefore decides on three values read at     *)
(* three different instants.                                               *)
(***************************************************************************)
EXTENDS Integers, Sequences, FiniteSets, Organization

CONSTANTS
  ProposalIds,       \* the UUIDs planners use
  AgentRoles,        \* the roles planners write into proposals
  NoId,              \* "no proposal id yet" in an activation
  MaxWorldVersion,   \* bound: last world version the kernel commits
  MaxOrgVersion,     \* bound: last org version the mode manager publishes
  MaxTime,           \* bound: last clock reading
  MaxRecords         \* bound: ledger records written by the board

ASSUME ProposalBoardAssumption ==
  /\ AgentRoles # {} /\ AgentRoles \subseteq RegisteredRoles
  /\ NoId \notin ProposalIds
  /\ MaxWorldVersion \in Nat /\ MaxOrgVersion \in Nat \ {0}
  /\ MaxTime \in Nat /\ MaxRecords \in Nat

VARIABLES
  moment,      \* what is true now: [world, org, mode, time]
  entries,     \* _entries: id -> [status, proposal]; CREATED = not stored
  seen,        \* _seen_proposal_ids, in the insertion order of _entries
  rejections,  \* _rejection_history: <<id, code>> in order
  ledger,      \* the PROPOSAL_* records of the audit file, in order
  call,        \* the activation holding the board lock
  vouched      \* history: id -> the moment that justified its last approval

boardVars == <<entries, seen, rejections, ledger, call, vouched>>
vars == <<moment, boardVars>>

---------------------------------------------------------------------------
(* Values *)

Moment == [world : Nat, org : Nat \ {0}, mode : Modes, time : Nat]
Proposal == [world : Nat, org : Nat \ {0}, until : Nat, role : AgentRoles]

StaleCodes == {"STALE_WORLD_VERSION", "STALE_ORGANIZATION_VERSION",
               "EXPIRED_PROPOSAL", "INACTIVE_AGENT_ROLE"}
Codes == StaleCodes \cup {"DUPLICATE_PROPOSAL", "NONE"}

Terminal == {"REJECTED", "INVALIDATED", "EXPIRED"}
Statuses == Terminal \cup {"CREATED", "ACCEPTED"}

\* The moment of a freshly started runtime, and the proposal of an id that
\* was never submitted.
StartMoment == [world |-> 0, org |-> 1, mode |-> "NORMAL", time |-> 0]
Blank == [world |-> 0, org |-> 1, until |-> 0, role |-> CHOOSE r \in AgentRoles : TRUE]

\* Every check a proposal must pass, evaluated at one moment.
Current(p, m) ==
  /\ p.world = m.world
  /\ p.org = m.org
  /\ m.time < p.until
  /\ p.role \in ActiveRoles[m.mode]

---------------------------------------------------------------------------
(* Decisions *)

\* Mutants: the organization check is forgotten; expiry is one tick early.
StaleCodeIgnoringOrg(p, m) ==
  IF p.world # m.world THEN "STALE_WORLD_VERSION"
  ELSE IF p.until <= m.time THEN "EXPIRED_PROPOSAL"
  ELSE IF p.role \notin ActiveRoles[m.mode] THEN "INACTIVE_AGENT_ROLE"
  ELSE "NONE"

StaleCodeEarlyExpiry(p, m) ==
  IF p.world # m.world THEN "STALE_WORLD_VERSION"
  ELSE IF p.org # m.org THEN "STALE_ORGANIZATION_VERSION"
  ELSE IF p.until <= m.time + 1 THEN "EXPIRED_PROPOSAL"
  ELSE IF p.role \notin ActiveRoles[m.mode] THEN "INACTIVE_AGENT_ROLE"
  ELSE "NONE"

\* The first check that fails, in the order of the code.
StaleCode(p, m) ==
  IF p.world # m.world THEN "STALE_WORLD_VERSION"
  ELSE IF p.org # m.org THEN "STALE_ORGANIZATION_VERSION"
  ELSE IF p.until <= m.time THEN "EXPIRED_PROPOSAL"
  ELSE IF p.role \notin ActiveRoles[m.mode] THEN "INACTIVE_AGENT_ROLE"
  ELSE "NONE"

IsSeen(id) == \E i \in DOMAIN seen : seen[i] = id

\* Mutant: an id already admitted is admitted again.
AdmissionCodeForgettingIds(id, p, m) == StaleCode(p, m)

AdmissionCode(id, p, m) == IF IsSeen(id) THEN "DUPLICATE_PROPOSAL" ELSE StaleCode(p, m)

RetiredStatus(code) == IF code = "EXPIRED_PROPOSAL" THEN "EXPIRED" ELSE "INVALIDATED"

---------------------------------------------------------------------------
(* Activations *)

Steps == {"idle", "organization", "clock", "sweep", "append", "publish"}

Activation ==
  [kind : {"none", "submit", "validate", "sweep"}, step : Steps,
   id : ProposalIds \cup {NoId}, proposal : Proposal, code : Codes,
   cursor : Nat,      \* position of the sweep in _entries
   began : Moment,    \* history: everything that was true at the world read
   read : Moment]     \* the three values the call has read so far

Idle ==
  [kind |-> "none", step |-> "idle", id |-> NoId, proposal |-> Blank, code |-> "NONE",
   cursor |-> 1, began |-> StartMoment, read |-> StartMoment]

\* Take the board lock and read the world version.
Begin(kind, id, p) ==
  /\ call.step = "idle"
  /\ call' = [Idle EXCEPT !.kind = kind, !.step = "organization", !.id = id,
                          !.proposal = p, !.began = moment,
                          !.read.world = moment.world]
  /\ UNCHANGED <<moment, entries, seen, rejections, ledger, vouched>>

\* A planner read the versions it puts into a proposal before it submits it.
Plannable ==
  [world : 0..moment.world, org : 1..moment.org, until : 1..(MaxTime + 1),
   role : AgentRoles]

Submit(id) == \E p \in Plannable : Begin("submit", id, p)

\* An unknown id raises ProposalNotFoundError before anything is read.
ValidateForUse(id) == IsSeen(id) /\ Begin("validate", id, entries[id].proposal)

InvalidateStale == Begin("sweep", NoId, Blank)

ReadOrganization ==
  /\ call.step = "organization"
  /\ call' = [call EXCEPT !.step = "clock", !.read.org = moment.org,
                          !.read.mode = moment.mode]
  /\ UNCHANGED <<moment, entries, seen, rejections, ledger, vouched>>

\* Mutants: a step of two entries; a step that does not advance.
SkippingCursor(c) == c + 2
StuckCursor(c) == c

NextCursor(c) == c + 1

\* The clock is the last of the three reads; the decision is local to it.
DecideAdmission(m) ==
  /\ call.kind = "submit"
  /\ call' = [call EXCEPT !.step = "append", !.read = m,
                          !.code = AdmissionCode(call.id, call.proposal, m)]
  /\ UNCHANGED vouched

DecideUse(m) ==
  /\ call.kind = "validate"
  /\ \/ /\ entries[call.id].status # "ACCEPTED"   \* terminal: idempotent read
        /\ call' = Idle
        /\ UNCHANGED vouched
     \/ /\ entries[call.id].status = "ACCEPTED"
        /\ StaleCode(call.proposal, m) = "NONE"    \* still usable: pure read
        /\ call' = Idle
        /\ vouched' = [vouched EXCEPT ![call.id] = call.began]
     \/ /\ entries[call.id].status = "ACCEPTED"
        /\ StaleCode(call.proposal, m) # "NONE"
        /\ call' = [call EXCEPT !.step = "append", !.read = m,
                                !.code = StaleCode(call.proposal, m)]
        /\ UNCHANGED vouched

StartSweep(m) ==
  /\ call.kind = "sweep"
  /\ call' = [call EXCEPT !.step = "sweep", !.read = m]
  /\ UNCHANGED vouched

ReadClock ==
  /\ call.step = "clock"
  /\ LET m == [call.read EXCEPT !.time = moment.time]
     IN  DecideAdmission(m) \/ DecideUse(m) \/ StartSweep(m)
  /\ UNCHANGED <<moment, entries, seen, rejections, ledger>>

\* One entry of the sweep: pass over it, or take it up for retirement.
SweepEntry ==
  /\ call.step = "sweep"
  /\ call.cursor \in DOMAIN seen
  /\ LET id == seen[call.cursor]
         p  == entries[id].proposal
         stale == entries[id].status = "ACCEPTED" /\ StaleCode(p, call.read) # "NONE"
     IN  \/ /\ ~stale
            /\ call' = [call EXCEPT !.cursor = NextCursor(@)]
         \/ /\ stale
            /\ call' = [call EXCEPT !.step = "append", !.id = id, !.proposal = p,
                                    !.code = StaleCode(p, call.read)]
  /\ UNCHANGED <<moment, entries, seen, rejections, ledger, vouched>>

SweepReturns ==
  /\ call.step = "sweep"
  /\ call.cursor \notin DOMAIN seen
  /\ call' = Idle
  /\ UNCHANGED <<moment, entries, seen, rejections, ledger, vouched>>

---------------------------------------------------------------------------
(* Ledger first, memory second *)

RecordType ==
  IF call.kind # "submit" THEN "PROPOSAL_INVALIDATED"
  ELSE IF call.code = "NONE" THEN "PROPOSAL_ACCEPTED" ELSE "PROPOSAL_REJECTED"

\* "acked" is history: the file does not tell whether append() returned.
Record(acked) == [type |-> RecordType, id |-> call.id, code |-> call.code, acked |-> acked]

Records ==
  [type : {"PROPOSAL_ACCEPTED", "PROPOSAL_REJECTED", "PROPOSAL_INVALIDATED"},
   id : ProposalIds, code : Codes, acked : BOOLEAN]

\* Mutant: the audit error is swallowed and the outcome published anyway.
AfterFailedAppendPublishing == [call EXCEPT !.step = "publish"]

\* ProposalAuditError leaves the call; a sweep loses its remaining entries.
AfterFailedAppend == Idle

\* append() returns; or it raises before or after the line reached the file.
AppendAudit ==
  /\ call.step = "append"
  /\ \/ /\ Len(ledger) < MaxRecords
        /\ ledger' = Append(ledger, Record(TRUE))
        /\ call' = [call EXCEPT !.step = "publish"]
     \/ /\ Len(ledger) < MaxRecords
        /\ ledger' = Append(ledger, Record(FALSE))
        /\ call' = AfterFailedAppend
     \/ /\ call' = AfterFailedAppend
        /\ UNCHANGED ledger
  /\ UNCHANGED <<moment, entries, seen, rejections, vouched>>

\* Mutant: only first-time rejections are remembered.
PublishDuplicateUnlisted ==
  /\ call.step = "publish" /\ call.code = "DUPLICATE_PROPOSAL"
  /\ call' = Idle
  /\ UNCHANGED <<moment, entries, seen, rejections, ledger, vouched>>

\* A duplicate is listed as rejected; the entry of the id is left alone.
PublishDuplicate ==
  /\ call.step = "publish" /\ call.code = "DUPLICATE_PROPOSAL"
  /\ rejections' = Append(rejections, <<call.id, call.code>>)
  /\ call' = Idle
  /\ UNCHANGED <<moment, entries, seen, ledger, vouched>>

PublishAdmission ==
  /\ call.step = "publish" /\ call.kind = "submit" /\ call.code # "DUPLICATE_PROPOSAL"
  /\ LET accepted == call.code = "NONE"
     IN  /\ entries' = [entries EXCEPT ![call.id] =
                           [status |-> IF accepted THEN "ACCEPTED" ELSE "REJECTED",
                            proposal |-> call.proposal]]
         /\ rejections' = IF accepted THEN rejections
                          ELSE Append(rejections, <<call.id, call.code>>)
         /\ vouched' = IF accepted THEN [vouched EXCEPT ![call.id] = call.began]
                       ELSE vouched
  /\ seen' = Append(seen, call.id)
  /\ call' = Idle
  /\ UNCHANGED <<moment, ledger>>

PublishRetirement ==
  /\ call.step = "publish" /\ call.kind \in {"validate", "sweep"}
  /\ entries' = [entries EXCEPT ![call.id].status = RetiredStatus(call.code)]
  /\ call' = IF call.kind = "sweep"
             THEN [call EXCEPT !.step = "sweep", !.cursor = NextCursor(@)]
             ELSE Idle
  /\ UNCHANGED <<moment, seen, rejections, ledger, vouched>>

---------------------------------------------------------------------------
(* The rest of the runtime, free to move while a board call is running *)

CommitWorld ==
  /\ moment.world < MaxWorldVersion
  /\ moment' = [moment EXCEPT !.world = @ + 1]
  /\ UNCHANGED boardVars

TransitionMode(target) ==
  /\ moment.org < MaxOrgVersion
  /\ <<moment.mode, target>> \in LegalTransitions
  /\ moment' = [moment EXCEPT !.org = @ + 1, !.mode = target]
  /\ UNCHANGED boardVars

Tick ==
  /\ moment.time < MaxTime
  /\ moment' = [moment EXCEPT !.time = @ + 1]
  /\ UNCHANGED boardVars

---------------------------------------------------------------------------
Init ==
  /\ moment = StartMoment
  /\ entries = [id \in ProposalIds |-> [status |-> "CREATED", proposal |-> Blank]]
  /\ seen = <<>> /\ rejections = <<>> /\ ledger = <<>>
  /\ call = Idle
  /\ vouched = [id \in ProposalIds |-> StartMoment]

\* The steps of the thread that holds the board lock.
Proceed ==
  \/ ReadOrganization \/ ReadClock
  \/ SweepEntry \/ SweepReturns
  \/ AppendAudit
  \/ PublishDuplicate \/ PublishAdmission \/ PublishRetirement

Next ==
  \/ \E id \in ProposalIds : Submit(id) \/ ValidateForUse(id)
  \/ InvalidateStale
  \/ Proceed
  \/ CommitWorld
  \/ \E m \in Modes : TransitionMode(m)
  \/ Tick

Spec == Init /\ [][Next]_vars

\* A thread that holds the lock runs on: nothing inside the call blocks.
FairSpec == Spec /\ WF_vars(Proceed)

---------------------------------------------------------------------------
(* Properties *)

\* The type invariant: an activation that decides or records names a proposal.
TypeOK ==
  /\ moment \in Moment
  /\ entries \in [ProposalIds -> [status : Statuses, proposal : Proposal]]
  /\ seen \in Seq(ProposalIds)
  /\ rejections \in Seq(ProposalIds \X Codes)
  /\ ledger \in Seq(Records)
  /\ call \in Activation
  /\ call.kind \in {"submit", "validate"} \/ call.step \in {"append", "publish"} =>
       call.id \in ProposalIds
  /\ vouched \in [ProposalIds -> Moment]

\* The world version, the organization and the clock are read at three
\* different instants, yet every proposal the board ever accepted, or last
\* confirmed for use, passed all five checks at one single instant inside the
\* call that said so: an approval is never pieced together from a world and an
\* organization that were not in force together.
AcceptedWasCurrent ==
  \A id \in ProposalIds :
    entries[id].status \in {"ACCEPTED", "INVALIDATED", "EXPIRED"} =>
      Current(entries[id].proposal, vouched[id])

\* Ids are consumed for good, so a rejection or a retirement must never hit a
\* proposal that is, or will again be, usable.
TerminalStaysUnusable ==
  \A id \in ProposalIds :
    entries[id].status \in Terminal => ~Current(entries[id].proposal, moment)

\* The record of a change that is about to be published.
Unpublished(i) == call.step = "publish" /\ i = Len(ledger)

\* An acknowledged record that is about the lifecycle of this id.
IsLifecycleRecord(i, id) ==
  ledger[i].acked /\ ledger[i].id = id /\ ledger[i].code # "DUPLICATE_PROPOSAL"

RecordedStatus(r) ==
  CASE r.type = "PROPOSAL_ACCEPTED" -> "ACCEPTED"
    [] r.type = "PROPOSAL_REJECTED" -> "REJECTED"
    [] OTHER -> RetiredStatus(r.code)

\* The acknowledged records about this id whose change is already in memory.
Confirmed(id) == {i \in DOMAIN ledger : IsLifecycleRecord(i, id) /\ ~Unpublished(i)}

\* Ledger first, memory second, also across failed appends and failing sweeps:
\* the status of every proposal is what its last acknowledged record says, and
\* a proposal without an acknowledged record is not stored at all.
PublishedIsAudited ==
  \A id \in ProposalIds :
    \/ Confirmed(id) = {} /\ entries[id].status = "CREATED"
    \/ \E i \in Confirmed(id) : /\ \A j \in Confirmed(id) : j <= i
                                /\ entries[id].status = RecordedStatus(ledger[i])

\* The acknowledged rejections that are already in memory.
Rejected ==
  {i \in DOMAIN ledger :
     ledger[i].acked /\ ledger[i].type = "PROPOSAL_REJECTED" /\ ~Unpublished(i)}

\* list_rejected() and the audit file tell the same story: every acknowledged
\* PROPOSAL_REJECTED record, duplicates included, in the same order.
RejectionHistoryMatchesLedger ==
  /\ Len(rejections) = Cardinality(Rejected)
  /\ \A i \in Rejected :
       rejections[Cardinality({j \in Rejected : j <= i})] = <<ledger[i].id, ledger[i].code>>

\* invalidate_stale() passes over nothing: every entry behind its cursor that
\* is still accepted satisfies all checks at the values the sweep read.
SweepLeavesNoStale ==
  call.step = "sweep" =>
    \A i \in DOMAIN seen :
      i < call.cursor /\ entries[seen[i]].status = "ACCEPTED" =>
        StaleCode(entries[seen[i]].proposal, call.read) = "NONE"

\* Every call returns, whatever the world, the modes, the clock and the ledger
\* do meanwhile; the loop of invalidate_stale() ends.
CallsReturn == call.step # "idle" ~> call.step = "idle"

\* The board is an audited publication of the proposal lifecycle: a status is
\* recorded before it is published and moves only along the lifecycle, which
\* has no way out of a terminal status and no way back.
LastRecorded(id) ==
  LET mine == {i \in DOMAIN ledger : IsLifecycleRecord(i, id)}
  IN  IF mine = {} THEN "CREATED"
      ELSE RecordedStatus(ledger[CHOOSE i \in mine : \A j \in mine : j <= i])

Lifecycle ==
  {<<"CREATED", "ACCEPTED">>, <<"CREATED", "REJECTED">>,
   <<"ACCEPTED", "INVALIDATED">>, <<"ACCEPTED", "EXPIRED">>}

Publication == INSTANCE AuditedPublication WITH
  Keys <- ProposalIds,
  Start <- "CREATED",
  Legal <- Lifecycle,
  recorded <- [id \in ProposalIds |-> LastRecorded(id)],
  published <- [id \in ProposalIds |-> entries[id].status]

RecordsThenPublishes == Publication!FairSpec
===========================================================================
