---------------------------- MODULE ModeManager ----------------------------
(***************************************************************************)
(* organization/mode_manager.py and the human authorization in front of it *)
(* (policies/emergency_mode_authorization.py).                             *)
(*                                                                         *)
(* transition() runs under the mode lock: it decides, appends one record   *)
(* and publishes.  apply() runs under no lock: it reads the organization,  *)
(* appends the human decision and only then calls transition(), so other   *)
(* callers move the organization between those steps.                      *)
(***************************************************************************)
EXTENDS Integers, Sequences, Organization

CONSTANTS
  Callers,     \* threads that ask for a mode
  NoCaller,    \* nobody holds the mode lock
  MaxRecords   \* bound: records the ledger takes

ASSUME ModeManagerAssumption == NoCaller \notin Callers /\ MaxRecords \in Nat

VARIABLES
  org,      \* _state: [version, mode]
  holder,   \* owner of the mode lock
  calls,    \* caller -> what it is doing
  ledger    \* the ORGANIZATION_* and EMERGENCY_MODE_* records, in file order

vars == <<org, holder, calls, ledger>>

---------------------------------------------------------------------------
(* Values *)

Organizations == [version : Nat \ {0}, mode : Modes]

Outcomes == {"APPLIED", "NO_OP", "REJECTED"}
Steps == {"idle", "authorize", "wait", "append", "publish"}

\* A human decision can be about the emergency only.
Decisions == [approved : BOOLEAN, target : {"EMERGENCY"}]

Activation ==
  [step : Steps,
   human : {"nobody", "approved", "denied"},   \* apply(), and the decision
   target : Modes,
   outcome : Outcomes,
   candidate : Organizations]   \* what the next record of the call names

Start == [version |-> 1, mode |-> "NORMAL"]

Idle == [step |-> "idle", human |-> "nobody", target |-> "NORMAL",
         outcome |-> "NO_OP", candidate |-> Start]

RecordTypes ==
  {"AUTHORIZATION_APPROVED", "AUTHORIZATION_REJECTED",
   "TRANSITION", "TRANSITION_NO_OP", "TRANSITION_REJECTED"}

\* "acked" and "human" are history: whether append() returned, and what human
\* decision the call was made on.
Records ==
  [type : RecordTypes, by : Callers, org : Organizations,
   human : {"nobody", "approved", "denied"}, acked : BOOLEAN]

Outcome(target) ==
  IF target = org.mode THEN "NO_OP"
  ELSE IF <<org.mode, target>> \in LegalTransitions THEN "APPLIED" ELSE "REJECTED"

\* _build_organization of the next version; a request that changes nothing is
\* recorded under the current version.
Candidate(target) ==
  IF Outcome(target) = "APPLIED" THEN [version |-> org.version + 1, mode |-> target] ELSE org

---------------------------------------------------------------------------
(* The ledger *)

\* append() returns; or it raises before or after the line reached the file.
Appended(record) == Len(ledger) < MaxRecords /\ ledger' = Append(ledger, record)

AppendFails(record) ==
  UNCHANGED ledger \/ Appended([record EXCEPT !.acked = FALSE])

---------------------------------------------------------------------------
(* Requests *)

Request(c, target) ==
  /\ calls[c].step = "idle"
  /\ calls' = [calls EXCEPT ![c].step = "wait", ![c].target = target]
  /\ UNCHANGED <<org, holder, ledger>>

\* apply() reads the organization, for the record only.
Authorize(c, decision) ==
  /\ calls[c].step = "idle" /\ holder = NoCaller
  /\ calls' = [calls EXCEPT ![c].step = "authorize",
                            ![c].human = IF decision.approved THEN "approved" ELSE "denied",
                            ![c].target = decision.target, ![c].candidate = org]
  /\ UNCHANGED <<org, holder, ledger>>

AuthorizationRecord(c) ==
  [type |-> IF calls[c].human = "approved" THEN "AUTHORIZATION_APPROVED"
            ELSE "AUTHORIZATION_REJECTED",
   by |-> c, org |-> calls[c].candidate, human |-> calls[c].human, acked |-> TRUE]

\* Mutant: the audit error of the authorization is swallowed.
UnauditedAuthorization(c) == [calls[c] EXCEPT !.step = "wait"]

\* EmergencyModeAuthorizationAuditError leaves apply().
FailedAuthorization(c) == Idle

AppendAuthorization(c) ==
  /\ calls[c].step = "authorize"
  /\ \/ /\ Appended(AuthorizationRecord(c))
        /\ calls' = [calls EXCEPT ![c] = IF @.human = "approved" THEN [@ EXCEPT !.step = "wait"]
                                         ELSE Idle]
     \/ /\ AppendFails(AuthorizationRecord(c))
        /\ calls' = [calls EXCEPT ![c] = FailedAuthorization(c)]
  /\ UNCHANGED <<org, holder>>

---------------------------------------------------------------------------
(* transition(), under the mode lock *)

\* Mutant: no lock around the decision and its publication.
DecideUnlocked(c) ==
  /\ calls[c].step = "wait"
  /\ holder' = c
  /\ calls' = [calls EXCEPT ![c].step = "append", ![c].outcome = Outcome(calls[c].target),
                            ![c].candidate = Candidate(calls[c].target)]
  /\ UNCHANGED <<org, ledger>>

\* Take the lock, read the state, decide and build the candidate.
Decide(c) ==
  /\ calls[c].step = "wait" /\ holder = NoCaller
  /\ holder' = c
  /\ calls' = [calls EXCEPT ![c].step = "append", ![c].outcome = Outcome(calls[c].target),
                            ![c].candidate = Candidate(calls[c].target)]
  /\ UNCHANGED <<org, ledger>>

TransitionRecord(c) ==
  [type |-> CASE calls[c].outcome = "APPLIED" -> "TRANSITION"
              [] calls[c].outcome = "NO_OP" -> "TRANSITION_NO_OP"
              [] calls[c].outcome = "REJECTED" -> "TRANSITION_REJECTED",
   by |-> c, org |-> calls[c].candidate, human |-> calls[c].human, acked |-> TRUE]

Leave(c) == holder' = NoCaller /\ calls' = [calls EXCEPT ![c] = Idle]

\* Mutant: the candidate is published although the ledger refused it.
PublishAnyway(c) == holder' = holder /\ calls' = [calls EXCEPT ![c].step = "publish"]

\* OrganizationTransitionAuditError leaves transition().
AfterFailedAppend(c) == Leave(c)

AppendTransition(c) ==
  /\ calls[c].step = "append"
  /\ \/ /\ Appended(TransitionRecord(c))
        /\ IF calls[c].outcome = "APPLIED"
           THEN calls' = [calls EXCEPT ![c].step = "publish"] /\ UNCHANGED holder
           ELSE Leave(c)
     \/ AppendFails(TransitionRecord(c)) /\ AfterFailedAppend(c)
  /\ UNCHANGED org

Publish(c) ==
  /\ calls[c].step = "publish"
  /\ org' = calls[c].candidate
  /\ Leave(c)
  /\ UNCHANGED ledger

---------------------------------------------------------------------------
Init ==
  /\ org = Start
  /\ holder = NoCaller
  /\ calls = [c \in Callers |-> Idle]
  /\ ledger = <<>>

\* What a caller inside transition() does next.
Proceed(c) == AppendTransition(c) \/ Publish(c)

Next ==
  \E c \in Callers :
    \/ \E m \in Modes : Request(c, m)
    \/ \E decision \in Decisions : Authorize(c, decision)
    \/ AppendAuthorization(c)
    \/ Decide(c)
    \/ Proceed(c)

Spec == Init /\ [][Next]_vars

---------------------------------------------------------------------------
(* Properties *)

\* The type invariant: versions start at 1, and records carry an organization.
TypeOK ==
  /\ org \in Organizations
  /\ holder \in Callers \cup {NoCaller}
  /\ calls \in [Callers -> Activation]
  /\ ledger \in Seq(Records)

\* Whoever interleaves, each published organization has the next version and
\* is reached by a legal change: no version is skipped or used twice.
OrganizationMovesLegally ==
  [][ /\ org'.version = org.version + 1
      /\ <<org.mode, org'.mode>> \in LegalTransitions ]_org

IsTransition(r) == r.type = "TRANSITION" /\ r.acked

\* The organization that the first n records of the ledger lead to.
Replayed(n) ==
  LET transitions == {i \in 1..n : IsTransition(ledger[i])}
  IN  IF transitions = {} THEN Start
      ELSE ledger[CHOOSE i \in transitions : \A j \in transitions : j <= i].org

\* An auditor who replays the acknowledged transitions finds a gapless chain of
\* versions and legal changes from the initial organization to the one in force,
\* or to the one about to be published.
LedgerReplaysToOrganization ==
  /\ \A i \in DOMAIN ledger : IsTransition(ledger[i]) =>
       /\ ledger[i].org.version = Replayed(i - 1).version + 1
       /\ <<Replayed(i - 1).mode, ledger[i].org.mode>> \in LegalTransitions
  /\ IF \E c \in Callers : calls[c].step = "publish"
     THEN \E i \in DOMAIN ledger :
            /\ IsTransition(ledger[i]) /\ org = Replayed(i - 1)
            /\ \A j \in (i + 1)..Len(ledger) : ~IsTransition(ledger[j])
     ELSE org = Replayed(Len(ledger))

\* Nothing that apply() asks of the mode manager precedes its audit: before
\* every record of a transition made on a human decision, the last record of
\* that caller is an acknowledged approval.
AuthorizedBeforeTransition ==
  \A i \in DOMAIN ledger :
    ledger[i].type \in {"TRANSITION", "TRANSITION_NO_OP", "TRANSITION_REJECTED"}
      /\ ledger[i].human # "nobody" =>
      \E j \in 1..(i - 1) :
        /\ ledger[j].type = "AUTHORIZATION_APPROVED" /\ ledger[j].acked
        /\ ledger[j].by = ledger[i].by
        /\ \A k \in (j + 1)..(i - 1) : ledger[k].by # ledger[i].by

\* The mode manager is an audited publication of the organization: recorded
\* before published, one legal change and one version at a time, and nothing
\* is recorded before what was recorded is published.
Changes ==
  {<<[version |-> c[1], mode |-> c[2][1]], [version |-> c[1] + 1, mode |-> c[2][2]]>> :
     c \in (1..MaxRecords) \X LegalTransitions}

LastRecorded == Replayed(Len(ledger))

Publication == INSTANCE AuditedPublication WITH
  Keys <- {"organization"},
  Legal <- Changes,
  recorded <- [k \in {"organization"} |-> LastRecorded],
  published <- [k \in {"organization"} |-> org]

RecordsThenPublishes == Publication!Spec
============================================================================
